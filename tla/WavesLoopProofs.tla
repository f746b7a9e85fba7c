---------------------------- MODULE WavesLoopProofs ----------------------------
(***************************************************************************)
(* Proofs about WavesLoop, for plans of any length: the loops of the       *)
(* orchestrator lose no step, respect the dependencies, and give the waves *)
(* that Waves defines directly and Missions launches.                      *)
(***************************************************************************)
EXTENDS WavesLoop, WavesProofs, SequenceTheorems

-----------------------------------------------------------------------------
(* The inductive invariant.  A level of the loop is the set of steps with  *)
(* one depth, and the steps leave the levels in the order of their depth,  *)
(* then of their number.                                                   *)

Deps == [s \in Steps |-> Resolved(s)]
Depth == Level(Deps, base)
At(n) == {s \in base : Depth[s] = n}
Before(t, s) == Depth[t] < Depth[s] \/ (Depth[t] = Depth[s] /\ t < s)
Sooner(t, s) ==
    \/ Depth[t] < Depth[s]
    \/ Depth[t] = Depth[s] /\ Block(Depth, risky, t) < Block(Depth, risky, s)

\* The steps placed in the first i waves of ws, and what SameWaves says of it.
PlacedBy(ws, i) == UNION {ws[j] : j \in 1..i}
Same(ws) == \A i \in DOMAIN ws :
                ws[i] = NextWave(Deps, risky, base, base \ PlacedBy(ws, i - 1))
Done == batch \cup Placed(Len(waves))

Shape ==
    /\ base \subseteq Steps
    /\ levels \in Seq(SUBSET Steps)
    /\ waves \in Seq(SUBSET Steps)

Partition ==
    /\ pending \subseteq base
    /\ Done \subseteq base \ pending
    /\ batch \cap Placed(Len(waves)) = {}
    /\ InLevels = base \ (pending \cup Done)

\* The levels left are those of depth g and more; the steps placed or in the
\* batch come before them, and no risky step came after one of the batch.
Order(g) ==
    /\ \A i \in DOMAIN levels : levels[i] \subseteq At(g + i - 1)
    /\ batch \subseteq At(g)
    /\ pending = {s \in base : Depth[s] >= g + Len(levels)}
    /\ pending # {} => g = 0 /\ batch = {} /\ waves = <<>>
    /\ \A s \in InLevels, t \in Done : Before(t, s)
    /\ \A t \in batch, r \in Done : Depth[r] = Depth[t] /\ r >= t => ~risky[r]

LoopInv == Shape /\ Partition /\ (\E g \in Nat : Order(g)) /\ SameWaves

-----------------------------------------------------------------------------
(* Depths.                                                                 *)

LEMMA StepNumbers == N \in Nat /\ Steps \subseteq Nat /\ Steps \subseteq 0..N /\ IsFiniteSet(Steps)
BY WavesAssumption, FS_Interval DEF Steps

LEMMA ResolvedEarlier == ASSUME NEW s \in Steps PROVE Resolved(s) \subseteq 1..(s - 1)
BY StepNumbers DEF Resolved, Steps

LEMMA Depths ==
  ASSUME base \subseteq Steps
  PROVE  /\ base \in SUBSET (0..N) /\ Earlier(Deps, base)
         /\ Depth \in [base -> Nat]
         /\ \A s \in base :
               /\ Deps[s] = Resolved(s)
               /\ Depth[s] = 0 <=> Resolved(s) \cap base = {}
               /\ \A d \in Resolved(s) \cap base : Depth[d] < Depth[s]
               /\ Depth[s] # 0 => \E d \in Resolved(s) \cap base : Depth[s] = 1 + Depth[d]
<1>1. base \in SUBSET (0..N) /\ N \in Nat
  BY StepNumbers
<1>2. \A s \in base : Deps[s] = Resolved(s)
  BY DEF Deps
<1>3. Earlier(Deps, base)
  <2>1. ASSUME NEW s \in base, NEW d \in Deps[s] \cap base PROVE d < s
    <3>1. d \in 1..(s - 1) /\ s \in Nat
      BY <1>1, <1>2, ResolvedEarlier
    <3> QED BY <3>1
  <2> QED BY <2>1 DEF Earlier
<1>4. /\ Depth \in [base -> Nat]
      /\ \A s \in base :
            /\ Depth[s] = 0 <=> Deps[s] \cap base = {}
            /\ \A d \in Deps[s] \cap base : Depth[d] < Depth[s]
            /\ Depth[s] # 0 => \E d \in Deps[s] \cap base : Depth[s] = 1 + Depth[d]
  BY <1>1, <1>3, LevelsAreTopological DEF Depth
<1> QED BY <1>1, <1>2, <1>3, <1>4

LEMMA SmallestIsMember ==
  ASSUME NEW S \in SUBSET Nat, S # {}
  PROVE  Smallest(S) \in S /\ \A t \in S : Smallest(S) <= t
<1>1. \E s \in S : \A t \in S : s <= t
  BY LeastNumber
<1> QED BY <1>1 DEF Smallest

\* The plan, and so the depths, never change.
LEMMA PlanStays ==
  ASSUME UNCHANGED plan
  PROVE  /\ Deps' = Deps /\ Depth' = Depth /\ base' = base /\ risky' = risky
         /\ \A s : Resolved(s)' = Resolved(s)
<1>1. base' = base /\ risky' = risky /\ declared' = declared
  BY DEF plan
<1>2. \A s : Resolved(s)' = Resolved(s)
  BY <1>1 DEF Resolved
<1>3. Deps' = Deps
  BY <1>2 DEF Deps
<1> QED BY <1>1, <1>2, <1>3 DEF Depth

LEMMA SameStays ==
  ASSUME UNCHANGED plan, Same(waves')
  PROVE  SameWaves'
<1>1. [s \in Steps |-> Resolved(s)]' = Deps /\ base' = base /\ risky' = risky
  BY PlanStays DEF Deps
<1>2. \A i : Placed(i)' = PlacedBy(waves', i)
  BY DEF Placed, PlacedBy
<1> QED BY <1>1, <1>2 DEF SameWaves, Same

-----------------------------------------------------------------------------
(* Waves.                                                                  *)

\* A wave is appended to the others.
LEMMA WaveAppended ==
  ASSUME NEW ws \in Seq(SUBSET Steps), Same(ws), NEW X \in SUBSET Steps,
         X = NextWave(Deps, risky, base, base \ PlacedBy(ws, Len(ws)))
  PROVE  /\ Append(ws, X) \in Seq(SUBSET Steps) /\ Same(Append(ws, X))
         /\ PlacedBy(Append(ws, X), Len(Append(ws, X))) = PlacedBy(ws, Len(ws)) \cup X
<1> DEFINE n == Len(ws)
           new == Append(ws, X)
<1>1. /\ n \in Nat /\ new \in Seq(SUBSET Steps) /\ Len(new) = n + 1
      /\ DOMAIN ws = 1..n /\ DOMAIN new = 1..(n + 1)
      /\ new[n + 1] = X /\ \A i \in 1..n : new[i] = ws[i]
  <2>1. n \in Nat /\ new \in Seq(SUBSET Steps) /\ Len(new) = n + 1
    BY LenProperties, AppendProperties
  <2>2. DOMAIN ws = 1..n /\ DOMAIN new = 1..(n + 1)
    BY <2>1, LenProperties
  <2>3. new[n + 1] = X /\ \A i \in 1..n : new[i] = ws[i]
    BY AppendProperties
  <2> QED BY <2>1, <2>2, <2>3
<1> HIDE DEF new, n
<1>2. \A i \in 1..(n + 1) : \A j \in 1..(i - 1) : j \in 1..n
  BY <1>1
<1>3. ASSUME NEW i \in 1..(n + 1) PROVE PlacedBy(new, i - 1) = PlacedBy(ws, i - 1)
  <2>1. \A j \in 1..(i - 1) : new[j] = ws[j]
    BY <1>1, <1>2
  <2> QED BY <2>1 DEF PlacedBy
<1>4. (n + 1) - 1 = n /\ n + 1 \in 1..(n + 1) /\ \A i \in 1..(n + 1) : i \in 1..n \/ i = n + 1
  BY <1>1
<1>5. new[n + 1] = NextWave(Deps, risky, base, base \ PlacedBy(new, (n + 1) - 1))
  BY <1>1, <1>3, <1>4 DEF n
<1>6. \A i \in 1..n : new[i] = NextWave(Deps, risky, base, base \ PlacedBy(new, i - 1))
  BY <1>1, <1>3 DEF Same
<1>7. Same(new)
  BY <1>1, <1>4, <1>5, <1>6 DEF Same
<1>8. PlacedBy(new, n + 1) = PlacedBy(ws, n) \cup X
  <2>1. 1..(n + 1) = 1..n \cup {n + 1}
    BY <1>1
  <2> QED BY <1>1, <2>1 DEF PlacedBy
<1> QED BY <1>1, <1>7, <1>8 DEF n, new

\* A safe step that was gone through belongs to the block of the batch; blocks
\* are those of the order in which steps leave their level.
LEMMA BatchIsOneBlock ==
  ASSUME Shape, Partition, pending = {}, NEW g \in Nat, Order(g),
         NEW s \in batch, NEW t \in batch
  PROVE  /\ Depth[s] = Depth[t]
         /\ Block(Depth, risky, s) = Block(Depth, risky, t)
<1>1. s \in base /\ t \in base /\ Depth[s] = g /\ Depth[t] = g /\ s \in Done /\ t \in Done
  BY DEF Order, At, Done
<1>2. DOMAIN Depth = base /\ base \subseteq Nat
  BY Depths, StepNumbers DEF Shape
<1>3. ~risky[s] /\ ~risky[t]
  <2>1. s >= s /\ t >= t
    BY <1>1, <1>2
  <2> QED BY <1>1, <2>1 DEF Order
<1>4. ASSUME NEW u \in base, Depth[u] = g, risky[u], NEW a \in batch, NEW b \in batch, u < a
      PROVE  u < b
  <2>1. a \in Done /\ Depth[a] = g /\ Depth[b] = g /\ a \in Nat /\ b \in Nat /\ u \in Nat
    BY <1>2 DEF Order, At, Done
  <2>2. u \in Done
    <3> SUFFICES ASSUME u \notin Done PROVE FALSE
      OBVIOUS
    <3>1. u \in InLevels
      BY DEF Partition
    <3>2. Before(a, u)
      BY <2>1, <3>1 DEF Order
    <3> QED BY <1>4, <2>1, <3>2 DEF Before
  <2>3. ~(u >= b)
    BY <1>4, <2>1, <2>2 DEF Order
  <2> QED BY <2>1, <2>3
<1>5. \A u \in DOMAIN Depth : Depth[u] = Depth[t] /\ risky[u] => (u < s <=> u < t)
  BY <1>1, <1>2, <1>4
<1> QED BY <1>1, <1>2, <1>3, <1>5, SafeStepsJoin

\* The open batch, if any, is the first wave of what is left, when all the rest
\* comes after its block.
LEMMA FlushedIsWave ==
  ASSUME Shape, Partition, pending = {}, NEW g \in Nat, Order(g), SameWaves,
         \A t \in batch, u \in InLevels : Sooner(t, u)
  PROVE  /\ Flushed \in Seq(SUBSET Steps) /\ Same(Flushed)
         /\ PlacedBy(Flushed, Len(Flushed)) = Done
<1>0. /\ waves \in Seq(SUBSET Steps) /\ Same(waves)
      /\ PlacedBy(waves, Len(waves)) = Placed(Len(waves))
  BY DEF Shape, SameWaves, Same, Placed, PlacedBy, Deps
<1>1. CASE batch = {}
  BY <1>0, <1>1 DEF Flushed, Done
<1>2. CASE batch # {}
  <2> DEFINE rest == base \ Placed(Len(waves))
  <2>1. rest = batch \cup InLevels /\ batch \subseteq rest /\ batch \in SUBSET Steps
    BY DEF Partition, Done, Shape
  <2>2. \A u \in base : Depth[u] \in Nat /\ Block(Depth, risky, u) \in Nat
    <3>1. Depth \in [base -> Nat] /\ base \subseteq 0..N /\ N \in Nat
      BY Depths, StepNumbers DEF Shape
    <3> QED BY <3>1, BlockValue
  <2>3. ASSUME NEW t \in batch, NEW u \in rest PROVE ~Sooner(u, t)
    <3>1. t \in base /\ u \in base
      BY <2>1
    <3>2. CASE u \in batch
      <4>1. Depth[t] = Depth[u] /\ Block(Depth, risky, t) = Block(Depth, risky, u)
        BY <3>2, BatchIsOneBlock
      <4> QED BY <2>2, <3>1, <4>1 DEF Sooner
    <3>3. CASE u \in InLevels
      <4>1. Sooner(t, u)
        BY <3>3
      <4> QED BY <2>2, <3>1, <4>1 DEF Sooner
    <3> QED BY <2>1, <3>2, <3>3
  <2>4. NextWave(Deps, risky, base, rest) = {s \in rest : \A u \in rest : ~Sooner(u, s)}
    BY DEF NextWave, Sooner, Depth
  <2>5. \A u \in InLevels : \E t \in rest : Sooner(t, u)
    BY <1>2, <2>1
  <2>6. batch = NextWave(Deps, risky, base, rest)
    <3> HIDE DEF rest
    <3> QED BY <2>1, <2>3, <2>4, <2>5
  <2>7. Flushed = Append(waves, batch)
    BY <1>2 DEF Flushed
  <2>8. PlacedBy(waves, Len(waves)) \cup batch = Done
    BY <1>0 DEF Done
  <2> QED BY <1>0, <2>1, <2>6, <2>7, <2>8, WaveAppended
<1> QED BY <1>1, <1>2

-----------------------------------------------------------------------------
(* Every action keeps the invariant.                                       *)

\* The steps that depend on no pending step are those of the next depth.
LEMMA EligibleDepth ==
  ASSUME base \subseteq Steps, NEW n \in Nat, pending = {s \in base : Depth[s] >= n},
         pending # {}
  PROVE  Eligible = At(n) /\ Eligible = {s \in pending : Depth[s] = n}
<1> DEFINE ready == {s \in pending : Resolved(s) \cap pending = {}}
<1>1. Depth \in [base -> Nat] /\ base \subseteq Nat
  BY Depths, StepNumbers
<1>2. ASSUME NEW s \in pending, Depth[s] = n PROVE Resolved(s) \cap pending = {}
  <2> SUFFICES ASSUME NEW d \in Resolved(s) \cap pending PROVE FALSE
    OBVIOUS
  <2>1. Depth[d] < Depth[s] /\ Depth[d] >= n /\ Depth[d] \in Nat
    BY <1>1, Depths
  <2> QED BY <1>2, <2>1
<1>3. ASSUME NEW s \in pending, Resolved(s) \cap pending = {} PROVE Depth[s] = n
  <2>1. s \in base /\ Depth[s] >= n /\ Depth[s] \in Nat
    BY <1>1
  <2>2. CASE Depth[s] = 0
    BY <2>1, <2>2
  <2>3. CASE Depth[s] # 0
    <3>1. PICK d \in Resolved(s) \cap base : Depth[s] = 1 + Depth[d]
      BY <2>1, <2>3, Depths
    <3>2. Depth[d] \in Nat /\ ~(Depth[d] >= n)
      BY <1>1, <1>3, <3>1
    <3> QED BY <2>1, <3>1, <3>2
  <2> QED BY <2>2, <2>3
<1>4. ready = {s \in pending : Depth[s] = n}
  BY <1>2, <1>3
<1>5. ready # {}
  <2>1. PICK s \in pending : \A t \in pending : s <= t
    BY <1>1, LeastNumber
  <2>2. \A d \in Resolved(s) : d \notin pending
    <3> SUFFICES ASSUME NEW d \in Resolved(s), d \in pending PROVE FALSE
      OBVIOUS
    <3>1. s \in Steps /\ s \in Nat /\ d \in 1..(s - 1) /\ s <= d
      BY <1>1, <2>1, ResolvedEarlier
    <3> QED BY <3>1
  <2> QED BY <2>2
<1>6. {s \in pending : Depth[s] = n} = At(n)
  <2>1. \A s \in base : Depth[s] = n => Depth[s] >= n
    BY <1>1
  <2> QED BY <2>1 DEF At
<1> QED BY <1>4, <1>5, <1>6 DEF Eligible

LEMMA PeelKeeps ==
  ASSUME LoopInv, Peel
  PROVE  LoopInv'
<1> DEFINE n == Len(levels)
           top == At(n)
<1>1. /\ UNCHANGED <<plan, batch, waves>> /\ pending # {}
      /\ base \subseteq Steps /\ levels \in Seq(SUBSET Steps) /\ waves \in Seq(SUBSET Steps)
  BY DEF Peel, LoopInv, Shape
<1>2. Order(0) /\ batch = {} /\ waves = <<>> /\ n \in Nat
  BY <1>1 DEF LoopInv, Order
<1>3. /\ Depth' = Depth /\ base' = base
      /\ Depth \in [base -> Nat] /\ base \subseteq Nat
  BY <1>1, PlanStays, Depths, StepNumbers
<1>4. /\ pending = {s \in base : Depth[s] >= n}
      /\ \A i \in 1..n : levels[i] \subseteq At(i - 1)
  <2>1. pending = {s \in base : Depth[s] >= 0 + n} /\ 0 + n = n
    BY <1>2 DEF Order
  <2>2. \A i \in 1..n : 0 + i - 1 = i - 1 /\ i \in DOMAIN levels
    BY <1>1
  <2>3. \A i \in 1..n : levels[i] \subseteq At(0 + i - 1)
    BY <1>2, <2>2 DEF Order
  <2> QED BY <2>1, <2>2, <2>3
<1>5. Eligible = top /\ Eligible = {s \in pending : Depth[s] = n}
  BY <1>1, <1>2, <1>4, EligibleDepth
<1>6. levels' = Append(levels, top) /\ pending' = pending \ top /\ top \in SUBSET Steps
  BY <1>1, <1>5 DEF Peel, At
<1> HIDE DEF top
<1>7. /\ levels' \in Seq(SUBSET Steps) /\ Len(levels') = n + 1 /\ DOMAIN levels' = 1..(n + 1)
      /\ levels'[n + 1] = top /\ \A i \in 1..n : levels'[i] = levels[i]
  BY <1>1, <1>6, AppendProperties, LenProperties
<1>8. Done = {} /\ Done' = {} /\ Placed(Len(waves)) = {}
  BY <1>1, <1>2 DEF Done, Placed
<1>9. Shape'
  BY <1>1, <1>3, <1>7 DEF Shape
<1>10. Partition'
  <2>1. InLevels' = InLevels \cup top
    <3>1. DOMAIN levels' = DOMAIN levels \cup {n + 1} /\ DOMAIN levels = 1..n
      BY <1>1, <1>2, <1>7, LenProperties
    <3> HIDE DEF n
    <3> QED BY <1>7, <3>1 DEF InLevels
  <2>2. /\ pending \subseteq base /\ InLevels = base \ pending
    BY <1>8 DEF LoopInv, Partition
  <2>3. top \subseteq pending
    BY <1>5
  <2>4. InLevels' = base \ (pending' \cup {}) /\ pending' \subseteq base
    BY <1>6, <2>1, <2>2, <2>3
  <2>5. batch' = {}
    BY <1>1, <1>2
  <2> QED BY <1>3, <1>8, <2>4, <2>5 DEF Partition
<1>11. Order(0)'
  <2>1. \A k : At(k)' = At(k)
    BY <1>3 DEF At
  <2>2. \A i \in DOMAIN levels' : levels'[i] \subseteq At(0 + i - 1)'
    <3> SUFFICES ASSUME NEW i \in 1..(n + 1) PROVE levels'[i] \subseteq At(i - 1)
      <4>1. \A i \in 1..(n + 1) : 0 + i - 1 = i - 1
        BY <1>2
      <4> QED BY <1>7, <2>1, <4>1
    <3>1. CASE i = n + 1
      <4>1. (n + 1) - 1 = n
        BY <1>2
      <4> QED BY <1>7, <3>1, <4>1 DEF top
    <3>2. CASE i # n + 1
      <4>1. i \in 1..n
        BY <1>2, <3>2
      <4> QED BY <1>4, <1>7, <4>1
    <3> QED BY <3>1, <3>2
  <2>3. pending' = {s \in base : Depth[s] >= 0 + Len(levels')}
    <3>1. \A s \in base : Depth[s] >= 0 + (n + 1) <=> Depth[s] >= n /\ Depth[s] # n
      BY <1>2, <1>3
    <3> QED BY <1>4, <1>5, <1>6, <1>7, <3>1
  <2>4. batch' = {} /\ waves' = <<>> /\ base' = base
    BY <1>1, <1>2, <1>3
  <2> QED BY <1>3, <1>8, <2>2, <2>3, <2>4 DEF Order
<1>12. SameWaves'
  <2>1. Same(waves')
    BY <1>1, <1>2 DEF Same
  <2> QED BY <1>1, <2>1, SameStays
<1> QED BY <1>9, <1>10, <1>11, <1>12 DEF LoopInv

LEMMA EndLevelKeeps ==
  ASSUME LoopInv, EndLevel
  PROVE  LoopInv'
<1>1. /\ UNCHANGED <<plan, pending>> /\ pending = {} /\ levels # <<>> /\ Head(levels) = {}
      /\ levels' = Tail(levels) /\ waves' = Flushed /\ batch' = {}
      /\ levels \in Seq(SUBSET Steps) /\ Shape /\ Partition /\ SameWaves
  BY DEF EndLevel, LoopInv, Shape
<1>2. PICK g \in Nat : Order(g)
  BY DEF LoopInv
<1> DEFINE n == Len(levels)
<1>3. /\ Depth' = Depth /\ base' = base
      /\ Depth \in [base -> Nat] /\ base \subseteq Nat
  BY <1>1, PlanStays, Depths, StepNumbers DEF Shape
<1>4. /\ n \in Nat /\ n > 0 /\ DOMAIN levels = 1..n /\ levels[1] = {}
      /\ levels' \in Seq(SUBSET Steps) /\ Len(levels') = n - 1 /\ DOMAIN levels' = 1..(n - 1)
      /\ \A i \in 1..(n - 1) : levels'[i] = levels[i + 1]
  <2>1. n \in Nat /\ n > 0 /\ DOMAIN levels = 1..n /\ levels[1] = {}
    BY <1>1, EmptySeq, LenProperties
  <2>2. /\ levels' \in Seq(SUBSET Steps) /\ Len(levels') = n - 1
        /\ \A i \in 1..(n - 1) : levels'[i] = levels[i + 1]
    BY <1>1, HeadTailProperties
  <2> QED BY <2>1, <2>2, LenProperties
<1> HIDE DEF n
<1>5. InLevels' = InLevels
  <2>1. \A i \in 1..n : i = 1 \/ (i - 1 \in 1..(n - 1) /\ (i - 1) + 1 = i)
    BY <1>4
  <2>2. \A i \in 1..(n - 1) : i + 1 \in 1..n
    BY <1>4
  <2>3. \A i \in 1..n : levels[i] \subseteq InLevels'
    <3> SUFFICES ASSUME NEW i \in 1..n, NEW s \in levels[i] PROVE s \in InLevels'
      OBVIOUS
    <3>1. i - 1 \in 1..(n - 1) /\ levels'[i - 1] = levels[i]
      BY <1>4, <2>1
    <3> QED BY <1>4, <3>1 DEF InLevels
  <2>4. \A i \in 1..(n - 1) : levels'[i] \subseteq InLevels
    BY <1>4, <2>2 DEF InLevels
  <2> QED BY <1>4, <2>3, <2>4 DEF InLevels
<1>6. \A s \in InLevels : Depth[s] > g
  <2> SUFFICES ASSUME NEW i \in 1..n, NEW s \in levels[i] PROVE Depth[s] > g
    BY <1>4 DEF InLevels
  <2>1. i # 1 /\ s \in At(g + i - 1)
    BY <1>2, <1>4 DEF Order
  <2> QED BY <1>2, <1>4, <2>1 DEF At
<1>7. \A t \in batch, u \in InLevels : Sooner(t, u)
  BY <1>2, <1>6 DEF Order, At, Sooner
<1>8. /\ Flushed \in Seq(SUBSET Steps) /\ Same(Flushed)
      /\ PlacedBy(Flushed, Len(Flushed)) = Done
  BY <1>1, <1>2, <1>7, FlushedIsWave
<1>9. Done' = Done /\ Placed(Len(waves))' = Done
  <2>1. Placed(Len(waves))' = PlacedBy(waves', Len(waves'))
    BY DEF Placed, PlacedBy
  <2> QED BY <1>1, <1>8, <2>1 DEF Done
<1>10. Shape'
  BY <1>1, <1>3, <1>4, <1>8 DEF Shape
<1>11. Partition'
  BY <1>1, <1>3, <1>5, <1>9 DEF Partition
<1>12. Order(g + 1)'
  <2>1. \A k : At(k)' = At(k)
    BY <1>3 DEF At
  <2>2. \A i \in DOMAIN levels' : levels'[i] \subseteq At((g + 1) + i - 1)'
    <3> SUFFICES ASSUME NEW i \in 1..(n - 1) PROVE levels'[i] \subseteq At((g + 1) + i - 1)
      BY <1>4, <2>1
    <3>1. i + 1 \in 1..n /\ (g + 1) + i - 1 = g + (i + 1) - 1
      BY <1>4
    <3>2. levels[i + 1] \subseteq At(g + (i + 1) - 1)
      BY <1>2, <1>4, <3>1 DEF Order
    <3> QED BY <1>4, <3>1, <3>2
  <2>3. pending' = {s \in base : Depth[s] >= (g + 1) + Len(levels')}
    <3>1. (g + 1) + Len(levels') = g + n
      BY <1>4
    <3>2. pending = {s \in base : Depth[s] >= g + n}
      BY <1>2 DEF Order, n
    <3> QED BY <1>1, <3>1, <3>2
  <2>4. \A s \in InLevels, t \in Done : Before(t, s)
    BY <1>2 DEF Order
  <2>5. \A s, t : Before(t, s)' = Before(t, s)
    BY <1>3 DEF Before
  <2> QED BY <1>1, <1>3, <1>5, <1>9, <2>2, <2>3, <2>4, <2>5 DEF Order
<1>13. SameWaves'
  BY <1>1, <1>8, SameStays
<1>14. g + 1 \in Nat
  OBVIOUS
<1> QED BY <1>10, <1>11, <1>12, <1>13, <1>14 DEF LoopInv

\* The step taken from the level is the first of all those left.
LEMMA CutStep ==
  ASSUME LoopInv, pending = {}, levels # <<>>, Head(levels) # {}, UNCHANGED plan,
         NEW g \in Nat, Order(g),
         NEW s, s = Smallest(Head(levels)), levels' = [levels EXCEPT ![1] = @ \ {s}]
  PROVE  /\ s \in InLevels /\ s \in base /\ Depth[s] = g
         /\ levels' \in Seq(SUBSET Steps) /\ Len(levels') = Len(levels)
         /\ DOMAIN levels' = DOMAIN levels
         /\ \A i \in DOMAIN levels : levels'[i] \subseteq levels[i]
         /\ InLevels' = InLevels \ {s}
         /\ \A u \in InLevels : u = s \/ Before(s, u)
<1> DEFINE n == Len(levels)
<1>0. levels \in Seq(SUBSET Steps) /\ base \subseteq Nat /\ Depth \in [base -> Nat]
      /\ InLevels \subseteq base /\ Steps \subseteq Nat
  BY Depths, StepNumbers DEF LoopInv, Shape, Partition
<1>1. n \in Nat /\ n > 0 /\ DOMAIN levels = 1..n /\ Head(levels) = levels[1] /\ 1 \in 1..n
  BY <1>0, EmptySeq, LenProperties
<1>2. \A i \in 1..n : levels[i] \in SUBSET Steps /\ levels[i] \subseteq At(g + i - 1)
  BY <1>0, <1>1 DEF Order
<1>3. g + 1 - 1 = g /\ \A i \in 1..n : i # 1 => g + i - 1 > g /\ g + i - 1 \in Nat
  BY <1>1
<1>4. s \in levels[1] /\ \A t \in levels[1] : s <= t
  <2>1. levels[1] \in SUBSET Nat
    BY <1>0, <1>1, <1>2
  <2> QED BY <1>1, <2>1, SmallestIsMember
<1>5. s \in InLevels /\ s \in base /\ Depth[s] = g
  BY <1>1, <1>2, <1>3, <1>4 DEF InLevels, At
<1>6. /\ levels' \in Seq(SUBSET Steps) /\ Len(levels') = n /\ DOMAIN levels' = 1..n
      /\ levels'[1] = levels[1] \ {s} /\ \A i \in 1..n : i # 1 => levels'[i] = levels[i]
  <2>1. levels[1] \ {s} \in SUBSET Steps
    BY <1>1, <1>2
  <2>2. levels' \in Seq(SUBSET Steps) /\ Len(levels') = n
    BY <1>0, <1>1, <2>1, ExceptSeq
  <2> QED BY <1>0, <1>1, <2>2, LenProperties
<1> HIDE DEF n
<1>7. \A i \in 1..n : levels'[i] \subseteq levels[i]
  BY <1>6
<1>8. \A i \in 1..n : i # 1 => s \notin levels[i]
  BY <1>2, <1>3, <1>5 DEF At
<1>9. InLevels' = InLevels \ {s}
  <2>1. \A i \in 1..n : levels'[i] = levels[i] \ {s}
    BY <1>6, <1>8
  <2> QED BY <1>1, <1>6, <2>1 DEF InLevels
<1>10. ASSUME NEW u \in InLevels PROVE u = s \/ Before(s, u)
  <2>1. PICK i \in 1..n : u \in levels[i]
    BY <1>1 DEF InLevels
  <2>2. CASE i = 1
    <3>1. Depth[u] = g /\ s <= u /\ s \in Nat /\ u \in Nat
      BY <1>0, <1>2, <1>3, <1>4, <1>5, <2>1, <2>2 DEF At
    <3> QED BY <1>5, <3>1 DEF Before
  <2>3. CASE i # 1
    <3>1. Depth[u] = g + i - 1
      BY <1>2, <2>1 DEF At
    <3> QED BY <1>3, <1>5, <2>3, <3>1 DEF Before
  <2> QED BY <2>2, <2>3
<1> QED BY <1>1, <1>5, <1>6, <1>7, <1>9, <1>10 DEF n

LEMMA CutKeeps ==
  ASSUME LoopInv, Cut
  PROVE  LoopInv'
<1>1. /\ UNCHANGED <<plan, pending>> /\ pending = {} /\ levels # <<>> /\ Head(levels) # {}
      /\ Shape /\ Partition /\ SameWaves
  BY DEF Cut, LoopInv
<1>2. PICK g \in Nat : Order(g)
  BY DEF LoopInv
<1>3. PICK s : /\ s = Smallest(Head(levels)) /\ levels' = [levels EXCEPT ![1] = @ \ {s}]
               /\ risky[s] => waves' = Append(Flushed, {s}) /\ batch' = {}
               /\ ~risky[s] => batch' = batch \cup {s} /\ UNCHANGED waves
  BY DEF Cut
<1>4. /\ s \in InLevels /\ s \in base /\ Depth[s] = g
      /\ levels' \in Seq(SUBSET Steps) /\ Len(levels') = Len(levels)
      /\ DOMAIN levels' = DOMAIN levels
      /\ \A i \in DOMAIN levels : levels'[i] \subseteq levels[i]
      /\ InLevels' = InLevels \ {s}
      /\ \A u \in InLevels : u = s \/ Before(s, u)
  BY <1>1, <1>2, <1>3, CutStep
<1>5. /\ Depth' = Depth /\ base' = base /\ risky' = risky
      /\ Depth \in [base -> Nat] /\ base \subseteq Nat /\ base \subseteq Steps
      /\ base \in SUBSET (0..N) /\ Earlier(Deps, base) /\ N \in Nat
  BY <1>1, PlanStays, Depths, StepNumbers DEF Shape
<1>6. /\ s \notin Done /\ InLevels = base \ Done /\ Done \subseteq base
      /\ batch \subseteq Done /\ Placed(Len(waves)) \subseteq Done
  BY <1>1, <1>4 DEF Partition, Done
<1>7. \A t \in Done : Before(t, s)
  BY <1>2, <1>4 DEF Order
<1>8. \A u, v : Before(u, v)' = Before(u, v)
  BY <1>5 DEF Before
<1>9. \A k : At(k)' = At(k)
  BY <1>5 DEF At
\* What leaves the levels joins the steps gone through, whatever it is.
<1>10. ASSUME Done' = Done \cup {s}, batch' \cap Placed(Len(waves))' = {}, waves' \in Seq(SUBSET Steps),
              batch' \subseteq At(g),
              \A t \in batch', r \in Done' : Depth[r] = Depth[t] /\ r >= t => ~risky[r],
              Same(waves')
       PROVE  LoopInv'
  <2>1. Shape'
    BY <1>4, <1>5, <1>10 DEF Shape, LoopInv
  <2>2. Partition'
    BY <1>1, <1>4, <1>5, <1>6, <1>10 DEF Partition
  <2>3. Order(g)'
    <3>1. \A i \in DOMAIN levels' : levels'[i] \subseteq At(g + i - 1)'
      BY <1>2, <1>4, <1>9 DEF Order
    <3>2. pending' = {u \in base : Depth[u] >= g + Len(levels')}
      BY <1>1, <1>2, <1>4 DEF Order
    <3>3. \A u \in InLevels', t \in Done' : Before(t, u)
      BY <1>2, <1>4, <1>10 DEF Order
    <3> QED BY <1>1, <1>5, <1>8, <1>9, <1>10, <3>1, <3>2, <3>3 DEF Order
  <2>4. SameWaves'
    BY <1>1, <1>10, SameStays
  <2> QED BY <2>1, <2>2, <2>3, <2>4 DEF LoopInv
<1>11. CASE ~risky[s]
  <2>1. batch' = batch \cup {s} /\ UNCHANGED waves
    BY <1>3, <1>11
  <2>2. Placed(Len(waves))' = Placed(Len(waves)) /\ Done' = Done \cup {s}
    BY <2>1 DEF Placed, Done
  <2>3. ASSUME NEW t \in batch', NEW r \in Done', Depth[r] = Depth[t], r >= t PROVE ~risky[r]
    <3>1. CASE r = s
      BY <1>11, <3>1
    <3>2. CASE r \in Done /\ t \in batch
      BY <1>2, <2>3, <3>2 DEF Order
    <3>3. CASE r \in Done /\ t = s
      <4>1. Before(r, s) /\ r \in Nat /\ s \in Nat /\ Depth[s] \in Nat
        BY <1>4, <1>5, <1>6, <1>7, <3>3
      <4> QED BY <2>3, <3>3, <4>1 DEF Before
    <3> QED BY <2>1, <2>2, <3>1, <3>2, <3>3
  <2>4. batch' \subseteq At(g)
    BY <1>2, <1>4, <2>1 DEF Order, At
  <2>5. batch' \cap Placed(Len(waves))' = {}
    BY <1>1, <1>6, <2>1, <2>2 DEF Partition
  <2>6. Same(waves') /\ waves' \in Seq(SUBSET Steps)
    BY <1>1, <2>1 DEF SameWaves, Same, Shape, Placed, PlacedBy, Deps
  <2> QED BY <1>10, <2>2, <2>3, <2>4, <2>5, <2>6
<1>12. CASE risky[s]
  <2>1. waves' = Append(Flushed, {s}) /\ batch' = {}
    BY <1>3, <1>12
  <2>2. \A u \in base : u \in DOMAIN Depth /\ u \in Nat /\ Depth[u] \in Nat
                        /\ Block(Depth, risky, u) \in Nat
    BY <1>5, BlockValue
  <2>3. DOMAIN Depth \subseteq 0..N
    BY <1>5
  <2>4. ASSUME NEW t \in base, NEW u \in base, Before(t, u), t = s \/ u = s PROVE Sooner(t, u)
    <3>1. CASE Depth[t] < Depth[u]
      BY <3>1 DEF Sooner
    <3>2. CASE Depth[t] = Depth[u] /\ t < u
      <4>1. Block(Depth, risky, t) < Block(Depth, risky, u)
        BY <1>5, <1>12, <2>2, <2>3, <2>4, <3>2, RiskySeparates
      <4> QED BY <3>2, <4>1 DEF Sooner
    <3> QED BY <2>4, <3>1, <3>2 DEF Before
  <2>5. ASSUME NEW t \in batch, NEW u \in InLevels PROVE Sooner(t, u)
    <3>1. t \in base /\ u \in base /\ s \in base
      BY <1>4, <1>6
    <3>2. Sooner(t, s)
      BY <1>6, <1>7, <2>4, <3>1
    <3>3. u = s \/ Sooner(s, u)
      BY <1>4, <2>4, <3>1
    <3> QED BY <2>2, <3>1, <3>2, <3>3 DEF Sooner
  <2>6. /\ Flushed \in Seq(SUBSET Steps) /\ Same(Flushed)
        /\ PlacedBy(Flushed, Len(Flushed)) = Done
    BY <1>1, <1>2, <2>5, FlushedIsWave
  <2>7. {s} = NextWave(Deps, risky, base, base \ Done)
    <3>1. \A u \in base \ Done : ~Sooner(u, s)
      <4> SUFFICES ASSUME NEW u \in base \ Done PROVE ~Sooner(u, s)
        OBVIOUS
      <4>1. u = s \/ Sooner(s, u)
        BY <1>4, <1>6, <2>4
      <4> QED BY <1>4, <2>2, <4>1 DEF Sooner
    <3>2. s \in NextWave(Deps, risky, base, base \ Done)
      BY <1>4, <1>6, <3>1 DEF NextWave, Sooner, Depth
    <3>3. base \ Done \in SUBSET base
      OBVIOUS
    <3> QED BY <1>5, <1>12, <3>2, <3>3, RiskyStepIsAlone
  <2>8. /\ waves' \in Seq(SUBSET Steps) /\ Same(waves')
        /\ PlacedBy(waves', Len(waves')) = Done \cup {s}
    <3>1. {s} \in SUBSET Steps
      BY <1>4, <1>5
    <3> QED BY <2>1, <2>6, <2>7, <3>1, WaveAppended
  <2>9. Placed(Len(waves))' = Done \cup {s}
    BY <2>8 DEF Placed, PlacedBy
  <2>10. Done' = Done \cup {s} /\ batch' \cap Placed(Len(waves))' = {} /\ batch' \subseteq At(g)
    BY <2>1, <2>9 DEF Done
  <2> QED BY <1>10, <2>1, <2>8, <2>10
<1> QED BY <1>11, <1>12

LEMMA InitLoop == Init => LoopInv
<1> SUFFICES ASSUME Init PROVE LoopInv
  OBVIOUS
<1>1. /\ base \subseteq Steps /\ pending = base /\ levels = <<>> /\ batch = {} /\ waves = <<>>
  BY DEF Init
<1>2. Shape
  BY <1>1 DEF Shape
<1>3. Done = {} /\ InLevels = {} /\ Placed(Len(waves)) = {}
  BY <1>1 DEF Done, InLevels, Placed
<1>4. Partition
  BY <1>1, <1>3 DEF Partition
<1>5. Order(0)
  <2>1. Depth \in [base -> Nat] /\ 0 + Len(levels) = 0
    BY <1>1, Depths
  <2>2. pending = {s \in base : Depth[s] >= 0 + Len(levels)}
    BY <1>1, <2>1
  <2> QED BY <1>1, <1>3, <2>2 DEF Order
<1>6. SameWaves
  BY <1>1 DEF SameWaves
<1> QED BY <1>2, <1>4, <1>5, <1>6 DEF LoopInv

LEMMA StepKeepsLoop == LoopInv /\ [Next]_vars => LoopInv'
<1> SUFFICES ASSUME LoopInv, [Next]_vars PROVE LoopInv'
  OBVIOUS
<1>1. CASE UNCHANGED vars
  <2>1. /\ UNCHANGED <<plan, pending, levels, batch, waves>>
    BY <1>1 DEF vars
  <2>2. Depth' = Depth /\ base' = base /\ risky' = risky
    BY <2>1, PlanStays
  <2>3. Same(waves)
    BY DEF LoopInv, SameWaves, Same, Placed, PlacedBy, Deps
  <2>4. SameWaves'
    <3>1. Same(waves')
      BY <2>1, <2>3
    <3> QED BY <2>1, <3>1, SameStays
  <2>5. InLevels' = InLevels /\ Placed(Len(waves))' = Placed(Len(waves)) /\ Done' = Done
    BY <2>1 DEF InLevels, Placed, Done
  <2>6. Shape' /\ Partition'
    BY <2>1, <2>2, <2>5 DEF LoopInv, Shape, Partition
  <2>7. ASSUME NEW g \in Nat, Order(g) PROVE Order(g)'
    <3>1. \A k : At(k)' = At(k)
      BY <2>2 DEF At
    <3>2. \A s, t : Before(s, t)' = Before(s, t)
      BY <2>2 DEF Before
    <3> QED BY <2>1, <2>2, <2>5, <2>7, <3>1, <3>2 DEF Order
  <2> QED BY <2>4, <2>6, <2>7 DEF LoopInv
<1>2. CASE Next
  BY <1>1, <1>2, PeelKeeps, CutKeeps, EndLevelKeeps DEF Next
<1> QED BY <1>1, <1>2

LEMMA LoopInvariance == Spec => []LoopInv
BY InitLoop, StepKeepsLoop, PTL DEF Spec

-----------------------------------------------------------------------------
(* Theorems.                                                               *)

\* The loops of _construir_olas give the waves that Missions launches, one after
\* the other, from any plan and with any steps already ended.
THEOREM WavesAreSame == Spec => []SameWaves
<1>1. LoopInv => SameWaves
  BY DEF LoopInv
<1> QED BY <1>1, LoopInvariance, PTL

\* What a placed step depends on is in an earlier wave, or had ended before.
THEOREM DependenciesComeFirst == Spec => []DependenciesFirst
<1>1. LoopInv => DependenciesFirst
  <2> SUFFICES ASSUME LoopInv, NEW i \in DOMAIN waves, NEW s \in waves[i]
               PROVE  Resolved(s) \cap base \subseteq Placed(i - 1)
    BY DEF DependenciesFirst
  <2> DEFINE pend == base \ Placed(i - 1)
  <2>1. /\ base \in SUBSET (0..N) /\ Earlier(Deps, base) /\ N \in Nat
        /\ \A t \in base : Deps[t] = Resolved(t)
    BY Depths, StepNumbers DEF LoopInv, Shape
  <2>2. waves[i] = NextWave(Deps, risky, base, pend)
    BY DEF LoopInv, SameWaves, Deps
  <2>3. s \in pend /\ pend \in SUBSET base
    BY <2>2 DEF NextWave
  <2>4. Deps[s] \cap pend = {}
    <3>1. s \in NextWave(Deps, risky, base, pend)
      BY <2>2
    <3> HIDE DEF pend
    <3> QED BY <2>1, <2>3, <3>1, DependenciesAreBefore
  <2> QED BY <2>1, <2>3, <2>4
<1> QED BY <1>1, LoopInvariance, PTL

\* The size of the union of two finite sets with nothing in common.
LEMMA DisjointUnion ==
  ASSUME NEW A, NEW B, IsFiniteSet(A), IsFiniteSet(B), A \cap B = {}
  PROVE  Cardinality(A \cup B) = Cardinality(A) + Cardinality(B)
<1>1. Cardinality(A) \in Nat /\ Cardinality(B) \in Nat
  BY FS_CardinalityType
<1>2. Cardinality(A \cup B) = Cardinality(A) + Cardinality(B) - Cardinality(A \cap B)
  BY FS_Union
<1>3. Cardinality(A \cap B) = 0
  BY FS_EmptySet
<1> DEFINE a == Cardinality(A)
           b == Cardinality(B)
           c == Cardinality(A \cap B)
           u == Cardinality(A \cup B)
<1>4. a \in Nat /\ b \in Nat /\ u = a + b - c /\ c = 0
  BY <1>1, <1>2, <1>3
<1> HIDE DEF a, b, c, u
<1>5. u = a + b
  BY <1>4
<1> QED BY <1>5 DEF u, a, b

\* No step is lost or placed twice: at any time the steps not in a level yet, in
\* a level, in the batch and in the waves are a partition of those to place.
THEOREM NoStepIsLost == Spec => []TypeOK
<1>1. LoopInv => TypeOK
  <2> SUFFICES ASSUME LoopInv PROVE TypeOK
    OBVIOUS
  <2> DEFINE placed == Placed(Len(waves))
  <2>1. IsFiniteSet(base)
    BY StepNumbers, FS_Subset DEF LoopInv, Shape
  <2>2. /\ pending \subseteq base /\ InLevels \subseteq base /\ batch \subseteq base
        /\ placed \subseteq base
        /\ (pending \cup InLevels) \cup (batch \cup placed) = base
        /\ pending \cap InLevels = {} /\ batch \cap placed = {}
        /\ (pending \cup InLevels) \cap (batch \cup placed) = {}
    BY DEF LoopInv, Partition, Done
  <2> HIDE DEF placed
  <2>3. /\ IsFiniteSet(pending) /\ IsFiniteSet(InLevels) /\ IsFiniteSet(batch)
        /\ IsFiniteSet(placed)
        /\ IsFiniteSet(pending \cup InLevels) /\ IsFiniteSet(batch \cup placed)
    BY <2>1, <2>2, FS_Subset
  <2>5. /\ Cardinality(pending) \in Nat /\ Cardinality(InLevels) \in Nat
        /\ Cardinality(batch) \in Nat /\ Cardinality(placed) \in Nat
        /\ Cardinality(pending \cup InLevels) \in Nat /\ Cardinality(batch \cup placed) \in Nat
    BY <2>3, FS_CardinalityType
  <2>6. /\ Cardinality(pending \cup InLevels) = Cardinality(pending) + Cardinality(InLevels)
        /\ Cardinality(batch \cup placed) = Cardinality(batch) + Cardinality(placed)
        /\ Cardinality((pending \cup InLevels) \cup (batch \cup placed)) =
             Cardinality(pending \cup InLevels) + Cardinality(batch \cup placed)
    BY <2>2, <2>3, DisjointUnion
  <2>7. Cardinality((pending \cup InLevels) \cup (batch \cup placed)) = Cardinality(base)
    BY <2>2
  <2> DEFINE p == Cardinality(pending)
             l == Cardinality(InLevels)
             b == Cardinality(batch)
             w == Cardinality(placed)
             pl == Cardinality(pending \cup InLevels)
             bw == Cardinality(batch \cup placed)
             all == Cardinality(base)
  <2>8. /\ p \in Nat /\ l \in Nat /\ b \in Nat /\ w \in Nat /\ pl \in Nat /\ bw \in Nat
        /\ pl = p + l /\ bw = b + w /\ all = pl + bw
    BY <2>5, <2>6, <2>7
  <2>9. Cardinality(base) = Cardinality(pending) + Cardinality(InLevels) + Cardinality(batch)
                            + Cardinality(placed)
    <3>1. all = p + l + b + w
      <4> HIDE DEF p, l, b, w, pl, bw, all
      <4> QED BY <2>8
    <3> QED BY <3>1
  <2>10. pending \cup InLevels \cup batch \cup placed = base
    BY <2>2
  <2> QED BY <2>9, <2>10 DEF TypeOK, LoopInv, Shape, placed
<1> QED BY <1>1, LoopInvariance, PTL
=============================================================================
