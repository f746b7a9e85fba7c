------------------------------ MODULE WavesProofs ------------------------------
(***************************************************************************)
(* Proofs about Waves: what the recursive function Level computes, and     *)
(* what a wave is, for every plan whose dependencies are on earlier steps. *)
(***************************************************************************)
EXTENDS Waves, FiniteSetTheorems, WellFoundedInduction, TLAPS

-----------------------------------------------------------------------------
(* Numbers.  The least element of a set stands for induction: a property   *)
(* that fails for some number fails for a least one.                       *)

LEMMA LeastNumber ==
  ASSUME NEW S \in SUBSET Nat, S # {}
  PROVE  \E s \in S : \A t \in S : s <= t
<1> DEFINE R == {ss \in Nat \X Nat : ss[1] < ss[2]}
<1>1. IsWellFoundedOn(R, Nat)
  BY NatLessThanWellFounded, Zenon DEF OpToRel
<1>2. PICK s \in S : \A t \in S : ~(<<t, s>> \in R)
  <2> HIDE DEF R
  <2> QED BY <1>1, WFMin
<1>3. ASSUME NEW t \in S PROVE s <= t
  <2>1. <<t, s>> \in Nat \X Nat /\ <<t, s>>[1] = t /\ <<t, s>>[2] = s
    OBVIOUS
  <2>2. ~(t < s)
    BY <1>2, <2>1
  <2> QED BY <2>2
<1> QED BY <1>3

LEMMA GreatestNumber ==
  ASSUME NEW S \in SUBSET Nat, S # {}, NEW b \in Nat, \A s \in S : s <= b
  PROVE  \E s \in S : \A t \in S : t <= s
<1> DEFINE U == {u \in Nat : \A s \in S : s <= u}
<1>1. PICK u \in U : \A v \in U : u <= v
  BY LeastNumber
<1>2. u \in S
  <2> SUFFICES ASSUME u \notin S PROVE FALSE
    OBVIOUS
  <2>1. \A s \in S : s \in Nat /\ s <= u /\ s # u
    OBVIOUS
  <2>2. u > 0 /\ u - 1 \in Nat
    <3>1. PICK s \in S : TRUE
      OBVIOUS
    <3>2. u \in Nat /\ s \in Nat /\ s <= u /\ s # u
      BY <2>1
    <3> QED BY <3>2
  <2>3. \A s \in S : s <= u - 1
    BY <2>1, <2>2
  <2>4. u - 1 \in U
    BY <2>2, <2>3
  <2> QED BY <1>1, <2>2, <2>4
<1> QED BY <1>2

-----------------------------------------------------------------------------
(* Level.                                                                  *)

\* The body of the recursive function Level.
LevelStep(deps, base, f, s) ==
    IF deps[s] \cap base = {} THEN 0
    ELSE 1 + (CHOOSE n \in {f[d] : d \in deps[s] \cap base} :
                 \A d \in deps[s] \cap base : f[d] <= n)

Earlier(deps, base) == \A s \in base : \A d \in deps[s] \cap base : d < s

LEMMA LevelUnfolds ==
  ASSUME NEW deps, NEW base
  PROVE  Level(deps, base) = CHOOSE f : f = [s \in base |-> LevelStep(deps, base, f, s)]
BY DEF Level, LevelStep

\* One step above the highest dependency.
LEMMA LevelStepValue ==
  ASSUME NEW deps, NEW base \in SUBSET Nat, NEW s \in base, NEW f,
         \A d \in deps[s] \cap base : d < s /\ f[d] \in Nat /\ f[d] <= d
  PROVE  /\ LevelStep(deps, base, f, s) \in Nat
         /\ LevelStep(deps, base, f, s) <= s
         /\ \A d \in deps[s] \cap base : f[d] < LevelStep(deps, base, f, s)
         /\ \/ LevelStep(deps, base, f, s) = 0
            \/ \E d \in deps[s] \cap base : LevelStep(deps, base, f, s) = 1 + f[d]
<1> DEFINE below == deps[s] \cap base
           S == {f[d] : d \in below}
           m == CHOOSE n \in S : \A d \in below : f[d] <= n
<1>0. s \in Nat /\ below \subseteq Nat
  OBVIOUS
<1>1. CASE below = {}
  <2>1. LevelStep(deps, base, f, s) = 0
    BY <1>1 DEF LevelStep
  <2> QED BY <1>0, <1>1, <2>1
<1>2. CASE below # {}
  <2>1. \A d \in below : d \in Nat /\ d < s /\ f[d] \in Nat /\ f[d] <= s
    BY <1>0
  <2>2. S \in SUBSET Nat /\ S # {} /\ \A n \in S : n <= s
    BY <1>2, <2>1
  <2>3. \E n \in S : \A t \in S : t <= n
    <3> HIDE DEF S
    <3> QED BY <1>0, <2>2, GreatestNumber
  <2>4. \E n \in S : \A d \in below : f[d] <= n
    BY <2>3
  <2>5. m \in S /\ \A d \in below : f[d] <= m
    BY <2>4
  <2>6. LevelStep(deps, base, f, s) = 1 + m
    BY <1>2 DEF LevelStep
  <2> HIDE DEF m
  <2>7. PICK e \in below : m = f[e]
    BY <2>5
  <2>8. m \in Nat /\ m <= e /\ e < s /\ e \in Nat
    BY <2>1, <2>7
  <2>9. 1 + m \in Nat /\ 1 + m <= s
    BY <1>0, <2>8
  <2>10. \A d \in below : f[d] < 1 + m
    BY <2>1, <2>5, <2>8
  <2> QED BY <2>6, <2>7, <2>9, <2>10
<1> QED BY <1>1, <1>2

\* It looks at the levels of the dependencies only.
LEMMA LevelStepLocal ==
  ASSUME NEW deps, NEW base \in SUBSET Nat, NEW s \in base, NEW f, NEW g,
         \A d \in deps[s] \cap base : d < s /\ f[d] \in Nat /\ f[d] <= d /\ g[d] = f[d]
  PROVE  LevelStep(deps, base, f, s) = LevelStep(deps, base, g, s)
<1> DEFINE below == deps[s] \cap base
           m == LevelStep(deps, base, f, s)
           n == LevelStep(deps, base, g, s)
<1>1. \A d \in below : g[d] = f[d] /\ f[d] \in Nat
  OBVIOUS
<1>2. /\ m \in Nat /\ \A d \in below : f[d] < m
      /\ m = 0 \/ \E d \in below : m = 1 + f[d]
  BY LevelStepValue
<1>3. /\ n \in Nat /\ \A d \in below : g[d] < n
      /\ n = 0 \/ \E d \in below : n = 1 + g[d]
  <2>1. \A d \in below : d < s /\ g[d] \in Nat /\ g[d] <= d
    OBVIOUS
  <2> QED BY <2>1, LevelStepValue
<1> HIDE DEF below, m, n
<1>4. m <= n
  BY <1>1, <1>2, <1>3
<1>5. n <= m
  BY <1>1, <1>2, <1>3
<1>6. m = n
  BY <1>2, <1>3, <1>4, <1>5
<1> QED BY <1>6 DEF m, n

-----------------------------------------------------------------------------
(* The equation of Level has a solution: one is built for the steps below  *)
(* a bound, and extended to the next one.                                  *)

Below(base, n) == {s \in base : s < n}

Solves(deps, base, n, f) ==
    /\ f \in [Below(base, n) -> Nat]
    /\ \A s \in Below(base, n) : f[s] = LevelStep(deps, base, f, s) /\ f[s] <= s

LEMMA SolutionExtends ==
  ASSUME NEW deps, NEW base \in SUBSET Nat, Earlier(deps, base),
         NEW n \in Nat, NEW f, Solves(deps, base, n, f)
  PROVE  \E g : Solves(deps, base, n + 1, g)
<1> DEFINE l == LevelStep(deps, base, f, n)
           g == [s \in Below(base, n + 1) |-> IF s = n THEN l ELSE f[s]]
<1>1. \A s \in Below(base, n + 1) : s \in base /\ s \in Nat /\ (s = n \/ s \in Below(base, n))
  BY DEF Below
<1>2. \A s \in Below(base, n) : s \in Below(base, n + 1) /\ s # n /\ f[s] \in Nat /\ f[s] <= s
  BY DEF Below, Solves
<1>3. \A s \in Below(base, n + 1) : \A d \in deps[s] \cap base : d \in Below(base, n) /\ d < s
  <2> SUFFICES ASSUME NEW s \in Below(base, n + 1), NEW d \in deps[s] \cap base
               PROVE  d \in Below(base, n) /\ d < s
    OBVIOUS
  <2>1. d < s /\ d \in Nat /\ s \in Nat /\ s < n + 1
    BY DEF Earlier, Below
  <2> QED BY <2>1 DEF Below
<1>4. \A d \in Below(base, n) : g[d] = f[d]
  BY <1>2
<1>5. ASSUME NEW s \in Below(base, n + 1)
      PROVE  LevelStep(deps, base, g, s) = LevelStep(deps, base, f, s)
  <2> HIDE DEF g
  <2>1. \A d \in deps[s] \cap base : d < s /\ f[d] \in Nat /\ f[d] <= d /\ g[d] = f[d]
    BY <1>2, <1>3, <1>4
  <2> QED BY <1>1, <2>1, LevelStepLocal
<1>6. n \in base => l \in Nat /\ l <= n
  <2> SUFFICES ASSUME n \in base PROVE l \in Nat /\ l <= n
    OBVIOUS
  <2>1. n \in Below(base, n + 1)
    BY DEF Below
  <2>2. \A d \in deps[n] \cap base : d < n /\ f[d] \in Nat /\ f[d] <= d
    BY <1>2, <1>3, <2>1
  <2> QED BY <2>2, LevelStepValue
<1>7. ASSUME NEW s \in Below(base, n + 1)
      PROVE  g[s] \in Nat /\ g[s] = LevelStep(deps, base, g, s) /\ g[s] <= s
  <2>1. CASE s = n
    <3>1. g[s] = l /\ n \in base
      BY <1>1, <2>1
    <3> HIDE DEF g
    <3> QED BY <1>5, <1>6, <2>1, <3>1
  <2>2. CASE s \in Below(base, n)
    <3>1. g[s] = f[s]
      BY <1>4, <2>2
    <3> HIDE DEF g
    <3> QED BY <1>2, <1>5, <2>2, <3>1 DEF Solves
  <2> QED BY <1>1, <2>1, <2>2
<1>8. g \in [Below(base, n + 1) -> Nat]
  <2>1. \A s \in Below(base, n + 1) : (IF s = n THEN l ELSE f[s]) \in Nat
    BY <1>7
  <2> QED BY <2>1
<1>9. Solves(deps, base, n + 1, g)
  <2> HIDE DEF g
  <2> QED BY <1>7, <1>8 DEF Solves
<1> QED BY <1>9

LEMMA SolutionExists ==
  ASSUME NEW deps, NEW base \in SUBSET Nat, Earlier(deps, base), NEW n \in Nat
  PROVE  \E f : Solves(deps, base, n, f)
<1> DEFINE Fails == {k \in Nat : ~ \E f : Solves(deps, base, k, f)}
<1> SUFFICES ASSUME Fails # {} PROVE FALSE
  OBVIOUS
<1>1. PICK k \in Fails : \A j \in Fails : k <= j
  <2>1. Fails \in SUBSET Nat
    OBVIOUS
  <2> HIDE DEF Fails
  <2> QED BY <2>1, LeastNumber
<1>2. k # 0
  <2>1. Below(base, 0) = {}
    <3>1. \A s \in base : s \in Nat /\ ~(s < 0)
      OBVIOUS
    <3> QED BY <3>1 DEF Below
  <2>2. Solves(deps, base, 0, [s \in Below(base, 0) |-> 0])
    BY <2>1 DEF Solves
  <2> QED BY <2>2
<1>3. k - 1 \in Nat /\ k - 1 \notin Fails
  BY <1>1, <1>2
<1>4. PICK f : Solves(deps, base, k - 1, f)
  BY <1>3
<1>5. \E g : Solves(deps, base, (k - 1) + 1, g)
  BY <1>3, <1>4, SolutionExtends
<1>6. (k - 1) + 1 = k
  BY <1>3
<1> QED BY <1>5, <1>6

\* What Level computes: a level for each step, one above the highest of the steps
\* it depends on, 0 when it depends on none.
THEOREM LevelsAreTopological ==
  ASSUME NEW deps, NEW m \in Nat, NEW base \in SUBSET (0..m), Earlier(deps, base)
  PROVE  /\ Level(deps, base) \in [base -> Nat]
         /\ \A s \in base :
               /\ Level(deps, base)[s] = 0 <=> deps[s] \cap base = {}
               /\ \A d \in deps[s] \cap base : Level(deps, base)[d] < Level(deps, base)[s]
               /\ Level(deps, base)[s] # 0 =>
                     \E d \in deps[s] \cap base : Level(deps, base)[s] = 1 + Level(deps, base)[d]
<1> DEFINE level == Level(deps, base)
<1>0. base \in SUBSET Nat /\ \A s \in base : s <= m
  OBVIOUS
<1>1. level = [s \in base |-> LevelStep(deps, base, level, s)]
  <2>1. PICK f : Solves(deps, base, m + 1, f)
    BY <1>0, SolutionExists
  <2>2. Below(base, m + 1) = base
    <3>1. \A s \in base : s \in Nat /\ s < m + 1
      OBVIOUS
    <3> QED BY <3>1 DEF Below
  <2>3. f = [s \in base |-> LevelStep(deps, base, f, s)]
    BY <2>1, <2>2 DEF Solves
  <2> QED BY <2>3, LevelUnfolds
<1> HIDE DEF level
<1>2. \A s \in base : level[s] = LevelStep(deps, base, level, s)
  BY <1>1
<1>3. \A s \in base : level[s] \in Nat /\ level[s] <= s
  <2> DEFINE Fails == {s \in base : ~(level[s] \in Nat /\ level[s] <= s)}
  <2> SUFFICES ASSUME Fails # {} PROVE FALSE
    OBVIOUS
  <2>1. PICK s \in Fails : \A t \in Fails : s <= t
    <3>1. Fails \in SUBSET Nat
      BY <1>0
    <3> HIDE DEF Fails
    <3> QED BY <3>1, LeastNumber
  <2>2. \A d \in deps[s] \cap base : d < s /\ level[d] \in Nat /\ level[d] <= d
    <3> SUFFICES ASSUME NEW d \in deps[s] \cap base
                 PROVE  d < s /\ level[d] \in Nat /\ level[d] <= d
      OBVIOUS
    <3>1. d < s /\ d \in Nat /\ s \in Nat
      BY <1>0 DEF Earlier
    <3>2. d \notin Fails
      BY <2>1, <3>1
    <3> QED BY <3>1, <3>2
  <2>3. LevelStep(deps, base, level, s) \in Nat /\ LevelStep(deps, base, level, s) <= s
    BY <1>0, <2>2, LevelStepValue
  <2> QED BY <1>2, <2>3
<1>4. ASSUME NEW s \in base
      PROVE  /\ level[s] = 0 <=> deps[s] \cap base = {}
             /\ \A d \in deps[s] \cap base : level[d] < level[s]
             /\ level[s] # 0 => \E d \in deps[s] \cap base : level[s] = 1 + level[d]
  <2>1. \A d \in deps[s] \cap base : d < s /\ level[d] \in Nat /\ level[d] <= d
    BY <1>3 DEF Earlier
  <2>2. \A d \in deps[s] \cap base : level[d] < level[s]
    BY <1>0, <1>2, <2>1, LevelStepValue
  <2>3. deps[s] \cap base = {} => level[s] = 0
    BY <1>2 DEF LevelStep
  <2>4. level[s] = 0 => deps[s] \cap base = {}
    <3> SUFFICES ASSUME level[s] = 0, NEW d \in deps[s] \cap base PROVE FALSE
      OBVIOUS
    <3>1. level[d] \in Nat /\ level[d] < 0
      BY <2>1, <2>2
    <3> QED BY <3>1
  <2>5. level[s] # 0 => \E d \in deps[s] \cap base : level[s] = 1 + level[d]
    <3>1. \/ LevelStep(deps, base, level, s) = 0
          \/ \E d \in deps[s] \cap base : LevelStep(deps, base, level, s) = 1 + level[d]
      BY <1>0, <2>1, LevelStepValue
    <3> QED BY <1>2, <3>1
  <2> QED BY <2>2, <2>3, <2>4, <2>5
<1>5. level \in [base -> Nat]
  BY <1>1, <1>3
<1> QED BY <1>4, <1>5 DEF level

-----------------------------------------------------------------------------
(* Waves.                                                                  *)

RiskyBefore(level, risky, s) == {t \in DOMAIN level : level[t] = level[s] /\ risky[t] /\ t < s}

LEMMA BlockValue ==
  ASSUME NEW level, NEW risky, NEW m \in Nat, DOMAIN level \subseteq 0..m, NEW s \in DOMAIN level
  PROVE  /\ IsFiniteSet(RiskyBefore(level, risky, s))
         /\ Cardinality(RiskyBefore(level, risky, s)) \in Nat
         /\ risky[s] => Block(level, risky, s) = 2 * Cardinality(RiskyBefore(level, risky, s)) + 1
         /\ ~risky[s] => Block(level, risky, s) = 2 * Cardinality(RiskyBefore(level, risky, s))
         /\ Block(level, risky, s) \in Nat
<1>1. IsFiniteSet(0..m)
  BY FS_Interval
<1>2. RiskyBefore(level, risky, s) \subseteq 0..m
  BY DEF RiskyBefore
<1>3. IsFiniteSet(RiskyBefore(level, risky, s))
  BY <1>1, <1>2, FS_Subset
<1> DEFINE n == Cardinality(RiskyBefore(level, risky, s))
           b == IF risky[s] THEN 1 ELSE 0
<1>4. n \in Nat
  BY <1>3, FS_CardinalityType
<1>5. Block(level, risky, s) = 2 * n + b
  BY DEF Block, RiskyBefore
<1>6. (risky[s] => b = 1) /\ (~risky[s] => b = 0) /\ b \in {0, 1}
  BY Zenon
<1> HIDE DEF n, b
<1>7. /\ b = 1 => Block(level, risky, s) = 2 * n + 1
      /\ b = 0 => Block(level, risky, s) = 2 * n
      /\ Block(level, risky, s) \in Nat
  BY <1>4, <1>5, <1>6
<1> QED BY <1>3, <1>4, <1>6, <1>7, Zenon DEF n

\* In a level, blocks follow the numbers of the steps: a risky step separates.
LEMMA RiskySeparates ==
  ASSUME NEW level, NEW risky, NEW m \in Nat, DOMAIN level \subseteq 0..m,
         NEW s \in DOMAIN level, NEW t \in DOMAIN level,
         level[s] = level[t], t < s, risky[s] \/ risky[t]
  PROVE  Block(level, risky, t) < Block(level, risky, s)
<1> DEFINE A == RiskyBefore(level, risky, t)
           B == RiskyBefore(level, risky, s)
<1>1. A \subseteq B /\ t \notin A /\ (risky[t] => t \in B)
  <2>1. \A u \in DOMAIN level : u \in Nat
    OBVIOUS
  <2>2. \A u \in DOMAIN level : u < t => u < s
    BY <2>1
  <2> QED BY <2>1, <2>2 DEF RiskyBefore
<1>2. IsFiniteSet(B) /\ Cardinality(A) \in Nat /\ Cardinality(B) \in Nat
  BY BlockValue
<1>3. Cardinality(A) <= Cardinality(B) /\ (Cardinality(A) = Cardinality(B) => A = B)
  BY <1>1, <1>2, FS_Subset
<1>4. /\ risky[t] => Block(level, risky, t) = 2 * Cardinality(A) + 1
      /\ ~risky[t] => Block(level, risky, t) = 2 * Cardinality(A)
      /\ risky[s] => Block(level, risky, s) = 2 * Cardinality(B) + 1
      /\ ~risky[s] => Block(level, risky, s) = 2 * Cardinality(B)
  BY BlockValue
<1>5. CASE risky[t]
  <2>1. Cardinality(A) < Cardinality(B)
    BY <1>1, <1>2, <1>3, <1>5
  <2>2. Block(level, risky, t) = 2 * Cardinality(A) + 1
    BY <1>4, <1>5
  <2>3. \/ Block(level, risky, s) = 2 * Cardinality(B) + 1
        \/ Block(level, risky, s) = 2 * Cardinality(B)
    BY <1>4
  <2> HIDE DEF A, B
  <2> QED BY <1>2, <2>1, <2>2, <2>3
<1>6. CASE ~risky[t]
  <2>1. /\ Block(level, risky, t) = 2 * Cardinality(A)
        /\ Block(level, risky, s) = 2 * Cardinality(B) + 1
    BY <1>4, <1>6
  <2> HIDE DEF A, B
  <2> QED BY <1>2, <1>3, <2>1
<1> QED BY <1>5, <1>6

\* Safe steps with no risky one between them are in one block.
LEMMA SafeStepsJoin ==
  ASSUME NEW level, NEW risky, NEW s \in DOMAIN level, NEW t \in DOMAIN level,
         level[s] = level[t], ~risky[s], ~risky[t],
         \A u \in DOMAIN level : level[u] = level[s] /\ risky[u] => (u < t <=> u < s)
  PROVE  Block(level, risky, t) = Block(level, risky, s)
<1>1. {u \in DOMAIN level : level[u] = level[t] /\ risky[u] /\ u < t}
        = {u \in DOMAIN level : level[u] = level[s] /\ risky[u] /\ u < s}
  OBVIOUS
<1> QED BY <1>1, Zenon DEF Block

\* Two steps of one wave are of one level and of one block.
LEMMA OneBlock ==
  ASSUME NEW deps, NEW risky, NEW m \in Nat, NEW base \in SUBSET (0..m), Earlier(deps, base),
         NEW pend \in SUBSET base,
         NEW s \in NextWave(deps, risky, base, pend), NEW t \in NextWave(deps, risky, base, pend)
  PROVE  /\ Level(deps, base)[s] = Level(deps, base)[t]
         /\ Block(Level(deps, base), risky, s) = Block(Level(deps, base), risky, t)
<1> DEFINE level == Level(deps, base)
<1>1. level \in [base -> Nat]
  BY LevelsAreTopological
<1>2. s \in pend /\ t \in pend
  BY DEF NextWave
<1> HIDE DEF level
<1>3. level[s] \in Nat /\ level[t] \in Nat
  BY <1>1, <1>2
<1>4. Block(level, risky, s) \in Nat /\ Block(level, risky, t) \in Nat
  <2>1. DOMAIN level = base /\ s \in DOMAIN level /\ t \in DOMAIN level
    BY <1>1, <1>2
  <2> QED BY <2>1, BlockValue
<1>5. /\ ~(level[s] < level[t]) /\ ~(level[t] < level[s])
      /\ level[s] = level[t] => /\ ~(Block(level, risky, s) < Block(level, risky, t))
                                /\ ~(Block(level, risky, t) < Block(level, risky, s))
  BY <1>2 DEF NextWave, level
<1> QED BY <1>3, <1>4, <1>5 DEF level

\* A risky step is launched alone.
THEOREM RiskyStepIsAlone ==
  ASSUME NEW deps, NEW risky, NEW m \in Nat, NEW base \in SUBSET (0..m), Earlier(deps, base),
         NEW pend \in SUBSET base,
         NEW s \in NextWave(deps, risky, base, pend), risky[s]
  PROVE  NextWave(deps, risky, base, pend) = {s}
<1> DEFINE level == Level(deps, base)
<1>1. DOMAIN level = base /\ DOMAIN level \subseteq 0..m
  BY LevelsAreTopological
<1>2. SUFFICES ASSUME NEW t \in NextWave(deps, risky, base, pend) PROVE t = s
  OBVIOUS
<1>3. s \in DOMAIN level /\ t \in DOMAIN level
  BY <1>1 DEF NextWave
<1>4. level[s] = level[t] /\ Block(level, risky, s) = Block(level, risky, t)
  BY OneBlock
<1> HIDE DEF level
<1>5. risky[t]
  <2> SUFFICES ASSUME ~risky[t] PROVE FALSE
    OBVIOUS
  <2> DEFINE a == Cardinality(RiskyBefore(level, risky, s))
             b == Cardinality(RiskyBefore(level, risky, t))
  <2>1. a \in Nat /\ Block(level, risky, s) = 2 * a + 1
    BY <1>1, <1>3, BlockValue
  <2>2. b \in Nat /\ Block(level, risky, t) = 2 * b
    BY <1>1, <1>3, BlockValue
  <2>3. \A k \in Nat, n \in Nat : 2 * k + 1 # 2 * n
    OBVIOUS
  <2> HIDE DEF a, b
  <2>4. 2 * a + 1 = 2 * b
    BY <1>4, <2>1, <2>2
  <2> QED BY <2>1, <2>2, <2>3, <2>4
<1>6. ~(s < t) /\ ~(t < s)
  <2>1. \A n \in Nat : ~(n < n)
    OBVIOUS
  <2>2. Block(level, risky, s) \in Nat
    BY <1>1, <1>3, BlockValue
  <2> QED BY <1>1, <1>3, <1>4, <1>5, <2>1, <2>2, RiskySeparates
<1>7. s \in Nat /\ t \in Nat
  <2>1. \A u \in base : u \in Nat
    OBVIOUS
  <2>2. s \in base /\ t \in base
    BY <1>1, <1>3
  <2> QED BY <2>1, <2>2
<1> QED BY <1>6, <1>7

\* No step of a wave depends on a step that is still pending.
THEOREM DependenciesAreBefore ==
  ASSUME NEW deps, NEW risky, NEW m \in Nat, NEW base \in SUBSET (0..m), Earlier(deps, base),
         NEW pend \in SUBSET base,
         NEW s \in NextWave(deps, risky, base, pend)
  PROVE  deps[s] \cap pend = {}
<1> DEFINE level == Level(deps, base)
<1>1. SUFFICES ASSUME NEW d \in deps[s] \cap pend PROVE FALSE
  OBVIOUS
<1>2. s \in pend /\ ~(level[d] < level[s])
  BY DEF NextWave
<1>3. level[d] < level[s]
  BY <1>2, LevelsAreTopological
<1> QED BY <1>2, <1>3
=============================================================================
