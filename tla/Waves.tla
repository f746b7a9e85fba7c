--------------------------------- MODULE Waves ---------------------------------
(***************************************************************************)
(* The order in which the orchestrator launches the pending steps of a     *)
(* mission (_construir_olas, edecan_agents/orchestrator.py).  A step is    *)
(* its sequence number; its dependencies have smaller numbers.             *)
(*                                                                         *)
(* The code peels topological levels off the pending steps and cuts each   *)
(* level around its risky steps, those whose profile may ask for a         *)
(* dangerous tool.  Here a step gets the coordinates of its wave directly; *)
(* WavesLoop holds the loops of the code and compares the two.             *)
(***************************************************************************)
EXTENDS Naturals, FiniteSets

\* (fault) dependencies are not looked at.
LevelFlat(deps, base) == [s \in base |-> 0]

\* How many rounds of peeling the step survives: one more than the deepest
\* pending step it depends on.
Level(deps, base) ==
    LET level[s \in base] ==
            LET below == deps[s] \cap base
            IN  IF below = {} THEN 0
                ELSE 1 + (CHOOSE n \in {level[d] : d \in below} :
                              \A d \in below : level[d] <= n)
    IN  level

\* (fault) a risky step stays with the safe ones before it.
BlockOpen(level, risky, s) ==
    Cardinality({t \in DOMAIN level : level[t] = level[s] /\ risky[t] /\ t < s})

\* Within a level, a risky step is a block of its own and the others are cut
\* at each risky step, in the order of their numbers.
Block(level, risky, s) ==
    2 * Cardinality({t \in DOMAIN level : level[t] = level[s] /\ risky[t] /\ t < s})
    + (IF risky[s] THEN 1 ELSE 0)

\* The wave of base that comes first among the steps of pend.
NextWave(deps, risky, base, pend) ==
    LET level == Level(deps, base)
        Sooner(t, s) == \/ level[t] < level[s]
                        \/ /\ level[t] = level[s]
                           /\ Block(level, risky, t) < Block(level, risky, s)
    IN  {s \in pend : \A t \in pend : ~Sooner(t, s)}
=============================================================================
