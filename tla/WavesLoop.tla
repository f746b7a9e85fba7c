------------------------------- MODULE WavesLoop -------------------------------
(***************************************************************************)
(* How the orchestrator computes its waves (_resolver_depende_de and       *)
(* _construir_olas, edecan_agents/orchestrator.py): the loop that peels    *)
(* topological levels off the pending steps, then the loop that goes       *)
(* through each level and cuts it around the risky steps.  It starts from  *)
(* any plan, with any steps already ended, and must give the waves that    *)
(* Waves defines directly and Missions uses.                               *)
(***************************************************************************)
EXTENDS Naturals, FiniteSets, Sequences, Waves

CONSTANT N  \* steps of the plan

ASSUME WavesAssumption == N \in Nat

Steps == 1..N
\* What a plan may say of a step: nothing, or a list; {s} stands for any list
\* that is refused: out of range, of a later step, not of numbers.
Declaration == [given : BOOLEAN, on : SUBSET Steps]
Possible(s, d) == IF d.given THEN d.on = {s} \/ d.on \subseteq 1..(s - 1) ELSE d.on = {}

VARIABLES
    declared,  \* the plan: what each step says it depends on
    risky,     \* the plan: whose profile may ask for dangerous tools
    base,      \* the steps to place
    pending,   \* those not in a level yet
    levels,    \* olas_topologicas, less the steps already gone through
    batch,     \* lote
    waves      \* olas_finales

plan == <<declared, risky, base>>
vars == <<plan, pending, levels, batch, waves>>

Init ==
    /\ declared \in {f \in [Steps -> Declaration] : \A s \in Steps : Possible(s, f[s])}
    /\ risky \in [Steps -> BOOLEAN]
    /\ base \in SUBSET Steps
    /\ pending = base
    /\ levels = <<>>
    /\ batch = {}
    /\ waves = <<>>

\* _resolver_depende_de
Resolved(s) ==
    IF ~declared[s].given THEN 1..(s - 1)
    ELSE IF declared[s].on \subseteq 1..(s - 1) THEN declared[s].on
    ELSE {s - 1} \ {0}

\* (fault) a step is eligible as soon as one dependency has ended.
EligibleAny == {s \in pending : Resolved(s) = {} \/ Resolved(s) \ pending # {}}

\* The steps whose dependencies have all ended or been placed; all of them if
\* there is none, so that the loop ends whatever the plan.
Eligible ==
    LET ready == {s \in pending : Resolved(s) \cap pending = {}}
    IN  IF ready = {} THEN pending ELSE ready

Peel ==
    /\ pending # {}
    /\ levels' = Append(levels, Eligible)
    /\ pending' = pending \ Eligible
    /\ UNCHANGED <<plan, batch, waves>>

Smallest(S) == CHOOSE s \in S : \A t \in S : s <= t
Flushed == IF batch = {} THEN waves ELSE Append(waves, batch)

\* (fault) the open batch survives a risky step.
CutOpen ==
    /\ pending = {} /\ levels # <<>> /\ Head(levels) # {}
    /\ LET s == Smallest(Head(levels))
       IN  /\ levels' = [levels EXCEPT ![1] = @ \ {s}]
           /\ IF risky[s]
              THEN waves' = Append(waves, {s}) /\ UNCHANGED batch
              ELSE batch' = batch \cup {s} /\ UNCHANGED waves
    /\ UNCHANGED <<plan, pending>>

\* (fault) the open batch is dropped at a risky step.
CutForgets ==
    /\ pending = {} /\ levels # <<>> /\ Head(levels) # {}
    /\ LET s == Smallest(Head(levels))
       IN  /\ levels' = [levels EXCEPT ![1] = @ \ {s}]
           /\ IF risky[s]
              THEN waves' = Append(waves, {s}) /\ batch' = {}
              ELSE batch' = batch \cup {s} /\ UNCHANGED waves
    /\ UNCHANGED <<plan, pending>>

\* The next step of the level: a risky one closes the batch and goes alone.
Cut ==
    /\ pending = {} /\ levels # <<>> /\ Head(levels) # {}
    /\ LET s == Smallest(Head(levels))
       IN  /\ levels' = [levels EXCEPT ![1] = @ \ {s}]
           /\ IF risky[s]
              THEN waves' = Append(Flushed, {s}) /\ batch' = {}
              ELSE batch' = batch \cup {s} /\ UNCHANGED waves
    /\ UNCHANGED <<plan, pending>>

EndLevel ==
    /\ pending = {} /\ levels # <<>> /\ Head(levels) = {}
    /\ levels' = Tail(levels)
    /\ waves' = Flushed
    /\ batch' = {}
    /\ UNCHANGED <<plan, pending>>

Finished == pending = {} /\ levels = <<>>

Next == Peel \/ Cut \/ EndLevel \/ (Finished /\ UNCHANGED vars)

Spec == Init /\ [][Next]_vars

-----------------------------------------------------------------------------
Placed(i) == UNION {waves[j] : j \in 1..i}
InLevels == UNION {levels[i] : i \in DOMAIN levels}

\* Types, and no step is lost or placed twice: pending, the levels, the open
\* batch and the waves are a partition of the steps to place.
TypeOK ==
    /\ levels \in Seq(SUBSET Steps)
    /\ waves \in Seq(SUBSET Steps)
    /\ pending \cup InLevels \cup batch \cup Placed(Len(waves)) = base
    /\ Cardinality(base) =
          Cardinality(pending) + Cardinality(InLevels) + Cardinality(batch)
          + Cardinality(Placed(Len(waves)))

\* Every dependency of a step that was placed is in an earlier wave, or had
\* ended before.
DependenciesFirst ==
    \A i \in DOMAIN waves : \A s \in waves[i] : Resolved(s) \cap base \subseteq Placed(i - 1)

\* The loops give the waves that Missions launches, in the same order.
SameWaves ==
    \A i \in DOMAIN waves :
        waves[i] = NextWave([s \in Steps |-> Resolved(s)], risky, base, base \ Placed(i - 1))
=============================================================================
