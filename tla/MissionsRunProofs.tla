--------------------------- MODULE MissionsRunProofs ---------------------------
(***************************************************************************)
(* Proofs about Missions when the executions of one mission do not         *)
(* overlap, for every set of clients, every plan and every limit.  Crashes *)
(* and repeated deliveries, one after the other, are allowed.              *)
(***************************************************************************)
EXTENDS MissionsProofs

\* run_mission is executed by one worker at a time.
Solo == \A q, r \in Run : q = r

-----------------------------------------------------------------------------
(* What a run keeps in memory agrees with the rows, although it read them  *)
(* once, writes them one commit at a time, and a save drops what the row   *)
(* said of dependencies.                                                   *)

Ended == {"done", "error", "skipped"}
Unended == {"pending", "running", "waiting_confirmation"}
Active == {"check", "stop", "wave", "replan", "skip", "insert", "final", "synth"}
Outside == {"idle", "loaded", "read", "ended"}

\* Only steps still to do are in a wave; dependencies are on earlier steps.
WaveShape(x) ==
    /\ x.pc # "wave" => \A s \in Seq1 : x.out[s] = "none"
    /\ x.pend \subseteq x.base
    /\ \A s \in Seq1 : x.deps[s] \subseteq 1..(s - 1)
    /\ \A s \in Seq1 : x.out[s] # "none" => s \in x.pend

\* A step that the run still has to do has not ended, its row says what the run
\* remembers, and what it depends on has ended or is also to do.
StepAgrees(x, table, s) ==
    /\ x.out[s] = "none" => table[s].status \in Unended
    /\ x.out[s] \in {"none", "todo", "running", "ran"} => table[s].deps = x.deps[s]
    /\ \A d \in x.deps[s] : d \in x.pend \/ table[d].status \in Ended
    /\ s <= x.top

\* Of the rows it sees, the run has the others for ended.
PlanAgrees(x, table) ==
    /\ \A s \in x.pend : StepAgrees(x, table, s)
    /\ \A s \in Seq1 : s <= MaxSteps /\ table[s].status # "none" =>
           s <= x.top /\ (s \in x.pend \/ table[s].status \in Ended)
    /\ x.pc \in {"insert", "final", "synth"} => x.pend = {}

\* The fate of a step in the wave is the one in its row.
FateAgrees(fate, row, asked) ==
    /\ fate = "todo" => row.status \in Unended
    /\ fate \in {"running", "ran"} => row.status = "running"
    /\ fate = "done" => row.status = "done"
    /\ fate = "error" => row.status = "error"
    /\ fate = "waiting" => /\ row.status = "waiting_confirmation"
                           /\ row.call = asked
                           /\ row.risky

WaveAgrees(x, table, asked) ==
    \A s \in Seq1 :
        /\ FateAgrees(x.out[s], table[s], asked)
        /\ x.out[s] \in {"todo", "running", "ran"} =>
              \A d \in x.deps[s] : table[d].status \in Ended
        /\ x.out[s] # "none" /\ table[s].risky =>
              \A t \in Seq1 \ {s} : x.out[t] = "none"

RunAgrees(x, table, asked) ==
    /\ WaveShape(x)
    /\ x.pc \in Active => PlanAgrees(x, table)
    /\ WaveAgrees(x, table, asked)

\* While a run is in its plan the mission neither waits nor is done, and a run
\* that found no steps is right to think so.
Steady(x, status, rows) ==
    /\ x.pc \in Active => status \notin {"waiting_confirmation", "done"}
    /\ x.pc = "read" /\ x.fresh => rows = {}

SoloInv ==
    /\ \A r \in Run : RunAgrees(run[r], steps, calls) /\ Steady(run[r], mission.status, Rows)
    /\ AskedLast
    /\ DoneMeansFinished

-----------------------------------------------------------------------------
(* Steps that leave the plan of the run alone.                             *)

\* A run that is not in its plan, or was not and starts it, agrees with any rows.
LEMMA OutsideAgrees ==
  ASSUME NEW x, NEW table, NEW asked, WaveShape(x), x.pc \in Outside
  PROVE  RunAgrees(x, table, asked)
<1>1. x.pc \notin Active /\ \A s \in Seq1 : x.out[s] = "none"
  BY DEF Outside, Active, WaveShape
<1> QED BY <1>1 DEF RunAgrees, WaveAgrees, FateAgrees

\* The memory of the one run changes.
LEMMA TheRunChanges ==
  ASSUME Solo, Inv, NEW r \in Run, NEW x, run' = [run EXCEPT ![r] = x],
         RunAgrees(x, steps', calls'), Steady(x, mission'.status, Rows'),
         AskedLast', DoneMeansFinished'
  PROVE  SoloInv'
<1>1. run'[r] = x
  BY DEF Inv, RunsOK
<1>2. \A q \in Run : run'[q] = x
  BY <1>1 DEF Solo
<1> QED BY <1>2 DEF SoloInv

\* The mission leaves the two statuses that say something of its steps.
LEMMA MissionBusy ==
  ASSUME mission'.status \notin {"waiting_confirmation", "done"}
  PROVE  AskedLast' /\ DoneMeansFinished'
BY DEF AskedLast, DoneMeansFinished

LEMMA MissionRests ==
  ASSUME SoloInv, UNCHANGED <<steps, calls>>,
         mission'.status = mission.status \/ mission'.status \notin {"waiting_confirmation", "done"}
  PROVE  AskedLast' /\ DoneMeansFinished'
<1>1. CASE mission'.status = mission.status
  BY <1>1 DEF SoloInv, AskedLast, DoneMeansFinished, Waiting, Rows
<1>2. CASE mission'.status \notin {"waiting_confirmation", "done"}
  BY <1>2, MissionBusy
<1> QED BY <1>1, <1>2

\* Requests, other than a rejection, and deliveries.
LEMMA ElsewhereAgrees ==
  ASSUME SoloInv, UNCHANGED <<steps, run, calls>>,
         mission'.status = mission.status \/ mission'.status \notin {"waiting_confirmation", "done"}
  PROVE  SoloInv'
<1>1. AskedLast' /\ DoneMeansFinished'
  BY MissionRests
<1>2. Rows' = Rows
  BY DEF Rows
<1>3. ASSUME NEW r \in Run
      PROVE  RunAgrees(run'[r], steps', calls') /\ Steady(run'[r], mission'.status, Rows')
  <2>1. RunAgrees(run[r], steps, calls) /\ Steady(run[r], mission.status, Rows)
    BY DEF SoloInv
  <2> QED BY <1>2, <2>1 DEF Steady
<1> QED BY <1>1, <1>3 DEF SoloInv

\* A run leaves its plan, or has not begun it.
LEMMA LeavesAgrees ==
  ASSUME Solo, Inv, SoloInv, NEW r \in Run, NEW x, run' = [run EXCEPT ![r] = x],
         WaveShape(x), x.pc \in Outside, x.pc = "read" /\ x.fresh => Rows' = {},
         AskedLast', DoneMeansFinished'
  PROVE  SoloInv'
<1>1. RunAgrees(x, steps', calls')
  BY OutsideAgrees
<1>2. Steady(x, mission'.status, Rows')
  BY DEF Steady, Outside, Active
<1> QED BY <1>1, <1>2, TheRunChanges

LEMMA IdleShape == WaveShape(IdleRun) /\ IdleRun.pc = "idle"
<1>1. /\ IdleRun.pend = {} /\ IdleRun.pc = "idle"
      /\ \A s \in Seq1 : IdleRun.out[s] = "none" /\ IdleRun.deps[s] = {}
  BY DEF IdleRun
<1> QED BY <1>1 DEF WaveShape

-----------------------------------------------------------------------------
(* The plan is taken up, cut in waves, executed and replaced.              *)

\* What Begin takes up are the steps among the first max_steps that have not
\* ended; the steps they depend on come before them.
LEMMA BeginAgrees ==
  ASSUME Solo, Inv, Inv', SoloInv, NEW r \in Run, run[r].pc \in {"loaded", "read"},
         Begin(r, steps'), mission'.status = "running"
  PROVE  SoloInv'
<1> DEFINE table == steps'
           some == {s \in 1..MaxSteps : table[s].status # "none"}
           pend == Unfinished(table)
           good == {s \in 1..MaxSteps : table[s].status = "done"}
           deps == [s \in Seq1 |-> table[s].deps]
           top == Cardinality(some)
           x == [run[r] EXCEPT !.pc = IF pend = {} THEN "final" ELSE "check",
                               !.pend = pend, !.base = pend, !.good = good,
                               !.deps = deps, !.top = top]
<1>0. MaxSteps \in Nat /\ 1..MaxSteps \subseteq Seq1
  BY MissionAssumption DEF Seq1
<1>1. StepsOK(table) /\ run[r] \in RunState
  <2>1. StepsOK(steps)' /\ StepsOK(steps)' = StepsOK(steps')
    BY DEF Inv
  <2> QED BY <2>1 DEF Inv, RunsOK
<1>2. top \in 0..MaxSeq /\ some = 1..top
  <2> HIDE DEF some
  <2> QED BY <1>1, SeenRows DEF some
<1>3. \A s \in Seq1 : table[s] \in StepRow /\ table[s].deps \subseteq 1..(s - 1)
  BY <1>1 DEF StepsOK, RowOK
<1>4. \A s \in pend : s \in 1..MaxSteps /\ s \in 1..top /\ table[s].status \in Unended
  BY <1>2 DEF Unfinished, Unended
<1>5. \A s \in 1..top : s \in 1..MaxSteps /\ (s \in pend \/ table[s].status \in Ended)
  BY <1>0, <1>2, <1>3 DEF StepRow, Unfinished, Ended
<1>6. /\ x.pc \in {"final", "check"} /\ (x.pc = "final" => pend = {})
      /\ x.pend = pend /\ x.base = pend /\ x.deps = deps /\ x.top = top
      /\ x.out = run[r].out
  <2> HIDE DEF pend, good, deps, top
  <2> QED BY <1>1 DEF RunState
<1>7. \A s \in Seq1 : x.out[s] = "none"
  BY <1>6 DEF SoloInv, RunAgrees, WaveShape
<1>8. run' = [run EXCEPT ![r] = x]
  BY DEF Begin
<1> HIDE DEF x
<1>9. WaveShape(x)
  BY <1>3, <1>6, <1>7 DEF WaveShape
<1>10. PlanAgrees(x, table)
  <2>1. ASSUME NEW s \in pend PROVE StepAgrees(x, table, s)
    <3>1. \A d \in deps[s] : d \in 1..top
      BY <1>0, <1>2, <1>3, <1>4
    <3>2. deps[s] = table[s].deps /\ s <= top
      BY <1>0, <1>2, <1>4
    <3> HIDE DEF pend, deps, top, table
    <3> QED BY <1>4, <1>5, <1>6, <3>1, <3>2 DEF StepAgrees
  <2>2. ASSUME NEW s \in Seq1, s <= MaxSteps, table[s].status # "none"
        PROVE  s \in 1..top
    <3>1. s \in 1..MaxSteps
      BY <1>0, <2>2 DEF Seq1
    <3> QED BY <1>2, <2>2, <3>1
  <2>3. \A s \in 1..top : s <= top
    BY <1>2
  <2> HIDE DEF pend, deps, top, table
  <2> QED BY <1>5, <1>6, <2>1, <2>2, <2>3 DEF PlanAgrees
<1>11. RunAgrees(x, table, calls')
  BY <1>7, <1>9, <1>10 DEF RunAgrees, WaveAgrees, FateAgrees
<1>12. Steady(x, mission'.status, Rows') /\ AskedLast' /\ DoneMeansFinished'
  BY <1>6, MissionBusy DEF Steady
<1> QED BY <1>8, <1>11, <1>12, TheRunChanges

LEMMA CommitAgrees ==
  ASSUME Solo, Inv, Inv', SoloInv, NEW r \in Run,
         CommitPlan(r) \/ CommitApproved(r) \/ CommitResumption(r)
  PROVE  SoloInv'
<1>1. run[r].pc \in {"loaded", "read"} /\ calls' = calls
  BY DEF CommitPlan, CommitApproved, CommitResumption, history
<1>2. CASE Return(r)
  <2>1. UNCHANGED steps
    <3>1. ~Begin(r, steps')
      <4>1. run'[r].pc = "idle"
        BY <1>2, IdleShape DEF Return, Inv, RunsOK
      <4>2. run[r] \in RunState /\ run \in [Run -> RunState]
        BY DEF Inv, RunsOK
      <4>3. Begin(r, steps') => run'[r].pc \in {"final", "check"}
        BY <4>2 DEF Begin, RunState
      <4> QED BY <4>1, <4>3
    <3> QED BY <3>1 DEF CommitPlan, CommitApproved, CommitResumption
  <2>2. mission'.status = mission.status \/ mission'.status = "running"
    BY DEF CommitPlan, CommitApproved, CommitResumption, Moves, Inv, MissionOK
  <2>3. AskedLast' /\ DoneMeansFinished'
    BY <1>1, <2>1, <2>2, MissionRests
  <2>4. run' = [run EXCEPT ![r] = IdleRun]
    BY <1>2 DEF Return
  <2> QED BY <2>3, <2>4, IdleShape, LeavesAgrees DEF Outside
<1>3. CASE ~Return(r)
  <2>1. Begin(r, steps') /\ mission'.status = "running"
    BY <1>3 DEF CommitPlan, CommitApproved, CommitResumption, Moves, Inv, MissionOK
  <2> QED BY <1>1, <2>1, BeginAgrees
<1> QED BY <1>2, <1>3

\* The next wave takes steps that depend on nothing left to do, and a risky one
\* by itself: DependenciesAreBefore and RiskyStepIsAlone.
LEMMA CheckStopAgrees ==
  ASSUME Solo, Inv, SoloInv, NEW r \in Run, CheckStop(r)
  PROVE  SoloInv'
<1>1. /\ run[r].pc = "check" /\ run[r] \in RunState
      /\ UNCHANGED <<mission, steps, calls>>
      /\ mission.status \notin {"waiting_confirmation", "done"}
  BY DEF CheckStop, history, Inv, RunsOK, SoloInv, Steady, Active
<1>2. /\ WaveShape(run[r]) /\ PlanAgrees(run[r], steps)
      /\ \A s \in Seq1 : run[r].out[s] = "none"
  BY <1>1 DEF SoloInv, RunAgrees, Active, WaveShape
<1>3. AskedLast' /\ DoneMeansFinished'
  BY <1>1, MissionBusy
<1>4. CASE mission.status \in Stopped
  <2> DEFINE x == [run[r] EXCEPT !.pc = "stop"]
  <2>1. run' = [run EXCEPT ![r] = x]
    BY <1>4 DEF CheckStop
  <2>2. /\ x.pc = "stop" /\ x.out = run[r].out /\ x.pend = run[r].pend
        /\ x.base = run[r].base /\ x.deps = run[r].deps /\ x.top = run[r].top
    BY <1>1 DEF RunState
  <2> HIDE DEF x
  <2>3. RunAgrees(x, steps', calls')
    BY <1>1, <1>2, <2>2 DEF RunAgrees, WaveShape, PlanAgrees, StepAgrees, WaveAgrees, FateAgrees
  <2>4. Steady(x, mission'.status, Rows')
    BY <1>1, <2>2 DEF Steady
  <2> QED BY <1>3, <2>1, <2>3, <2>4, TheRunChanges
<1>5. CASE mission.status \notin Stopped
  <2> DEFINE deps == run[r].deps
             base == run[r].base
             pend == run[r].pend
             risky == [s \in Seq1 |-> steps[s].risky]
             wave == NextWave(deps, risky, base, pend)
             out == [s \in Seq1 |-> IF s \in wave THEN "todo" ELSE "none"]
             x == [run[r] EXCEPT !.pc = "wave", !.out = out]
  <2>1. run' = [run EXCEPT ![r] = x]
    BY <1>5 DEF CheckStop
  <2>2. MaxSeq \in Nat /\ base \in SUBSET (0..MaxSeq) /\ pend \in SUBSET base
        /\ pend \subseteq Seq1
    BY <1>1, <1>2, MissionAssumption DEF RunState, Seq1, WaveShape
  <2>3. Earlier(deps, base)
    <3>1. \A s \in base : s \in Seq1
      BY <1>1 DEF RunState
    <3>2. \A s \in Seq1 : s \in Nat /\ deps[s] \subseteq 1..(s - 1)
      BY <1>2 DEF WaveShape, Seq1
    <3>3. \A s \in Seq1 : \A d \in 1..(s - 1) : d < s
      BY <3>2
    <3> HIDE DEF deps, base
    <3> QED BY <3>1, <3>2, <3>3 DEF Earlier
  <2>4. wave \subseteq pend
    BY DEF NextWave
  <2>5. ASSUME NEW s \in wave
        PROVE  /\ deps[s] \cap pend = {}
               /\ risky[s] => wave = {s}
    <3> HIDE DEF deps, base, pend, risky
    <3> QED BY <2>2, <2>3, RiskyStepIsAlone, DependenciesAreBefore
  <2>6. ASSUME NEW s \in wave
        PROVE  steps[s].status \in Unended /\ \A d \in deps[s] : steps[d].status \in Ended
    <3>1. s \in pend /\ s \in Seq1
      BY <2>2, <2>4
    <3>2. StepAgrees(run[r], steps, s)
      BY <1>2, <3>1 DEF PlanAgrees
    <3>3. steps[s].status \in Unended
      BY <1>2, <3>1, <3>2 DEF StepAgrees
    <3>4. \A d \in deps[s] : d \in pend \/ steps[d].status \in Ended
      BY <3>2 DEF StepAgrees
    <3> QED BY <2>5, <3>3, <3>4
  <2>7. /\ x.pc = "wave" /\ x.out = out /\ x.pend = pend
        /\ x.base = base /\ x.deps = deps /\ x.top = run[r].top
    <3> HIDE DEF out
    <3> QED BY <1>1 DEF RunState
  <2>8. \A s \in Seq1 : out[s] = IF s \in wave THEN "todo" ELSE "none"
    OBVIOUS
  <2>9. WaveShape(x)
    <3> HIDE DEF x, out, wave
    <3> QED BY <1>2, <2>4, <2>7, <2>8 DEF WaveShape
  <2>10. PlanAgrees(x, steps)
    <3>1. ASSUME NEW s \in pend PROVE StepAgrees(x, steps, s)
      <4>1. StepAgrees(run[r], steps, s) /\ run[r].out[s] = "none" /\ s \in Seq1
        BY <1>2, <2>2 DEF PlanAgrees
      <4> HIDE DEF x, out, wave
      <4> QED BY <2>7, <4>1 DEF StepAgrees
    <3> HIDE DEF x, out, wave
    <3> QED BY <1>2, <2>7, <3>1 DEF PlanAgrees
  <2>11. WaveAgrees(x, steps, calls)
    <3>1. ASSUME NEW s \in Seq1
          PROVE  /\ FateAgrees(x.out[s], steps[s], calls)
                 /\ x.out[s] \in {"todo", "running", "ran"} =>
                       \A d \in x.deps[s] : steps[d].status \in Ended
      <4> HIDE DEF x, out, wave
      <4> QED BY <2>6, <2>7, <2>8 DEF FateAgrees
    <3>2. ASSUME NEW s \in Seq1, x.out[s] # "none", steps[s].risky, NEW t \in Seq1 \ {s}
          PROVE  x.out[t] = "none"
      <4>1. s \in wave /\ risky[s]
        <5> HIDE DEF x, wave
        <5> QED BY <2>7, <2>8, <3>2
      <4>2. wave = {s}
        BY <2>5, <4>1
      <4> HIDE DEF x, wave
      <4> QED BY <2>7, <2>8, <4>2
    <3> HIDE DEF x
    <3> QED BY <3>1, <3>2 DEF WaveAgrees
  <2> HIDE DEF x
  <2>12. RunAgrees(x, steps', calls')
    BY <1>1, <2>9, <2>10, <2>11 DEF RunAgrees
  <2>13. Steady(x, mission'.status, Rows')
    BY <1>1, <2>7 DEF Steady
  <2> QED BY <1>3, <2>1, <2>12, <2>13, TheRunChanges
<1> QED BY <1>4, <1>5

\* A step given up is the first of those to do.
LEMMA SkipAgrees ==
  ASSUME Solo, Inv, Inv', SoloInv, NEW r \in Run, SkipStopped(r) \/ SkipReplaced(r)
  PROVE  SoloInv'
<1> DEFINE pend == run[r].pend
           s == First(pend)
<1>1. PICK next \in {"ended", "stop", "insert", "skip"} :
          /\ SkipFirst(r, next)
          /\ next = "insert" => Cardinality(pend) = 1
  BY DEF SkipStopped, SkipReplaced
<1> DEFINE x == [run[r] EXCEPT !.pend = pend \ {s}, !.pc = next]
<1>2. /\ run[r].pc \in {"stop", "skip"} /\ run[r] \in RunState /\ RunOK(run[r], Rows)
      /\ steps \in [Seq1 -> StepRow]
  BY DEF SkipStopped, SkipReplaced, Inv, RunsOK, StepsOK
<1>3. /\ mission.status \notin {"waiting_confirmation", "done"}
      /\ WaveShape(run[r]) /\ PlanAgrees(run[r], steps)
      /\ \A t \in Seq1 : run[r].out[t] = "none"
  BY <1>2 DEF SoloInv, Steady, RunAgrees, Active, WaveShape
<1>4. s \in pend /\ pend \subseteq Seq1
  BY <1>2, FirstIsMember DEF RunOK, RunState
<1>5. /\ UNCHANGED <<mission, calls>>
      /\ steps' = [steps EXCEPT ![s].status = "skipped"]
      /\ run' = [run EXCEPT ![r] = x]
  BY <1>1 DEF SkipFirst, history
<1>6. /\ x.pc = next /\ x.out = run[r].out /\ x.pend = pend \ {s}
      /\ x.base = run[r].base /\ x.deps = run[r].deps /\ x.top = run[r].top
  <2> HIDE DEF s
  <2> QED BY <1>2 DEF RunState
<1>7. /\ steps'[s].status = "skipped" /\ steps[s].status # "none"
      /\ \A t \in Seq1 \ {s} : steps'[t] = steps[t]
  <2>1. steps[s].status \in Unended
    BY <1>3, <1>4 DEF PlanAgrees, StepAgrees
  <2> HIDE DEF s
  <2> QED BY <1>2, <1>4, <1>5, <2>1 DEF StepRow, Unended
<1>8. next = "insert" => pend \ {s} = {}
  <2>1. IsFiniteSet(pend)
    <3>1. IsFiniteSet(Seq1)
      BY FS_Interval, MissionAssumption DEF Seq1
    <3> QED BY <1>4, <3>1, FS_Subset
  <2>2. Cardinality(pend) = 1 => \E t : pend = {t}
    BY <2>1, FS_Singleton
  <2> HIDE DEF s
  <2> QED BY <1>1, <1>4, <2>2
<1> HIDE DEF s, x
<1>9. WaveShape(x)
  BY <1>3, <1>6 DEF WaveShape
<1>10. PlanAgrees(x, steps')
  <2>1. ASSUME NEW t \in pend \ {s} PROVE StepAgrees(x, steps', t)
    <3>1. StepAgrees(run[r], steps, t) /\ t \in Seq1 /\ run[r].out[t] = "none"
      BY <1>3, <1>4 DEF PlanAgrees
    <3>2. steps'[t] = steps[t]
      BY <1>7, <3>1
    <3>3. \A d \in run[r].deps[t] : d \in Seq1
      BY <1>2, <3>1 DEF RunState
    <3>4. \A d \in run[r].deps[t] : d \in pend \ {s} \/ steps'[d].status \in Ended
      BY <1>7, <3>1, <3>3 DEF StepAgrees, Ended
    <3> QED BY <1>6, <3>1, <3>2, <3>4 DEF StepAgrees
  <2>2. ASSUME NEW t \in Seq1, t <= MaxSteps, steps'[t].status # "none"
        PROVE  t <= x.top /\ (t \in pend \ {s} \/ steps'[t].status \in Ended)
    BY <1>3, <1>6, <1>7, <2>2 DEF PlanAgrees, Ended
  <2> QED BY <1>1, <1>6, <1>8, <2>1, <2>2 DEF PlanAgrees
<1>11. RunAgrees(x, steps', calls')
  BY <1>3, <1>6, <1>9, <1>10 DEF RunAgrees, WaveAgrees, FateAgrees
<1>12. Steady(x, mission'.status, Rows') /\ AskedLast' /\ DoneMeansFinished'
  BY <1>3, <1>5, <1>6, MissionBusy DEF Steady
<1> QED BY <1>5, <1>11, <1>12, TheRunChanges

\* A step of the wave gets its next fate, and its row the one write that goes
\* with it; no other row changes.
LEMMA FateChanges ==
  ASSUME Solo, Inv, SoloInv, NEW r \in Run, NEW s \in Seq1,
         run[r].out[s] \in {"todo", "running", "ran"},
         NEW fate \in Fate \ {"none", "todo"}, NEW row, row.status # "none",
         row.risky = steps[s].risky, FateAgrees(fate, row, calls'),
         fate \in {"running", "ran"} => row.deps = steps[s].deps,
         calls' = calls \/ row.risky,
         UNCHANGED mission,
         steps' = [steps EXCEPT ![s] = row],
         run' = [run EXCEPT ![r].out[s] = fate]
  PROVE  SoloInv'
<1> DEFINE out == [run[r].out EXCEPT ![s] = fate]
           x == [run[r] EXCEPT !.out = out]
<1>1. /\ run[r] \in RunState /\ steps \in [Seq1 -> StepRow]
      /\ run[r].out \in [Seq1 -> Fate] /\ run[r].deps \in [Seq1 -> SUBSET Seq1]
      /\ run[r].pend \subseteq Seq1
  BY DEF Inv, RunsOK, StepsOK, RunState
<1>2. WaveShape(run[r]) /\ WaveAgrees(run[r], steps, calls)
  BY DEF SoloInv, RunAgrees
<1>3. run[r].pc = "wave" /\ s \in run[r].pend
  BY <1>2 DEF WaveShape
<1>4. PlanAgrees(run[r], steps) /\ mission.status \notin {"waiting_confirmation", "done"}
  BY <1>3 DEF SoloInv, RunAgrees, Steady, Active
<1>5. run' = [run EXCEPT ![r] = x]
  BY DEF Inv, RunsOK
<1>6. /\ x.pc = "wave" /\ x.out = out /\ x.pend = run[r].pend
      /\ x.base = run[r].base /\ x.deps = run[r].deps /\ x.top = run[r].top
  <2> HIDE DEF out
  <2> QED BY <1>1, <1>3 DEF RunState
<1>7. out[s] = fate /\ \A t \in Seq1 \ {s} : out[t] = run[r].out[t]
  BY <1>1
<1>8. steps'[s] = row /\ \A t \in Seq1 \ {s} : steps'[t] = steps[t]
  BY <1>1
<1>9. steps[s].status \in Unended
  BY <1>2 DEF WaveAgrees, FateAgrees, Unended
<1>10. \A d \in Seq1 : steps[d].status \in Ended => steps'[d].status \in Ended
  BY <1>8, <1>9 DEF Ended, Unended
<1> HIDE DEF x, out
<1>11. WaveShape(x)
  BY <1>2, <1>3, <1>6, <1>7 DEF WaveShape
<1>12. PlanAgrees(x, steps')
  <2>1. ASSUME NEW t \in run[r].pend PROVE StepAgrees(x, steps', t)
    <3>1. StepAgrees(run[r], steps, t) /\ t \in Seq1
      BY <1>1, <1>4 DEF PlanAgrees
    <3>2. \A d \in run[r].deps[t] : d \in run[r].pend \/ steps'[d].status \in Ended
      BY <1>1, <1>10, <3>1 DEF StepAgrees
    <3>3. CASE t = s
      <4>1. out[t] \in {"none", "todo", "running", "ran"} => steps'[t].deps = run[r].deps[t]
        BY <1>7, <1>8, <3>1, <3>3 DEF StepAgrees
      <4> QED BY <1>6, <1>7, <3>1, <3>2, <3>3, <4>1 DEF StepAgrees
    <3>4. CASE t # s
      <4>1. out[t] = run[r].out[t] /\ steps'[t] = steps[t]
        BY <1>7, <1>8, <3>1, <3>4
      <4> QED BY <1>6, <3>1, <3>2, <4>1 DEF StepAgrees
    <3> QED BY <3>3, <3>4
  <2>2. ASSUME NEW t \in Seq1, t <= MaxSteps, steps'[t].status # "none"
        PROVE  t <= x.top /\ (t \in run[r].pend \/ steps'[t].status \in Ended)
    <3>1. steps[t].status # "none"
      BY <1>8, <1>9, <2>2 DEF Unended
    <3> QED BY <1>4, <1>6, <1>10, <2>2, <3>1 DEF PlanAgrees
  <2> QED BY <1>6, <2>1, <2>2 DEF PlanAgrees
<1>13. WaveAgrees(x, steps', calls')
  <2>1. ASSUME NEW t \in Seq1 PROVE FateAgrees(out[t], steps'[t], calls')
    <3>1. CASE t = s
      BY <1>7, <1>8, <3>1
    <3>2. CASE t # s
      <4>1. FateAgrees(run[r].out[t], steps[t], calls)
        BY <1>2 DEF WaveAgrees
      <4>2. calls' = calls \/ run[r].out[t] = "none"
        BY <1>2, <3>2 DEF WaveAgrees
      <4>3. FateAgrees(run[r].out[t], steps[t], calls')
        BY <4>1, <4>2 DEF FateAgrees
      <4> QED BY <1>7, <1>8, <3>2, <4>3
    <3> QED BY <3>1, <3>2
  <2>2. ASSUME NEW t \in Seq1, out[t] \in {"todo", "running", "ran"},
               NEW d \in run[r].deps[t]
        PROVE  steps'[d].status \in Ended
    <3>1. run[r].out[t] \in {"todo", "running", "ran"}
      BY <1>7, <2>2
    <3>2. steps[d].status \in Ended /\ d \in Seq1
      BY <1>1, <1>2, <2>2, <3>1 DEF WaveAgrees
    <3> QED BY <1>10, <3>2
  <2>3. ASSUME NEW t \in Seq1, out[t] # "none", steps'[t].risky, NEW u \in Seq1 \ {t}
        PROVE  out[u] = "none"
    <3>1. run[r].out[t] # "none" /\ steps[t].risky
      BY <1>7, <1>8, <2>3
    <3>2. run[r].out[u] = "none"
      BY <1>2, <3>1 DEF WaveAgrees
    <3>3. u # s
      BY <3>2
    <3> QED BY <1>7, <3>2, <3>3
  <2> QED BY <1>6, <2>1, <2>2, <2>3 DEF WaveAgrees
<1>14. RunAgrees(x, steps', calls')
  BY <1>11, <1>12, <1>13 DEF RunAgrees
<1>15. Steady(x, mission'.status, Rows') /\ AskedLast' /\ DoneMeansFinished'
  BY <1>4, <1>6, MissionBusy DEF Steady
<1> QED BY <1>5, <1>14, <1>15, TheRunChanges

LEMMA StepActionAgrees ==
  ASSUME Solo, Inv, SoloInv, NEW r \in Run, NEW s \in Seq1, StepAction(r, s)
  PROVE  SoloInv'
<1>1. steps \in [Seq1 -> StepRow] /\ UNCHANGED mission
  BY DEF Inv, StepsOK, StepAction, StepStarts, ToolRuns, StepDone, StepErrors, StepWaits
<1>2. FateAgrees(run[r].out[s], steps[s], calls)
  BY DEF SoloInv, RunAgrees, WaveAgrees
<1>3. ASSUME NEW status, NEW call, Saved(s, status, call)
      PROVE  \E row : /\ steps' = [steps EXCEPT ![s] = row]
                      /\ row.status = status /\ row.call = call
                      /\ row.risky = steps[s].risky
  <2> DEFINE row == [steps[s] EXCEPT !.status = status, !.call = call, !.deps = 1..(s - 1)]
  <2>1. row.status = status /\ row.call = call /\ row.risky = steps[s].risky
    BY <1>1 DEF StepRow
  <2>2. steps' = [steps EXCEPT ![s] = row]
    BY <1>3 DEF Saved
  <2> HIDE DEF row
  <2> QED BY <2>1, <2>2
<1>4. CASE StepStarts(r, s)
  <2> DEFINE row == [steps[s] EXCEPT !.status = "running"]
  <2>1. /\ steps' = [steps EXCEPT ![s] = row]
        /\ row.status = "running" /\ row.risky = steps[s].risky /\ row.deps = steps[s].deps
    BY <1>1, <1>4 DEF StepStarts, StepRow
  <2>2. /\ run[r].out[s] = "todo" /\ calls' = calls
        /\ run' = [run EXCEPT ![r].out[s] = "running"]
    BY <1>4 DEF StepStarts, history
  <2> HIDE DEF row
  <2>3. FateAgrees("running", row, calls')
    BY <2>1 DEF FateAgrees
  <2> QED BY <1>1, <2>1, <2>2, <2>3, FateChanges DEF Fate
<1>5. CASE ToolRuns(r, s)
  <2>1. /\ run[r].out[s] = "running" /\ calls' = calls
        /\ run' = [run EXCEPT ![r].out[s] = "ran"]
        /\ steps' = [steps EXCEPT ![s] = steps[s]]
    BY <1>1, <1>5 DEF ToolRuns
  <2>2. FateAgrees("ran", steps[s], calls') /\ steps[s].status # "none"
    BY <1>2, <2>1 DEF FateAgrees
  <2> QED BY <1>1, <2>1, <2>2, FateChanges DEF Fate
<1>6. CASE StepDone(r, s)
  <2>1. /\ run[r].out[s] \in {"running", "ran"} /\ calls' = calls /\ Saved(s, "done", 0)
        /\ run' = [run EXCEPT ![r].out[s] = "done"]
    BY <1>6 DEF StepDone, history
  <2>2. PICK row : /\ steps' = [steps EXCEPT ![s] = row]
                   /\ row.status = "done" /\ row.risky = steps[s].risky
    BY <1>3, <2>1
  <2>3. FateAgrees("done", row, calls')
    BY <2>2 DEF FateAgrees
  <2> QED BY <1>1, <2>1, <2>2, <2>3, FateChanges DEF Fate
<1>7. CASE StepErrors(r, s)
  <2>1. /\ run[r].out[s] \in {"running", "ran"} /\ calls' = calls /\ Saved(s, "error", 0)
        /\ run' = [run EXCEPT ![r].out[s] = "error"]
    BY <1>7 DEF StepErrors, history
  <2>2. PICK row : /\ steps' = [steps EXCEPT ![s] = row]
                   /\ row.status = "error" /\ row.risky = steps[s].risky
    BY <1>3, <2>1
  <2>3. FateAgrees("error", row, calls')
    BY <2>2 DEF FateAgrees
  <2> QED BY <1>1, <2>1, <2>2, <2>3, FateChanges DEF Fate
<1>8. CASE StepWaits(r, s)
  <2>0. PICK k : k = calls + 1
    OBVIOUS
  <2>1. /\ run[r].out[s] = "running" /\ steps[s].risky /\ calls' = k
        /\ run' = [run EXCEPT ![r].out[s] = "waiting"]
    BY <1>8, <2>0 DEF StepWaits
  <2>2. Saved(s, "waiting_confirmation", k)
    BY <1>8, <2>0 DEF StepWaits
  <2>3. PICK row : /\ steps' = [steps EXCEPT ![s] = row]
                   /\ row.status = "waiting_confirmation" /\ row.call = k
                   /\ row.risky = steps[s].risky
    BY ONLY <1>3, <2>2
  <2>4. FateAgrees("waiting", row, calls')
    BY <2>1, <2>3 DEF FateAgrees
  <2> QED BY <1>1, <2>1, <2>3, <2>4, FateChanges DEF Fate
<1> QED BY <1>4, <1>5, <1>6, <1>7, <1>8 DEF StepAction

\* The wave is over: what it did is dropped from what is to do.
DropsWave(x, old, left) ==
    /\ x.pc \in {"final", "check", "insert", "skip"}
    /\ x.pc \in {"final", "insert"} => left = {}
    /\ x.pend = left /\ x.base = old.base /\ x.deps = old.deps /\ x.top = old.top
    /\ x.out = IdleRun.out

LEMMA GatheredAgrees ==
  ASSUME Solo, Inv, SoloInv, NEW r \in Run, Gathered(r), With(r, "waiting") = {},
         NEW x, run' = [run EXCEPT ![r] = x], DropsWave(x, run[r], Remaining(r)),
         UNCHANGED <<steps, calls>>, mission'.status = mission.status
  PROVE  SoloInv'
<1> DEFINE pend == run[r].pend
           out == run[r].out
           left == Remaining(r)
<1>1. /\ run[r].pc = "wave" /\ pend \subseteq Seq1
      /\ out \in [Seq1 -> Fate] /\ run[r].deps \in [Seq1 -> SUBSET Seq1]
  BY DEF Gathered, Inv, RunsOK, RunState
<1>2. /\ mission.status \notin {"waiting_confirmation", "done"}
      /\ WaveShape(run[r]) /\ PlanAgrees(run[r], steps) /\ WaveAgrees(run[r], steps, calls)
  BY <1>1 DEF SoloInv, Steady, RunAgrees, Active
<1>3. \A s \in Seq1 : x.out[s] = "none"
  BY NoFate DEF DropsWave
<1>4. left \subseteq pend /\ \A s \in pend \ left : out[s] \in {"done", "error"}
  BY DEF Remaining, With
<1>5. \A s \in left : out[s] = "none"
  <2>1. \A s \in left : s \in Seq1 /\ out[s] \notin {"done", "error"}
    BY <1>1 DEF Remaining, With
  <2>2. \A s \in Seq1 : out[s] \notin {"todo", "running", "ran", "waiting"}
    BY DEF Gathered, With
  <2> QED BY <1>1, <2>1, <2>2 DEF Fate
<1>6. \A s \in pend \ left : steps[s].status \in Ended
  BY <1>1, <1>2, <1>4 DEF WaveAgrees, FateAgrees, Ended
<1> HIDE DEF left
<1>7. /\ x.pc \in {"final", "check", "insert", "skip"}
      /\ x.pc \in {"final", "insert"} => left = {}
      /\ x.pend = left /\ x.base = run[r].base /\ x.deps = run[r].deps /\ x.top = run[r].top
  BY DEF left, DropsWave
<1>8. WaveShape(x)
  BY <1>2, <1>3, <1>4, <1>7 DEF WaveShape
<1>9. PlanAgrees(x, steps)
  <2>1. ASSUME NEW s \in left PROVE StepAgrees(x, steps, s)
    <3>1. StepAgrees(run[r], steps, s) /\ s \in Seq1 /\ out[s] = "none"
      BY <1>1, <1>2, <1>4, <1>5 DEF PlanAgrees
    <3>2. \A d \in run[r].deps[s] : d \in left \/ steps[d].status \in Ended
      BY <1>6, <3>1 DEF StepAgrees
    <3> QED BY <1>3, <1>7, <3>1, <3>2 DEF StepAgrees
  <2>2. ASSUME NEW s \in Seq1, s <= MaxSteps, steps[s].status # "none"
        PROVE  s <= x.top /\ (s \in left \/ steps[s].status \in Ended)
    BY <1>2, <1>6, <1>7, <2>2 DEF PlanAgrees
  <2> QED BY <1>7, <2>1, <2>2 DEF PlanAgrees
<1>10. RunAgrees(x, steps', calls')
  BY <1>3, <1>8, <1>9 DEF RunAgrees, WaveAgrees, FateAgrees
<1>11. Steady(x, mission'.status, Rows') /\ AskedLast' /\ DoneMeansFinished'
  BY <1>2, <1>7, MissionBusy DEF Steady
<1> QED BY <1>10, <1>11, TheRunChanges

LEMMA WaveDoneAgrees ==
  ASSUME Solo, Inv, SoloInv, NEW r \in Run,
         WaveDone(r) \/ \E plan \in Replans : AdoptPlan(r, plan)
  PROVE  SoloInv'
<1>1. run[r] \in RunState /\ mission \in [status : Status, budget : Budget]
  BY DEF Inv, RunsOK, MissionOK
<1>2. CASE WaveDone(r)
  <2> DEFINE left == Remaining(r)
             good == Good(r)
             x == [run[r] EXCEPT !.pc = IF left = {} THEN "final" ELSE "check",
                                 !.pend = left, !.good = good, !.out = IdleRun.out]
  <2>1. /\ run' = [run EXCEPT ![r] = x] /\ Gathered(r) /\ With(r, "waiting") = {}
        /\ UNCHANGED <<mission, steps, calls>>
    BY <1>2 DEF WaveDone, history
  <2>2. DropsWave(x, run[r], left)
    <3> HIDE DEF left, good
    <3> QED BY <1>1 DEF RunState, DropsWave
  <2>3. mission'.status = mission.status
    BY <2>1
  <2> HIDE DEF x
  <2> QED BY <2>1, <2>2, <2>3, GatheredAgrees
<1>3. ASSUME NEW plan \in Replans, AdoptPlan(r, plan) PROVE SoloInv'
  <2> DEFINE left == Remaining(r)
             good == Good(r)
             n == run[r].budget.replans + 1
             x == [run[r] EXCEPT !.pc = IF left = {} THEN "insert" ELSE "skip",
                                 !.pend = left, !.good = good, !.out = IdleRun.out,
                                 !.budget.replans = n, !.next = plan]
  <2>1. /\ run' = [run EXCEPT ![r] = x] /\ Gathered(r) /\ With(r, "waiting") = {}
        /\ UNCHANGED <<steps, calls>>
    BY <1>3 DEF AdoptPlan, Adopts
  <2>2. DropsWave(x, run[r], left)
    <3> HIDE DEF left, good, n
    <3> QED BY <1>1 DEF RunState, DropsWave
  <2>3. mission'.status = mission.status
    BY <1>1, <1>3 DEF AdoptPlan
  <2> HIDE DEF x
  <2> QED BY <2>1, <2>2, <2>3, GatheredAgrees
<1> QED BY <1>2, <1>3

\* The new steps are numbered after those the run has seen, and depend on each
\* other only.
LEMMA InsertAgrees ==
  ASSUME Solo, Inv, SoloInv, NEW r \in Run, InsertSteps(r)
  PROVE  SoloInv'
<1> DEFINE plan == run[r].next
           old == run[r].top
           n == Len(plan)
           new == old + 1 .. old + n
           table == steps'
           deps == [s \in Seq1 |-> IF s \in new THEN table[s].deps ELSE run[r].deps[s]]
           top == old + n
           x == [run[r] EXCEPT !.pc = "check", !.pend = new, !.base = new,
                               !.deps = deps, !.top = top, !.next = <<>>]
<1>0. run' = [run EXCEPT ![r] = x]
  BY DEF InsertSteps
<1>1. /\ UNCHANGED <<mission, calls>> /\ run[r].pc = "insert" /\ new \subseteq Seq1
      /\ table = WithPlan(steps, plan, old)
  <2> HIDE DEF x
  <2> QED BY DEF InsertSteps, history
<1>2. /\ run[r] \in RunState /\ plan \in Replans /\ old \in 0..MaxSeq
      /\ \A s \in Seq1 : s \in Nat /\ s > 0
  BY <1>1 DEF Inv, RunsOK, RunOK, RunState, Seq1
<1>3. n \in Nat \ {0} /\ DOMAIN plan = 1..n /\ MaxSeq \in Nat
  BY <1>2, PlanShape, MissionAssumption
<1>4. /\ mission.status \notin {"waiting_confirmation", "done"}
      /\ WaveShape(run[r]) /\ PlanAgrees(run[r], steps) /\ run[r].pend = {}
      /\ \A s \in Seq1 : run[r].out[s] = "none"
  <2>1. /\ mission.status \notin {"waiting_confirmation", "done"}
        /\ WaveShape(run[r]) /\ PlanAgrees(run[r], steps)
    BY <1>1 DEF SoloInv, Steady, RunAgrees, Active
  <2> QED BY <1>1, <2>1 DEF PlanAgrees, WaveShape
<1>5. \A s \in Seq1 : (s > old /\ s - old \in DOMAIN plan) <=> s \in new
  BY <1>2, <1>3
<1>6. \A s \in Seq1 \ new : table[s] = steps[s]
  BY <1>1, <1>5 DEF WithPlan
<1>7. ASSUME NEW s \in new
      PROVE  /\ s \in Seq1 /\ s <= top /\ table[s].status = "pending"
             /\ table[s].deps \subseteq new /\ table[s].deps \subseteq 1..(s - 1)
  <2>1. s \in Seq1 /\ s \in Nat /\ s - old \in 1..n /\ s <= top
    BY <1>1, <1>2, <1>3
  <2>2. table[s] = [status |-> "pending", call |-> 0, risky |-> plan[s - old].risky,
                    deps |-> {d + old : d \in plan[s - old].deps}]
    BY <1>1, <1>5, <2>1 DEF WithPlan
  <2>3. plan[s - old].deps \subseteq 1..(s - old - 1)
    BY <1>2, <2>1, PlanShape
  <2>4. ASSUME NEW d \in 1..(s - old - 1)
        PROVE  d + old \in new /\ d + old \in 1..(s - 1)
    <3>1. d \in Nat /\ d >= 1 /\ d + old + 1 <= s /\ s <= old + n /\ old \in Nat
      BY <1>2, <1>3, <2>1
    <3> HIDE DEF n, old
    <3> QED BY <1>3, <2>1, <3>1
  <2> QED BY <2>1, <2>2, <2>3, <2>4
<1>8. /\ x.pc = "check" /\ x.pend = new /\ x.base = new /\ x.deps = deps /\ x.top = top
      /\ x.out = run[r].out
  <2> HIDE DEF plan, new, deps, top
  <2> QED BY <1>2 DEF RunState
<1>9. \A s \in new : deps[s] = table[s].deps
  BY <1>7
<1>10. \A s \in Seq1 : deps[s] \subseteq 1..(s - 1)
  <2> HIDE DEF new, table
  <2> QED BY <1>4, <1>7 DEF WaveShape
<1>11. PlanAgrees(x, table)
  <2>1. ASSUME NEW s \in new PROVE StepAgrees(x, table, s)
    <3> HIDE DEF x, new, deps, top, table
    <3> QED BY <1>7, <1>8, <1>9, <2>1 DEF StepAgrees, Unended
  <2>2. ASSUME NEW s \in Seq1, s <= MaxSteps, table[s].status # "none"
        PROVE  s <= top /\ (s \in new \/ table[s].status \in Ended)
    <3>1. CASE s \in new
      BY <1>7, <3>1
    <3>2. CASE s \notin new
      <4>1. s <= old /\ steps[s].status \in Ended /\ table[s] = steps[s]
        BY <1>4, <1>6, <2>2, <3>2 DEF PlanAgrees
      <4> QED BY <1>2, <1>3, <4>1
    <3> QED BY <3>1, <3>2
  <2> HIDE DEF x, new, deps, top, table
  <2> QED BY <1>8, <2>1, <2>2 DEF PlanAgrees
<1> HIDE DEF x, new, deps, top
<1>12. WaveShape(x)
  BY <1>4, <1>8, <1>10 DEF WaveShape
<1>13. RunAgrees(x, table, calls')
  BY <1>4, <1>8, <1>11, <1>12 DEF RunAgrees, WaveAgrees, FateAgrees
<1>14. Steady(x, mission'.status, Rows') /\ AskedLast' /\ DoneMeansFinished'
  BY <1>1, <1>4, <1>8, MissionBusy DEF Steady
<1> QED BY <1>0, <1>13, <1>14, TheRunChanges

LEMMA FinalCheckAgrees ==
  ASSUME Solo, Inv, SoloInv, NEW r \in Run, FinalCheck(r)
  PROVE  SoloInv'
<1>1. PICK pc \in {"ended", "synth"} : run' = [run EXCEPT ![r].pc = pc]
  BY DEF FinalCheck
<1> DEFINE x == [run[r] EXCEPT !.pc = pc]
<1>2. /\ run[r].pc = "final" /\ run[r] \in RunState
      /\ UNCHANGED <<mission, steps, calls>> /\ run' = [run EXCEPT ![r] = x]
  BY <1>1 DEF FinalCheck, history, Inv, RunsOK
<1>3. /\ mission.status \notin {"waiting_confirmation", "done"}
      /\ WaveShape(run[r]) /\ PlanAgrees(run[r], steps)
      /\ \A s \in Seq1 : run[r].out[s] = "none"
  BY <1>2 DEF SoloInv, Steady, RunAgrees, Active, WaveShape
<1>4. /\ x.pc = pc /\ x.out = run[r].out /\ x.pend = run[r].pend /\ x.base = run[r].base
      /\ x.deps = run[r].deps /\ x.top = run[r].top
  BY <1>2 DEF RunState
<1> HIDE DEF x
<1>5. run[r].pend = {}
  BY <1>2, <1>3 DEF PlanAgrees
<1>6. RunAgrees(x, steps', calls')
  BY <1>2, <1>3, <1>4, <1>5 DEF RunAgrees, WaveShape, PlanAgrees, WaveAgrees, FateAgrees
<1>7. Steady(x, mission'.status, Rows') /\ AskedLast' /\ DoneMeansFinished'
  BY <1>2, <1>3, <1>4, MissionBusy DEF Steady
<1> QED BY <1>2, <1>6, <1>7, TheRunChanges

\* The run ends and says so in the mission: what it then says is true.
LEMMA EndingAgrees ==
  ASSUME Solo, Inv, SoloInv, NEW r \in Run,
         MissionWaits(r) \/ MissionFails(r) \/ SaveDone(r) \/ Breaks(r)
  PROVE  SoloInv'
<1> DEFINE x == [run[r] EXCEPT !.pc = "ended", !.out = IdleRun.out]
<1>1. /\ run[r].pc \in Active /\ run[r] \in RunState /\ mission \in [status : Status, budget : Budget]
      /\ UNCHANGED <<steps, calls>> /\ run' = [run EXCEPT ![r] = x]
  BY DEF MissionWaits, MissionFails, SaveDone, Breaks, Gathered, Ends, Active, history,
         Inv, RunsOK, MissionOK
<1>2. /\ mission.status \notin {"waiting_confirmation", "done"}
      /\ WaveShape(run[r]) /\ PlanAgrees(run[r], steps) /\ WaveAgrees(run[r], steps, calls)
  BY <1>1 DEF SoloInv, Steady, RunAgrees
<1>3. /\ x.pc = "ended" /\ x.pend = run[r].pend /\ x.base = run[r].base
      /\ x.deps = run[r].deps /\ \A s \in Seq1 : x.out[s] = "none"
  BY <1>1, NoFate DEF RunState
<1>4. WaveShape(x)
  <2> HIDE DEF x
  <2> QED BY <1>2, <1>3 DEF WaveShape
<1>5. AskedLast' /\ DoneMeansFinished'
  <2>1. CASE MissionWaits(r)
    <3>1. mission'.status # "done" /\ DoneMeansFinished'
      BY <1>1, <1>2, <2>1 DEF MissionWaits, SaveMission, DoneMeansFinished
    <3>2. PICK s \in Seq1 : run[r].out[s] = "waiting"
      BY <2>1 DEF MissionWaits, With
    <3>3. steps[s].status = "waiting_confirmation" /\ steps[s].call = calls
      BY <1>2, <3>2 DEF WaveAgrees, FateAgrees
    <3>4. AskedLast'
      BY <1>1, <3>3 DEF AskedLast, Waiting
    <3> QED BY <3>1, <3>4
  <2>2. CASE MissionFails(r) \/ Breaks(r)
    <3>1. mission'.status \notin {"waiting_confirmation", "done"}
      BY <1>1, <1>2, <2>2 DEF MissionFails, Breaks, SaveMission
    <3> QED BY <3>1, MissionBusy
  <2>3. CASE SaveDone(r)
    <3>1. mission'.status # "waiting_confirmation" /\ AskedLast'
      BY <1>1, <1>2, <2>3 DEF SaveDone, SaveMission, AskedLast
    <3>2. \A s \in Seq1 : s <= MaxSteps /\ steps[s].status # "none" =>
              steps[s].status \in Ended
      BY <1>2, <2>3 DEF SaveDone, PlanAgrees
    <3>3. DoneMeansFinished'
      BY <1>1, <3>2 DEF DoneMeansFinished, Rows, Ended
    <3> QED BY <3>1, <3>3
  <2> QED BY <2>1, <2>2, <2>3
<1> HIDE DEF x
<1> QED BY <1>1, <1>3, <1>4, <1>5, LeavesAgrees DEF Outside

\* The run is over: it returned, was interrupted or has no attempts left.
LEMMA OverAgrees ==
  ASSUME Solo, Inv, SoloInv, NEW r \in Run,
         RunReturns(r) \/ Interrupted(r) \/ GivesUp(r)
  PROVE  SoloInv'
<1>1. /\ UNCHANGED <<steps, calls>> /\ run' = [run EXCEPT ![r] = IdleRun]
      /\ mission'.status = mission.status \/ mission'.status = "error"
  BY DEF RunReturns, Interrupted, GivesUp, Return, history, Inv, MissionOK
<1>2. AskedLast' /\ DoneMeansFinished'
  BY <1>1, MissionRests
<1> QED BY <1>1, <1>2, IdleShape, LeavesAgrees DEF Outside

\* A job is taken, and the steps of its mission are read.
LEMMA TakeAgrees ==
  ASSUME Solo, Inv, SoloInv, NEW r \in Run, ReadSteps(r) \/ \E m \in queue : Take(r, m)
  PROVE  SoloInv'
<1>1. UNCHANGED <<mission, steps, calls>> /\ run[r] \in RunState
  BY DEF ReadSteps, Take, history, Inv, RunsOK
<1>2. AskedLast' /\ DoneMeansFinished'
  BY <1>1, MissionRests
<1>3. CASE ReadSteps(r)
  <2> DEFINE x == [run[r] EXCEPT !.pc = "read", !.fresh = (Rows = {})]
  <2>1. run[r].pc = "loaded" /\ run' = [run EXCEPT ![r] = x]
    BY <1>1, <1>3 DEF ReadSteps, Inv, RunsOK
  <2>2. /\ x.pc = "read" /\ x.pend = run[r].pend /\ x.base = run[r].base
        /\ x.deps = run[r].deps /\ x.out = run[r].out
    BY <1>1 DEF RunState
  <2>3. x.fresh => Rows = {}
    BY <1>1, Zenon DEF RunState
  <2>4. Rows' = Rows
    BY <1>1 DEF Rows
  <2> HIDE DEF x
  <2>5. WaveShape(x)
    BY <2>1, <2>2 DEF SoloInv, RunAgrees, WaveShape
  <2> QED BY <1>1, <1>2, <2>1, <2>2, <2>3, <2>4, <2>5, LeavesAgrees DEF Outside
<1>4. ASSUME NEW m \in queue, Take(r, m) PROVE SoloInv'
  <2>1. CASE Ignored(m)
    <3>1. UNCHANGED run
      BY <1>4, <2>1 DEF Take
    <3> QED BY <1>1, <3>1, ElsewhereAgrees
  <2>2. CASE ~Ignored(m)
    <3> DEFINE call == IF m.kind = "approved" THEN steps[m.seq].call ELSE 0
               x == [IdleRun EXCEPT !.pc = "loaded", !.job = m, !.budget = mission.budget,
                                    !.call = call]
    <3>1. run' = [run EXCEPT ![r] = x]
      BY <1>4, <2>2 DEF Take
    <3>2. /\ x.pc = "loaded" /\ x.pend = IdleRun.pend /\ x.base = IdleRun.base
          /\ x.deps = IdleRun.deps /\ x.out = IdleRun.out
      <4> HIDE DEF call
      <4> QED BY DEF IdleRun
    <3> HIDE DEF x
    <3>3. WaveShape(x)
      BY <3>2, IdleShape DEF WaveShape
    <3> QED BY <1>1, <1>2, <3>1, <3>2, <3>3, LeavesAgrees DEF Outside
  <2> QED BY <2>1, <2>2
<1> QED BY <1>3, <1>4

\* A rejection gives up the steps that wait; no run is in its plan then.
LEMMA RejectAgrees ==
  ASSUME Inv, SoloInv, NEW c \in Client, Reject(c)
  PROVE  SoloInv'
<1>1. /\ mission.status = "waiting_confirmation" /\ mission'.status = "cancelled"
      /\ UNCHANGED <<run, calls>>
      /\ steps' = [s \in Seq1 |-> IF s \in Waiting THEN [steps[s] EXCEPT !.status = "skipped"]
                                                    ELSE steps[s]]
  BY DEF Reject, Claims, history, Inv, MissionOK
<1>2. AskedLast' /\ DoneMeansFinished'
  BY <1>1, MissionBusy
<1>3. Rows' = Rows
  <2>1. \A s \in Seq1 : steps[s] \in StepRow
    BY DEF Inv, StepsOK
  <2>2. \A s \in Seq1 : (steps'[s].status # "none") = (steps[s].status # "none")
    BY <1>1, <2>1 DEF Waiting, StepRow
  <2> QED BY <2>2 DEF Rows
<1>4. ASSUME NEW r \in Run
      PROVE  RunAgrees(run'[r], steps', calls') /\ Steady(run'[r], mission'.status, Rows')
  <2>1. /\ RunAgrees(run[r], steps, calls) /\ Steady(run[r], mission.status, Rows)
        /\ run[r] \in RunState
    BY DEF SoloInv, Inv, RunsOK
  <2>2. WaveShape(run[r]) /\ run[r].pc \in Outside
    BY <1>1, <2>1 DEF RunAgrees, Steady, Active, Outside, RunState, Phase
  <2>3. RunAgrees(run[r], steps', calls')
    BY <2>2, OutsideAgrees
  <2> QED BY <1>1, <1>3, <2>1, <2>3 DEF Steady
<1> QED BY <1>2, <1>4 DEF SoloInv

LEMMA WriteAgrees ==
  ASSUME Inv, SoloInv, NEW c \in Client, Write(c)
  PROVE  SoloInv'
<1>1. CASE Reject(c)
  BY <1>1, RejectAgrees
<1>2. CASE ~Reject(c)
  <2>1. UNCHANGED <<steps, run, calls>>
    BY <1>2 DEF Write, Approve, Cancel, Pause, Resume, Refused, Steer, history
  <2>2. \/ mission' = mission
        \/ \E to \in {"running", "cancelled", "paused"} : mission' = [mission EXCEPT !.status = to]
        \/ \E b : mission' = [mission EXCEPT !.budget = b]
    BY <1>2 DEF Write, Approve, Cancel, Pause, Resume, Refused, Steer, Claims, Moves
  <2>3. \/ mission'.status = mission.status
        \/ mission'.status \notin {"waiting_confirmation", "done"}
    BY <2>2 DEF Inv, MissionOK
  <2> QED BY <2>1, <2>3, ElsewhereAgrees
<1> QED BY <1>1, <1>2

\* Whatever leaves runs and rows alone and is no write of a request.
LEMMA OthersAgree ==
  ASSUME Inv, SoloInv,
         \/ CreateEnqueue \/ CreateCommit \/ UNCHANGED vars
         \/ \E c \in Client, op \in Ops : Check(c, op)
         \/ \E r \in Run : Redelivered(r)
  PROVE  SoloInv'
<1>1. UNCHANGED <<steps, run, calls>>
  BY DEF CreateEnqueue, CreateCommit, Check, Redelivered, vars, history
<1>2. \/ mission'.status = mission.status
      \/ mission'.status \notin {"waiting_confirmation", "done"}
  BY DEF CreateEnqueue, CreateCommit, Check, Redelivered, vars, Inv, MissionOK
<1> QED BY <1>1, <1>2, ElsewhereAgrees

LEMMA StepKeepsSolo == Solo /\ Inv /\ SoloInv /\ [Next]_vars => SoloInv'
<1> SUFFICES ASSUME Solo, Inv, SoloInv, [Next]_vars PROVE SoloInv'
  OBVIOUS
<1>0. Inv'
  BY StepKeepsInv
<1>1. CASE CreateEnqueue \/ CreateCommit \/ UNCHANGED vars
  BY <1>1, OthersAgree
<1>2. CASE \E c \in Client : Write(c) \/ \E op \in Ops : Check(c, op)
  BY <1>2, WriteAgrees, OthersAgree
<1>3. ASSUME NEW r \in Run, RunStep(r) PROVE SoloInv'
  <2>1. CASE ReadSteps(r) \/ \E m \in queue : Take(r, m)
    BY <2>1, TakeAgrees
  <2>2. CASE CommitPlan(r) \/ CommitApproved(r) \/ CommitResumption(r)
    BY <1>0, <2>2, CommitAgrees
  <2>3. CASE CheckStop(r)
    BY <2>3, CheckStopAgrees
  <2>4. CASE SkipStopped(r) \/ SkipReplaced(r)
    BY <1>0, <2>4, SkipAgrees
  <2>5. CASE \E s \in Seq1 : StepAction(r, s)
    BY <2>5, StepActionAgrees
  <2>6. CASE WaveDone(r) \/ \E plan \in Replans : AdoptPlan(r, plan)
    BY <2>6, WaveDoneAgrees
  <2>7. CASE MissionWaits(r) \/ MissionFails(r) \/ SaveDone(r)
    BY <2>7, EndingAgrees
  <2>8. CASE InsertSteps(r)
    BY <2>8, InsertAgrees
  <2>9. CASE FinalCheck(r)
    BY <2>9, FinalCheckAgrees
  <2>10. CASE RunReturns(r)
    BY <2>10, OverAgrees
  <2> QED BY <1>3, <2>1, <2>2, <2>3, <2>4, <2>5, <2>6, <2>7, <2>8, <2>9, <2>10 DEF RunStep
<1>4. ASSUME NEW r \in Run, Interrupted(r) \/ GivesUp(r) \/ Breaks(r) \/ Redelivered(r)
      PROVE  SoloInv'
  BY <1>4, OverAgrees, EndingAgrees, OthersAgree
<1> QED BY <1>1, <1>2, <1>3, <1>4 DEF Next

LEMMA InitSolo == Init => SoloInv
<1> SUFFICES ASSUME Init PROVE SoloInv
  OBVIOUS
<1>1. \A r \in Run : run[r] = IdleRun
  BY DEF Init
<1>2. RunAgrees(IdleRun, steps, calls) /\ Steady(IdleRun, mission.status, Rows)
  BY IdleShape, OutsideAgrees DEF Outside, Steady, Active
<1>3. AskedLast /\ DoneMeansFinished
  BY DEF Init, AskedLast, DoneMeansFinished
<1> QED BY <1>1, <1>2, <1>3 DEF SoloInv

LEMMA SoloInvariance == ASSUME Solo PROVE Spec => [](Inv /\ SoloInv)
<1>1. Init => Inv /\ SoloInv
  BY InitInv, InitSolo
<1>2. Inv /\ SoloInv /\ [Next]_vars => Inv' /\ SoloInv'
  BY StepKeepsInv, StepKeepsSolo
<1> QED BY <1>1, <1>2, PTL DEF Spec

-----------------------------------------------------------------------------
(* Theorems on the plan of one run.                                        *)

\* A risky step is alone in its wave.
THEOREM RiskyIsAlone == ASSUME Solo PROVE Spec => []RiskyAlone
<1>1. SoloInv => RiskyAlone
  BY DEF SoloInv, RunAgrees, WaveAgrees, RiskyAlone
<1> QED BY <1>1, SoloInvariance, PTL

\* A step is launched only after the steps it depends on have ended, whatever
\* its mission went through: the row of a launched step still says what it
\* depends on, and no later step writes those rows.
THEOREM DependenciesHaveEnded == ASSUME Solo PROVE Spec => []DependencyOrder
<1>1. Inv /\ SoloInv => DependencyOrder
  <2> SUFFICES ASSUME Inv, SoloInv, NEW r \in Run, NEW s \in Launched(r), NEW d \in steps[s].deps
               PROVE  steps[d].status \in {"done", "error", "skipped"}
    BY DEF DependencyOrder
  <2>1. s \in Seq1 /\ run[r].out[s] \in {"todo", "running", "ran"}
    BY DEF Launched
  <2>2. WaveShape(run[r]) /\ WaveAgrees(run[r], steps, calls)
        /\ (run[r].pc \in Active => PlanAgrees(run[r], steps))
    BY DEF SoloInv, RunAgrees
  <2>3. s \in run[r].pend /\ run[r].pc = "wave"
    BY <2>1, <2>2 DEF WaveShape
  <2>4. steps[s].deps = run[r].deps[s]
    BY <2>1, <2>2, <2>3 DEF PlanAgrees, StepAgrees, Active
  <2> QED BY <2>1, <2>2, <2>4 DEF WaveAgrees, Ended
<1> QED BY <1>1, SoloInvariance, PTL

\* A mission that waits has the call that was asked last in a step that waits.
THEOREM SomethingToApprove == ASSUME Solo PROVE Spec => []AskedLast
<1>1. SoloInv => AskedLast
  BY DEF SoloInv
<1> QED BY <1>1, SoloInvariance, PTL

\* A mission that is done has no step left among the first max_steps.
THEOREM DoneIsFinished == ASSUME Solo PROVE Spec => []DoneMeansFinished
<1>1. SoloInv => DoneMeansFinished
  BY DEF SoloInv
<1> QED BY <1>1, SoloInvariance, PTL

\* No later write of a run, no rejection and no new plan touches a step that
\* ended: the rows a run writes are those of steps it still has to do.
THEOREM FinishedStepsAreKept == ASSUME Solo PROVE Spec => FinishedStepsStay
<1>1. Inv /\ SoloInv /\ [Next]_vars =>
        [\A s \in Rows : s <= MaxSteps /\ steps[s].status \in {"done", "error", "skipped"}
             => steps'[s].status = steps[s].status]_vars
  <2> SUFFICES ASSUME Inv, SoloInv, Next, NEW s \in Rows, s <= MaxSteps, steps[s].status \in Ended
               PROVE  steps'[s].status = steps[s].status
    BY DEF Ended
  <2>0. /\ s \in Seq1 /\ steps \in [Seq1 -> StepRow]
        /\ steps[s].status \notin Unended
    BY DEF Rows, Inv, StepsOK, Ended, Unended
  <2>1. ASSUME NEW c \in Client, Write(c) PROVE steps'[s].status = steps[s].status
    <3>1. CASE Reject(c)
      BY <2>0, <3>1 DEF Reject, Waiting, Unended
    <3>2. CASE ~Reject(c)
      BY <2>1, <3>2 DEF Write, Approve, Cancel, Pause, Resume, Steer, Refused
    <3> QED BY <3>1, <3>2
  <2>3. ASSUME NEW r \in Run, CommitPlan(r) PROVE steps'[s].status = steps[s].status
    <3>1. Rows = {}
      BY <2>3 DEF CommitPlan, SoloInv, Steady
    <3> QED BY <3>1
  <2>4. ASSUME NEW r \in Run, CommitApproved(r) \/ CommitResumption(r)
        PROVE  steps'[s].status = steps[s].status
    BY <2>0, <2>4 DEF CommitApproved, CommitResumption, Unended
  <2>5. ASSUME NEW r \in Run, SkipStopped(r) \/ SkipReplaced(r)
        PROVE  steps'[s].status = steps[s].status
    <3> DEFINE t == First(run[r].pend)
    <3>1. run[r].pc \in {"stop", "skip"} /\ steps' = [steps EXCEPT ![t].status = "skipped"]
      BY <2>5 DEF SkipStopped, SkipReplaced, SkipFirst
    <3>2. run[r].pend # {} /\ run[r].pend \in SUBSET Seq1
      BY <3>1 DEF Inv, RunsOK, RunOK, RunState
    <3>3. t \in run[r].pend /\ run[r].out[t] = "none"
      BY <3>1, <3>2, FirstIsMember DEF SoloInv, RunAgrees, WaveShape
    <3>4. steps[t].status \in Unended
      BY <3>1, <3>3 DEF SoloInv, RunAgrees, PlanAgrees, StepAgrees, Active
    <3> HIDE DEF t
    <3> QED BY <2>0, <3>1, <3>4
  <2>6. ASSUME NEW r \in Run, NEW t \in Seq1, StepAction(r, t)
        PROVE  steps'[s].status = steps[s].status
    <3>1. run[r].out[t] \in {"todo", "running", "ran"}
      BY <2>6 DEF StepAction, StepStarts, ToolRuns, StepDone, StepErrors, StepWaits
    <3>2. steps[t].status \in Unended
      BY <3>1 DEF SoloInv, RunAgrees, WaveAgrees, FateAgrees, Unended
    <3>3. s # t
      BY <2>0, <3>2
    <3> QED BY <2>0, <2>6, <3>3
            DEF StepAction, StepStarts, ToolRuns, StepDone, StepErrors, StepWaits, Saved
  <2>7. ASSUME NEW r \in Run, InsertSteps(r) PROVE steps'[s].status = steps[s].status
    <3>1. run[r].pc = "insert" /\ steps' = WithPlan(steps, run[r].next, run[r].top)
      BY <2>7 DEF InsertSteps
    <3>2. PlanAgrees(run[r], steps)
      BY <3>1 DEF SoloInv, RunAgrees, Active
    <3>3. s <= run[r].top /\ run[r].top \in Nat /\ s \in Nat
      BY <2>0, <3>2 DEF PlanAgrees, Rows, Inv, RunsOK, RunState, Seq1
    <3>4. ~(s > run[r].top)
      BY <3>3
    <3> QED BY <2>0, <3>1, <3>4 DEF WithPlan
  <2>8. ASSUME NEW r \in Run, RunStep(r) PROVE steps'[s].status = steps[s].status
    BY <2>3, <2>4, <2>5, <2>6, <2>7, <2>8
       DEF RunStep, Take, ReadSteps, CheckStop, WaveDone, MissionWaits, MissionFails,
           AdoptPlan, Adopts, FinalCheck, SaveDone, RunReturns
  <2> QED BY <2>1, <2>8
          DEF Next, CreateEnqueue, CreateCommit, Check, Interrupted, GivesUp, Breaks,
              Redelivered
<1> QED BY <1>1, SoloInvariance, PTL DEF Spec, FinishedStepsStay

-----------------------------------------------------------------------------
(* Replans.  A request that is answered may undo one limit of them, so what *)
(* the counter in the row, or the copy a run keeps, leaves to do grows by   *)
(* as much.                                                                 *)

Pending == {c \in Client : req[c] # None}
Answers == ops - Cardinality(Pending)
Undone == MaxReplans * Answers

RunReplans(x, status, undone) ==
    /\ x.budget.replans <= MaxReplans
    /\ x.pc # "idle" => replanned <= x.budget.replans + undone
    /\ x.pc \in Active /\ status \in Guarding =>
          replanned + MaxReplans <= x.budget.replans + undone

ReplanInv ==
    /\ IsFiniteSet(Pending) /\ Answers \in Nat
    /\ mission.budget.replans <= MaxReplans
    /\ \A c \in Pending : req[c].budget.replans <= MaxReplans
    /\ replanned <= mission.budget.replans + Undone
    /\ \A r \in Run : RunReplans(run[r], mission.status, Undone)

LEMMA ReplanTypes ==
  ASSUME Inv, ReplanInv
  PROVE  /\ MaxReplans \in Nat /\ ops \in Nat /\ replanned \in Nat
         /\ Cardinality(Pending) \in Nat /\ Undone \in Nat
         /\ mission.budget.replans \in Nat
         /\ \A c \in Pending : req[c].budget \in Budget
         /\ \A r \in Run : run[r].budget.replans \in Nat
<1>1. MaxReplans \in Nat /\ MaxOps \in Nat
  BY MissionAssumption
<1>2. Cardinality(Pending) \in Nat
  BY FS_CardinalityType DEF ReplanInv
<1>3. Undone \in Nat
  BY <1>1 DEF ReplanInv, Undone
<1>4. mission.budget.replans \in Nat /\ ops \in Nat /\ replanned \in Nat
  BY <1>1 DEF Inv, MissionOK, Budget, RequestsOK, CountersOK
<1>5. \A c \in Pending : req[c].budget \in Budget
  BY DEF Inv, RequestsOK, Pending, Request
<1>6. \A r \in Run : run[r].budget.replans \in Nat
  BY DEF Inv, RunsOK, RunState, Budget
<1> QED BY <1>1, <1>2, <1>3, <1>4, <1>5, <1>6

LEMMA MoreUndone ==
  ASSUME Inv, ReplanInv, NEW n \in Nat, Answers' = Answers + n,
         UNCHANGED <<run, replanned>>
  PROVE  /\ Answers' \in Nat
         /\ Undone' = Undone + MaxReplans * n
         /\ \A r \in Run : /\ run'[r].budget.replans <= MaxReplans
                           /\ run'[r].pc # "idle" =>
                                 replanned' + MaxReplans * n <= run'[r].budget.replans + Undone'
                           /\ run'[r].pc \in Active /\ mission.status \in Guarding =>
                                 replanned' + MaxReplans * (n + 1) <=
                                     run'[r].budget.replans + Undone'
<1>1. Answers \in Nat /\ MaxReplans \in Nat
  BY ReplanTypes DEF ReplanInv
<1>2. Answers' \in Nat /\ Undone' = Undone + MaxReplans * n
  BY <1>1 DEF Undone
<1>3. MaxReplans * n \in Nat /\ MaxReplans * (n + 1) = MaxReplans * n + MaxReplans
  BY <1>1
<1> DEFINE more == MaxReplans * n
<1> HIDE DEF more
<1>4. ASSUME NEW r \in Run
      PROVE  /\ run'[r].budget.replans <= MaxReplans
             /\ run'[r].pc # "idle" => replanned' + more <= run'[r].budget.replans + Undone'
             /\ run'[r].pc \in Active /\ mission.status \in Guarding =>
                    replanned' + (more + MaxReplans) <= run'[r].budget.replans + Undone'
  <2>1. RunReplans(run[r], mission.status, Undone) /\ run'[r] = run[r]
    BY DEF ReplanInv
  <2>2. /\ run[r].budget.replans \in Nat /\ Undone \in Nat /\ replanned \in Nat
        /\ more \in Nat /\ Undone' = Undone + more
    BY <1>2, <1>3, ReplanTypes DEF more
  <2> QED BY <1>1, <2>1, <2>2 DEF RunReplans
<1> QED BY <1>2, <1>3, <1>4 DEF more

\* A request is checked: it will be answered later.
LEMMA CheckReplans ==
  ASSUME Inv, ReplanInv, NEW c \in Client, NEW op \in Ops, Check(c, op)
  PROVE  ReplanInv'
<1>1. /\ UNCHANGED <<mission, run, replanned>> /\ ops' = ops + 1 /\ req[c] = None
      /\ req \in [Client -> Request \cup {None}]
  BY DEF Check, history, Inv, RequestsOK
<1>2. PICK q : req' = [req EXCEPT ![c] = q] /\ q.budget = mission.budget
  <2> DEFINE seq == IF op = "approve" THEN FirstWaiting ELSE 0
             call == IF op = "approve" THEN steps[seq].call ELSE 0
             q == [op |-> op, id |-> ops + 1, budget |-> mission.budget, seq |-> seq,
                   call |-> call]
  <2>1. req' = [req EXCEPT ![c] = q]
    BY DEF Check
  <2>2. q.budget = mission.budget
    OBVIOUS
  <2> HIDE DEF q
  <2> QED BY <2>1, <2>2
<1>3. c \notin Pending /\ (Pending' = Pending \/ Pending' = Pending \cup {c})
  BY <1>1, <1>2 DEF Pending
<1>4. IsFiniteSet(Pending') /\ Cardinality(Pending') \in {Cardinality(Pending), Cardinality(Pending) + 1}
  BY <1>3, FS_AddElement DEF ReplanInv
<1>5. PICK n \in {0, 1} : Answers' = Answers + n
  BY <1>1, <1>4, ReplanTypes DEF Answers
<1>6. \A d \in Pending' : req'[d].budget.replans <= MaxReplans
  BY <1>1, <1>2, <1>3 DEF ReplanInv, Pending
<1>7. /\ Answers' \in Nat /\ Undone' \in Nat /\ Undone' >= Undone
      /\ \A r \in Run : RunReplans(run[r], mission.status, Undone')
  <2>1. CASE n = 0
    <3>1. Answers' = Answers
      BY <1>5, <2>1, ReplanTypes DEF ReplanInv
    <3> QED BY <3>1, ReplanTypes DEF Undone, ReplanInv
  <2>2. CASE n = 1
    <3>1. MaxReplans * 1 = MaxReplans /\ MaxReplans * (1 + 1) = MaxReplans + MaxReplans
      BY ReplanTypes
    <3>2. /\ Answers' \in Nat /\ Undone' = Undone + MaxReplans
          /\ \A r \in Run :
                /\ run[r].budget.replans <= MaxReplans
                /\ run[r].pc # "idle" =>
                      replanned + MaxReplans <= run[r].budget.replans + Undone'
      BY <1>1, <1>5, <2>2, <3>1, MoreUndone
    <3> QED BY <3>2, ReplanTypes DEF RunReplans, Active
  <2> QED BY <2>1, <2>2
<1>8. replanned <= mission.budget.replans + Undone'
  BY <1>7, ReplanTypes DEF ReplanInv
<1> QED BY <1>1, <1>4, <1>6, <1>7, <1>8 DEF ReplanInv, RunReplans

\* A request is answered: it has written back an old counter, or let a run go on
\* unheard, at most once.
LEMMA WriteReplans ==
  ASSUME Inv, ReplanInv, NEW c \in Client, Write(c)
  PROVE  ReplanInv'
<1>1. /\ UNCHANGED <<run, replanned, ops>> /\ req' = [req EXCEPT ![c] = None]
      /\ req[c] # None /\ req \in [Client -> Request \cup {None}]
  BY DEF Write, Approve, Reject, Cancel, Pause, Resume, Steer, Refused, Answered, Asks,
         history, Inv, RequestsOK
<1>2. c \in Pending /\ Pending' = Pending \ {c}
  BY <1>1 DEF Pending
<1>3. IsFiniteSet(Pending') /\ Cardinality(Pending') = Cardinality(Pending) - 1
  BY <1>2, FS_RemoveElement DEF ReplanInv
<1>4. Answers' = Answers + 1
  BY <1>1, <1>3, ReplanTypes DEF Answers
<1>5. /\ Answers' \in Nat /\ Undone' = Undone + MaxReplans
      /\ \A r \in Run : /\ run'[r].budget.replans <= MaxReplans
                        /\ run'[r].pc # "idle" =>
                              replanned' + MaxReplans <= run'[r].budget.replans + Undone'
  <2>1. MaxReplans * 1 = MaxReplans
    BY ReplanTypes
  <2> QED BY <1>1, <1>4, <2>1, MoreUndone
<1>6. \A d \in Pending' : req'[d].budget.replans <= MaxReplans
  BY <1>1, <1>2 DEF ReplanInv
<1>7. mission'.budget.replans \in 0..MaxReplans
  <2>1. mission.budget.replans \in 0..MaxReplans /\ req[c].budget.replans \in 0..MaxReplans
    BY <1>2, ReplanTypes DEF ReplanInv, Budget
  <2>2. CASE Steer(c)
    <3> DEFINE n == req[c].budget.notes + 1
    <3>1. mission' = [mission EXCEPT !.budget = [req[c].budget EXCEPT !.notes = n]]
      BY <2>2 DEF Steer
    <3>2. req[c].budget \in Budget
      BY <1>2, ReplanTypes
    <3> HIDE DEF n
    <3> QED BY <2>1, <3>1, <3>2 DEF Inv, MissionOK, Budget
  <2>3. CASE ~Steer(c)
    <3>1. mission'.budget = mission.budget
      BY <2>3 DEF Write, Approve, Reject, Cancel, Pause, Resume, Refused, Claims, Moves,
                  Inv, MissionOK
    <3> QED BY <2>1, <3>1
  <2> QED BY <2>2, <2>3
<1>8. replanned' <= mission'.budget.replans + Undone'
  <2>1. replanned <= MaxReplans + Undone
    BY ReplanTypes DEF ReplanInv
  <2> QED BY <1>1, <1>5, <1>7, <2>1, ReplanTypes
<1>9. \A r \in Run : /\ run'[r].budget.replans <= MaxReplans
                     /\ run'[r].pc # "idle" => replanned' <= run'[r].budget.replans + Undone'
                     /\ run'[r].pc # "idle" =>
                            replanned' + MaxReplans <= run'[r].budget.replans + Undone'
  BY <1>1, <1>5, ReplanTypes
<1>10. \A r \in Run : run'[r].pc \in Active => run'[r].pc # "idle"
  BY DEF Active
<1>11. mission'.budget.replans <= MaxReplans
  BY <1>7, ReplanTypes
<1> QED BY <1>3, <1>5, <1>6, <1>8, <1>9, <1>10, <1>11 DEF ReplanInv, RunReplans

\* What a step of a run does to its copy of the counter, when it adopts no plan.
Carries(x, y, from, to) ==
    \/ y.pc = "idle" /\ y.budget.replans = 0
    \/ y.pc \notin Active /\ y.budget = mission.budget
    \/ /\ x.pc # "idle" /\ y.budget = x.budget
       /\ y.pc \in Active /\ to \in Guarding => x.pc \in Active /\ from \in Guarding

LEMMA CarriedReplans ==
  ASSUME Solo, Inv, ReplanInv, UNCHANGED <<req, ops, replanned>>,
         mission'.budget = mission.budget,
         NEW r \in Run, Carries(run[r], run'[r], mission.status, mission'.status)
  PROVE  ReplanInv'
<1>1. Pending' = Pending /\ Answers' = Answers /\ Undone' = Undone
  BY DEF Pending, Answers, Undone
<1>2. RunReplans(run[r], mission.status, Undone) /\ replanned <= mission.budget.replans + Undone
      /\ mission.budget.replans <= MaxReplans
  BY DEF ReplanInv
<1>3. /\ run'[r].budget.replans <= MaxReplans
      /\ run'[r].pc # "idle" => replanned' <= run'[r].budget.replans + Undone'
      /\ run'[r].pc \in Active /\ mission'.status \in Guarding =>
            replanned' + MaxReplans <= run'[r].budget.replans + Undone'
  <2>1. CASE run'[r].pc = "idle" /\ run'[r].budget.replans = 0
    BY <2>1, ReplanTypes DEF Active
  <2>2. CASE run'[r].pc \notin Active /\ run'[r].budget = mission.budget
    BY <1>1, <1>2, <2>2
  <2>3. CASE /\ run[r].pc # "idle" /\ run'[r].budget = run[r].budget
             /\ run'[r].pc \in Active /\ mission'.status \in Guarding =>
                    run[r].pc \in Active /\ mission.status \in Guarding
    BY <1>1, <1>2, <2>3 DEF RunReplans
  <2> QED BY <2>1, <2>2, <2>3 DEF Carries
<1>4. \A q \in Run : q = r
  BY DEF Solo
<1>5. \A q \in Run : RunReplans(run[q], mission.status, Undone)'
  BY <1>3, <1>4 DEF RunReplans
<1>6. \A d \in Pending' : req'[d].budget.replans <= MaxReplans
  BY <1>1 DEF ReplanInv
<1> QED BY <1>1, <1>2, <1>5, <1>6 DEF ReplanInv

\* Creations and deliveries.
LEMMA IdleReplans ==
  ASSUME Inv, ReplanInv, UNCHANGED <<req, ops, replanned, run>>,
         mission'.budget = mission.budget,
         mission'.status \in Guarding => mission.status \in Guarding
  PROVE  ReplanInv'
<1>1. Pending' = Pending /\ Answers' = Answers /\ Undone' = Undone
  BY DEF Pending, Answers, Undone
<1>2. \A q \in Run : RunReplans(run[q], mission.status, Undone)'
  <2> SUFFICES ASSUME NEW q \in Run PROVE RunReplans(run[q], mission.status, Undone)'
    OBVIOUS
  <2>1. RunReplans(run[q], mission.status, Undone) /\ run'[q] = run[q]
    BY DEF ReplanInv
  <2> QED BY <1>1, <2>1 DEF RunReplans
<1>3. \A d \in Pending' : req'[d].budget.replans <= MaxReplans
  BY <1>1 DEF ReplanInv
<1> QED BY <1>1, <1>2, <1>3 DEF ReplanInv

\* The steps of a run that adopt no plan.
LEMMA QuietReplans ==
  ASSUME Solo, Inv, SoloInv, ReplanInv, NEW r \in Run,
         RunStep(r) \/ Interrupted(r) \/ GivesUp(r) \/ Breaks(r),
         ~ \E plan \in Replans : AdoptPlan(r, plan)
  PROVE  ReplanInv'
<1>1. /\ run \in [Run -> RunState] /\ run[r] \in RunState
      /\ mission \in [status : Status, budget : Budget]
  BY DEF Inv, RunsOK, MissionOK
<1>2. IdleRun.pc = "idle" /\ IdleRun.budget.replans = 0
  BY DEF IdleRun
<1>3. CASE Return(r) /\ mission'.budget = mission.budget /\ UNCHANGED <<req, ops, replanned>>
  <2>1. run'[r] = IdleRun
    BY <1>1, <1>3 DEF Return
  <2> QED BY <1>2, <1>3, <2>1, CarriedReplans DEF Carries
<1>4. CASE RunReturns(r) \/ Interrupted(r) \/ GivesUp(r)
  <2>1. Return(r) /\ mission'.budget = mission.budget /\ UNCHANGED <<req, ops, replanned>>
    BY <1>1, <1>4 DEF RunReturns, Interrupted, GivesUp, history
  <2> QED BY <1>3, <2>1
<1>5. CASE MissionWaits(r) \/ MissionFails(r) \/ SaveDone(r) \/ Breaks(r)
  <2>1. /\ run[r].pc # "idle" /\ UNCHANGED <<req, ops, replanned>>
        /\ mission'.budget = mission.budget
    BY <1>1, <1>5
       DEF MissionWaits, MissionFails, SaveDone, Breaks, Gathered, SaveMission, history
  <2>2. Ends(r)
    BY <1>5 DEF MissionWaits, MissionFails, SaveDone, Breaks
  <2>3. run'[r].pc = "ended" /\ run'[r].budget = run[r].budget
    BY <1>1, <2>2 DEF Ends, RunState
  <2> QED BY <2>1, <2>3, CarriedReplans DEF Carries, Active
<1>6. CASE CommitPlan(r) \/ CommitApproved(r) \/ CommitResumption(r)
  <2>1. /\ UNCHANGED <<req, ops, replanned>> /\ mission'.budget = mission.budget
        /\ run[r].pc # "idle"
    BY <1>1, <1>6 DEF CommitPlan, CommitApproved, CommitResumption, Moves, history
  <2>2. CASE Return(r)
    BY <1>3, <2>1, <2>2
  <2>3. CASE ~Return(r)
    <3>1. Begin(r, steps') /\ mission'.status = "running"
      BY <1>1, <1>6, <2>3 DEF CommitPlan, CommitApproved, CommitResumption, Moves
    <3>2. run'[r].budget = run[r].budget
      BY <1>1, <3>1 DEF Begin, RunState
    <3> QED BY <2>1, <3>1, <3>2, CarriedReplans DEF Carries, Guarding
  <2> QED BY <2>2, <2>3
<1>7. CASE \/ CheckStop(r) \/ FinalCheck(r) \/ WaveDone(r) \/ InsertSteps(r)
           \/ SkipStopped(r) \/ SkipReplaced(r)
  <2>1. /\ UNCHANGED <<req, ops, replanned, mission>> /\ run[r].pc \in Active
        /\ run'[r].budget = run[r].budget
    <3>1. CASE CheckStop(r) \/ FinalCheck(r)
      BY <1>1, <3>1 DEF CheckStop, FinalCheck, history, Active, RunState
    <3>2. CASE WaveDone(r)
      BY <1>1, <3>2 DEF WaveDone, Gathered, history, Active, RunState
    <3>3. CASE InsertSteps(r)
      BY <1>1, <3>3 DEF InsertSteps, history, Active, RunState
    <3>4. CASE SkipStopped(r) \/ SkipReplaced(r)
      BY <1>1, <3>4 DEF SkipStopped, SkipReplaced, SkipFirst, history, Active, RunState
    <3> QED BY <1>7, <3>1, <3>2, <3>3, <3>4
  <2>2. run[r].pc # "idle"
    BY <2>1 DEF Active
  <2> QED BY <2>1, <2>2, CarriedReplans DEF Carries
<1>8. ASSUME NEW s \in Seq1, StepAction(r, s) PROVE ReplanInv'
  <2>1. /\ UNCHANGED <<req, ops, replanned, mission>>
        /\ run'[r].budget = run[r].budget /\ run'[r].pc = run[r].pc
    BY <1>1, <1>8 DEF StepAction, StepStarts, ToolRuns, StepDone, StepErrors, StepWaits,
                      history, RunState
  <2>2. run[r].out[s] # "none"
    BY <1>8 DEF StepAction, StepStarts, ToolRuns, StepDone, StepErrors, StepWaits
  <2>3. run[r].pc = "wave"
    BY <2>2 DEF SoloInv, RunAgrees, WaveShape
  <2> QED BY <2>1, <2>3, CarriedReplans DEF Carries, Active
<1>9. CASE ReadSteps(r)
  <2>1. /\ UNCHANGED <<req, ops, replanned, mission>> /\ run[r].pc # "idle"
        /\ run'[r].budget = run[r].budget /\ run'[r].pc = "read"
    BY <1>1, <1>9 DEF ReadSteps, history, RunState
  <2> QED BY <2>1, CarriedReplans DEF Carries, Active
<1>10. ASSUME NEW m \in queue, Take(r, m) PROVE ReplanInv'
  <2>1. UNCHANGED <<req, ops, replanned, mission>>
    BY <1>10 DEF Take, history
  <2>2. CASE Ignored(m)
    <3>1. UNCHANGED run
      BY <1>10, <2>2 DEF Take
    <3> QED BY <2>1, <3>1, IdleReplans
  <2>3. CASE ~Ignored(m)
    <3> DEFINE call == IF m.kind = "approved" THEN steps[m.seq].call ELSE 0
    <3>1. run' = [run EXCEPT ![r] = [IdleRun EXCEPT !.pc = "loaded", !.job = m,
                                        !.budget = mission.budget, !.call = call]]
      BY <1>10, <2>3 DEF Take
    <3>2. run'[r].budget = mission.budget /\ run'[r].pc = "loaded"
      <4> HIDE DEF call
      <4> QED BY <1>1, <3>1 DEF IdleRun
    <3> QED BY <2>1, <3>2, CarriedReplans DEF Carries, Active
  <2> QED BY <2>2, <2>3
<1> QED BY <1>4, <1>5, <1>6, <1>7, <1>8, <1>9, <1>10 DEF RunStep

\* A plan is adopted: the counter saved is the one of the run, not of the row.
LEMMA AdoptReplans ==
  ASSUME Solo, Inv, ReplanInv, NEW r \in Run, NEW plan \in Replans, AdoptPlan(r, plan)
  PROVE  ReplanInv'
<1> DEFINE n == run[r].budget.replans + 1
<1>1. /\ UNCHANGED <<req, ops>> /\ replanned' = replanned + 1
      /\ run[r].pc = "wave" /\ run[r].budget.replans < MaxReplans
      /\ run \in [Run -> RunState] /\ run[r] \in RunState
      /\ mission \in [status : Status, budget : Budget]
  BY DEF AdoptPlan, Adopts, Gathered, history, Inv, RunsOK, MissionOK
<1>2. Pending' = Pending /\ Answers' = Answers /\ Undone' = Undone
  BY <1>1 DEF Pending, Answers, Undone
<1>3. run'[r].budget.replans = n
  <2> DEFINE pc == IF Remaining(r) = {} THEN "insert" ELSE "skip"
  <2>1. run' = [run EXCEPT ![r] = [run[r] EXCEPT
                   !.pc = pc, !.pend = Remaining(r), !.good = Good(r), !.out = IdleRun.out,
                   !.budget.replans = n, !.next = plan]]
    BY DEF AdoptPlan, Adopts
  <2>2. run[r].budget \in Budget
    BY <1>1 DEF RunState
  <2> HIDE DEF n, pc
  <2> QED BY <1>1, <2>1, <2>2 DEF RunState, Budget
<1>4. /\ n \in Nat /\ n <= MaxReplans
      /\ replanned + 1 <= n + Undone
      /\ mission.status \in Guarding => replanned + 1 + MaxReplans <= n + Undone
  <2>1. RunReplans(run[r], mission.status, Undone)
    BY DEF ReplanInv
  <2> QED BY <1>1, <2>1, ReplanTypes DEF RunReplans, Active
<1> HIDE DEF n
<1>5. /\ mission'.status = mission.status /\ mission'.budget.replans <= MaxReplans
      /\ replanned' <= mission'.budget.replans + Undone'
  <2>1. CASE mission.status \in Guarding
    <3>1. mission' = mission
      BY <2>1 DEF AdoptPlan
    <3>2. replanned + 1 <= Undone
      BY <1>4, <2>1, ReplanTypes
    <3> QED BY <1>1, <1>2, <3>1, <3>2, ReplanTypes DEF ReplanInv
  <2>2. CASE mission.status \notin Guarding
    <3>1. mission' = [mission EXCEPT !.budget = run'[r].budget]
      BY <2>2 DEF AdoptPlan
    <3>2. mission'.status = mission.status /\ mission'.budget = run'[r].budget
      BY <1>1, <3>1
    <3> QED BY <1>1, <1>2, <1>3, <1>4, <3>2
  <2> QED BY <2>1, <2>2
<1>6. \A q \in Run : q = r
  BY DEF Solo
<1>7. \A q \in Run : RunReplans(run[q], mission.status, Undone)'
  BY <1>1, <1>2, <1>3, <1>4, <1>5, <1>6 DEF RunReplans
<1>8. \A d \in Pending' : req'[d].budget.replans <= MaxReplans
  BY <1>1, <1>2 DEF ReplanInv
<1> QED BY <1>2, <1>5, <1>7, <1>8 DEF ReplanInv

LEMMA StepKeepsReplans == Solo /\ Inv /\ SoloInv /\ ReplanInv /\ [Next]_vars => ReplanInv'
<1> SUFFICES ASSUME Solo, Inv, SoloInv, ReplanInv, [Next]_vars PROVE ReplanInv'
  OBVIOUS
<1>1. CASE CreateEnqueue \/ CreateCommit \/ UNCHANGED vars \/ \E r \in Run : Redelivered(r)
  <2>1. /\ UNCHANGED <<req, ops, replanned, run>> /\ mission'.budget = mission.budget
        /\ mission'.status \in Guarding => mission.status \in Guarding
    BY <1>1 DEF CreateEnqueue, CreateCommit, Redelivered, vars, history, Inv, MissionOK,
                Guarding
  <2> QED BY <2>1, IdleReplans
<1>2. CASE \E c \in Client : Write(c) \/ \E op \in Ops : Check(c, op)
  BY <1>2, WriteReplans, CheckReplans
<1>3. ASSUME NEW r \in Run, RunStep(r) \/ Interrupted(r) \/ GivesUp(r) \/ Breaks(r)
      PROVE  ReplanInv'
  BY <1>3, QuietReplans, AdoptReplans
<1> QED BY <1>1, <1>2, <1>3 DEF Next

LEMMA InitReplans == Init => ReplanInv
<1> SUFFICES ASSUME Init PROVE ReplanInv
  OBVIOUS
<1>1. MaxReplans \in Nat
  BY MissionAssumption
<1>2. Pending = {} /\ ops = 0 /\ replanned = 0 /\ mission.budget.replans = 0
  BY DEF Init, Pending
<1>3. IsFiniteSet(Pending) /\ Answers = 0
  BY <1>2, FS_EmptySet DEF Answers
<1>4. Undone = 0
  BY <1>1, <1>3 DEF Undone
<1>5. \A r \in Run : run[r].pc = "idle" /\ run[r].budget.replans = 0
  BY DEF Init, IdleRun
<1>6. \A r \in Run : RunReplans(run[r], mission.status, Undone)
  BY <1>1, <1>5 DEF RunReplans, Active
<1> QED BY <1>1, <1>2, <1>3, <1>4, <1>6 DEF ReplanInv

\* Over all the runs of a mission, and through their crashes, no more plans are
\* adopted than the limit and one limit more for each request: a run counts on
\* from the row it read, and writes back what it adopts before it goes on.
THEOREM ReplansStayBounded == ASSUME Solo PROVE Spec => []ReplansBounded
<1>1. Init => Inv /\ SoloInv /\ ReplanInv
  BY InitInv, InitSolo, InitReplans
<1>2. Inv /\ SoloInv /\ ReplanInv /\ [Next]_vars => Inv' /\ SoloInv' /\ ReplanInv'
  BY StepKeepsInv, StepKeepsSolo, StepKeepsReplans
<1>3. Inv /\ ReplanInv => ReplansBounded
  <2> SUFFICES ASSUME Inv, ReplanInv PROVE ReplansBounded
    OBVIOUS
  <2>1. Answers \in Nat /\ Answers <= ops
    BY ReplanTypes DEF ReplanInv, Answers
  <2>2. PICK k \in Nat : ops = Answers + k
    <3>1. ops = Answers + (ops - Answers) /\ ops - Answers \in Nat
      BY <2>1, ReplanTypes
    <3> QED BY <3>1
  <2>3. MaxReplans * (1 + ops) = MaxReplans + (Undone + MaxReplans * k)
        /\ MaxReplans * k \in Nat
    BY <2>1, <2>2, ReplanTypes DEF Undone
  <2> DEFINE more == MaxReplans * k
  <2> HIDE DEF more
  <2>4. MaxReplans * (1 + ops) = MaxReplans + (Undone + more) /\ more \in Nat
    BY <2>3 DEF more
  <2>5. replanned <= MaxReplans + Undone
    BY ReplanTypes DEF ReplanInv
  <2>6. replanned <= MaxReplans + (Undone + more)
    BY <2>4, <2>5, ReplanTypes
  <2> QED BY <2>4, <2>6 DEF ReplansBounded
<1> QED BY <1>1, <1>2, <1>3, PTL DEF Spec

-----------------------------------------------------------------------------
(* Confirmed calls.  A call waits in one row at most; the run that took it  *)
(* up makes it once, because the step that asked is then behind it.         *)

WaitingCalls(table, asked, made) ==
    \A s \in Seq1 : table[s].status = "waiting_confirmation" =>
        /\ table[s].call \in 1..asked
        /\ made[table[s].call] = 0
        /\ \A t \in Seq1 : /\ table[t].status = "waiting_confirmation"
                           /\ table[t].call = table[s].call
                           => t = s

\* The step whose call was confirmed is over for this run.
Settled(x) ==
    /\ x.job.seq <= x.top
    /\ x.job.seq \notin x.pend \/ x.out[x.job.seq] \in {"ran", "done", "error"}

RunCall(x, table, asked, made) ==
    /\ x.pc = "read" => x.job.kind # "approved"
    /\ x.pc # "idle" /\ x.job.kind = "approved" =>
        /\ x.call \in 1..asked
        /\ x.pc = "loaded" /\ table[x.job.seq].status = "waiting_confirmation" =>
              table[x.job.seq].call = x.call
        /\ x.pc \in Active =>
              /\ \A s \in Seq1 : table[s].status = "waiting_confirmation" =>
                     table[s].call # x.call
              /\ made[x.call] # 0 => Settled(x)

CallsMade(asked, made) ==
    \A k \in 1..MaxCalls : made[k] <= 1 /\ (made[k] # 0 => k <= asked)

CallInv ==
    /\ CallsMade(calls, ran)
    /\ WaitingCalls(steps, calls, ran)
    /\ \A r \in Run : RunCall(run[r], steps, calls, ran)

\* No row starts to wait, or waits for another call.
FewerWait(old, new) ==
    \A s \in Seq1 : new[s].status = "waiting_confirmation" =>
        old[s].status = "waiting_confirmation" /\ new[s].call = old[s].call

LEMMA FewerCalls ==
  ASSUME NEW old, NEW new, NEW asked, NEW made, FewerWait(old, new),
         WaitingCalls(old, asked, made)
  PROVE  WaitingCalls(new, asked, made)
BY DEF FewerWait, WaitingCalls

\* The run stands where it stood, or further in its plan, or is over.
Follows(x, y) ==
    \/ y.pc = "idle"
    \/ /\ y.job = x.job /\ y.call = x.call
       /\ x.pc # "idle"
       /\ y.pc = "read" => x.pc = "read" \/ x.job.kind # "approved"
       /\ y.pc = "loaded" => x.pc = "loaded"
       /\ x.job.kind = "approved" /\ y.pc \in Active =>
              x.pc \in Active /\ (Settled(x) => Settled(y))

LEMMA FollowedCall ==
  ASSUME NEW old, NEW new, NEW asked, NEW made, FewerWait(old, new),
         NEW x, NEW y, x.pc # "idle" => x.job \in Job, Follows(x, y),
         RunCall(x, old, asked, made)
  PROVE  RunCall(y, new, asked, made)
<1>1. CASE y.pc = "idle"
  BY <1>1 DEF RunCall, Active
<1>2. CASE y.pc # "idle"
  <2>1. /\ y.job = x.job /\ y.call = x.call /\ x.pc # "idle" /\ x.job \in Job
        /\ y.pc = "read" => x.pc = "read" \/ x.job.kind # "approved"
        /\ y.pc = "loaded" => x.pc = "loaded"
        /\ x.job.kind = "approved" /\ y.pc \in Active =>
               x.pc \in Active /\ (Settled(x) => Settled(y))
    BY <1>2 DEF Follows
  <2>2. x.job.kind = "approved" => x.job.seq \in Seq1
    BY <2>1, MissionAssumption DEF Job, Seq1
  <2> QED BY <2>1, <2>2 DEF RunCall, FewerWait
<1> QED BY <1>1, <1>2

LEMMA CallsFollow ==
  ASSUME Solo, Inv, CallInv, UNCHANGED <<calls, ran>>, FewerWait(steps, steps'),
         NEW r \in Run, Follows(run[r], run'[r])
  PROVE  CallInv'
<1>1. WaitingCalls(steps', calls, ran)
  BY FewerCalls DEF CallInv
<1>2. RunCall(run'[r], steps', calls, ran)
  BY FollowedCall DEF CallInv, Inv, RunsOK, RunOK
<1>3. \A q \in Run : q = r
  BY DEF Solo
<1>4. CallsMade(calls, ran)
  BY DEF CallInv
<1> QED BY <1>1, <1>2, <1>3, <1>4 DEF CallInv

\* Requests and deliveries.
LEMMA CallsRest ==
  ASSUME Inv, CallInv, UNCHANGED <<calls, ran, run>>, FewerWait(steps, steps')
  PROVE  CallInv'
<1>1. WaitingCalls(steps', calls, ran)
  BY FewerCalls DEF CallInv
<1>2. ASSUME NEW r \in Run PROVE RunCall(run'[r], steps', calls', ran')
  <2>1. RunCall(run[r], steps, calls, ran) /\ (run[r].pc # "idle" => run[r].job \in Job)
    BY DEF CallInv, Inv, RunsOK, RunOK
  <2>2. Follows(run[r], run[r])
    BY DEF Follows
  <2> QED BY <2>1, <2>2, FollowedCall
<1>3. CallsMade(calls, ran)
  BY DEF CallInv
<1> QED BY <1>1, <1>2, <1>3 DEF CallInv

LEMMA NoneFewer == UNCHANGED steps => FewerWait(steps, steps')
BY DEF FewerWait

\* A row that gets another status does not wait.
LEMMA RestatusFewer ==
  ASSUME Inv, NEW s, NEW row, row.status # "waiting_confirmation",
         steps' = [steps EXCEPT ![s] = row]
  PROVE  FewerWait(steps, steps')
<1>1. steps \in [Seq1 -> StepRow]
  BY DEF Inv, StepsOK
<1> QED BY <1>1 DEF FewerWait

\* Requests, creations, deliveries: no run moves.
LEMMA OthersCall ==
  ASSUME Inv, CallInv,
         \/ CreateEnqueue \/ CreateCommit \/ UNCHANGED vars
         \/ \E c \in Client : Write(c) \/ \E op \in Ops : Check(c, op)
         \/ \E r \in Run : Redelivered(r)
  PROVE  CallInv'
<1>1. CASE \E c \in Client : Reject(c)
  <2>1. UNCHANGED <<calls, ran, run>>
    BY <1>1 DEF Reject, history
  <2>2. steps' = [s \in Seq1 |-> IF s \in Waiting THEN [steps[s] EXCEPT !.status = "skipped"]
                                                   ELSE steps[s]]
    BY <1>1 DEF Reject
  <2>3. \A s \in Seq1 : steps[s] \in StepRow
    BY DEF Inv, StepsOK
  <2>4. FewerWait(steps, steps')
    BY <2>2, <2>3 DEF FewerWait, StepRow
  <2> QED BY <2>1, <2>4, CallsRest
<1>2. CASE ~ \E c \in Client : Reject(c)
  <2>1. UNCHANGED <<steps, calls, ran, run>>
    BY <1>2 DEF CreateEnqueue, CreateCommit, Write, Approve, Cancel, Pause, Resume, Steer,
                Refused, Check, Redelivered, vars, history
  <2> QED BY <2>1, NoneFewer, CallsRest
<1> QED BY <1>1, <1>2

\* The run of a confirmation keeps the call that the row asked for.
LEMMA TakeCall ==
  ASSUME Solo, Inv, CallInv, NEW r \in Run, NEW m \in queue, Take(r, m)
  PROVE  CallInv'
<1>1. UNCHANGED <<steps, calls, ran>> /\ m \in Job /\ run \in [Run -> RunState]
  BY DEF Take, history, Inv, RunsOK
<1>2. CASE Ignored(m)
  <2>1. UNCHANGED run
    BY <1>2 DEF Take
  <2> QED BY <1>1, <2>1, NoneFewer, CallsRest
<1>3. CASE ~Ignored(m)
  <2> DEFINE call == IF m.kind = "approved" THEN steps[m.seq].call ELSE 0
             x == [IdleRun EXCEPT !.pc = "loaded", !.job = m, !.budget = mission.budget,
                                  !.call = call]
  <2>1. run' = [run EXCEPT ![r] = x]
    BY <1>3 DEF Take
  <2>2. x.pc = "loaded" /\ x.job = m /\ x.call = call
    <3> HIDE DEF call
    <3> QED BY DEF IdleRun
  <2> HIDE DEF x
  <2>3. run'[r] = x
    BY <1>1, <2>1
  <2>4. m.kind = "approved" => m.seq \in Seq1 /\ steps[m.seq].status = "waiting_confirmation"
    BY <1>1, <1>3, MissionAssumption DEF Ignored, Job, Seq1
  <2>5. m.kind = "approved" => x.call \in 1..calls /\ x.call = steps[m.seq].call
    BY <2>2, <2>4 DEF CallInv, WaitingCalls
  <2>6. RunCall(x, steps, calls, ran)
    BY <2>2, <2>5 DEF RunCall, Active
  <2>7. RunCall(run'[r], steps', calls', ran')
    BY <1>1, <2>3, <2>6
  <2>8. \A q \in Run : q = r
    BY DEF Solo
  <2> QED BY <1>1, <2>7, <2>8 DEF CallInv
<1> QED BY <1>2, <1>3

\* The claim of the step: from now on no row waits for that call.
LEMMA CommitCall ==
  ASSUME Solo, Inv, CallInv, SoloInv, NEW r \in Run,
         CommitPlan(r) \/ CommitApproved(r) \/ CommitResumption(r)
  PROVE  CallInv'
<1>1. /\ UNCHANGED <<calls, ran>> /\ run[r].pc \in {"loaded", "read"}
      /\ run \in [Run -> RunState] /\ run[r] \in RunState /\ run[r].job \in Job
      /\ RunCall(run[r], steps, calls, ran)
  BY DEF CommitPlan, CommitApproved, CommitResumption, history, Inv, RunsOK, RunOK, CallInv
<1>2. FewerWait(steps, steps')
  <2>1. CASE UNCHANGED steps
    BY <2>1, NoneFewer
  <2>2. CASE CommitPlan(r) /\ ~UNCHANGED steps
    <3>1. Rows = {}
      BY <2>2 DEF CommitPlan, SoloInv, Steady
    <3>2. PICK plan \in Plans : steps' = WithPlan(steps, plan, 0)
      BY <2>2 DEF CommitPlan
    <3>3. \A s \in Seq1 : steps[s].status = "none"
      BY <3>1 DEF Rows
    <3>4. \A s \in Seq1 : steps'[s].status # "waiting_confirmation"
      BY <3>2, <3>3 DEF WithPlan
    <3> QED BY <3>4 DEF FewerWait
  <2>3. CASE CommitApproved(r) /\ ~UNCHANGED steps
    <3> DEFINE s == run[r].job.seq
               row == [steps[s] EXCEPT !.status = "pending"]
    <3>1. steps' = [steps EXCEPT ![s].status = "pending"] /\ run[r].job.kind = "approved"
      BY <2>3 DEF CommitApproved
    <3>2. s \in Seq1 /\ steps[s] \in StepRow
      BY <1>1, <3>1, MissionAssumption DEF Job, Seq1, Inv, StepsOK
    <3>3. row.status # "waiting_confirmation"
      BY <3>2 DEF StepRow
    <3>4. steps' = [steps EXCEPT ![s] = row]
      BY <3>1
    <3> HIDE DEF s, row
    <3> QED BY <3>3, <3>4, RestatusFewer
  <2>4. CASE CommitResumption(r)
    BY <2>4, NoneFewer DEF CommitResumption
  <2> QED BY <2>1, <2>2, <2>3, <2>4
<1>3. CASE Return(r)
  <2>1. run'[r].pc = "idle"
    BY <1>1, <1>3, IdleShape DEF Return
  <2> QED BY <1>1, <1>2, <2>1, CallsFollow DEF Follows
<1>4. CASE ~Return(r)
  <2>1. Begin(r, steps')
    BY <1>4 DEF CommitPlan, CommitApproved, CommitResumption
  <2>2. /\ run'[r].pc \in {"final", "check"} /\ run'[r].job = run[r].job
        /\ run'[r].call = run[r].call
    BY <1>1, <2>1 DEF Begin, RunState
  <2>3. CASE run[r].job.kind # "approved"
    <3>1. Follows(run[r], run'[r])
      BY <1>1, <2>2, <2>3 DEF Follows
    <3> QED BY <1>1, <1>2, <3>1, CallsFollow
  <2>4. CASE run[r].job.kind = "approved"
    <3> DEFINE s == run[r].job.seq
               k == run[r].call
    <3>1. run[r].pc = "loaded"
      BY <1>1, <2>4 DEF RunCall
    <3>2. /\ steps[s].status = "waiting_confirmation"
          /\ steps' = [steps EXCEPT ![s].status = "pending"]
      BY <1>4, <2>4, <3>1 DEF CommitPlan, CommitApproved, CommitResumption
    <3>3. s \in Seq1 /\ steps \in [Seq1 -> StepRow]
      BY <1>1, <2>4, MissionAssumption DEF Job, Seq1, Inv, StepsOK
    <3>4. k \in 1..calls /\ steps[s].call = k
      BY <1>1, <2>4, <3>1, <3>2 DEF RunCall
    <3>5. /\ ran[k] = 0
          /\ \A t \in Seq1 : steps[t].status = "waiting_confirmation" /\ steps[t].call = k => t = s
      BY <3>2, <3>3, <3>4 DEF CallInv, WaitingCalls
    <3>6. \A t \in Seq1 : steps'[t].status = "waiting_confirmation" =>
              t # s /\ steps'[t].call = steps[t].call /\ steps[t].status = "waiting_confirmation"
      <4>1. steps'[s].status = "pending" /\ \A t \in Seq1 : t # s => steps'[t] = steps[t]
        <5> HIDE DEF s
        <5> QED BY <3>2, <3>3 DEF StepRow
      <4> QED BY <4>1
    <3>7. RunCall(run'[r], steps', calls', ran')
      <4> HIDE DEF s
      <4>1. \A t \in Seq1 : steps'[t].status = "waiting_confirmation" => steps'[t].call # k
        BY <3>5, <3>6
      <4> QED BY <1>1, <2>2, <2>4, <3>4, <3>5, <4>1 DEF RunCall
    <3>8. \A q \in Run : q = r
      BY DEF Solo
    <3>9. WaitingCalls(steps', calls, ran)
      BY <1>2, FewerCalls DEF CallInv
    <3> QED BY <1>1, <3>7, <3>8, <3>9 DEF CallInv
  <2> QED BY <2>3, <2>4
<1> QED BY <1>3, <1>4

\* The confirmed call is made: the step was still to do, so it is the first time.
LEMMA ToolCall ==
  ASSUME Solo, Inv, SoloInv, CallInv, NEW r \in Run, NEW s \in Seq1, ToolRuns(r, s)
  PROVE  CallInv'
<1> DEFINE k == run[r].call
<1>1. /\ UNCHANGED <<steps, calls>> /\ run[r] \in RunState /\ run \in [Run -> RunState]
      /\ run[r].out[s] = "running" /\ run[r].job.kind = "approved" /\ run[r].job.seq = s
      /\ ran \in [1..MaxCalls -> Nat] /\ calls \in 0..MaxCalls
  BY DEF ToolRuns, Resumed, Inv, RunsOK, CountersOK
<1>2. /\ run[r].pc = "wave" /\ s \in run[r].pend /\ s <= run[r].top
  <2>1. run[r].pc = "wave" /\ s \in run[r].pend
    BY <1>1 DEF SoloInv, RunAgrees, WaveShape
  <2> QED BY <2>1 DEF SoloInv, RunAgrees, PlanAgrees, StepAgrees, Active
<1>3. k \in 1..calls /\ k \in 1..MaxCalls
      /\ \A t \in Seq1 : steps[t].status = "waiting_confirmation" => steps[t].call # k
  <2>1. RunCall(run[r], steps, calls, ran)
    BY DEF CallInv
  <2>2. k \in 1..calls
        /\ \A t \in Seq1 : steps[t].status = "waiting_confirmation" => steps[t].call # k
    BY <1>1, <1>2, <2>1 DEF RunCall, Active
  <2> QED BY <1>1, <2>2, MissionAssumption
<1>4. ran[k] = 0
  <2>1. ~Settled(run[r])
    BY <1>1, <1>2 DEF Settled
  <2> QED BY <1>1, <1>2, <2>1 DEF CallInv, RunCall, Active
<1>5. ran' = [ran EXCEPT ![k] = 1]
  BY <1>1, <1>3, <1>4 DEF ToolRuns
<1>6. /\ run'[r].job = run[r].job /\ run'[r].pc = run[r].pc /\ run'[r].call = k
      /\ run'[r].top = run[r].top /\ run'[r].out[s] = "ran"
  BY <1>1 DEF ToolRuns, RunState
<1> HIDE DEF k
<1>7. CallsMade(calls', ran')
  BY <1>1, <1>3, <1>5 DEF CallInv, CallsMade
<1>8. WaitingCalls(steps', calls', ran')
  BY <1>1, <1>3, <1>5, MissionAssumption DEF CallInv, WaitingCalls
<1>9. RunCall(run'[r], steps', calls', ran')
  BY <1>1, <1>2, <1>3, <1>6 DEF RunCall, Settled
<1>10. \A q \in Run : q = r
  BY DEF Solo
<1> QED BY <1>7, <1>8, <1>9, <1>10 DEF CallInv

\* A step asks: its call is new.
LEMMA AskCall ==
  ASSUME Solo, Inv, SoloInv, CallInv, NEW r \in Run, NEW s \in Seq1, StepWaits(r, s)
  PROVE  CallInv'
<1> DEFINE k == calls + 1
<1>1. /\ calls' = k /\ UNCHANGED ran /\ run[r] \in RunState /\ run \in [Run -> RunState]
      /\ run[r].out[s] = "running" /\ (run[r].job.kind = "approved" => run[r].job.seq # s)
      /\ ran \in [1..MaxCalls -> Nat] /\ calls \in Nat /\ k \in 1..MaxCalls
      /\ steps \in [Seq1 -> StepRow]
  BY MissionAssumption DEF StepWaits, Resumed, Inv, RunsOK, CountersOK, StepsOK
<1>2. run[r].pc = "wave"
  BY <1>1 DEF SoloInv, RunAgrees, WaveShape
<1>3. ran[k] = 0
  <2>1. ran[k] # 0 => k <= calls
    BY <1>1 DEF CallInv, CallsMade
  <2> QED BY <1>1, <2>1
<1>4. /\ steps'[s].status = "waiting_confirmation" /\ steps'[s].call = k
      /\ \A t \in Seq1 : t # s => steps'[t] = steps[t]
  <2> HIDE DEF k
  <2>1. Saved(s, "waiting_confirmation", k)
    BY DEF StepWaits, k
  <2> QED BY <1>1, <2>1 DEF Saved, StepRow
<1>5. \A t \in Seq1 : t # s /\ steps'[t].status = "waiting_confirmation" =>
          /\ steps[t].status = "waiting_confirmation" /\ steps'[t].call = steps[t].call
          /\ steps[t].call \in 1..calls /\ steps[t].call # k
  <2>1. \A j \in 1..calls : j # k
    BY <1>1
  <2> QED BY <1>4, <2>1 DEF CallInv, WaitingCalls
<1>6. 1..calls \subseteq 1..k /\ k \in 1..k
  BY <1>1
<1>7. /\ run'[r].job = run[r].job /\ run'[r].pc = run[r].pc /\ run'[r].call = run[r].call
      /\ run'[r].top = run[r].top /\ run'[r].pend = run[r].pend
      /\ \A t \in Seq1 : t # s => run'[r].out[t] = run[r].out[t]
  BY <1>1 DEF StepWaits, RunState
<1>8. CallsMade(calls', ran')
  <2>1. ASSUME NEW j \in 1..MaxCalls PROVE ran[j] <= 1 /\ (ran[j] # 0 => j <= k)
    <3>1. ran[j] <= 1 /\ (ran[j] # 0 => j <= calls)
      BY DEF CallInv, CallsMade
    <3> QED BY <1>1, <3>1
  <2> QED BY <1>1, <2>1 DEF CallsMade
<1>9. WaitingCalls(steps', calls', ran')
  <2> SUFFICES ASSUME NEW t \in Seq1, steps'[t].status = "waiting_confirmation"
               PROVE  /\ steps'[t].call \in 1..k
                      /\ ran[steps'[t].call] = 0
                      /\ \A u \in Seq1 : /\ steps'[u].status = "waiting_confirmation"
                                         /\ steps'[u].call = steps'[t].call
                                         => u = t
    BY <1>1 DEF WaitingCalls
  <2>1. CASE t = s
    BY <1>3, <1>4, <1>5, <1>6, <2>1
  <2>2. CASE t # s
    <3> HIDE DEF k
    <3>1. /\ steps[t].status = "waiting_confirmation" /\ steps'[t].call = steps[t].call
          /\ steps[t].call \in 1..calls /\ steps[t].call # k /\ ran[steps[t].call] = 0
          /\ \A u \in Seq1 : /\ steps[u].status = "waiting_confirmation"
                             /\ steps[u].call = steps[t].call
                             => u = t
      BY <1>5, <2>2 DEF CallInv, WaitingCalls
    <3> QED BY <1>4, <1>5, <1>6, <3>1
  <2> QED BY <2>1, <2>2
<1>10. RunCall(run'[r], steps', calls', ran')
  <2> HIDE DEF k
  <2>1. RunCall(run[r], steps, calls, ran)
    BY DEF CallInv
  <2>2. CASE run[r].job.kind = "approved"
    <3>1. /\ run[r].call \in 1..calls /\ run[r].call \in 1..k /\ run[r].call # k
          /\ \A t \in Seq1 : steps[t].status = "waiting_confirmation" => steps[t].call # run[r].call
          /\ ran[run[r].call] # 0 => Settled(run[r])
      <4>1. \A j \in 1..calls : j # k
        BY <1>1 DEF k
      <4> QED BY <1>2, <1>6, <2>1, <2>2, <4>1 DEF RunCall, Active
    <3>2. run[r].job.seq \in Seq1
      BY <1>2, <2>2, MissionAssumption DEF Inv, RunsOK, RunOK, Job, Seq1
    <3>3. Settled(run[r]) => Settled(run'[r])
      BY <1>1, <1>7, <2>2, <3>2 DEF Settled
    <3>4. \A t \in Seq1 : steps'[t].status = "waiting_confirmation" => steps'[t].call # run[r].call
      BY <1>4, <1>5, <3>1
    <3> QED BY <1>1, <1>2, <1>7, <3>1, <3>3, <3>4 DEF RunCall
  <2>3. CASE run[r].job.kind # "approved"
    BY <1>2, <1>7, <2>3 DEF RunCall
  <2> QED BY <2>2, <2>3
<1>11. \A q \in Run : q = r
  BY DEF Solo
<1> HIDE DEF k
<1> QED BY <1>8, <1>9, <1>10, <1>11 DEF CallInv

\* The other writes of a step: the row does not wait any more.
LEMMA StepCall ==
  ASSUME Solo, Inv, SoloInv, CallInv, NEW r \in Run, NEW s \in Seq1,
         StepStarts(r, s) \/ StepDone(r, s) \/ StepErrors(r, s)
  PROVE  CallInv'
<1>1. /\ UNCHANGED <<calls, ran>> /\ run[r] \in RunState /\ run \in [Run -> RunState]
      /\ steps \in [Seq1 -> StepRow] /\ run[r].out[s] # "none"
  BY DEF StepStarts, StepDone, StepErrors, history, Inv, RunsOK, StepsOK
<1>2. PICK fate \in {"running", "done", "error"} :
          /\ run' = [run EXCEPT ![r].out[s] = fate]
          /\ fate = "running" => run[r].out[s] = "todo"
          /\ steps' = [steps EXCEPT ![s] = steps'[s]] /\ steps'[s].status = fate
  <2>1. CASE StepStarts(r, s)
    BY <1>1, <2>1 DEF StepStarts, StepRow
  <2>2. CASE StepDone(r, s)
    BY <1>1, <2>2 DEF StepDone, Saved, StepRow
  <2>3. CASE StepErrors(r, s)
    BY <1>1, <2>3 DEF StepErrors, Saved, StepRow
  <2> QED BY <2>1, <2>2, <2>3
<1>3. FewerWait(steps, steps')
  BY <1>2, RestatusFewer
<1>4. /\ run'[r].job = run[r].job /\ run'[r].pc = run[r].pc /\ run'[r].call = run[r].call
      /\ run'[r].top = run[r].top /\ run'[r].pend = run[r].pend
      /\ run'[r].out[s] = fate
      /\ \A t \in Seq1 : t # s => run'[r].out[t] = run[r].out[t]
  BY <1>1, <1>2 DEF RunState
<1>5. run[r].pc = "wave" /\ s \in run[r].pend
  BY <1>1 DEF SoloInv, RunAgrees, WaveShape
<1>6. ASSUME run[r].job.kind = "approved", Settled(run[r]) PROVE Settled(run'[r])
  <2>1. run[r].job.seq \in Seq1
    BY <1>5, <1>6, MissionAssumption DEF Inv, RunsOK, RunOK, Job, Seq1
  <2> QED BY <1>2, <1>4, <1>5, <1>6, <2>1 DEF Settled
<1>7. Follows(run[r], run'[r])
  BY <1>4, <1>5, <1>6 DEF Follows
<1> QED BY <1>1, <1>3, <1>7, CallsFollow

\* What waits for the next wave shrinks.
LEMMA PlanCall ==
  ASSUME Solo, Inv, SoloInv, CallInv, NEW r \in Run,
         \/ CheckStop(r) \/ FinalCheck(r) \/ SkipStopped(r) \/ SkipReplaced(r)
         \/ WaveDone(r) \/ \E plan \in Replans : AdoptPlan(r, plan)
  PROVE  CallInv'
<1>1. /\ UNCHANGED <<calls, ran>> /\ run[r] \in RunState /\ run \in [Run -> RunState]
      /\ run[r].pc \in Active
  BY DEF CheckStop, FinalCheck, SkipStopped, SkipReplaced, SkipFirst, WaveDone, AdoptPlan,
         Adopts, Gathered, history, Active, Inv, RunsOK
<1>2. FewerWait(steps, steps')
  <2>1. CASE SkipStopped(r) \/ SkipReplaced(r)
    <3> DEFINE s == First(run[r].pend)
               row == [steps[s] EXCEPT !.status = "skipped"]
    <3>1. steps' = [steps EXCEPT ![s].status = "skipped"] /\ run[r].pend # {}
      BY <2>1 DEF SkipStopped, SkipReplaced, SkipFirst, Inv, RunsOK, RunOK
    <3>2. s \in Seq1 /\ steps[s] \in StepRow
      BY <1>1, <3>1, FirstIsMember DEF RunState, Inv, StepsOK
    <3>3. row.status # "waiting_confirmation"
      BY <3>2 DEF StepRow
    <3>4. steps' = [steps EXCEPT ![s] = row]
      BY <3>1
    <3> HIDE DEF s, row
    <3> QED BY <3>3, <3>4, RestatusFewer
  <2>2. CASE ~(SkipStopped(r) \/ SkipReplaced(r))
    BY <2>2, NoneFewer DEF CheckStop, FinalCheck, WaveDone, AdoptPlan, Adopts
  <2> QED BY <2>1, <2>2
<1>3. WaveShape(run[r])
  BY DEF SoloInv, RunAgrees
<1>4. /\ run'[r].job = run[r].job /\ run'[r].call = run[r].call /\ run'[r].top = run[r].top
      /\ run'[r].pc \notin {"idle", "loaded", "read"}
      /\ \/ run'[r].pend = run[r].pend /\ \A s \in Seq1 : run[r].out[s] = "none"
         \/ run'[r].pend \subseteq run[r].pend /\ run'[r].out = run[r].out
         \/ Gathered(r) /\ run'[r].pend = Remaining(r)
  <2>1. CASE CheckStop(r)
    <3> DEFINE wave == NextWave(run[r].deps, [s \in Seq1 |-> steps[s].risky],
                                run[r].base, run[r].pend)
               out == [s \in Seq1 |-> IF s \in wave THEN "todo" ELSE "none"]
    <3>1. \A s \in Seq1 : run[r].out[s] = "none"
      BY <1>3, <2>1 DEF CheckStop, WaveShape
    <3>2. \/ run' = [run EXCEPT ![r] = [run[r] EXCEPT !.pc = "stop"]]
          \/ run' = [run EXCEPT ![r] = [run[r] EXCEPT !.pc = "wave", !.out = out]]
      BY <2>1 DEF CheckStop
    <3> HIDE DEF out
    <3>3. /\ run'[r].job = run[r].job /\ run'[r].call = run[r].call
          /\ run'[r].top = run[r].top /\ run'[r].pend = run[r].pend
          /\ run'[r].pc \in {"stop", "wave"}
      <4>1. CASE run' = [run EXCEPT ![r] = [run[r] EXCEPT !.pc = "stop"]]
        BY ONLY <1>1, <4>1 DEF RunState
      <4>2. CASE run' = [run EXCEPT ![r] = [run[r] EXCEPT !.pc = "wave", !.out = out]]
        BY ONLY <1>1, <4>2 DEF RunState
      <4> QED BY <3>2, <4>1, <4>2
    <3> QED BY <3>1, <3>3
  <2>2. CASE FinalCheck(r)
    BY <1>1, <2>2 DEF FinalCheck, RunState
  <2>3. CASE SkipStopped(r) \/ SkipReplaced(r)
    <3>1. PICK pc \in {"ended", "stop", "insert", "skip"} : SkipFirst(r, pc)
      BY <2>3 DEF SkipStopped, SkipReplaced
    <3> DEFINE s == First(run[r].pend)
    <3>2. run' = [run EXCEPT ![r] = [run[r] EXCEPT !.pend = run[r].pend \ {s}, !.pc = pc]]
      BY <1>1, <3>1 DEF SkipFirst
    <3> HIDE DEF s
    <3> QED BY <1>1, <3>2 DEF RunState
  <2>4. CASE WaveDone(r)
    <3> DEFINE pc == IF Remaining(r) = {} THEN "final" ELSE "check"
    <3>1. run' = [run EXCEPT ![r] = [run[r] EXCEPT !.pc = pc, !.pend = Remaining(r),
                                        !.good = Good(r), !.out = IdleRun.out]]
      BY <2>4 DEF WaveDone
    <3>2. pc \in {"final", "check"} /\ Gathered(r)
      BY <2>4 DEF WaveDone
    <3> HIDE DEF pc
    <3> QED BY <1>1, <3>1, <3>2 DEF RunState
  <2>5. ASSUME NEW plan \in Replans, AdoptPlan(r, plan)
        PROVE  /\ run'[r].job = run[r].job /\ run'[r].call = run[r].call
               /\ run'[r].top = run[r].top /\ run'[r].pc \notin {"idle", "loaded", "read"}
               /\ Gathered(r) /\ run'[r].pend = Remaining(r)
    <3> DEFINE pc == IF Remaining(r) = {} THEN "insert" ELSE "skip"
    <3>1. run' = [run EXCEPT ![r] = [run[r] EXCEPT
                     !.pc = pc, !.pend = Remaining(r), !.good = Good(r), !.out = IdleRun.out,
                     !.budget.replans = run[r].budget.replans + 1, !.next = plan]]
      BY <2>5 DEF AdoptPlan, Adopts
    <3>2. pc \in {"insert", "skip"} /\ Gathered(r)
      BY <2>5 DEF AdoptPlan, Adopts
    <3> HIDE DEF pc
    <3> QED BY <1>1, <3>1, <3>2 DEF RunState
  <2>6. CASE \E plan \in Replans : AdoptPlan(r, plan)
    BY <2>5, <2>6
  <2> QED BY <2>1, <2>2, <2>3, <2>4, <2>6
<1>5. ASSUME run[r].job.kind = "approved", Settled(run[r]) PROVE Settled(run'[r])
  <2> DEFINE s == run[r].job.seq
  <2>1. s \in Seq1
    BY <1>1, <1>5, MissionAssumption DEF Inv, RunsOK, RunOK, Job, Seq1, Active
  <2>2. CASE run'[r].pend = run[r].pend /\ \A t \in Seq1 : run[r].out[t] = "none"
    BY <1>4, <1>5, <2>1, <2>2 DEF Settled
  <2>3. CASE run'[r].pend \subseteq run[r].pend /\ run'[r].out = run[r].out
    BY <1>4, <1>5, <2>3 DEF Settled
  <2>4. CASE Gathered(r) /\ run'[r].pend = Remaining(r)
    BY <1>4, <1>5, <2>1, <2>4 DEF Settled, Gathered, Remaining, With
  <2> QED BY <1>4, <2>2, <2>3, <2>4
<1>6. run[r].pc # "idle"
  BY <1>1 DEF Active
<1>7. Follows(run[r], run'[r])
  BY <1>1, <1>4, <1>5, <1>6 DEF Follows
<1> QED BY <1>1, <1>2, <1>7, CallsFollow

\* The steps of a new plan come after the one that was confirmed.
LEMMA InsertCall ==
  ASSUME Solo, Inv, SoloInv, CallInv, NEW r \in Run, InsertSteps(r)
  PROVE  CallInv'
<1> DEFINE top == run[r].top
           n == Len(run[r].next)
           new == top + 1 .. top + n
           deps == [s \in Seq1 |-> IF s \in new THEN steps'[s].deps ELSE run[r].deps[s]]
<1>1. /\ UNCHANGED <<calls, ran>> /\ run[r] \in RunState /\ run \in [Run -> RunState]
      /\ run[r].pc = "insert" /\ run[r].next \in Replans
      /\ steps' = WithPlan(steps, run[r].next, top)
  BY DEF InsertSteps, history, Inv, RunsOK, RunOK
<1>2. n \in Nat /\ top \in Nat
  <2>1. n \in 1..MaxSteps
    BY <1>1, PlanShape
  <2> QED BY <1>1, <2>1, MissionAssumption DEF RunState
<1>3. run' = [run EXCEPT ![r] = [run[r] EXCEPT !.pc = "check", !.pend = new, !.base = new,
                                    !.deps = deps, !.top = top + n, !.next = <<>>]]
  BY DEF InsertSteps
<1>4. /\ run'[r].job = run[r].job /\ run'[r].call = run[r].call /\ run'[r].pc = "check"
      /\ run'[r].pend = new /\ run'[r].top = top + n
  <2> HIDE DEF new, deps, n, top
  <2> QED BY <1>1, <1>3 DEF RunState
<1>5. FewerWait(steps, steps')
  BY <1>1 DEF FewerWait, WithPlan
<1>6. ASSUME run[r].job.kind = "approved", Settled(run[r]) PROVE Settled(run'[r])
  <2>1. run[r].job.seq \in Nat
    BY <1>1, <1>6, MissionAssumption DEF Inv, RunsOK, RunOK, Job
  <2>2. run[r].job.seq <= top + n /\ run[r].job.seq \notin new
    BY <1>2, <1>6, <2>1 DEF Settled
  <2> HIDE DEF new, n, top
  <2> QED BY <1>4, <2>2 DEF Settled
<1>7. Follows(run[r], run'[r])
  BY <1>1, <1>4, <1>6 DEF Follows, Active
<1> QED BY <1>1, <1>5, <1>7, CallsFollow

\* The run reads, ends or is over.
LEMMA LeavesCall ==
  ASSUME Solo, Inv, SoloInv, CallInv, NEW r \in Run,
         \/ ReadSteps(r) \/ RunReturns(r) \/ Interrupted(r) \/ GivesUp(r)
         \/ MissionWaits(r) \/ MissionFails(r) \/ SaveDone(r) \/ Breaks(r)
  PROVE  CallInv'
<1>1. /\ UNCHANGED <<steps, calls, ran>> /\ run[r].pc # "idle"
      /\ run[r] \in RunState /\ run \in [Run -> RunState]
  BY DEF ReadSteps, RunReturns, Interrupted, GivesUp, MissionWaits, MissionFails, SaveDone,
         Breaks, Gathered, history, Inv, RunsOK
<1>2. CASE ReadSteps(r)
  <2>1. /\ run'[r].pc = "read" /\ run'[r].job = run[r].job /\ run'[r].call = run[r].call
        /\ run[r].job.kind = "new"
    BY <1>1, <1>2 DEF ReadSteps, RunState
  <2>2. Follows(run[r], run'[r])
    BY <1>1, <2>1 DEF Follows
  <2> QED BY <1>1, <2>2, NoneFewer, CallsFollow
<1>3. CASE RunReturns(r) \/ Interrupted(r) \/ GivesUp(r)
  <2>1. Return(r)
    BY <1>3 DEF RunReturns, Interrupted, GivesUp
  <2>2. Follows(run[r], run'[r])
    BY <1>1, <2>1, IdleShape DEF Return, Follows
  <2> QED BY <1>1, <2>2, NoneFewer, CallsFollow
<1>4. CASE MissionWaits(r) \/ MissionFails(r) \/ SaveDone(r) \/ Breaks(r)
  <2>1. Ends(r)
    BY <1>4 DEF MissionWaits, MissionFails, SaveDone, Breaks
  <2>2. run'[r].pc = "ended" /\ run'[r].job = run[r].job /\ run'[r].call = run[r].call
    BY <1>1, <2>1 DEF Ends, RunState
  <2>3. Follows(run[r], run'[r])
    BY <1>1, <2>2 DEF Follows, Active
  <2> QED BY <1>1, <2>3, NoneFewer, CallsFollow
<1> QED BY <1>2, <1>3, <1>4

LEMMA StepKeepsCalls == Solo /\ Inv /\ SoloInv /\ CallInv /\ [Next]_vars => CallInv'
<1> SUFFICES ASSUME Solo, Inv, SoloInv, CallInv, [Next]_vars PROVE CallInv'
  OBVIOUS
<1>1. CASE \/ CreateEnqueue \/ CreateCommit \/ UNCHANGED vars
           \/ \E c \in Client : Write(c) \/ \E op \in Ops : Check(c, op)
           \/ \E r \in Run : Redelivered(r)
  BY <1>1, OthersCall
<1>2. ASSUME NEW r \in Run, RunStep(r) PROVE CallInv'
  <2>1. CASE \E m \in queue : Take(r, m)
    BY <2>1, TakeCall
  <2>2. CASE CommitPlan(r) \/ CommitApproved(r) \/ CommitResumption(r)
    BY <2>2, CommitCall
  <2>3. CASE \E s \in Seq1 : StepAction(r, s)
    BY <2>3, ToolCall, AskCall, StepCall DEF StepAction
  <2>4. CASE \/ CheckStop(r) \/ FinalCheck(r) \/ SkipStopped(r) \/ SkipReplaced(r)
             \/ WaveDone(r) \/ \E plan \in Replans : AdoptPlan(r, plan)
    BY <2>4, PlanCall
  <2>5. CASE InsertSteps(r)
    BY <2>5, InsertCall
  <2>6. CASE ReadSteps(r) \/ RunReturns(r) \/ MissionWaits(r) \/ MissionFails(r) \/ SaveDone(r)
    BY <2>6, LeavesCall
  <2> QED BY <1>2, <2>1, <2>2, <2>3, <2>4, <2>5, <2>6 DEF RunStep
<1>3. ASSUME NEW r \in Run, Interrupted(r) \/ GivesUp(r) \/ Breaks(r) PROVE CallInv'
  BY <1>3, LeavesCall
<1> QED BY <1>1, <1>2, <1>3 DEF Next

LEMMA InitCalls == Init => CallInv
<1> SUFFICES ASSUME Init PROVE CallInv
  OBVIOUS
<1>1. \A r \in Run : run[r].pc = "idle"
  BY DEF Init, IdleRun
<1>2. CallsMade(calls, ran)
  BY DEF Init, CallsMade
<1>3. WaitingCalls(steps, calls, ran)
  BY DEF Init, WaitingCalls, NoRow
<1> QED BY <1>1, <1>2, <1>3 DEF CallInv, RunCall, Active

\* The tool of a confirmed step runs once, through crashes, repeated deliveries,
\* pauses and any number of clients.
THEOREM CallsAreMadeOnce == ASSUME Solo PROVE Spec => [](\A k \in 1..MaxCalls : ran[k] <= 1)
<1>1. Init => Inv /\ SoloInv /\ CallInv
  BY InitInv, InitSolo, InitCalls
<1>2. Inv /\ SoloInv /\ CallInv /\ [Next]_vars => Inv' /\ SoloInv' /\ CallInv'
  BY StepKeepsInv, StepKeepsSolo, StepKeepsCalls
<1>3. CallInv => \A k \in 1..MaxCalls : ran[k] <= 1
  BY DEF CallInv, CallsMade
<1> QED BY <1>1, <1>2, <1>3, PTL DEF Spec

-----------------------------------------------------------------------------
(* Consent.  One client, no crash, no resumption and no delivery twice:    *)
(* there is then one job at a time, so the one that runs a step is the one *)
(* of the confirmation.  Each of the four is needed.                       *)

Undisturbed ==
    /\ \A b, c \in Client : b = c
    /\ MaxFaults = 0
    /\ "resume" \notin Ops

Rests(r) == run[r].pc \in {"idle", "ended"}

\* The jobs of a mission follow one another.
OneJob ==
    /\ \A m, n \in queue : m = n
    /\ queue # {} => \A r \in Run : Rests(r)
    /\ mission.status = "waiting_confirmation" => queue = {} /\ \A r \in Run : Rests(r)
    /\ mission.status = "none" => queue = {} /\ \A r \in Run : run[r].pc = "idle"

\* What a request, a job and a run name is the call that was consented to.
Consented ==
    /\ \A c \in Client : req[c] # None =>
          /\ req[c].op \in Ops
          /\ req[c].op = "approve" => /\ mission.status = "waiting_confirmation"
                                      /\ steps[req[c].seq].call = req[c].call
    /\ \A m \in queue : m.kind = "approved" /\ steps[m.seq].status = "waiting_confirmation" =>
          steps[m.seq].call \in consented
    /\ \A r \in Run : ~Rests(r) /\ run[r].job.kind = "approved" => run[r].call \in consented
    /\ \A k \in 1..MaxCalls : ran[k] # 0 => k \in consented

ConsentInv == repeats = 0 => OneJob /\ Consented

\* A run that works is alone with its job: it may write any row.
LEMMA WorkConsents ==
  ASSUME Solo, Inv, OneJob, Consented, NEW r \in Run, ~Rests(r),
         UNCHANGED <<req, queue, consented, ran>>,
         mission'.status # "none",
         mission'.status = "waiting_confirmation" => run'[r].pc = "ended",
         run'[r].pc # "idle" => run'[r].job = run[r].job /\ run'[r].call = run[r].call
  PROVE  OneJob' /\ Consented'
<1>1. queue = {} /\ queue' = {} /\ mission.status # "waiting_confirmation"
  BY DEF OneJob
<1>2. \A q \in Run : q = r
  BY DEF Solo
<1>3. OneJob'
  BY <1>1, <1>2 DEF OneJob, Rests
<1>4. \A q \in Run : ~Rests(q)' /\ run'[q].job.kind = "approved" => run'[q].call \in consented
  BY <1>2 DEF Consented, Rests
<1>5. \A c \in Client : req'[c] # None =>
          /\ req'[c].op \in Ops
          /\ req'[c].op = "approve" => /\ mission'.status = "waiting_confirmation"
                                       /\ steps'[req'[c].seq].call = req'[c].call
  BY <1>1 DEF Consented
<1>6. \A k \in 1..MaxCalls : ran'[k] # 0 => k \in consented'
  BY DEF Consented
<1> QED BY <1>1, <1>3, <1>4, <1>5, <1>6 DEF Consented

LEMMA RunConsents ==
  ASSUME Solo, Undisturbed, Inv, SoloInv, OneJob, Consented, NEW r \in Run, RunStep(r)
  PROVE  OneJob' /\ Consented'
<1>0. /\ run \in [Run -> RunState] /\ run[r] \in RunState
      /\ mission \in [status : Status, budget : Budget]
      /\ \A q \in Run : q = r
  BY DEF Inv, RunsOK, MissionOK, Solo
<1>1. ASSUME NEW m \in queue, Take(r, m) PROVE OneJob' /\ Consented'
  <2>1. /\ UNCHANGED <<mission, steps, req, consented, ran>> /\ queue' = queue \ {m}
        /\ m \in Job
    BY <1>1 DEF Take, history, Inv
  <2>2. queue' = {} /\ mission.status \notin {"none", "waiting_confirmation"}
    BY <1>1, <2>1 DEF OneJob
  <2>3. run'[r].pc # "idle" /\ run'[r].job.kind = "approved" => run'[r].call \in consented
    <3>1. CASE Ignored(m)
      <4>1. run' = run /\ run[r].pc = "idle"
        BY <1>1, <3>1 DEF Take
      <4> QED BY <4>1
    <3>2. CASE ~Ignored(m)
      <4> DEFINE call == IF m.kind = "approved" THEN steps[m.seq].call ELSE 0
                 x == [IdleRun EXCEPT !.pc = "loaded", !.job = m, !.budget = mission.budget,
                                      !.call = call]
      <4>1. run' = [run EXCEPT ![r] = x]
        BY <1>1, <3>2 DEF Take
      <4>2. x.job = m /\ x.call = call
        <5> HIDE DEF call
        <5> QED BY DEF IdleRun
      <4> HIDE DEF x
      <4>3. run'[r] = x
        BY <1>0, <4>1
      <4>4. m.kind = "approved" => call \in consented
        BY <3>2 DEF Ignored, Consented
      <4> QED BY <4>2, <4>3, <4>4
    <3> QED BY <3>1, <3>2
  <2>4. OneJob'
    BY <2>1, <2>2 DEF OneJob
  <2>5. Consented'
    BY <1>0, <2>1, <2>2, <2>3 DEF Consented, Rests
  <2> QED BY <2>4, <2>5
<1>2. CASE RunReturns(r)
  <2>1. UNCHANGED <<mission, steps, req, queue, consented, ran>> /\ run'[r].pc = "idle"
    BY <1>0, <1>2, IdleShape DEF RunReturns, Return, history
  <2>2. OneJob'
    BY <1>0, <2>1 DEF OneJob, Rests
  <2>3. Consented'
    BY <1>0, <2>1 DEF Consented, Rests
  <2> QED BY <2>2, <2>3
<1>3. CASE ReadSteps(r)
  <2>1. /\ UNCHANGED <<mission, req, queue, consented, ran>> /\ run[r].pc = "loaded"
        /\ run'[r].job = run[r].job /\ run'[r].call = run[r].call
    BY <1>0, <1>3 DEF ReadSteps, history, RunState
  <2>2. ~Rests(r) /\ run[r].pc # "idle"
    BY <2>1 DEF Rests
  <2> QED BY <2>1, <2>2, WorkConsents DEF OneJob
<1>4. CASE CommitPlan(r) \/ CommitApproved(r) \/ CommitResumption(r)
  <2>1. /\ UNCHANGED <<req, queue, consented, ran>> /\ run[r].pc \in {"loaded", "read"}
        /\ mission'.status = mission.status \/ mission'.status = "running"
    BY <1>0, <1>4 DEF CommitPlan, CommitApproved, CommitResumption, Moves, history
  <2>2. run'[r].pc # "idle" => run'[r].job = run[r].job /\ run'[r].call = run[r].call
    <3>1. CASE Return(r)
      BY <1>0, <3>1, IdleShape DEF Return
    <3>2. CASE ~Return(r)
      <4>1. Begin(r, steps')
        BY <1>4, <3>2 DEF CommitPlan, CommitApproved, CommitResumption
      <4> QED BY <1>0, <4>1 DEF Begin, RunState
    <3> QED BY <3>1, <3>2
  <2>3. ~Rests(r) /\ run[r].pc # "idle"
    BY <2>1 DEF Rests
  <2> QED BY <2>1, <2>2, <2>3, WorkConsents DEF OneJob
<1>5. CASE \/ CheckStop(r) \/ FinalCheck(r) \/ WaveDone(r) \/ InsertSteps(r)
           \/ SkipStopped(r) \/ SkipReplaced(r)
  <2>1. /\ UNCHANGED <<mission, req, queue, consented, ran>> /\ run[r].pc \in Active
        /\ run'[r].job = run[r].job /\ run'[r].call = run[r].call
    <3>1. CASE CheckStop(r) \/ FinalCheck(r)
      BY <1>0, <3>1 DEF CheckStop, FinalCheck, history, Active, RunState
    <3>2. CASE WaveDone(r)
      BY <1>0, <3>2 DEF WaveDone, Gathered, history, Active, RunState
    <3>3. CASE InsertSteps(r)
      BY <1>0, <3>3 DEF InsertSteps, history, Active, RunState
    <3>4. CASE SkipStopped(r) \/ SkipReplaced(r)
      BY <1>0, <3>4 DEF SkipStopped, SkipReplaced, SkipFirst, history, Active, RunState
    <3> QED BY <1>5, <3>1, <3>2, <3>3, <3>4
  <2>2. ~Rests(r) /\ run[r].pc # "idle"
    BY <2>1 DEF Rests, Active
  <2> QED BY <2>1, <2>2, WorkConsents DEF OneJob
<1>6. ASSUME NEW plan \in Replans, AdoptPlan(r, plan) PROVE OneJob' /\ Consented'
  <2>1. /\ UNCHANGED <<req, queue, consented, ran>> /\ run[r].pc = "wave"
        /\ mission'.status = mission.status
        /\ run'[r].job = run[r].job /\ run'[r].call = run[r].call
    BY <1>0, <1>6 DEF AdoptPlan, Adopts, Gathered, history, RunState
  <2>2. ~Rests(r) /\ run[r].pc # "idle"
    BY <2>1 DEF Rests
  <2> QED BY <2>1, <2>2, WorkConsents DEF OneJob
<1>7. CASE MissionWaits(r) \/ MissionFails(r) \/ SaveDone(r)
  <2>1. /\ UNCHANGED <<req, queue, consented, ran>> /\ run[r].pc \in {"wave", "synth"}
        /\ mission'.status = mission.status \/ mission'.status # "none"
    BY <1>0, <1>7 DEF MissionWaits, MissionFails, SaveDone, Gathered, SaveMission, history
  <2>2. Ends(r)
    BY <1>7 DEF MissionWaits, MissionFails, SaveDone
  <2>3. run'[r].pc = "ended" /\ run'[r].job = run[r].job /\ run'[r].call = run[r].call
    BY <1>0, <2>2 DEF Ends, RunState
  <2>4. ~Rests(r) /\ run[r].pc # "idle"
    BY <2>1 DEF Rests
  <2> QED BY <2>1, <2>3, <2>4, WorkConsents DEF OneJob
<1>8. ASSUME NEW s \in Seq1, StepAction(r, s) PROVE OneJob' /\ Consented'
  <2>1. run[r].out[s] # "none"
    BY <1>8 DEF StepAction, StepStarts, ToolRuns, StepDone, StepErrors, StepWaits
  <2>2. run[r].pc = "wave" /\ ~Rests(r)
    BY <2>1 DEF SoloInv, RunAgrees, WaveShape, Rests
  <2>3. /\ UNCHANGED <<mission, req, queue, consented>>
        /\ run'[r].job = run[r].job /\ run'[r].call = run[r].call /\ run'[r].pc = run[r].pc
    BY <1>0, <1>8 DEF StepAction, StepStarts, ToolRuns, StepDone, StepErrors, StepWaits,
                      history, RunState
  <2>4. CASE UNCHANGED ran
    BY <2>2, <2>3, <2>4, WorkConsents DEF OneJob
  <2>5. CASE ToolRuns(r, s)
    <3>1. /\ ran' = [ran EXCEPT ![run[r].call] = @ + 1] /\ UNCHANGED steps
          /\ run[r].job.kind = "approved" /\ ran \in [1..MaxCalls -> Nat]
      BY <2>5 DEF ToolRuns, Resumed, Inv, CountersOK
    <3>2. run[r].call \in consented
      BY <2>2, <3>1 DEF Consented
    <3>3. \A k \in 1..MaxCalls : ran'[k] # 0 => k \in consented
      BY <3>1, <3>2 DEF Consented
    <3>4. OneJob'
      BY <1>0, <2>2, <2>3 DEF OneJob, Rests
    <3>5. Consented'
      BY <1>0, <2>3, <3>1, <3>2, <3>3 DEF Consented, Rests
    <3> QED BY <3>4, <3>5
  <2>6. ToolRuns(r, s) \/ UNCHANGED ran
    BY <1>8 DEF StepAction, StepStarts, StepDone, StepErrors, StepWaits, history
  <2> QED BY <2>4, <2>5, <2>6
<1> QED BY <1>1, <1>2, <1>3, <1>4, <1>5, <1>6, <1>7, <1>8 DEF RunStep

\* The request is made of what waits, and nothing else moves until it is served.
LEMMA RequestConsents ==
  ASSUME Undisturbed, Inv, OneJob, Consented, NEW c \in Client,
         Write(c) \/ \E op \in Ops : Check(c, op)
  PROVE  OneJob' /\ Consented'
<1>0. /\ UNCHANGED <<run, ran>> /\ \A b \in Client : b = c
      /\ mission \in [status : Status, budget : Budget]
      /\ req \in [Client -> Request \cup {None}]
  BY DEF Undisturbed, Write, Approve, Reject, Cancel, Pause, Resume, Steer, Refused, Check,
         history, Inv, MissionOK, RequestsOK
<1>1. ASSUME NEW op \in Ops, Check(c, op) PROVE OneJob' /\ Consented'
  <2> DEFINE seq == IF op = "approve" THEN FirstWaiting ELSE 0
             call == IF op = "approve" THEN steps[seq].call ELSE 0
             q == [op |-> op, id |-> ops + 1, budget |-> mission.budget, seq |-> seq,
                   call |-> call]
  <2>1. UNCHANGED <<mission, steps, queue, consented>> /\ Allowed(op)
        /\ req' = [req EXCEPT ![c] = q]
    BY <1>1 DEF Check, history
  <2>2. /\ q.op = op /\ q.seq = seq /\ q.call = call
        /\ op = "approve" => mission.status = "waiting_confirmation" /\ steps[q.seq].call = q.call
    BY <2>1 DEF Allowed
  <2> HIDE DEF q
  <2>3. req'[c] = q
    BY <1>0, <2>1
  <2>4. OneJob'
    BY <1>0, <2>1 DEF OneJob, Rests
  <2>5. Consented'
    BY <1>0, <2>1, <2>2, <2>3 DEF Consented, Rests
  <2> QED BY <2>4, <2>5
<1>2. CASE Write(c)
  <2>1. /\ req' = [req EXCEPT ![c] = None] /\ req[c] # None /\ req[c].op \in Ops
    BY <1>2 DEF Write, Approve, Reject, Cancel, Pause, Resume, Steer, Refused, Answered, Asks,
                Consented
  <2>2. \A b \in Client : req'[b] = None
    BY <1>0, <2>1
  <2>3. ~Resume(c)
    BY <2>1 DEF Resume, Asks, Undisturbed
  <2>4. CASE Approve(c)
    <3> DEFINE job == [kind |-> "approved", seq |-> req[c].seq, id |-> req[c].id]
               k == req[c].call
    <3>1. /\ mission.status = "waiting_confirmation" /\ mission'.status = "running"
          /\ queue' = queue \cup {job} /\ consented' = consented \cup {k}
          /\ UNCHANGED steps /\ steps[req[c].seq].call = k
      BY <1>0, <2>4 DEF Approve, Claims, Asks, Consented
    <3>2. queue' = {job} /\ \A r \in Run : Rests(r)
      BY <3>1 DEF OneJob
    <3>3. job.seq = req[c].seq
      OBVIOUS
    <3> HIDE DEF job
    <3>4. OneJob'
      BY <1>0, <3>1, <3>2 DEF OneJob, Rests
    <3>5. \A m \in queue' : steps'[m.seq].call \in consented'
      BY <3>1, <3>2, <3>3
    <3>6. Consented'
      BY <1>0, <2>2, <3>1, <3>2, <3>5 DEF Consented, Rests
    <3> QED BY <3>4, <3>6
  <2>5. CASE ~Approve(c)
    <3>1. UNCHANGED <<queue, consented>>
      BY <1>2, <2>3, <2>5 DEF Write, Reject, Cancel, Pause, Steer, Refused, history
    <3>2. mission'.status = mission.status \/ mission'.status \in {"cancelled", "paused"}
      BY <1>0, <1>2, <2>3, <2>5 DEF Write, Reject, Cancel, Pause, Steer, Refused, Claims, Moves
    <3>3. \A s \in Seq1 : steps'[s].status = "waiting_confirmation" =>
              steps[s].status = "waiting_confirmation" /\ steps'[s].call = steps[s].call
      <4>1. CASE Reject(c)
        <5>1. \A s \in Seq1 : steps[s] \in StepRow
          BY DEF Inv, StepsOK
        <5> QED BY <4>1, <5>1 DEF Reject, Waiting, StepRow
      <4>2. CASE ~Reject(c)
        BY <1>2, <2>3, <2>5, <4>2 DEF Write, Cancel, Pause, Steer, Refused
      <4> QED BY <4>1, <4>2
    <3>4. \A m \in queue : m.kind = "approved" => m.seq \in Seq1
      BY MissionAssumption DEF Inv, Job, Seq1
    <3>5. OneJob'
      BY <1>0, <3>1, <3>2 DEF OneJob, Rests
    <3>6. Consented'
      BY <1>0, <2>2, <3>1, <3>3, <3>4 DEF Consented, Rests
    <3> QED BY <3>5, <3>6
  <2> QED BY <2>4, <2>5
<1> QED BY <1>1, <1>2

LEMMA CreationConsents ==
  ASSUME Inv, OneJob, Consented, CreateEnqueue \/ CreateCommit \/ UNCHANGED vars
  PROVE  OneJob' /\ Consented'
<1>1. /\ UNCHANGED <<steps, req, run, consented, ran>>
      /\ mission'.status = mission.status \/ mission'.status \in {"inserted", "planning"}
      /\ mission.status \in {"none", "inserted"} \/ UNCHANGED mission
  BY DEF CreateEnqueue, CreateCommit, vars, history, Inv, MissionOK
<1>2. \/ UNCHANGED queue
      \/ /\ mission.status = "none" /\ mission'.status = "inserted"
         /\ queue' = queue \cup {[kind |-> "new", seq |-> 0, id |-> 0]}
  BY DEF CreateEnqueue, CreateCommit, vars, Inv, MissionOK
<1>3. \A m \in queue' : m \in queue \/ m.kind = "new"
  BY <1>2
<1>4. OneJob'
  <2>1. CASE UNCHANGED queue
    BY <1>1, <2>1 DEF OneJob, Rests
  <2>2. CASE /\ mission.status = "none" /\ mission'.status = "inserted"
             /\ queue' = queue \cup {[kind |-> "new", seq |-> 0, id |-> 0]}
    <3>1. queue = {} /\ \A r \in Run : run[r].pc = "idle"
      BY <2>2 DEF OneJob
    <3>2. \A m, n \in queue' : m = n
      BY <2>2, <3>1
    <3> QED BY <1>1, <2>2, <3>1, <3>2 DEF OneJob, Rests
  <2> QED BY <1>2, <2>1, <2>2
<1>5. Consented'
  BY <1>1, <1>3 DEF Consented, Rests
<1> QED BY <1>4, <1>5

LEMMA StepKeepsConsent ==
  Solo /\ Undisturbed /\ Inv /\ SoloInv /\ ConsentInv /\ [Next]_vars => ConsentInv'
<1> SUFFICES ASSUME Solo, Undisturbed, Inv, SoloInv, ConsentInv, [Next]_vars, repeats' = 0
             PROVE  OneJob' /\ Consented'
  BY DEF ConsentInv
<1>0. repeats \in Nat /\ faults \in Nat /\ MaxFaults = 0
  BY DEF Inv, CountersOK, Undisturbed
<1>1. ~ \E r \in Run : Interrupted(r) \/ GivesUp(r) \/ Breaks(r)
  BY <1>0 DEF Interrupted, GivesUp, Breaks, Fault
<1>2. ~ \E r \in Run : Redelivered(r)
  BY <1>0 DEF Redelivered
<1>3. repeats = 0
  <2>1. CASE CreateEnqueue \/ CreateCommit \/ UNCHANGED vars
    BY <2>1 DEF CreateEnqueue, CreateCommit, vars, counters
  <2>2. CASE \E c \in Client : Write(c) \/ \E op \in Ops : Check(c, op)
    BY <2>2 DEF Write, Approve, Reject, Cancel, Pause, Resume, Steer, Refused, Check, counters
  <2>3. ASSUME NEW r \in Run, NEW s \in Seq1, StepAction(r, s) PROVE repeats = 0
    BY <2>3 DEF StepAction, StepStarts, ToolRuns, StepDone, StepErrors, StepWaits, counters
  <2>4. ASSUME NEW r \in Run, RunStep(r) PROVE repeats = 0
    BY <2>3, <2>4
       DEF RunStep, Take, ReadSteps, CommitPlan, CommitApproved, CommitResumption, CheckStop,
           SkipStopped, SkipFirst, WaveDone, MissionWaits, MissionFails, AdoptPlan, Adopts,
           SkipReplaced, InsertSteps, FinalCheck, SaveDone, RunReturns, counters
  <2> QED BY <1>1, <1>2, <2>1, <2>2, <2>4 DEF Next
<1>4. OneJob /\ Consented
  BY <1>3 DEF ConsentInv
<1>5. CASE CreateEnqueue \/ CreateCommit \/ UNCHANGED vars
  BY <1>4, <1>5, CreationConsents
<1>6. CASE \E c \in Client : Write(c) \/ \E op \in Ops : Check(c, op)
  BY <1>4, <1>6, RequestConsents
<1>7. CASE \E r \in Run : RunStep(r)
  BY <1>4, <1>7, RunConsents
<1> QED BY <1>1, <1>2, <1>5, <1>6, <1>7 DEF Next

LEMMA InitConsents == Init => ConsentInv
<1> SUFFICES ASSUME Init PROVE OneJob /\ Consented
  BY DEF ConsentInv
<1>1. \A r \in Run : run[r].pc = "idle"
  BY DEF Init, IdleRun
<1> QED BY <1>1 DEF Init, OneJob, Consented, Rests

\* Nothing dangerous runs unasked, when nothing disturbs the mission: the call
\* that runs is the one that was waiting when its owner was asked.
THEOREM OnlyApprovedCallsRun == ASSUME Solo, Undisturbed PROVE Spec => []ApprovedOnce
<1>1. Init => Inv /\ SoloInv /\ CallInv /\ ConsentInv
  BY InitInv, InitSolo, InitCalls, InitConsents
<1>2. Inv /\ SoloInv /\ CallInv /\ ConsentInv /\ [Next]_vars =>
        Inv' /\ SoloInv' /\ CallInv' /\ ConsentInv'
  BY StepKeepsInv, StepKeepsSolo, StepKeepsCalls, StepKeepsConsent
<1>3. CallInv /\ ConsentInv => ApprovedOnce
  BY DEF CallInv, CallsMade, ConsentInv, Consented, ApprovedOnce
<1> QED BY <1>1, <1>2, <1>3, PTL DEF Spec
=============================================================================
