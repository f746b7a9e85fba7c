---------------------------- MODULE MissionsProofs ----------------------------
(***************************************************************************)
(* Proofs about Missions, for every set of clients and runs, every plan    *)
(* and every limit.                                                        *)
(***************************************************************************)
EXTENDS Missions, WavesProofs

-----------------------------------------------------------------------------
(* The inductive invariant.  Types alone are not inductive: a run writes   *)
(* rows by numbers it keeps in memory, so what it keeps must name rows     *)
(* that exist, and rows must stay numbered without a gap for the next plan *)
(* to be inserted after the last of them.                                  *)

RowsOf(table) == {s \in Seq1 : table[s].status # "none"}

RowOK(s, row) ==
    /\ row \in StepRow
    /\ row.deps \subseteq 1..(s - 1)
    /\ row.status = "waiting_confirmation" => row.call # 0

StepsOK(table) ==
    /\ table \in [Seq1 -> StepRow]
    /\ \A s \in Seq1 : RowOK(s, table[s])
    /\ \E k \in 0..MaxSeq : RowsOf(table) = 1..k

RunOK(x, rows) ==
    /\ x \in RunState
    /\ x.pend \subseteq rows
    /\ \A s \in Seq1 : x.out[s] # "none" => s \in rows
    /\ 1..x.top \subseteq rows
    /\ x.pc # "idle" => x.job \in Job
    /\ x.pc \in {"check", "stop", "skip"} => x.pend # {}
    /\ x.pc \in {"skip", "insert"} => x.next \in Replans
    /\ x.pc \notin {"idle", "loaded", "read"} => rows # {}

RunsOK(rows) ==
    /\ run \in [Run -> RunState]
    /\ \A r \in Run : RunOK(run[r], rows)

Status == Missing \cup Terminal \cup Pausable \cup {"paused"}
MissionOK == mission \in [status : Status, budget : Budget]
RequestsOK == req \in [Client -> Request \cup {None}] /\ ops \in 0..MaxOps
CountersOK ==
    /\ calls \in 0..MaxCalls
    /\ consented \subseteq 1..MaxCalls
    /\ ran \in [1..MaxCalls -> Nat]
    /\ {replanned, faults, repeats} \subseteq Nat

Inv ==
    /\ MissionOK
    /\ StepsOK(steps)
    /\ queue \subseteq Job
    /\ RequestsOK
    /\ RunsOK(Rows)
    /\ CountersOK

-----------------------------------------------------------------------------
(* Facts about numbers and sets of steps.                                  *)

LEMMA FirstIsMember ==
  ASSUME NEW S \in SUBSET Seq1, S # {}
  PROVE  First(S) \in S
<1>1. S \in SUBSET Nat
  BY DEF Seq1
<1>2. \E s \in S : \A t \in S : s <= t
  BY <1>1, LeastNumber
<1> QED BY <1>2 DEF First

LEMMA FirstWaitingWaits == Waiting # {} => FirstWaiting \in Waiting
<1>1. Waiting \in SUBSET Nat
  BY DEF Waiting, Seq1
<1>2. Waiting # {} => \E s \in Waiting : \A t \in Waiting : s <= t
  BY <1>1, LeastNumber
<1> QED BY <1>2 DEF FirstWaiting

\* A plan is a numbered list of steps that depend on earlier ones.
LEMMA PlanShape ==
  ASSUME NEW plan \in Plans \cup Replans
  PROVE  /\ Len(plan) \in 1..MaxSteps
         /\ DOMAIN plan = 1..Len(plan)
         /\ \A i \in 1..Len(plan) : /\ plan[i] \in PlanStep
                                    /\ plan[i].deps \subseteq 1..(i - 1)
<1>1. PICK n \in 1..MaxSteps : plan \in [1..n -> PlanStep]
  BY MissionAssumption
<1>2. n \in Nat /\ plan \in Seq(PlanStep)
  BY <1>1, MissionAssumption
<1>3. Len(plan) = n
  BY <1>1, <1>2
<1>4. WellFormed(plan)
  BY MissionAssumption
<1> QED BY <1>1, <1>3, <1>4 DEF WellFormed

-----------------------------------------------------------------------------
(* Writing rows.                                                           *)

\* Rewriting a row that exists leaves the table well formed, with the same rows.
LEMMA RewriteRow ==
  ASSUME NEW table, StepsOK(table), NEW s \in RowsOf(table), NEW row,
         RowOK(s, row), row.status # "none"
  PROVE  /\ StepsOK([table EXCEPT ![s] = row])
         /\ RowsOf([table EXCEPT ![s] = row]) = RowsOf(table)
<1> DEFINE new == [table EXCEPT ![s] = row]
<1>1. new \in [Seq1 -> StepRow]
  BY DEF StepsOK, RowOK
<1>2. RowsOf(new) = RowsOf(table)
  BY DEF StepsOK, RowsOf
<1>3. \A t \in Seq1 : RowOK(t, new[t])
  BY DEF StepsOK
<1> QED BY <1>1, <1>2, <1>3 DEF StepsOK

\* The same for a row that only gets another status.
LEMMA RestatusRow ==
  ASSUME NEW table, StepsOK(table), NEW s \in RowsOf(table),
         NEW status \in {"pending", "running", "skipped"}
  PROVE  /\ StepsOK([table EXCEPT ![s].status = status])
         /\ RowsOf([table EXCEPT ![s].status = status]) = RowsOf(table)
<1> DEFINE row == [table[s] EXCEPT !.status = status]
<1>1. table[s] \in StepRow /\ s \in Seq1 /\ RowOK(s, table[s])
  BY DEF StepsOK, RowsOf
<1>2. RowOK(s, row) /\ row.status # "none"
  BY <1>1 DEF RowOK, StepRow
<1>3. [table EXCEPT ![s].status = status] = [table EXCEPT ![s] = row]
  BY <1>1 DEF StepsOK
<1> HIDE DEF row
<1> QED BY <1>2, <1>3, RewriteRow

\* A plan inserted after a row that exists, or first, leaves no gap.
LEMMA PlanIsAppended ==
  ASSUME NEW table, StepsOK(table), NEW plan \in Plans \cup Replans,
         NEW top \in 0..MaxSeq, 1..top \subseteq RowsOf(table),
         top + 1 .. top + Len(plan) \subseteq Seq1
  PROVE  /\ StepsOK(WithPlan(table, plan, top))
         /\ RowsOf(WithPlan(table, plan, top)) =
              RowsOf(table) \cup 1..(top + Len(plan))
<1> DEFINE n == Len(plan)
           new == WithPlan(table, plan, top)
<1>0. MaxSeq \in Nat /\ n \in Nat \ {0} /\ MaxSteps \in Nat
  BY PlanShape, MissionAssumption
<1>1. \A s \in Seq1 : s \in Nat /\ s > 0
  BY DEF Seq1
<1>2. \A s \in Seq1 : (s > top /\ s - top \in DOMAIN plan) <=> s \in top + 1 .. top + n
  BY <1>0, <1>1, PlanShape
<1>3. \A s \in Seq1 : s \notin top + 1 .. top + n => new[s] = table[s]
  BY <1>2 DEF WithPlan
<1>4. ASSUME NEW s \in top + 1 .. top + n
      PROVE  new[s].status = "pending" /\ RowOK(s, new[s])
  <2> DEFINE row == [status |-> "pending", call |-> 0, risky |-> plan[s - top].risky,
                     deps |-> {d + top : d \in plan[s - top].deps}]
  <2>1. s \in Seq1 /\ new[s] = row
    BY <1>2 DEF WithPlan
  <2>2. s - top \in 1..n
    BY <1>0
  <2>3. plan[s - top] \in PlanStep /\ plan[s - top].deps \subseteq 1..(s - top - 1)
    BY <2>2, PlanShape
  <2>4. \A d \in plan[s - top].deps : d + top \in 1..(s - 1) /\ d + top \in Seq1
    BY <1>0, <2>1, <2>3 DEF Seq1
  <2>5. row.deps \subseteq 1..(s - 1) /\ row.deps \subseteq Seq1
    BY <2>4
  <2>6. row \in StepRow
    BY <2>3, <2>5, MissionAssumption DEF StepRow, PlanStep
  <2> QED BY <2>1, <2>5, <2>6 DEF RowOK
<1>5. \A s \in Seq1 : RowOK(s, new[s])
  BY <1>3, <1>4 DEF StepsOK
<1>6. new \in [Seq1 -> StepRow]
  <2>1. new = [s \in Seq1 |-> new[s]]
    BY DEF WithPlan
  <2> HIDE DEF new
  <2> QED BY <1>5, <2>1 DEF RowOK
<1>7. RowsOf(new) = RowsOf(table) \cup (top + 1 .. top + n)
  <2> HIDE DEF new
  <2> QED BY <1>3, <1>4 DEF RowsOf
<1>8. RowsOf(new) = RowsOf(table) \cup 1..(top + n)
  <2>1. 1..(top + n) = 1..top \cup (top + 1 .. top + n)
    BY <1>0
  <2> QED BY <1>7, <2>1
<1>9. \E k \in 0..MaxSeq : RowsOf(new) = 1..k
  <2>1. PICK k \in 0..MaxSeq : RowsOf(table) = 1..k
    BY DEF StepsOK
  <2>2. top + n \in 0..MaxSeq
    BY <1>0 DEF Seq1
  <2>3. CASE k <= top + n
    BY <1>0, <1>8, <2>1, <2>2, <2>3
  <2>4. CASE k > top + n
    BY <1>0, <1>8, <2>1, <2>2, <2>4
  <2> QED BY <1>0, <2>1, <2>2, <2>3, <2>4
<1> QED BY <1>5, <1>6, <1>8, <1>9 DEF StepsOK

-----------------------------------------------------------------------------
(* Writing the memory of a run.                                            *)

LEMMA RowsAreNumbers == Rows \subseteq Seq1 /\ Rows = RowsOf(steps)
BY DEF Rows, RowsOf

LEMMA IdleRunOK == ASSUME NEW rows PROVE RunOK(IdleRun, rows)
<1>1. MaxSeq \in Nat /\ MaxCalls \in Nat
  BY MissionAssumption
<1>2. IdleRun.pc = "idle" /\ IdleRun.pend = {} /\ IdleRun.top = 0
  BY DEF IdleRun
<1>3. \A s \in Seq1 : IdleRun.out[s] = "none"
  BY DEF IdleRun
<1>4. IdleRun \in RunState
  BY <1>1 DEF IdleRun, RunState, Phase, Fate, Budget
<1>5. 1..IdleRun.top = {}
  BY <1>2
<1> QED BY <1>2, <1>3, <1>4, <1>5 DEF RunOK

\* More rows suit every run.
LEMMA MoreRows ==
  ASSUME NEW x, NEW rows, NEW more, rows \subseteq more, RunOK(x, rows)
  PROVE  RunOK(x, more)
BY DEF RunOK

LEMMA RunsUnchanged ==
  ASSUME RunsOK(Rows), UNCHANGED run, Rows \subseteq Rows'
  PROVE  RunsOK(Rows)'
BY MoreRows DEF RunsOK

LEMMA OneRunChanges ==
  ASSUME RunsOK(Rows), NEW r \in Run, NEW x, run' = [run EXCEPT ![r] = x],
         RunOK(x, Rows'), Rows \subseteq Rows'
  PROVE  RunsOK(Rows)'
<1>1. run' \in [Run -> RunState]
  BY DEF RunsOK, RunOK
<1>2. ASSUME NEW q \in Run PROVE RunOK(run'[q], Rows')
  <2>1. RunOK(run[q], Rows')
    BY MoreRows DEF RunsOK
  <2>2. run'[q] = IF q = r THEN x ELSE run[q]
    BY DEF RunsOK
  <2> QED BY <2>1, <2>2
<1> QED BY <1>1, <1>2 DEF RunsOK

LEMMA ReturnKeeps ==
  ASSUME RunsOK(Rows), NEW r \in Run, Return(r), Rows \subseteq Rows'
  PROVE  RunsOK(Rows)'
BY IdleRunOK, OneRunChanges DEF Return

LEMMA NoFate == IdleRun.out = [s \in Seq1 |-> "none"]
BY DEF IdleRun

LEMMA EndsKeeps ==
  ASSUME RunsOK(Rows), NEW r \in Run, run[r].pc # "idle", Rows # {}, Ends(r),
         Rows \subseteq Rows'
  PROVE  RunsOK(Rows)'
<1> DEFINE x == [run[r] EXCEPT !.pc = "ended", !.out = IdleRun.out]
<1>1. RunOK(run[r], Rows)
  BY DEF RunsOK
<1>2. RunOK(x, Rows)
  BY <1>1, NoFate DEF RunOK, RunState, Phase, Fate
<1>3. RunOK(x, Rows')
  BY <1>2, MoreRows
<1>4. run' = [run EXCEPT ![r] = x]
  BY DEF Ends
<1> HIDE DEF x
<1> QED BY <1>3, <1>4, OneRunChanges

\* The rows that a run sees, the first max_steps, are numbered without a gap.
LEMMA SeenRows ==
  ASSUME NEW table, StepsOK(table),
         NEW some, some = {s \in 1..MaxSteps : table[s].status # "none"}
  PROVE  Cardinality(some) \in 0..MaxSeq /\ some = 1..Cardinality(some)
<1>0. MaxSteps \in Nat /\ MaxSeq \in Nat /\ 1..MaxSteps \subseteq Seq1
  BY MissionAssumption DEF Seq1
<1>1. PICK k \in 0..MaxSeq : RowsOf(table) = 1..k
  BY DEF StepsOK
<1>2. some = (1..k) \cap (1..MaxSteps)
  BY <1>0, <1>1 DEF RowsOf
<1>3. PICK m \in 0..MaxSeq : some = 1..m
  <2>1. CASE k <= MaxSteps
    <3>1. some = 1..k
      BY <1>0, <1>1, <1>2, <2>1
    <3> QED BY <3>1
  <2>2. CASE k > MaxSteps
    <3>1. some = 1..MaxSteps
      BY <1>0, <1>1, <1>2, <2>2
    <3>2. MaxSteps \in 0..MaxSeq
      BY MissionAssumption
    <3> QED BY <3>1, <3>2
  <2> QED BY <1>0, <2>1, <2>2
<1>4. Cardinality(1..m) = m
  BY <1>0, FS_Interval
<1> QED BY <1>3, <1>4

\* The plan that Begin takes up is there.
LEMMA BeginKeeps ==
  ASSUME RunsOK(Rows), NEW r \in Run, run[r].pc # "idle",
         StepsOK(steps'), Rows \subseteq Rows', Rows' # {}, Begin(r, steps')
  PROVE  RunsOK(Rows)'
<1> DEFINE some == {s \in 1..MaxSteps : steps'[s].status # "none"}
           pend == Unfinished(steps')
           good == {s \in 1..MaxSteps : steps'[s].status = "done"}
           deps == [s \in Seq1 |-> steps'[s].deps]
           top == Cardinality(some)
           x == [run[r] EXCEPT !.pc = IF pend = {} THEN "final" ELSE "check",
                               !.pend = pend, !.base = pend, !.good = good,
                               !.deps = deps, !.top = top]
<1>0. MaxSteps \in Nat /\ MaxSeq \in Nat /\ 1..MaxSteps \subseteq Seq1
  BY MissionAssumption DEF Seq1
<1>1. RunOK(run[r], Rows')
  BY MoreRows DEF RunsOK
<1>2. Rows' = RowsOf(steps')
  BY DEF Rows, RowsOf
<1>3. pend \subseteq Rows' /\ pend \subseteq Seq1
  BY <1>0, <1>2 DEF Unfinished, RowsOf
<1>4. top \in 0..MaxSeq /\ 1..top \subseteq Rows'
  <2>1. top \in 0..MaxSeq /\ some = 1..top
    <3> HIDE DEF some
    <3> QED BY SeenRows DEF some
  <2> QED BY <1>0, <1>2, <2>1 DEF RowsOf
<1>5. deps \in [Seq1 -> SUBSET Seq1] /\ good \subseteq Seq1
  BY <1>0 DEF StepsOK, StepRow
<1>6. RunOK(x, Rows')
  <2> HIDE DEF pend, good, deps, top
  <2> QED BY <1>1, <1>3, <1>4, <1>5 DEF RunOK, RunState, Phase
<1>7. run' = [run EXCEPT ![r] = x]
  BY DEF Begin
<1> HIDE DEF x
<1> QED BY <1>6, <1>7, OneRunChanges

-----------------------------------------------------------------------------
(* Every action keeps the invariant.                                       *)

\* What leaves the table and the runs alone.
LEMMA TablesUnchanged ==
  ASSUME Inv, UNCHANGED <<steps, run>>
  PROVE  StepsOK(steps)' /\ RunsOK(Rows)'
<1>1. Rows' = Rows /\ StepsOK(steps')
  BY DEF Rows, Inv
<1> QED BY <1>1, RunsUnchanged DEF Inv

LEMMA CreationKeeps ==
  ASSUME Inv, CreateEnqueue \/ CreateCommit
  PROVE  Inv'
<1>1. UNCHANGED <<steps, run>>
  BY DEF CreateEnqueue, CreateCommit
<1>2. StepsOK(steps)' /\ RunsOK(Rows)'
  BY <1>1, TablesUnchanged
<1>3. MissionOK' /\ RequestsOK' /\ CountersOK'
  BY DEF Inv, CreateEnqueue, CreateCommit, MissionOK, RequestsOK, CountersOK,
         Status, Missing, Pausable, history, counters
<1>4. queue' \subseteq Job
  <2>1. [kind |-> "new", seq |-> 0, id |-> 0] \in Job
    BY MissionAssumption DEF Job, Kinds
  <2> QED BY <2>1 DEF Inv, CreateEnqueue, CreateCommit
<1> QED BY <1>2, <1>3, <1>4 DEF Inv

LEMMA CheckKeeps ==
  ASSUME Inv, NEW c \in Client, NEW op \in Ops, Check(c, op)
  PROVE  Inv'
<1>1. StepsOK(steps)' /\ RunsOK(Rows)' /\ MissionOK' /\ queue' \subseteq Job /\ CountersOK'
  <2>1. UNCHANGED <<mission, steps, queue, run, history, counters>>
    BY DEF Check
  <2> QED BY <2>1, TablesUnchanged DEF Inv, MissionOK, CountersOK, history, counters
<1>2. RequestsOK'
  <2> DEFINE seq == IF op = "approve" THEN FirstWaiting ELSE 0
             call == IF op = "approve" THEN steps[seq].call ELSE 0
             q == [op |-> op, id |-> ops + 1, budget |-> mission.budget, seq |-> seq,
                   call |-> call]
  <2>1. op \in AllOps /\ ops + 1 \in 0..MaxOps /\ mission.budget \in Budget
    BY MissionAssumption DEF Check, Inv, RequestsOK, MissionOK
  <2>2. seq \in 0..MaxSeq /\ call \in 0..MaxCalls
        /\ (op = "approve" => seq # 0 /\ call # 0)
    <3>1. CASE op = "approve"
      <4>1. FirstWaiting \in Waiting
        BY <3>1, FirstWaitingWaits DEF Check, Allowed
      <4>2. RowOK(FirstWaiting, steps[FirstWaiting])
        BY <4>1 DEF Inv, StepsOK, Waiting
      <4> QED BY <3>1, <4>1, <4>2, MissionAssumption DEF RowOK, StepRow, Waiting, Seq1
    <3>2. CASE op # "approve"
      BY <3>2, MissionAssumption
    <3> QED BY <3>1, <3>2
  <2>3. q \in Request
    <3> HIDE DEF seq, call
    <3> QED BY <2>1, <2>2 DEF Request
  <2>4. req' = [req EXCEPT ![c] = q] /\ ops' = ops + 1
    BY DEF Check
  <2> HIDE DEF q
  <2> QED BY <2>1, <2>3, <2>4 DEF Inv, RequestsOK
<1> QED BY <1>1, <1>2 DEF Inv

LEMMA WriteKeeps ==
  ASSUME Inv, NEW c \in Client, Write(c)
  PROVE  Inv'
<1>1. RequestsOK'
  <2>1. req' = [req EXCEPT ![c] = None] /\ ops' = ops
    BY DEF Write, Approve, Reject, Cancel, Pause, Resume, Steer, Refused, Answered
  <2> QED BY <2>1 DEF Inv, RequestsOK
<1>2. req[c] # None => req[c] \in Request
  BY DEF Inv, RequestsOK
<1>3. MissionOK'
  <2>1. CASE Steer(c)
    <3> DEFINE n == req[c].budget.notes + 1
    <3>1. req[c].budget \in Budget
      BY <1>2, <2>1 DEF Steer, Asks, Request
    <3>2. n \in Nat
      BY <3>1 DEF Budget
    <3>3. mission' = [mission EXCEPT !.budget = [req[c].budget EXCEPT !.notes = n]]
      BY <2>1 DEF Steer
    <3> HIDE DEF n
    <3> QED BY <3>1, <3>2, <3>3 DEF Inv, MissionOK, Budget
  <2>2. CASE Refused(c)
    BY <2>2 DEF Refused, Inv, MissionOK
  <2>3. CASE Approve(c) \/ Reject(c) \/ Cancel(c) \/ Pause(c) \/ Resume(c)
    <3>1. \E to \in Status : mission' = [mission EXCEPT !.status = to]
      BY <2>3 DEF Approve, Reject, Cancel, Pause, Resume, Claims, Moves, Status,
                  Terminal, Pausable
    <3> QED BY <3>1 DEF Inv, MissionOK
  <2> QED BY <2>1, <2>2, <2>3 DEF Write
<1>4. queue' \subseteq Job
  <2>1. CASE Approve(c)
    <3>1. [kind |-> "approved", seq |-> req[c].seq, id |-> req[c].id] \in Job
      BY <1>2, <2>1 DEF Approve, Asks, Request, Job, Kinds
    <3> QED BY <2>1, <3>1 DEF Approve, Inv
  <2>2. CASE Resume(c)
    <3>1. [kind |-> "resume", seq |-> 0, id |-> req[c].id] \in Job
      BY <1>2, <2>2, MissionAssumption DEF Resume, Asks, Request, Job, Kinds
    <3> QED BY <2>2, <3>1 DEF Resume, Inv
  <2>3. CASE Reject(c) \/ Cancel(c) \/ Pause(c) \/ Steer(c) \/ Refused(c)
    BY <2>3 DEF Reject, Cancel, Pause, Steer, Refused, Inv
  <2> QED BY <2>1, <2>2, <2>3 DEF Write
<1>5. CountersOK'
  <2>1. CASE Approve(c)
    <3>1. req[c].call \in 1..MaxCalls
      BY <1>2, <2>1, MissionAssumption DEF Approve, Asks, Request
    <3> QED BY <2>1, <3>1 DEF Approve, Inv, CountersOK, counters
  <2>2. CASE ~Approve(c)
    BY <2>2 DEF Write, Reject, Cancel, Pause, Resume, Steer, Refused, Inv, CountersOK,
                history, counters
  <2> QED BY <2>1, <2>2
<1>6. StepsOK(steps)' /\ RunsOK(Rows)'
  <2>1. CASE Reject(c)
    <3>1. \A s \in Seq1 : /\ RowOK(s, steps[s]) => RowOK(s, steps'[s])
                          /\ steps'[s].status = "none" <=> steps[s].status = "none"
      <4> SUFFICES ASSUME NEW s \in Seq1
                   PROVE  /\ RowOK(s, steps[s]) => RowOK(s, steps'[s])
                          /\ steps'[s].status = "none" <=> steps[s].status = "none"
        OBVIOUS
      <4>1. steps[s] \in StepRow
        BY DEF Inv, StepsOK
      <4>2. CASE s \in Waiting
        <5>1. steps'[s] = [steps[s] EXCEPT !.status = "skipped"]
          BY <2>1, <4>2 DEF Reject
        <5> QED BY <4>1, <4>2, <5>1 DEF Waiting, RowOK, StepRow
      <4>3. CASE s \notin Waiting
        BY <2>1, <4>3 DEF Reject
      <4> QED BY <4>2, <4>3
    <3>2. steps' = [s \in Seq1 |-> steps'[s]]
      BY <2>1 DEF Reject
    <3>3. RowsOf(steps') = RowsOf(steps)
      BY <3>1 DEF RowsOf
    <3>4. StepsOK(steps')
      BY <3>1, <3>2, <3>3 DEF Inv, StepsOK, RowOK
    <3>5. Rows \subseteq Rows' /\ UNCHANGED run
      BY <2>1, <3>1 DEF Rows, Reject
    <3> QED BY <3>4, <3>5, RunsUnchanged DEF Inv
  <2>2. CASE ~Reject(c)
    <3>1. UNCHANGED <<steps, run>>
      BY <2>2 DEF Write, Approve, Cancel, Pause, Resume, Steer, Refused
    <3> QED BY <3>1, TablesUnchanged
  <2> QED BY <2>1, <2>2
<1> QED BY <1>1, <1>3, <1>4, <1>5, <1>6 DEF Inv

\* The job is taken and, unless it is ignored, loaded into a run.
LEMMA TakeKeeps ==
  ASSUME Inv, NEW r \in Run, NEW m \in queue, Take(r, m)
  PROVE  Inv'
<1>1. m \in Job
  BY DEF Inv
<1>2. UNCHANGED <<mission, steps, req, ops, history, counters>> /\ queue' \subseteq queue
  BY DEF Take
<1>3. Rows' = Rows /\ StepsOK(steps')
  BY <1>2 DEF Rows, Inv
<1>4. RunsOK(Rows)'
  <2>1. CASE Ignored(m)
    BY <1>3, <2>1, RunsUnchanged DEF Take, Inv
  <2>2. CASE ~Ignored(m)
    <3> DEFINE call == IF m.kind = "approved" THEN steps[m.seq].call ELSE 0
               x == [IdleRun EXCEPT !.pc = "loaded", !.job = m,
                                    !.budget = mission.budget, !.call = call]
    <3>1. run' = [run EXCEPT ![r] = x]
      BY <2>2 DEF Take
    <3>2. call \in 0..MaxCalls
      <4>1. CASE m.kind = "approved"
        <5>1. m.seq \in Seq1
          BY <1>1, <4>1, MissionAssumption DEF Job, Seq1
        <5> QED BY <4>1, <5>1 DEF Inv, StepsOK, StepRow
      <4>2. CASE m.kind # "approved"
        BY <4>2, MissionAssumption
      <4> QED BY <4>1, <4>2
    <3>3. mission.budget \in Budget
      BY DEF Inv, MissionOK
    <3>4. RunOK(IdleRun, Rows) /\ IdleRun.pc = "idle"
      BY IdleRunOK DEF IdleRun
    <3>5. RunOK(x, Rows)
      <4> HIDE DEF call
      <4> QED BY <1>1, <3>2, <3>3, <3>4 DEF RunOK, RunState, Phase
    <3> HIDE DEF x
    <3> QED BY <1>3, <3>1, <3>5, OneRunChanges DEF Inv
  <2> QED BY <2>1, <2>2
<1> QED BY <1>2, <1>3, <1>4 DEF Inv, MissionOK, RequestsOK, CountersOK, history, counters

LEMMA ReadStepsKeeps ==
  ASSUME Inv, NEW r \in Run, ReadSteps(r)
  PROVE  Inv'
<1> DEFINE fresh == (Rows = {})
           x == [run[r] EXCEPT !.pc = "read", !.fresh = fresh]
<1>1. UNCHANGED <<mission, steps, queue, req, ops, history, counters>>
      /\ run' = [run EXCEPT ![r] = x]
  BY DEF ReadSteps
<1>2. Rows' = Rows /\ StepsOK(steps')
  BY <1>1 DEF Rows, Inv
<1>3. RunOK(x, Rows)
  <2>1. RunOK(run[r], Rows) /\ run[r].pc = "loaded"
    BY DEF Inv, RunsOK, ReadSteps
  <2>2. fresh \in BOOLEAN
    OBVIOUS
  <2> HIDE DEF fresh
  <2> QED BY <2>1, <2>2 DEF RunOK, RunState, Phase
<1>4. RunsOK(Rows)'
  <2> HIDE DEF x
  <2> QED BY <1>1, <1>2, <1>3, OneRunChanges DEF Inv
<1> QED BY <1>1, <1>2, <1>4 DEF Inv, MissionOK, RequestsOK, CountersOK, history, counters

\* The first session commits a plan, a claim, or nothing.
LEMMA CommitKeeps ==
  ASSUME Inv, NEW r \in Run, CommitPlan(r) \/ CommitApproved(r) \/ CommitResumption(r)
  PROVE  Inv'
<1>1. queue' \subseteq Job /\ RequestsOK' /\ CountersOK'
  BY DEF CommitPlan, CommitApproved, CommitResumption, Inv, RequestsOK, CountersOK,
         history, counters
<1>2. MissionOK'
  <2>1. mission' = mission \/ Moves("running")
    BY DEF CommitPlan, CommitApproved, CommitResumption
  <2> QED BY <2>1 DEF Moves, Inv, MissionOK, Status, Pausable
<1>3. run[r].pc # "idle"
  BY DEF CommitPlan, CommitApproved, CommitResumption
<1>4. /\ StepsOK(steps') /\ Rows \subseteq Rows'
      /\ Return(r) \/ (Begin(r, steps') /\ Rows' # {})
  <2>1. CASE UNCHANGED steps
    <3>1. StepsOK(steps') /\ Rows' = Rows
      BY <2>1 DEF Inv, Rows
    <3>2. CASE CommitPlan(r)
      <4>1. CASE mission.status = "planning"
        <5>1. PICK plan \in Plans : steps' = WithPlan(steps, plan, 0)
          BY <3>2, <4>1 DEF CommitPlan
        <5>2. 1 \in DOMAIN plan /\ 1 \in Seq1 /\ Len(plan) \in Nat
          BY PlanShape, MissionAssumption DEF Seq1
        <5>3. steps'[1].status = "pending"
          BY <5>1, <5>2 DEF WithPlan
        <5>4. 1 \in Rows'
          BY <5>2, <5>3 DEF Rows
        <5> QED BY <3>1, <3>2, <4>1, <5>4 DEF CommitPlan
      <4>2. CASE mission.status # "planning"
        BY <3>1, <3>2, <4>2 DEF CommitPlan
      <4> QED BY <4>1, <4>2
    <3>3. CASE CommitApproved(r)
      <4> DEFINE s == run[r].job.seq
      <4>1. CASE steps[s].status = "waiting_confirmation"
        <5>1. s \in Seq1
          <6>1. run[r].job \in Job /\ run[r].job.kind = "approved"
            BY <1>3, <3>3 DEF CommitApproved, Inv, RunsOK, RunOK
          <6> QED BY <6>1, MissionAssumption DEF Job, Seq1
        <5>2. s \in Rows
          BY <4>1, <5>1 DEF Rows
        <5> QED BY <3>1, <3>3, <4>1, <5>2 DEF CommitApproved
      <4>2. CASE steps[s].status # "waiting_confirmation"
        BY <3>1, <3>3, <4>2 DEF CommitApproved
      <4> QED BY <4>1, <4>2
    <3>4. CASE CommitResumption(r)
      BY <2>1, <3>1, <3>4 DEF CommitResumption
    <3> QED BY <3>2, <3>3, <3>4
  <2>2. CASE CommitPlan(r) /\ steps' # steps
    <3>1. PICK plan \in Plans : steps' = WithPlan(steps, plan, 0)
      BY <2>2 DEF CommitPlan
    <3>2. Begin(r, steps')
      BY <2>2 DEF CommitPlan
    <3>3. Len(plan) \in 1..MaxSteps /\ MaxSteps \in Nat /\ MaxSeq \in Nat /\ MaxSteps <= MaxSeq
      BY PlanShape, MissionAssumption
    <3>4. 0 \in 0..MaxSeq /\ 1..0 \subseteq RowsOf(steps)
          /\ 0 + 1 .. 0 + Len(plan) \subseteq Seq1
      BY <3>3 DEF Seq1
    <3>5. StepsOK(steps') /\ RowsOf(steps') = RowsOf(steps) \cup 1..(0 + Len(plan))
      BY <3>1, <3>4, PlanIsAppended DEF Inv
    <3>6. Rows \subseteq Rows' /\ 1 \in Rows'
      BY <3>3, <3>5 DEF Rows, RowsOf
    <3> QED BY <3>2, <3>5, <3>6
  <2>3. CASE CommitApproved(r) /\ steps' # steps
    <3> DEFINE s == run[r].job.seq
    <3>1. /\ steps[s].status = "waiting_confirmation"
          /\ steps' = [steps EXCEPT ![s].status = "pending"]
          /\ Begin(r, steps')
      BY <2>3 DEF CommitApproved
    <3>2. s \in RowsOf(steps)
      <4>1. run[r].job \in Job /\ run[r].job.kind = "approved"
        BY <1>3, <2>3 DEF CommitApproved, Inv, RunsOK, RunOK
      <4> QED BY <3>1, <4>1, MissionAssumption DEF Job, Seq1, RowsOf
    <3>3. StepsOK(steps') /\ RowsOf(steps') = RowsOf(steps)
      BY <3>1, <3>2, RestatusRow DEF Inv
    <3> QED BY <3>1, <3>2, <3>3 DEF Rows, RowsOf
  <2> QED BY <2>1, <2>2, <2>3 DEF CommitResumption
<1>5. RunsOK(Rows)'
  BY <1>3, <1>4, ReturnKeeps, BeginKeeps DEF Inv
<1> QED BY <1>1, <1>2, <1>4, <1>5 DEF Inv

LEMMA CheckStopKeeps ==
  ASSUME Inv, NEW r \in Run, CheckStop(r)
  PROVE  Inv'
<1>1. UNCHANGED <<mission, steps, queue, req, ops, history, counters>>
  BY DEF CheckStop
<1>2. Rows' = Rows /\ StepsOK(steps')
  BY <1>1 DEF Rows, Inv
<1>3. RunOK(run[r], Rows) /\ run[r].pc = "check"
  BY DEF Inv, RunsOK, CheckStop
<1>4. RunsOK(Rows)'
  <2>1. CASE mission.status \in Stopped
    <3> DEFINE x == [run[r] EXCEPT !.pc = "stop"]
    <3>1. RunOK(x, Rows)
      BY <1>3 DEF RunOK, RunState, Phase
    <3>2. run' = [run EXCEPT ![r] = x]
      BY <2>1 DEF CheckStop
    <3> HIDE DEF x
    <3> QED BY <1>2, <3>1, <3>2, OneRunChanges DEF Inv
  <2>2. CASE mission.status \notin Stopped
    <3> DEFINE wave == NextWave(run[r].deps, [s \in Seq1 |-> steps[s].risky],
                                run[r].base, run[r].pend)
               out == [s \in Seq1 |-> IF s \in wave THEN "todo" ELSE "none"]
               x == [run[r] EXCEPT !.pc = "wave", !.out = out]
    <3>1. wave \subseteq run[r].pend
      BY DEF NextWave
    <3>2. run' = [run EXCEPT ![r] = x]
      BY <2>2 DEF CheckStop
    <3>3. out \in [Seq1 -> Fate] /\ \A s \in Seq1 : out[s] # "none" => s \in Rows
      <4> HIDE DEF wave
      <4> QED BY <1>3, <3>1 DEF RunOK, Fate
    <3>4. RunOK(x, Rows)
      <4> HIDE DEF out
      <4> QED BY <1>3, <3>3 DEF RunOK, RunState, Phase
    <3> HIDE DEF x
    <3> QED BY <1>2, <3>2, <3>4, OneRunChanges DEF Inv
  <2> QED BY <2>1, <2>2
<1> QED BY <1>1, <1>2, <1>4 DEF Inv, MissionOK, RequestsOK, CountersOK, history, counters

\* A step is given up: the row is there, and the run forgets it.
LEMMA SkipKeeps ==
  ASSUME Inv, NEW r \in Run, SkipStopped(r) \/ SkipReplaced(r)
  PROVE  Inv'
<1> DEFINE s == First(run[r].pend)
           last == IF run[r].pc = "stop" THEN "ended" ELSE "insert"
           next == IF Cardinality(run[r].pend) = 1 THEN last ELSE run[r].pc
           x == [run[r] EXCEPT !.pend = @ \ {s}, !.pc = next]
<1>1. run[r].pc \in {"stop", "skip"} /\ RunOK(run[r], Rows)
  BY DEF SkipStopped, SkipReplaced, Inv, RunsOK
<1>2. /\ steps' = [steps EXCEPT ![s].status = "skipped"]
      /\ run' = [run EXCEPT ![r] = x]
      /\ UNCHANGED <<mission, queue, req, ops, history, counters>>
  <2>1. CASE SkipStopped(r)
    BY <2>1 DEF SkipStopped, SkipFirst
  <2>2. CASE SkipReplaced(r)
    BY <2>2 DEF SkipReplaced, SkipFirst
  <2> QED BY <2>1, <2>2
<1>3. s \in run[r].pend
  BY <1>1, FirstIsMember DEF RunOK, RunState
<1>4. StepsOK(steps') /\ Rows' = Rows
  <2>1. s \in RowsOf(steps)
    BY <1>1, <1>3 DEF RunOK, Rows, RowsOf
  <2> HIDE DEF s
  <2>2. StepsOK(steps') /\ RowsOf(steps') = RowsOf(steps)
    BY <1>2, <2>1, RestatusRow DEF Inv
  <2> QED BY <2>2 DEF Rows, RowsOf
<1>5. next \in {run[r].pc, last} /\ (next = run[r].pc => run[r].pend \ {s} # {})
  <2>1. CASE Cardinality(run[r].pend) = 1
    BY <1>1, <2>1
  <2>2. CASE Cardinality(run[r].pend) # 1
    <3>1. run[r].pend # {s}
      BY <2>2, FS_Singleton
    <3> QED BY <1>3, <2>2, <3>1
  <2> QED BY <2>1, <2>2
<1>6. RunOK(x, Rows)
  <2> HIDE DEF next, s
  <2> QED BY <1>1, <1>5 DEF RunOK, RunState, Phase
<1>7. RunsOK(Rows)'
  <2> HIDE DEF x
  <2> QED BY <1>2, <1>4, <1>6, OneRunChanges DEF Inv
<1> QED BY <1>2, <1>4, <1>7 DEF Inv, MissionOK, RequestsOK, CountersOK, history, counters

\* The steps of a wave write their own rows.
LEMMA StepKeeps ==
  ASSUME Inv, NEW r \in Run, NEW s \in Seq1, StepAction(r, s)
  PROVE  Inv'
<1>1. RunOK(run[r], Rows) /\ run[r].out[s] # "none"
  BY DEF Inv, RunsOK, StepAction, StepStarts, ToolRuns, StepDone, StepErrors, StepWaits
<1>2. s \in RowsOf(steps) /\ RowOK(s, steps[s])
  BY <1>1 DEF RunOK, Rows, RowsOf, Inv, StepsOK
<1>3. UNCHANGED <<mission, queue, req, ops, consented, replanned, counters>>
  BY DEF StepAction, StepStarts, ToolRuns, StepDone, StepErrors, StepWaits, history
<1>4. CountersOK'
  <2>1. CASE StepWaits(r, s)
    <3>1. calls' \in 0..MaxCalls /\ UNCHANGED <<consented, ran, replanned, counters>>
      BY <2>1, MissionAssumption DEF StepWaits, Inv, CountersOK
    <3> QED BY <3>1 DEF Inv, CountersOK, counters
  <2>2. CASE ToolRuns(r, s)
    <3>1. UNCHANGED <<calls, consented, replanned, counters>>
      BY <2>2 DEF ToolRuns
    <3>2. ran' \in [1..MaxCalls -> Nat]
      <4> DEFINE k == run[r].call
      <4>1. ran \in [1..MaxCalls -> Nat] /\ ran' = [ran EXCEPT ![k] = ran[k] + 1]
        BY <2>2 DEF ToolRuns, Inv, CountersOK
      <4> HIDE DEF k
      <4>2. CASE k \in 1..MaxCalls
        BY <4>1, <4>2
      <4>3. CASE k \notin 1..MaxCalls
        BY <4>1, <4>3
      <4> QED BY <4>2, <4>3
    <3> QED BY <3>1, <3>2 DEF Inv, CountersOK, counters
  <2>3. CASE StepStarts(r, s) \/ StepDone(r, s) \/ StepErrors(r, s)
    BY <2>3 DEF StepStarts, StepDone, StepErrors, Inv, CountersOK, history, counters
  <2> QED BY <2>1, <2>2, <2>3 DEF StepAction
<1>5. StepsOK(steps') /\ Rows' = Rows
  <2>1. CASE StepStarts(r, s)
    <3>1. steps' = [steps EXCEPT ![s].status = "running"]
      BY <2>1 DEF StepStarts
    <3>2. StepsOK(steps') /\ RowsOf(steps') = RowsOf(steps)
      BY <1>2, <3>1, RestatusRow DEF Inv
    <3> QED BY <3>2 DEF Rows, RowsOf
  <2>2. CASE ToolRuns(r, s)
    <3>1. steps' = steps
      BY <2>2 DEF ToolRuns
    <3> QED BY <3>1 DEF Inv, Rows
  <2>3. CASE StepDone(r, s) \/ StepErrors(r, s) \/ StepWaits(r, s)
    <3>1. PICK status \in {"done", "error", "waiting_confirmation"}, call \in 0..MaxCalls :
             /\ Saved(s, status, call)
             /\ status = "waiting_confirmation" => call # 0
      <4>1. 0 \in 0..MaxCalls /\ calls \in Nat
        BY MissionAssumption DEF Inv, CountersOK
      <4>2. CASE StepDone(r, s)
        BY <4>1, <4>2 DEF StepDone
      <4>3. CASE StepErrors(r, s)
        BY <4>1, <4>3 DEF StepErrors
      <4>4. CASE StepWaits(r, s)
        <5>1. calls + 1 \in 0..MaxCalls /\ calls + 1 # 0
              /\ Saved(s, "waiting_confirmation", calls + 1)
          BY <4>1, <4>4, MissionAssumption DEF StepWaits
        <5> QED BY <5>1
      <4> QED BY <2>3, <4>2, <4>3, <4>4
    <3> DEFINE row == [steps[s] EXCEPT !.status = status, !.call = call, !.deps = 1..(s - 1)]
    <3>2. steps' = [steps EXCEPT ![s] = row]
      BY <3>1 DEF Saved
    <3>3. 1..(s - 1) \subseteq Seq1
      BY MissionAssumption DEF Seq1
    <3>4. RowOK(s, row) /\ row.status # "none"
      BY <1>2, <3>1, <3>3 DEF RowOK, StepRow
    <3> HIDE DEF row
    <3>5. StepsOK(steps') /\ RowsOf(steps') = RowsOf(steps)
      BY <1>2, <3>2, <3>4, RewriteRow DEF Inv
    <3> QED BY <3>5 DEF Rows, RowsOf
  <2> QED BY <2>1, <2>2, <2>3 DEF StepAction
<1>6. RunsOK(Rows)'
  <2>1. PICK fate \in Fate : run' = [run EXCEPT ![r].out[s] = fate]
    BY DEF StepAction, StepStarts, ToolRuns, StepDone, StepErrors, StepWaits, Fate
  <2> DEFINE x == [run[r] EXCEPT !.out[s] = fate]
  <2>2. run' = [run EXCEPT ![r] = x]
    BY <2>1
  <2>3. s \in Rows
    BY <1>2, RowsAreNumbers
  <2>4. RunOK(x, Rows)
    BY <1>1, <2>3 DEF RunOK, RunState
  <2> HIDE DEF x
  <2> QED BY <1>5, <2>2, <2>4, OneRunChanges DEF Inv
<1> QED BY <1>3, <1>4, <1>5, <1>6 DEF Inv, MissionOK, RequestsOK

LEMMA AfterWave ==
  ASSUME Inv, NEW r \in Run, Gathered(r)
  PROVE  /\ RunOK(run[r], Rows) /\ run[r].pc = "wave" /\ Rows # {}
         /\ Remaining(r) \subseteq run[r].pend /\ Good(r) \subseteq Seq1
BY DEF Inv, RunsOK, RunOK, RunState, Gathered, Remaining, Good, With

LEMMA WaveDoneKeeps ==
  ASSUME Inv, NEW r \in Run, WaveDone(r)
  PROVE  Inv'
<1> DEFINE left == Remaining(r)
           good == Good(r)
           out == IdleRun.out
           x == [run[r] EXCEPT !.pc = IF left = {} THEN "final" ELSE "check",
                               !.pend = left, !.good = good, !.out = out]
<1>1. /\ UNCHANGED <<mission, steps, queue, req, ops, history, counters>>
      /\ run' = [run EXCEPT ![r] = x]
      /\ Gathered(r)
  BY DEF WaveDone
<1>2. Rows' = Rows /\ StepsOK(steps')
  BY <1>1 DEF Rows, Inv
<1>3. RunOK(x, Rows)
  <2>1. out \in [Seq1 -> Fate] /\ \A s \in Seq1 : out[s] = "none"
    BY NoFate DEF Fate
  <2>2. RunOK(run[r], Rows) /\ Rows # {} /\ left \subseteq run[r].pend /\ good \subseteq Seq1
        /\ run[r].pc = "wave"
    BY <1>1, AfterWave
  <2> HIDE DEF left, good, out
  <2> QED BY <2>1, <2>2 DEF RunOK, RunState, Phase
<1>4. RunsOK(Rows)'
  <2> HIDE DEF x
  <2> QED BY <1>1, <1>2, <1>3, OneRunChanges DEF Inv
<1> QED BY <1>1, <1>2, <1>4 DEF Inv, MissionOK, RequestsOK, CountersOK, history, counters

\* Another plan is adopted: it is kept by the run until what it replaces is
\* skipped, and its steps are then inserted after the last row.
LEMMA AdoptKeeps ==
  ASSUME Inv, NEW r \in Run, NEW plan \in Replans, AdoptPlan(r, plan)
  PROVE  Inv'
<1> DEFINE left == Remaining(r)
           good == Good(r)
           out == IdleRun.out
           n == run[r].budget.replans + 1
           x == [run[r] EXCEPT !.pc = IF left = {} THEN "insert" ELSE "skip",
                               !.pend = left, !.good = good, !.out = out,
                               !.budget.replans = n, !.next = plan]
<1>0. run' = [run EXCEPT ![r] = x]
  BY DEF AdoptPlan, Adopts
<1>1. /\ UNCHANGED <<steps, queue, req, ops, calls, consented, ran, counters>>
      /\ run' = [run EXCEPT ![r] = x]
      /\ replanned' = replanned + 1
      /\ Gathered(r)
  <2> HIDE DEF x
  <2> QED BY <1>0 DEF AdoptPlan, Adopts
<1>2. Rows' = Rows /\ StepsOK(steps')
  BY <1>1 DEF Rows, Inv
<1>3. RunOK(x, Rows)
  <2>1. out \in [Seq1 -> Fate] /\ \A s \in Seq1 : out[s] = "none"
    BY NoFate DEF Fate
  <2>2. RunOK(run[r], Rows) /\ Rows # {} /\ left \subseteq run[r].pend /\ good \subseteq Seq1
        /\ run[r].pc = "wave"
    BY <1>1, AfterWave
  <2>3. n \in Nat /\ run[r].budget \in Budget
    BY <2>2 DEF RunOK, RunState, Budget
  <2> HIDE DEF left, good, out, n
  <2> QED BY <2>1, <2>2, <2>3 DEF RunOK, RunState, Phase, Budget
<1>4. RunsOK(Rows)'
  <2> HIDE DEF x
  <2> QED BY <1>1, <1>2, <1>3, OneRunChanges DEF Inv
<1>5. MissionOK'
  <2>1. run'[r].budget \in Budget
    BY <1>4 DEF RunsOK, RunOK, RunState
  <2>2. mission' = mission \/ mission' = [mission EXCEPT !.budget = run'[r].budget]
    BY DEF AdoptPlan
  <2> QED BY <2>1, <2>2 DEF Inv, MissionOK
<1> QED BY <1>1, <1>2, <1>4, <1>5 DEF Inv, RequestsOK, CountersOK, counters

LEMMA InsertKeeps ==
  ASSUME Inv, NEW r \in Run, InsertSteps(r)
  PROVE  Inv'
<1> DEFINE plan == run[r].next
           n == Len(plan)
           new == run[r].top + 1 .. run[r].top + n
           deps == [s \in Seq1 |-> IF s \in new THEN steps'[s].deps ELSE run[r].deps[s]]
           top == run[r].top + n
           x == [run[r] EXCEPT !.pc = "check", !.pend = new, !.base = new,
                               !.deps = deps, !.top = top, !.next = <<>>]
<1>0. run' = [run EXCEPT ![r] = x]
  BY DEF InsertSteps
<1>1. /\ UNCHANGED <<mission, queue, req, ops, history, counters>>
      /\ run' = [run EXCEPT ![r] = x]
      /\ steps' = WithPlan(steps, plan, run[r].top)
      /\ run[r].pc = "insert"
      /\ new \subseteq Seq1
  <2> HIDE DEF x
  <2> QED BY <1>0 DEF InsertSteps
<1>2. /\ RunOK(run[r], Rows) /\ plan \in Replans
      /\ run[r].top \in 0..MaxSeq /\ 1..run[r].top \subseteq Rows
  BY <1>1 DEF Inv, RunsOK, RunOK, RunState
<1>3. n \in Nat \ {0} /\ MaxSeq \in Nat /\ MaxSteps \in Nat
  BY <1>2, PlanShape, MissionAssumption
<1>4. StepsOK(steps') /\ RowsOf(steps') = RowsOf(steps) \cup 1..top
  BY <1>1, <1>2, PlanIsAppended, RowsAreNumbers DEF Inv
<1>5. Rows \subseteq Rows' /\ 1..top \subseteq Rows' /\ new \subseteq Rows'
  <2>1. new \subseteq 1..top
    BY <1>2, <1>3
  <2> QED BY <1>4, <2>1 DEF Rows, RowsOf
<1>6. top \in 0..MaxSeq /\ new # {}
  <2>1. top \in new
    BY <1>2, <1>3
  <2> QED BY <1>1, <2>1 DEF Seq1
<1>7. deps \in [Seq1 -> SUBSET Seq1]
  BY <1>2, <1>4 DEF RunOK, RunState, StepsOK, StepRow
<1>8. RunOK(x, Rows')
  <2>1. RunOK(run[r], Rows')
    BY <1>2, <1>5, MoreRows
  <2>2. Rows' # {}
    BY <1>5, <1>6
  <2>3. new \subseteq Seq1 /\ run[r] \in RunState
    BY <1>1, <1>2 DEF RunOK
  <2> HIDE DEF plan, n, new, deps, top
  <2>4. x \in RunState
    BY <1>6, <1>7, <2>3 DEF RunState, Phase
  <2>5. /\ x.pc = "check" /\ x.pend = new /\ x.top = top
        /\ x.out = run[r].out /\ x.job = run[r].job
    BY <2>3 DEF RunState
  <2>6. run[r].job \in Job
    BY <1>1, <1>2 DEF RunOK
  <2> HIDE DEF x
  <2> QED BY <1>5, <1>6, <2>1, <2>2, <2>4, <2>5, <2>6 DEF RunOK
<1>9. RunsOK(Rows)'
  <2> HIDE DEF x
  <2> QED BY <1>1, <1>5, <1>8, OneRunChanges DEF Inv
<1> QED BY <1>1, <1>4, <1>9 DEF Inv, MissionOK, RequestsOK, CountersOK, history, counters

LEMMA FinalCheckKeeps ==
  ASSUME Inv, NEW r \in Run, FinalCheck(r)
  PROVE  Inv'
<1>1. PICK pc \in {"ended", "synth"} : run' = [run EXCEPT ![r].pc = pc]
  BY DEF FinalCheck
<1> DEFINE x == [run[r] EXCEPT !.pc = pc]
<1>2. /\ UNCHANGED <<mission, steps, queue, req, ops, history, counters>>
      /\ run' = [run EXCEPT ![r] = x]
      /\ run[r].pc = "final"
  BY <1>1 DEF FinalCheck
<1>3. Rows' = Rows /\ StepsOK(steps')
  BY <1>2 DEF Rows, Inv
<1>4. RunOK(x, Rows)
  <2>1. RunOK(run[r], Rows) /\ run[r].pc = "final"
    BY <1>2 DEF Inv, RunsOK
  <2> QED BY <2>1 DEF RunOK, RunState, Phase
<1>5. RunsOK(Rows)'
  <2> HIDE DEF x
  <2> QED BY <1>2, <1>3, <1>4, OneRunChanges DEF Inv
<1> QED BY <1>2, <1>3, <1>5 DEF Inv, MissionOK, RequestsOK, CountersOK, history, counters

LEMMA SaveMissionType ==
  ASSUME MissionOK, NEW status \in Status, SaveMission(status)
  PROVE  MissionOK'
BY DEF MissionOK, SaveMission

\* Orchestrator.run ends, with a last guarded write or by an exception.
LEMMA EndingKeeps ==
  ASSUME Inv, NEW r \in Run,
         MissionWaits(r) \/ MissionFails(r) \/ SaveDone(r) \/ Breaks(r)
  PROVE  Inv'
<1>1. /\ UNCHANGED <<steps, queue, req, ops, history, repeats>>
      /\ faults' \in {faults, faults + 1}
      /\ Ends(r)
  BY DEF MissionWaits, MissionFails, SaveDone, Breaks, Fault, counters
<1>2. Rows' = Rows /\ StepsOK(steps')
  BY <1>1 DEF Rows, Inv
<1>3. run[r].pc \notin {"idle", "loaded", "read"}
  BY DEF MissionWaits, MissionFails, SaveDone, Breaks, Gathered
<1>4. Rows # {}
  BY <1>3 DEF Inv, RunsOK, RunOK
<1>5. RunsOK(Rows)'
  BY <1>1, <1>2, <1>3, <1>4, EndsKeeps DEF Inv
<1>6. MissionOK'
  <2>1. \E status \in Status : SaveMission(status)
    BY DEF MissionWaits, MissionFails, SaveDone, Breaks, Status, Pausable, Terminal
  <2> QED BY <2>1, SaveMissionType DEF Inv
<1> QED BY <1>1, <1>2, <1>5, <1>6 DEF Inv, RequestsOK, CountersOK, history

\* A run is over: it returned, was interrupted or has no attempts left.
LEMMA OverKeeps ==
  ASSUME Inv, NEW r \in Run, RunReturns(r) \/ Interrupted(r) \/ GivesUp(r)
  PROVE  Inv'
<1>1. /\ UNCHANGED <<steps, req, ops, history, repeats>>
      /\ faults' \in {faults, faults + 1}
      /\ Return(r)
  BY DEF RunReturns, Interrupted, GivesUp, Fault, counters
<1>2. Rows' = Rows /\ StepsOK(steps')
  BY <1>1 DEF Rows, Inv
<1>3. RunsOK(Rows)'
  BY <1>1, <1>2, ReturnKeeps DEF Inv
<1>4. queue' \subseteq Job
  <2>1. run[r].pc # "idle" => run[r].job \in Job
    BY DEF Inv, RunsOK, RunOK
  <2> QED BY <2>1 DEF RunReturns, Interrupted, GivesUp, Inv
<1>5. MissionOK'
  BY DEF RunReturns, Interrupted, GivesUp, Inv, MissionOK, Status, Terminal
<1> QED BY <1>1, <1>2, <1>3, <1>4, <1>5 DEF Inv, RequestsOK, CountersOK, history

LEMMA RedeliveredKeeps ==
  ASSUME Inv, NEW r \in Run, Redelivered(r)
  PROVE  Inv'
<1>1. UNCHANGED <<mission, steps, req, ops, run, history, faults>>
      /\ repeats' = repeats + 1
  BY DEF Redelivered
<1>2. StepsOK(steps)' /\ RunsOK(Rows)'
  BY <1>1, TablesUnchanged
<1>3. queue' \subseteq Job
  BY DEF Redelivered, Inv, RunsOK, RunOK
<1> QED BY <1>1, <1>2, <1>3 DEF Inv, MissionOK, RequestsOK, CountersOK, history

LEMMA StutterKeeps ==
  ASSUME Inv, UNCHANGED vars
  PROVE  Inv'
<1>1. UNCHANGED <<steps, run>>
  BY DEF vars
<1>2. StepsOK(steps)' /\ RunsOK(Rows)'
  BY <1>1, TablesUnchanged
<1> QED BY <1>2 DEF Inv, vars, MissionOK, RequestsOK, CountersOK, history, counters

LEMMA StepKeepsInv == Inv /\ [Next]_vars => Inv'
<1> SUFFICES ASSUME Inv, [Next]_vars PROVE Inv'
  OBVIOUS
<1>1. CASE CreateEnqueue \/ CreateCommit
  BY <1>1, CreationKeeps
<1>2. CASE \E c \in Client : Write(c) \/ \E op \in Ops : Check(c, op)
  BY <1>2, WriteKeeps, CheckKeeps
<1>3. ASSUME NEW r \in Run, RunStep(r) PROVE Inv'
  <2>1. CASE \E m \in queue : Take(r, m)
    BY <2>1, TakeKeeps
  <2>2. CASE ReadSteps(r)
    BY <2>2, ReadStepsKeeps
  <2>3. CASE CommitPlan(r) \/ CommitApproved(r) \/ CommitResumption(r)
    BY <2>3, CommitKeeps
  <2>4. CASE CheckStop(r)
    BY <2>4, CheckStopKeeps
  <2>5. CASE SkipStopped(r) \/ SkipReplaced(r)
    BY <2>5, SkipKeeps
  <2>6. CASE \E s \in Seq1 : StepAction(r, s)
    BY <2>6, StepKeeps
  <2>7. CASE WaveDone(r)
    BY <2>7, WaveDoneKeeps
  <2>8. CASE MissionWaits(r) \/ MissionFails(r) \/ SaveDone(r)
    BY <2>8, EndingKeeps
  <2>9. CASE \E plan \in Replans : AdoptPlan(r, plan)
    BY <2>9, AdoptKeeps
  <2>10. CASE InsertSteps(r)
    BY <2>10, InsertKeeps
  <2>11. CASE FinalCheck(r)
    BY <2>11, FinalCheckKeeps
  <2>12. CASE RunReturns(r)
    BY <2>12, OverKeeps
  <2> QED BY <1>3, <2>1, <2>2, <2>3, <2>4, <2>5, <2>6, <2>7, <2>8, <2>9, <2>10, <2>11, <2>12
          DEF RunStep
<1>4. ASSUME NEW r \in Run, Interrupted(r) \/ GivesUp(r) \/ Breaks(r) \/ Redelivered(r)
      PROVE  Inv'
  BY <1>4, OverKeeps, EndingKeeps, RedeliveredKeeps
<1>5. CASE UNCHANGED vars
  BY <1>5, StutterKeeps
<1> QED BY <1>1, <1>2, <1>3, <1>4, <1>5 DEF Next

LEMMA InitInv == Init => Inv
<1> SUFFICES ASSUME Init PROVE Inv
  OBVIOUS
<1>1. MaxSeq \in Nat /\ MaxCalls \in Nat /\ MaxOps \in Nat
  BY MissionAssumption
<1>2. MissionOK /\ queue \subseteq Job /\ RequestsOK /\ CountersOK
  BY <1>1 DEF Init, MissionOK, RequestsOK, CountersOK, Status, Missing, Budget
<1>3. \A s \in Seq1 : steps[s] = NoRow
  BY DEF Init
<1>4. NoRow \in StepRow /\ NoRow.deps = {} /\ NoRow.status = "none"
  BY <1>1 DEF NoRow, StepRow
<1>5. Rows = {} /\ RowsOf(steps) = 1..0 /\ 0 \in 0..MaxSeq
  BY <1>1, <1>3, <1>4 DEF Rows, RowsOf
<1>6. StepsOK(steps)
  BY <1>3, <1>4, <1>5 DEF Init, StepsOK, RowOK
<1>7. RunsOK(Rows)
  <2>1. run \in [Run -> RunState]
    BY IdleRunOK DEF Init, RunOK
  <2>2. \A r \in Run : run[r] = IdleRun
    BY DEF Init
  <2> QED BY <2>1, <2>2, IdleRunOK DEF RunsOK
<1> QED BY <1>2, <1>6, <1>7 DEF Inv

LEMMA Invariance == Spec => []Inv
BY InitInv, StepKeepsInv, PTL DEF Spec

\* The invariant says what the type invariant says of the rows.
LEMMA InvTypes == Inv => TypeOK
<1> SUFFICES ASSUME Inv PROVE TypeOK
  OBVIOUS
<1>1. mission \in [status : Missing \cup Terminal \cup Pausable \cup {"paused"},
                   budget : Budget]
  BY DEF Inv, MissionOK, Status
<1>2. \A s \in Rows : steps[s].deps \subseteq 1..(s - 1) /\ 1..s \subseteq Rows
  <2>1. PICK k \in 0..MaxSeq : Rows = 1..k
    BY RowsAreNumbers DEF Inv, StepsOK
  <2>2. \A s \in Rows : 1..s \subseteq Rows
    BY <2>1, MissionAssumption
  <2> QED BY <2>2, RowsAreNumbers DEF Inv, StepsOK, RowOK
<1>3. run \in [Run -> RunState] /\ \A r \in Run : run[r].pend \subseteq Rows
  BY DEF Inv, RunsOK, RunOK
<1>4. steps \in [Seq1 -> StepRow]
  BY DEF Inv, StepsOK
<1> QED BY <1>1, <1>2, <1>3, <1>4 DEF TypeOK, Inv, RequestsOK, CountersOK

-----------------------------------------------------------------------------
(* Theorems.                                                               *)

\* Through requests, duplicate deliveries, crashes and replans, the steps of a
\* mission stay numbered without a gap and depend on earlier ones, and what a
\* run keeps in memory names steps that have a row.
THEOREM TypeCorrect == Spec => []TypeOK
BY Invariance, InvTypes, PTL

\* The writes that a run makes after its first commit go through save_mission,
\* which never overrides what the owner, or an ending, has left in the row.
THEOREM LateWritesAreGuarded == Spec => LateWritesGuarded
<1>1. Inv /\ [Next]_vars =>
        [\A r \in Run : InOrchestrator(r) /\ run'[r] # run[r] /\ mission.status \in Guarding
            => mission'.status = mission.status]_vars
  <2> SUFFICES ASSUME Inv, Next, NEW r \in Run,
                      InOrchestrator(r), run'[r] # run[r], mission.status \in Guarding
               PROVE  mission'.status = mission.status
    OBVIOUS
  <2>0. run \in [Run -> RunState] /\ IdleRun.pc = "idle"
    BY DEF Inv, RunsOK, IdleRun
  <2>1. CASE UNCHANGED mission \/ UNCHANGED run
    BY <2>1
  <2>2. ASSUME NEW c \in Client, Write(c) PROVE UNCHANGED run
    BY <2>2 DEF Write, Approve, Reject, Cancel, Pause, Resume, Steer, Refused
  <2>3. ASSUME NEW q \in Run, CommitPlan(q) \/ CommitApproved(q) \/ CommitResumption(q)
        PROVE  mission'.status = mission.status
    <3>1. run[q].pc \in {"loaded", "read"}
      BY <2>3 DEF CommitPlan, CommitApproved, CommitResumption
    <3>2. \E x : run' = [run EXCEPT ![q] = x]
      BY <2>3 DEF CommitPlan, CommitApproved, CommitResumption, Return, Begin
    <3>3. q = r
      BY <2>0, <3>2
    <3> QED BY <3>1, <3>3 DEF InOrchestrator
  <2>4. ASSUME NEW q \in Run, MissionWaits(q) \/ MissionFails(q) \/ SaveDone(q) \/ Breaks(q)
        PROVE  UNCHANGED mission
    BY <2>4 DEF MissionWaits, MissionFails, SaveDone, Breaks, SaveMission
  <2>5. ASSUME NEW q \in Run, NEW plan \in Replans, AdoptPlan(q, plan)
        PROVE  UNCHANGED mission
    BY <2>5 DEF AdoptPlan
  <2>6. ASSUME NEW q \in Run, GivesUp(q) PROVE mission'.status = mission.status
    <3>1. run' = [run EXCEPT ![q] = IdleRun]
      BY <2>6 DEF GivesUp, Return
    <3> QED BY <2>0, <3>1 DEF InOrchestrator
  <2>7. ASSUME NEW q \in Run, RunStep(q) PROVE mission'.status = mission.status
    BY <2>3, <2>4, <2>5, <2>7
       DEF RunStep, Take, ReadSteps, CheckStop, SkipStopped, SkipReplaced, SkipFirst,
           StepAction, StepStarts, ToolRuns, StepDone, StepErrors, StepWaits, WaveDone,
           InsertSteps, FinalCheck, RunReturns
  <2> QED BY <2>1, <2>2, <2>4, <2>6, <2>7
          DEF Next, CreateEnqueue, CreateCommit, Check, Interrupted, Redelivered
<1> QED BY <1>1, Invariance, PTL DEF Spec, LateWritesGuarded

\* A run that is past its first session has rows to work on.
LEMMA OrchestratorHasRows ==
  ASSUME Inv, NEW r \in Run, run[r].pc \notin {"idle", "loaded", "read"}
  PROVE  Rows # {}
BY DEF Inv, RunsOK, RunOK

\* The claim of the first session holds against a cancellation that its read
\* of the mission missed: what was cancelled before it was planned gets no plan.
THEOREM CancelledIsNotPlanned == Spec => CancelledBeforePlan
<1>1. Inv /\ [Next]_vars => [mission.status = "cancelled" /\ Rows = {} => Rows' = {}]_vars
  <2> SUFFICES ASSUME Inv, Next, mission.status = "cancelled", Rows = {}
               PROVE  Rows' = {}
    OBVIOUS
  <2>1. UNCHANGED steps => Rows' = {}
    BY DEF Rows
  <2>2. ASSUME NEW c \in Client, Write(c) PROVE UNCHANGED steps
    BY <2>2 DEF Write, Approve, Reject, Claims, Cancel, Pause, Resume, Steer, Refused
  <2>3. ASSUME NEW r \in Run, CommitApproved(r) PROVE UNCHANGED steps
    <3> DEFINE s == run[r].job.seq
    <3>1. s \in Seq1
      <4>1. run[r].job \in Job /\ run[r].job.kind = "approved"
        BY <2>3 DEF CommitApproved, Inv, RunsOK, RunOK
      <4> QED BY <4>1, MissionAssumption DEF Job, Seq1
    <3>2. steps[s].status # "waiting_confirmation"
      BY <3>1 DEF Rows
    <3> QED BY <2>3, <3>2 DEF CommitApproved
  <2>4. ASSUME NEW r \in Run, CommitPlan(r) \/ CommitResumption(r) PROVE UNCHANGED steps
    BY <2>4 DEF CommitPlan, CommitResumption
  <2>5. ASSUME NEW r \in Run, NEW s \in Seq1 PROVE ~StepAction(r, s)
    <3>1. run[r].out[s] = "none"
      BY DEF Inv, RunsOK, RunOK
    <3> QED BY <3>1 DEF StepAction, StepStarts, ToolRuns, StepDone, StepErrors, StepWaits
  <2>6. ASSUME NEW r \in Run, SkipStopped(r) \/ SkipReplaced(r) \/ InsertSteps(r)
        PROVE  FALSE
    <3>1. run[r].pc \notin {"idle", "loaded", "read"}
      BY <2>6 DEF SkipStopped, SkipReplaced, InsertSteps
    <3> QED BY <3>1, OrchestratorHasRows
  <2>7. ASSUME NEW r \in Run, RunStep(r) PROVE UNCHANGED steps
    BY <2>3, <2>4, <2>5, <2>6, <2>7
       DEF RunStep, Take, ReadSteps, CheckStop, WaveDone, MissionWaits, MissionFails,
           AdoptPlan, Adopts, FinalCheck, SaveDone, RunReturns
  <2> QED BY <2>1, <2>2, <2>7
          DEF Next, CreateEnqueue, CreateCommit, Check, Interrupted, GivesUp, Breaks,
              Redelivered
<1> QED BY <1>1, Invariance, PTL DEF Spec, CancelledBeforePlan
=============================================================================
