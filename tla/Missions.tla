------------------------------- MODULE Missions -------------------------------
(***************************************************************************)
(* One mission: the requests of its owner (edecan_api/routers/missions.py),*)
(* the run_mission job (edecan_worker/handlers/run_mission.py) and the     *)
(* orchestrator that executes the plan in waves and may replan once        *)
(* (edecan_agents/orchestrator.py).                                        *)
(*                                                                         *)
(* The tables are shared; each statement that commits on its own is one    *)
(* action.  The first session of the job holds its row locks until it      *)
(* commits, so what it writes is one action too (Commit), after the reads  *)
(* it made without a lock (Take, ReadSteps).  A request checks the mission *)
(* in one statement and writes in another.                                 *)
(*                                                                         *)
(* The queue is the one of JobQueue and its outbox: a job is delivered at  *)
(* least once, again after a crash or a timeout of its run, and the        *)
(* mission of a job that used up its attempts is closed.  Left out: the    *)
(* text of plans and results, the cost budget (off by default), archiving  *)
(* and notices.  agent_steps has no unique key on seq; every update names  *)
(* a step by seq, so rows that share one are a single row here.            *)
(*                                                                         *)
(* An operator commented "(fault)" is the code with one mistake in it; it  *)
(* is no part of Next and shows which property the mistake would break.    *)
(***************************************************************************)
EXTENDS Naturals, FiniteSets, Sequences, Waves

CONSTANTS
    Client,       \* concurrent requests of the owner (devices, double clicks)
    Run,          \* concurrent executions of run_mission
    None,         \* no request, no job
    Ops,          \* the requests made in this instance
    Plans,        \* the plans the planner may return
    Replans,      \* the replacement plans it may return
    MaxSteps,     \* MISSIONS_MAX_STEPS
    ParallelMax,  \* MISSIONS_PARALLEL_MAX
    MaxReplans,   \* MAX_REPLANS_PER_MISSION
    MaxSeq,       \* bound of the model on step numbers
    MaxOps,       \* bound of the model on requests
    MaxCalls,     \* bound of the model on confirmations asked
    MaxFaults,    \* bound of the model on crashes, timeouts and errors
    Repeatable,   \* kinds of job that may be delivered twice at once
    MaxRepeats    \* bound of the model on those deliveries

AllOps == {"approve", "reject", "cancel", "pause", "resume", "steer"}
Kinds == {"new", "approved", "resume"}
Seq1 == 1..MaxSeq

PlanStep == [deps : SUBSET Seq1, risky : BOOLEAN]
\* What _resolver_depende_de returns: dependencies on earlier steps only.
WellFormed(plan) == \A i \in DOMAIN plan : plan[i].deps \subseteq 1..(i - 1)

ASSUME MissionAssumption ==
    /\ Ops \subseteq AllOps
    /\ Repeatable \subseteq Kinds
    /\ None \notin Run \cup Client
    /\ {MaxSteps, ParallelMax, MaxReplans, MaxSeq,
        MaxOps, MaxCalls, MaxFaults, MaxRepeats} \subseteq Nat
    /\ ParallelMax > 0
    /\ MaxSteps <= MaxSeq
    /\ \A plan \in Plans \cup Replans :
          plan \in UNION {[1..n -> PlanStep] : n \in 1..MaxSteps} /\ WellFormed(plan)

VARIABLES
    mission,    \* the agent_missions row: status, presupuesto (budget)
    steps,      \* its agent_steps rows, by seq
    queue,      \* run_mission jobs waiting for a worker
    req,        \* per client, a request whose check passed, not yet written
    ops,        \* requests so far
    run,        \* per execution, the state of handle() and of run()
    calls,      \* tool calls that asked for confirmation so far, numbered
    consented,  \* those an accepted approval had found waiting
    ran,        \* per call, how many times its tool was run by a resumed step
    replanned,  \* replacement plans adopted so far
    faults,     \* crashes, timeouts and errors so far
    repeats     \* duplicate deliveries so far

history == <<calls, consented, ran, replanned>>
counters == <<faults, repeats>>
vars == <<mission, steps, queue, req, ops, run, history, counters>>

Terminal == {"done", "error", "cancelled"}
Stopped == {"cancelled", "paused"}             \* _RUN_STOP_STATUSES
Guarding == {"done", "error", "cancelled", "paused"}  \* _GUARD_STATUSES
Pausable == {"planning", "running", "waiting_confirmation"}
\* "none" is before the request, "inserted" before its transaction commits.
Missing == {"none", "inserted"}

Budget == [replans : Nat, notes : Nat]
StepRow == [status : {"none", "pending", "running", "waiting_confirmation",
                      "done", "error", "skipped"},
            deps : SUBSET Seq1, risky : BOOLEAN, call : 0..MaxCalls]
Job == {m \in [kind : Kinds, seq : 0..MaxSeq, id : 0..MaxOps] :
           m.kind = "approved" <=> m.seq # 0}
NoRow == [status |-> "none", deps |-> {}, risky |-> FALSE, call |-> 0]
Rows == {s \in Seq1 : steps[s].status # "none"}

Phase == {"idle", "loaded", "read", "check", "stop", "wave", "replan",
          "skip", "insert", "final", "synth", "ended"}
Fate == {"none", "todo", "running", "ran", "done", "waiting", "error"}
IdleRun == [pc |-> "idle", job |-> None, budget |-> [replans |-> 0, notes |-> 0],
            call |-> 0, fresh |-> FALSE, pend |-> {}, base |-> {}, good |-> {},
            deps |-> [s \in Seq1 |-> {}], top |-> 0, out |-> [s \in Seq1 |-> "none"],
            next |-> <<>>]

Init ==
    /\ mission = [status |-> "none", budget |-> [replans |-> 0, notes |-> 0]]
    /\ steps = [s \in Seq1 |-> NoRow]
    /\ queue = {}
    /\ req = [c \in Client |-> None]
    /\ ops = 0
    /\ run = [r \in Run |-> IdleRun]
    /\ calls = 0
    /\ consented = {}
    /\ ran = [k \in 1..MaxCalls |-> 0]
    /\ replanned = 0
    /\ faults = 0
    /\ repeats = 0

-----------------------------------------------------------------------------
(* create_mission: enqueue commits the job on its own connection, before   *)
(* the transaction that inserts the mission commits.                       *)

CreateEnqueue ==
    /\ mission.status = "none"
    /\ mission' = [mission EXCEPT !.status = "inserted"]
    /\ queue' = queue \cup {[kind |-> "new", seq |-> 0, id |-> 0]}
    /\ UNCHANGED <<steps, req, ops, run, history, counters>>

CreateCommit ==
    /\ mission.status = "inserted"
    /\ mission' = [mission EXCEPT !.status = "planning"]
    /\ UNCHANGED <<steps, queue, req, ops, run, history, counters>>

-----------------------------------------------------------------------------
(* The other requests: a check, then a write.                              *)

Waiting == {s \in Seq1 : steps[s].status = "waiting_confirmation"}
\* _find_waiting_step_seq
FirstWaiting == CHOOSE s \in Waiting : \A t \in Waiting : s <= t

Allowed(op) ==
    CASE op = "approve" -> mission.status = "waiting_confirmation" /\ Waiting # {}
      [] op = "reject"  -> mission.status = "waiting_confirmation"
      [] op = "pause"   -> mission.status \in Pausable
      [] op = "resume"  -> mission.status = "paused"
      [] OTHER          -> mission.status \notin Terminal

Check(c, op) ==
    /\ req[c] = None
    /\ ops < MaxOps
    /\ mission.status \notin Missing
    /\ Allowed(op)
    /\ ops' = ops + 1
    /\ LET seq == IF op = "approve" THEN FirstWaiting ELSE 0
       IN  req' = [req EXCEPT ![c] =
                      [op |-> op, id |-> ops + 1, budget |-> mission.budget, seq |-> seq,
                       call |-> IF op = "approve" THEN steps[seq].call ELSE 0]]
    /\ UNCHANGED <<mission, steps, queue, run, history, counters>>

Asks(c, op) == req[c] # None /\ req[c].op = op
Answered(c) == req' = [req EXCEPT ![c] = None]

\* _update_mission_status with expected_status, and without it.
Claims(from, to) == /\ mission.status = from
                    /\ mission' = [mission EXCEPT !.status = to]
Moves(to) == mission' = [mission EXCEPT !.status = to]

\* (fault) the job is forgotten.
ApproveSilent(c) ==
    /\ Asks(c, "approve")
    /\ Claims("waiting_confirmation", "running")
    /\ consented' = consented \cup {req[c].call}
    /\ Answered(c)
    /\ UNCHANGED <<steps, queue, ops, run, calls, ran, replanned, counters>>

\* confirm_mission, approved: the claim and the outbox row are one transaction.
Approve(c) ==
    /\ Asks(c, "approve")
    /\ Claims("waiting_confirmation", "running")
    /\ queue' = queue \cup {[kind |-> "approved", seq |-> req[c].seq, id |-> req[c].id]}
    /\ consented' = consented \cup {req[c].call}
    /\ Answered(c)
    /\ UNCHANGED <<steps, ops, run, calls, ran, replanned, counters>>

\* confirm_mission, not approved.
Reject(c) ==
    /\ Asks(c, "reject")
    /\ Claims("waiting_confirmation", "cancelled")
    /\ steps' = [s \in Seq1 |-> IF s \in Waiting THEN [steps[s] EXCEPT !.status = "skipped"]
                                                ELSE steps[s]]
    /\ Answered(c)
    /\ UNCHANGED <<queue, ops, run, history, counters>>

Cancel(c) ==
    /\ Asks(c, "cancel")
    /\ Moves("cancelled")
    /\ Answered(c)
    /\ UNCHANGED <<steps, queue, ops, run, history, counters>>

Pause(c) ==
    /\ Asks(c, "pause")
    /\ Moves("paused")
    /\ Answered(c)
    /\ UNCHANGED <<steps, queue, ops, run, history, counters>>

Resume(c) ==
    /\ Asks(c, "resume")
    /\ Claims("paused", "running")
    /\ queue' = queue \cup {[kind |-> "resume", seq |-> 0, id |-> req[c].id]}
    /\ Answered(c)
    /\ UNCHANGED <<steps, ops, run, history, counters>>

\* The claim of approve, reject or resume fails: 409, or nothing to do.
Refused(c) ==
    /\ \/ /\ Asks(c, "approve") \/ Asks(c, "reject")
          /\ mission.status # "waiting_confirmation"
       \/ /\ Asks(c, "resume")
          /\ mission.status # "paused"
    /\ Answered(c)
    /\ UNCHANGED <<mission, steps, queue, ops, run, history, counters>>

\* steer_mission writes back the whole presupuesto it read.
Steer(c) ==
    /\ Asks(c, "steer")
    /\ mission' = [mission EXCEPT !.budget = [req[c].budget EXCEPT !.notes = @ + 1]]
    /\ Answered(c)
    /\ UNCHANGED <<steps, queue, ops, run, history, counters>>

Write(c) ==
    \/ Approve(c) \/ Reject(c) \/ Cancel(c) \/ Pause(c) \/ Resume(c) \/ Steer(c)
    \/ Refused(c)

-----------------------------------------------------------------------------
(* handle(): the first session of the job.                                 *)

\* The early returns on what was read; the job is then done.
Ignored(m) ==
    \/ mission.status \in Missing \cup Terminal
    \/ mission.status = "paused" /\ m.kind # "resume"
    \/ mission.status # "paused" /\ m.kind = "resume"
    \/ m.kind = "approved" /\ steps[m.seq].status # "waiting_confirmation"

Take(r, m) ==
    /\ run[r].pc = "idle"
    /\ m \in queue
    /\ queue' = queue \ {m}
    /\ run' = IF Ignored(m) THEN run
              ELSE [run EXCEPT ![r] = [IdleRun EXCEPT
                       !.pc = "loaded", !.job = m, !.budget = mission.budget,
                       !.call = IF m.kind = "approved" THEN steps[m.seq].call ELSE 0]]
    /\ UNCHANGED <<mission, steps, req, ops, history, counters>>

ReadSteps(r) ==
    /\ run[r].pc = "loaded"
    /\ run[r].job.kind = "new"
    /\ run' = [run EXCEPT ![r].pc = "read", ![r].fresh = (Rows = {})]
    /\ UNCHANGED <<mission, steps, queue, req, ops, history, counters>>

\* (fault) finished steps are executed again.
UnfinishedAll(table) == {s \in 1..MaxSteps : table[s].status \notin {"none", "skipped"}}

\* Orchestrator.run: the steps it will execute, among the first max_steps.
Unfinished(table) ==
    {s \in 1..MaxSteps : table[s].status \in {"pending", "running", "waiting_confirmation"}}

\* handle() ends its session and calls Orchestrator.run on the plan it read.
Begin(r, table) ==
    LET pend == Unfinished(table)
    IN  run' = [run EXCEPT ![r] = [@ EXCEPT
                   !.pc = IF pend = {} THEN "final" ELSE "check",
                   !.pend = pend,
                   !.base = pend,
                   !.good = {s \in 1..MaxSteps : table[s].status = "done"},
                   !.deps = [s \in Seq1 |-> table[s].deps],
                   !.top = Cardinality({s \in 1..MaxSteps : table[s].status # "none"})]]

Return(r) == run' = [run EXCEPT ![r] = IdleRun]

\* _insert_steps, after the row number top.
WithPlan(table, plan, top) ==
    [s \in Seq1 |-> IF s > top /\ s - top \in DOMAIN plan
                    THEN [status |-> "pending", call |-> 0, risky |-> plan[s - top].risky,
                          deps |-> {d + top : d \in plan[s - top].deps}]
                    ELSE table[s]]

\* (fault) the step is reset without a claim.
CommitApprovedBlind(r) ==
    LET s == run[r].job.seq
    IN  /\ run[r].pc = "loaded"
        /\ run[r].job.kind = "approved"
        /\ steps' = [steps EXCEPT ![s].status = "pending"]
        /\ Moves("running")
        /\ Begin(r, steps')
        /\ UNCHANGED <<queue, req, ops, history, counters>>

\* _claim_step; the mission is then updated without a guard.
CommitApproved(r) ==
    LET s == run[r].job.seq
    IN  /\ run[r].pc = "loaded"
        /\ run[r].job.kind = "approved"
        /\ IF steps[s].status = "waiting_confirmation"
           THEN /\ steps' = [steps EXCEPT ![s].status = "pending"]
                /\ Moves("running")
                /\ Begin(r, steps')
           ELSE UNCHANGED <<mission, steps>> /\ Return(r)
        /\ UNCHANGED <<queue, req, ops, history, counters>>

\* (fault) the new mission is planned without a claim.
CommitPlanBlind(r) ==
    /\ run[r].pc = "read"
    /\ run[r].fresh
    /\ \E plan \in Plans : steps' = WithPlan(steps, plan, 0)
    /\ Moves("running")
    /\ Begin(r, steps')
    /\ UNCHANGED <<queue, req, ops, history, counters>>

\* _claim_mission, plan, _insert_steps.
CommitPlan(r) ==
    /\ run[r].pc = "read"
    /\ run[r].fresh
    /\ IF mission.status = "planning"
       THEN /\ \E plan \in Plans : steps' = WithPlan(steps, plan, 0)
            /\ Moves("running")
            /\ Begin(r, steps')
       ELSE UNCHANGED <<mission, steps>> /\ Return(r)
    /\ UNCHANGED <<queue, req, ops, history, counters>>

\* Implicit resumption: the plan that exists is taken up, without a guard.
CommitResumption(r) ==
    /\ \/ run[r].pc = "read" /\ ~run[r].fresh
       \/ run[r].pc = "loaded" /\ run[r].job.kind = "resume"
    /\ Moves("running")
    /\ IF Rows = {} THEN Return(r) ELSE Begin(r, steps)
    /\ UNCHANGED <<steps, queue, req, ops, history, counters>>

-----------------------------------------------------------------------------
(* Orchestrator.run, wave by wave.                                         *)

\* (fault) a late write of the run overrides the owner's.
SaveMissionBlind(status) == mission' = [mission EXCEPT !.status = status]

\* save_mission: never over a status this run does not control.
SaveMission(status) ==
    mission' = IF mission.status \in Guarding THEN mission
               ELSE [mission EXCEPT !.status = status]

First(S) == CHOOSE s \in S : \A t \in S : s <= t

\* cancellation_requested, before each wave.
CheckStop(r) ==
    /\ run[r].pc = "check"
    /\ run' = IF mission.status \in Stopped
              THEN [run EXCEPT ![r].pc = "stop"]
              ELSE LET wave == NextWave(run[r].deps, [s \in Seq1 |-> steps[s].risky],
                                        run[r].base, run[r].pend)
                   IN  [run EXCEPT ![r].pc = "wave",
                           ![r].out = [s \in Seq1 |-> IF s \in wave THEN "todo" ELSE "none"]]
    /\ UNCHANGED <<mission, steps, queue, req, ops, history, counters>>

\* (fault) the step is forgotten and its row is left as it was.
SkipFirstUnsaved(r, next) ==
    LET s == First(run[r].pend)
    IN  /\ run' = [run EXCEPT ![r].pend = @ \ {s}, ![r].pc = next]
        /\ UNCHANGED <<mission, steps, queue, req, ops, history, counters>>

SkipFirst(r, next) ==
    LET s == First(run[r].pend)
    IN  /\ steps' = [steps EXCEPT ![s].status = "skipped"]
        /\ run' = [run EXCEPT ![r].pend = @ \ {s}, ![r].pc = next]
        /\ UNCHANGED <<mission, queue, req, ops, history, counters>>

\* Cancelled or paused: what was not launched is skipped, one commit per step.
SkipStopped(r) ==
    /\ run[r].pc = "stop"
    /\ SkipFirst(r, IF Cardinality(run[r].pend) = 1 THEN "ended" ELSE "stop")

Resumed(r, s) == run[r].job.kind = "approved" /\ run[r].job.seq = s

StepStarts(r, s) ==
    /\ run[r].out[s] = "todo"
    /\ Cardinality({t \in Seq1 : run[r].out[t] \in {"running", "ran"}}) < ParallelMax
    /\ steps' = [steps EXCEPT ![s].status = "running"]
    /\ run' = [run EXCEPT ![r].out[s] = "running"]
    /\ UNCHANGED <<mission, queue, req, ops, history, counters>>

\* _run_resumed_step calls the approved tool itself.
ToolRuns(r, s) ==
    /\ run[r].out[s] = "running"
    /\ Resumed(r, s)
    /\ ran' = [ran EXCEPT ![run[r].call] = @ + 1]
    /\ run' = [run EXCEPT ![r].out[s] = "ran"]
    /\ UNCHANGED <<mission, steps, queue, req, ops, calls, consented, replanned, counters>>

\* A save with usage drops the depende_de kept there: the step is then taken
\* to depend on every earlier one.
Saved(s, status, call) ==
    steps' = [steps EXCEPT ![s] = [@ EXCEPT !.status = status, !.call = call,
                                            !.deps = 1..(s - 1)]]

StepDone(r, s) ==
    /\ \/ run[r].out[s] = "running" /\ ~Resumed(r, s)
       \/ run[r].out[s] = "ran"
    /\ Saved(s, "done", 0)
    /\ run' = [run EXCEPT ![r].out[s] = "done"]
    /\ UNCHANGED <<mission, queue, req, ops, history, counters>>

\* An error of the agent, a timeout, an unknown tool, an exception.
StepErrors(r, s) ==
    /\ run[r].out[s] \in {"running", "ran"}
    /\ Saved(s, "error", 0)
    /\ run' = [run EXCEPT ![r].out[s] = "error"]
    /\ UNCHANGED <<mission, queue, req, ops, history, counters>>

\* (fault) the mission asks its owner, but the row of the step was not written.
StepWaitsUnsaved(r, s) ==
    /\ run[r].out[s] = "running"
    /\ ~Resumed(r, s)
    /\ steps[s].risky
    /\ calls < MaxCalls
    /\ calls' = calls + 1
    /\ run' = [run EXCEPT ![r].out[s] = "waiting"]
    /\ UNCHANGED <<mission, steps, queue, req, ops, consented, ran, replanned, counters>>

\* confirmation_required: only a risky profile is shown dangerous tools.
StepWaits(r, s) ==
    /\ run[r].out[s] = "running"
    /\ ~Resumed(r, s)
    /\ steps[s].risky
    /\ calls < MaxCalls
    /\ calls' = calls + 1
    /\ Saved(s, "waiting_confirmation", calls + 1)
    /\ run' = [run EXCEPT ![r].out[s] = "waiting"]
    /\ UNCHANGED <<mission, queue, req, ops, consented, ran, replanned, counters>>

With(r, fate) == {s \in Seq1 : run[r].out[s] = fate}
Gathered(r) == /\ run[r].pc = "wave"
               /\ With(r, "todo") \cup With(r, "running") \cup With(r, "ran") = {}
Remaining(r) == run[r].pend \ (With(r, "done") \cup With(r, "error"))
Good(r) == run[r].good \cup With(r, "done")

WaveDone(r) ==
    /\ Gathered(r)
    /\ With(r, "waiting") \cup With(r, "error") = {}
    /\ run' = [run EXCEPT ![r] = [@ EXCEPT
                  !.pc = IF Remaining(r) = {} THEN "final" ELSE "check",
                  !.pend = Remaining(r), !.good = Good(r),
                  !.out = IdleRun.out]]
    /\ UNCHANGED <<mission, steps, queue, req, ops, history, counters>>

Ends(r) == run' = [run EXCEPT ![r] = [@ EXCEPT !.pc = "ended", !.out = IdleRun.out]]

MissionWaits(r) ==
    /\ Gathered(r)
    /\ With(r, "waiting") # {}
    /\ SaveMission("waiting_confirmation")
    /\ Ends(r)
    /\ UNCHANGED <<steps, queue, req, ops, history, counters>>

\* A step failed and there is no other plan: none is left, or none was found.
MissionFails(r) ==
    /\ Gathered(r)
    /\ With(r, "waiting") = {}
    /\ With(r, "error") # {}
    /\ SaveMission("error")
    /\ Ends(r)
    /\ UNCHANGED <<steps, queue, req, ops, history, counters>>

Adopts(r, plan) ==
    /\ Gathered(r)
    /\ With(r, "waiting") = {}
    /\ With(r, "error") # {}
    /\ run[r].budget.replans < MaxReplans
    /\ Len(plan) + Cardinality(Good(r)) <= MaxSteps
    /\ run' = [run EXCEPT ![r] = [@ EXCEPT
                  !.pc = IF Remaining(r) = {} THEN "insert" ELSE "skip",
                  !.pend = Remaining(r), !.good = Good(r), !.out = IdleRun.out,
                  !.budget.replans = run[r].budget.replans + 1, !.next = plan]]
    /\ replanned' = replanned + 1
    /\ UNCHANGED <<steps, queue, req, ops, calls, consented, ran, counters>>

\* (fault) the counter of replans is kept in memory only.
AdoptPlanUnsaved(r, plan) == Adopts(r, plan) /\ UNCHANGED mission

\* _replan found a plan for what is left: replans_usados is saved first, with
\* the presupuesto this run read.
AdoptPlan(r, plan) ==
    /\ Adopts(r, plan)
    /\ mission' = IF mission.status \in Guarding THEN mission
                  ELSE [mission EXCEPT !.budget = run'[r].budget]

SkipReplaced(r) ==
    /\ run[r].pc = "skip"
    /\ SkipFirst(r, IF Cardinality(run[r].pend) = 1 THEN "insert" ELSE "skip")

\* (fault) the new steps are run but never inserted.
InsertStepsUnsaved(r) ==
    LET top == run[r].top
        new == top + 1 .. top + Len(run[r].next)
    IN  /\ run[r].pc = "insert"
        /\ new \subseteq Seq1
        /\ run' = [run EXCEPT ![r] = [@ EXCEPT
                      !.pc = "check", !.pend = new, !.base = new, !.next = <<>>]]
        /\ UNCHANGED <<mission, steps, queue, req, ops, history, counters>>

InsertSteps(r) ==
    LET top == run[r].top
        new == top + 1 .. top + Len(run[r].next)
    IN  /\ run[r].pc = "insert"
        /\ new \subseteq Seq1
        /\ steps' = WithPlan(steps, run[r].next, top)
        /\ run' = [run EXCEPT ![r] = [@ EXCEPT
                      !.pc = "check", !.pend = new, !.base = new,
                      !.deps = [s \in Seq1 |-> IF s \in new THEN steps'[s].deps
                                                ELSE run[r].deps[s]],
                      !.top = top + Len(run[r].next), !.next = <<>>]]
        /\ UNCHANGED <<mission, queue, req, ops, history, counters>>

FinalCheck(r) ==
    /\ run[r].pc = "final"
    /\ run' = [run EXCEPT ![r].pc = IF mission.status \in Stopped THEN "ended" ELSE "synth"]
    /\ UNCHANGED <<mission, steps, queue, req, ops, history, counters>>

SaveDone(r) ==
    /\ run[r].pc = "synth"
    /\ SaveMission("done")
    /\ Ends(r)
    /\ UNCHANGED <<steps, queue, req, ops, history, counters>>

\* handle() returns and the job is marked done.
RunReturns(r) ==
    /\ run[r].pc = "ended"
    /\ Return(r)
    /\ UNCHANGED <<mission, steps, queue, req, ops, history, counters>>

StepAction(r, s) ==
    \/ StepStarts(r, s) \/ ToolRuns(r, s)
    \/ StepDone(r, s) \/ StepErrors(r, s) \/ StepWaits(r, s)

RunStep(r) ==
    \/ \E m \in queue : Take(r, m)
    \/ ReadSteps(r)
    \/ CommitPlan(r) \/ CommitApproved(r) \/ CommitResumption(r)
    \/ CheckStop(r) \/ SkipStopped(r)
    \/ \E s \in Seq1 : StepAction(r, s)
    \/ WaveDone(r) \/ MissionWaits(r) \/ MissionFails(r)
    \/ \E plan \in Replans : AdoptPlan(r, plan)
    \/ SkipReplaced(r) \/ InsertSteps(r)
    \/ FinalCheck(r) \/ SaveDone(r) \/ RunReturns(r)

-----------------------------------------------------------------------------
(* What goes wrong.                                                        *)

Fault == faults < MaxFaults /\ faults' = faults + 1

\* The process dies, the 20 minutes of the job are over, or handle() raises:
\* the job is delivered again, now or after its lease.
Interrupted(r) ==
    /\ run[r].pc # "idle"
    /\ Fault
    /\ queue' = queue \cup {run[r].job}
    /\ Return(r)
    /\ UNCHANGED <<mission, steps, req, ops, history, repeats>>

\* ... or it has no attempts left, and its mission is closed (JobQueue).
GivesUp(r) ==
    /\ run[r].pc # "idle"
    /\ Fault
    /\ mission' = IF mission.status \in Missing \cup Terminal THEN mission
                  ELSE [mission EXCEPT !.status = "error"]
    /\ Return(r)
    /\ UNCHANGED <<steps, queue, req, ops, history, repeats>>

\* An exception in Orchestrator.run outside a step.
Breaks(r) ==
    /\ run[r].pc \in {"check", "stop", "skip", "insert", "final", "synth"} \/ Gathered(r)
    /\ Fault
    /\ SaveMission("error")
    /\ Ends(r)
    /\ UNCHANGED <<steps, queue, req, ops, history, repeats>>

\* The job is delivered a second time while its first run goes on.
Redelivered(r) ==
    /\ run[r].pc # "idle"
    /\ run[r].job.kind \in Repeatable
    /\ run[r].job \notin queue
    /\ repeats < MaxRepeats
    /\ repeats' = repeats + 1
    /\ queue' = queue \cup {run[r].job}
    /\ UNCHANGED <<mission, steps, req, ops, run, history, faults>>

Next ==
    \/ CreateEnqueue \/ CreateCommit
    \/ \E c \in Client : Write(c) \/ \E op \in Ops : Check(c, op)
    \/ \E r \in Run : RunStep(r)
    \/ \E r \in Run : Interrupted(r) \/ GivesUp(r) \/ Breaks(r) \/ Redelivered(r)

Spec == Init /\ [][Next]_vars

\* The worker loop turns, a step ends (by its timeout if by nothing else) and
\* the request that creates the mission commits.  Nothing is asked of the
\* owner, who may never answer.
FairSpec ==
    /\ Spec
    /\ WF_vars(CreateCommit)
    /\ \A r \in Run : WF_vars(RunStep(r))
    /\ \A c \in Client : WF_vars(Write(c))

-----------------------------------------------------------------------------
(* Properties.  Those marked (one run) need executions of one mission not  *)
(* to overlap: a second delivery of its first job breaks them.             *)

RunState == [pc : Phase, job : Job \cup {None}, budget : Budget, call : 0..MaxCalls,
             fresh : BOOLEAN, pend : SUBSET Seq1, base : SUBSET Seq1, good : SUBSET Seq1,
             deps : [Seq1 -> SUBSET Seq1], top : 0..MaxSeq, out : [Seq1 -> Fate],
             next : {<<>>} \cup Replans]
Request == {q \in [op : AllOps, id : 0..MaxOps, budget : Budget, seq : 0..MaxSeq,
                   call : 0..MaxCalls] :
               q.op = "approve" => q.seq # 0 /\ q.call # 0}

\* Types, and the shape the code counts on: steps numbered from 1 without a
\* gap, dependencies on earlier steps, and a run that only names rows there are
\* (save_step on a row that is not there yet changes nothing and says nothing).
TypeOK ==
    /\ mission \in [status : Missing \cup Terminal \cup Pausable \cup {"paused"},
                    budget : Budget]
    /\ steps \in [Seq1 -> StepRow]
    /\ \A s \in Rows : steps[s].deps \subseteq 1..(s - 1) /\ 1..s \subseteq Rows
    /\ queue \subseteq Job
    /\ req \in [Client -> Request \cup {None}]
    /\ ops \in 0..MaxOps
    /\ run \in [Run -> RunState]
    /\ \A r \in Run : run[r].pend \subseteq Rows
    /\ calls \in 0..MaxCalls
    /\ consented \subseteq 1..MaxCalls
    /\ ran \in [1..MaxCalls -> Nat]
    /\ {replanned, faults, repeats} \subseteq Nat

\* Nothing dangerous runs unasked: a tool that a resumed step calls is one that
\* was waiting when an approval was accepted.
ApprovedOnly == \A k \in 1..MaxCalls : ran[k] > 0 => k \in consented

\* ... which holds while no job is delivered twice.  And however often one is,
\* a call that asked for confirmation is made once.
ApprovedOnce ==
    \A k \in 1..MaxCalls :
        /\ ran[k] <= 1
        /\ ran[k] = 1 /\ repeats = 0 => k \in consented

Launched(r) == {s \in Seq1 : run[r].out[s] \in {"todo", "running", "ran"}}

\* A step is launched only after the steps it depends on have ended, through
\* waves, pauses for confirmation, resumptions and replans (one run).
DependencyOrder ==
    \A r \in Run : \A s \in Launched(r) : \A d \in steps[s].deps :
        steps[d].status \in {"done", "error", "skipped"}

\* A risky step is alone in its wave (rule 1 of the parallelism; one run).
RiskyAlone ==
    \A r \in Run : \A s \in Seq1 :
        run[r].out[s] # "none" /\ steps[s].risky => \A t \in Seq1 \ {s} : run[r].out[t] = "none"

\* A mission that waits for its owner has something to approve: the call that
\* was asked last is there, in the step that asked for it (one run).  It may not
\* be alone: a step that waited when its run was paused or lost comes back
\* without its dependencies, behind risky steps it used to precede.
AskedLast ==
    mission.status = "waiting_confirmation" => \E s \in Waiting : steps[s].call = calls

\* "done" leaves no step behind: all ran, failed, or were given up as skipped.
\* Only of the first max_steps: a replan may add steps beyond them, which a run
\* that follows a confirmation does not see.
DoneMeansFinished ==
    mission.status = "done" =>
        \A s \in Rows : s <= MaxSteps => steps[s].status \in {"done", "error", "skipped"}

\* A mission is replanned within its limit, over all its runs and through their
\* crashes; what a request can undo is one limit: steer_mission writes back the
\* counter it had read.
ReplansBounded == replanned <= MaxReplans * (1 + ops)

\* The late writes of a run never override what the owner, or an ending, has
\* left in the row.
InOrchestrator(r) == run[r].pc \notin {"idle", "loaded", "read"} /\ run'[r].pc # "idle"
LateWritesGuarded ==
    [][\A r \in Run : InOrchestrator(r) /\ run'[r] # run[r] /\ mission.status \in Guarding
           => mission'.status = mission.status]_vars

\* What was cancelled before it was planned is not planned any more, although
\* its job read the mission before the cancellation.
CancelledBeforePlan == [][mission.status = "cancelled" /\ Rows = {} => Rows' = {}]_vars

\* A step that ended is neither lost nor repeated by later runs (one run).  Only
\* of the first max_steps, the ones a run sees: the plan of a second replan is
\* numbered after those, over rows the first may have left beyond them.
FinishedStepsStay ==
    [][\A s \in Rows : s <= MaxSteps /\ steps[s].status \in {"done", "error", "skipped"}
           => steps'[s].status = steps[s].status]_vars

\* A running mission has somebody running it: it ends or asks its owner.
MissionSettles == mission.status = "running" ~> mission.status # "running"
=============================================================================
