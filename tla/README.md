# A TLA+ model of Edecán

Edecán is a personal assistant that runs on its owner's computer (or hosted),
written as a Python monorepo with web, desktop and mobile clients. This
directory holds TLA+ modules of its core protocols, the TLC configurations that
check them on small instances and the TLAPS proofs of what holds for every
instance. Paths below are relative to `src/`.

## 1. Inventory

| Component | State it keeps | Operations | Interacts with | Hard behaviours | What makes it correct |
|---|---|---|---|---|---|
| **Durable queue** `packages/core/edecan_core/queue.py`, `apps/local/edecan_local/worker_loop.py` | tables `job_outbox`, `jobs` | enqueue, enqueue_outbox, dispatch, claim, run, mark done / retry / error | every producer of jobs; the mission of a `run_mission` job | crashes between commits, lost acknowledgements, leases that expire, backoffs, two dispatchers | nothing submitted is lost; a verdict is earned and final; repeats only after faults |
| **Missions** `apps/api/.../routers/missions.py`, `apps/worker/.../handlers/run_mission.py`, `packages/agents/edecan_agents/orchestrator.py` | `agent_missions`, `agent_steps`, memory of a run | create, confirm, cancel, pause, resume, steer; plan, waves, confirmation, replan, synthesis | queue (jobs), agent loop (a step), owner (requests) | check-then-write requests, duplicate and late jobs, parallel steps, crashes in the middle of a plan, stale memory | dangerous tools run only when approved; dependencies and isolation of risky steps; a cancellation stands; a mission settles |
| **Hosted worker** `apps/worker/edecan_worker/main.py` | SQS messages | receive, delete, requeue, leave for the DLQ | as the queue | duplicate deliveries, visibility timeout | as the queue |
| **Automations** `handlers/automation_scan.py`, `run_automation.py`, `packages/automations`, `routers/automations.py`, `routers/hooks.py` | `automations` (date, lease, failures), `automation_runs` | patch, delete, try; scan, claim and advance, enqueue; run, fail, disable | queue | claim apart from enqueue, overlapping and slow scans, crashes, edits under a scan | a date fires once and is not skipped |
| **Persistent agents** `handlers/run_persistent_agent.py`, `persistent_agent_scan.py`, `routers/persistent_agents.py` | agents, tasks, messages | claim, turn, schedule, stop | queue, missions | claims of tasks, stops during a turn, crashes | one turn per bot at a time; each message answered once |
| **Reminders, companion wakes** `handlers/send_reminder*.py`, `run_companion_turn.py`, `edecan_core/companion_wake*.py` | `reminders`; wake keys and notices in `audit_log`; messages | create, change, delete; scan, send, mark; claim a wake, speak, notify | queue, conversations | repeated scans, copies of a job on two workers, crash between any two commits | each occurrence heard once, not early, and in the end |
| **Forge kernel journal** `packages/forge-kernel/.../journal.py`, `projections.py` | events, heads, clock and highest epoch, projections, blobs (SQLite) | append, append_if, read by cursor, set_projection, put_blob, redact | IDE sessions, lease service | hosts on one file, a lost lease, a batch that fails half way, readers between two commits | contiguous, verifiable streams; stale hosts fenced out; a cursor misses nothing |
| **Forge kernel bus, vfs** `packages/forge-kernel` | queues, overlays | publish, write, merge | IDE sessions | full queues | order kept, slow readers told |
| **Edge continuity** `apps/local/edecan_local/edge_continuity.py`, `infra/aws/edge` | turns kept at the edge and on the computer | hand over, poll, deliver, acknowledge | conversations | computer offline, duplicates | a turn is answered once, by one side |
| **Conversations** `routers/conversations.py` | messages, turn leases, confirmations | send, stream, confirm | agent loop | concurrent turns, confirmations that arrive late | one turn at a time; approvals used once |
| **Devices, tokens** `routers/devices.py`, `security.py` | devices, refresh tokens | pair, rotate, revoke | clients | concurrent rotation | a revoked token stays unusable |
| **Provider health, guardrails, ledger** `edecan_core` | circuits, limits, action ledger | record, open, probe | agent loop | concurrent probes | limits are not exceeded |
| **Agent loop** `edecan_core/agent.py` | one turn in memory | LLM call, tool calls, confirmation | everything that runs a turn | sequential | see missions |
| Local runtime, companion, clients, LLM providers, domain toolkits, design engine and probes, database layer | — | — | — | process supervision, I/O, user interface, sequential service calls | not modelled, see section 7 |

The queue is at the centre: every asynchronous operation is a job in it, so
what it guarantees (at least once, in no order, again after a crash or a
timeout) is the environment of every handler. Missions are the longest
protocol on top of it.

## 2. Modules

| Module | What it is |
|---|---|
| `JobQueue` | outbox relay, `jobs` table and worker loop of the local installation |
| `JobLife` | abstract specification: what the queue promises to whoever submits a job |
| `JobQueueHistory` | `JobQueue` with counters of handler runs and returns, for three invariants |
| `JobQueueProofs` | TLAPS proofs about `JobQueue` and `JobQueueHistory` |
| `Waves` | the order of the orchestrator's waves, as functions |
| `WavesProofs` | TLAPS proofs about `Waves`: levels are topological, a risky step is alone, dependencies come first |
| `WavesLoop` | the loops of `_resolver_depende_de` and `_construir_olas`, compared with `Waves` |
| `WavesLoopProofs` | TLAPS proof that the loops give the waves of `Waves`, for plans of any length |
| `Missions` | one mission: requests, `run_mission` job, orchestrator |
| `MissionsProofs` | TLAPS proofs about `Missions`, any number of overlapping executions |
| `MissionsRunProofs` | TLAPS proofs about `Missions` when the executions of a mission do not overlap |
| `Automations` | scheduled automations: scan, claim, `run_automation`, requests |
| `AutomationsProofs` | TLAPS proofs about `Automations` |
| `Reminders` | reminders, the jobs that send them, the companion turns they wake |
| `RemindersProofs` | TLAPS proofs about `Reminders` |
| `Journal` | the forge session's journal: hosts, transactions, readers, projections |
| `EventLog` | abstract specification: an append-only log of batches, contents destroyed for good |
| `JournalProofs` | TLAPS proofs about `Journal`, with its refinement of `EventLog` |
| `MCJobQueue`, `MCMissions`, `MCJournal` | instances for TLC: symmetry, the plans the planner may return, the batches |

### JobQueue

`outbox[j]` and `jobs[j]` are the rows of the two tables for job `j` (status,
attempts, whether the backoff or the lease is over). Per worker: `pc` is the
place in `run_forever`, `tx` the rows inside the open dispatch transaction,
`batch` and `cur` the claimed jobs, `seen` the attempts read at the claim.

* `EnqueueOutbox`, `EnqueueDb` are the two ways a producer submits.
* `BeginDispatch`, `Publish`, `CommitDispatch` are `dispatch_outbox`: rows are
  locked (`FOR UPDATE SKIP LOCKED`), each is inserted in `jobs` by another
  connection that commits at once, and the new status of the rows is committed
  at the end. `RollbackDispatch` and `Crash` lose that commit only.
* `FetchAndClaim`, `StartNext`, `HandlerReturns` / `Raises` / `TimesOut`,
  `MarkDone`, `MarkMissingHandler`, `MarkFailure`, `PropagateFailure`,
  `EndBatch` are one turn of the loop. `MarkFailure` and `PropagateFailure` are
  separate, as in the code: two commits.
* Time is abstracted to flags: `LeaseExpires`, `JobBackoffElapses`,
  `OutboxBackoffElapses` may happen at any time.
* `AbandonBatch` is a database error inside the `for`; the batch is left in
  `running` until its lease is over.

### Missions

`mission` and `steps` are the rows; `queue` the jobs waiting; `req[c]` a
request whose check has passed and whose write has not happened; `run[r]` the
local variables of one execution of `handle()` and `Orchestrator.run` (`pend`,
`good`, `deps`, `top` are `pendientes`, the finished steps, `depende_de` and
`siguiente_idx`; `out` the fate of each step of the current wave).

* A request is `Check` and then one of `Approve`, `Reject`, `Cancel`, `Pause`,
  `Resume`, `Steer`, `Refused`. Approve, reject and resume write with a
  condition on the status (`Claims`), the others without (`Moves`).
* `Take`, `ReadSteps`, `CommitPlan` / `CommitApproved` / `CommitResumption` are
  the first session of the job: reads, then one transaction.
* `CheckStop`, `SkipStopped`, `StepStarts` … `StepWaits`, `WaveDone`,
  `MissionWaits`, `MissionFails`, `AdoptPlan`, `SkipReplaced`, `InsertSteps`,
  `FinalCheck`, `SaveDone` are `Orchestrator.run`, one action per commit.
* `Interrupted`, `GivesUp`, `Redelivered` are what `JobQueue` may do with the
  job: again after a crash or a timeout (`RunsBounded`, `JobsResolve`), closed
  after its attempts (`GiveUp`, `PropagateFailure`), twice at once when a lease
  expires (section 6). This is how the two components compose; `Reminders` and
  `Automations` take the same promises of the queue for their own jobs.

### Waves and WavesLoop

`NextWave` gives a step the coordinates of its wave (topological level, block
within the level) and takes the first. `WavesLoop` runs the loops of the code
step by step from every plan, including undeclared and refused dependencies,
and compares each wave it emits with `NextWave`.

### Automations

`row[a]` is the row of an automation, `jobs[o]` the `run_automation` jobs queued
for the slot `o` (an automation and the date it had when a scan listed it; 0
for a try or a webhook). Per worker: `pc`, the slot it is `at`, and, during a
scan, what it has `left` and when it began (`since`: the `now` of the handler,
from which dates and leases are counted).

* `Scan` is the read of what is due. `ClaimAndAdvance` is the update that takes
  the lease and moves `next_run_at`, decided on the lease alone;
  `ConditionFalse` and `EnqueueRun` are what follows it, in the same turn of
  the loop but after its commit.
* `ReadAutomation`, `OpenRun`, `RunSaved`, `Return` are `run_automation`, one
  action per commit. `Failed` turns the automation off at the threshold.
* `SetTrigger`, `SetEnabled`, `DeleteAutomation`, `Probar` are the owner's
  requests; a webhook is a `Probar` that looks at the automation first.
* Time is a clock. A scan ends within the timeout of its job (`Tick`), and the
  timeout is longer than the lease, as in the code (1200 s and 900 s).
* `fired`, `started`, `dropped`, `outlived` are history, used by properties.

### Reminders

An occurrence is a reminder with the date it had when `send_reminder` read it,
which is the key of the wake. `sends[r]` and `wakes[o]` are the jobs queued.

* `Scan`, `EnqueueSend` are `send_reminder_scan`; `ReadReminder`, `EnqueueWake`
  (or its failure, which nobody looks at), `MarkReminderSent`, `Return` are
  `send_reminder`. The mark is a `draft` of a session nobody commits.
* `ClaimWake` takes the advisory lock of the key and looks up the claim;
  `Speak` or `StaySilent` commits claim and message together; `RecordNotice`
  and `Alert` follow, each apart.
* `Interrupted` is a handler that raises, times out or dies: its job is
  delivered again. `Tick` and the owner's requests go on meanwhile.

### Journal

* `Begin`, `WriteDraft`, `Commit` are one append: the refusals under the lock
  (`Fenced`, `SeqConflict`, `GuardFailed`), one INSERT per draft, the COMMIT
  that also moves head and clock. `RejectDraft` is a draft whose event is too
  large; `RollBack` an INSERT that raises; `Crash` the death of a host.
* What an open transaction has written is in `tx.rows`, apart from `rows`,
  because a reader on the writer's connection sees it (`Visible`).
* `Acquire`, `Prepare` are the host: a lease from the service outside, and an
  append that cites a head and perhaps a projection's state that may be old.
* `Read` is one page of `leer_todos` folded into a projection. `SetProjection`
  stores its state and its number for one of the streams it folded, over
  whatever was there. A row is found by `(projection_name, key)` and does not
  say which stream its number counts; `of` remembers it for a property, and no
  guard reads it. A `Guard` cites a key and a state, and `GuardFailed` compares
  the row's number with the head of the stream that is appended to.
* `Accepted` are the events up to the heads. A refused batch may leave its first
  drafts beyond a head (`Beyond`), in the table for good: no head, no clock and
  no highest epoch counts them.
* A hash is the sequence of everything it digests: equal hashes, equal past.

Operators commented `(fault)` are the code with one mistake in it. They are no
part of any specification.

## 3. Runs

| Run | Instance | Shows |
|---|---|---|
| `JobQueue_single` | 2 jobs, one without handler, one of a mission; 1 worker; batch and window 1; 2 faults | `TypeOK`; a claimed job stays as the worker saw it (`HeldIsRunning`); handler runs bounded by attempts and faults (`RunsBounded`); a handler that returned is called again only after a fault (`RepeatsNeedFaults`); verdicts earned (`VerdictEarned`) and final (`TerminalIsFinal`); the queue implements `JobLife`; every submitted job ends or is given up (`JobsResolve`), also when a delayed row fills the window; the mission of an exhausted job is closed, faults apart (`FailureReported`) |
| `JobQueue_shared` | 2 jobs, one without handler; 2 workers, 1 fault, symmetry of the workers | the hand-off loses nothing (`SentHasJob`), dispatchers exclude each other (`LockedByOne`, `OutboxSettledOnce`), attempts bounded on both tables (`AttemptsBounded`) |
| `Missions_owner` | 2 clients with every request, 3 requests, symmetry; two plans of 3 steps; 1 replan of up to 2 steps; 2 confirmations; `ParallelMax` 2; 1 crash, timeout or exception anywhere | `TypeOK`; a launched step's dependencies have ended (`DependencyOrder`); a risky step is alone (`RiskyAlone`); a mission that waits has the call asked last to approve (`AskedLast`); done leaves nothing behind (`DoneMeansFinished`); replans bounded (`ReplansBounded`); late writes do not override the owner (`LateWritesGuarded`, `CancelledBeforePlan`); what ended stays so (`FinishedStepsStay`) |
| `Missions_live` | 1 client, 3 requests, 3 confirmations; three plans with two risky steps; 2 executions with the approved job delivered twice | a call that asked is made once, and only approved until a job is delivered twice (`ApprovedOnce`); a running mission ends or asks (`MissionSettles`) |
| `Missions_approval` | the approved job delivered twice, 1 execution | *violation* of `ApprovedOnly`: the second delivery makes a call nobody approved |
| `Missions_resume` | pause, resume | *violation* of `MissionSettles`: the resumed job is ignored |
| `WavesLoop` | every plan of 4 steps, every set of risky steps, every set of steps to place | `DependenciesFirst`, `SameWaves`, nothing lost (`TypeOK`) |
| `Automations_due` | 1 automation with a condition, 2 workers; period 1, lease 2, timeout 3, five dates; 1 request, 2 errors, 1 fault | `TypeOK`; a date is enqueued once unless a scan took more than half a lease (`SlotOnce`); a due date is run, or a later one, up to the losses it names (`DueRuns`) |
| `Reminders_once` | 1 recurring mobile reminder, 2 workers, 2 dates, 2 jobs of each kind queued, 1 request, 1 fault | `TypeOK`; said once, alerted once, in order (`OncePerOccurrence`); not early (`EarlyOnlyIfMoved`); in the end (`DueWakes`) |
| `Reminders_sent` | no request, no fault | *violation* of `MarkedBeforePush`: the mark is never committed |
| `Journal_log` | 2 hosts, 2 streams, batches of one and two, one refused half way for an oversized second draft; a reader in pages of one; one projection row, set for either stream; guards on the batch of one; 3 events, 2 leases, 1 fault; symmetry of hosts and of streams | `TypeOK`; accepted events are chained and what lies beyond a head is half a refused batch (`ChainVerifies`); a lost lease writes no accepted event after a newer one (`EpochsInOrder`); until a refused batch leaves something, a cursor misses nothing (`CursorMissesNothing`) and a guard on a row of its own stream has seen all of it (`GuardSawAll`); the accepted events implement `EventLog` (`IsEventLog`) |
| `Journal_batch` | 1 host, a batch whose second draft is oversized | *violation* of `NothingBeyondHead`: the first draft is committed behind the head |

**Why the bounds are enough.** Two workers, clients, executions or hosts are
the fewest that can interfere, and no action involves more than two. One fault
at any point meets every step; two (`JobQueue_single`) a fault in the recovery
from a fault. Three steps are the fewest that give a wave of two next to a
risky one, a chain, and a level with two risky steps; four (WavesLoop) a level
cut twice. `MaxSeq` leaves room for one replan after a full plan; `MaxCalls = 2`
for a second confirmation after the first, 3 for one more after two steps were
approved. Five dates let a scan list a date,
lose its lease and another scan take the next two; with a lease of 2 and a
timeout of 3 a scan may be prompt, slow for more than half a lease, or outlive
it. Two jobs of a kind let two workers hold copies of one reminder. In the
journal three events are two batches of which one has two, so that a page ends
inside a batch; two leases are one that is lost and one that replaces it. One
key is enough for a row that changes its stream, and `Guarded` keeps guards to
one batch, since a guard does not look at what is appended. The symmetries are
sound: hosts and streams are told apart nowhere, and `IsEventLog` has no
liveness, so that it is checked step by step.

The runs of missions, reminders, automations and the journal switch deadlock
checking off: a mission really ends, and the clock, the requests and the events
of the others are bounded. The queue never stops and is checked.

## 4. Fairness

* `JobQueue!Fairness`: weak fairness of each worker's step. Every await of the
  loop ends (the handler's by `asyncio.wait_for`), and `run_forever` catches
  everything and turns again. Leases and backoffs end because time passes.
  Nothing is assumed of producers, crashes or errors.
* `Missions!FairSpec`: weak fairness of each execution's step, since the worker
  loop turns and a step ends by `MISSIONS_STEP_TIMEOUT_SECONDS` at the latest;
  of the write that follows a request's check, since the request is one
  function; and of `CreateCommit`. Nothing is asked of the owner, who may never
  answer: that is why `MissionSettles` lets a mission wait.
* `Automations!Fairness` and `Reminders!Fairness`: weak fairness of each
  worker's handler, as above; strong fairness of the scans, since the scheduler
  asks again every 30 or 60 seconds whatever happened to the last one, and of
  taking a job, since the queue serves the oldest first and a job is therefore
  not passed over for ever. Of the clock in `Automations` (dates must be able
  to come). Nothing of the owner, of crashes, or of how a turn ends.

## 5. Proofs

`tlapm` proves the following for every value of the constants that satisfies
the assumption of its module (limits are natural numbers, plans are well
formed, `None` is none of the values), where TLC looks at one instance.

**`JobQueueProofs`.** Each is an invariant, or an action property that follows
from one.

| Theorem | Property | Rests on |
|---|---|---|
| `TypeCorrect` | `TypeOK` | itself |
| `LocksExclusive` | `LockedByOne` | `TypeOK` |
| `SettledOnce` | `OutboxSettledOnce` | `LockedByOne`: only the transaction that locked a row writes it |
| `HandOffLosesNothing` | `SentHasJob` | `TypeOK`; the property also speaks of marks not committed yet, which makes it inductive |
| `HeldStaysRunning` | `HeldIsRunning` | one worker (`Solo`), `BatchInLoop` |
| `VerdictsAreFinal` | `TerminalIsFinal` | one worker, `HeldIsRunning` |
| `AttemptsStayBounded` | `AttemptsBounded` | `SeenBounded` (a worker counts from an attempt still permitted when it claimed), `LockedByOne` |
| `ImplementsJobLife` | `ImplementsLife` | one worker, `HeldIsRunning`, `SentHasJob`, `LockedByOne` |

For the refinement, a job's phase depends on the statuses of its two rows only:
an enqueue is `Submit`, a mark that ends a job is `End` (the job was running,
by `HeldIsRunning`), a commit of the relay is `Lose` of the rows that die with
no job behind them (`SentHasJob` excludes the others), and all else stutters.

`BatchInLoop` (jobs are held only inside the batch loop) is what lets the claim
be excluded while something is held. `Solo` is an assumption of
`HeldStaysRunning`, `VerdictsAreFinal`, `ImplementsJobLife` and the counters
below only, and it is needed: two workers on one table break them (section 6).

The counters of `JobQueueHistory`, with one worker, rest on `HInv`, which ties
them to the row: a call is counted before the attempt it uses up is written, so
a row may be one call behind while a worker has it in hand, and each fault
excuses one more (`RunsFit`, `CompletionsFit`, `Earned`).

| Theorem | Property | What the invariant adds |
|---|---|---|
| `RunsStayBounded` | `RunsBounded` | the extra call is there only for a job in hand, or ended |
| `RepeatsAreFaults` | `RepeatsNeedFaults` | a return not excused by a fault is being reported, or is the row's verdict |
| `VerdictsAreEarned` | `VerdictEarned` | a worker that reports a return has one counted |

**`WavesProofs`.** About the functions, for every plan whose steps depend on
earlier ones. `Level` is a recursive function; the provers have no induction
over it, but every step used here is first order: the definition is unfolded
once more for a set with one step added (`SolutionExtends`), and a solution for
each length follows by a least counterexample (`LeastNumber`, from the
well-foundedness of the naturals). `LevelsAreTopological`: a level is
above those of the dependencies, and one more than some of them unless it is 0.
`RiskyStepIsAlone` and `DependenciesAreBefore`: the next wave, from any set of
pending steps, keeps a risky step apart and depends on nothing pending.

**`WavesLoopProofs`.** Any number of steps, any declared dependencies, any
risky steps, any that had ended. The loops peel levels and cut them into
batches; `NextWave` is a direct definition. `LoopInv` relates the two:

* `Order(g)`: the levels in the list are those of depth `g` and more, in order,
  and all that was placed or is in the batch comes before them. The peel finds
  exactly the steps of one depth, since a step has a dependency one level below
  (`EligibleDepth`).
* a batch is one block of one level, so when it is flushed it is the wave that
  `NextWave` gives for what was left (`FlushedIsWave`); a risky step cut after
  it is the next one.
* `Partition`: the steps are in one place each.

| Theorem | Property |
|---|---|
| `WavesAreSame` | `SameWaves` |
| `DependenciesComeFirst` | `DependenciesFirst` |
| `NoStepIsLost` | `TypeOK`, with the count of the steps |

**`MissionsProofs`.** Any number of clients and of runs that overlap.

| Theorem | Property |
|---|---|
| `TypeCorrect` | `TypeOK` |
| `LateWritesAreGuarded` | `LateWritesGuarded` |
| `CancelledIsNotPlanned` | `CancelledBeforePlan` |

All three rest on the inductive invariant `Inv`. Types alone are not inductive,
because a run writes rows by the numbers it keeps in memory; `Inv` adds that
the rows are exactly `1..k` for some `k` (`StepsOK`), that a row that waits has
a call, and for each run (`RunOK`) that its pending steps, the steps of its
wave and everything up to `top` have rows, that it has a step to skip or to
launch where it will take one, and that there are rows once its first session
is over. One lemma per group of actions shows that it is kept
(`CheckKeeps`, `CommitKeeps`, `InsertKeeps`, ...), over lemmas about the
operators: `PlanIsAppended` (a plan inserted after the last row leaves no gap),
`RewriteRow`, `BeginKeeps` (a run that starts takes up rows that are there),
`OneRunChanges`. `LateWritesGuarded` needs the write of `CommitApproved`,
`CommitPlan` and `CommitResumption` to be outside its scope: those are not
guarded (section 6). `CancelledBeforePlan` holds
because `CommitPlan` claims the mission and every other write of a row needs a
row.

**`MissionsRunProofs`.** The same, under `Solo`: the executions of a mission do
not overlap (one worker, as installed; jobs may still be lost, crash, come
twice one after the other, and wait behind requests of any number of clients).
Without it two executions run the same steps (section 6).

| Theorem | Property | Invariant |
|---|---|---|
| `RiskyIsAlone` | `RiskyAlone` | `SoloInv` |
| `DependenciesHaveEnded` | `DependencyOrder` | `SoloInv` |
| `SomethingToApprove` | `AskedLast` | `SoloInv` |
| `DoneIsFinished` | `DoneMeansFinished` | `SoloInv` |
| `FinishedStepsAreKept` | `FinishedStepsStay` | `SoloInv` |
| `ReplansStayBounded` | `ReplansBounded` | `ReplanInv` |
| `CallsAreMadeOnce` | first half of `ApprovedOnce` | `CallInv` |
| `OnlyApprovedCallsRun` | `ApprovedOnce` | `ConsentInv`, `CallInv`; `Undisturbed` |

* `SoloInv` says that what the run read once and keeps in memory still agrees
  with the rows (`RunAgrees`). A step it has to do has not ended, and what it
  depends on has ended or is to do as well (`PlanAgrees`); the fate of a step
  in the wave is the one in its row (`WaveAgrees`). This is delicate because a
  save of a step rewrites the row without its dependencies: the row and the
  memory agree on them only until the step asks or ends, which is as long as
  anybody looks. `Steady` adds that a mission neither waits nor is done while a
  run is in its plan. The lemmas on waves come from `WavesProofs`.
* `ReplanInv` weighs three copies of one counter: the row's, the run's, and
  those in requests under way, which will be written back. `replanned` is never
  more than any live copy and one limit for each request answered.
* `CallInv`: a call waits in one row at most and was not made; a run that took
  it up has its step behind it once it is made (`Settled`).
* `ConsentInv`: until a job is delivered twice, there is one job at a time
  (`OneJob`), and the call that a job or a run names is one that was consented
  to (`Consented`). `Undisturbed` (one client, no fault, no resumption) is
  needed: with a second client, a resumption or a crash TLC finds a call made
  that nobody approved (section 6). That a call is made once needs none of it.

**`JournalProofs`.** Any hosts, streams, keys, batches, readers, page size,
failures and crashes. No theorem but the last assumes anything of where in a
batch an oversized draft stands. What a refused batch leaves behind is excluded
from nothing: either the property speaks of accepted events, or it has
`NothingBeyondHead` as a hypothesis one can read in it.

| Theorem | Property | Condition | Rests on |
|---|---|---|---|
| `TypeCorrect` | `TypeOK` | — | `Types`, `Bounds` |
| `ChainsHold` | `ChainVerifies` | — | `TxOK`: accepted events and those of the open transaction form one chain (`ChainExtends`); `TxBatch`: what is written so far is the beginning of the batch |
| `FencingHolds` | `EpochsInOrder` | of accepted events | `Committed`: along the clock epochs never go back (`OrderExtends`) |
| `ImplementsLog` | `IsEventLog` | of accepted events | all of them |
| `CursorsExact` | `CursorMissesNothing` | `OwnConnections`; nothing beyond a head | `ReadersExact`: a commit writes above every cursor only |
| `GuardsComplete` | `GuardSawAll` | the same; the row was set for the stream of the append | `ProjectionsExact`: a stored row is the fold of an exact prefix, whoever wrote it and however late |
| `OnlyRefusalsLeave` | `NothingBeyondHead` | no batch has an oversized draft after another one | `RefusedHalf` |

`OwnConnections` says that no reader shares the connection of a writer. The
conditions are needed; section 6 says what happens without each.

`Inv` holds of every behaviour and gives the first four. `ChainVerifies` alone
is not inductive: the commit adds rows written several steps before, and `TxOK`
carries what will be committed. A draft is inserted only where its key is free,
so a stream with half a batch beyond its head accepts nothing more, and its
transactions have written nothing: that keeps what is beyond a head apart from
what is accepted. `Reading` is about readers and rows of projections and is
proved on top of `Inv`; half a batch beyond a head never goes away, hence
`NothingBeyondHead` in a state says that it held in all those before.

**`RemindersProofs`.** Any reminders, workers, scans and faults. `SaidOnce`
(`OncePerOccurrence`) rests on `OneTurn`: a turn holds a key nobody has
claimed, and no two workers are past the lock of one key. `NeverEarly`
(`EarlyOnlyIfMoved`) rests on `OnTime`: everything on its way for a reminder
its owner left alone (a job, a scan's list, a wake, a worker) is about the date
in its row, which has come. It is true because the row is never rewritten by a
worker; the mutant that commits the mark breaks it.

**`AutomationsProofs`.** Any automations, workers, period, lease, timeout and
threshold. `FiredOnce` (`SlotOnce`) rests on `Once` (one holder per claimed
date), `Past` (`next_run_at` only moves forward past a taken date) and
`Leased`: a scan that lists a date already taken finds the row leased until
half a lease after it began, so it must be slow to take it again. The half is
where the two leases meet: the one counted from the start of the scan that took
the date, the other from the start of the scan that comes back to it.

**Only model-checked.** Liveness under fairness (`JobsResolve`,
`FailureReported`, `MissionSettles`, `DueRuns`, `DueWakes`) is out of the
prover's reach. Every safety property of the passing runs has a theorem. One
is proved for less than TLC looks at: `ApprovedOnce` is checked with two
executions that overlap as well (`Missions_live`), and proved for one at a time.

## 6. What the code does that its documents do not say

The four violation runs above (`Missions_approval`, `Missions_resume`,
`Reminders_sent`, `Journal_batch`) are recorded as findings in `PROJECT.json`. The
passing runs leave out, or state their property up to, the following, which
the modules show as well (the change of configuration that shows it in brackets).

**Queue and missions**

* The lease of a claimed job is written at the claim only, and nothing renews
  it while the handler runs (up to 1200 s) or the job waits behind its batch;
  after 300 s another worker takes it and both hold it [two workers in
  `JobQueue`]. The comment at `worker_loop.py:367-368` says that it is renewed.
* A run that finds its mission paused skips the steps it has not launched, for
  good (`CheckStop`, `SkipStopped`), although `missions.py:721` says that a
  pause eliminates no step.
* A cancellation that commits between the read of the mission and the end of
  the first session of an approved job is overwritten with running
  (`CommitApproved`, `CommitResumption`); `orchestrator.py:145-147` says that a
  late write never revives a cancelled mission.
* The second of two deliveries of the first job finds steps, takes the implicit
  resumption, which claims nothing, and runs the same steps next to the first
  [two runs, `Repeatable = {"new"}`, `FinishedStepsStay`];
  `run_mission.py:905-908` says that only one of them gets to.
* When the insert of a job commits and its acknowledgement is lost, often enough
  the outbox row is declared dead although its job exists and runs
  (`SentHasJob` says the opposite direction only).
* A crash between the two commits of `_mark_failure` leaves the mission of an
  exhausted job open (`FailureReported` holds "faults apart").
* A handler that times out is put back in the queue while attempts remain
  (`MarkFailure` after `HandlerTimesOut`), although the comment at
  `worker_loop.py:127-128` says that it is marked error.
* `cancel` and `pause` check the status and then write it without a condition:
  a mission that ended in between goes from done to cancelled or paused
  (`Check`, `Cancel`).
* The rows of a second replan are numbered after the first `max_steps` the run
  sees, over rows that the first replan may have added beyond them
  (`FinishedStepsStay` speaks of the first `max_steps`).
* Every save of a step leaves its dependencies out (`Saved`). A step that waited
  when its run was paused or lost comes back without them, behind risky steps
  it used to precede: two steps may wait at once, and an approval takes the one
  with the lowest number (`AskedLast` speaks of the last one).
* Steps that a replan adds beyond `max_steps` are cut off by the run that
  follows a confirmation: the mission may be done with such a step pending
  (`DoneMeansFinished` speaks of the first `max_steps`).
* `create_mission` commits the job before the mission: taken in between, the
  job is ignored and the mission stays in planning (`CreateEnqueue`,
  `CreateCommit`, `Ignored`).
* `steer` writes back the whole presupuesto it read, and so does a replan: the
  first forgets a replan, the second an instruction (`ReplansBounded` allows
  one limit of replans more per request).
* After the claim of an approved step, a crash strands the mission: the job
  delivered again is ignored [live with `MaxFaults = 1`].
* An approved job names a step and not the call it was approved for. Taken when
  that step waits for a later call, it makes that one. A second delivery of the
  job gets there (`Missions_approval`); so do an approval that overlaps another
  client's, a pause and resumption while the job is queued, and a crash that
  has the job delivered again [live with two clients; with `pause` and
  `resume`; with `MaxFaults = 1`: `ApprovedOnce`].
* An approval picks its step before it claims the mission; with a second client
  it may claim the mission for a step already served [live with two clients].

**Automations**

* `automation_scan.py:46-47` and `models.py:1512-1515` say that `run_automation`
  clears the lease; it never touches it. An automation whose period is shorter
  than the lease (15 minutes) therefore runs once per lease; `DueRuns` lets a
  later date stand for an earlier one.
* A scan that dies after its claim takes the date with it: the claim has moved
  `next_run_at`, and the lease, when it is over, gives back the row and not the
  date (`DueRuns` lets such a date go, `dropped`). `automation_scan.py:43-46`
  says that the lease expires and the next scan can claim again.
* The claim looks at the lease only, not at the date that was read. A scan that
  takes more than half a lease to reach a row enqueues its date a second time,
  or moves `next_run_at` back or past a date nobody ran (`outlived`).
* The next date is computed from the rule that was read. A PATCH of the trigger
  between the read and the claim is overwritten with a date of the old rule; a
  webhook automation gets a `next_run_at` that way and is then run by a scan.
* `probar` of a disabled automation is queued and ignored (`ReadAutomation`);
  its docstring (`routers/automations.py:588-590`) says it serves for those too.
* Turning an automation on again keeps its `consecutive_failures`: after an
  automatic disabling the next error turns it off at once.
* A job delivered again runs the turn again with a new `automation_runs` row;
  the first row stays running.

**Reminders**

* As the mark is never committed, a mobile reminder is pushed again by every
  scan, and a recurring one never moves on: it is heard once. The lost commit
  hides that a failed enqueue of the wake is swallowed and the reminder marked
  all the same, and that a second job of a recurring reminder, run after the
  mark, would wake its next date early: committing it alone breaks
  `EarlyOnlyIfMoved` and `DueWakes` (their mutant).
* A wake may end in silence when the model gives no usable text twice, with its
  claim committed (`run_companion_turn.py:624`), although the instruction of
  `send_reminder` asks for a message (`send_reminder.py:147`): `DueWakes` counts it.
* A reminder postponed while its job is queued is heard at once, and that
  spends the key of its new date (`EarlyOnlyIfMoved` is up to that).

**Journal**

* A reader on the writer's connection, in another thread, sees rows of the open
  transaction; when it is rolled back the reader has an event that never was
  and a cursor that will skip the one that takes its place [`Shares <-
  MCShares`, `CursorMissesNothing`]. `journal.py:232-234` relies on WAL, which
  separates connections, not threads of one.
* A guard does not say which stream its projection is about, and neither does
  the table. A row set for one stream lets an append to another pass whenever
  its number equals the head of that one, although the projection may have
  missed events there [`GuardSawAll` without its conjunct on `of`]. Decision 3
  of the module (`journal.py:38-41`) asks that the projection has seen all that
  happened in the stream that is written; `_evaluar_guardia` (`:306-317`) can
  tell only when every key is used for one stream.
* What a batch refused half way leaves behind (`Journal_batch`) has more
  consequences. Every later append to its stream whose first draft fits fails on the key
  `(stream_id, seq)`. Clock and highest epoch do not move past the event left
  behind: a later event of another stream gets the same lamport, so that a
  cursor whose page ends between the two skips one for good, a projection then
  misses it and its guard may pass all the same [`CursorMissesNothing` and
  `GuardSawAll` without `NothingBeyondHead`]; and a host with an older lease may
  still write in another stream [`EpochsInOrder` of all `rows`].

## 7. Not modelled

* Of the queue: the SQS transport, the periodic scheduler (a producer like any
  other), rows whose payload does not decode.
* Of missions: texts, the cost budget (off by default), archiving and lists,
  notices, a timeout of a step that races the save of its result. Rows of
  `agent_steps` that share a `seq` are one row here, as every update by `seq`
  treats them.
* Of automations: creation (the row is there from the start), the rows of
  `automation_runs` and the notices (nothing decides on them), the plan's flag,
  the turn of the agent, the delegated actions (one enqueue within the turn).
* Of reminders: the wakes of other sources with their quiet hours and restarts,
  the creation of the conversation, the memory item of what was said (committed
  on a session of its own), the turn of the agent.
* Of the journal: the typed registry of events and its reducer, event ids,
  rebuilding a projection. `head` is the committed head. A row of a projection
  holds here what some reader's projection gives; the table takes any number and
  any hash from its caller, and `demo_sesion.py:410-415` passes the head itself
  and a constant, which claims to have seen what nobody folded.
* Everything else of section 1 for now, in the order of the plan; user
  interfaces, network clients of services, rendering and measurement for good:
  they are I/O or sequential code without shared protocol state. They are most
  of the repository's lines.

## 8. Plan

1. *(done)* `JobQueue` with `JobLife`; `Waves`, `WavesLoop`, `Missions`.
2. *(done)* `Automations` and `Reminders`: scans, faults, fairness, proofs.
3. *(done)* `Journal` with `EventLog`, proved for any hosts, streams, readers.
4. `SqsWorker`: the hosted loop, shown to implement `JobLife` as far as it does.
5. `PersistentAgents`, then `EdgeContinuity`, `ConversationTurns`, `ForgeBus`,
   `Devices`, `ProviderHealth`.
6. *(done)* Proofs of every safety property of the runs. Liveness stays with TLC.
