------------------------------- MODULE JobQueue -------------------------------
(***************************************************************************)
(* The durable job queue of the local runner.                              *)
(*                                                                         *)
(*   - job_outbox: rows written inside a business transaction and relayed  *)
(*     to the jobs table by dispatch_outbox (edecan_core/queue.py);        *)
(*   - jobs: the queue itself, claimed in batches under a lease and run    *)
(*     one at a time by run_forever (edecan_local/worker_loop.py).         *)
(*                                                                         *)
(* A row of either table is named by its id; an outbox row and the job it  *)
(* becomes share that id.  Time is abstracted: a lease may go stale, and a *)
(* backoff may elapse, at any moment (the lease lasts 300 s, a handler may *)
(* run for 1200 s, and a claimed batch of five is run sequentially).  A    *)
(* row that does not decode is left out: the column is jsonb and every     *)
(* writer stores an object.                                                *)
(*                                                                         *)
(* An operator commented "(fault)" is the code with one mistake in it; it  *)
(* is no part of Next and shows which property the mistake would break.    *)
(***************************************************************************)
EXTENDS Naturals, FiniteSets

CONSTANTS
    Job,          \* ids of outbox rows and jobs
    NoHandler,    \* jobs whose type has no registered handler
    MissionJob,   \* jobs of type run_mission
    NoJob,        \* the null value of a worker's current job
    Worker,       \* processes running run_forever
    MaxAttempts,  \* MAX_ATTEMPTS
    OutboxMax,    \* _OUTBOX_MAX_ATTEMPTS
    OutboxBatch,  \* _OUTBOX_BATCH_SIZE
    BatchSize,    \* BATCH_SIZE
    Window,       \* BATCH_SIZE * 5, the rows a claim looks at
    MaxFaults     \* bound of the model on crashes and database errors

ASSUME JobAssumption ==
    /\ NoHandler \subseteq Job
    /\ MissionJob \subseteq Job
    /\ NoJob \notin Job
    /\ IsFiniteSet(Job)
ASSUME LimitAssumption ==
    /\ MaxAttempts \in Nat
    /\ OutboxMax \in Nat \ {0}
    /\ OutboxBatch \in Nat \ {0}
    /\ BatchSize \in Nat \ {0}
    /\ Window \in Nat \ {0}
    /\ MaxFaults \in Nat

VARIABLES
    outbox,     \* the job_outbox table
    jobs,       \* the jobs table
    tx,         \* per worker, its uncommitted dispatch: locked rows and their fate
    pc,         \* per worker, where it is in the loop
    batch,      \* per worker, the claimed jobs it has not reached yet
    cur,        \* per worker, the job it is on
    seen,       \* per worker, the attempts it read when it claimed each job
    reported,   \* missions closed because their job ran out of attempts
    faults      \* crashes and database errors so far

tables == <<outbox, jobs>>
local == <<tx, pc, batch, cur, seen>>
vars == <<outbox, jobs, tx, pc, batch, cur, seen, reported, faults>>

OutboxRow == [status : {"none", "queued", "sent", "dead"},
              attempts : Nat, ready : BOOLEAN]
JobRow == [status : {"none", "queued", "running", "done", "error"},
           attempts : Nat, ready : BOOLEAN, fresh : BOOLEAN, created : Nat]
TxMark == {"free", "locked", "sent", "failed"}
Phase == {"dispatch", "publish", "claim", "process", "handler",
          "returned", "raised", "timedout", "unhandled", "report"}

TypeOK ==
    /\ outbox \in [Job -> OutboxRow]
    /\ jobs \in [Job -> JobRow]
    /\ tx \in [Worker -> [Job -> TxMark]]
    /\ pc \in [Worker -> Phase]
    /\ batch \in [Worker -> SUBSET Job]
    /\ cur \in [Worker -> Job \cup {NoJob}]
    /\ seen \in [Worker -> [Job -> Nat]]
    /\ reported \subseteq MissionJob
    /\ faults \in Nat

NoTx == [j \in Job |-> "free"]
Unseen == [j \in Job |-> 0]

Init ==
    /\ outbox = [j \in Job |-> [status |-> "none", attempts |-> 0, ready |-> FALSE]]
    /\ jobs = [j \in Job |-> [status |-> "none", attempts |-> 0, ready |-> FALSE,
                              fresh |-> FALSE, created |-> 0]]
    /\ tx = [w \in Worker |-> NoTx]
    /\ pc = [w \in Worker |-> "dispatch"]
    /\ batch = [w \in Worker |-> {}]
    /\ cur = [w \in Worker |-> NoJob]
    /\ seen = [w \in Worker |-> Unseen]
    /\ reported = {}
    /\ faults = 0

-----------------------------------------------------------------------------
(* Producers.                                                              *)

Unused(j) == outbox[j].status = "none" /\ jobs[j].status = "none"

\* created_at is the insertion instant: larger than that of every row there is.
Stamp == Cardinality({j \in Job : jobs[j].status # "none"}) + 1

NewJob(isReady) == [status |-> "queued", attempts |-> 0, ready |-> isReady,
                    fresh |-> FALSE, created |-> Stamp]

\* enqueue_outbox: the row appears when the caller's transaction commits.
EnqueueOutbox(j) ==
    /\ Unused(j)
    /\ outbox' = [outbox EXCEPT ![j] =
                     [status |-> "queued", attempts |-> 0, ready |-> TRUE]]
    /\ UNCHANGED <<jobs, local, reported, faults>>

\* enqueue with QUEUE_PROVIDER = "db"; a positive delay stores _not_before.
EnqueueDb(j) ==
    /\ Unused(j)
    /\ \E isReady \in BOOLEAN : jobs' = [jobs EXCEPT ![j] = NewJob(isReady)]
    /\ UNCHANGED <<outbox, local, reported, faults>>

-----------------------------------------------------------------------------
(* dispatch_outbox: one transaction over the locked rows; every publish is *)
(* a separate autocommitted insert.                                        *)

\* (fault) SKIP LOCKED forgotten.
DispatchableUnlocked == {j \in Job : outbox[j].status = "queued" /\ outbox[j].ready}

Dispatchable == {j \in Job : /\ outbox[j].status = "queued"
                             /\ outbox[j].ready
                             /\ \A v \in Worker : tx[v][j] = "free"}

\* SELECT ... LIMIT n FOR UPDATE SKIP LOCKED.
BeginDispatch(w) ==
    /\ pc[w] = "dispatch"
    /\ \E rows \in SUBSET Dispatchable :
          /\ Cardinality(rows) <= OutboxBatch
          /\ Cardinality(rows) < OutboxBatch => rows = Dispatchable
          /\ tx' = [tx EXCEPT ![w] = [j \in Job |-> IF j \in rows THEN "locked"
                                                               ELSE "free"]]
    /\ pc' = [pc EXCEPT ![w] = "publish"]
    /\ UNCHANGED <<tables, batch, cur, seen, reported, faults>>

\* (fault) ON CONFLICT DO UPDATE.
SendDbUpsert(j) == jobs' = [jobs EXCEPT ![j] = NewJob(TRUE)]

\* INSERT INTO jobs ... ON CONFLICT (id) DO NOTHING.
SendDb(j) ==
    jobs' = IF jobs[j].status = "none" THEN [jobs EXCEPT ![j] = NewJob(TRUE)]
                                       ELSE jobs

\* (fault) the outcome of the send is not looked at.
PublishUnchecked(w, j) ==
    /\ pc[w] = "publish"
    /\ tx[w][j] = "locked"
    /\ SendDb(j) \/ UNCHANGED jobs
    /\ tx' = [tx EXCEPT ![w][j] = "sent"]
    /\ UNCHANGED <<outbox, pc, batch, cur, seen, reported, faults>>

\* The send succeeds; or it fails; or the insert commits and the
\* acknowledgement is lost, which the dispatcher sees as a failure.
Publish(w, j) ==
    /\ pc[w] = "publish"
    /\ tx[w][j] = "locked"
    /\ \/ SendDb(j) /\ tx' = [tx EXCEPT ![w][j] = "sent"]
       \/ UNCHANGED jobs /\ tx' = [tx EXCEPT ![w][j] = "failed"]
       \/ SendDb(j) /\ tx' = [tx EXCEPT ![w][j] = "failed"]
    /\ UNCHANGED <<outbox, pc, batch, cur, seen, reported, faults>>

\* (fault) one attempt too many.
SettledLate(row, mark) ==
    LET n == row.attempts + 1
    IN  CASE mark = "sent"   -> [row EXCEPT !.status = "sent", !.attempts = n]
          [] mark = "failed" -> [status |-> IF n > OutboxMax THEN "dead" ELSE "queued",
                                 attempts |-> n, ready |-> FALSE]
          [] OTHER           -> row

\* What the row becomes when the transaction that handled it commits.
Settled(row, mark) ==
    LET n == row.attempts + 1
    IN  CASE mark = "sent"   -> [row EXCEPT !.status = "sent", !.attempts = n]
          [] mark = "failed" -> [status |-> IF n >= OutboxMax THEN "dead" ELSE "queued",
                                 attempts |-> n, ready |-> FALSE]
          [] OTHER           -> row

CommitDispatch(w) ==
    /\ pc[w] = "publish"
    /\ \A j \in Job : tx[w][j] # "locked"
    /\ outbox' = [j \in Job |-> Settled(outbox[j], tx[w][j])]
    /\ tx' = [tx EXCEPT ![w] = NoTx]
    /\ pc' = [pc EXCEPT ![w] = "claim"]
    /\ UNCHANGED <<jobs, batch, cur, seen, reported, faults>>

\* A statement of the dispatch transaction fails: it rolls back as a whole,
\* run_forever logs it and goes on to claim jobs.
RollbackDispatch(w) ==
    /\ pc[w] = "publish"
    /\ faults < MaxFaults
    /\ faults' = faults + 1
    /\ tx' = [tx EXCEPT ![w] = NoTx]
    /\ pc' = [pc EXCEPT ![w] = "claim"]
    /\ UNCHANGED <<tables, batch, cur, seen, reported>>

-----------------------------------------------------------------------------
(* _fetch_and_claim_batch.                                                 *)

\* (faults) only queued rows, so that an orphan is lost; every row not done.
ClaimableQueued == {j \in Job : jobs[j].status = "queued"}
ClaimableUndone == {j \in Job : \/ jobs[j].status \in {"queued", "error"}
                                \/ jobs[j].status = "running" /\ ~jobs[j].fresh}

Claimable == {j \in Job : \/ jobs[j].status = "queued"
                          \/ jobs[j].status = "running" /\ ~jobs[j].fresh}

\* The n rows of S with the oldest created_at.
Oldest(S, n) ==
    {j \in S : Cardinality({i \in S : jobs[i].created < jobs[j].created}) < n}

ReadyBatch == Oldest({j \in Oldest(Claimable, Window) : jobs[j].ready}, BatchSize)

\* (fault) the batch is read but not marked.
FetchUnmarked(w) ==
    /\ pc[w] = "claim"
    /\ batch' = [batch EXCEPT ![w] = ReadyBatch]
    /\ seen' = [seen EXCEPT ![w] = [j \in Job |-> IF j \in ReadyBatch
                                                  THEN jobs[j].attempts ELSE 0]]
    /\ pc' = [pc EXCEPT ![w] = "process"]
    /\ UNCHANGED <<tables, tx, cur, reported, faults>>

FetchAndClaim(w) ==
    /\ pc[w] = "claim"
    /\ jobs' = [j \in Job |-> IF j \in ReadyBatch
                              THEN [jobs[j] EXCEPT !.status = "running", !.fresh = TRUE]
                              ELSE jobs[j]]
    /\ batch' = [batch EXCEPT ![w] = ReadyBatch]
    /\ seen' = [seen EXCEPT ![w] = [j \in Job |-> IF j \in ReadyBatch
                                                  THEN jobs[j].attempts ELSE 0]]
    /\ pc' = [pc EXCEPT ![w] = "process"]
    /\ UNCHANGED <<outbox, tx, cur, reported, faults>>

-----------------------------------------------------------------------------
(* _process_job, for each job of the batch in order.                       *)

StartNext(w) ==
    /\ pc[w] = "process"
    /\ \E j \in Oldest(batch[w], 1) :
          /\ cur' = [cur EXCEPT ![w] = j]
          /\ batch' = [batch EXCEPT ![w] = @ \ {j}]
          /\ pc' = [pc EXCEPT ![w] = IF j \in NoHandler THEN "unhandled" ELSE "handler"]
    /\ UNCHANGED <<tables, tx, seen, reported, faults>>

HandlerReturns(w) ==
    /\ pc[w] = "handler"
    /\ pc' = [pc EXCEPT ![w] = "returned"]
    /\ UNCHANGED <<tables, tx, batch, cur, seen, reported, faults>>

HandlerRaises(w) ==
    /\ pc[w] = "handler"
    /\ pc' = [pc EXCEPT ![w] = "raised"]
    /\ UNCHANGED <<tables, tx, batch, cur, seen, reported, faults>>

\* asyncio.wait_for gives up: a TimeoutError, caught like any exception.
HandlerTimesOut(w) ==
    /\ pc[w] = "handler"
    /\ pc' = [pc EXCEPT ![w] = "timedout"]
    /\ UNCHANGED <<tables, tx, batch, cur, seen, reported, faults>>

\* The updates of _mark_* name the row by id and nothing else.
MarkDone(w) ==
    /\ pc[w] = "returned"
    /\ jobs' = [jobs EXCEPT ![cur[w]].status = "done"]
    /\ pc' = [pc EXCEPT ![w] = "process"]
    /\ UNCHANGED <<outbox, tx, batch, cur, seen, reported, faults>>

\* (fault) the verdict of a mission, which a job does not have.
MarkMissingFailed(w) ==
    /\ pc[w] = "unhandled"
    /\ jobs' = [jobs EXCEPT ![cur[w]].status = "failed"]
    /\ pc' = [pc EXCEPT ![w] = "process"]
    /\ UNCHANGED <<outbox, tx, batch, cur, seen, reported, faults>>

MarkMissingHandler(w) ==
    /\ pc[w] = "unhandled"
    /\ jobs' = [jobs EXCEPT ![cur[w]].status = "error",
                            ![cur[w]].attempts = seen[w][cur[w]]]
    /\ pc' = [pc EXCEPT ![w] = "process"]
    /\ UNCHANGED <<outbox, tx, batch, cur, seen, reported, faults>>

RetryLater(w, attempts) ==
    /\ jobs' = [jobs EXCEPT ![cur[w]].status = "queued",
                            ![cur[w]].attempts = attempts,
                            ![cur[w]].ready = FALSE]
    /\ pc' = [pc EXCEPT ![w] = "process"]

GiveUp(w, attempts) ==
    /\ jobs' = [jobs EXCEPT ![cur[w]].status = "error",
                            ![cur[w]].attempts = attempts]
    /\ pc' = [pc EXCEPT ![w] = "report"]

\* (faults) the retry is not counted; the last attempt is not used; the
\* exhausted job is marked and nothing else.
MarkFailureUncounted(w) ==
    LET attempts == seen[w][cur[w]]
    IN  /\ pc[w] \in {"raised", "timedout"}
        /\ IF attempts < MaxAttempts THEN RetryLater(w, attempts)
                                     ELSE GiveUp(w, attempts + 1)
        /\ UNCHANGED <<outbox, tx, batch, cur, seen, reported, faults>>
MarkFailureEarly(w) ==
    LET attempts == seen[w][cur[w]]
    IN  /\ pc[w] \in {"raised", "timedout"}
        /\ IF attempts + 1 < MaxAttempts THEN RetryLater(w, attempts + 1)
                                         ELSE GiveUp(w, attempts + 1)
        /\ UNCHANGED <<outbox, tx, batch, cur, seen, reported, faults>>
MarkFailureSilent(w) ==
    LET attempts == seen[w][cur[w]]
    IN  /\ pc[w] \in {"raised", "timedout"}
        /\ IF attempts < MaxAttempts
           THEN RetryLater(w, attempts + 1)
           ELSE /\ jobs' = [jobs EXCEPT ![cur[w]].status = "error"]
                /\ pc' = [pc EXCEPT ![w] = "process"]
        /\ UNCHANGED <<outbox, tx, batch, cur, seen, reported, faults>>

MarkFailure(w) ==
    LET attempts == seen[w][cur[w]]
    IN  /\ pc[w] \in {"raised", "timedout"}
        /\ IF attempts < MaxAttempts THEN RetryLater(w, attempts + 1)
                                     ELSE GiveUp(w, attempts + 1)
        /\ UNCHANGED <<outbox, tx, batch, cur, seen, reported, faults>>

\* _propagate_terminal_failure_to_mission: a second statement, committed on
\* its own after the job is already in "error".
PropagateFailure(w) ==
    /\ pc[w] = "report"
    /\ reported' = reported \cup ({cur[w]} \cap MissionJob)
    /\ pc' = [pc EXCEPT ![w] = "process"]
    /\ UNCHANGED <<tables, tx, batch, cur, seen, faults>>

ForgetBatch(w) ==
    /\ batch' = [batch EXCEPT ![w] = {}]
    /\ cur' = [cur EXCEPT ![w] = NoJob]
    /\ seen' = [seen EXCEPT ![w] = Unseen]

EndBatch(w) ==
    /\ pc[w] = "process"
    /\ batch[w] = {}
    /\ pc' = [pc EXCEPT ![w] = "dispatch"]
    /\ ForgetBatch(w)
    /\ UNCHANGED <<tables, tx, reported, faults>>

\* A statement of the claim or of _mark_* fails: the exception leaves the loop
\* over the batch, whose other jobs stay "running" in the table with nobody on
\* them.  (One that commits and still raises is the action followed by Crash.)
AbandonBatch(w) ==
    /\ pc[w] \in {"claim", "returned", "raised", "timedout", "unhandled", "report"}
    /\ faults < MaxFaults
    /\ faults' = faults + 1
    /\ pc' = [pc EXCEPT ![w] = "dispatch"]
    /\ ForgetBatch(w)
    /\ UNCHANGED <<tables, tx, reported>>

\* The process dies and comes back: its transaction and its batch are gone.
Crash(w) ==
    /\ faults < MaxFaults
    /\ faults' = faults + 1
    /\ pc' = [pc EXCEPT ![w] = "dispatch"]
    /\ ForgetBatch(w)
    /\ tx' = [tx EXCEPT ![w] = NoTx]
    /\ UNCHANGED <<tables, reported>>

-----------------------------------------------------------------------------
(* The clock.                                                              *)

LeaseExpires(j) ==
    /\ jobs[j].status = "running"
    /\ jobs[j].fresh
    /\ jobs' = [jobs EXCEPT ![j].fresh = FALSE]
    /\ UNCHANGED <<outbox, local, reported, faults>>

JobBackoffElapses(j) ==
    /\ jobs[j].status = "queued"
    /\ ~jobs[j].ready
    /\ jobs' = [jobs EXCEPT ![j].ready = TRUE]
    /\ UNCHANGED <<outbox, local, reported, faults>>

OutboxBackoffElapses(j) ==
    /\ outbox[j].status = "queued"
    /\ ~outbox[j].ready
    /\ outbox' = [outbox EXCEPT ![j].ready = TRUE]
    /\ UNCHANGED <<jobs, local, reported, faults>>

Tick(j) == LeaseExpires(j) \/ JobBackoffElapses(j) \/ OutboxBackoffElapses(j)

WorkerStep(w) ==
    \/ BeginDispatch(w)
    \/ \E j \in Job : Publish(w, j)
    \/ CommitDispatch(w)
    \/ FetchAndClaim(w)
    \/ StartNext(w)
    \/ HandlerReturns(w) \/ HandlerRaises(w) \/ HandlerTimesOut(w)
    \/ MarkDone(w) \/ MarkMissingHandler(w) \/ MarkFailure(w)
    \/ PropagateFailure(w)
    \/ EndBatch(w)

Next ==
    \/ \E j \in Job : EnqueueOutbox(j) \/ EnqueueDb(j)
    \/ \E w \in Worker : WorkerStep(w)
    \/ \E w \in Worker : RollbackDispatch(w) \/ AbandonBatch(w) \/ Crash(w)
    \/ \E j \in Job : Tick(j)

Spec == Init /\ [][Next]_vars

\* The loop keeps turning (every await of it ends, the handler's by its
\* timeout) and time passes.  Nothing is asked of the producers or of faults.
Fairness ==
    /\ \A w \in Worker : WF_vars(WorkerStep(w))
    /\ \A j \in Job : /\ WF_vars(LeaseExpires(j))
                       /\ WF_vars(JobBackoffElapses(j))
                       /\ WF_vars(OutboxBackoffElapses(j))

FairSpec == Spec /\ Fairness

-----------------------------------------------------------------------------
(* Properties that hold for any number of workers.                         *)

\* The hand-off loses nothing: a row the outbox calls sent is in the queue,
\* whatever the interleaving of inserts, commits, rollbacks and crashes.
SentHasJob ==
    \A j \in Job :
        \/ outbox[j].status = "sent"
        \/ \E w \in Worker : tx[w][j] = "sent"
        => jobs[j].status # "none"

\* Dispatchers do not tread on each other: a row inside an open transaction is
\* still queued, and it is in no other transaction.
LockedByOne ==
    \A w \in Worker, j \in Job : tx[w][j] # "free" =>
        /\ outbox[j].status = "queued"
        /\ \A v \in Worker \ {w} : tx[v][j] = "free"

\* Attempts stay within their limit on both tables, and an outbox row is dead
\* exactly when its last permitted attempt failed.
AttemptsBounded ==
    \A j \in Job :
        /\ jobs[j].attempts <= MaxAttempts + 1
        /\ jobs[j].status \in {"queued", "running"} => jobs[j].attempts <= MaxAttempts
        /\ outbox[j].attempts <= OutboxMax
        /\ outbox[j].status = "queued" => outbox[j].attempts < OutboxMax
        /\ outbox[j].status = "dead" => outbox[j].attempts = OutboxMax

\* Concurrent dispatchers never rewrite what one of them settled: a row that
\* is sent or dead stays as it is (SKIP LOCKED plus one transaction per batch).
SettledRow == \A j \in Job :
    outbox[j].status \in {"sent", "dead"} => outbox'[j] = outbox[j]
OutboxSettledOnce == [][SettledRow]_vars

-----------------------------------------------------------------------------
(* Properties of a single worker, which is what one installation runs.     *)

Busy == {"handler", "returned", "raised", "timedout", "unhandled"}
Held(w) == batch[w] \cup IF pc[w] \in Busy THEN {cur[w]} ELSE {}

\* A job the worker has claimed and not finished is "running" in the table,
\* with the attempts the worker will count from: nobody else has moved it.
HeldIsRunning ==
    \A w \in Worker : \A j \in Held(w) :
        jobs[j].status = "running" /\ jobs[j].attempts = seen[w][j]

\* Where the loop is tells what it holds: nothing outside the for, and inside
\* it a current job that has left the rest of the batch.
BatchInLoop ==
    \A w \in Worker :
        /\ pc[w] \in {"dispatch", "publish", "claim"} => batch[w] = {}
        /\ pc[w] \in Busy \cup {"report"} => cur[w] \in Job \ batch[w]

\* A job that ended never runs again and never changes its verdict, in spite
\* of republished outbox rows, reclaimed leases and restarts.
FinalVerdict == \A j \in Job :
    jobs[j].status \in {"done", "error"} => jobs'[j].status = jobs[j].status
TerminalIsFinal == [][FinalVerdict]_vars

\* What _mark_failure is for: a mission whose job ran out of attempts is
\* closed, unless a crash or a database error comes in between the two commits.
\* (MarkMissingHandler is a different ending: no attempt was made.)
Exhausted(j) == jobs[j].status = "error" /\ j \notin NoHandler
FailureReported ==
    \A j \in MissionJob : Exhausted(j) ~> j \in reported \/ faults > 0

-----------------------------------------------------------------------------
(* The queue as its callers see it: JobLife.                               *)

Phases(j) ==
    CASE jobs[j].status \in {"done", "error"}                  -> "ended"
      [] jobs[j].status \in {"queued", "running"}              -> "pending"
      [] jobs[j].status = "none" /\ outbox[j].status = "none"  -> "absent"
      [] jobs[j].status = "none" /\ outbox[j].status = "dead"  -> "lost"
      [] OTHER                                                 -> "pending"

Life == INSTANCE JobLife WITH life <- [j \in Job |-> Phases(j)]
\* A submitted job stays pending until it ends or its outbox row dies without
\* having reached the queue, each for good.
ImplementsLife == Life!Spec
\* ... and it does end, or is given up, if the loop keeps turning.
JobsResolve == Life!Resolves
=============================================================================
