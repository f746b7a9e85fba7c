---------------------------- MODULE JobQueueProofs ----------------------------
(***************************************************************************)
(* Proofs about JobQueue, for every set of jobs and every limit; with one  *)
(* worker, also about the counters of JobQueueHistory.                     *)
(***************************************************************************)
EXTENDS JobQueueHistory, FiniteSetTheorems, TLAPS

-----------------------------------------------------------------------------
(* Types.                                                                  *)

JobStatus == {"queued", "running", "done", "error"}

\* Rewriting the verdict and the attempts of one row keeps the table well typed.
LEMMA RowUpdateType ==
  ASSUME NEW f \in [Job -> JobRow], NEW i \in Job, NEW s \in JobStatus,
         NEW n \in Nat
  PROVE  /\ [f EXCEPT ![i].status = s, ![i].attempts = n] \in [Job -> JobRow]
         /\ [f EXCEPT ![i].status = s, ![i].attempts = n, ![i].ready = FALSE]
              \in [Job -> JobRow]
BY DEF JobRow, JobStatus

LEMMA StampIsNat == Stamp \in Nat
<1>1. IsFiniteSet({j \in Job : jobs[j].status # "none"})
  BY FS_Subset, JobAssumption
<1> QED BY <1>1, FS_CardinalityType DEF Stamp

LEMMA SettledType ==
  ASSUME NEW row \in OutboxRow, NEW mark \in TxMark
  PROVE  Settled(row, mark) \in OutboxRow
<1> DEFINE n == row.attempts + 1
<1>n. n \in Nat BY DEF OutboxRow
<1>1. CASE mark = "sent"
  <2>1. Settled(row, mark) = [row EXCEPT !.status = "sent", !.attempts = n]
    BY <1>1 DEF Settled
  <2> HIDE DEF n
  <2> QED BY <1>n, <2>1 DEF OutboxRow
<1>2. CASE mark = "failed" BY <1>2 DEF Settled, OutboxRow
<1>3. CASE mark \notin {"sent", "failed"} BY <1>3 DEF Settled
<1> QED BY <1>1, <1>2, <1>3

\* Every action keeps the types.
LEMMA StepKeepsTypes == TypeOK /\ [Next]_vars => TypeOK'
<1> SUFFICES ASSUME TypeOK, [Next]_vars PROVE TypeOK'
  OBVIOUS
<1> USE DEF TypeOK
<1>1. ASSUME NEW j \in Job, EnqueueOutbox(j) PROVE TypeOK'
  BY <1>1 DEF EnqueueOutbox, OutboxRow, local
<1>2. ASSUME NEW j \in Job, EnqueueDb(j) PROVE TypeOK'
  BY <1>2, StampIsNat DEF EnqueueDb, NewJob, JobRow, local
<1>3. ASSUME NEW w \in Worker, BeginDispatch(w) PROVE TypeOK'
  BY <1>3 DEF BeginDispatch, TxMark, Phase, tables
<1>4. ASSUME NEW w \in Worker, NEW j \in Job, Publish(w, j) PROVE TypeOK'
  <2>1. NewJob(TRUE) \in JobRow
    BY StampIsNat DEF NewJob, JobRow
  <2>2. SendDb(j) => jobs' \in [Job -> JobRow]
    BY <2>1 DEF SendDb
  <2>3. jobs' \in [Job -> JobRow]
    BY <1>4, <2>2 DEF Publish
  <2>4. \E m \in {"sent", "failed"} : tx' = [tx EXCEPT ![w][j] = m]
    BY <1>4 DEF Publish
  <2>5. tx' \in [Worker -> [Job -> TxMark]]
    BY <2>4 DEF TxMark
  <2> QED BY <1>4, <2>3, <2>5 DEF Publish
<1>5. ASSUME NEW w \in Worker, CommitDispatch(w) PROVE TypeOK'
  <2>1. outbox' \in [Job -> OutboxRow]
    BY <1>5, SettledType DEF CommitDispatch
  <2>2. tx' \in [Worker -> [Job -> TxMark]]
    BY <1>5 DEF CommitDispatch, NoTx, TxMark
  <2> QED BY <1>5, <2>1, <2>2 DEF CommitDispatch, Phase
<1>6. ASSUME NEW w \in Worker, RollbackDispatch(w) PROVE TypeOK'
  BY <1>6 DEF RollbackDispatch, NoTx, TxMark, Phase, tables
<1>7. ASSUME NEW w \in Worker, FetchAndClaim(w) PROVE TypeOK'
  <2>1. jobs' \in [Job -> JobRow]
    BY <1>7 DEF FetchAndClaim, JobRow
  <2>2. ReadyBatch \subseteq Job
    BY DEF ReadyBatch, Oldest, Claimable
  <2>3. seen' \in [Worker -> [Job -> Nat]]
    BY <1>7 DEF FetchAndClaim, JobRow
  <2> QED BY <1>7, <2>1, <2>2, <2>3 DEF FetchAndClaim, Phase
<1>8. ASSUME NEW w \in Worker, StartNext(w) PROVE TypeOK'
  BY <1>8 DEF StartNext, Oldest, Phase, tables
<1>9. ASSUME NEW w \in Worker,
             HandlerReturns(w) \/ HandlerRaises(w) \/ HandlerTimesOut(w)
      PROVE TypeOK'
  BY <1>9 DEF HandlerReturns, HandlerRaises, HandlerTimesOut, Phase, tables
<1>10. ASSUME NEW w \in Worker, MarkDone(w) PROVE TypeOK'
  BY <1>10 DEF MarkDone, JobRow, Phase
<1>11. ASSUME NEW w \in Worker, MarkMissingHandler(w) PROVE TypeOK'
  <2>1. jobs' \in [Job -> JobRow]
    <3> DEFINE n == seen[w][cur[w]]
    <3>1. jobs' = [jobs EXCEPT ![cur[w]].status = "error", ![cur[w]].attempts = n]
      BY <1>11 DEF MarkMissingHandler
    <3>2. cur[w] \in Job => n \in Nat
      OBVIOUS
    <3> HIDE DEF n
    <3>3. CASE cur[w] \in Job
      BY <3>1, <3>2, <3>3, RowUpdateType DEF JobStatus
    <3>4. CASE cur[w] \notin Job
      <4>1. jobs' = [i \in Job |-> jobs[i]]
        BY <3>1, <3>4
      <4> QED BY <4>1
    <3> QED BY <3>3, <3>4
  <2> QED BY <1>11, <2>1 DEF MarkMissingHandler, Phase
<1>12. ASSUME NEW w \in Worker, MarkFailure(w) PROVE TypeOK'
  <2>1. jobs' \in [Job -> JobRow]
    <3> DEFINE n == seen[w][cur[w]] + 1
    <3>1. cur[w] \in Job => n \in Nat
      OBVIOUS
    <3>2. RetryLater(w, n) \/ GiveUp(w, n)
      BY <1>12 DEF MarkFailure
    <3> HIDE DEF n
    <3>3. CASE cur[w] \in Job
      <4>1. CASE RetryLater(w, n)
        BY <3>1, <3>3, <4>1, RowUpdateType DEF RetryLater, JobStatus
      <4>2. CASE GiveUp(w, n)
        BY <3>1, <3>3, <4>2, RowUpdateType DEF GiveUp, JobStatus
      <4> QED BY <3>2, <4>1, <4>2
    <3>4. CASE cur[w] \notin Job
      <4>1. jobs' = [i \in Job |-> jobs[i]]
        BY <3>2, <3>4 DEF RetryLater, GiveUp
      <4> QED BY <4>1
    <3> QED BY <3>3, <3>4
  <2> QED BY <1>12, <2>1 DEF MarkFailure, RetryLater, GiveUp, Phase
<1>13. ASSUME NEW w \in Worker, PropagateFailure(w) PROVE TypeOK'
  BY <1>13 DEF PropagateFailure, Phase, tables
<1>14. ASSUME NEW w \in Worker, EndBatch(w) PROVE TypeOK'
  BY <1>14 DEF EndBatch, ForgetBatch, Unseen, Phase, tables
<1>15. ASSUME NEW w \in Worker, AbandonBatch(w) PROVE TypeOK'
  BY <1>15 DEF AbandonBatch, ForgetBatch, Unseen, Phase, tables
<1>16. ASSUME NEW w \in Worker, Crash(w) PROVE TypeOK'
  BY <1>16 DEF Crash, ForgetBatch, Unseen, NoTx, TxMark, Phase, tables
<1>17. ASSUME NEW j \in Job, Tick(j) PROVE TypeOK'
  <2>1. CASE LeaseExpires(j)
    BY <2>1 DEF LeaseExpires, JobRow, local
  <2>2. CASE JobBackoffElapses(j)
    BY <2>2 DEF JobBackoffElapses, JobRow, local
  <2>3. CASE OutboxBackoffElapses(j)
    BY <2>3 DEF OutboxBackoffElapses, OutboxRow, local
  <2> QED BY <1>17, <2>1, <2>2, <2>3 DEF Tick
<1>18. CASE UNCHANGED vars
  BY <1>18 DEF vars
<1> QED
  BY <1>1, <1>2, <1>3, <1>4, <1>5, <1>6, <1>7, <1>8, <1>9, <1>10, <1>11,
     <1>12, <1>13, <1>14, <1>15, <1>16, <1>17, <1>18 DEF Next, WorkerStep

\* The type invariant: every table and every worker's local state keeps the
\* shape the code gives it.
THEOREM TypeCorrect == Spec => []TypeOK
<1>1. Init => TypeOK
  BY DEF Init, TypeOK, OutboxRow, JobRow, TxMark, Phase, NoTx, Unseen
<1> QED BY <1>1, StepKeepsTypes, PTL DEF Spec

-----------------------------------------------------------------------------
(* The relay, with any number of dispatchers.                              *)

\* A row locked by a dispatcher is queued and locked by nobody else.
THEOREM LocksExclusive == Spec => []LockedByOne
<1>1. Init => LockedByOne
  BY DEF Init, LockedByOne, NoTx
<1>2. TypeOK /\ LockedByOne /\ [Next]_vars => LockedByOne'
  <2> SUFFICES ASSUME TypeOK, LockedByOne, [Next]_vars PROVE LockedByOne'
    OBVIOUS
  <2> USE DEF TypeOK, LockedByOne
  <2>1. ASSUME NEW i \in Job, EnqueueOutbox(i) \/ EnqueueDb(i) PROVE LockedByOne'
    BY <2>1 DEF EnqueueOutbox, EnqueueDb, Unused, local
  <2>2. ASSUME NEW u \in Worker, BeginDispatch(u) PROVE LockedByOne'
    <3>1. PICK rows \in SUBSET Dispatchable :
            tx' = [tx EXCEPT ![u] = [j \in Job |-> IF j \in rows THEN "locked"
                                                              ELSE "free"]]
      BY <2>2 DEF BeginDispatch
    <3>2. outbox' = outbox
      BY <2>2 DEF BeginDispatch, tables
    <3>3. \A j \in rows : /\ outbox[j].status = "queued"
                          /\ \A v \in Worker : tx[v][j] = "free"
      BY DEF Dispatchable
    <3> QED BY <3>1, <3>2, <3>3
  <2>3. ASSUME NEW u \in Worker, NEW i \in Job, Publish(u, i) PROVE LockedByOne'
    <3>1. tx[u][i] = "locked" /\ outbox' = outbox
      BY <2>3 DEF Publish
    <3>2. \E m \in {"sent", "failed"} : tx' = [tx EXCEPT ![u][i] = m]
      BY <2>3 DEF Publish
    <3> QED BY <3>1, <3>2
  <2>4. ASSUME NEW u \in Worker, CommitDispatch(u) PROVE LockedByOne'
    <3>1. tx' = [tx EXCEPT ![u] = NoTx]
      BY <2>4 DEF CommitDispatch
    <3>2. \A j \in Job : tx[u][j] = "free" => outbox'[j] = outbox[j]
      BY <2>4 DEF CommitDispatch, Settled
    <3> QED BY <3>1, <3>2 DEF NoTx
  <2>5. ASSUME NEW u \in Worker, RollbackDispatch(u) \/ Crash(u)
        PROVE LockedByOne'
    <3>1. tx' = [tx EXCEPT ![u] = NoTx] /\ outbox' = outbox
      BY <2>5 DEF RollbackDispatch, Crash, tables
    <3> QED BY <3>1 DEF NoTx
  <2>6. ASSUME NEW u \in Worker,
               \/ FetchAndClaim(u) \/ StartNext(u)
               \/ HandlerReturns(u) \/ HandlerRaises(u) \/ HandlerTimesOut(u)
               \/ MarkDone(u) \/ MarkMissingHandler(u) \/ MarkFailure(u)
               \/ PropagateFailure(u) \/ EndBatch(u) \/ AbandonBatch(u)
        PROVE UNCHANGED <<outbox, tx>>
    BY <2>6 DEF FetchAndClaim, StartNext, HandlerReturns, HandlerRaises,
         HandlerTimesOut, MarkDone, MarkMissingHandler, MarkFailure,
         PropagateFailure, EndBatch, AbandonBatch, tables
  <2>7. ASSUME NEW i \in Job, Tick(i) PROVE LockedByOne'
    <3>1. CASE OutboxBackoffElapses(i)
      <4>1. \A j \in Job : outbox'[j].status = outbox[j].status
        BY <3>1 DEF OutboxBackoffElapses, OutboxRow
      <4>2. tx' = tx
        BY <3>1 DEF OutboxBackoffElapses, local
      <4> QED BY <4>1, <4>2
    <3>2. CASE LeaseExpires(i) \/ JobBackoffElapses(i)
      BY <3>2 DEF LeaseExpires, JobBackoffElapses, local
    <3> QED BY <2>7, <3>1, <3>2 DEF Tick
  <2>8. CASE UNCHANGED <<outbox, tx>>
    BY <2>8
  <2> QED
    BY <2>1, <2>2, <2>3, <2>4, <2>5, <2>6, <2>7, <2>8
    DEF Next, WorkerStep, vars
<1> QED BY <1>1, <1>2, TypeCorrect, PTL DEF Spec

\* What a step may do to a row the relay settled: nothing.
THEOREM SettledOnce == Spec => OutboxSettledOnce
<1>1. TypeOK /\ LockedByOne /\ [Next]_vars => [SettledRow]_vars
  <2> SUFFICES ASSUME TypeOK, LockedByOne, Next, NEW j \in Job,
                      outbox[j].status \in {"sent", "dead"}
               PROVE  outbox'[j] = outbox[j]
    BY DEF SettledRow
  <2> USE DEF TypeOK
  <2>1. ASSUME NEW i \in Job, EnqueueOutbox(i) \/ EnqueueDb(i) PROVE outbox'[j] = outbox[j]
    BY <2>1 DEF EnqueueOutbox, EnqueueDb, Unused
  <2>2. ASSUME NEW u \in Worker, CommitDispatch(u) PROVE outbox'[j] = outbox[j]
    <3>1. tx[u][j] = "free"
      BY DEF LockedByOne
    <3> QED BY <2>2, <3>1 DEF CommitDispatch, Settled
  <2>3. ASSUME NEW i \in Job, Tick(i) PROVE outbox'[j] = outbox[j]
    BY <2>3 DEF Tick, LeaseExpires, JobBackoffElapses, OutboxBackoffElapses
  <2>4. ASSUME NEW u \in Worker,
               \/ BeginDispatch(u) \/ (\E i \in Job : Publish(u, i))
               \/ RollbackDispatch(u) \/ FetchAndClaim(u) \/ StartNext(u)
               \/ HandlerReturns(u) \/ HandlerRaises(u) \/ HandlerTimesOut(u)
               \/ MarkDone(u) \/ MarkMissingHandler(u) \/ MarkFailure(u)
               \/ PropagateFailure(u) \/ EndBatch(u) \/ AbandonBatch(u) \/ Crash(u)
        PROVE outbox' = outbox
    BY <2>4 DEF BeginDispatch, Publish, RollbackDispatch, FetchAndClaim, StartNext,
         HandlerReturns, HandlerRaises, HandlerTimesOut, MarkDone,
         MarkMissingHandler, MarkFailure, PropagateFailure, EndBatch,
         AbandonBatch, Crash, tables
  <2> QED BY <2>1, <2>2, <2>3, <2>4 DEF Next, WorkerStep
<1> QED BY <1>1, TypeCorrect, LocksExclusive, PTL DEF Spec, OutboxSettledOnce

\* No step takes a row out of the jobs table.
LEMMA RowsStay ==
  ASSUME TypeOK, [Next]_vars, NEW j \in Job, jobs[j].status # "none"
  PROVE  jobs'[j].status # "none"
<1> USE DEF TypeOK
<1>1. ASSUME NEW i \in Job, EnqueueOutbox(i) \/ EnqueueDb(i) PROVE jobs'[j].status # "none"
  BY <1>1 DEF EnqueueOutbox, EnqueueDb, Unused
<1>2. ASSUME NEW u \in Worker, NEW i \in Job, Publish(u, i) PROVE jobs'[j].status # "none"
  BY <1>2 DEF Publish, SendDb
<1>3. ASSUME NEW u \in Worker, FetchAndClaim(u) PROVE jobs'[j].status # "none"
  BY <1>3 DEF FetchAndClaim, JobRow
<1>4. ASSUME NEW u \in Worker, MarkDone(u) PROVE jobs'[j].status # "none"
  BY <1>4 DEF MarkDone, JobRow
<1>5. ASSUME NEW u \in Worker, MarkMissingHandler(u) PROVE jobs'[j].status # "none"
  <2> DEFINE n == seen[u][cur[u]]
  <2>1. jobs' = [jobs EXCEPT ![cur[u]].status = "error", ![cur[u]].attempts = n]
    BY <1>5 DEF MarkMissingHandler
  <2> HIDE DEF n
  <2> QED BY <2>1 DEF JobRow
<1>6. ASSUME NEW u \in Worker, MarkFailure(u) PROVE jobs'[j].status # "none"
  <2> DEFINE n == seen[u][cur[u]] + 1
  <2>1. RetryLater(u, n) \/ GiveUp(u, n)
    BY <1>6 DEF MarkFailure
  <2> HIDE DEF n
  <2>2. CASE RetryLater(u, n) BY <2>2 DEF RetryLater, JobRow
  <2>3. CASE GiveUp(u, n) BY <2>3 DEF GiveUp, JobRow
  <2> QED BY <2>1, <2>2, <2>3
<1>7. ASSUME NEW i \in Job, Tick(i) PROVE jobs'[j].status # "none"
  BY <1>7 DEF Tick, LeaseExpires, JobBackoffElapses, OutboxBackoffElapses, JobRow
<1>8. ASSUME NEW u \in Worker,
             \/ BeginDispatch(u) \/ CommitDispatch(u) \/ RollbackDispatch(u)
             \/ StartNext(u) \/ HandlerReturns(u) \/ HandlerRaises(u)
             \/ HandlerTimesOut(u) \/ PropagateFailure(u) \/ EndBatch(u)
             \/ AbandonBatch(u) \/ Crash(u)
      PROVE jobs' = jobs
  BY <1>8 DEF BeginDispatch, CommitDispatch, RollbackDispatch, StartNext,
       HandlerReturns, HandlerRaises, HandlerTimesOut, PropagateFailure, EndBatch,
       AbandonBatch, Crash, tables
<1>9. CASE UNCHANGED jobs
  BY <1>9
<1> QED
  BY <1>1, <1>2, <1>3, <1>4, <1>5, <1>6, <1>7, <1>8, <1>9 DEF Next, WorkerStep, vars

\* Whatever the relay reports as sent is a row of the jobs table.
THEOREM HandOffLosesNothing == Spec => []SentHasJob
<1>1. Init => SentHasJob
  BY DEF Init, SentHasJob, NoTx
<1>2. TypeOK /\ SentHasJob /\ [Next]_vars => SentHasJob'
  <2> SUFFICES ASSUME TypeOK, SentHasJob, [Next]_vars, NEW j \in Job,
                      jobs'[j].status = "none"
               PROVE  /\ outbox'[j].status # "sent"
                      /\ \A w \in Worker : tx'[w][j] # "sent"
    BY DEF SentHasJob
  <2> USE DEF TypeOK
  <2>1. jobs[j].status = "none"
    BY RowsStay
  <2>2. outbox[j].status # "sent" /\ \A w \in Worker : tx[w][j] # "sent"
    BY <2>1 DEF SentHasJob
  <2> DEFINE Goal == /\ outbox'[j].status # "sent"
                     /\ \A w \in Worker : tx'[w][j] # "sent"
  <2>3. ASSUME NEW i \in Job, EnqueueOutbox(i) \/ EnqueueDb(i) PROVE Goal
    <3>1. tx' = tx
      BY <2>3 DEF EnqueueOutbox, EnqueueDb, local
    <3>2. outbox'[j].status # "sent"
      BY <2>2, <2>3 DEF EnqueueOutbox, EnqueueDb
    <3> QED BY <2>2, <3>1, <3>2
  <2>4. ASSUME NEW u \in Worker, BeginDispatch(u) PROVE Goal
    <3>1. outbox' = outbox
      BY <2>4 DEF BeginDispatch, tables
    <3>2. PICK rows \in SUBSET Dispatchable :
            tx' = [tx EXCEPT ![u] = [i \in Job |-> IF i \in rows THEN "locked"
                                                              ELSE "free"]]
      BY <2>4 DEF BeginDispatch
    <3> QED BY <2>2, <3>1, <3>2
  <2>5. ASSUME NEW u \in Worker, NEW i \in Job, Publish(u, i) PROVE Goal
    <3>1. outbox' = outbox
      BY <2>5 DEF Publish
    <3>2. CASE SendDb(i) /\ tx' = [tx EXCEPT ![u][i] = "sent"]
      <4>1. jobs'[i].status # "none"
        BY <3>2 DEF SendDb, NewJob
      <4> QED BY <2>2, <3>1, <3>2, <4>1
    <3>3. CASE tx' = [tx EXCEPT ![u][i] = "failed"]
      BY <2>2, <3>1, <3>3
    <3> QED BY <2>5, <3>2, <3>3 DEF Publish
  <2>6. ASSUME NEW u \in Worker, CommitDispatch(u) PROVE Goal
    <3>1. outbox'[j].status # "sent"
      BY <2>2, <2>6 DEF CommitDispatch, Settled
    <3> QED BY <2>2, <2>6, <3>1 DEF CommitDispatch, NoTx
  <2>7. ASSUME NEW u \in Worker, RollbackDispatch(u) \/ Crash(u) PROVE Goal
    <3>1. tx' = [tx EXCEPT ![u] = NoTx] /\ outbox' = outbox
      BY <2>7 DEF RollbackDispatch, Crash, tables
    <3> QED BY <2>2, <3>1 DEF NoTx
  <2>8. ASSUME NEW u \in Worker,
               \/ FetchAndClaim(u) \/ StartNext(u)
               \/ HandlerReturns(u) \/ HandlerRaises(u) \/ HandlerTimesOut(u)
               \/ MarkDone(u) \/ MarkMissingHandler(u) \/ MarkFailure(u)
               \/ PropagateFailure(u) \/ EndBatch(u) \/ AbandonBatch(u)
        PROVE Goal
    <3>1. UNCHANGED <<outbox, tx>>
      BY <2>8 DEF FetchAndClaim, StartNext, HandlerReturns, HandlerRaises,
           HandlerTimesOut, MarkDone, MarkMissingHandler, MarkFailure,
           PropagateFailure, EndBatch, AbandonBatch, tables
    <3> QED BY <2>2, <3>1
  <2>9. ASSUME NEW i \in Job, Tick(i) PROVE Goal
    <3>1. tx' = tx
      BY <2>9 DEF Tick, LeaseExpires, JobBackoffElapses, OutboxBackoffElapses, local
    <3>2. outbox'[j].status # "sent"
      BY <2>2, <2>9 DEF Tick, LeaseExpires, JobBackoffElapses, OutboxBackoffElapses,
                        OutboxRow
    <3> QED BY <2>2, <3>1, <3>2
  <2>10. CASE UNCHANGED vars
    BY <2>2, <2>10 DEF vars
  <2> QED
    BY <2>3, <2>4, <2>5, <2>6, <2>7, <2>8, <2>9, <2>10 DEF Next, WorkerStep
<1> QED BY <1>1, <1>2, TypeCorrect, PTL DEF Spec

-----------------------------------------------------------------------------
(* One worker.                                                             *)

LEMMA StepKeepsLoop == TypeOK /\ BatchInLoop /\ [Next]_vars => BatchInLoop'
<1> SUFFICES ASSUME TypeOK, BatchInLoop, [Next]_vars, NEW w \in Worker
             PROVE  /\ pc'[w] \in {"dispatch", "publish", "claim"} => batch'[w] = {}
                    /\ pc'[w] \in Busy \cup {"report"} => cur'[w] \in Job \ batch'[w]
  BY DEF BatchInLoop
<1> USE DEF TypeOK, BatchInLoop, Busy
<1> DEFINE Goal ==
      /\ pc'[w] \in {"dispatch", "publish", "claim"} => batch'[w] = {}
      /\ pc'[w] \in Busy \cup {"report"} => cur'[w] \in Job \ batch'[w]
<1>1. ASSUME NEW i \in Job, EnqueueOutbox(i) \/ EnqueueDb(i) \/ Tick(i)
      PROVE UNCHANGED <<pc, batch, cur>>
  BY <1>1 DEF EnqueueOutbox, EnqueueDb, Tick, LeaseExpires, JobBackoffElapses,
              OutboxBackoffElapses, local
<1>2. ASSUME NEW u \in Worker,
             \/ BeginDispatch(u) \/ (\E i \in Job : Publish(u, i))
             \/ CommitDispatch(u) \/ RollbackDispatch(u)
      PROVE Goal
  BY <1>2 DEF BeginDispatch, Publish, CommitDispatch, RollbackDispatch
<1>3. ASSUME NEW u \in Worker, FetchAndClaim(u) PROVE Goal
  BY <1>3 DEF FetchAndClaim
<1>4. ASSUME NEW u \in Worker, StartNext(u) PROVE Goal
  BY <1>4 DEF StartNext, Oldest
<1>5. ASSUME NEW u \in Worker,
             \/ HandlerReturns(u) \/ HandlerRaises(u) \/ HandlerTimesOut(u)
             \/ MarkDone(u) \/ MarkMissingHandler(u) \/ PropagateFailure(u)
      PROVE Goal
  BY <1>5 DEF HandlerReturns, HandlerRaises, HandlerTimesOut, MarkDone,
       MarkMissingHandler, PropagateFailure
<1>6. ASSUME NEW u \in Worker, MarkFailure(u) PROVE Goal
  <2>1. \E p \in {"process", "report"} : pc' = [pc EXCEPT ![u] = p]
    BY <1>6 DEF MarkFailure, RetryLater, GiveUp
  <2> QED BY <1>6, <2>1 DEF MarkFailure
<1>7. ASSUME NEW u \in Worker, EndBatch(u) \/ AbandonBatch(u) \/ Crash(u) PROVE Goal
  BY <1>7 DEF EndBatch, AbandonBatch, Crash, ForgetBatch
<1>8. CASE UNCHANGED <<pc, batch, cur>>
  BY <1>8
<1> QED
  BY <1>1, <1>2, <1>3, <1>4, <1>5, <1>6, <1>7, <1>8 DEF Next, WorkerStep, vars

\* The loop's control state and what it holds agree, with any number of workers.
LEMMA BatchInLoopInv == Spec => []BatchInLoop
<1>1. Init => BatchInLoop
  BY DEF Init, BatchInLoop, Busy
<1> QED BY <1>1, StepKeepsLoop, TypeCorrect, PTL DEF Spec

Solo == \A v, w \in Worker : v = w

\* With one worker, what it holds is running in the table, with the attempts
\* it read: expired leases do not matter, because the only process that could
\* reclaim the job is the one that is busy with it.
THEOREM HeldStaysRunning ==
  ASSUME Solo
  PROVE  Spec => []HeldIsRunning
<1>1. Init => HeldIsRunning
  BY DEF Init, HeldIsRunning, Held, Busy
<1>2. TypeOK /\ BatchInLoop /\ HeldIsRunning /\ [Next]_vars => HeldIsRunning'
  <2> SUFFICES ASSUME TypeOK, BatchInLoop, HeldIsRunning, [Next]_vars,
                      NEW w \in Worker, NEW j \in Job, j \in Held(w)'
               PROVE  jobs'[j].status = "running" /\ jobs'[j].attempts = seen'[w][j]
    <3>1. TypeOK /\ BatchInLoop /\ [Next]_vars => TypeOK' /\ BatchInLoop'
      BY StepKeepsTypes, StepKeepsLoop
    <3>2. TypeOK' /\ BatchInLoop' => \A w \in Worker : Held(w)' \subseteq Job
      BY DEF TypeOK, BatchInLoop, Held, Busy
    <3> QED BY <3>1, <3>2 DEF HeldIsRunning
  <2> USE DEF TypeOK
  <2> DEFINE Goal == jobs'[j].status = "running" /\ jobs'[j].attempts = seen'[w][j]
  <2>0. \A i \in Held(w) : jobs[i].status = "running" /\ jobs[i].attempts = seen[w][i]
    BY DEF HeldIsRunning
  <2>1. ASSUME NEW i \in Job, EnqueueOutbox(i) \/ EnqueueDb(i) PROVE Goal
    <3>1. Held(w)' = Held(w) /\ seen' = seen
      BY <2>1 DEF EnqueueOutbox, EnqueueDb, Held, local
    <3>2. jobs[j].status = "running"
      BY <2>0, <3>1
    <3>3. jobs'[j] = jobs[j]
      BY <2>1, <3>2 DEF EnqueueOutbox, EnqueueDb, Unused
    <3> QED BY <2>0, <3>1, <3>3
  <2>2. ASSUME NEW u \in Worker,
               BeginDispatch(u) \/ CommitDispatch(u) \/ RollbackDispatch(u)
        PROVE Goal
    <3>1. jobs' = jobs /\ seen' = seen /\ cur' = cur /\ batch' = batch
      BY <2>2 DEF BeginDispatch, CommitDispatch, RollbackDispatch, tables
    <3>2. Held(w)' \subseteq Held(w)
      BY <2>2, <3>1 DEF BeginDispatch, CommitDispatch, RollbackDispatch, Held, Busy
    <3> QED BY <2>0, <3>1, <3>2
  <2>3. ASSUME NEW u \in Worker, NEW i \in Job, Publish(u, i) PROVE Goal
    <3>1. Held(w)' = Held(w) /\ seen' = seen
      BY <2>3 DEF Publish, Held
    <3>2. jobs[j].status = "running"
      BY <2>0, <3>1
    <3>3. jobs'[j] = jobs[j]
      BY <2>3, <3>2 DEF Publish, SendDb
    <3> QED BY <2>0, <3>1, <3>3
  <2>4. ASSUME NEW u \in Worker, FetchAndClaim(u) PROVE Goal
    <3>1. u = w
      BY DEF Solo
    <3>2. Held(w)' = ReadyBatch
      BY <2>4, <3>1 DEF FetchAndClaim, Held, Busy
    <3>3. j \in ReadyBatch
      BY <3>2
    <3>4. jobs'[j] = [jobs[j] EXCEPT !.status = "running", !.fresh = TRUE]
      BY <2>4, <3>3 DEF FetchAndClaim
    <3>5. seen'[w][j] = jobs[j].attempts
      BY <2>4, <3>1, <3>3 DEF FetchAndClaim
    <3> QED BY <3>4, <3>5 DEF JobRow
  <2>5. ASSUME NEW u \in Worker, StartNext(u) PROVE Goal
    <3>1. u = w
      BY DEF Solo
    <3>2. Held(w)' \subseteq Held(w)
      BY <2>5, <3>1 DEF StartNext, Held, Oldest, Busy
    <3>3. jobs' = jobs /\ seen' = seen
      BY <2>5 DEF StartNext, tables
    <3> QED BY <2>0, <3>2, <3>3
  <2>6. ASSUME NEW u \in Worker,
               \/ HandlerReturns(u) \/ HandlerRaises(u) \/ HandlerTimesOut(u)
               \/ PropagateFailure(u)
        PROVE Goal
    <3>1. u = w
      BY DEF Solo
    <3>2. jobs' = jobs /\ seen' = seen /\ cur' = cur /\ batch' = batch
      BY <2>6 DEF HandlerReturns, HandlerRaises, HandlerTimesOut, PropagateFailure, tables
    <3>3. Held(w)' \subseteq Held(w)
      BY <2>6, <3>1, <3>2 DEF HandlerReturns, HandlerRaises, HandlerTimesOut,
         PropagateFailure, Held, Busy
    <3> QED BY <2>0, <3>2, <3>3
  <2>7. ASSUME NEW u \in Worker, MarkDone(u) \/ MarkMissingHandler(u) \/ MarkFailure(u)
        PROVE Goal
    <3>1. u = w
      BY DEF Solo
    <3>2. Held(w)' = batch[w] /\ cur[w] \notin batch[w] /\ seen' = seen
      BY <2>7, <3>1 DEF MarkDone, MarkMissingHandler, MarkFailure, RetryLater, GiveUp,
         Held, Busy, BatchInLoop
    <3>3. j # cur[w]
      BY <3>2
    <3>4. jobs'[j] = jobs[j]
      <4>1. MarkDone(u) => jobs'[j] = jobs[j]
        BY <3>1, <3>3 DEF MarkDone
      <4>2. MarkMissingHandler(u) => jobs'[j] = jobs[j]
        BY <3>1, <3>3 DEF MarkMissingHandler
      <4>3. MarkFailure(u) => jobs'[j] = jobs[j]
        BY <3>1, <3>3 DEF MarkFailure, RetryLater, GiveUp
      <4> QED BY <2>7, <4>1, <4>2, <4>3
    <3>5. j \in Held(w)
      BY <3>2 DEF Held
    <3> QED BY <2>0, <3>2, <3>4, <3>5
  <2>8. ASSUME NEW u \in Worker, EndBatch(u) \/ AbandonBatch(u) \/ Crash(u) PROVE Goal
    <3>1. u = w
      BY DEF Solo
    <3>2. Held(w)' = {}
      BY <2>8, <3>1 DEF EndBatch, AbandonBatch, Crash, ForgetBatch, Held, Busy
    <3> QED BY <3>2
  <2>9. ASSUME NEW i \in Job, Tick(i) PROVE Goal
    <3>1. Held(w)' = Held(w) /\ seen' = seen
      BY <2>9 DEF Tick, LeaseExpires, JobBackoffElapses, OutboxBackoffElapses, Held, local
    <3>2. CASE LeaseExpires(i)
      BY <2>0, <3>1, <3>2 DEF LeaseExpires, JobRow
    <3>3. CASE JobBackoffElapses(i)
      BY <2>0, <3>1, <3>3 DEF JobBackoffElapses, JobRow
    <3>4. CASE OutboxBackoffElapses(i)
      BY <2>0, <3>1, <3>4 DEF OutboxBackoffElapses
    <3> QED BY <2>9, <3>2, <3>3, <3>4 DEF Tick
  <2>10. CASE UNCHANGED vars
    <3>1. Held(w)' = Held(w) /\ seen' = seen /\ jobs' = jobs
      BY <2>10 DEF vars, Held
    <3> QED BY <2>0, <3>1
  <2> QED
    BY <2>1, <2>2, <2>3, <2>4, <2>5, <2>6, <2>7, <2>8, <2>9, <2>10
    DEF Next, WorkerStep
<1> QED BY <1>1, <1>2, TypeCorrect, BatchInLoopInv, PTL DEF Spec

\* With one worker a verdict is final: no republication, reclaimed lease or
\* restart takes a job out of done or error.
THEOREM VerdictsAreFinal ==
  ASSUME Solo
  PROVE  Spec => TerminalIsFinal
<1>1. TypeOK /\ BatchInLoop /\ HeldIsRunning /\ [Next]_vars => [FinalVerdict]_vars
  <2> SUFFICES ASSUME TypeOK, BatchInLoop, HeldIsRunning, Next, NEW j \in Job,
                      jobs[j].status \in {"done", "error"}
               PROVE  jobs'[j].status = jobs[j].status
    BY DEF FinalVerdict
  <2> USE DEF TypeOK
  <2>1. ASSUME NEW i \in Job, EnqueueOutbox(i) \/ EnqueueDb(i)
        PROVE jobs'[j] = jobs[j]
    BY <2>1 DEF EnqueueOutbox, EnqueueDb, Unused
  <2>2. ASSUME NEW u \in Worker, NEW i \in Job, Publish(u, i)
        PROVE jobs'[j] = jobs[j]
    BY <2>2 DEF Publish, SendDb
  <2>3. ASSUME NEW u \in Worker, FetchAndClaim(u) PROVE jobs'[j] = jobs[j]
    <3>1. j \notin ReadyBatch
      BY DEF ReadyBatch, Oldest, Claimable
    <3> QED BY <2>3, <3>1 DEF FetchAndClaim
  <2>4. ASSUME NEW u \in Worker, MarkDone(u) \/ MarkMissingHandler(u) \/ MarkFailure(u)
        PROVE jobs'[j] = jobs[j]
    <3>1. pc[u] \in Busy
      BY <2>4 DEF MarkDone, MarkMissingHandler, MarkFailure, Busy
    <3>2. jobs[cur[u]].status = "running"
      BY <3>1 DEF HeldIsRunning, Held
    <3>3. j # cur[u]
      BY <3>2
    <3>4. MarkDone(u) => jobs'[j] = jobs[j]
      BY <3>3 DEF MarkDone
    <3>5. MarkMissingHandler(u) => jobs'[j] = jobs[j]
      BY <3>3 DEF MarkMissingHandler
    <3>6. MarkFailure(u) => jobs'[j] = jobs[j]
      BY <3>3 DEF MarkFailure, RetryLater, GiveUp
    <3> QED BY <2>4, <3>4, <3>5, <3>6
  <2>5. ASSUME NEW i \in Job, Tick(i) PROVE jobs'[j].status = jobs[j].status
    BY <2>5 DEF Tick, LeaseExpires, JobBackoffElapses, OutboxBackoffElapses, JobRow
  <2>6. ASSUME NEW u \in Worker,
               \/ BeginDispatch(u) \/ CommitDispatch(u) \/ RollbackDispatch(u)
               \/ StartNext(u) \/ HandlerReturns(u) \/ HandlerRaises(u)
               \/ HandlerTimesOut(u) \/ PropagateFailure(u) \/ EndBatch(u)
               \/ AbandonBatch(u) \/ Crash(u)
        PROVE jobs' = jobs
    BY <2>6 DEF BeginDispatch, CommitDispatch, RollbackDispatch, StartNext,
         HandlerReturns, HandlerRaises, HandlerTimesOut, PropagateFailure, EndBatch,
         AbandonBatch, Crash, tables
  <2> QED BY <2>1, <2>2, <2>3, <2>4, <2>5, <2>6 DEF Next, WorkerStep
<1> QED
  BY <1>1, TypeCorrect, BatchInLoopInv, HeldStaysRunning, PTL DEF Spec, TerminalIsFinal
-----------------------------------------------------------------------------
(* Attempts.                                                               *)

\* A worker counts from an attempt that was still permitted when it claimed.
SeenBounded == \A w \in Worker, j \in Job : seen[w][j] <= MaxAttempts

LEMMA SettledBounded ==
  ASSUME NEW row \in OutboxRow, NEW mark \in TxMark, row.attempts <= OutboxMax,
         row.status = "queued" => row.attempts < OutboxMax,
         row.status = "dead" => row.attempts = OutboxMax,
         mark # "free" => row.status = "queued"
  PROVE  LET new == Settled(row, mark)
         IN  /\ new.attempts <= OutboxMax
             /\ new.status = "queued" => new.attempts < OutboxMax
             /\ new.status = "dead" => new.attempts = OutboxMax
<1> USE LimitAssumption
<1> DEFINE n == row.attempts + 1
<1>n. n \in Nat /\ (mark # "free" => n <= OutboxMax)
  BY DEF OutboxRow
<1>1. CASE mark = "sent"
  <2>1. Settled(row, mark) = [row EXCEPT !.status = "sent", !.attempts = n]
    BY <1>1 DEF Settled
  <2>2. n <= OutboxMax
    BY <1>n, <1>1
  <2> HIDE DEF n
  <2> QED BY <2>1, <2>2 DEF OutboxRow
<1>2. CASE mark = "failed"
  <2>1. Settled(row, mark) = [status |-> IF n >= OutboxMax THEN "dead" ELSE "queued",
                              attempts |-> n, ready |-> FALSE]
    BY <1>2 DEF Settled
  <2>2. n <= OutboxMax
    BY <1>n, <1>2
  <2> HIDE DEF n
  <2> QED BY <1>n, <2>1, <2>2
<1>3. CASE mark \notin {"sent", "failed"} BY <1>3 DEF Settled
<1> QED BY <1>1, <1>2, <1>3

AttemptsInv == AttemptsBounded /\ SeenBounded

LEMMA StepKeepsAttempts ==
  TypeOK /\ LockedByOne /\ BatchInLoop /\ AttemptsInv /\ [Next]_vars => AttemptsInv'
<1> SUFFICES ASSUME TypeOK, LockedByOne, BatchInLoop, AttemptsInv, [Next]_vars PROVE AttemptsInv'
  OBVIOUS
<1> USE LimitAssumption DEF TypeOK, AttemptsInv
<1>1. ASSUME NEW i \in Job, EnqueueOutbox(i) \/ EnqueueDb(i) PROVE AttemptsInv'
  <2>1. seen' = seen
    BY <1>1 DEF EnqueueOutbox, EnqueueDb, local
  <2>2. CASE EnqueueOutbox(i)
    BY <2>1, <2>2 DEF EnqueueOutbox, AttemptsBounded, SeenBounded
  <2>3. CASE EnqueueDb(i)
    BY <2>1, <2>3 DEF EnqueueDb, NewJob, AttemptsBounded, SeenBounded
  <2> QED BY <1>1, <2>2, <2>3
<1>2. ASSUME NEW u \in Worker, NEW i \in Job, Publish(u, i) PROVE AttemptsInv'
  <2>1. outbox' = outbox /\ seen' = seen /\ (jobs' = jobs \/ SendDb(i))
    BY <1>2 DEF Publish
  <2>2. CASE jobs' = jobs
    BY <2>1, <2>2 DEF AttemptsBounded, SeenBounded
  <2>3. CASE SendDb(i)
    BY <2>1, <2>3 DEF SendDb, NewJob, AttemptsBounded, SeenBounded
  <2> QED BY <2>1, <2>2, <2>3
<1>3. ASSUME NEW u \in Worker, CommitDispatch(u) PROVE AttemptsInv'
  <2>1. jobs' = jobs /\ seen' = seen /\ outbox' = [j \in Job |-> Settled(outbox[j], tx[u][j])]
    BY <1>3 DEF CommitDispatch
  <2>2. ASSUME NEW j \in Job
        PROVE  /\ outbox'[j].attempts <= OutboxMax
               /\ outbox'[j].status = "queued" => outbox'[j].attempts < OutboxMax
               /\ outbox'[j].status = "dead" => outbox'[j].attempts = OutboxMax
    <3>1. tx[u][j] # "free" => outbox[j].status = "queued"
      BY DEF LockedByOne
    <3> QED BY <2>1, <3>1, SettledBounded DEF AttemptsBounded
  <2> QED BY <2>1, <2>2 DEF AttemptsBounded, SeenBounded
<1>4. ASSUME NEW u \in Worker, FetchAndClaim(u) PROVE AttemptsInv'
  <2>1. outbox' = outbox
    BY <1>4 DEF FetchAndClaim
  <2>2. \A j \in ReadyBatch : jobs[j].attempts <= MaxAttempts
    BY DEF ReadyBatch, Oldest, Claimable, AttemptsBounded
  <2>3. \A j \in Job : /\ jobs'[j].attempts = jobs[j].attempts
                       /\ jobs'[j].status = jobs[j].status \/ jobs[j].attempts <= MaxAttempts
    BY <1>4, <2>2 DEF FetchAndClaim, JobRow
  <2>4. seen' = [seen EXCEPT ![u] = [j \in Job |-> IF j \in ReadyBatch
                                                  THEN jobs[j].attempts ELSE 0]]
    BY <1>4 DEF FetchAndClaim
  <2>5. SeenBounded'
    BY <2>2, <2>4 DEF SeenBounded
  <2>6. AttemptsBounded'
    BY <2>1, <2>3 DEF AttemptsBounded, JobRow
  <2> QED BY <2>5, <2>6
<1>5. ASSUME NEW u \in Worker, MarkDone(u) PROVE AttemptsInv'
  <2>1. \A j \in Job : /\ jobs'[j].attempts = jobs[j].attempts
                       /\ jobs'[j].status \in {jobs[j].status, "done"}
    BY <1>5 DEF MarkDone, JobRow
  <2>2. UNCHANGED <<outbox, seen>>
    BY <1>5 DEF MarkDone
  <2> QED BY <2>1, <2>2 DEF AttemptsBounded, SeenBounded
<1>6. ASSUME NEW u \in Worker, MarkMissingHandler(u) \/ MarkFailure(u) PROVE AttemptsInv'
  <2> DEFINE k == seen[u][cur[u]]
  <2>1. cur[u] \in Job
    BY <1>6 DEF MarkMissingHandler, MarkFailure, BatchInLoop, Busy
  <2>2. k \in Nat /\ k <= MaxAttempts
    BY <2>1 DEF SeenBounded
  <2>3. UNCHANGED <<outbox, seen>>
    BY <1>6 DEF MarkMissingHandler, MarkFailure
  <2>4. /\ \A j \in Job \ {cur[u]} : jobs'[j] = jobs[j]
        /\ \/ jobs'[cur[u]].status = "error" /\ jobs'[cur[u]].attempts \in {k, k + 1}
           \/ /\ k < MaxAttempts
              /\ jobs'[cur[u]].status = "queued" /\ jobs'[cur[u]].attempts = k + 1
    <3>1. /\ jobs \in [Job -> JobRow]
          /\ jobs[cur[u]] = [status |-> jobs[cur[u]].status, attempts |-> jobs[cur[u]].attempts,
                             ready |-> jobs[cur[u]].ready, fresh |-> jobs[cur[u]].fresh,
                             created |-> jobs[cur[u]].created]
      BY <2>1 DEF JobRow
    <3>2. CASE MarkMissingHandler(u)
      <4>1. jobs' = [jobs EXCEPT ![cur[u]].status = "error", ![cur[u]].attempts = k]
        BY <3>2 DEF MarkMissingHandler
      <4> HIDE DEF k, TypeOK
      <4> QED BY <2>1, <3>1, <4>1
    <3>3. CASE MarkFailure(u)
      <4>1. IF k < MaxAttempts THEN RetryLater(u, k + 1) ELSE GiveUp(u, k + 1)
        BY <3>3 DEF MarkFailure
      <4> HIDE DEF k, TypeOK
      <4>2. CASE k < MaxAttempts
        <5>1. jobs' = [jobs EXCEPT ![cur[u]].status = "queued", ![cur[u]].attempts = k + 1,
                                   ![cur[u]].ready = FALSE]
          BY <4>1, <4>2 DEF RetryLater
        <5> QED BY <2>1, <3>1, <4>2, <5>1
      <4>3. CASE ~(k < MaxAttempts)
        <5>1. jobs' = [jobs EXCEPT ![cur[u]].status = "error", ![cur[u]].attempts = k + 1]
          BY <4>1, <4>3 DEF GiveUp
        <5> QED BY <2>1, <3>1, <5>1
      <4> QED BY <4>2, <4>3
    <3> QED BY <1>6, <3>2, <3>3
  <2>5. \A j \in Job \ {cur[u]} : jobs'[j] = jobs[j]
    BY <2>4
  <2>6. /\ jobs'[cur[u]].attempts <= MaxAttempts + 1
        /\ jobs'[cur[u]].status \in {"queued", "error"}
        /\ jobs'[cur[u]].status = "queued" => jobs'[cur[u]].attempts <= MaxAttempts
    <3> HIDE DEF k, TypeOK
    <3> QED BY <2>2, <2>4
  <2> HIDE DEF k, TypeOK
  <2> QED BY <2>3, <2>5, <2>6 DEF AttemptsBounded, SeenBounded
<1>7. ASSUME NEW u \in Worker, EndBatch(u) \/ AbandonBatch(u) \/ Crash(u) PROVE AttemptsInv'
  <2>1. UNCHANGED tables /\ seen' = [seen EXCEPT ![u] = Unseen]
    BY <1>7 DEF EndBatch, AbandonBatch, Crash, ForgetBatch
  <2> QED BY <2>1 DEF AttemptsBounded, SeenBounded, Unseen, tables
<1>8. ASSUME NEW i \in Job, Tick(i) PROVE AttemptsInv'
  <2>1. seen' = seen
    BY <1>8 DEF Tick, LeaseExpires, JobBackoffElapses, OutboxBackoffElapses, local
  <2>2. \A j \in Job : /\ jobs'[j].attempts = jobs[j].attempts
                       /\ jobs'[j].status = jobs[j].status
                       /\ outbox'[j].attempts = outbox[j].attempts
                       /\ outbox'[j].status = outbox[j].status
    BY <1>8 DEF Tick, LeaseExpires, JobBackoffElapses, OutboxBackoffElapses, JobRow, OutboxRow
  <2> QED BY <2>1, <2>2 DEF AttemptsBounded, SeenBounded
<1>9. ASSUME NEW u \in Worker,
             \/ BeginDispatch(u) \/ RollbackDispatch(u)
             \/ StartNext(u) \/ HandlerReturns(u) \/ HandlerRaises(u)
             \/ HandlerTimesOut(u) \/ PropagateFailure(u)
      PROVE UNCHANGED <<outbox, jobs, seen>>
  BY <1>9 DEF BeginDispatch, RollbackDispatch, StartNext, HandlerReturns,
       HandlerRaises, HandlerTimesOut, PropagateFailure, tables
<1>10. CASE UNCHANGED <<outbox, jobs, seen>>
  BY <1>10 DEF AttemptsBounded, SeenBounded
<1> QED
  BY <1>1, <1>2, <1>3, <1>4, <1>5, <1>6, <1>7, <1>8, <1>9, <1>10
  DEF Next, WorkerStep, vars

\* No row of either table is tried more often than its limit allows, with any
\* number of workers, although the limits are compared before they are counted.
THEOREM AttemptsStayBounded == Spec => []AttemptsBounded
<1>1. Init => AttemptsInv
  BY LimitAssumption DEF Init, AttemptsInv, AttemptsBounded, SeenBounded, Unseen
<1>2. AttemptsInv => AttemptsBounded
  BY DEF AttemptsInv
<1> QED
  BY <1>1, <1>2, StepKeepsAttempts, TypeCorrect, LocksExclusive, BatchInLoopInv, PTL DEF Spec

-----------------------------------------------------------------------------
(* The queue implements JobLife.                                           *)

lives == [j \in Job |-> Phases(j)]
Calm(j) == jobs'[j].status = jobs[j].status /\ outbox'[j].status = outbox[j].status

\* A job whose two rows keep their statuses keeps its phase.
LEMMA CalmStays == ASSUME NEW j \in Job, Calm(j) PROVE Phases(j)' = Phases(j)
BY DEF Calm, Phases

LEMMA AllCalm == ASSUME \A j \in Job : Calm(j) PROVE UNCHANGED lives
BY CalmStays DEF lives

\* Two steps of JobLife, as moves of one job.
LEMMA OneMoves ==
  ASSUME NEW i \in Job, \A j \in Job \ {i} : Calm(j),
         \/ Phases(i)' = Phases(i)
         \/ Phases(i) = "absent" /\ Phases(i)' = "pending"
         \/ Phases(i) = "pending" /\ Phases(i)' = "ended"
  PROVE  Life!Next \/ UNCHANGED lives
<1>1. \A j \in Job \ {i} : Phases(j)' = Phases(j)
  BY CalmStays
<1>2. lives' = [lives EXCEPT ![i] = Phases(i)'] /\ lives[i] = Phases(i)
  BY <1>1 DEF lives
<1>3. CASE Phases(i)' = Phases(i)
  BY <1>1, <1>3 DEF lives
<1>4. CASE Phases(i) = "absent" /\ Phases(i)' = "pending"
  <2>1. Life!Submit(i)
    BY <1>2, <1>4 DEF Life!Submit, lives
  <2> QED BY <2>1 DEF Life!Next
<1>5. CASE Phases(i) = "pending" /\ Phases(i)' = "ended"
  <2>1. Life!End(i)
    BY <1>2, <1>5 DEF Life!End, lives
  <2> QED BY <2>1 DEF Life!Next
<1> QED BY <1>3, <1>4, <1>5

\* A commit of the relay loses the jobs whose row dies before any insert.
LEMMA CommitLoses ==
  ASSUME TypeOK, SentHasJob, LockedByOne, NEW u \in Worker, CommitDispatch(u)
  PROVE  Life!Next
<1> DEFINE gone == {j \in Job : jobs[j].status = "none" /\ outbox[j].status = "queued"
                                /\ outbox'[j].status = "dead"}
<1>1. jobs' = jobs /\ \A j \in Job : outbox'[j] = Settled(outbox[j], tx[u][j])
  BY DEF CommitDispatch
<1>2. ASSUME NEW j \in Job
      PROVE  \/ outbox'[j].status = outbox[j].status
             \/ outbox[j].status = "queued" /\ outbox'[j].status \in {"queued", "dead"}
             \/ outbox[j].status = "queued" /\ outbox'[j].status = "sent" /\ jobs[j].status # "none"
  <2>1. outbox[j] \in OutboxRow /\ tx[u][j] \in TxMark
    BY DEF TypeOK
  <2>2. tx[u][j] # "free" => outbox[j].status = "queued"
    BY DEF LockedByOne
  <2>3. tx[u][j] = "sent" => jobs[j].status # "none"
    BY DEF SentHasJob
  <2>4. CASE tx[u][j] = "sent"
    <3>1. outbox'[j] = [outbox[j] EXCEPT !.status = "sent", !.attempts = outbox[j].attempts + 1]
      BY <1>1, <2>4 DEF Settled
    <3> QED BY <2>1, <2>2, <2>3, <2>4, <3>1 DEF OutboxRow
  <2>5. CASE tx[u][j] = "failed"
    <3> DEFINE n == outbox[j].attempts + 1
    <3>0. outbox'[j] = [status |-> IF n >= OutboxMax THEN "dead" ELSE "queued",
                        attempts |-> n, ready |-> FALSE]
      BY <1>1, <2>5 DEF Settled
    <3> HIDE DEF n
    <3>1. outbox'[j].status \in {"queued", "dead"}
      BY <3>0
    <3> QED BY <2>2, <2>5, <3>1
  <2>6. CASE tx[u][j] \notin {"sent", "failed"}
    <3>1. outbox'[j] = outbox[j]
      BY <1>1, <2>6 DEF Settled
    <3> QED BY <3>1
  <2> QED BY <2>4, <2>5, <2>6
<1>3. ASSUME NEW j \in Job
      PROVE  /\ j \in gone => Phases(j) = "pending" /\ Phases(j)' = "lost"
             /\ j \notin gone => Phases(j)' = Phases(j)
  <2>1. jobs'[j] = jobs[j]
    BY <1>1
  <2>2. CASE j \in gone
    BY <2>1, <2>2 DEF Phases
  <2>3. CASE j \notin gone
    <3>1. jobs[j].status \in {"none", "queued", "running", "done", "error"}
      BY DEF TypeOK, JobRow
    <3>2. CASE outbox'[j].status = outbox[j].status
      BY <2>1, <3>2, CalmStays DEF Calm
    <3>3. CASE /\ outbox[j].status = "queued" /\ outbox'[j].status \in {"queued", "dead", "sent"}
               /\ jobs[j].status # "none"
      BY <2>1, <3>1, <3>3 DEF Phases
    <3> QED BY <1>2, <2>3, <3>2, <3>3
  <2> QED BY <2>2, <2>3
<1> HIDE DEF gone
<1>4. gone \in SUBSET Job
  BY DEF gone
<1>5. \A j \in gone : lives[j] = "pending"
  BY <1>3, <1>4 DEF lives
<1>6. lives' = [j \in Job |-> IF j \in gone THEN "lost" ELSE lives[j]]
  BY <1>3 DEF lives
<1>7. Life!Lose(gone)
  BY <1>5, <1>6 DEF Life!Lose, lives
<1> QED BY <1>4, <1>7 DEF Life!Next

LEMMA StepRefines ==
  ASSUME TypeOK, SentHasJob, LockedByOne, BatchInLoop, HeldIsRunning, [Next]_vars
  PROVE  Life!Next \/ UNCHANGED lives
<1> DEFINE Goal == Life!Next \/ UNCHANGED lives
<1> USE DEF TypeOK
<1>1. ASSUME NEW i \in Job, EnqueueOutbox(i) \/ EnqueueDb(i) PROVE Goal
  <2>1. Phases(i) = "absent"
    BY <1>1 DEF EnqueueOutbox, EnqueueDb, Unused, Phases
  <2>2. CASE EnqueueOutbox(i)
    <3>1. jobs' = jobs /\ outbox'[i].status = "queued" /\ \A j \in Job \ {i} : outbox'[j] = outbox[j]
      BY <2>2 DEF EnqueueOutbox
    <3>2. Phases(i)' = "pending"
      BY <2>2, <3>1 DEF EnqueueOutbox, Unused, Phases
    <3> QED BY <2>1, <3>1, <3>2, OneMoves DEF Calm
  <2>3. CASE EnqueueDb(i)
    <3>1. outbox' = outbox /\ jobs'[i].status = "queued" /\ \A j \in Job \ {i} : jobs'[j] = jobs[j]
      BY <2>3 DEF EnqueueDb, NewJob
    <3>2. Phases(i)' = "pending"
      BY <3>1 DEF Phases
    <3> QED BY <2>1, <3>1, <3>2, OneMoves DEF Calm
  <2> QED BY <1>1, <2>2, <2>3
<1>2. ASSUME NEW u \in Worker, NEW i \in Job, Publish(u, i) PROVE Goal
  <2>1. outbox' = outbox /\ outbox[i].status = "queued"
    BY <1>2 DEF Publish, LockedByOne
  <2>2. jobs' = jobs \/ (/\ jobs[i].status = "none" /\ jobs'[i].status = "queued"
                         /\ \A j \in Job \ {i} : jobs'[j] = jobs[j])
    BY <1>2 DEF Publish, SendDb, NewJob
  <2>3. Phases(i)' = Phases(i)
    BY <2>1, <2>2 DEF Phases
  <2> QED BY <2>1, <2>2, <2>3, OneMoves DEF Calm
<1>3. ASSUME NEW u \in Worker, CommitDispatch(u) PROVE Goal
  BY <1>3, CommitLoses
<1>4. ASSUME NEW u \in Worker, FetchAndClaim(u) PROVE Goal
  <2>1. \A j \in ReadyBatch : jobs[j].status \in {"queued", "running"}
    BY DEF ReadyBatch, Oldest, Claimable
  <2>2. outbox' = outbox
        /\ \A j \in Job : \/ jobs'[j] = jobs[j]
                          \/ jobs[j].status \in {"queued", "running"} /\ jobs'[j].status = "running"
    BY <1>4, <2>1 DEF FetchAndClaim, JobRow
  <2>3. \A j \in Job : Phases(j)' = Phases(j)
    BY <2>2 DEF Phases
  <2> QED BY <2>3 DEF lives
<1>5. ASSUME NEW u \in Worker, MarkDone(u) \/ MarkMissingHandler(u) \/ MarkFailure(u)
      PROVE Goal
  <2>1. pc[u] \in Busy
    BY <1>5 DEF MarkDone, MarkMissingHandler, MarkFailure, Busy
  <2>2. cur[u] \in Job /\ jobs[cur[u]].status = "running" /\ outbox' = outbox
    BY <1>5, <2>1 DEF HeldIsRunning, Held, BatchInLoop, MarkDone, MarkMissingHandler, MarkFailure
  <2>3. /\ \A j \in Job \ {cur[u]} : jobs'[j] = jobs[j]
        /\ jobs'[cur[u]].status \in {"done", "error", "queued"}
    <3>1. jobs \in [Job -> JobRow] /\ jobs[cur[u]] \in JobRow
      BY <2>2
    <3> HIDE DEF TypeOK
    <3>2. CASE MarkDone(u)
      BY <2>2, <3>1, <3>2 DEF MarkDone, JobRow
    <3>3. CASE MarkMissingHandler(u)
      <4> DEFINE k == seen[u][cur[u]]
      <4>1. jobs' = [jobs EXCEPT ![cur[u]].status = "error", ![cur[u]].attempts = k]
        BY <3>3 DEF MarkMissingHandler
      <4> HIDE DEF k
      <4> QED BY <2>2, <3>1, <4>1 DEF JobRow
    <3>4. CASE MarkFailure(u)
      <4> DEFINE k == seen[u][cur[u]] + 1
      <4>1. RetryLater(u, k) \/ GiveUp(u, k)
        BY <3>4 DEF MarkFailure
      <4> HIDE DEF k
      <4>2. CASE RetryLater(u, k)
        BY <2>2, <3>1, <4>2 DEF RetryLater, JobRow
      <4>3. CASE GiveUp(u, k)
        BY <2>2, <3>1, <4>3 DEF GiveUp, JobRow
      <4> QED BY <4>1, <4>2, <4>3
    <3> QED BY <1>5, <3>2, <3>3, <3>4
  <2> HIDE DEF TypeOK
  <2>4. PICK i \in Job : i = cur[u]
    BY <2>2
  <2>5. \A j \in Job \ {i} : Calm(j)
    BY <2>2, <2>3, <2>4 DEF Calm
  <2>6. Phases(i) = "pending" /\ (Phases(i)' = "pending" \/ Phases(i)' = "ended")
    BY <2>2, <2>3, <2>4 DEF Phases
  <2> QED BY <2>5, <2>6, OneMoves
<1>6. ASSUME NEW i \in Job, Tick(i) PROVE Goal
  <2>1. \A j \in Job : /\ jobs'[j].status = jobs[j].status
                       /\ outbox'[j].status = outbox[j].status
    <3>1. CASE LeaseExpires(i)
      BY <3>1 DEF LeaseExpires, JobRow
    <3>2. CASE JobBackoffElapses(i)
      BY <3>2 DEF JobBackoffElapses, JobRow
    <3>3. CASE OutboxBackoffElapses(i)
      BY <3>3 DEF OutboxBackoffElapses, OutboxRow
    <3> QED BY <1>6, <3>1, <3>2, <3>3 DEF Tick
  <2> QED BY <2>1, AllCalm DEF Calm
<1>7. ASSUME NEW u \in Worker,
             \/ BeginDispatch(u) \/ RollbackDispatch(u)
             \/ StartNext(u) \/ HandlerReturns(u) \/ HandlerRaises(u)
             \/ HandlerTimesOut(u) \/ PropagateFailure(u) \/ EndBatch(u)
             \/ AbandonBatch(u) \/ Crash(u)
      PROVE UNCHANGED tables
  BY <1>7 DEF BeginDispatch, RollbackDispatch, StartNext, HandlerReturns,
       HandlerRaises, HandlerTimesOut, PropagateFailure, EndBatch,
       AbandonBatch, Crash, tables
<1>8. CASE UNCHANGED tables
  <2>1. \A j \in Job : Calm(j)
    BY <1>8 DEF tables, Calm
  <2> QED BY <2>1, AllCalm
<1>9. CASE UNCHANGED vars
  BY <1>8, <1>9 DEF vars, tables
<1> QED
  BY <1>1, <1>2, <1>3, <1>4, <1>5, <1>6, <1>7, <1>8, <1>9 DEF Next, WorkerStep

\* With one worker the queue implements JobLife: a job it accepted stays
\* pending until it ends or the relay gives up on it, and each is for good.
THEOREM ImplementsJobLife ==
  ASSUME Solo
  PROVE  Spec => ImplementsLife
<1>1. Init => Life!Init
  BY DEF Init, Life!Init, Phases
<1>2. TypeOK /\ SentHasJob /\ LockedByOne /\ BatchInLoop /\ HeldIsRunning /\ [Next]_vars
        => [Life!Next]_lives
  BY StepRefines
<1> QED
  BY <1>1, <1>2, TypeCorrect, HandOffLosesNothing, LocksExclusive, BatchInLoopInv,
     HeldStaysRunning, PTL DEF Spec, ImplementsLife, Life!Spec, lives


-----------------------------------------------------------------------------
(* How often the handler of a job is called.  In the inductive invariant   *)
(* the counters are tied to the row: an attempt is counted after the run   *)
(* it pays for, so a row in the hands of a worker may be one run ahead,    *)
(* and each fault excuses one more.                                        *)

Calling == {"handler", "returned", "raised", "timedout"}
InHand(j) == \E w \in Worker : pc[w] \in Busy /\ cur[w] = j
Called(j) == \E w \in Worker : pc[w] \in Calling /\ cur[w] = j
Back(j) == \E w \in Worker : pc[w] = "returned" /\ cur[w] = j
Ended(j) == jobs[j].status \in {"done", "error"}

Counters == runs \in [Job -> Nat] /\ completions \in [Job -> Nat]

RunsFit(j) ==
    /\ jobs[j].status = "none" => runs[j] = 0
    /\ jobs[j].attempts <= runs[j]
    /\ runs[j] <= jobs[j].attempts + 1 + faults
    /\ runs[j] <= jobs[j].attempts + faults \/ InHand(j) \/ Ended(j)
    /\ Called(j) => jobs[j].attempts < runs[j]

CompletionsFit(j) ==
    /\ completions[j] <= 1 + faults
    /\ completions[j] <= faults \/ Back(j) \/ jobs[j].status = "done"
    /\ Back(j) => completions[j] > 0

Earned(j) ==
    /\ jobs[j].status = "done" => completions[j] > 0
    /\ jobs[j].status = "error" /\ j \notin NoHandler => runs[j] > MaxAttempts

Unhandled == \A w \in Worker : pc[w] = "unhandled" => cur[w] \in NoHandler

Fits(j) == RunsFit(j) /\ CompletionsFit(j) /\ Earned(j)

HInv ==
    /\ Counters
    /\ \A j \in Job : Fits(j)
    /\ Unhandled

\* What is proved above of one worker.
Known == TypeOK /\ BatchInLoop /\ HeldIsRunning

-----------------------------------------------------------------------------
(* One worker, and the counters.                                           *)

LEMMA OneHand ==
  ASSUME Solo, NEW u \in Worker, NEW j \in Job
  PROVE  /\ InHand(j) <=> pc[u] \in Busy /\ cur[u] = j
         /\ Called(j) <=> pc[u] \in Calling /\ cur[u] = j
         /\ Back(j) <=> pc[u] = "returned" /\ cur[u] = j
         /\ InHand(j)' <=> pc'[u] \in Busy /\ cur'[u] = j
         /\ Called(j)' <=> pc'[u] \in Calling /\ cur'[u] = j
         /\ Back(j)' <=> pc'[u] = "returned" /\ cur'[u] = j
<1>1. \A v \in Worker : v = u
  BY DEF Solo
<1> QED BY <1>1 DEF InHand, Called, Back, Busy, Calling

\* What a step adds to the counters.
LEMMA Counting ==
  ASSUME Solo, Counters, HNext, NEW u \in Worker, NEW j \in Job
  PROVE  /\ Counters'
         /\ runs'[j] = runs[j] + IF pc[u] = "process" /\ pc'[u] = "handler" /\ cur'[u] = j
                                 THEN 1 ELSE 0
         /\ completions'[j] = completions[j]
              + IF pc[u] = "handler" /\ pc'[u] = "returned" /\ cur[u] = j THEN 1 ELSE 0
<1>1. Worker = {u}
  BY DEF Solo
<1>2. ASSUME NEW i \in Job
      PROVE  /\ Started(i) = IF pc[u] = "process" /\ pc'[u] = "handler" /\ cur'[u] = i
                             THEN {u} ELSE {}
             /\ Finished(i) = IF pc[u] = "handler" /\ pc'[u] = "returned" /\ cur[u] = i
                              THEN {u} ELSE {}
  BY <1>1 DEF Started, Finished
<1>3. Cardinality({u}) = 1 /\ Cardinality({}) = 0
  BY FS_Singleton, FS_EmptySet
<1>4. ASSUME NEW i \in Job
      PROVE  /\ Cardinality(Started(i)) = IF pc[u] = "process" /\ pc'[u] = "handler" /\ cur'[u] = i
                                          THEN 1 ELSE 0
             /\ Cardinality(Finished(i)) = IF pc[u] = "handler" /\ pc'[u] = "returned" /\ cur[u] = i
                                           THEN 1 ELSE 0
  BY <1>2, <1>3
<1>5. /\ runs' = [i \in Job |-> runs[i] + Cardinality(Started(i))]
      /\ completions' = [i \in Job |-> completions[i] + Cardinality(Finished(i))]
  BY DEF HNext
<1>6. Counters'
  <2>1. \A i \in Job : Cardinality(Started(i)) \in Nat /\ Cardinality(Finished(i)) \in Nat
    BY <1>4
  <2> QED BY <1>5, <2>1 DEF Counters
<1> QED BY <1>4, <1>5, <1>6

\* A row that keeps its attempts, and its verdict if it has one, keeps its
\* count; what leaves a worker's hands without a mark is paid for by a fault.
LEMMA SameFits ==
  ASSUME NEW j \in Job, Counters, Fits(j), TypeOK, TypeOK',
         runs'[j] = runs[j], completions'[j] = completions[j],
         jobs'[j].attempts = jobs[j].attempts,
         \/ jobs'[j].status = jobs[j].status
         \/ jobs[j].status \in {"queued", "running"} /\ jobs'[j].status \in {"queued", "running"},
         faults' = faults \/ faults' = faults + 1,
         InHand(j) => InHand(j)' \/ faults' = faults + 1,
         Back(j) => Back(j)' \/ faults' = faults + 1,
         Called(j)' => Called(j), Back(j)' => Back(j)
  PROVE  Fits(j)'
<1>1. /\ runs[j] \in Nat /\ completions[j] \in Nat /\ faults \in Nat /\ faults' \in Nat
      /\ jobs[j].attempts \in Nat
  BY DEF Counters, TypeOK, JobRow
<1>2. RunsFit(j)'
  BY <1>1 DEF Fits, RunsFit, Ended
<1>3. CompletionsFit(j)'
  BY <1>1 DEF Fits, CompletionsFit
<1>4. Earned(j)'
  BY <1>1 DEF Fits, Earned
<1> QED BY <1>2, <1>3, <1>4 DEF Fits

\* What is in the hands of a worker is running in the table.
LEMMA HandRunning ==
  ASSUME HeldIsRunning, NEW j \in Job, InHand(j) \/ Called(j) \/ Back(j)
  PROVE  InHand(j) /\ jobs[j].status = "running"
<1>1. InHand(j)
  BY DEF InHand, Called, Back, Busy, Calling
<1>2. PICK w \in Worker : pc[w] \in Busy /\ cur[w] = j
  BY <1>1 DEF InHand
<1>3. j \in Held(w)
  BY <1>2 DEF Held
<1> QED BY <1>1, <1>3 DEF HeldIsRunning

LEMMA StillCounts ==
  ASSUME Counters, HNext, UNCHANGED pc
  PROVE  UNCHANGED <<runs, completions>>
<1>1. ASSUME NEW j \in Job PROVE Cardinality(Started(j)) = 0 /\ Cardinality(Finished(j)) = 0
  <2>1. Started(j) = {} /\ Finished(j) = {}
    BY DEF Started, Finished
  <2> QED BY <2>1, FS_EmptySet
<1>2. /\ runs' = [j \in Job |-> runs[j] + 0]
      /\ completions' = [j \in Job |-> completions[j] + 0]
  BY <1>1 DEF HNext
<1> QED BY <1>2 DEF Counters

\* Producers, the relay's insert and the clock: rows change, no worker moves.
LEMMA RowStepFits ==
  ASSUME HInv, Known, TypeOK', HNext, UNCHANGED <<pc, cur, faults>>,
         \A j \in Job :
            \/ /\ jobs'[j].attempts = jobs[j].attempts
               /\ \/ jobs'[j].status = jobs[j].status
                  \/ /\ jobs[j].status \in {"queued", "running"}
                     /\ jobs'[j].status \in {"queued", "running"}
            \/ /\ jobs[j].status = "none"
               /\ jobs'[j].status = "queued" /\ jobs'[j].attempts = 0
  PROVE  HInv'
<1>1. UNCHANGED <<runs, completions>>
  BY StillCounts DEF HInv
<1>2. ASSUME NEW j \in Job PROVE Fits(j)'
  <2>1. (InHand(j)' <=> InHand(j)) /\ (Called(j)' <=> Called(j)) /\ (Back(j)' <=> Back(j))
    BY DEF InHand, Called, Back
  <2>2. CASE jobs[j].status = "none" /\ jobs'[j].status = "queued" /\ jobs'[j].attempts = 0
    <3>1. ~InHand(j) /\ ~Called(j) /\ ~Back(j)
      BY <2>2, HandRunning DEF Known
    <3>2. /\ runs[j] = 0 /\ completions[j] \in Nat /\ completions[j] <= faults
          /\ faults \in Nat /\ faults' = faults
      BY <2>2, <3>1 DEF HInv, Fits, RunsFit, CompletionsFit, Counters, Known, TypeOK
    <3>3. runs'[j] = 0 /\ completions'[j] = completions[j]
      BY <1>1, <3>2
    <3> QED BY <2>1, <2>2, <3>1, <3>2, <3>3 DEF Fits, RunsFit, CompletionsFit, Earned
  <2>3. CASE ~(jobs[j].status = "none" /\ jobs'[j].status = "queued")
    <3>1. Fits(j) /\ Counters /\ TypeOK
      BY DEF HInv, Known
    <3> QED BY <1>1, <2>1, <2>3, <3>1, SameFits
  <2> QED BY <2>2, <2>3
<1>3. Counters' /\ Unhandled'
  BY <1>1 DEF HInv, Counters, Unhandled
<1> QED BY <1>2, <1>3 DEF HInv

\* The relay and the claim: a worker with nothing in hand moves on.
LEMMA FreeStepFits ==
  ASSUME Solo, HInv, Known, TypeOK', HNext, NEW u \in Worker,
         pc[u] \notin Busy, pc'[u] \notin Busy,
         faults' = faults \/ faults' = faults + 1,
         \A j \in Job :
            /\ jobs'[j].attempts = jobs[j].attempts
            /\ \/ jobs'[j].status = jobs[j].status
               \/ /\ jobs[j].status \in {"queued", "running"}
                  /\ jobs'[j].status \in {"queued", "running"}
  PROVE  HInv'
<1>1. Counters /\ TypeOK
  BY DEF HInv, Known
<1>2. ASSUME NEW j \in Job
      PROVE  Counters' /\ runs'[j] = runs[j] /\ completions'[j] = completions[j]
  <2>1. runs[j] \in Nat /\ completions[j] \in Nat
    BY <1>1 DEF Counters
  <2> QED BY <1>1, <2>1, Counting DEF Busy
<1>3. ASSUME NEW j \in Job PROVE Fits(j)'
  <2>1. /\ ~InHand(j) /\ ~Called(j) /\ ~Back(j)
        /\ ~InHand(j)' /\ ~Called(j)' /\ ~Back(j)'
    BY OneHand DEF Busy, Calling
  <2>2. Fits(j)
    BY DEF HInv
  <2> QED BY <1>1, <1>2, <2>1, <2>2, SameFits
<1>4. Unhandled'
  BY DEF Solo, Unhandled, Busy
<1>5. Counters'
  BY <1>1, Counting, <1>2 DEF Counters, HNext
<1> QED BY <1>3, <1>4, <1>5 DEF HInv

\* A worker gives up what it holds at a fault.
LEMMA FaultFits ==
  ASSUME Solo, HInv, Known, TypeOK', HNext, NEW u \in Worker,
         pc'[u] \notin Busy, faults' = faults + 1, UNCHANGED jobs
  PROVE  HInv'
<1>1. Counters /\ TypeOK
  BY DEF HInv, Known
<1>2. ASSUME NEW j \in Job
      PROVE  Counters' /\ runs'[j] = runs[j] /\ completions'[j] = completions[j]
  <2>1. runs[j] \in Nat /\ completions[j] \in Nat
    BY <1>1 DEF Counters
  <2> QED BY <1>1, <2>1, Counting DEF Busy
<1>3. ASSUME NEW j \in Job PROVE Fits(j)'
  <2>1. ~InHand(j)' /\ ~Called(j)' /\ ~Back(j)'
    BY OneHand DEF Busy, Calling
  <2>2. Fits(j)
    BY DEF HInv
  <2> QED BY <1>1, <1>2, <2>1, <2>2, SameFits
<1>4. Unhandled'
  BY DEF Solo, Unhandled, Busy
<1>5. Counters'
  BY <1>2 DEF Counters, HNext
<1> QED BY <1>3, <1>4, <1>5 DEF HInv

-----------------------------------------------------------------------------
(* The loop over the batch.                                                *)

LEMMA StartFits ==
  ASSUME Solo, HInv, Known, TypeOK', HNext, NEW u \in Worker, StartNext(u)
  PROVE  HInv'
<1>1. Counters /\ TypeOK /\ pc[u] = "process" /\ UNCHANGED <<tables, faults>>
  BY DEF HInv, Known, StartNext
<1>2. PICK i \in batch[u] : /\ cur' = [cur EXCEPT ![u] = i]
                            /\ pc' = [pc EXCEPT ![u] = IF i \in NoHandler THEN "unhandled"
                                                                          ELSE "handler"]
  BY DEF StartNext, Oldest
<1>3. /\ i \in Job /\ cur'[u] = i
      /\ pc'[u] = IF i \in NoHandler THEN "unhandled" ELSE "handler"
      /\ jobs[i].status = "running"
  <2>1. i \in Held(u)
    BY DEF Held
  <2> QED BY <1>1, <1>2, <2>1 DEF TypeOK, Known, HeldIsRunning
<1>4. ASSUME NEW j \in Job
      PROVE  /\ Counters'
             /\ runs'[j] = runs[j] + IF j = i /\ i \notin NoHandler THEN 1 ELSE 0
             /\ completions'[j] = completions[j]
  <2>1. runs[j] \in Nat /\ completions[j] \in Nat
    BY <1>1 DEF Counters
  <2> QED BY <1>1, <1>3, <2>1, Counting
<1>5. ASSUME NEW j \in Job PROVE Fits(j)'
  <2>1. /\ runs[j] \in Nat /\ completions[j] \in Nat /\ faults \in Nat
        /\ jobs[j].attempts \in Nat /\ jobs' = jobs /\ faults' = faults
    BY <1>1 DEF Counters, TypeOK, JobRow, tables
  <2>2. ~InHand(j) /\ ~Called(j) /\ ~Back(j)
    BY <1>1, OneHand DEF Busy, Calling
  <2>3. Fits(j)
    BY DEF HInv
  <2>4. CASE j = i
    <3>1. InHand(j)' /\ ~Back(j)' /\ (Called(j)' => i \notin NoHandler)
      BY <1>3, <2>4, OneHand DEF Busy, Calling
    <3>2. runs[j] <= jobs[j].attempts + faults /\ completions[j] <= faults
      BY <1>3, <2>2, <2>3, <2>4 DEF Fits, RunsFit, CompletionsFit, Ended
    <3>3. RunsFit(j)'
      BY <1>3, <1>4, <2>1, <2>3, <2>4, <3>1, <3>2 DEF Fits, RunsFit
    <3>4. CompletionsFit(j)' /\ Earned(j)'
      BY <1>3, <1>4, <2>1, <2>4, <3>1, <3>2 DEF CompletionsFit, Earned
    <3> QED BY <3>3, <3>4 DEF Fits
  <2>5. CASE j # i
    <3>1. ~InHand(j)' /\ ~Called(j)' /\ ~Back(j)'
      BY <1>3, <2>5, OneHand
    <3>2. runs'[j] = runs[j]
      BY <1>4, <2>1, <2>5
    <3> QED BY <1>1, <1>4, <2>1, <2>2, <2>3, <3>1, <3>2, SameFits
  <2> QED BY <2>4, <2>5
<1>6. Unhandled'
  BY <1>3 DEF Solo, Unhandled
<1> QED BY <1>4, <1>3, <1>5, <1>6 DEF HInv

\* The handler returns, raises or is cut short.
LEMMA HandlerFits ==
  ASSUME Solo, HInv, Known, TypeOK', HNext, NEW u \in Worker,
         HandlerReturns(u) \/ HandlerRaises(u) \/ HandlerTimesOut(u)
  PROVE  HInv'
<1>1. /\ Counters /\ TypeOK /\ pc[u] = "handler" /\ UNCHANGED <<tables, cur, faults>>
      /\ pc'[u] \in {"returned", "raised", "timedout"}
  BY DEF HInv, Known, HandlerReturns, HandlerRaises, HandlerTimesOut, TypeOK
<1>2. ASSUME NEW j \in Job
      PROVE  /\ Counters' /\ runs'[j] = runs[j]
             /\ completions'[j] = completions[j]
                  + IF pc'[u] = "returned" /\ cur[u] = j THEN 1 ELSE 0
  <2>1. runs[j] \in Nat
    BY <1>1 DEF Counters
  <2> QED BY <1>1, <2>1, Counting
<1>3. cur[u] \in Job
  BY <1>1 DEF Known, BatchInLoop, Busy
<1>4. ASSUME NEW j \in Job PROVE Fits(j)'
  <2>1. /\ runs[j] \in Nat /\ completions[j] \in Nat /\ faults \in Nat
        /\ jobs[j].attempts \in Nat /\ jobs' = jobs /\ faults' = faults
    BY <1>1 DEF Counters, TypeOK, JobRow, tables
  <2>2. /\ InHand(j) <=> cur[u] = j
        /\ Called(j) <=> cur[u] = j
        /\ ~Back(j)
        /\ InHand(j)' <=> cur[u] = j
        /\ Called(j)' <=> cur[u] = j
        /\ Back(j)' <=> cur[u] = j /\ pc'[u] = "returned"
    BY <1>1, OneHand DEF Busy, Calling
  <2>3. Fits(j)
    BY DEF HInv
  <2>4. CASE pc'[u] = "returned" /\ cur[u] = j
    <3>1. jobs[j].status = "running"
      BY <2>2, <2>4, HandRunning DEF Known
    <3>2. completions[j] <= faults /\ completions'[j] = completions[j] + 1
      BY <1>2, <2>2, <2>3, <2>4, <3>1 DEF Fits, CompletionsFit
    <3>3. RunsFit(j)'
      BY <1>2, <2>1, <2>2, <2>3 DEF Fits, RunsFit, Ended
    <3>4. CompletionsFit(j)' /\ Earned(j)'
      BY <2>1, <2>2, <2>4, <3>1, <3>2 DEF CompletionsFit, Earned
    <3> QED BY <3>3, <3>4 DEF Fits
  <2>5. CASE ~(pc'[u] = "returned" /\ cur[u] = j)
    <3>1. completions'[j] = completions[j]
      BY <1>2, <2>1, <2>5
    <3> QED BY <1>1, <1>2, <2>1, <2>2, <2>3, <2>5, <3>1, SameFits
  <2> QED BY <2>4, <2>5
<1>5. Unhandled'
  BY <1>1 DEF Solo, Unhandled
<1> QED BY <1>2, <1>3, <1>4, <1>5 DEF HInv

\* What a mark does to the row of the current job.
LEMMA MarkEffect ==
  ASSUME Solo, Known, NEW u \in Worker,
         MarkDone(u) \/ MarkMissingHandler(u) \/ MarkFailure(u)
  PROVE  LET i == cur[u] IN
         /\ i \in Job /\ pc[u] \in Busy /\ pc'[u] \notin Busy
         /\ UNCHANGED <<cur, faults>>
         /\ jobs[i].status = "running"
         /\ \A j \in Job \ {i} : jobs'[j] = jobs[j]
         /\ \/ /\ pc[u] = "returned"
               /\ jobs'[i].status = "done" /\ jobs'[i].attempts = jobs[i].attempts
            \/ /\ pc[u] = "unhandled"
               /\ jobs'[i].status = "error" /\ jobs'[i].attempts = jobs[i].attempts
            \/ /\ pc[u] \in {"raised", "timedout"}
               /\ jobs[i].attempts < MaxAttempts
               /\ jobs'[i].status = "queued" /\ jobs'[i].attempts = jobs[i].attempts + 1
            \/ /\ pc[u] \in {"raised", "timedout"}
               /\ ~(jobs[i].attempts < MaxAttempts)
               /\ jobs'[i].status = "error" /\ jobs'[i].attempts = jobs[i].attempts + 1
<1>1. pc[u] \in Busy /\ UNCHANGED <<cur, faults>>
  BY DEF MarkDone, MarkMissingHandler, MarkFailure, Busy
<1>2. /\ cur[u] \in Job /\ jobs[cur[u]].status = "running"
      /\ jobs[cur[u]].attempts = seen[u][cur[u]]
  BY <1>1 DEF Known, BatchInLoop, HeldIsRunning, Held
<1>3. PICK i \in Job : i = cur[u]
  BY <1>2
<1>4. /\ jobs \in [Job -> JobRow] /\ pc \in [Worker -> Phase]
      /\ jobs[i] = [status |-> jobs[i].status, attempts |-> jobs[i].attempts,
                    ready |-> jobs[i].ready, fresh |-> jobs[i].fresh,
                    created |-> jobs[i].created]
  BY DEF Known, TypeOK, JobRow
<1> DEFINE k == jobs[i].attempts
<1>5. k = seen[u][cur[u]]
  BY <1>2, <1>3
<1>6. CASE MarkDone(u)
  BY <1>1, <1>2, <1>3, <1>4, <1>6 DEF MarkDone, Busy
<1>7. CASE MarkMissingHandler(u)
  <2>1. /\ jobs' = [jobs EXCEPT ![i].status = "error", ![i].attempts = k]
        /\ pc[u] = "unhandled" /\ pc' = [pc EXCEPT ![u] = "process"]
    BY <1>3, <1>5, <1>7 DEF MarkMissingHandler
  <2> HIDE DEF k
  <2>2. jobs'[i].status = "error" /\ jobs'[i].attempts = k /\ pc'[u] = "process"
        /\ \A j \in Job \ {i} : jobs'[j] = jobs[j]
    BY <1>4, <2>1
  <2> QED BY <1>1, <1>2, <1>3, <2>1, <2>2 DEF Busy, k
<1>8. CASE MarkFailure(u)
  <2>1. /\ IF k < MaxAttempts THEN RetryLater(u, k + 1) ELSE GiveUp(u, k + 1)
        /\ pc[u] \in {"raised", "timedout"}
    BY <1>5, <1>8 DEF MarkFailure
  <2> DEFINE n == k + 1
  <2>2. CASE k < MaxAttempts
    <3>1. /\ jobs' = [jobs EXCEPT ![i].status = "queued", ![i].attempts = n,
                                  ![i].ready = FALSE]
          /\ pc' = [pc EXCEPT ![u] = "process"]
      BY <1>3, <2>1, <2>2 DEF RetryLater
    <3> HIDE DEF n
    <3>2. jobs'[i].status = "queued" /\ jobs'[i].attempts = n /\ pc'[u] = "process"
          /\ \A j \in Job \ {i} : jobs'[j] = jobs[j]
      BY <1>4, <3>1
    <3> QED BY <1>1, <1>2, <1>3, <2>1, <2>2, <3>2 DEF Busy, n
  <2>3. CASE ~(k < MaxAttempts)
    <3>1. /\ jobs' = [jobs EXCEPT ![i].status = "error", ![i].attempts = n]
          /\ pc' = [pc EXCEPT ![u] = "report"]
      BY <1>3, <2>1, <2>3 DEF GiveUp
    <3> HIDE DEF n
    <3>2. jobs'[i].status = "error" /\ jobs'[i].attempts = n /\ pc'[u] = "report"
          /\ \A j \in Job \ {i} : jobs'[j] = jobs[j]
      BY <1>4, <3>1
    <3> QED BY <1>1, <1>2, <1>3, <2>1, <2>3, <3>2 DEF Busy, n
  <2> QED BY <2>2, <2>3
<1> QED BY <1>6, <1>7, <1>8

LEMMA MarkFits ==
  ASSUME Solo, HInv, Known, TypeOK', HNext, NEW u \in Worker,
         MarkDone(u) \/ MarkMissingHandler(u) \/ MarkFailure(u)
  PROVE  HInv'
<1>1. PICK i \in Job : i = cur[u]
  BY MarkEffect
<1>2. /\ pc[u] \in Busy /\ pc'[u] \notin Busy /\ UNCHANGED <<cur, faults>>
      /\ jobs[i].status = "running"
      /\ \A j \in Job \ {i} : jobs'[j] = jobs[j]
  BY <1>1, MarkEffect
<1>3. \/ /\ pc[u] = "returned"
         /\ jobs'[i].status = "done" /\ jobs'[i].attempts = jobs[i].attempts
      \/ /\ pc[u] = "unhandled"
         /\ jobs'[i].status = "error" /\ jobs'[i].attempts = jobs[i].attempts
      \/ /\ pc[u] \in {"raised", "timedout"} /\ jobs[i].attempts < MaxAttempts
         /\ jobs'[i].status = "queued" /\ jobs'[i].attempts = jobs[i].attempts + 1
      \/ /\ pc[u] \in {"raised", "timedout"} /\ ~(jobs[i].attempts < MaxAttempts)
         /\ jobs'[i].status = "error" /\ jobs'[i].attempts = jobs[i].attempts + 1
  BY <1>1, MarkEffect
<1>4. Counters /\ TypeOK
  BY DEF HInv, Known
<1>5. ASSUME NEW j \in Job
      PROVE  Counters' /\ runs'[j] = runs[j] /\ completions'[j] = completions[j]
  <2>1. runs[j] \in Nat /\ completions[j] \in Nat
    BY <1>4 DEF Counters
  <2> QED BY <1>2, <1>4, <2>1, Counting DEF Busy
<1>6. ASSUME NEW j \in Job PROVE Fits(j)'
  <2>1. /\ runs[j] \in Nat /\ completions[j] \in Nat /\ faults \in Nat
        /\ jobs[j].attempts \in Nat /\ faults' = faults /\ MaxAttempts \in Nat
    BY <1>2, <1>4, LimitAssumption DEF Counters, TypeOK, JobRow
  <2>2. /\ InHand(j) <=> j = i
        /\ Called(j) <=> j = i /\ pc[u] \in Calling
        /\ Back(j) <=> j = i /\ pc[u] = "returned"
        /\ ~InHand(j)' /\ ~Called(j)' /\ ~Back(j)'
    BY <1>1, <1>2, OneHand DEF Busy, Calling
  <2>3. Fits(j)
    BY DEF HInv
  <2>4. CASE j = i
    <3>1. RunsFit(j)'
      BY <1>2, <1>3, <1>5, <2>1, <2>2, <2>3, <2>4 DEF Fits, RunsFit, Ended, Calling
    <3>2. CompletionsFit(j)'
      BY <1>2, <1>3, <1>5, <2>1, <2>2, <2>3, <2>4 DEF Fits, CompletionsFit
    <3>3. Earned(j)'
      <4>1. pc[u] = "unhandled" => i \in NoHandler
        BY <1>1 DEF HInv, Unhandled
      <4>2. pc[u] = "returned" => completions[j] > 0
        BY <2>2, <2>3, <2>4 DEF Fits, CompletionsFit
      <4>3. pc[u] \in {"raised", "timedout"} => jobs[i].attempts < runs[i]
        BY <2>2, <2>3, <2>4 DEF Fits, RunsFit, Calling
      <4> QED BY <1>3, <1>5, <2>1, <2>4, <4>1, <4>2, <4>3 DEF Earned
    <3> QED BY <3>1, <3>2, <3>3 DEF Fits
  <2>5. CASE j # i
    <3>1. jobs'[j] = jobs[j]
      BY <1>2, <2>5
    <3> QED BY <1>4, <1>5, <2>1, <2>2, <2>3, <2>5, <3>1, SameFits
  <2> QED BY <2>4, <2>5
<1>7. Unhandled'
  BY <1>2 DEF Solo, Unhandled, Busy
<1> QED BY <1>1, <1>5, <1>6, <1>7 DEF HInv

-----------------------------------------------------------------------------
(* The theorems.                                                           *)

LEMMA InitFits == HInit => HInv
<1> SUFFICES ASSUME HInit PROVE HInv
  OBVIOUS
<1>1. Counters
  BY DEF HInit, Counters
<1>2. \A w \in Worker : pc[w] = "dispatch"
  BY DEF HInit, Init
<1>3. ASSUME NEW j \in Job PROVE Fits(j)
  <2>1. /\ runs[j] = 0 /\ completions[j] = 0 /\ faults = 0
        /\ jobs[j].attempts = 0 /\ jobs[j].status = "none"
    BY DEF HInit, Init
  <2>2. ~Called(j) /\ ~Back(j)
    BY <1>2 DEF Called, Back, Calling
  <2> QED BY <2>1, <2>2 DEF Fits, RunsFit, CompletionsFit, Earned
<1> QED BY <1>1, <1>2, <1>3 DEF HInv, Unhandled

LEMMA StepFits ==
  ASSUME Solo, HInv, Known, TypeOK', HNext
  PROVE  HInv'
<1> USE DEF Known
<1>1. ASSUME NEW i \in Job, EnqueueOutbox(i) \/ EnqueueDb(i) PROVE HInv'
  <2>1. UNCHANGED <<pc, cur, faults>>
    BY <1>1 DEF EnqueueOutbox, EnqueueDb, local
  <2>2. jobs' = jobs \/ (/\ jobs[i].status = "none"
                         /\ \E b \in BOOLEAN : jobs' = [jobs EXCEPT ![i] = NewJob(b)])
    BY <1>1 DEF EnqueueOutbox, EnqueueDb, Unused
  <2>3. \A j \in Job : \/ jobs'[j] = jobs[j]
                       \/ /\ jobs[j].status = "none"
                          /\ jobs'[j].status = "queued" /\ jobs'[j].attempts = 0
    BY <2>2 DEF NewJob, TypeOK
  <2> QED BY <2>1, <2>3, RowStepFits
<1>2. ASSUME NEW u \in Worker, NEW i \in Job, Publish(u, i) PROVE HInv'
  <2>1. UNCHANGED <<pc, cur, faults>>
    BY <1>2 DEF Publish
  <2>2. \A j \in Job : \/ jobs'[j] = jobs[j]
                       \/ /\ jobs[j].status = "none"
                          /\ jobs'[j].status = "queued" /\ jobs'[j].attempts = 0
    BY <1>2 DEF Publish, SendDb, NewJob, TypeOK
  <2> QED BY <2>1, <2>2, RowStepFits
<1>3. ASSUME NEW i \in Job, Tick(i) PROVE HInv'
  <2>1. UNCHANGED <<pc, cur, faults>>
    BY <1>3 DEF Tick, LeaseExpires, JobBackoffElapses, OutboxBackoffElapses, local
  <2>2. \A j \in Job : jobs'[j].attempts = jobs[j].attempts /\ jobs'[j].status = jobs[j].status
    <3>1. CASE LeaseExpires(i)
      BY <3>1 DEF LeaseExpires, TypeOK, JobRow
    <3>2. CASE JobBackoffElapses(i)
      BY <3>2 DEF JobBackoffElapses, TypeOK, JobRow
    <3>3. CASE OutboxBackoffElapses(i)
      BY <3>3 DEF OutboxBackoffElapses
    <3> QED BY <1>3, <3>1, <3>2, <3>3 DEF Tick
  <2> QED BY <2>1, <2>2, RowStepFits
<1>4. ASSUME NEW u \in Worker,
             \/ BeginDispatch(u) \/ CommitDispatch(u) \/ RollbackDispatch(u)
             \/ PropagateFailure(u) \/ EndBatch(u)
      PROVE  HInv'
  <2>1. /\ pc[u] \notin Busy /\ pc'[u] \notin Busy /\ jobs' = jobs
        /\ faults' = faults \/ faults' = faults + 1
    BY <1>4 DEF BeginDispatch, CommitDispatch, RollbackDispatch, PropagateFailure, EndBatch,
       Busy, tables, TypeOK
  <2> QED BY <2>1, FreeStepFits
<1>5. ASSUME NEW u \in Worker, FetchAndClaim(u) PROVE HInv'
  <2>1. pc[u] \notin Busy /\ pc'[u] \notin Busy /\ faults' = faults
    BY <1>5 DEF FetchAndClaim, Busy, TypeOK
  <2>2. ASSUME NEW j \in Job
        PROVE  /\ jobs'[j].attempts = jobs[j].attempts
               /\ \/ jobs'[j].status = jobs[j].status
                  \/ /\ jobs[j].status \in {"queued", "running"}
                     /\ jobs'[j].status \in {"queued", "running"}
    <3>1. jobs[j] \in JobRow
      BY DEF TypeOK
    <3>2. CASE j \in ReadyBatch
      <4>1. jobs[j].status \in {"queued", "running"}
        BY <3>2 DEF ReadyBatch, Oldest, Claimable
      <4>2. jobs'[j] = [jobs[j] EXCEPT !.status = "running", !.fresh = TRUE]
        BY <1>5, <3>2 DEF FetchAndClaim
      <4> QED BY <3>1, <4>1, <4>2 DEF JobRow
    <3>3. CASE j \notin ReadyBatch
      BY <1>5, <3>3 DEF FetchAndClaim
    <3> QED BY <3>2, <3>3
  <2> QED BY <2>1, <2>2, FreeStepFits
<1>6. ASSUME NEW u \in Worker, AbandonBatch(u) \/ Crash(u) PROVE HInv'
  <2>1. pc'[u] \notin Busy /\ faults' = faults + 1 /\ jobs' = jobs
    BY <1>6 DEF AbandonBatch, Crash, Busy, tables, TypeOK
  <2> QED BY <2>1, FaultFits
<1> QED
  BY <1>1, <1>2, <1>3, <1>4, <1>5, <1>6, StartFits, HandlerFits, MarkFits
  DEF HNext, Next, WorkerStep

LEMMA RestFits == HInv /\ UNCHANGED hvars => HInv'
BY DEF HInv, hvars, vars, tables, local, Counters, Fits, RunsFit, CompletionsFit, Earned,
       Ended, InHand, Called, Back, Unhandled

LEMMA HSpecIsSpec == HSpec => Spec
<1>1. HInit => Init
  BY DEF HInit
<1>2. [HNext]_hvars => [Next]_vars
  BY DEF HNext, hvars
<1> QED BY <1>1, <1>2, PTL DEF HSpec, Spec

LEMMA HInvariance ==
  ASSUME Solo
  PROVE  HSpec => []HInv
<1>1. HInv /\ Known /\ TypeOK' /\ [HNext]_hvars => HInv'
  BY StepFits, RestFits
<1>2. Spec => []Known
  BY TypeCorrect, BatchInLoopInv, HeldStaysRunning, PTL DEF Known
<1> QED BY <1>1, <1>2, InitFits, HSpecIsSpec, TypeCorrect, PTL DEF HSpec

\* With one worker a handler is called once per permitted attempt, and once
\* more for each crash or database error: an expired lease or a republished
\* row alone never adds a call.
THEOREM RunsStayBounded ==
  ASSUME Solo
  PROVE  HSpec => []RunsBounded
<1>1. HInv => RunsBounded
  BY DEF HInv, Fits, RunsFit, RunsBounded
<1> QED BY <1>1, HInvariance, PTL

\* With one worker, without crashes and database errors, a handler that
\* returned is not called again.
THEOREM RepeatsAreFaults ==
  ASSUME Solo
  PROVE  HSpec => []RepeatsNeedFaults
<1>1. HInv => RepeatsNeedFaults
  BY DEF HInv, Fits, CompletionsFit, RepeatsNeedFaults
<1> QED BY <1>1, HInvariance, PTL

\* With one worker the verdict in the table is true: "done" after a handler
\* that returned, "error" after every attempt was used or no handler was found.
THEOREM VerdictsAreEarned ==
  ASSUME Solo
  PROVE  HSpec => []VerdictEarned
<1>1. HInv => VerdictEarned
  BY DEF HInv, Fits, Earned, VerdictEarned
<1> QED BY <1>1, HInvariance, PTL
=============================================================================
