---------------------------- MODULE JobQueueHistory ----------------------------
(***************************************************************************)
(* JobQueue with history variables that count what happened to each job's  *)
(* handler.  They are read by properties only.                             *)
(***************************************************************************)
EXTENDS JobQueue

VARIABLES
    runs,        \* times the handler of the job was started
    completions  \* times it returned

Started(j) == {w \in Worker : pc[w] = "process" /\ pc'[w] = "handler" /\ cur'[w] = j}
Finished(j) == {w \in Worker : pc[w] = "handler" /\ pc'[w] = "returned" /\ cur[w] = j}

HInit ==
    /\ Init
    /\ runs = [j \in Job |-> 0]
    /\ completions = [j \in Job |-> 0]

HNext ==
    /\ Next
    /\ runs' = [j \in Job |-> runs[j] + Cardinality(Started(j))]
    /\ completions' = [j \in Job |-> completions[j] + Cardinality(Finished(j))]

hvars == <<vars, runs, completions>>
HSpec == HInit /\ [][HNext]_hvars
HFairSpec == HSpec /\ Fairness

\* Retries are bounded: a handler is started once per permitted attempt and at
\* most once more for each fault, since a reclaimed lease spends no attempt.
RunsBounded == \A j \in Job : runs[j] <= jobs[j].attempts + 1 + faults

\* At least once, and more than once only because of a fault: without crashes
\* and database errors a handler that returned is not called again.
RepeatsNeedFaults == \A j \in Job : completions[j] <= 1 + faults

\* The table tells the truth: a job is "done" only after its handler returned,
\* and a job with a handler is "error" only after using every attempt.
VerdictEarned ==
    \A j \in Job :
        /\ jobs[j].status = "done" => completions[j] > 0
        /\ jobs[j].status = "error" /\ j \notin NoHandler => runs[j] > MaxAttempts
=============================================================================
