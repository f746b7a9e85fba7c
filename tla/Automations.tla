----------------------------- MODULE Automations -----------------------------
(***************************************************************************)
(* Scheduled automations.  automation_scan lists what is due and, for each, *)
(* claims the row (a lease) and advances next_run_at in one update, and     *)
(* only then enqueues run_automation, which runs one headless turn, saves   *)
(* its outcome and turns the automation off after repeated errors.  A slot  *)
(* is the date next_run_at had when a scan listed it.                       *)
(*                                                                         *)
(* An operator commented "(fault)" is the code with one mistake in it; it  *)
(* is no part of Next and shows which property the mistake would break.    *)
(***************************************************************************)
EXTENDS Naturals

CONSTANTS Automation,
          Conditional,  \* automations with a condition, true or false each time
          Worker,
          Period,       \* time between two dates of a schedule
          Lease,        \* _LEASE_SECONDS
          Timeout,      \* JOB_TIMEOUT_SECONDS: how long a scan may take
          Threshold,    \* consecutive failures that turn an automation off
          MaxTime,      \* bound: the last date
          MaxCopies,    \* bound: a scan or a request finds fewer jobs queued
          MaxEdits,     \* bound: requests of the owner about one automation
          MaxErrors,    \* bound: turns that end in an error
          MaxFaults,    \* bound: crashes and failed calls
          None          \* no automation, no date

ASSUME AutomationAssumption ==
  /\ Conditional \subseteq Automation
  /\ {Period, Threshold, MaxTime} \subseteq Nat \ {0}
  /\ {Lease, Timeout, MaxCopies, MaxEdits, MaxErrors, MaxFaults} \subseteq Nat
  /\ None \notin Nat /\ None \notin Automation \X (0..MaxTime)

VARIABLES now,
          row,          \* the automations table
          jobs,         \* run_automation jobs in the queue, per slot
          pc, at,       \* where each worker is, and the slot it is about
          left, since,  \* what a scan has listed and not yet claimed, and when
          edits, errors, faults,
          fired,        \* jobs the scans enqueued, per slot
          started,      \* the latest slot whose turn was started or skipped
          dropped,      \* slots claimed by a scan that died before its enqueue
          outlived      \* automations claimed by a scan older than half a lease

vars == <<now, row, jobs, pc, at, left, since, edits, errors, faults,
          fired, started, dropped, outlived>>
bounds == <<edits, errors, faults>>
scans == <<left, since>>
history == <<fired, started, dropped, outlived>>

Date == 1..MaxTime
Slot == Automation \X (0..MaxTime)    \* 0: probar or a webhook, no date
Kind == {"schedule", "webhook"}
Row == [there : BOOLEAN, enabled : BOOLEAN, kind : Kind, due : Date \cup {None},
        lease : 0..(MaxTime + Lease), failures : 0..MaxErrors]

Init ==
  /\ now = 0
  /\ row \in [Automation -> [there : {TRUE}, enabled : {TRUE}, kind : {"schedule"}, due : {1},
                             lease : {0}, failures : {0}]]
  /\ jobs = [o \in Slot |-> 0]
  /\ pc = [w \in Worker |-> "idle"] /\ at = [w \in Worker |-> None]
  /\ left = [w \in Worker |-> {}] /\ since = [w \in Worker |-> 0]
  /\ edits = [a \in Automation |-> 0] /\ errors = 0 /\ faults = 0
  /\ fired = [o \in Slot |-> 0] /\ started = [a \in Automation |-> 0]
  /\ dropped = {} /\ outlived = {}

-----------------------------------------------------------------------------
(* The clock, and the requests of /v1/automations and /v1/hooks.            *)

\* A scan ends, or is cancelled, within the timeout of its job.
Tick ==
  /\ now < MaxTime /\ now' = now + 1
  /\ \A w \in Worker : pc[w] \in {"list", "claimed"} => now < since[w] + Timeout
  /\ UNCHANGED <<row, jobs, pc, at, scans, bounds, history>>

Request(a) ==
  /\ row[a].there /\ edits[a] < MaxEdits /\ edits' = [edits EXCEPT ![a] = @ + 1]
  /\ UNCHANGED <<now, pc, at, scans, errors, faults, history>>

\* PATCH with a trigger: the first date of a new schedule, or a webhook.
SetTrigger(a) ==
  /\ Request(a) /\ UNCHANGED jobs
  /\ \/ row' = [row EXCEPT ![a].kind = "webhook", ![a].due = None]
     \/ \E d \in Date : /\ now < d /\ d <= now + Period
                        /\ row' = [row EXCEPT ![a].kind = "schedule", ![a].due = d]

\* PATCH with the other value of enabled; the failures are not forgotten.
SetEnabled(a) ==
  /\ Request(a) /\ row' = [row EXCEPT ![a].enabled = ~@] /\ UNCHANGED jobs

DeleteAutomation(a) ==
  /\ Request(a) /\ row' = [row EXCEPT ![a].there = FALSE] /\ UNCHANGED jobs

\* POST /probar looks at nothing else; a hook wants the webhook and enabled.
Probar(a) ==
  /\ Request(a) /\ jobs[<<a, 0>>] < MaxCopies
  /\ jobs' = [jobs EXCEPT ![<<a, 0>>] = @ + 1] /\ UNCHANGED row

-----------------------------------------------------------------------------
(* automation_scan: one read, then one claim and one enqueue per row.       *)

\* (fault) a lease is over when somebody clears it.
LeaseCleared(a) == row[a].lease = 0
Leasable(a) == row[a].lease < now
IsDue(a) == /\ row[a].there /\ row[a].enabled /\ row[a].due # None /\ row[a].due <= now
            /\ Leasable(a)
Due == {a \in Automation : IsDue(a)}

Scan(w) ==
  /\ pc[w] = "idle" /\ Due # {} /\ \A o \in Slot : jobs[o] < MaxCopies
  /\ pc' = [pc EXCEPT ![w] = "list"]
  /\ left' = [left EXCEPT ![w] = {<<a, row[a].due, row[a].kind>> : a \in Due}]
  /\ since' = [since EXCEPT ![w] = now]
  /\ UNCHANGED <<now, row, jobs, at, bounds, history>>

\* compute_next_run: the next date of the schedule strictly after the scan
\* began; none once the rule is over (UNTIL), or for a row with a webhook.
NextDate(anchor, after) == anchor + Period * ((after - anchor) \div Period + 1)
\* (fault) the end of the rule is not looked at.
NextRunForever(x, after) == IF x[3] = "schedule" THEN NextDate(x[2], after) ELSE None
NextRun(x, after) ==
  IF x[3] = "schedule" /\ NextDate(x[2], after) <= MaxTime THEN NextDate(x[2], after) ELSE None

Idle(w) == pc' = [pc EXCEPT ![w] = "idle"] /\ at' = [at EXCEPT ![w] = None]
\* On to the next row of the scan, if there is one.
Continue(w) ==
  /\ pc' = [pc EXCEPT ![w] = IF left'[w] = {} THEN "idle" ELSE "list"]
  /\ at' = [at EXCEPT ![w] = None]
  /\ since' = [since EXCEPT ![w] = IF left'[w] = {} THEN 0 ELSE @]

\* (fault) the lease is taken and next_run_at is left to the run.
AdvanceNothing(w, x) ==
  row' = [row EXCEPT ![x[1]].lease = since[w] + Lease]
Advance(w, x) ==
  row' = [row EXCEPT ![x[1]].due = NextRun(x, since[w]), ![x[1]].lease = since[w] + Lease]

Outlives(w) == 2 * (now - since[w]) > Lease

ClaimAndAdvance(w) ==
  /\ pc[w] = "list"
  /\ \E x \in left[w] :
       /\ left' = [left EXCEPT ![w] = @ \ {x}]
       /\ IF row[x[1]].there /\ Leasable(x[1])
          THEN /\ Advance(w, x)
               /\ pc' = [pc EXCEPT ![w] = "claimed"]
               /\ at' = [at EXCEPT ![w] = <<x[1], x[2]>>] /\ UNCHANGED since
               /\ outlived' = IF Outlives(w) THEN outlived \cup {x[1]} ELSE outlived
          ELSE Continue(w) /\ UNCHANGED <<row, outlived>>
  /\ UNCHANGED <<now, jobs, bounds, fired, started, dropped>>

Later(o) == IF o[2] > started[o[1]] THEN [started EXCEPT ![o[1]] = o[2]] ELSE started

ConditionFalse(w) ==
  /\ pc[w] = "claimed" /\ at[w][1] \in Conditional
  /\ started' = Later(at[w]) /\ left' = left /\ Continue(w)
  /\ UNCHANGED <<now, row, jobs, bounds, fired, dropped, outlived>>

EnqueueRun(w) ==
  /\ pc[w] = "claimed" /\ left' = left /\ Continue(w)
  /\ jobs' = [jobs EXCEPT ![at[w]] = @ + 1] /\ fired' = [fired EXCEPT ![at[w]] = @ + 1]
  /\ UNCHANGED <<now, row, bounds, started, dropped, outlived>>

-----------------------------------------------------------------------------
(* run_automation: read, open the run, the turn, its outcome.  The read,    *)
(* the run's row and the outcome are committed one by one.                  *)

ReadAutomation(w, o) ==
  /\ pc[w] = "idle" /\ jobs[o] > 0 /\ jobs' = [jobs EXCEPT ![o] = @ - 1]
  /\ IF row[o[1]].there /\ row[o[1]].enabled
     THEN pc' = [pc EXCEPT ![w] = "open"] /\ at' = [at EXCEPT ![w] = o]
     ELSE UNCHANGED <<pc, at>>
  /\ UNCHANGED <<now, row, scans, bounds, history>>

\* The run's row references the automation: deleted, the insert fails and the
\* job is delivered again.
OpenRun(w) ==
  /\ pc[w] = "open"
  /\ IF row[at[w][1]].there
     THEN /\ pc' = [pc EXCEPT ![w] = "turn"] /\ started' = Later(at[w])
          /\ UNCHANGED <<at, jobs>>
     ELSE /\ Idle(w) /\ jobs' = [jobs EXCEPT ![at[w]] = @ + 1] /\ UNCHANGED started
  /\ UNCHANGED <<now, row, scans, bounds, fired, dropped, outlived>>

Failed(r) ==
  [r EXCEPT !.failures = @ + 1, !.enabled = @ /\ r.failures + 1 < Threshold]

SaveRun(w, status) ==
  LET a == at[w][1]
  IN /\ pc[w] = "turn" /\ pc' = [pc EXCEPT ![w] = "saved"]
     /\ row' = CASE ~row[a].there \/ status = "waiting_confirmation" -> row
                 [] row[a].there /\ status = "error" -> [row EXCEPT ![a] = Failed(@)]
                 [] row[a].there /\ status = "done"  -> [row EXCEPT ![a].failures = 0]
     /\ UNCHANGED <<now, jobs, at, scans, edits, faults, history>>

RunSaved(w) ==
  \/ \E status \in {"done", "waiting_confirmation"} : SaveRun(w, status) /\ UNCHANGED errors
  \/ errors < MaxErrors /\ errors' = errors + 1 /\ SaveRun(w, "error")

\* The notices, and the job is acknowledged.
Return(w) ==
  /\ pc[w] = "saved" /\ Idle(w)
  /\ UNCHANGED <<now, row, jobs, scans, bounds, history>>

-----------------------------------------------------------------------------
\* The handler raises, times out or dies; the queue delivers a run again, and
\* a scan is simply asked for again.
Interrupted(w) ==
  /\ pc[w] # "idle" /\ faults < MaxFaults /\ faults' = faults + 1
  /\ Idle(w) /\ left' = [left EXCEPT ![w] = {}] /\ since' = [since EXCEPT ![w] = 0]
  /\ jobs' = IF pc[w] \in {"open", "turn", "saved"} THEN [jobs EXCEPT ![at[w]] = @ + 1] ELSE jobs
  /\ dropped' = IF pc[w] = "claimed" THEN dropped \cup {at[w]} ELSE dropped
  /\ UNCHANGED <<now, row, edits, errors, fired, started, outlived>>

Handler(w) ==
  ClaimAndAdvance(w) \/ ConditionFalse(w) \/ EnqueueRun(w) \/ OpenRun(w) \/ RunSaved(w) \/ Return(w)

Next ==
  \/ Tick
  \/ \E a \in Automation : SetTrigger(a) \/ SetEnabled(a) \/ DeleteAutomation(a) \/ Probar(a)
  \/ \E w \in Worker : \/ Scan(w) \/ Handler(w) \/ Interrupted(w)
                       \/ \E o \in Slot : ReadAutomation(w, o)

Spec == Init /\ [][Next]_vars

\* Time passes, the loop turns, the scheduler keeps asking for scans, and the
\* queue serves the oldest job first.
Fairness ==
  /\ WF_vars(Tick)
  /\ \A w \in Worker : WF_vars(Handler(w))
  /\ SF_vars(\E w \in Worker : Scan(w))
  /\ SF_vars(\E w \in Worker, o \in Slot : ReadAutomation(w, o))

FairSpec == Spec /\ Fairness

-----------------------------------------------------------------------------
\* Type invariant of the table, the queue and the workers.
TypeOK ==
  /\ now \in 0..MaxTime /\ row \in [Automation -> Row] /\ jobs \in [Slot -> Nat]
  /\ pc \in [Worker -> {"idle", "list", "claimed", "open", "turn", "saved"}]
  /\ at \in [Worker -> Slot \cup {None}]
  /\ \A w \in Worker : pc[w] \in {"idle", "list"} <=> at[w] = None
  /\ left \in [Worker -> SUBSET (Automation \X Date \X Kind)]
  /\ since \in [Worker -> 0..MaxTime] /\ \A w \in Worker : since[w] <= now
  /\ edits \in [Automation -> 0..MaxEdits]
  /\ errors \in 0..MaxErrors /\ faults \in 0..MaxFaults
  /\ fired \in [Slot -> Nat] /\ started \in [Automation -> 0..MaxTime]
  /\ dropped \subseteq Slot /\ outlived \subseteq Automation

\* No date of a schedule is enqueued twice, whatever scans overlap, crash or
\* list it again once its lease is over, unless a scan took more
\* than half a lease to reach the row (_claim_and_advance checks the lease alone,
\* and the lease counts from the start of the scan).
SlotOnce == \A o \in Slot : fired[o] > 1 => o[1] \in outlived

\* A due date of an enabled automation is run, or a later one is, through
\* leases of earlier dates and crashes, unless its owner has changed the
\* automation, errors turn it off, a scan dies between its claim and its
\* enqueue, or a slow scan moves next_run_at past it.
DueRuns ==
  \A a \in Automation : \A d \in {d \in Date : d + Lease < MaxTime} :
    (row[a].enabled /\ row[a].due = d /\ d <= now)
      ~> \/ started[a] >= d \/ <<a, d>> \in dropped \/ a \in outlived
         \/ edits[a] > 0 \/ ~row[a].enabled
=============================================================================
