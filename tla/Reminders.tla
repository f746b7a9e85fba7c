------------------------------ MODULE Reminders ------------------------------
(***************************************************************************)
(* Reminders and the companion turns they wake.  Three jobs of the queue,   *)
(* all delivered at least once: send_reminder_scan lists what is due and    *)
(* enqueues one send_reminder for each; send_reminder enqueues a companion  *)
(* wake for the occurrence and marks the reminder; run_companion_turn       *)
(* claims the wake, speaks, and notifies.  An occurrence is a reminder with *)
(* the due date it had when send_reminder read it: its wake key.            *)
(*                                                                         *)
(* An operator commented "(fault)" is the code with one mistake in it; it  *)
(* is no part of Next and shows which property the mistake would break.    *)
(***************************************************************************)
EXTENDS Naturals

CONSTANTS Reminder,
          Recurring,    \* reminders with an rrule, one occurrence per date
          Mobile,       \* reminders whose channel is "mobile"
          Worker,
          MaxTime,      \* bound: the last date
          MaxCopies,    \* bound: a scan starts with fewer jobs of each kind queued
          MaxEdits,     \* bound: changes the owner makes to one reminder
          MaxFaults,    \* bound: crashes and failed calls
          None          \* no reminder, no uncommitted row

ASSUME ReminderAssumption ==
  /\ Recurring \subseteq Reminder /\ Mobile \subseteq Reminder
  /\ {MaxCopies, MaxEdits, MaxFaults} \subseteq Nat /\ MaxTime \in Nat \ {0}
  /\ None \notin Reminder \X (1..MaxTime)

VARIABLES now,
          row,          \* the reminders table
          edits,        \* changes the owner made to each reminder
          sends,        \* send_reminder jobs in the queue, per reminder
          wakes,        \* run_companion_turn jobs in the queue, per wake key
          pc, at,       \* where each worker is, and the occurrence it is about
          left,         \* what a scan has listed and not yet enqueued
          draft,        \* the row a worker has updated and not committed
          claims,       \* wake keys claimed in audit_log
          said,         \* messages committed, per occurrence
          noticed,      \* notification events recorded in audit_log
          alerts,       \* pushes of those events, per occurrence
          pushed,       \* occurrences for which the mobile push was attempted
          faults

vars == <<now, row, edits, sends, wakes, pc, at, left, draft, claims, said,
          noticed, alerts, pushed, faults>>
owner == <<row, edits>>
chat == <<claims, said>>
notices == <<noticed, alerts>>

Date == 1..MaxTime
Occurrence == Reminder \X Date
Status == {"absent", "pending", "sent", "cancelled", "deleted"}
Row == [status : Status, due : Date]
Sending == {"wake", "mark", "return"}
Waking == {"turn", "notify", "alert"}

Init ==
  /\ now = 0
  /\ row \in [Reminder -> [status : {"absent"}, due : {1}]]
  /\ edits = [r \in Reminder |-> 0]
  /\ sends = [r \in Reminder |-> 0] /\ wakes = [o \in Occurrence |-> 0]
  /\ pc = [w \in Worker |-> "idle"] /\ at = [w \in Worker |-> None]
  /\ left = [w \in Worker |-> {}] /\ draft = [w \in Worker |-> None]
  /\ claims = {} /\ said = [o \in Occurrence |-> 0]
  /\ noticed = {} /\ alerts = [o \in Occurrence |-> 0] /\ pushed = {}
  /\ faults = 0

-----------------------------------------------------------------------------
(* The clock and the owner's requests (/v1/reminders).  A PUT waits for the  *)
(* row while a worker holds it updated and uncommitted.                      *)

Tick == /\ now < MaxTime /\ now' = now + 1
        /\ UNCHANGED <<owner, sends, wakes, pc, at, left, draft, chat, notices, pushed, faults>>

Unlocked(r) == \A w \in Worker : draft[w] # None => at[w][1] # r

CreateReminder(r, d) ==
  /\ row[r].status = "absent"
  /\ row' = [row EXCEPT ![r] = [status |-> "pending", due |-> d]]
  /\ UNCHANGED <<now, edits, sends, wakes, pc, at, left, draft, chat, notices, pushed, faults>>

UpdateReminder(r, status, d) ==
  /\ row[r].status \notin {"absent", "deleted"} /\ Unlocked(r) /\ edits[r] < MaxEdits
  /\ row' = [row EXCEPT ![r] = [status |-> status, due |-> d]]
  /\ edits' = [edits EXCEPT ![r] = @ + 1]
  /\ UNCHANGED <<now, sends, wakes, pc, at, left, draft, chat, notices, pushed, faults>>

DeleteReminder(r) ==
  /\ row[r].status \notin {"absent", "deleted"} /\ Unlocked(r) /\ edits[r] < MaxEdits
  /\ row' = [row EXCEPT ![r].status = "deleted"]
  /\ edits' = [edits EXCEPT ![r] = @ + 1]
  /\ UNCHANGED <<now, sends, wakes, pc, at, left, draft, chat, notices, pushed, faults>>

-----------------------------------------------------------------------------
(* send_reminder_scan: one read, then one enqueue per reminder, each on its  *)
(* own.  The scheduler asks for a scan every 30 seconds, whatever is queued. *)

Due == {r \in Reminder : row[r].status = "pending" /\ row[r].due <= now}

Scan(w) ==
  /\ pc[w] = "idle" /\ Due # {}
  /\ \A r \in Reminder : sends[r] < MaxCopies
  /\ \A o \in Occurrence : wakes[o] < MaxCopies
  /\ pc' = [pc EXCEPT ![w] = "scan"] /\ left' = [left EXCEPT ![w] = Due]
  /\ UNCHANGED <<now, owner, sends, wakes, at, draft, chat, notices, pushed, faults>>

EnqueueSend(w) ==
  /\ pc[w] = "scan"
  /\ \E r \in left[w] :
       /\ sends' = [sends EXCEPT ![r] = @ + 1]
       /\ left' = [left EXCEPT ![w] = @ \ {r}]
       /\ pc' = [pc EXCEPT ![w] = IF left[w] = {r} THEN "idle" ELSE "scan"]
  /\ UNCHANGED <<now, owner, wakes, at, draft, chat, notices, pushed, faults>>

-----------------------------------------------------------------------------
(* send_reminder.  The row is read in a session that commits; the wake is    *)
(* enqueued, and then the reminder is updated through the same, already      *)
(* closed session: it begins a transaction that nobody commits, dropped when *)
(* the handler returns.                                                      *)

ReadReminder(w, r) ==
  /\ pc[w] = "idle" /\ sends[r] > 0
  /\ sends' = [sends EXCEPT ![r] = @ - 1]
  /\ IF row[r].status = "pending"
     THEN /\ pc' = [pc EXCEPT ![w] = "wake"]
          /\ at' = [at EXCEPT ![w] = <<r, row[r].due>>]
     ELSE UNCHANGED <<pc, at>>
  /\ UNCHANGED <<now, owner, wakes, left, draft, chat, notices, pushed, faults>>

EnqueueWake(w) ==
  /\ pc[w] = "wake" /\ pc' = [pc EXCEPT ![w] = "mark"]
  /\ wakes' = [wakes EXCEPT ![at[w]] = @ + 1]
  /\ UNCHANGED <<now, owner, sends, at, left, draft, chat, notices, pushed, faults>>

\* enqueue_companion_wake logs the failure and returns False; nobody looks.
EnqueueWakeFails(w) ==
  /\ pc[w] = "wake" /\ pc' = [pc EXCEPT ![w] = "mark"]
  /\ faults < MaxFaults /\ faults' = faults + 1
  /\ UNCHANGED <<now, owner, sends, wakes, at, left, draft, chat, notices, pushed>>

\* The next date strictly after now; none after MaxTime (UNTIL).
NextDue(r) == (IF row[r].due > now THEN row[r].due ELSE now) + 1
\* (fault) the end of the rule is not looked at.
MarkedForever(r) ==
  IF r \in Recurring THEN [status |-> "pending", due |-> NextDue(r)]
  ELSE [row[r] EXCEPT !.status = "sent"]
Marked(r) ==
  IF r \in Recurring /\ NextDue(r) <= MaxTime
  THEN [status |-> "pending", due |-> NextDue(r)]
  ELSE [row[r] EXCEPT !.status = "sent"]

MarkReminderSent(w) ==
  LET r == at[w][1]
  IN /\ pc[w] = "mark" /\ pc' = [pc EXCEPT ![w] = "return"] /\ Unlocked(r)
     /\ draft' = [draft EXCEPT ![w] = IF row[r].status = "deleted" THEN None ELSE Marked(r)]
     /\ UNCHANGED <<now, owner, sends, wakes, at, left, chat, notices, pushed, faults>>

MarkFails(w) ==
  /\ pc[w] = "mark" /\ pc' = [pc EXCEPT ![w] = "return"]
  /\ faults < MaxFaults /\ faults' = faults + 1
  /\ UNCHANGED <<now, owner, sends, wakes, at, left, draft, chat, notices, pushed>>

Idle(w) == pc' = [pc EXCEPT ![w] = "idle"] /\ at' = [at EXCEPT ![w] = None]
PushMobile(w) == pushed' = IF at[w][1] \in Mobile THEN pushed \cup {at[w]} ELSE pushed

\* (fault) the update is committed (and nothing else is changed).
ReturnCommitting(w) ==
  /\ pc[w] = "return" /\ Idle(w) /\ PushMobile(w) /\ draft' = [draft EXCEPT ![w] = None]
  /\ row' = IF draft[w] = None THEN row ELSE [row EXCEPT ![at[w][1]] = draft[w]]
  /\ UNCHANGED <<now, edits, sends, wakes, left, chat, notices, faults>>

Return(w) ==
  /\ pc[w] = "return" /\ Idle(w) /\ PushMobile(w) /\ draft' = [draft EXCEPT ![w] = None]
  /\ UNCHANGED <<now, owner, sends, wakes, left, chat, notices, faults>>

-----------------------------------------------------------------------------
(* run_companion_turn.  The claim of the wake key, under its advisory lock,  *)
(* and the message are one transaction; the notification is another.         *)

Claiming(o) == \E w \in Worker : pc[w] = "turn" /\ at[w] = o

\* (fault) the claim is looked up without the lock.
ClaimUnlocked(w, o) ==
  /\ pc[w] = "idle" /\ wakes[o] > 0
  /\ wakes' = [wakes EXCEPT ![o] = @ - 1]
  /\ IF o \in claims
     THEN UNCHANGED <<pc, at>>
     ELSE pc' = [pc EXCEPT ![w] = "turn"] /\ at' = [at EXCEPT ![w] = o]
  /\ UNCHANGED <<now, owner, sends, left, draft, chat, notices, pushed, faults>>

ClaimWake(w, o) ==
  /\ pc[w] = "idle" /\ wakes[o] > 0 /\ ~Claiming(o)
  /\ wakes' = [wakes EXCEPT ![o] = @ - 1]
  /\ IF o \in claims
     THEN UNCHANGED <<pc, at>>
     ELSE pc' = [pc EXCEPT ![w] = "turn"] /\ at' = [at EXCEPT ![w] = o]
  /\ UNCHANGED <<now, owner, sends, left, draft, chat, notices, pushed, faults>>

\* The model's text, or the notice that the provider failed twice.
Speak(w) ==
  /\ pc[w] = "turn" /\ pc' = [pc EXCEPT ![w] = "notify"]
  /\ claims' = claims \cup {at[w]} /\ said' = [said EXCEPT ![at[w]] = @ + 1]
  /\ UNCHANGED <<now, owner, sends, wakes, at, left, draft, notices, pushed, faults>>

\* No usable text twice, and no error of the provider: the claim stays.
StaySilent(w) ==
  /\ pc[w] = "turn" /\ Idle(w) /\ claims' = claims \cup {at[w]}
  /\ UNCHANGED <<now, owner, sends, wakes, left, draft, said, notices, pushed, faults>>

\* Recorded for the first time, the event is pushed unless its category is off.
RecordNotice(w) ==
  /\ pc[w] = "notify" /\ noticed' = noticed \cup {at[w]}
  /\ \/ at[w] \notin noticed /\ pc' = [pc EXCEPT ![w] = "alert"] /\ UNCHANGED at
     \/ Idle(w)
  /\ UNCHANGED <<now, owner, sends, wakes, left, draft, chat, alerts, pushed, faults>>

NoticeFails(w) ==
  /\ pc[w] = "notify" /\ Idle(w) /\ faults < MaxFaults /\ faults' = faults + 1
  /\ UNCHANGED <<now, owner, sends, wakes, left, draft, chat, notices, pushed>>

Alert(w) ==
  /\ pc[w] = "alert" /\ Idle(w) /\ alerts' = [alerts EXCEPT ![at[w]] = @ + 1]
  /\ UNCHANGED <<now, owner, sends, wakes, left, draft, chat, noticed, pushed, faults>>

-----------------------------------------------------------------------------
\* The handler raises, times out or dies: what it had not committed is gone,
\* and the queue delivers its job again (a scan is simply asked for again).
Interrupted(w) ==
  /\ pc[w] # "idle" /\ faults < MaxFaults /\ faults' = faults + 1
  /\ Idle(w) /\ left' = [left EXCEPT ![w] = {}] /\ draft' = [draft EXCEPT ![w] = None]
  /\ sends' = IF pc[w] \in Sending THEN [sends EXCEPT ![at[w][1]] = @ + 1] ELSE sends
  /\ wakes' = IF pc[w] \in Waking THEN [wakes EXCEPT ![at[w]] = @ + 1] ELSE wakes
  /\ UNCHANGED <<now, owner, chat, notices, pushed>>

Handler(w) ==
  \/ EnqueueSend(w) \/ EnqueueWake(w) \/ MarkReminderSent(w) \/ Return(w)
  \/ Speak(w) \/ StaySilent(w) \/ RecordNotice(w) \/ Alert(w)

Next ==
  \/ Tick
  \/ \E r \in Reminder, d \in Date :
       CreateReminder(r, d) \/ \E s \in {"pending", "sent", "cancelled"} : UpdateReminder(r, s, d)
  \/ \E r \in Reminder : DeleteReminder(r)
  \/ \E w \in Worker :
       \/ Scan(w) \/ Handler(w)
       \/ EnqueueWakeFails(w) \/ MarkFails(w) \/ NoticeFails(w) \/ Interrupted(w)
       \/ \E r \in Reminder : ReadReminder(w, r)
       \/ \E o \in Occurrence : ClaimWake(w, o)

Spec == Init /\ [][Next]_vars

\* The loop turns, the scheduler keeps asking, and the queue serves the oldest
\* job first, so that no job waits for ever behind newer ones.
Fairness ==
  /\ \A w \in Worker : WF_vars(Handler(w))
  /\ SF_vars(\E w \in Worker : Scan(w))
  /\ \A r \in Reminder : SF_vars(\E w \in Worker : ReadReminder(w, r))
  /\ \A o \in Occurrence : SF_vars(\E w \in Worker : ClaimWake(w, o))

FairSpec == Spec /\ Fairness

-----------------------------------------------------------------------------
\* Type invariant of the tables, the queue and the workers.
TypeOK ==
  /\ now \in 0..MaxTime /\ row \in [Reminder -> Row]
  /\ edits \in [Reminder -> 0..MaxEdits]
  /\ sends \in [Reminder -> Nat] /\ wakes \in [Occurrence -> Nat]
  /\ pc \in [Worker -> {"idle", "scan"} \cup Sending \cup Waking]
  /\ at \in [Worker -> Occurrence \cup {None}]
  /\ \A w \in Worker : pc[w] \in Sending \cup Waking <=> at[w] # None
  /\ left \in [Worker -> SUBSET Reminder] /\ draft \in [Worker -> Row \cup {None}]
  /\ claims \subseteq Occurrence /\ said \in [Occurrence -> Nat]
  /\ noticed \subseteq Occurrence /\ alerts \in [Occurrence -> Nat]
  /\ pushed \subseteq Occurrence /\ faults \in 0..MaxFaults

\* Each occurrence is said at most once and alerted at most once, and the alert
\* never comes before the message and its durable event, however many scans
\* list the reminder, however many jobs that makes and however they are
\* delivered again (record_companion_wake, notify_important_event).
OncePerOccurrence ==
  \A o \in Occurrence :
    /\ said[o] <= 1 /\ alerts[o] <= said[o]
    /\ alerts[o] = 1 => o \in claims /\ o \in noticed

\* A reminder is never said before its date, unless its owner moved it while a
\* job of the scan was on its way.
EarlyOnlyIfMoved ==
  \A o \in Occurrence : said[o] > 0 /\ o[2] > now => edits[o[1]] > 0

\* A due reminder wakes the companion, unless its owner changes it first: the
\* job of the occurrence is enqueued again until the wake is claimed, through
\* crashes and enqueues that fail in silence.
DueWakes ==
  \A o \in Occurrence, n \in 0..MaxEdits :
    (row[o[1]] = [status |-> "pending", due |-> o[2]] /\ o[2] <= now /\ edits[o[1]] = n)
      ~> (o \in claims \/ edits[o[1]] # n)

\* "el recordatorio ya quedó marcado `sent` ANTES de siquiera intentar el push"
\* (send_reminder.py): a pushed occurrence is not pending any more.
MarkedBeforePush ==
  \A o \in pushed : edits[o[1]] > 0 \/ row[o[1]] # [status |-> "pending", due |-> o[2]]
=============================================================================
