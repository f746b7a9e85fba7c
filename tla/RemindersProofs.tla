-------------------------- MODULE RemindersProofs --------------------------
(***************************************************************************)
(* For any reminders, workers and bounds: the types, that an occurrence is  *)
(* said and alerted once, and that none is said early unless it was moved.  *)
(***************************************************************************)
EXTENDS Reminders, TLAPS

\* A turn holds a key nobody has claimed; past its commit the key is claimed,
\* said and not yet alerted; and no two workers are on the same wake.
OneTurn ==
  /\ \A w \in Worker : pc[w] = "turn" => at[w] \notin claims
  /\ \A w \in Worker : pc[w] \in {"notify", "alert"} =>
       at[w] \in claims /\ said[at[w]] = 1 /\ alerts[at[w]] = 0
  /\ \A w \in Worker : pc[w] = "alert" => at[w] \in noticed
  /\ \A v, w \in Worker : pc[v] \in Waking /\ pc[w] \in Waking /\ at[v] = at[w] => v = w
  /\ \A o \in Occurrence : said[o] > 0 => o \in claims

Rung(r) == row[r].status # "absent" /\ row[r].due <= now
Heard(r, d) ==
  wakes[<<r, d>>] > 0 \/ said[<<r, d>>] > 0 \/ \E w \in Worker : at[w] = <<r, d>>

\* Whatever is on its way for a reminder that was never changed is about the
\* date in its row, and that date has come.
OnTime ==
  \A r \in Reminder : edits[r] = 0 =>
    /\ sends[r] > 0 \/ (\E w \in Worker : r \in left[w]) => Rung(r)
    /\ \A d \in Date : Heard(r, d) => Rung(r) /\ row[r].due = d

Inv == TypeOK /\ OneTurn /\ OncePerOccurrence /\ OnTime

LEMMA Pairs ==
  /\ \A o \in Occurrence : o = <<o[1], o[2]>> /\ o[1] \in Reminder /\ o[2] \in Date
  /\ \A r \in Reminder, d \in Date : <<r, d>> \in Occurrence
  /\ \A r \in Reminder, d \in Date : <<r, d>>[1] = r /\ <<r, d>>[2] = d
                                           /\ <<r, d>> # None
  /\ Date \subseteq Nat
BY ReminderAssumption DEF Occurrence, Date

\* A step that changes neither the chat nor the notices, and starts no wake.
LEMMA FrameTurn ==
  ASSUME OneTurn, OncePerOccurrence, UNCHANGED <<chat, notices>>,
         \A w \in Worker : pc'[w] \in Waking => pc'[w] = pc[w] /\ at'[w] = at[w]
  PROVE  OneTurn' /\ OncePerOccurrence'
BY DEF OneTurn, OncePerOccurrence, Waking, chat, notices

\* A step that puts nothing on its way.
LEMMA FrameTime ==
  ASSUME OnTime, TypeOK, UNCHANGED owner, now' \in Nat, now <= now',
         \A r \in Reminder : sends'[r] > 0 => sends[r] > 0
                             \/ (\E w \in Worker : at[w] # None /\ at[w][1] = r),
         \A r \in Reminder, w \in Worker : r \in left'[w] => r \in left[w],
         \A r \in Reminder, d \in Date : Heard(r, d)' => Heard(r, d)
  PROVE  OnTime'
<1> SUFFICES ASSUME NEW r \in Reminder, edits[r] = 0
             PROVE  /\ sends'[r] > 0 \/ (\E w \in Worker : r \in left'[w]) => Rung(r)'
                    /\ \A d \in Date : Heard(r, d)' => Rung(r)' /\ row'[r].due = d
  BY DEF OnTime, owner
<1>1. Rung(r) => Rung(r)'
  <2>1. row[r].due \in Nat /\ now \in Nat
    BY Pairs DEF TypeOK, Row
  <2> QED
    BY <2>1 DEF Rung, owner
<1>2. ASSUME NEW w \in Worker, at[w] # None, at[w][1] = r
      PROVE  Rung(r)
  <2>1. at[w] = <<r, at[w][2]>> /\ at[w][2] \in Date
    BY <1>2, Pairs DEF TypeOK
  <2>2. Heard(r, at[w][2])
    BY <2>1 DEF Heard
  <2> QED
    BY <2>1, <2>2 DEF OnTime
<1>3. sends'[r] > 0 \/ (\E w \in Worker : r \in left'[w]) => Rung(r)
  BY <1>2 DEF OnTime
<1>4. \A d \in Date : Heard(r, d)' => Rung(r) /\ row[r].due = d
  BY DEF OnTime
<1> QED
  BY <1>1, <1>3, <1>4 DEF owner

LEMMA Initially == Init => Inv
<1> SUFFICES ASSUME Init PROVE Inv
  OBVIOUS
<1>1. \A r \in Reminder : row[r].status = "absent" /\ row[r] = [status |-> "absent", due |-> 1]
  BY DEF Init
<1>2. TypeOK
  <2>1. [status |-> "absent", due |-> 1] \in Row
    BY ReminderAssumption DEF Row, Status, Date
  <2>2. row \in [Reminder -> Row]
    BY <1>1, <2>1 DEF Init
  <2> QED
    BY <2>2, ReminderAssumption DEF Init, TypeOK, Waking, Sending
<1>3. OneTurn /\ OncePerOccurrence
  BY DEF Init, OneTurn, OncePerOccurrence, Waking
<1>4. OnTime
  <2>1. \A r \in Reminder, d \in Date : ~Heard(r, d)
    <3> SUFFICES ASSUME NEW r \in Reminder, NEW d \in Date PROVE ~Heard(r, d)
      OBVIOUS
    <3>1. <<r, d>> \in Occurrence
      BY Pairs
    <3>2. ~(wakes[<<r, d>>] > 0) /\ ~(said[<<r, d>>] > 0)
      BY <3>1 DEF Init
    <3>3. \A w \in Worker : at[w] # <<r, d>>
      BY <3>1, ReminderAssumption DEF Init, Occurrence, Date
    <3> QED
      BY <3>2, <3>3 DEF Heard
  <2> QED
    BY <2>1 DEF Init, OnTime
<1> QED
  BY <1>2, <1>3, <1>4 DEF Inv

-----------------------------------------------------------------------------
(* One lemma per action: the types, the turns, the dates.                    *)

LEMMA TickKeeps == Inv /\ Tick => Inv'
<1> SUFFICES ASSUME Inv, Tick PROVE Inv'
  OBVIOUS
<1>1. TypeOK'
  BY ReminderAssumption DEF Inv, TypeOK, Tick, owner, chat, notices
<1>2. OneTurn' /\ OncePerOccurrence'
  BY FrameTurn DEF Inv, Tick
<1>3. OnTime'
  <2>1. \A r \in Reminder, d \in Date : Heard(r, d)' => Heard(r, d)
    BY DEF Heard, Tick, chat
  <2>2. now' \in Nat /\ now <= now'
    BY DEF Inv, TypeOK, Tick
  <2> QED
    BY <2>1, <2>2, FrameTime DEF Inv, Tick
<1> QED
  BY <1>1, <1>2, <1>3 DEF Inv

LEMMA OwnerKeeps ==
  ASSUME Inv, NEW r \in Reminder, NEW d \in Date,
         \/ CreateReminder(r, d) \/ DeleteReminder(r)
         \/ \E s \in {"pending", "sent", "cancelled"} : UpdateReminder(r, s, d)
  PROVE  Inv'
<1>1. UNCHANGED <<now, sends, wakes, pc, at, left, draft, chat, notices, pushed, faults>>
  BY DEF CreateReminder, DeleteReminder, UpdateReminder
<1>2. /\ row' \in [Reminder -> Row] /\ edits' \in [Reminder -> 0..MaxEdits]
      /\ \A q \in Reminder \ {r} : row'[q] = row[q] /\ edits'[q] = edits[q]
      /\ \/ edits'[r] # 0
         \/ row[r].status = "absent" /\ edits'[r] = edits[r]
  <2>1. CASE CreateReminder(r, d)
    BY <2>1 DEF CreateReminder, Inv, TypeOK, Row, Status
  <2>2. CASE DeleteReminder(r)
    BY <2>2, ReminderAssumption DEF DeleteReminder, Inv, TypeOK, Row, Status
  <2>3. CASE \E s \in {"pending", "sent", "cancelled"} : UpdateReminder(r, s, d)
    BY <2>3, ReminderAssumption DEF UpdateReminder, Inv, TypeOK, Row, Status
  <2> QED
    BY <2>1, <2>2, <2>3
<1>3. TypeOK'
  BY <1>1, <1>2 DEF Inv, TypeOK, chat, notices
<1>4. OneTurn' /\ OncePerOccurrence'
  BY <1>1, FrameTurn DEF Inv
<1>5. OnTime'
  <2>1. \A q \in Reminder, e \in Date : Heard(q, e)' <=> Heard(q, e)
    BY <1>1 DEF Heard, chat
  <2> SUFFICES ASSUME NEW q \in Reminder, edits'[q] = 0
               PROVE  /\ sends'[q] > 0 \/ (\E w \in Worker : q \in left'[w]) => Rung(q)'
                      /\ \A e \in Date : Heard(q, e)' => Rung(q)' /\ row'[q].due = e
    BY DEF OnTime
  <2>2. CASE q # r
    BY <2>1, <2>2, <1>1, <1>2 DEF Inv, OnTime, Rung
  <2>3. CASE q = r
    BY <2>1, <2>3, <1>1, <1>2 DEF Inv, OnTime, Rung
  <2> QED
    BY <2>2, <2>3
<1> QED
  BY <1>3, <1>4, <1>5 DEF Inv

LEMMA ScanKeeps == ASSUME Inv, NEW w \in Worker, Scan(w) PROVE Inv'
<1>1. TypeOK'
  BY DEF Inv, TypeOK, Scan, Due, owner, chat, notices, Sending, Waking
<1>2. OneTurn' /\ OncePerOccurrence'
  BY FrameTurn DEF Inv, Scan, TypeOK, Waking
<1>3. OnTime'
  <2>1. \A r \in Reminder, d \in Date : Heard(r, d)' => Heard(r, d)
    BY DEF Heard, Scan, chat
  <2>2. \A r \in Reminder, v \in Worker : r \in left'[v] => r \in left[v] \/ Rung(r)
    BY DEF Inv, TypeOK, Scan, Due, Rung
  <2> QED
    BY <2>1, <2>2 DEF Inv, OnTime, Rung, Scan, owner
<1> QED
  BY <1>1, <1>2, <1>3 DEF Inv

LEMMA EnqueueSendKeeps == ASSUME Inv, NEW w \in Worker, EnqueueSend(w) PROVE Inv'
<1> PICK r \in left[w] : /\ sends' = [sends EXCEPT ![r] = @ + 1]
                         /\ left' = [left EXCEPT ![w] = @ \ {r}]
                         /\ pc' = [pc EXCEPT ![w] = IF left[w] = {r} THEN "idle" ELSE "scan"]
  BY DEF EnqueueSend
<1>0. r \in Reminder
  BY DEF Inv, TypeOK
<1>1. TypeOK'
  BY <1>0 DEF Inv, TypeOK, EnqueueSend, owner, chat, notices, Sending, Waking
<1>2. OneTurn' /\ OncePerOccurrence'
  BY FrameTurn DEF Inv, EnqueueSend, TypeOK, Waking
<1>3. OnTime'
  <2>1. \A q \in Reminder, d \in Date : Heard(q, d)' => Heard(q, d)
    BY DEF Heard, EnqueueSend, chat
  <2>2. \A q \in Reminder : sends'[q] > 0 => sends[q] > 0 \/ q \in left[w]
    BY <1>0 DEF Inv, TypeOK
  <2>3. \A q \in Reminder, v \in Worker : q \in left'[v] => q \in left[v]
    BY DEF Inv, TypeOK
  <2> QED
    BY <2>1, <2>2, <2>3 DEF Inv, OnTime, Rung, EnqueueSend, owner
<1> QED
  BY <1>1, <1>2, <1>3 DEF Inv

LEMMA ReadReminderKeeps ==
  ASSUME Inv, NEW w \in Worker, NEW r \in Reminder, ReadReminder(w, r) PROVE Inv'
<1>0. row[r].due \in Date /\ <<r, row[r].due>> \in Occurrence
  BY Pairs DEF Inv, TypeOK, Row
<1>1. TypeOK'
  <2>1. sends' \in [Reminder -> Nat]
    BY DEF Inv, TypeOK, ReadReminder
  <2>2. <<r, row[r].due>> # None
    BY <1>0, ReminderAssumption DEF Occurrence, Date
  <2>3. CASE row[r].status = "pending"
    BY <1>0, <2>1, <2>2, <2>3 DEF Inv, TypeOK, ReadReminder, owner, chat, notices, Sending, Waking
  <2>4. CASE row[r].status # "pending"
    BY <2>1, <2>4 DEF Inv, TypeOK, ReadReminder, owner, chat, notices
  <2> QED
    BY <2>3, <2>4
<1>2. OneTurn' /\ OncePerOccurrence'
  BY FrameTurn DEF Inv, ReadReminder, TypeOK, Waking
<1>3. OnTime'
  <2>1. \A q \in Reminder, d \in Date :
          Heard(q, d)' => Heard(q, d) \/ (q = r /\ d = row[r].due)
    <3> SUFFICES ASSUME NEW q \in Reminder, NEW d \in Date, NEW v \in Worker, at'[v] = <<q, d>>
                 PROVE  at[v] = <<q, d>> \/ (q = r /\ d = row[r].due)
      BY DEF Heard, ReadReminder, chat
    <3> QED
      BY DEF ReadReminder, Inv, TypeOK
  <2>2. \A q \in Reminder : sends'[q] > 0 => sends[q] > 0
    BY DEF Inv, TypeOK, ReadReminder
  <2>3. edits[r] = 0 => Rung(r)
    BY DEF Inv, OnTime, ReadReminder
  <2> QED
    BY <2>1, <2>2, <2>3 DEF Inv, OnTime, Rung, ReadReminder, owner
<1> QED
  BY <1>1, <1>2, <1>3 DEF Inv

\* The steps of send_reminder after its read put nothing on its way.
LEMMA SendKeeps ==
  ASSUME Inv, NEW w \in Worker,
         EnqueueWakeFails(w) \/ MarkReminderSent(w) \/ MarkFails(w) \/ Return(w)
  PROVE  Inv'
<1>1. /\ UNCHANGED <<now, owner, sends, wakes, left, chat, notices>>
      /\ pc[w] \in Sending
      /\ \/ \E s \in Sending : pc' = [pc EXCEPT ![w] = s] /\ at' = at
         \/ pc' = [pc EXCEPT ![w] = "idle"] /\ at' = [at EXCEPT ![w] = None]
  BY DEF EnqueueWakeFails, MarkReminderSent, MarkFails, Return, Idle, Sending
<1>2. draft' \in [Worker -> Row \cup {None}] /\ pushed' \subseteq Occurrence /\ faults' \in 0..MaxFaults
  <2>0. at[w] \in Occurrence /\ at[w][1] \in Reminder
    BY <1>1, Pairs DEF Inv, TypeOK
  <2>1. CASE EnqueueWakeFails(w) \/ MarkFails(w)
    BY <2>1, ReminderAssumption DEF EnqueueWakeFails, MarkFails, Inv, TypeOK
  <2>2. CASE MarkReminderSent(w)
    <3>1. Marked(at[w][1]) \in Row
      BY <2>0, ReminderAssumption DEF Marked, NextDue, Row, Status, Date, Inv, TypeOK
    <3> QED
      BY <3>1, <2>2 DEF MarkReminderSent, Inv, TypeOK
  <2>3. CASE Return(w)
    BY <2>0, <2>3 DEF Return, PushMobile, Inv, TypeOK
  <2> QED
    BY <2>1, <2>2, <2>3
<1>3. TypeOK'
  BY <1>1, <1>2, ReminderAssumption DEF Inv, TypeOK, owner, chat, notices, Sending, Waking
<1>4. OneTurn' /\ OncePerOccurrence'
  BY <1>1, FrameTurn DEF Inv, TypeOK, Sending, Waking
<1>5. OnTime'
  <2>1. \A q \in Reminder, d \in Date : Heard(q, d)' => Heard(q, d)
    <3>1. \A q \in Reminder, d \in Date, v \in Worker : at'[v] = <<q, d>> => at[v] = <<q, d>>
      <4>1. \A v \in Worker : at'[v] = at[v] \/ at'[v] = None
        BY <1>1 DEF Inv, TypeOK
      <4> QED
        BY <4>1, Pairs
    <3> QED
      BY <1>1, <3>1 DEF Heard, chat
  <2> QED
    BY <1>1, <2>1 DEF Inv, OnTime, Rung, owner
<1> QED
  BY <1>3, <1>4, <1>5 DEF Inv

LEMMA EnqueueWakeKeeps == ASSUME Inv, NEW w \in Worker, EnqueueWake(w) PROVE Inv'
<1>0. at[w] \in Occurrence
  BY DEF EnqueueWake, Inv, TypeOK, Sending
<1>1. TypeOK'
  BY <1>0 DEF Inv, TypeOK, EnqueueWake, owner, chat, notices, Sending, Waking
<1>2. OneTurn' /\ OncePerOccurrence'
  BY FrameTurn DEF Inv, EnqueueWake, TypeOK, Waking
<1>3. OnTime'
  <2>1. \A q \in Reminder, d \in Date : Heard(q, d)' => Heard(q, d)
    <3>1. \A o \in Occurrence : wakes'[o] > 0 => wakes[o] > 0 \/ o = at[w]
      BY <1>0 DEF EnqueueWake, Inv, TypeOK
    <3> QED
      BY <3>1, Pairs DEF Heard, EnqueueWake, chat
  <2> QED
    BY <2>1 DEF Inv, OnTime, Rung, EnqueueWake, owner
<1> QED
  BY <1>1, <1>2, <1>3 DEF Inv

LEMMA ClaimWakeKeeps ==
  ASSUME Inv, NEW w \in Worker, NEW o \in Occurrence, ClaimWake(w, o) PROVE Inv'
<1>1. /\ UNCHANGED <<now, owner, sends, left, draft, chat, notices, pushed, faults>>
      /\ wakes' = [wakes EXCEPT ![o] = @ - 1] /\ wakes[o] > 0
      /\ \/ UNCHANGED <<pc, at>>
         \/ /\ o \notin claims
            /\ pc' = [pc EXCEPT ![w] = "turn"] /\ at' = [at EXCEPT ![w] = o]
  BY DEF ClaimWake
<1>2. TypeOK'
  <2>1. wakes' \in [Occurrence -> Nat] /\ o # None
    BY <1>1, Pairs DEF Inv, TypeOK
  <2>2. CASE UNCHANGED <<pc, at>>
    BY <1>1, <2>1, <2>2 DEF Inv, TypeOK, owner, chat, notices
  <2>3. CASE pc' = [pc EXCEPT ![w] = "turn"] /\ at' = [at EXCEPT ![w] = o]
    BY <1>1, <2>1, <2>3 DEF Inv, TypeOK, owner, chat, notices, Sending, Waking
  <2> QED
    BY <1>1, <2>2, <2>3
<1>3. OneTurn' /\ OncePerOccurrence'
  <2>1. CASE UNCHANGED <<pc, at>>
    BY <1>1, <2>1, FrameTurn DEF Inv
  <2>2. CASE o \notin claims /\ pc' = [pc EXCEPT ![w] = "turn"] /\ at' = [at EXCEPT ![w] = o]
    <3>1. \A v \in Worker : pc[v] \in Waking => at[v] # o
      BY <2>2 DEF ClaimWake, Claiming, Inv, OneTurn, Waking
    <3>2. pc'[w] = "turn" /\ at'[w] = o /\ \A v \in Worker \ {w} : pc'[v] = pc[v] /\ at'[v] = at[v]
      BY <2>2 DEF Inv, TypeOK
    <3> QED
      BY <1>1, <2>2, <3>1, <3>2 DEF Inv, OneTurn, OncePerOccurrence, chat, notices, Waking
  <2> QED
    BY <1>1, <2>1, <2>2
<1>4. OnTime'
  <2>1. \A q \in Reminder, d \in Date : Heard(q, d)' => Heard(q, d)
    <3>1. \A p \in Occurrence : wakes'[p] > 0 => wakes[p] > 0
      BY <1>1 DEF Inv, TypeOK
    <3>2. \A v \in Worker : at'[v] = at[v] \/ at'[v] = o
      BY <1>1 DEF Inv, TypeOK
    <3> QED
      BY <1>1, <3>1, <3>2, Pairs DEF Heard, chat
  <2> QED
    BY <1>1, <2>1 DEF Inv, OnTime, Rung, owner
<1> QED
  BY <1>2, <1>3, <1>4 DEF Inv

\* The commits of a wake and its notification.
LEMMA WakeKeeps ==
  ASSUME Inv, NEW w \in Worker,
         Speak(w) \/ StaySilent(w) \/ RecordNotice(w) \/ NoticeFails(w) \/ Alert(w)
  PROVE  Inv'
<1>1. /\ UNCHANGED <<now, owner, sends, wakes, left, draft, pushed>>
      /\ pc[w] \in Waking /\ faults' \in 0..MaxFaults
  BY ReminderAssumption DEF Speak, StaySilent, RecordNotice, NoticeFails, Alert, Waking, Inv, TypeOK
<1>2. at[w] \in Occurrence /\ \A v \in Worker \ {w} : pc[v] \in Waking => at[v] # at[w]
  BY <1>1 DEF Inv, TypeOK, OneTurn
<1>3. \/ \E s \in Waking : pc' = [pc EXCEPT ![w] = s] /\ at' = at
      \/ pc' = [pc EXCEPT ![w] = "idle"] /\ at' = [at EXCEPT ![w] = None]
  BY DEF Speak, StaySilent, RecordNotice, NoticeFails, Alert, Waking, Idle
<1>4. /\ claims' \in {claims, claims \cup {at[w]}} /\ noticed' \in {noticed, noticed \cup {at[w]}}
      /\ said' \in {said, [said EXCEPT ![at[w]] = @ + 1]}
      /\ alerts' \in {alerts, [alerts EXCEPT ![at[w]] = @ + 1]}
  BY DEF Speak, StaySilent, RecordNotice, NoticeFails, Alert, chat, notices
<1>5. TypeOK'
  <2>1. pc' \in [Worker -> {"idle", "scan"} \cup Sending \cup Waking] /\ at' \in [Worker -> Occurrence \cup {None}]
        /\ \A v \in Worker : pc'[v] \in Sending \cup Waking <=> at'[v] # None
    BY <1>1, <1>3 DEF Inv, TypeOK, Sending, Waking
  <2>2. claims' \subseteq Occurrence /\ said' \in [Occurrence -> Nat]
        /\ noticed' \subseteq Occurrence /\ alerts' \in [Occurrence -> Nat]
    BY <1>2, <1>4 DEF Inv, TypeOK
  <2> QED
    BY <1>1, <2>1, <2>2 DEF Inv, TypeOK, owner
<1>6. OneTurn' /\ OncePerOccurrence'
  <2>0. /\ pc \in [Worker -> {"idle", "scan"} \cup Sending \cup Waking]
        /\ at \in [Worker -> Occurrence \cup {None}]
        /\ said \in [Occurrence -> Nat] /\ alerts \in [Occurrence -> Nat]
    BY DEF Inv, TypeOK
  <2>1. CASE Speak(w)
    <3>1. said[at[w]] = 0 /\ alerts[at[w]] = 0 /\ at[w] \notin claims
      BY <1>2, <2>0, <2>1 DEF Speak, Inv, OneTurn, OncePerOccurrence
    <3> QED
      BY <1>2, <2>0, <2>1, <3>1 DEF Speak, Inv, OneTurn, OncePerOccurrence, notices, Waking
  <2>2. CASE StaySilent(w)
    BY <1>2, <2>0, <2>2 DEF StaySilent, Idle, Inv, OneTurn, OncePerOccurrence, notices, Waking
  <2>3. CASE RecordNotice(w) \/ NoticeFails(w)
    BY <1>2, <2>0, <2>3 DEF RecordNotice, NoticeFails, Idle, Inv, OneTurn, OncePerOccurrence, chat, notices, Waking
  <2>4. CASE Alert(w)
    BY <1>2, <2>0, <2>4 DEF Alert, Idle, Inv, OneTurn, OncePerOccurrence, chat, Waking
  <2> QED
    BY <2>1, <2>2, <2>3, <2>4
<1>7. OnTime'
  <2>1. \A q \in Reminder, d \in Date : Heard(q, d)' => Heard(q, d)
    <3>1. \A v \in Worker : at'[v] = at[v] \/ at'[v] = None
      BY <1>3 DEF Inv, TypeOK
    <3>2. \A p \in Occurrence : said'[p] > 0 => said[p] > 0 \/ p = at[w]
      BY <1>2, <1>4 DEF Inv, TypeOK
    <3> QED
      BY <1>1, <3>1, <3>2, Pairs DEF Heard
  <2> QED
    BY <1>1, <2>1 DEF Inv, OnTime, Rung, owner
<1> QED
  BY <1>5, <1>6, <1>7 DEF Inv

LEMMA InterruptedKeeps == ASSUME Inv, NEW w \in Worker, Interrupted(w) PROVE Inv'
<1>1. /\ pc' = [pc EXCEPT ![w] = "idle"] /\ at' = [at EXCEPT ![w] = None]
      /\ left' = [left EXCEPT ![w] = {}] /\ draft' = [draft EXCEPT ![w] = None]
      /\ UNCHANGED <<now, owner, chat, notices, pushed>> /\ faults' \in 0..MaxFaults
  BY ReminderAssumption DEF Interrupted, Idle, Inv, TypeOK
<1>2. /\ sends' \in [Reminder -> Nat]
      /\ \A q \in Reminder : sends'[q] > 0 => sends[q] > 0 \/ (at[w] # None /\ at[w][1] = q)
  <2>1. CASE pc[w] \in Sending
    BY <2>1, Pairs DEF Interrupted, Inv, TypeOK
  <2>2. CASE pc[w] \notin Sending
    BY <2>2 DEF Interrupted, Inv, TypeOK
  <2> QED
    BY <2>1, <2>2
<1>3. /\ wakes' \in [Occurrence -> Nat]
      /\ \A o \in Occurrence : wakes'[o] > 0 => wakes[o] > 0 \/ at[w] = o
  <2>1. CASE pc[w] \in Waking
    BY <2>1, Pairs DEF Interrupted, Inv, TypeOK
  <2>2. CASE pc[w] \notin Waking
    BY <2>2 DEF Interrupted, Inv, TypeOK
  <2> QED
    BY <2>1, <2>2
<1>4. TypeOK'
  BY <1>1, <1>2, <1>3 DEF Inv, TypeOK, owner, chat, notices, Sending, Waking
<1>5. OneTurn' /\ OncePerOccurrence'
  BY <1>1, FrameTurn DEF Inv, TypeOK, Waking
<1>6. OnTime'
  <2>1. \A q \in Reminder, d \in Date : Heard(q, d)' => Heard(q, d)
    <3>1. \A v \in Worker : at'[v] = at[v] \/ at'[v] = None
      BY <1>1 DEF Inv, TypeOK
    <3> QED
      BY <1>1, <1>3, <3>1, Pairs DEF Heard, chat
  <2>2. now' \in Nat /\ now <= now'
    BY <1>1 DEF Inv, TypeOK
  <2>3. \A q \in Reminder, v \in Worker : q \in left'[v] => q \in left[v]
    BY <1>1 DEF Inv, TypeOK
  <2> QED
    BY <1>1, <1>2, <2>1, <2>2, <2>3, FrameTime DEF Inv
<1> QED
  BY <1>4, <1>5, <1>6 DEF Inv

-----------------------------------------------------------------------------
LEMMA StepKeeps == Inv /\ [Next]_vars => Inv'
<1> SUFFICES ASSUME Inv, [Next]_vars PROVE Inv'
  OBVIOUS
<1>1. CASE Tick
  BY <1>1, TickKeeps
<1>2. CASE \E r \in Reminder, d \in Date :
             CreateReminder(r, d) \/ \E s \in {"pending", "sent", "cancelled"} : UpdateReminder(r, s, d)
  BY <1>2, OwnerKeeps
<1>3. CASE \E r \in Reminder : DeleteReminder(r)
  <2>1. 1 \in Date
    BY ReminderAssumption DEF Date
  <2> QED
    BY <1>3, <2>1, OwnerKeeps
<1>4. ASSUME NEW w \in Worker, Scan(w) \/ Interrupted(w) PROVE Inv'
  BY <1>4, ScanKeeps, InterruptedKeeps
<1>5. ASSUME NEW w \in Worker, Handler(w) PROVE Inv'
  BY <1>5, EnqueueSendKeeps, EnqueueWakeKeeps, SendKeeps, WakeKeeps DEF Handler
<1>6. ASSUME NEW w \in Worker, EnqueueWakeFails(w) \/ MarkFails(w) \/ NoticeFails(w) PROVE Inv'
  BY <1>6, SendKeeps, WakeKeeps
<1>7. ASSUME NEW w \in Worker, NEW r \in Reminder, ReadReminder(w, r) PROVE Inv'
  BY <1>7, ReadReminderKeeps
<1>8. ASSUME NEW w \in Worker, NEW o \in Occurrence, ClaimWake(w, o) PROVE Inv'
  BY <1>8, ClaimWakeKeeps
<1>9. CASE UNCHANGED vars
  BY <1>9 DEF vars, owner, chat, notices, Inv, TypeOK, OneTurn, OncePerOccurrence, OnTime, Heard, Rung
<1> QED
  BY <1>1, <1>2, <1>3, <1>4, <1>5, <1>6, <1>7, <1>8, <1>9 DEF Next

THEOREM Invariance == Spec => []Inv
BY Initially, StepKeeps, PTL DEF Spec

\* The tables, the queue and the workers keep their types.
THEOREM TypeCorrect == Spec => []TypeOK
<1>1. Inv => TypeOK
  BY DEF Inv
<1> QED
  BY <1>1, Invariance, PTL

\* Scans that pile jobs up, jobs delivered again, crashes and failed commits
\* never make an occurrence heard or alerted twice.
THEOREM SaidOnce == Spec => []OncePerOccurrence
<1>1. Inv => OncePerOccurrence
  BY DEF Inv
<1> QED
  BY <1>1, Invariance, PTL

\* A reminder its owner left alone is not heard before its date.
THEOREM NeverEarly == Spec => []EarlyOnlyIfMoved
<1>1. Inv => EarlyOnlyIfMoved
  <2> SUFFICES ASSUME Inv, NEW o \in Occurrence, said[o] > 0, edits[o[1]] = 0 PROVE o[2] <= now
    BY Pairs DEF Inv, TypeOK, EarlyOnlyIfMoved
  <2>1. Heard(o[1], o[2]) /\ o[1] \in Reminder /\ o[2] \in Date
    BY Pairs DEF Heard
  <2> QED
    BY <2>1 DEF Inv, OnTime, Rung
<1> QED
  BY <1>1, Invariance, PTL
=============================================================================
