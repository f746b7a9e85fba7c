-------------------------- MODULE AutomationsProofs --------------------------
(***************************************************************************)
(* For any automations, workers, period, lease, timeout and bounds: the     *)
(* types, and that no date is enqueued twice unless a scan was slow.        *)
(***************************************************************************)
EXTENDS Automations, TLAPS

Time == 0..MaxTime
Claimed(w, a, s) == pc[w] = "claimed" /\ at[w] = <<a, s>>
Taken(a, s) == fired[<<a, s>>] > 0 \/ \E w \in Worker : Claimed(w, a, s)
Quick == Automation \ outlived

\* The claim of a date is enqueued once, by the one scan that holds it.
Once ==
  \A a \in Quick, s \in Time :
    /\ fired[<<a, s>>] <= 1
    /\ \A w \in Worker : Claimed(w, a, s) => fired[<<a, s>>] = 0
    /\ \A v, w \in Worker : Claimed(v, a, s) /\ Claimed(w, a, s) => v = w

\* Past a taken date next_run_at only moves forward.
Past ==
  \A a \in Quick, s \in Time :
    Taken(a, s) => s <= now /\ (row[a].due = None \/ row[a].due > s)

\* A scan that still lists a date already taken, or that began before a date
\* already taken, is kept out by a lease until half a lease after it began.
Leased ==
  \A w \in Worker : \A x \in left[w] :
    /\ x[2] <= since[w]
    /\ x[1] \in Quick =>
         \A s \in Time : Taken(x[1], s) /\ (s = x[2] \/ s > since[w])
                           => 2 * row[x[1]].lease >= 2 * since[w] + Lease

Counted == \A a \in Automation : row[a].failures <= errors

Inv == TypeOK /\ Counted /\ Once /\ Past /\ Leased

LEMMA Pairs ==
  /\ \A o \in Slot : o = <<o[1], o[2]>> /\ o[1] \in Automation /\ o[2] \in Time
  /\ \A a \in Automation, s \in Time : <<a, s>> \in Slot /\ <<a, s>> # None
  /\ None \notin Slot /\ Date \subseteq Time /\ Time \subseteq Nat /\ None \notin Date
BY AutomationAssumption DEF Slot, Date, Time

\* The next date comes after the beginning of the scan.
LEMMA NextDateLater ==
  ASSUME NEW anchor \in Nat, NEW after \in Nat, anchor <= after
  PROVE  NextDate(anchor, after) \in Nat /\ NextDate(anchor, after) > after
<1> DEFINE n == after - anchor
           q == n \div Period
<1>1. n \in Nat /\ Period \in Nat \ {0} /\ after = anchor + n
  BY AutomationAssumption
<1> HIDE DEF n
<1>2. q \in Nat
  BY <1>1
<1>3. n = Period * q + (n % Period) /\ n % Period \in 0..(Period - 1)
  BY <1>1
<1>4. Period * (q + 1) = Period * q + Period /\ Period * q \in Nat
  BY <1>1, <1>2
<1> HIDE DEF q
<1>5. anchor + Period * (q + 1) \in Nat /\ anchor + Period * (q + 1) > after
  BY <1>1, <1>3, <1>4
<1> QED
  BY <1>5 DEF NextDate, n, q

LEMMA NextRunLater ==
  ASSUME NEW x \in Automation \X Date \X Kind, NEW after \in Nat, x[2] <= after
  PROVE  /\ NextRun(x, after) \in Date \cup {None}
         /\ NextRun(x, after) # None => NextRun(x, after) > after
<1>1. x[2] \in Nat /\ x[2] >= 1
  BY DEF Date
<1>2. NextDate(x[2], after) \in Nat /\ NextDate(x[2], after) > after
  BY <1>1, NextDateLater
<1> QED
  BY <1>1, <1>2, AutomationAssumption DEF NextRun, Date

\* A step that takes no date, lists none and leaves dates and leases alone.
LEMMA Frame ==
  ASSUME TypeOK, Once, Past, Leased, UNCHANGED <<fired, outlived>>, now' \in Nat, now <= now',
         \A a \in Automation : row'[a].due = row[a].due /\ row'[a].lease = row[a].lease,
         \A w \in Worker, a \in Automation, s \in Time : Claimed(w, a, s)' => Claimed(w, a, s),
         \A w \in Worker : left'[w] = {} \/ (left'[w] \subseteq left[w] /\ since'[w] = since[w])
  PROVE  Once' /\ Past' /\ Leased'
<1>1. \A a \in Automation, s \in Time : Taken(a, s)' => Taken(a, s)
  BY DEF Taken
<1>2. Once'
  BY DEF Once, Quick
<1>3. Past'
  <2> SUFFICES ASSUME NEW a \in Quick, NEW s \in Time, Taken(a, s)'
               PROVE  s <= now' /\ (row'[a].due = None \/ row'[a].due > s)
    BY DEF Past, Quick
  <2>1. s <= now /\ (row[a].due = None \/ row[a].due > s)
    BY <1>1 DEF Past, Quick
  <2>2. s \in Nat /\ now \in Nat
    BY DEF TypeOK, Time
  <2> QED
    BY <2>1, <2>2 DEF Quick
<1>4. Leased'
  <2> SUFFICES ASSUME NEW w \in Worker, NEW x \in left'[w]
               PROVE  /\ x[2] <= since'[w]
                      /\ x[1] \in Quick =>
                           \A s \in Time : Taken(x[1], s)' /\ (s = x[2] \/ s > since'[w])
                             => 2 * row'[x[1]].lease >= 2 * since'[w] + Lease
    BY DEF Leased, Quick
  <2>1. x \in left[w] /\ since'[w] = since[w]
    OBVIOUS
  <2> QED
    BY <1>1, <2>1 DEF Leased, Quick
<1> QED
  BY <1>2, <1>3, <1>4

LEMMA Initially == Init => Inv
<1> SUFFICES ASSUME Init PROVE Inv
  OBVIOUS
<1>1. \A a \in Automation : row[a] = [there |-> TRUE, enabled |-> TRUE, kind |-> "schedule",
                                      due |-> 1, lease |-> 0, failures |-> 0]
  BY DEF Init
<1>2. row \in [Automation -> Row]
  <2>1. [there |-> TRUE, enabled |-> TRUE, kind |-> "schedule", due |-> 1,
         lease |-> 0, failures |-> 0] \in Row
    BY AutomationAssumption DEF Row, Kind, Date
  <2> QED
    BY <1>1, <2>1 DEF Init
<1>3. TypeOK
  BY <1>2, AutomationAssumption DEF Init, TypeOK
<1>4. Counted
  <2>1. errors = 0 /\ \A a \in Automation : row[a].failures = 0
    BY <1>1 DEF Init
  <2>2. 0 <= 0
    OBVIOUS
  <2> QED
    BY <2>1, <2>2, Zenon DEF Counted
<1>5. \A a \in Automation, s \in Time :
        fired[<<a, s>>] = 0 /\ \A w \in Worker : ~Claimed(w, a, s)
  BY Pairs DEF Init, Claimed
<1>6. Once /\ Past /\ Leased
  BY <1>5 DEF Init, Once, Past, Leased, Taken, Quick
<1> QED
  BY <1>3, <1>4, <1>6 DEF Inv

-----------------------------------------------------------------------------
(* One lemma per action.                                                    *)

LEMMA TickKeeps == Inv /\ Tick => Inv'
<1> SUFFICES ASSUME Inv, Tick PROVE Inv'
  OBVIOUS
<1>1. TypeOK' /\ Counted'
  BY AutomationAssumption DEF Inv, TypeOK, Counted, Tick, scans, bounds, history
<1>2. now' \in Nat /\ now <= now'
  BY DEF Inv, TypeOK, Tick
<1>3. Once' /\ Past' /\ Leased'
  BY <1>2, Frame DEF Inv, Tick, scans, history, Claimed
<1> QED
  BY <1>1, <1>3 DEF Inv

\* The requests leave the workers alone; a new date comes after now.
LEMMA RequestKeeps ==
  ASSUME Inv, NEW a \in Automation,
         SetTrigger(a) \/ SetEnabled(a) \/ DeleteAutomation(a) \/ Probar(a)
  PROVE  Inv'
<1>1. /\ UNCHANGED <<now, pc, at, scans, errors, faults, history>>
      /\ edits[a] < MaxEdits /\ edits' = [edits EXCEPT ![a] = @ + 1]
  BY DEF SetTrigger, SetEnabled, DeleteAutomation, Probar, Request
<1>2. /\ row' \in [Automation -> Row]
      /\ \A b \in Automation : row'[b].lease = row[b].lease /\ row'[b].failures = row[b].failures
      /\ \A b \in Automation : \/ row'[b].due = row[b].due
                               \/ row'[b].due = None
                               \/ row'[b].due \in Date /\ row'[b].due > now
  <2>1. row \in [Automation -> Row] /\ row[a] \in Row
    BY DEF Inv, TypeOK
  <2>2. CASE row' = [row EXCEPT ![a].kind = "webhook", ![a].due = None]
    BY <2>1, <2>2 DEF Row, Kind
  <2>3. ASSUME NEW d \in Date, now < d, row' = [row EXCEPT ![a].kind = "schedule", ![a].due = d]
        PROVE  <1>2!1 /\ <1>2!2 /\ <1>2!3
    BY <2>1, <2>3 DEF Row, Kind
  <2>4. CASE row' = [row EXCEPT ![a].enabled = ~@]
    BY <2>1, <2>4 DEF Row
  <2>5. CASE row' = [row EXCEPT ![a].there = FALSE]
    BY <2>1, <2>5 DEF Row
  <2>6. CASE UNCHANGED row
    BY <2>1, <2>6
  <2> QED
    BY <2>2, <2>3, <2>4, <2>5, <2>6 DEF SetTrigger, SetEnabled, DeleteAutomation, Probar
<1>3. jobs' \in [Slot -> Nat]
  <2>1. CASE UNCHANGED jobs
    BY <2>1 DEF Inv, TypeOK
  <2>2. CASE jobs' = [jobs EXCEPT ![<<a, 0>>] = @ + 1]
    <3>1. <<a, 0>> \in Slot
      BY AutomationAssumption DEF Slot
    <3> QED
      BY <2>2, <3>1 DEF Inv, TypeOK
  <2> QED
    BY <2>1, <2>2 DEF SetTrigger, SetEnabled, DeleteAutomation, Probar
<1>4. edits' \in [Automation -> 0..MaxEdits]
  BY <1>1, AutomationAssumption DEF Inv, TypeOK
<1>5. TypeOK'
  BY <1>1, <1>2, <1>3, <1>4 DEF Inv, TypeOK, scans, history
<1>6. Counted'
  BY <1>1, <1>2 DEF Inv, Counted
<1>7. UNCHANGED <<fired, outlived, left, since>>
  BY <1>1 DEF scans, history
<1>8. \A b \in Automation, s \in Time : Taken(b, s)' <=> Taken(b, s)
  BY <1>1, <1>7 DEF Taken, Claimed
<1>9. Once'
  BY <1>1, <1>7 DEF Inv, Once, Quick, Claimed
<1>10. Past'
  <2> SUFFICES ASSUME NEW b \in Quick, NEW s \in Time, Taken(b, s)'
               PROVE  s <= now' /\ (row'[b].due = None \/ row'[b].due > s)
    BY <1>7 DEF Past, Quick
  <2>1. s <= now /\ (row[b].due = None \/ row[b].due > s) /\ s \in Nat /\ now \in Nat
    BY <1>8 DEF Inv, Past, Quick, TypeOK, Time
  <2> QED
    BY <1>1, <1>2, <2>1 DEF Quick, Date
<1>11. Leased'
  <2> SUFFICES ASSUME NEW w \in Worker, NEW x \in left[w], x[1] \in Quick, NEW s \in Time,
                      Taken(x[1], s), s = x[2] \/ s > since[w]
               PROVE  2 * row'[x[1]].lease >= 2 * since[w] + Lease
    BY <1>7, <1>8 DEF Inv, Leased, Quick
  <2> QED
    BY <1>2 DEF Inv, Leased, Quick
<1> QED
  BY <1>5, <1>6, <1>9, <1>10, <1>11 DEF Inv

\* What a scan lists has not been taken: its date has come, and those that were
\* taken lie behind next_run_at.
LEMMA ScanKeeps == ASSUME Inv, NEW w \in Worker, Scan(w) PROVE Inv'
<1> DEFINE L == {<<a, row[a].due, row[a].kind>> : a \in Due}
<1>1. /\ left' = [left EXCEPT ![w] = L] /\ since' = [since EXCEPT ![w] = now]
      /\ pc' = [pc EXCEPT ![w] = "list"] /\ pc[w] = "idle"
      /\ UNCHANGED <<now, row, jobs, at, edits, errors, faults, fired, started, dropped, outlived>>
  BY DEF Scan, bounds, history
<1>2. \A x \in L : /\ x \in Automation \X Date \X Kind
                   /\ x[1] \in Automation /\ x[2] = row[x[1]].due
                   /\ x[2] \in Date /\ x[2] <= now
  <2> SUFFICES ASSUME NEW a \in Due
               PROVE  a \in Automation /\ row[a].due \in Date /\ row[a].due <= now /\ row[a].kind \in Kind
    OBVIOUS
  <2>1. a \in Automation /\ row[a] \in Row
    BY DEF Due, Inv, TypeOK
  <2> QED
    BY <2>1 DEF Due, IsDue, Row
<1> HIDE DEF L
<1>3. TypeOK'
  <2>1. left' \in [Worker -> SUBSET (Automation \X Date \X Kind)]
    BY <1>1, <1>2 DEF Inv, TypeOK
  <2>2. since' \in [Worker -> 0..MaxTime] /\ \A v \in Worker : since'[v] <= now'
    BY <1>1 DEF Inv, TypeOK
  <2>3. /\ pc' \in [Worker -> {"idle", "list", "claimed", "open", "turn", "saved"}]
        /\ \A v \in Worker : pc'[v] \in {"idle", "list"} <=> at'[v] = None
    BY <1>1 DEF Inv, TypeOK
  <2> QED
    BY <1>1, <2>1, <2>2, <2>3 DEF Inv, TypeOK
<1>4. Counted'
  BY <1>1 DEF Inv, Counted
<1>5. \A v \in Worker, a \in Automation, s \in Time : Claimed(v, a, s)' <=> Claimed(v, a, s)
  BY <1>1 DEF Claimed, Inv, TypeOK
<1>6. \A a \in Automation, s \in Time : Taken(a, s)' <=> Taken(a, s)
  BY <1>1, <1>5 DEF Taken
<1>7. Once' /\ Past'
  BY <1>1, <1>5, <1>6 DEF Inv, Once, Past, Quick
<1>8. Leased'
  <2> SUFFICES ASSUME NEW v \in Worker, NEW x \in left'[v]
               PROVE  /\ x[2] <= since'[v]
                      /\ x[1] \in Quick =>
                           \A s \in Time : Taken(x[1], s) /\ (s = x[2] \/ s > since'[v])
                             => 2 * row[x[1]].lease >= 2 * since'[v] + Lease
    BY <1>1, <1>2, <1>6 DEF Leased, Quick
  <2>1. CASE v = w
    <3>1. x \in L /\ since'[v] = now
      BY <1>1, <2>1 DEF Inv, TypeOK
    <3>2. ASSUME x[1] \in Quick, NEW s \in Time, Taken(x[1], s), s = x[2] \/ s > now PROVE FALSE
      <4>1. s <= now /\ (row[x[1]].due = None \/ row[x[1]].due > s)
        BY <3>2 DEF Inv, Past
      <4>2. row[x[1]].due = x[2] /\ x[2] \in Nat /\ x[2] # None /\ s \in Nat /\ now \in Nat
        BY <1>2, <3>1, Pairs DEF Inv, TypeOK, Time, Date
      <4> QED
        BY <3>2, <4>1, <4>2
    <3> QED
      BY <1>2, <3>1, <3>2
  <2>2. CASE v # w
    BY <1>1, <2>2 DEF Inv, TypeOK, Leased
  <2> QED
    BY <2>1, <2>2
<1> QED
  BY <1>3, <1>4, <1>7, <1>8 DEF Inv

\* A claim of another scan outlasts every scan that is less than half a lease
\* old, so the date claimed was not taken, and none since the scan began was.
LEMMA ClaimKeeps == ASSUME Inv, NEW w \in Worker, ClaimAndAdvance(w) PROVE Inv'
<1> PICK x \in left[w] :
      /\ left' = [left EXCEPT ![w] = @ \ {x}]
      /\ IF row[x[1]].there /\ Leasable(x[1])
         THEN /\ Advance(w, x)
              /\ pc' = [pc EXCEPT ![w] = "claimed"]
              /\ at' = [at EXCEPT ![w] = <<x[1], x[2]>>] /\ UNCHANGED since
              /\ outlived' = IF Outlives(w) THEN outlived \cup {x[1]} ELSE outlived
         ELSE Continue(w) /\ UNCHANGED <<row, outlived>>
  BY DEF ClaimAndAdvance
<1> DEFINE a == x[1]
           d == x[2]
<1>1. /\ pc[w] = "list" /\ at[w] = None
      /\ UNCHANGED <<now, jobs, edits, errors, faults, fired, started, dropped>>
  BY DEF ClaimAndAdvance, bounds, Inv, TypeOK
<1>2. /\ x \in Automation \X Date \X Kind /\ a \in Automation /\ d \in Date /\ d \in Time
      /\ d \in Nat /\ d <= since[w]
      /\ left' \in [Worker -> SUBSET (Automation \X Date \X Kind)]
      /\ \A v \in Worker : left'[v] \subseteq left[v]
  BY Pairs DEF Inv, TypeOK, Leased, Date
<1>3. /\ now \in Nat /\ Lease \in Nat
      /\ \A v \in Worker : since[v] \in Nat /\ since[v] <= now
      /\ \A b \in Automation : row[b] \in Row
      /\ \A b \in Automation : row[b].lease \in Nat
  BY AutomationAssumption DEF Inv, TypeOK, Row
<1>4. CASE ~(row[a].there /\ Leasable(a))
  <2>1. Continue(w) /\ UNCHANGED <<row, outlived>>
    BY <1>4
  <2>2. pc'[w] \in {"idle", "list"} /\ at'[w] = None
    BY <2>1 DEF Continue, Inv, TypeOK
  <2>3. TypeOK'
    <3>1. /\ since' \in [Worker -> 0..MaxTime]
          /\ \A v \in Worker : since'[v] <= now
      BY <2>1, <1>3, AutomationAssumption DEF Continue, Inv, TypeOK
    <3>2. /\ pc' \in [Worker -> {"idle", "list", "claimed", "open", "turn", "saved"}]
          /\ at' \in [Worker -> Slot \cup {None}]
          /\ \A v \in Worker : pc'[v] \in {"idle", "list"} <=> at'[v] = None
      BY <2>1, <2>2 DEF Continue, Inv, TypeOK
    <3> QED
      BY <1>1, <1>2, <2>1, <3>1, <3>2 DEF Inv, TypeOK
  <2>4. Counted'
    BY <1>1, <2>1 DEF Inv, Counted
  <2>5. \A v \in Worker, b \in Automation, s \in Time : Claimed(v, b, s)' => Claimed(v, b, s)
    BY <2>1, <2>2 DEF Continue, Claimed, Inv, TypeOK
  <2>6. \A v \in Worker : left'[v] = {} \/ (left'[v] \subseteq left[v] /\ since'[v] = since[v])
    BY <1>2, <2>1 DEF Continue, Inv, TypeOK
  <2>7. Once' /\ Past' /\ Leased'
    BY <1>1, <1>3, <2>1, <2>5, <2>6, Frame DEF Inv
  <2> QED
    BY <2>3, <2>4, <2>7 DEF Inv
<1>5. CASE row[a].there /\ Leasable(a)
  <2> DEFINE e == NextRun(x, since[w])
             l == since[w] + Lease
  <2>1. /\ row' = [row EXCEPT ![a].due = e, ![a].lease = l]
        /\ pc' = [pc EXCEPT ![w] = "claimed"] /\ at' = [at EXCEPT ![w] = <<a, d>>]
        /\ UNCHANGED since
        /\ outlived' = IF Outlives(w) THEN outlived \cup {a} ELSE outlived
    BY <1>5 DEF Advance
  <2>2. e \in Date \cup {None} /\ (e # None => e > since[w])
    BY <1>2, <1>3, NextRunLater
  <2>3. l \in 0..(MaxTime + Lease) /\ l \in Nat
    BY <1>3, AutomationAssumption DEF Inv, TypeOK
  <2> HIDE DEF e
  <2>4. /\ row' \in [Automation -> Row]
        /\ row'[a].due = e /\ row'[a].lease = l
        /\ \A b \in Automation : row'[b].failures = row[b].failures
        /\ \A b \in Automation \ {a} : row'[b] = row[b]
    <3> HIDE DEF l, a
    <3>1. row \in [Automation -> Row] /\ row[a] \in Row /\ a \in Automation
      BY <1>2, <1>3 DEF Inv, TypeOK
    <3>2. [row[a] EXCEPT !.due = e, !.lease = l] \in Row
      BY <2>2, <2>3, <3>1 DEF Row
    <3>3. row' = [row EXCEPT ![a] = [row[a] EXCEPT !.due = e, !.lease = l]]
      BY <2>1, <3>1 DEF Row
    <3>4. /\ [row[a] EXCEPT !.due = e, !.lease = l].due = e
          /\ [row[a] EXCEPT !.due = e, !.lease = l].lease = l
          /\ [row[a] EXCEPT !.due = e, !.lease = l].failures = row[a].failures
      BY <3>1 DEF Row
    <3> QED
      BY <3>1, <3>2, <3>3, <3>4
  <2>5. TypeOK'
    <3>1. <<a, d>> \in Slot /\ <<a, d>> # None
      BY <1>2, Pairs
    <3>2. /\ pc' \in [Worker -> {"idle", "list", "claimed", "open", "turn", "saved"}]
          /\ at' \in [Worker -> Slot \cup {None}]
          /\ \A v \in Worker : pc'[v] \in {"idle", "list"} <=> at'[v] = None
      BY <2>1, <3>1 DEF Inv, TypeOK
    <3>3. outlived' \subseteq Automation
      BY <1>2, <2>1 DEF Inv, TypeOK
    <3> QED
      BY <1>1, <1>2, <2>1, <2>4, <3>2, <3>3 DEF Inv, TypeOK
  <2>6. Counted'
    BY <1>1, <2>4 DEF Inv, Counted
  <2>7. \A v \in Worker, b \in Automation, s \in Time :
          Claimed(v, b, s)' <=> \/ Claimed(v, b, s)
                                \/ v = w /\ b = a /\ s = d
    BY <1>1, <2>1, Pairs DEF Claimed, Inv, TypeOK
  <2>8. \A b \in Automation, s \in Time : Taken(b, s)' <=> Taken(b, s) \/ (b = a /\ s = d)
    BY <1>1, <2>7 DEF Taken
  <2>9. ASSUME a \in Quick'
        PROVE  /\ a \in Quick
               /\ \A s \in Time : Taken(a, s) => s # d /\ s <= since[w]
               /\ \A v \in Worker : 2 * l >= 2 * since[v] + Lease
    <3>1. ~Outlives(w) /\ a \in Quick
      BY <2>1, <2>9 DEF Quick
    <3>2. 2 * (now - since[w]) <= Lease
      BY <1>3, <3>1 DEF Outlives
    <3>3. row[a].lease < now /\ row[a].lease \in Nat
      BY <1>2, <1>3, <1>5 DEF Leasable
    <3>4. ASSUME NEW s \in Time, Taken(a, s), s = d \/ s > since[w] PROVE FALSE
      <4>1. 2 * row[a].lease >= 2 * since[w] + Lease
        BY <3>1, <3>4 DEF Inv, Leased
      <4> QED
        BY <1>3, <3>2, <3>3, <4>1
    <3>5. \A s \in Time : s \in Nat
      BY DEF Time
    <3>6. \A v \in Worker : 2 * l >= 2 * since[v] + Lease
      BY <1>3, <3>2
    <3> QED
      BY <1>3, <3>1, <3>4, <3>5, <3>6
  <2> HIDE DEF l
  <2>10. \A b \in Quick' : b \in Quick
    BY <2>1 DEF Quick
  <2>11. Once'
    <3> SUFFICES ASSUME NEW b \in Quick', NEW s \in Time
                 PROVE  /\ fired[<<b, s>>] <= 1
                        /\ \A v \in Worker : Claimed(v, b, s)' => fired[<<b, s>>] = 0
                        /\ \A u, v \in Worker : Claimed(u, b, s)' /\ Claimed(v, b, s)' => u = v
      BY <1>1 DEF Once
    <3>1. b \in Quick /\ b \in Automation
      BY <2>10 DEF Quick
    <3>2. CASE b = a /\ s = d
      <4>1. ~Taken(a, d)
        BY <2>9, <3>2, <1>2
      <4>2. fired[<<a, d>>] \in Nat
        BY <1>2, Pairs DEF Inv, TypeOK
      <4>3. fired[<<a, d>>] = 0 /\ \A v \in Worker : ~Claimed(v, a, d)
        BY <4>1, <4>2 DEF Taken
      <4> QED
        BY <1>2, <2>7, <3>2, <4>3
    <3>3. CASE ~(b = a /\ s = d)
      BY <2>7, <3>1, <3>3 DEF Inv, Once
    <3> QED
      BY <3>2, <3>3
  <2>12. Past'
    <3> SUFFICES ASSUME NEW b \in Quick', NEW s \in Time, Taken(b, s)'
                 PROVE  s <= now /\ (row'[b].due = None \/ row'[b].due > s)
      BY <1>1 DEF Past
    <3>1. b \in Quick /\ b \in Automation /\ s \in Nat
      BY <2>10 DEF Quick, Time
    <3>2. CASE b = a
      <4>1. s <= since[w]
        BY <1>2, <2>8, <2>9, <3>2
      <4>2. e \in Nat \/ e = None
        BY <2>2 DEF Date
      <4> QED
        BY <1>3, <2>2, <2>4, <3>1, <3>2, <4>1, <4>2
    <3>3. CASE b # a
      BY <2>4, <2>8, <3>1, <3>3 DEF Inv, Past
    <3> QED
      BY <3>2, <3>3
  <2>13. Leased'
    <3> SUFFICES ASSUME NEW v \in Worker, NEW y \in left'[v]
                 PROVE  /\ y[2] <= since[v]
                        /\ y[1] \in Quick' =>
                             \A s \in Time : Taken(y[1], s)' /\ (s = y[2] \/ s > since[v])
                               => 2 * row'[y[1]].lease >= 2 * since[v] + Lease
      BY <2>1 DEF Leased
    <3>1. y \in left[v] /\ y[1] \in Automation
      BY <1>2 DEF Inv, TypeOK
    <3>2. CASE y[1] = a
      BY <2>4, <2>9, <3>1, <3>2 DEF Inv, Leased
    <3>3. CASE y[1] # a
      BY <2>4, <2>8, <2>10, <3>1, <3>3 DEF Inv, Leased
    <3> QED
      BY <3>2, <3>3
  <2> QED
    BY <2>5, <2>6, <2>11, <2>12, <2>13 DEF Inv
<1> QED
  BY <1>4, <1>5

LEMMA StartedLater ==
  ASSUME Inv, NEW o \in Slot PROVE Later(o) \in [Automation -> 0..MaxTime]
BY Pairs DEF Inv, TypeOK, Later, Time

LEMMA ConditionKeeps == ASSUME Inv, NEW w \in Worker, ConditionFalse(w) PROVE Inv'
<1>1. /\ pc[w] = "claimed" /\ at[w] \in Slot /\ started' = Later(at[w])
      /\ left' = left /\ Continue(w)
      /\ UNCHANGED <<now, row, jobs, edits, errors, faults, fired, dropped, outlived>>
  BY DEF ConditionFalse, bounds, Inv, TypeOK
<1>2. pc'[w] \in {"idle", "list"} /\ at'[w] = None
  BY <1>1 DEF Continue, Inv, TypeOK
<1>3. TypeOK'
  <2>1. since' \in [Worker -> 0..MaxTime] /\ \A v \in Worker : since'[v] <= now
    BY <1>1, AutomationAssumption DEF Continue, Inv, TypeOK
  <2>2. /\ pc' \in [Worker -> {"idle", "list", "claimed", "open", "turn", "saved"}]
        /\ at' \in [Worker -> Slot \cup {None}]
        /\ \A v \in Worker : pc'[v] \in {"idle", "list"} <=> at'[v] = None
    BY <1>1, <1>2 DEF Continue, Inv, TypeOK
  <2> QED
    BY <1>1, <2>1, <2>2, StartedLater DEF Inv, TypeOK
<1>4. Counted'
  BY <1>1 DEF Inv, Counted
<1>5. \A v \in Worker, a \in Automation, s \in Time : Claimed(v, a, s)' => Claimed(v, a, s)
  BY <1>1, <1>2 DEF Continue, Claimed, Inv, TypeOK
<1>6. \A v \in Worker : left'[v] = {} \/ (left'[v] \subseteq left[v] /\ since'[v] = since[v])
  BY <1>1 DEF Continue, Inv, TypeOK
<1>7. now' \in Nat /\ now <= now'
  BY <1>1 DEF Inv, TypeOK
<1>8. Once' /\ Past' /\ Leased'
  BY <1>1, <1>5, <1>6, <1>7, Frame DEF Inv
<1> QED
  BY <1>3, <1>4, <1>8 DEF Inv

\* The date its claim holds is enqueued for the first time.
LEMMA EnqueueRunKeeps == ASSUME Inv, NEW w \in Worker, EnqueueRun(w) PROVE Inv'
<1>1. /\ pc[w] = "claimed" /\ at[w] \in Slot
      /\ jobs' = [jobs EXCEPT ![at[w]] = @ + 1] /\ fired' = [fired EXCEPT ![at[w]] = @ + 1]
      /\ left' = left /\ Continue(w)
      /\ UNCHANGED <<now, row, edits, errors, faults, started, dropped, outlived>>
  BY DEF EnqueueRun, bounds, Inv, TypeOK
<1> PICK a \in Automation, d \in Time : at[w] = <<a, d>>
  BY <1>1, Pairs
<1>2. pc'[w] \in {"idle", "list"} /\ at'[w] = None
  BY <1>1 DEF Continue, Inv, TypeOK
<1>3. TypeOK'
  <2>1. since' \in [Worker -> 0..MaxTime] /\ \A v \in Worker : since'[v] <= now
    BY <1>1, AutomationAssumption DEF Continue, Inv, TypeOK
  <2>2. /\ pc' \in [Worker -> {"idle", "list", "claimed", "open", "turn", "saved"}]
        /\ at' \in [Worker -> Slot \cup {None}]
        /\ \A v \in Worker : pc'[v] \in {"idle", "list"} <=> at'[v] = None
    BY <1>1, <1>2 DEF Continue, Inv, TypeOK
  <2>3. jobs' \in [Slot -> Nat] /\ fired' \in [Slot -> Nat]
    BY <1>1 DEF Inv, TypeOK
  <2> QED
    BY <1>1, <2>1, <2>2, <2>3 DEF Inv, TypeOK
<1>4. Counted'
  BY <1>1 DEF Inv, Counted
<1>5. \A v \in Worker, b \in Automation, s \in Time :
        Claimed(v, b, s)' <=> Claimed(v, b, s) /\ v # w
  BY <1>1, <1>2 DEF Continue, Claimed, Inv, TypeOK
<1>6. \A b \in Automation, s \in Time :
        /\ fired[<<b, s>>] \in Nat
        /\ fired'[<<b, s>>] = IF b = a /\ s = d THEN fired[<<b, s>>] + 1 ELSE fired[<<b, s>>]
  <2> SUFFICES ASSUME NEW b \in Automation, NEW s \in Time
               PROVE  /\ fired[<<b, s>>] \in Nat
                      /\ fired'[<<b, s>>] = IF b = a /\ s = d THEN fired[<<b, s>>] + 1
                                                             ELSE fired[<<b, s>>]
    OBVIOUS
  <2>1. fired \in [Slot -> Nat] /\ <<b, s>> \in Slot
    BY Pairs DEF Inv, TypeOK
  <2>2. fired' = [fired EXCEPT ![<<a, d>>] = @ + 1]
    BY <1>1
  <2>3. <<b, s>> = <<a, d>> <=> b = a /\ s = d
    OBVIOUS
  <2> QED
    BY <2>1, <2>2, <2>3
<1>7. Claimed(w, a, d)
  BY <1>1 DEF Claimed
<1>8. \A b \in Automation, s \in Time : Taken(b, s)' <=> Taken(b, s)
  <2> SUFFICES ASSUME NEW b \in Automation, NEW s \in Time PROVE Taken(b, s)' <=> Taken(b, s)
    OBVIOUS
  <2>1. CASE b = a /\ s = d
    <3>1. fired[<<a, d>>] + 1 > 0
      BY <1>6
    <3> QED
      BY <1>6, <1>7, <2>1, <3>1 DEF Taken
  <2>2. CASE ~(b = a /\ s = d)
    <3>1. ~Claimed(w, b, s)
      BY <2>2 DEF Claimed
    <3> QED
      BY <1>5, <1>6, <2>2, <3>1 DEF Taken
  <2> QED
    BY <2>1, <2>2
<1>9. Once'
  <2> SUFFICES ASSUME NEW b \in Quick, NEW s \in Time
               PROVE  /\ fired'[<<b, s>>] <= 1
                      /\ \A v \in Worker : Claimed(v, b, s)' => fired'[<<b, s>>] = 0
                      /\ \A u, v \in Worker : Claimed(u, b, s)' /\ Claimed(v, b, s)' => u = v
    BY <1>1 DEF Once, Quick
  <2> b \in Automation
    BY DEF Quick
  <2>1. CASE b = a /\ s = d
    <3>1. fired[<<a, d>>] = 0 /\ \A v \in Worker : Claimed(v, a, d) => v = w
      BY <1>7, <2>1 DEF Inv, Once
    <3> QED
      BY <1>5, <1>6, <2>1, <3>1
  <2>2. CASE ~(b = a /\ s = d)
    BY <1>5, <1>6, <2>2 DEF Inv, Once
  <2> QED
    BY <2>1, <2>2
<1>10. Past'
  BY <1>1, <1>8 DEF Inv, Past, Quick
<1>11. Leased'
  <2> SUFFICES ASSUME NEW v \in Worker, NEW x \in left[v]
               PROVE  /\ x[2] <= since'[v]
                      /\ x[1] \in Quick =>
                           \A s \in Time : Taken(x[1], s) /\ (s = x[2] \/ s > since'[v])
                             => 2 * row[x[1]].lease >= 2 * since'[v] + Lease
    BY <1>1, <1>8 DEF Leased, Quick
  <2>1. since'[v] = since[v]
    BY <1>1 DEF Continue, Inv, TypeOK
  <2> QED
    BY <2>1 DEF Inv, Leased
<1> QED
  BY <1>3, <1>4, <1>9, <1>10, <1>11 DEF Inv

\* A step of run_automation: it holds no claim, before or after, and changes at
\* most enabled and failures of the rows.
LEMMA RunFrame ==
  ASSUME Inv, NEW w \in Worker, pc[w] # "claimed", pc'[w] \in {"idle", "open", "turn", "saved"},
         UNCHANGED <<now, left, since, fired, outlived>>,
         \A v \in Worker \ {w} : pc'[v] = pc[v] /\ at'[v] = at[v],
         \A a \in Automation : row'[a].due = row[a].due /\ row'[a].lease = row[a].lease
  PROVE  Once' /\ Past' /\ Leased'
<1>1. now' \in Nat /\ now <= now'
  BY DEF Inv, TypeOK
<1>2. \A v \in Worker, a \in Automation, s \in Time : Claimed(v, a, s)' => Claimed(v, a, s)
  BY DEF Claimed
<1>3. \A v \in Worker : left'[v] = {} \/ (left'[v] \subseteq left[v] /\ since'[v] = since[v])
  OBVIOUS
<1> QED
  BY <1>1, <1>2, <1>3, Frame DEF Inv

LEMMA ReadAutomationKeeps ==
  ASSUME Inv, NEW w \in Worker, NEW o \in Slot, ReadAutomation(w, o) PROVE Inv'
<1>1. /\ pc[w] = "idle" /\ jobs[o] > 0 /\ jobs' = [jobs EXCEPT ![o] = @ - 1]
      /\ \/ pc' = [pc EXCEPT ![w] = "open"] /\ at' = [at EXCEPT ![w] = o]
         \/ UNCHANGED <<pc, at>>
      /\ UNCHANGED <<now, row, left, since, edits, errors, faults,
                     fired, started, dropped, outlived>>
  BY DEF ReadAutomation, scans, bounds, history
<1>2. jobs' \in [Slot -> Nat]
  BY <1>1 DEF Inv, TypeOK
<1>3. TypeOK'
  BY <1>1, <1>2, Pairs DEF Inv, TypeOK
<1>4. Counted'
  BY <1>1 DEF Inv, Counted
<1>5. pc'[w] \in {"idle", "open"} /\ \A v \in Worker \ {w} : pc'[v] = pc[v] /\ at'[v] = at[v]
  BY <1>1 DEF Inv, TypeOK
<1>6. Once' /\ Past' /\ Leased'
  BY <1>1, <1>5, RunFrame
<1> QED
  BY <1>3, <1>4, <1>6 DEF Inv

LEMMA OpenRunKeeps == ASSUME Inv, NEW w \in Worker, OpenRun(w) PROVE Inv'
<1>1. /\ pc[w] = "open" /\ at[w] \in Slot
      /\ UNCHANGED <<now, row, left, since, edits, errors, faults, fired, dropped, outlived>>
      /\ \/ pc' = [pc EXCEPT ![w] = "turn"] /\ started' = Later(at[w]) /\ UNCHANGED <<at, jobs>>
         \/ /\ pc' = [pc EXCEPT ![w] = "idle"] /\ at' = [at EXCEPT ![w] = None]
            /\ jobs' = [jobs EXCEPT ![at[w]] = @ + 1] /\ UNCHANGED started
  BY DEF OpenRun, Idle, scans, bounds, Inv, TypeOK
<1>2. jobs' \in [Slot -> Nat] /\ started' \in [Automation -> 0..MaxTime]
  <2>1. jobs \in [Slot -> Nat] /\ started \in [Automation -> 0..MaxTime]
    BY DEF Inv, TypeOK
  <2>2. Later(at[w]) \in [Automation -> 0..MaxTime]
    BY <1>1, StartedLater
  <2>3. [jobs EXCEPT ![at[w]] = @ + 1] \in [Slot -> Nat]
    BY <1>1, <2>1
  <2> QED
    BY <1>1, <2>1, <2>2, <2>3
<1>3. TypeOK'
  <2>1. CASE pc' = [pc EXCEPT ![w] = "turn"] /\ UNCHANGED at
    BY <1>1, <1>2, <2>1 DEF Inv, TypeOK
  <2>2. CASE pc' = [pc EXCEPT ![w] = "idle"] /\ at' = [at EXCEPT ![w] = None]
    BY <1>1, <1>2, <2>2, Pairs DEF Inv, TypeOK
  <2> QED
    BY <1>1, <2>1, <2>2
<1>4. Counted'
  BY <1>1 DEF Inv, Counted
<1>5. pc'[w] \in {"idle", "turn"} /\ \A v \in Worker \ {w} : pc'[v] = pc[v] /\ at'[v] = at[v]
  BY <1>1 DEF Inv, TypeOK
<1>6. Once' /\ Past' /\ Leased'
  BY <1>1, <1>5, RunFrame
<1> QED
  BY <1>3, <1>4, <1>6 DEF Inv

LEMMA RunSavedKeeps == ASSUME Inv, NEW w \in Worker, RunSaved(w) PROVE Inv'
<1> DEFINE a == at[w][1]
<1>1. /\ pc[w] = "turn" /\ pc' = [pc EXCEPT ![w] = "saved"] /\ a \in Automation
      /\ UNCHANGED <<now, jobs, at, left, since, edits, faults,
                     fired, started, dropped, outlived>>
  BY Pairs DEF RunSaved, SaveRun, scans, history, Inv, TypeOK
<1> DEFINE Erred == row' = [row EXCEPT ![a] = Failed(row[a])]
           Succeeded == row' = [row EXCEPT ![a].failures = 0]
<1>2. \/ errors < MaxErrors /\ errors' = errors + 1 /\ (row' = row \/ Erred)
      \/ UNCHANGED errors /\ (row' = row \/ Succeeded)
  BY DEF RunSaved, SaveRun
<1> HIDE DEF Erred, Succeeded
<1>3. /\ errors \in Nat /\ errors' \in 0..MaxErrors /\ errors <= errors'
      /\ \A b \in Automation : row[b] \in Row /\ row[b].failures \in Nat /\ row[b].failures <= errors
  <2>1. errors \in 0..MaxErrors /\ MaxErrors \in Nat
    BY AutomationAssumption DEF Inv, TypeOK
  <2>2. errors' \in 0..MaxErrors /\ errors <= errors'
    BY <1>2, <2>1
  <2>3. \A b \in Automation : row[b] \in Row /\ row[b].failures \in 0..MaxErrors
    BY DEF Inv, TypeOK, Row
  <2> QED
    BY <2>1, <2>2, <2>3 DEF Inv, Counted
<1> HIDE DEF a
<1>4. /\ row' \in [Automation -> Row]
      /\ \A b \in Automation : /\ row'[b].due = row[b].due /\ row'[b].lease = row[b].lease
                               /\ row'[b].failures <= errors'
  <2>1. row \in [Automation -> Row] /\ row[a] \in Row
    BY <1>1, <1>3 DEF Inv, TypeOK
  <2>2. CASE row' = row
    BY <1>3, <2>1, <2>2
  <2>3. CASE Erred /\ errors < MaxErrors /\ errors' = errors + 1
    <3> DEFINE n == row[a].failures + 1
               b == row[a].enabled /\ n < Threshold
    <3>1. n \in 0..MaxErrors /\ n <= errors'
      BY <1>1, <1>3, <2>3, AutomationAssumption DEF Inv, TypeOK
    <3>2. Failed(row[a]) = [row[a] EXCEPT !.failures = n, !.enabled = b]
      BY DEF Failed
    <3>3. b \in BOOLEAN
      BY <2>1 DEF Row
    <3> HIDE DEF n, b
    <3>4. /\ Failed(row[a]) \in Row /\ Failed(row[a]).failures = n
          /\ Failed(row[a]).due = row[a].due /\ Failed(row[a]).lease = row[a].lease
      BY <2>1, <3>1, <3>2, <3>3 DEF Row
    <3> QED
      BY <1>1, <1>3, <2>1, <2>3, <3>1, <3>4 DEF Erred
  <2>4. CASE Succeeded /\ UNCHANGED errors
    <3>1. /\ [row[a] EXCEPT !.failures = 0] \in Row
          /\ [row[a] EXCEPT !.failures = 0].failures = 0
          /\ [row[a] EXCEPT !.failures = 0].due = row[a].due
          /\ [row[a] EXCEPT !.failures = 0].lease = row[a].lease
      BY <2>1, AutomationAssumption DEF Row
    <3> QED
      BY <1>1, <1>3, <2>1, <2>4, <3>1 DEF Succeeded
  <2> QED
    BY <1>2, <2>2, <2>3, <2>4
<1>5. TypeOK'
  BY <1>1, <1>3, <1>4 DEF Inv, TypeOK
<1>6. Counted'
  BY <1>4 DEF Counted
<1>7. pc'[w] = "saved" /\ \A v \in Worker \ {w} : pc'[v] = pc[v] /\ at'[v] = at[v]
  BY <1>1 DEF Inv, TypeOK
<1>8. Once' /\ Past' /\ Leased'
  BY <1>1, <1>4, <1>7, RunFrame
<1> QED
  BY <1>5, <1>6, <1>8 DEF Inv

LEMMA ReturnKeeps == ASSUME Inv, NEW w \in Worker, Return(w) PROVE Inv'
<1>1. /\ pc[w] = "saved" /\ pc' = [pc EXCEPT ![w] = "idle"] /\ at' = [at EXCEPT ![w] = None]
      /\ UNCHANGED <<now, row, jobs, left, since, edits, errors, faults,
                     fired, started, dropped, outlived>>
  BY DEF Return, Idle, scans, bounds, history
<1>2. TypeOK' /\ Counted'
  BY <1>1 DEF Inv, TypeOK, Counted
<1>3. pc'[w] = "idle" /\ \A v \in Worker \ {w} : pc'[v] = pc[v] /\ at'[v] = at[v]
  BY <1>1 DEF Inv, TypeOK
<1>4. Once' /\ Past' /\ Leased'
  BY <1>1, <1>3, RunFrame
<1> QED
  BY <1>2, <1>4 DEF Inv

LEMMA InterruptedKeeps == ASSUME Inv, NEW w \in Worker, Interrupted(w) PROVE Inv'
<1>1. /\ pc' = [pc EXCEPT ![w] = "idle"] /\ at' = [at EXCEPT ![w] = None]
      /\ left' = [left EXCEPT ![w] = {}] /\ since' = [since EXCEPT ![w] = 0]
      /\ faults < MaxFaults /\ faults' = faults + 1
      /\ UNCHANGED <<now, row, edits, errors, fired, started, outlived>>
  BY DEF Interrupted, Idle
<1>2. jobs' \in [Slot -> Nat] /\ dropped' \subseteq Slot
  <2>1. pc[w] \in {"claimed", "open", "turn", "saved"} => at[w] \in Slot
    BY DEF Inv, TypeOK
  <2> QED
    BY <2>1 DEF Interrupted, Inv, TypeOK
<1>3. TypeOK'
  <2>1. since' \in [Worker -> 0..MaxTime] /\ \A v \in Worker : since'[v] <= now
    BY <1>1, AutomationAssumption DEF Inv, TypeOK
  <2>2. faults' \in 0..MaxFaults
    BY <1>1, AutomationAssumption DEF Inv, TypeOK
  <2>3. left' \in [Worker -> SUBSET (Automation \X Date \X Kind)]
    BY <1>1 DEF Inv, TypeOK
  <2>4. /\ pc' \in [Worker -> {"idle", "list", "claimed", "open", "turn", "saved"}]
        /\ at' \in [Worker -> Slot \cup {None}]
        /\ \A v \in Worker : pc'[v] \in {"idle", "list"} <=> at'[v] = None
    BY <1>1 DEF Inv, TypeOK
  <2> QED
    BY <1>1, <1>2, <2>1, <2>2, <2>3, <2>4 DEF Inv, TypeOK
<1>4. Counted'
  BY <1>1 DEF Inv, Counted
<1>5. \A v \in Worker, a \in Automation, s \in Time : Claimed(v, a, s)' => Claimed(v, a, s)
  BY <1>1 DEF Claimed, Inv, TypeOK
<1>6. \A v \in Worker : left'[v] = {} \/ (left'[v] \subseteq left[v] /\ since'[v] = since[v])
  BY <1>1 DEF Inv, TypeOK
<1>7. now' \in Nat /\ now <= now'
  BY <1>1 DEF Inv, TypeOK
<1>8. Once' /\ Past' /\ Leased'
  BY <1>1, <1>5, <1>6, <1>7, Frame DEF Inv
<1> QED
  BY <1>3, <1>4, <1>8 DEF Inv

LEMMA StepKeeps == Inv /\ [Next]_vars => Inv'
<1> SUFFICES ASSUME Inv, [Next]_vars PROVE Inv'
  OBVIOUS
<1>1. CASE Tick
  BY <1>1, TickKeeps
<1>2. ASSUME NEW a \in Automation,
             SetTrigger(a) \/ SetEnabled(a) \/ DeleteAutomation(a) \/ Probar(a)
      PROVE  Inv'
  BY <1>2, RequestKeeps
<1>3. ASSUME NEW w \in Worker, Scan(w) \/ Interrupted(w) PROVE Inv'
  BY <1>3, ScanKeeps, InterruptedKeeps
<1>4. ASSUME NEW w \in Worker, Handler(w) PROVE Inv'
  BY <1>4, ClaimKeeps, ConditionKeeps, EnqueueRunKeeps, OpenRunKeeps, RunSavedKeeps, ReturnKeeps
     DEF Handler
<1>5. ASSUME NEW w \in Worker, NEW o \in Slot, ReadAutomation(w, o) PROVE Inv'
  BY <1>5, ReadAutomationKeeps
<1>6. CASE UNCHANGED vars
  <2>1. UNCHANGED <<now, row, jobs, pc, at, left, since, edits, errors, faults,
                    fired, started, dropped, outlived>>
    BY <1>6 DEF vars
  <2> QED
    BY <2>1 DEF Inv, TypeOK, Counted, Once, Past, Leased, Taken, Claimed, Quick
<1> QED
  BY <1>1, <1>2, <1>3, <1>4, <1>5, <1>6 DEF Next

THEOREM Invariance == Spec => []Inv
BY Initially, StepKeeps, PTL DEF Spec

\* The table, the queue and the workers keep their types, and the failures of a
\* row never pass the errors there were.
THEOREM TypeCorrect == Spec => []TypeOK
<1>1. Inv => TypeOK
  BY DEF Inv
<1> QED
  BY <1>1, Invariance, PTL

\* However scans overlap, crash and list again, whatever the period, the lease
\* and the timeout: a date is enqueued at most once, unless a scan took more
\* than half a lease to reach the automation.
THEOREM FiredOnce == Spec => []SlotOnce
<1>1. Inv => SlotOnce
  <2> SUFFICES ASSUME Inv, NEW o \in Slot, o[1] \notin outlived PROVE ~(fired[o] > 1)
    BY DEF SlotOnce
  <2>1. fired[<<o[1], o[2]>>] <= 1 /\ o = <<o[1], o[2]>> /\ fired[o] \in Nat
    BY Pairs DEF Inv, Once, Quick, TypeOK
  <2> QED
    BY <2>1
<1> QED
  BY <1>1, Invariance, PTL
=============================================================================
