------------------------------- MODULE Journal -------------------------------
(***************************************************************************)
(* The durable journal of a forge session: one SQLite file, written by the  *)
(* hosts that hold (or believe they hold) the session's lease and read by   *)
(* cursor.  An append is one transaction, taken here in the steps the code   *)
(* takes: the checks, one INSERT per draft, the COMMIT.  What is written in  *)
(* a transaction that has not committed is kept apart (tx.rows), because a   *)
(* reader that shares the writer's connection sees it and the others do not. *)
(* A hash is the sequence of everything it digests.                          *)
(*                                                                         *)
(* An operator commented "(fault)" is the code with one mistake in it; it  *)
(* is no part of Next and shows which property the mistake would break.    *)
(***************************************************************************)
EXTENDS Integers, Sequences, FiniteSets

CONSTANTS Hosts,        \* processes that append
          Streams,
          Bodies,       \* what a draft holds
          Oversized,    \* bodies whose serialized event exceeds the limit
          Batches,      \* the sequences of drafts the hosts append
          Guarded,      \* those that may be appended with a guard
          Readers,
          Shares,       \* <<r, h>>: reader r uses the connection of host h
          Keys,         \* the (projection_name, key) of the projection rows
          Blobs,
          PageLimit,    \* limite of leer_todos
          MaxLamport,   \* bound: events ever written
          MaxEpoch,     \* bound: leases ever granted
          MaxFaults,    \* bound: failed writes and crashes
          None          \* no transaction, no request, no row

ASSUME JournalAssumption ==
  /\ Oversized \subseteq Bodies
  /\ Batches \subseteq Seq(Bodies) /\ << >> \notin Batches
  /\ Guarded \subseteq Batches
  /\ Shares \subseteq Readers \X Hosts
  /\ PageLimit \in Nat \ {0}
  /\ {MaxLamport, MaxEpoch, MaxFaults} \subseteq Nat

VARIABLES rows,         \* committed events
          heads,        \* stream_heads: last seq and hash of each stream
          meta,         \* journal_meta: lamport, max_lease_epoch
          projections,  \* the row of each key, or None
          blobs,        \* cas_blobs: "absent", "stored", "redacted"
          tx,           \* the write transaction that holds the lock, or None
          req,          \* the append each host is about to make, or None
          epoch,        \* the lease epoch each host believes it holds
          granted,      \* the newest epoch of the lease service
          cursor,       \* the lamport each reader has reached
          seen,         \* the events each reader has folded
          faults

vars == <<rows, heads, meta, projections, blobs, tx, req, epoch, granted,
          cursor, seen, faults>>
journal == <<rows, heads, meta>>
hosts == <<req, epoch, granted>>
readers == <<cursor, seen>>

Genesis == << >>
Core(e) == <<e.stream, e.seq, e.lamport, e.epoch, e.body>>
Hash(core, prev) == Append(prev, core)

OfStream(events, s) == {e \in events : e.stream = s}
\* The state of a projection: what it keeps of the events it folded, of all
\* streams (snapshot, which state_hash digests whole).
Fold(events) == {<<e.stream, e.seq, e.body>> : e \in events}

Init ==
  /\ rows = {} /\ heads = [s \in Streams |-> [seq |-> 0, hash |-> Genesis]]
  /\ meta = [lamport |-> 0, epoch |-> 0]
  /\ projections = [k \in Keys |-> None]
  /\ blobs = [b \in Blobs |-> "absent"]
  /\ tx = None /\ req = [h \in Hosts |-> None]
  /\ epoch = [h \in Hosts |-> 0] /\ granted = 0
  /\ cursor = [r \in Readers |-> 0] /\ seen = [r \in Readers |-> {}]
  /\ faults = 0

-----------------------------------------------------------------------------
(* The host's side: a lease from the service outside, then an append that    *)
(* cites the head it read and, for append_if, the state of a projection.     *)

Acquire(h) ==
  /\ req[h] = None /\ granted < MaxEpoch
  /\ granted' = granted + 1 /\ epoch' = [epoch EXCEPT ![h] = granted + 1]
  /\ UNCHANGED <<journal, projections, blobs, tx, req, readers, faults>>

\* What a host can cite: no guard, or a row by its key and the state some
\* reader's fold had.  A Guard names no stream.
Guards(batch) ==
  {None} \cup IF batch \in Guarded
             THEN [key : Keys, state : {Fold(seen[r]) : r \in Readers}]
             ELSE {}

Prepare(h, s, batch) ==
  /\ req[h] = None /\ epoch[h] > 0
  /\ meta.lamport + Len(batch) <= MaxLamport
  /\ \E guard \in Guards(batch) :
       req' = [req EXCEPT ![h] = [stream |-> s, batch |-> batch, guard |-> guard,
                                  expected |-> heads[s].seq]]
  /\ UNCHANGED <<journal, projections, blobs, tx, epoch, granted, readers, faults>>

-----------------------------------------------------------------------------
(* _append_interno: the lock, BEGIN IMMEDIATE, the three refusals, one INSERT *)
(* per draft and the COMMIT that also moves the head and the clock.           *)

\* (fault) a stream is fenced by its own events only.
FencedByStream(h) == \E e \in OfStream(rows, req[h].stream) : epoch[h] < e.epoch
Fenced(h) == epoch[h] < meta.epoch
SeqConflict(h) == req[h].expected # heads[req[h].stream].seq
\* (fault) the state is compared, its age is not.
GuardFailedAnyAge(h) ==
  /\ req[h].guard # None
  /\ LET p == projections[req[h].guard.key]
     IN p = None \/ (p # None /\ p.state # req[h].guard.state)

\* The row's number is compared with the head of the stream that is appended
\* to, whichever stream the number counts.
GuardFailed(h) ==
  /\ req[h].guard # None
  /\ LET p == projections[req[h].guard.key]
     IN \/ p = None
        \/ /\ p # None
           /\ \/ p.applied # heads[req[h].stream].seq
              \/ p.state # req[h].guard.state

Refuse(h) ==
  /\ tx = None /\ req[h] # None
  /\ Fenced(h) \/ SeqConflict(h) \/ GuardFailed(h)
  /\ req' = [req EXCEPT ![h] = None]
  /\ UNCHANGED <<journal, projections, blobs, tx, epoch, granted, readers, faults>>

Begin(h) ==
  /\ tx = None /\ req[h] # None
  /\ ~Fenced(h) /\ ~SeqConflict(h) /\ ~GuardFailed(h)
  /\ meta.lamport + Len(req[h].batch) <= MaxLamport
  /\ tx' = [host |-> h, epoch |-> epoch[h], stream |-> req[h].stream, todo |-> req[h].batch,
            guard |-> req[h].guard, rows |-> {},
            seq |-> heads[req[h].stream].seq, hash |-> heads[req[h].stream].hash,
            lamport |-> meta.lamport]
  /\ UNCHANGED <<journal, projections, blobs, hosts, readers, faults>>

RowAt(s, n, l, e, b, prev) ==
  [stream |-> s, seq |-> n, lamport |-> l, epoch |-> e, body |-> b,
   prev |-> prev, hash |-> Hash(<<s, n, l, e, b>>, prev)]

\* The event the next draft of the transaction becomes.
NewRow == RowAt(tx.stream, tx.seq + 1, tx.lamport + 1, tx.epoch, Head(tx.todo), tx.hash)

Taken(e) == \E o \in rows : o.stream = e.stream /\ o.seq = e.seq

\* (fault) every draft of a batch links to the old head.
WriteDraftUnlinked ==
  /\ tx # None /\ tx.todo # << >>
  /\ Head(tx.todo) \notin Oversized /\ ~Taken(NewRow)
  /\ tx' = [tx EXCEPT !.todo = Tail(tx.todo), !.rows = tx.rows \cup {NewRow},
                      !.seq = tx.seq + 1, !.lamport = tx.lamport + 1]
  /\ UNCHANGED <<journal, projections, blobs, hosts, readers, faults>>

WriteDraft ==
  /\ tx # None /\ tx.todo # << >>
  /\ Head(tx.todo) \notin Oversized /\ ~Taken(NewRow)
  /\ tx' = [tx EXCEPT !.todo = Tail(tx.todo), !.rows = tx.rows \cup {NewRow},
                      !.seq = tx.seq + 1, !.lamport = tx.lamport + 1,
                      !.hash = NewRow.hash]
  /\ UNCHANGED <<journal, projections, blobs, hosts, readers, faults>>

\* (fault) the head follows every draft, refused batch or not.
RejectDraftCounted ==
  /\ tx # None /\ tx.todo # << >> /\ Head(tx.todo) \in Oversized
  /\ rows' = rows \cup tx.rows
  /\ heads' = [heads EXCEPT ![tx.stream] = [seq |-> tx.seq, hash |-> tx.hash]]
  /\ meta' = [meta EXCEPT !.lamport = tx.lamport]
  /\ tx' = None /\ req' = [req EXCEPT ![tx.host] = None]
  /\ UNCHANGED <<projections, blobs, epoch, granted, readers, faults>>

\* PayloadInlineError becomes accepted=False, and the caller then commits.
RejectDraft ==
  /\ tx # None /\ tx.todo # << >> /\ Head(tx.todo) \in Oversized
  /\ rows' = rows \cup tx.rows
  /\ tx' = None /\ req' = [req EXCEPT ![tx.host] = None]
  /\ UNCHANGED <<heads, meta, projections, blobs, epoch, granted, readers, faults>>

Commit ==
  /\ tx # None /\ tx.todo = << >>
  /\ rows' = rows \cup tx.rows
  /\ heads' = [heads EXCEPT ![tx.stream] = [seq |-> tx.seq, hash |-> tx.hash]]
  /\ meta' = [lamport |-> tx.lamport,
              epoch |-> IF tx.epoch > meta.epoch THEN tx.epoch ELSE meta.epoch]
  /\ tx' = None /\ req' = [req EXCEPT ![tx.host] = None]
  /\ UNCHANGED <<projections, blobs, epoch, granted, readers, faults>>

\* An INSERT raises: a full disk (bounded), or the key (stream, seq) is there.
RollBack ==
  /\ tx # None
  /\ \/ faults < MaxFaults /\ faults' = faults + 1
     \/ tx.todo # << >> /\ Taken(NewRow) /\ UNCHANGED faults
  /\ tx' = None /\ req' = [req EXCEPT ![tx.host] = None]
  /\ UNCHANGED <<journal, projections, blobs, epoch, granted, readers>>

\* (fault) the lock of a dead writer is not released.
CrashHoldingLock(h) ==
  /\ faults < MaxFaults /\ faults' = faults + 1
  /\ req' = [req EXCEPT ![h] = None] /\ epoch' = [epoch EXCEPT ![h] = 0]
  /\ UNCHANGED <<journal, projections, blobs, granted, tx, readers>>

\* The process of a host dies, with the readers on its connection.
Crash(h) ==
  /\ faults < MaxFaults /\ faults' = faults + 1
  /\ req' = [req EXCEPT ![h] = None] /\ epoch' = [epoch EXCEPT ![h] = 0]
  /\ tx' = IF tx # None /\ tx.host = h THEN None ELSE tx
  /\ cursor' = [r \in Readers |-> IF <<r, h>> \in Shares THEN 0 ELSE cursor[r]]
  /\ seen' = [r \in Readers |-> IF <<r, h>> \in Shares THEN {} ELSE seen[r]]
  /\ UNCHANGED <<journal, projections, blobs, granted>>

-----------------------------------------------------------------------------
(* Readers page through every stream by lamport and fold what they read into *)
(* a projection, which drops what it has already applied (Projection.apply). *)

Visible(r) ==
  rows \cup (IF tx # None /\ <<r, tx.host>> \in Shares THEN tx.rows ELSE {})

Ahead(r) == {e \in Visible(r) : e.lamport > cursor[r]}

\* ORDER BY lamport LIMIT limite.
Pages(r) == {page \in SUBSET Ahead(r) :
               /\ Cardinality(page) = PageLimit \/ page = Ahead(r)
               /\ Cardinality(page) <= PageLimit
               /\ \A e \in page, o \in Ahead(r) \ page : e.lamport <= o.lamport}

NotApplied(r, page) ==
  {e \in page : \A o \in OfStream(seen[r], e.stream) : o.seq < e.seq}

\* (fault) the cursor moves to the clock of the journal, not of the page.
LastOfJournal(page) == meta.lamport
Last(page) ==
  CHOOSE l \in {e.lamport : e \in page} : \A e \in page : e.lamport <= l

Read(r) ==
  /\ \E page \in Pages(r) :
       /\ page # {}
       /\ cursor' = [cursor EXCEPT ![r] = Last(page)]
       /\ seen' = [seen EXCEPT ![r] = seen[r] \cup NotApplied(r, page)]
  /\ UNCHANGED <<journal, projections, blobs, tx, hosts, faults>>

\* last_applied_seq: 0 before the first event.
Applied(r, s) ==
  CHOOSE n \in {0} \cup {e.seq : e \in OfStream(seen[r], s)} :
    \A e \in OfStream(seen[r], s) : e.seq <= n

\* set_projection overwrites what was there: the caller's number for one of the
\* streams it folded, and its state.  The table does not say which stream the
\* number counts; of remembers it.
SetProjection(r, s, k) ==
  /\ tx = None
  /\ projections' = [projections EXCEPT ![k] =
                       [applied |-> Applied(r, s), state |-> Fold(seen[r]), of |-> s]]
  /\ UNCHANGED <<journal, blobs, tx, hosts, readers, faults>>

-----------------------------------------------------------------------------
PutBlob(b) ==
  /\ tx = None
  /\ blobs' = [blobs EXCEPT ![b] = IF blobs[b] = "absent" THEN "stored" ELSE blobs[b]]
  /\ UNCHANGED <<journal, projections, tx, hosts, readers, faults>>

Redact(b) ==
  /\ tx = None /\ blobs[b] # "absent"
  /\ blobs' = [blobs EXCEPT ![b] = "redacted"]
  /\ UNCHANGED <<journal, projections, tx, hosts, readers, faults>>

Next ==
  \/ \E h \in Hosts : Acquire(h) \/ Refuse(h) \/ Begin(h) \/ Crash(h)
  \/ \E h \in Hosts, s \in Streams, batch \in Batches : Prepare(h, s, batch)
  \/ WriteDraft \/ RejectDraft \/ Commit \/ RollBack
  \/ \E r \in Readers : Read(r)
  \/ \E r \in Readers, s \in Streams, k \in Keys : SetProjection(r, s, k)
  \/ \E b \in Blobs : PutBlob(b) \/ Redact(b)

Spec == Init /\ [][Next]_vars

-----------------------------------------------------------------------------
TypeOK ==
  /\ \A e \in rows : e.stream \in Streams /\ e.body \in Bodies /\ e.seq \in 1..MaxLamport
                     /\ e.lamport \in 1..MaxLamport /\ e.epoch \in 1..MaxEpoch
  /\ \A s \in Streams : heads[s].seq \in 0..MaxLamport
  /\ meta \in [lamport : 0..MaxLamport, epoch : 0..MaxEpoch]
  /\ blobs \in [Blobs -> {"absent", "stored", "redacted"}]
  /\ tx # None => tx.host \in Hosts /\ req[tx.host] # None
  /\ epoch \in [Hosts -> 0..MaxEpoch] /\ granted \in 0..MaxEpoch
  /\ cursor \in [Readers -> 0..MaxLamport]

\* The events of accepted appends: each stream up to its head.
Accepted == {e \in rows : e.seq <= heads[e.stream].seq}
Beyond(s) == {e \in OfStream(rows, s) : e.seq > heads[s].seq}

\* A stream's events are linked from the first to number n, whose hash is h.
Chained(events, n, h) ==
  /\ {e.seq : e \in events} = 1..n
  /\ n = 0 => h = Genesis
  /\ \A e \in events :
       /\ e.hash = Hash(Core(e), e.prev)
       /\ e.seq = 1 => e.prev = Genesis
       /\ e.seq = n => e.hash = h
       /\ \A o \in events : /\ o.seq = e.seq => o = e
                            /\ o.seq = e.seq + 1 => o.prev = e.hash

\* What lies beyond the head of a stream is nothing, or the drafts of one
\* batch in front of its oversized one.
RefusedHalf(s) ==
  \/ Beyond(s) = {}
  \/ \E batch \in Batches : \E k \in 1..(Len(batch) - 1) :
       /\ batch[k + 1] \in Oversized
       /\ {<<e.seq, e.body>> : e \in Beyond(s)} = {<<heads[s].seq + i, batch[i]>> : i \in 1..k}

\* In every stream the events up to the head verify: no gap, every link in
\* place, the last one is the head.  No crash and no failed write leaves an
\* event beyond it: only a batch refused for a later oversized draft does.
ChainVerifies ==
  \A s \in Streams : /\ Chained(OfStream(Accepted, s), heads[s].seq, heads[s].hash)
                     /\ RefusedHalf(s)

\* A batch that is refused half way leaves no event behind (the docstring of
\* _construir_y_escribir): no stream holds an event beyond its head.
NothingBeyondHead == \A e \in rows : e.seq <= heads[e.stream].seq

\* A host that lost its lease has nothing accepted after a newer holder, in
\* any stream: along the shared clock the lease epochs never go back.
EpochsInOrder ==
  \A e, o \in Accepted : e.lamport < o.lamport => e.epoch <= o.epoch

\* Whenever no transaction is open, a reader that pages by cursor has folded
\* exactly the events up to its cursor: it skipped none and has none that the
\* journal lost, whatever committed or rolled back between two pages.  It is
\* so until a refused batch leaves an event behind: the clock does not move
\* past that event, and a cursor then confuses it with a later one.
CursorMissesNothing ==
  tx = None /\ NothingBeyondHead =>
    \A r \in Readers : seen[r] = {e \in rows : e.lamport <= cursor[r]}

\* What a state holds of a stream.
About(state, s) == {x \in state : x[1] = s}

\* A guarded append that is let through on a row set for the stream it extends
\* was decided on the whole of that stream: no event was missing from the
\* projection.  A row set for another stream promises nothing of the kind, nor
\* does one whose reader met the leavings of a refused batch.
GuardSawAll ==
  /\ tx # None /\ tx.guard # None /\ NothingBeyondHead
  /\ projections[tx.guard.key].of = tx.stream
  => About(tx.guard.state, tx.stream) = Fold(OfStream(rows, tx.stream))

Log == INSTANCE EventLog WITH log <- Accepted,
                              gone <- {b \in Blobs : blobs[b] = "redacted"}
\* What was accepted is an append-only log: whole batches, each after
\* everything before it, through refusals, failed writes and crashes; and the
\* content of a redacted blob never comes back.
IsEventLog == Log!Spec
=============================================================================
