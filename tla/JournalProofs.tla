---------------------------- MODULE JournalProofs ----------------------------
(***************************************************************************)
(* Proofs about Journal, for every set of hosts, streams, readers, keys and *)
(* batches and every bound.  Inv is an invariant of the specification as it *)
(* stands, batches refused half way included.  What is proved of readers and *)
(* projections supposes that no reader shares the connection of a host that  *)
(* writes, and holds until a refused batch leaves an event behind.           *)
(***************************************************************************)
EXTENDS Journal, WellFoundedInduction, TLAPS

OwnConnections == Shares = {}

-----------------------------------------------------------------------------
(* The inductive invariant.  What is accepted and what the open transaction  *)
(* has written so far form one chain and one order along the clock; readers  *)
(* and projections hold exact prefixes of what is accepted.                  *)

Digests == Seq(Streams \X Nat \X Nat \X Nat \X Bodies)
Row == [stream : Streams, seq : Nat, lamport : Nat, epoch : Nat, body : Bodies,
        prev : Digests, hash : Digests]
States == SUBSET (Streams \X Nat \X Bodies)
Citation == [key : Keys, state : States]
Known == [applied : Nat, state : States, of : Streams]
Req == [stream : Streams, batch : Batches, guard : {None} \cup Citation, expected : Nat]
Tx == [host : Hosts, epoch : Nat, stream : Streams, todo : Seq(Bodies),
       guard : {None} \cup Citation, rows : SUBSET Row, seq : Nat, hash : Digests,
       lamport : Nat]

Types ==
  /\ rows \in SUBSET Row
  /\ heads \in [Streams -> [seq : Nat, hash : Digests]]
  /\ meta \in [lamport : Nat, epoch : Nat]
  /\ projections \in [Keys -> {None} \cup Known]
  /\ blobs \in [Blobs -> {"absent", "stored", "redacted"}]
  /\ tx \in {None} \cup Tx
  /\ req \in [Hosts -> {None} \cup Req]
  /\ epoch \in [Hosts -> Nat]
  /\ granted \in Nat
  /\ cursor \in [Readers -> Nat]
  /\ seen \in [Readers -> SUBSET Row]

Bounds ==
  /\ granted <= MaxEpoch
  /\ meta.epoch <= granted
  /\ \A h \in Hosts : epoch[h] <= granted
  /\ \A h \in Hosts : req[h] # None => epoch[h] > 0
  /\ meta.lamport <= MaxLamport
  /\ \A s \in Streams : heads[s].seq <= meta.lamport

\* Whatever connection it reads on, no reader is ahead of the bound.
ReaderBounds ==
  \A r \in Readers : /\ cursor[r] <= MaxLamport
                     /\ \A e \in seen[r] : e.seq <= MaxLamport

\* Events numbered by a clock that has reached l, under leases up to ep.
Dated(events, l, ep) ==
  \A e \in events : /\ 1 <= e.seq /\ e.seq <= e.lamport /\ e.lamport <= l
                    /\ 1 <= e.epoch /\ e.epoch <= ep

Ordered(events) ==
  \A e, o \in events :
    /\ e.lamport = o.lamport => e = o
    /\ e.lamport < o.lamport => /\ e.epoch <= o.epoch
                                /\ e.stream = o.stream => e.seq < o.seq

Committed ==
  /\ Dated(Accepted, meta.lamport, meta.epoch) /\ Ordered(Accepted)
  /\ Dated(rows, MaxLamport, granted)

\* What the open transaction has written, on top of what is accepted.
Written == Accepted \cup tx.rows

TxOK ==
  tx # None =>
    /\ Chained(OfStream(Written, tx.stream), tx.seq, tx.hash)
    /\ Dated(tx.rows, tx.lamport, tx.epoch)
    /\ Ordered(Written)
    /\ \A e \in tx.rows : /\ e.stream = tx.stream /\ meta.lamport < e.lamport
                          /\ heads[tx.stream].seq < e.seq /\ ~Taken(e)
    /\ meta.epoch <= tx.epoch /\ meta.lamport <= tx.lamport
    /\ heads[tx.stream].seq <= tx.seq /\ tx.seq <= tx.lamport
    /\ 1 <= tx.epoch /\ tx.epoch <= granted
    /\ tx.lamport + Len(tx.todo) <= MaxLamport
    /\ req[tx.host] # None

\* Number of drafts the open transaction has written.
Done == Len(req[tx.host].batch) - Len(tx.todo)

\* It has written the beginning of its batch, right after the head.
TxBatch ==
  tx # None =>
    LET q == req[tx.host]
        n == heads[tx.stream].seq
    IN /\ q.stream = tx.stream
       /\ Done \in Nat
       /\ tx.seq = n + Done
       /\ \A i \in 1..Len(tx.todo) : tx.todo[i] = q.batch[Done + i]
       /\ {<<e.seq, e.body>> : e \in tx.rows} = {<<n + i, q.batch[i]>> : i \in 1..Done}

Inv ==
  /\ Types
  /\ Bounds
  /\ ReaderBounds
  /\ ChainVerifies
  /\ Committed
  /\ TxOK
  /\ TxBatch

ReadersExact ==
  \A r \in Readers : /\ cursor[r] <= meta.lamport
                     /\ seen[r] = {e \in rows : e.lamport <= cursor[r]}

Prefix(s, n) == {e \in OfStream(rows, s) : e.seq <= n}

ProjectionsExact ==
  \A k \in Keys :
    projections[k] # None =>
      LET p == projections[k]
      IN /\ p.applied <= heads[p.of].seq
         /\ About(p.state, p.of) = Fold(Prefix(p.of, p.applied))

\* What readers and projections hold, until a refused batch leaves an event.
Reading ==
  /\ NothingBeyondHead => ReadersExact /\ ProjectionsExact
  /\ GuardSawAll

-----------------------------------------------------------------------------
(* Numbers, chains and orders.                                               *)

LEMMA GreatestNumber ==
  ASSUME NEW S \in SUBSET Nat, S # {}, NEW b \in Nat, \A n \in S : n <= b
  PROVE  \E m \in S : \A n \in S : n <= m
<1> DEFINE R == {ss \in Nat \X Nat : ss[1] < ss[2]}
           D == {b - n : n \in S}
<1>1. IsWellFoundedOn(R, Nat)
  BY NatLessThanWellFounded, Zenon DEF OpToRel
<1>2. D \in SUBSET Nat /\ D # {}
  <2>1. PICK n \in S : TRUE
    OBVIOUS
  <2>2. b - n \in D
    OBVIOUS
  <2>3. \A k \in S : b - k \in Nat
    OBVIOUS
  <2> QED BY <2>2, <2>3
<1>3. PICK d \in D : \A c \in D : ~(<<c, d>> \in R)
  <2> HIDE DEF R, D
  <2> QED BY <1>1, <1>2, WFMin
<1>4. PICK m \in S : d = b - m
  OBVIOUS
<1>5. ASSUME NEW n \in S PROVE n <= m
  <2>1. b - n \in D
    OBVIOUS
  <2>2. <<b - n, d>> \in Nat \X Nat /\ <<b - n, d>>[1] = b - n /\ <<b - n, d>>[2] = d
    BY <2>1
  <2>3. ~(b - n < d)
    BY <1>3, <2>1, <2>2
  <2> QED BY <2>3, <1>4
<1> QED BY <1>5

\* One more event, linked to the last one, keeps a chain.
LEMMA ChainExtends ==
  ASSUME NEW E \in SUBSET Row, NEW n \in Nat, NEW h, Chained(E, n, h),
         NEW e \in Row, e.seq = n + 1, e.prev = h, e.hash = Hash(Core(e), e.prev)
  PROVE  Chained(E \cup {e}, n + 1, e.hash)
<1>1. {o.seq : o \in E} = 1..n
  BY DEF Chained
<1>2. \A o \in E : o.seq \in 1..n
  BY <1>1
<1>3. {o.seq : o \in E \cup {e}} = 1..(n + 1)
  BY <1>1
<1>4. e.seq = 1 => e.prev = Genesis
  BY DEF Chained
<1>5. \A o \in E : o.seq = n => o.hash = h
  BY DEF Chained
<1>6. ASSUME NEW x \in E \cup {e}
      PROVE  /\ x.hash = Hash(Core(x), x.prev)
             /\ x.seq = 1 => x.prev = Genesis
             /\ x.seq = n + 1 => x.hash = e.hash
  <2>1. CASE x \in E
    BY <2>1, <1>2 DEF Chained
  <2>2. CASE x = e
    BY <2>2, <1>4
  <2> QED BY <2>1, <2>2
<1>7. ASSUME NEW x \in E \cup {e}, NEW o \in E \cup {e}
      PROVE  /\ o.seq = x.seq => o = x
             /\ o.seq = x.seq + 1 => o.prev = x.hash
  <2>0. x \in Row /\ o \in Row /\ x.seq \in Nat /\ o.seq \in Nat
    BY DEF Row
  <2>1. CASE x \in E /\ o \in E
    BY <2>1 DEF Chained
  <2>2. CASE x \in E /\ o = e
    BY <2>0, <2>2, <1>2, <1>5
  <2>3. CASE x = e /\ o \in E
    BY <2>0, <2>3, <1>2
  <2>4. CASE x = e /\ o = e
    BY <2>0, <2>4
  <2> QED BY <2>1, <2>2, <2>3, <2>4
<1>8. n + 1 = 0 => e.hash = Genesis
  OBVIOUS
<1> QED BY <1>3, <1>6, <1>7, <1>8 DEF Chained

\* An event dated after everything keeps the order.
LEMMA OrderExtends ==
  ASSUME NEW E \in SUBSET Row, Ordered(E), NEW e \in Row,
         \A o \in E : /\ o.lamport < e.lamport /\ o.epoch <= e.epoch
                      /\ o.stream = e.stream => o.seq < e.seq
  PROVE  Ordered(E \cup {e})
<1> SUFFICES ASSUME NEW x \in E \cup {e}, NEW o \in E \cup {e}
             PROVE  /\ x.lamport = o.lamport => x = o
                    /\ x.lamport < o.lamport => /\ x.epoch <= o.epoch
                                                /\ x.stream = o.stream => x.seq < o.seq
  BY DEF Ordered
<1>0. x.lamport \in Nat /\ o.lamport \in Nat /\ e.lamport \in Nat
  BY DEF Row
<1>1. CASE x \in E /\ o \in E
  BY <1>1 DEF Ordered
<1>2. CASE x \in E /\ o = e
  BY <1>2, <1>0
<1>3. CASE x = e /\ o \in E
  BY <1>3, <1>0
<1>4. CASE x = e /\ o = e
  BY <1>4, <1>0
<1> QED BY <1>1, <1>2, <1>3, <1>4

-----------------------------------------------------------------------------
(* What a step leaves alone.                                                 *)

LEMMA InitInv == Init => Inv
<1> SUFFICES ASSUME Init PROVE Inv
  OBVIOUS
<1> USE JournalAssumption
<1>1. Genesis \in Digests
  BY DEF Genesis, Digests
<1>2. Types
  BY <1>1 DEF Init, Types
<1>3. Bounds /\ ReaderBounds
  BY DEF Init, Bounds, ReaderBounds
<1>4. ChainVerifies
  <2> SUFFICES ASSUME NEW s \in Streams
               PROVE  /\ Chained(OfStream(Accepted, s), heads[s].seq, heads[s].hash)
                      /\ RefusedHalf(s)
    BY DEF ChainVerifies
  <2>1. heads[s] = [seq |-> 0, hash |-> Genesis] /\ OfStream(Accepted, s) = {}
        /\ Beyond(s) = {}
    BY DEF Init, OfStream, Accepted, Beyond
  <2>2. Chained(OfStream(Accepted, s), heads[s].seq, heads[s].hash)
    BY <2>1 DEF Chained
  <2> QED BY <2>1, <2>2 DEF RefusedHalf
<1>5. Committed
  BY DEF Init, Committed, Dated, Ordered, Accepted
<1>6. TxOK /\ TxBatch
  BY DEF Init, TxOK, TxBatch
<1> QED BY <1>2, <1>3, <1>4, <1>5, <1>6 DEF Inv

\* The committed events are untouched, and no lease is taken back.
LEMMA JournalSame ==
  ASSUME Inv, UNCHANGED journal, Types', granted <= granted'
  PROVE  ChainVerifies' /\ Committed'
<1> USE DEF Inv
<1>1. Accepted' = Accepted
  BY DEF Accepted, journal
<1>2. ChainVerifies'
  <2>1. rows' = rows /\ heads' = heads
    BY DEF journal
  <2> SUFFICES ASSUME NEW s \in Streams
               PROVE  /\ Chained(OfStream(Accepted, s), heads[s].seq, heads[s].hash)'
                      /\ RefusedHalf(s)'
    BY DEF ChainVerifies
  <2>2. OfStream(Accepted, s)' = OfStream(Accepted, s) /\ Beyond(s)' = Beyond(s)
    BY <1>1, <2>1 DEF OfStream, Beyond
  <2>3. Chained(OfStream(Accepted, s), heads[s].seq, heads[s].hash) /\ RefusedHalf(s)
    BY DEF ChainVerifies
  <2>4. Chained(OfStream(Accepted, s), heads[s].seq, heads[s].hash)'
    BY <2>1, <2>2, <2>3 DEF Chained
  <2>5. RefusedHalf(s)'
    BY <2>1, <2>2, <2>3 DEF RefusedHalf
  <2> QED BY <2>4, <2>5
<1>3. Dated(rows, MaxLamport, granted')
  <2> SUFFICES ASSUME NEW e \in rows
               PROVE  /\ 1 <= e.seq /\ e.seq <= e.lamport /\ e.lamport <= MaxLamport
                      /\ 1 <= e.epoch /\ e.epoch <= granted'
    BY DEF Dated
  <2>1. e.epoch \in Nat /\ granted \in Nat /\ granted' \in Nat
    BY DEF Types, Row
  <2> QED BY <2>1 DEF Committed, Dated
<1> QED BY <1>1, <1>2, <1>3 DEF Committed, Dated, Ordered, journal

\* So is the open transaction, and the request it serves.
LEMMA TxSame ==
  ASSUME Inv, UNCHANGED <<rows, heads, meta, tx>>, Types', granted <= granted',
         tx # None => req'[tx.host] = req[tx.host]
  PROVE  TxOK' /\ TxBatch'
<1> USE DEF Inv
<1>1. TxOK'
  <2> SUFFICES ASSUME tx # None PROVE TxOK'
    BY DEF TxOK
  <2>1. Accepted' = Accepted /\ Written' = Written
    BY DEF Accepted, Written
  <2>2. tx.epoch <= granted'
    <3>1. tx.epoch \in Nat /\ granted \in Nat /\ granted' \in Nat
      BY DEF Types, Tx
    <3> QED BY <3>1 DEF TxOK
  <2>3. /\ Chained(OfStream(Written, tx.stream), tx.seq, tx.hash)'
        /\ Dated(tx.rows, tx.lamport, tx.epoch)' /\ Ordered(Written)'
    BY <2>1 DEF TxOK, Chained, Dated, Ordered, OfStream
  <2>4. \A e : Taken(e)' = Taken(e)
    BY DEF Taken
  <2> QED BY <2>2, <2>3, <2>4 DEF TxOK
<1>2. TxBatch'
  BY DEF TxBatch, Done
<1> QED BY <1>1, <1>2

\* No invariant but types and bounds reads the epochs and the other requests.
LEMMA HostsKeep ==
  ASSUME Inv, UNCHANGED <<rows, heads, meta, tx, cursor, seen>>, Types', Bounds',
         granted <= granted', tx # None => req'[tx.host] = req[tx.host]
  PROVE  Inv'
<1>1. ReaderBounds'
  BY DEF Inv, ReaderBounds
<1>2. ChainVerifies' /\ Committed'
  BY JournalSame DEF journal
<1> QED BY <1>1, <1>2, TxSame DEF Inv

\* A step that closes the transaction and writes no event.
LEMMA Closes ==
  ASSUME Inv, UNCHANGED <<rows, heads, meta, granted>>, tx' = None, Types', Bounds',
         ReaderBounds'
  PROVE  Inv'
<1>1. ChainVerifies' /\ Committed'
  BY JournalSame DEF journal, Inv, Types
<1> QED BY <1>1 DEF Inv, TxOK, TxBatch

-----------------------------------------------------------------------------
(* The host's side.                                                          *)

LEMMA AcquireKeeps ==
  ASSUME Inv, NEW h \in Hosts, Acquire(h)
  PROVE  Inv'
<1> USE DEF Inv, Acquire
<1>0. granted \in Nat /\ MaxEpoch \in Nat
  BY JournalAssumption DEF Types
<1>1. Types'
  BY <1>0 DEF Types, journal, readers
<1>2. Bounds'
  <2>1. \A g \in Hosts : epoch[g] \in Nat /\ epoch'[g] \in Nat
    BY <1>1 DEF Types
  <2>2. meta.epoch \in Nat
    BY DEF Types
  <2> QED BY <1>0, <2>1, <2>2 DEF Bounds, Types, journal
<1> QED BY <1>0, <1>1, <1>2, HostsKeep DEF journal, readers

\* A fold of events is a state a projection can have.
LEMMA FoldIsState ==
  ASSUME NEW E \in SUBSET Row PROVE Fold(E) \in States
BY DEF Fold, States, Row

LEMMA PrepareKeeps ==
  ASSUME Inv, NEW h \in Hosts, NEW s \in Streams, NEW batch \in Batches,
         Prepare(h, s, batch)
  PROVE  Inv'
<1> USE DEF Inv
<1>1. PICK guard \in Guards(batch) :
        req' = [req EXCEPT ![h] = [stream |-> s, batch |-> batch, guard |-> guard,
                                   expected |-> heads[s].seq]]
  BY DEF Prepare
<1>2. guard \in {None} \cup Citation
  <2>1. \A r \in Readers : Fold(seen[r]) \in States
    BY FoldIsState DEF Types
  <2>2. [key : Keys, state : {Fold(seen[r]) : r \in Readers}] \subseteq Citation
    BY <2>1 DEF Citation
  <2> QED BY <1>1, <2>2 DEF Guards
<1>3. Types'
  <2>1. [stream |-> s, batch |-> batch, guard |-> guard,
         expected |-> heads[s].seq] \in Req
    BY <1>2 DEF Types, Req
  <2> QED BY <1>1, <2>1 DEF Prepare, Types, journal, readers
<1>4. Bounds'
  BY <1>1 DEF Prepare, Bounds, Types, journal
<1>5. tx # None => req'[tx.host] = req[tx.host]
  BY <1>1 DEF TxOK, Prepare, Types, Tx
<1>6. UNCHANGED <<rows, heads, meta, tx, cursor, seen>> /\ granted <= granted'
  BY DEF Prepare, Types, journal, readers
<1> QED BY <1>3, <1>4, <1>5, <1>6, HostsKeep

LEMMA RefuseKeeps ==
  ASSUME Inv, NEW h \in Hosts, Refuse(h)
  PROVE  Inv'
<1> USE DEF Inv, Refuse
<1>1. Types'
  BY DEF Types, journal, readers
<1>2. Bounds'
  BY DEF Bounds, Types, journal
<1> QED BY <1>1, <1>2, HostsKeep DEF Types, journal, readers

-----------------------------------------------------------------------------
(* The transaction.                                                          *)

\* What the batch of a request promises its transaction.
LEMMA BatchFits ==
  ASSUME NEW batch \in Batches
  PROVE  batch \in Seq(Bodies) /\ Len(batch) \in Nat
BY JournalAssumption

LEMMA BeginKeeps ==
  ASSUME Inv, NEW h \in Hosts, Begin(h)
  PROVE  Inv'
<1> USE DEF Inv
<1> DEFINE q == req[h]
<1>1. q \in Req /\ q.batch \in Batches /\ q.stream \in Streams
  BY DEF Begin, Types, Req
<1>2. /\ tx' = [host |-> h, epoch |-> epoch[h], stream |-> q.stream, todo |-> q.batch,
                guard |-> q.guard, rows |-> {}, seq |-> heads[q.stream].seq,
                hash |-> heads[q.stream].hash, lamport |-> meta.lamport]
      /\ UNCHANGED <<rows, heads, meta, projections, blobs, req, epoch, granted,
                     cursor, seen>>
  BY DEF Begin, journal, hosts, readers
<1>3. tx' \in Tx
  BY <1>1, <1>2, BatchFits DEF Tx, Types, Req
<1>4. Len(q.batch) \in Nat /\ heads[q.stream].seq \in Nat
  BY <1>1, BatchFits DEF Types
<1> HIDE DEF q
<1>5. /\ tx'.host = h /\ tx'.epoch = epoch[h] /\ tx'.stream = q.stream
      /\ tx'.todo = q.batch /\ tx'.guard = q.guard /\ tx'.rows = {}
      /\ tx'.seq = heads[q.stream].seq /\ tx'.hash = heads[q.stream].hash
      /\ tx'.lamport = meta.lamport
  BY <1>2
<1>6. Types' /\ Bounds' /\ ReaderBounds'
  BY <1>2, <1>3 DEF Types, Bounds, ReaderBounds
<1>7. ChainVerifies' /\ Committed'
  BY <1>2, <1>6, JournalSame DEF journal, Types
<1>8. TxOK'
  <2>1. Accepted' = Accepted /\ Written' = Accepted
    BY <1>2, <1>5 DEF Written, Accepted
  <2>2. Chained(OfStream(Written, tx.stream), tx.seq, tx.hash)'
    BY <2>1, <1>1, <1>2, <1>5 DEF ChainVerifies, Chained, OfStream
  <2>3. Ordered(Written)'
    BY <2>1 DEF Committed, Ordered
  <2>4. /\ meta.epoch \in Nat /\ epoch[h] \in Nat /\ granted \in Nat
        /\ meta.lamport \in Nat
    BY <1>1 DEF Types
  <2>5. ~(epoch[h] < meta.epoch) /\ epoch[h] > 0 /\ epoch[h] <= granted
    BY DEF Begin, Fenced, Bounds
  <2>6. heads[q.stream].seq <= meta.lamport
    BY <1>1 DEF Bounds
  <2>7. meta.lamport + Len(q.batch) <= MaxLamport
    BY DEF Begin, q
  <2>8. req[h] # None
    BY DEF Begin
  <2> QED BY <1>2, <1>4, <1>5, <2>2, <2>3, <2>4, <2>5, <2>6, <2>7, <2>8 DEF TxOK, Dated
<1>9. TxBatch'
  <2>1. req'[tx'.host] = q
    BY <1>2, <1>5 DEF q
  <2>2. Done' = 0
    BY <1>4, <1>5, <2>1 DEF Done
  <2>3. {<<heads[q.stream].seq + i, q.batch[i]>> : i \in 1..0} = {}
    OBVIOUS
  <2>4. \A i \in 1..Len(q.batch) : q.batch[i] = q.batch[0 + i]
    BY <1>4
  <2> QED BY <1>2, <1>4, <1>5, <2>1, <2>2, <2>3, <2>4 DEF TxBatch
<1> QED BY <1>6, <1>7, <1>8, <1>9

\* The event a draft becomes: after everything written, linked to the last.
LEMMA NewRowFacts ==
  ASSUME Inv, tx # None, tx.todo # << >>
  PROVE  /\ tx \in Tx /\ NewRow \in Row
         /\ NewRow.stream = tx.stream /\ NewRow.seq = tx.seq + 1
         /\ NewRow.lamport = tx.lamport + 1 /\ NewRow.epoch = tx.epoch
         /\ NewRow.prev = tx.hash /\ NewRow.hash = Hash(Core(NewRow), NewRow.prev)
<1>1. tx \in Tx
  BY DEF Inv, Types
<1>2. Head(tx.todo) \in Bodies
  BY <1>1 DEF Tx
<1>3. <<tx.stream, tx.seq + 1, tx.lamport + 1, tx.epoch, Head(tx.todo)>>
        \in Streams \X Nat \X Nat \X Nat \X Bodies
  BY <1>1, <1>2 DEF Tx
<1>4. Hash(<<tx.stream, tx.seq + 1, tx.lamport + 1, tx.epoch, Head(tx.todo)>>, tx.hash)
        \in Digests
  BY <1>1, <1>3 DEF Hash, Digests, Tx
<1>5. NewRow \in Row
  BY <1>1, <1>2, <1>4 DEF NewRow, RowAt, Row, Tx
<1>6. Core(NewRow)
        = <<tx.stream, tx.seq + 1, tx.lamport + 1, tx.epoch, Head(tx.todo)>>
  BY DEF Core, NewRow, RowAt
<1> QED BY <1>1, <1>5, <1>6 DEF NewRow, RowAt

LEMMA WriteDraftBatch ==
  ASSUME Inv, WriteDraft
  PROVE  TxBatch'
<1> DEFINE e == NewRow
           q == req[tx.host]
           n == heads[tx.stream].seq
<1>1. tx \in Tx /\ tx # None /\ tx.todo # << >>
  BY DEF WriteDraft, Inv, Types
<1>2. e.seq = tx.seq + 1 /\ e.body = tx.todo[1]
  BY <1>1 DEF NewRow, RowAt, Tx
<1>3. /\ tx' = [tx EXCEPT !.todo = Tail(tx.todo), !.rows = tx.rows \cup {e},
                          !.seq = tx.seq + 1, !.lamport = tx.lamport + 1, !.hash = e.hash]
      /\ UNCHANGED <<heads, req>>
  BY DEF WriteDraft, journal, hosts
<1> HIDE DEF e, q, n
<1>4. /\ tx'.host = tx.host /\ tx'.stream = tx.stream /\ tx'.todo = Tail(tx.todo)
      /\ tx'.rows = tx.rows \cup {e} /\ tx'.seq = tx.seq + 1
  BY <1>1, <1>3 DEF Tx
<1>5. q' = q /\ n' = n
  BY <1>3, <1>4 DEF q, n
<1>6. q \in Req /\ Len(q.batch) \in Nat /\ n \in Nat /\ tx.seq \in Nat
  <2>1. q \in Req
    BY <1>1 DEF q, Inv, TxOK, Types, Tx
  <2> QED BY <2>1, <1>1, BatchFits DEF n, Inv, Types, Tx, Req
<1>7. /\ Len(Tail(tx.todo)) = Len(tx.todo) - 1 /\ Len(tx.todo) \in Nat
      /\ \A i \in 1..Len(Tail(tx.todo)) : Tail(tx.todo)[i] = tx.todo[i + 1]
                                          /\ i + 1 \in 1..Len(tx.todo)
      /\ 1 \in 1..Len(tx.todo)
  BY <1>1 DEF Tx
<1>8. /\ q.stream = tx.stream /\ Done \in Nat /\ tx.seq = n + Done
      /\ \A i \in 1..Len(tx.todo) : tx.todo[i] = q.batch[Done + i]
      /\ {<<x.seq, x.body>> : x \in tx.rows} = {<<n + i, q.batch[i]>> : i \in 1..Done}
  BY <1>1 DEF Inv, TxBatch, q, n
<1>9. Done = Len(q.batch) - Len(tx.todo) /\ Done' = Len(q.batch) - Len(Tail(tx.todo))
  BY <1>3, <1>4 DEF Done, q
<1>10. Done' = Done + 1
  <2>1. \A a, b, c \in Int : c = b - 1 => a - c = (a - b) + 1
    OBVIOUS
  <2>2. Len(q.batch) \in Int /\ Len(tx.todo) \in Int /\ Len(Tail(tx.todo)) \in Int
        /\ Len(Tail(tx.todo)) = Len(tx.todo) - 1
    BY <1>6, <1>7
  <2> QED BY <2>1, <2>2, <1>9
<1>11. <<e.seq, e.body>> = <<n + (Done + 1), q.batch[Done + 1]>>
  BY <1>2, <1>6, <1>7, <1>8
<1> DEFINE d == Done
<1>12. d \in Nat /\ d = Done
  BY <1>8
<1> HIDE DEF d
<1>13. {<<x.seq, x.body>> : x \in tx.rows \cup {e}}
         = {<<n + i, q.batch[i]>> : i \in 1..(d + 1)}
  <2>1. {<<x.seq, x.body>> : x \in tx.rows \cup {e}}
          = {<<x.seq, x.body>> : x \in tx.rows} \cup {<<e.seq, e.body>>}
    OBVIOUS
  <2>2. 1..(d + 1) = (1..d) \cup {d + 1}
    BY <1>12
  <2>3. {<<n + i, q.batch[i]>> : i \in 1..(d + 1)}
          = {<<n + i, q.batch[i]>> : i \in 1..d} \cup {<<n + (d + 1), q.batch[d + 1]>>}
    BY <2>2
  <2> QED BY <2>1, <2>3, <1>8, <1>11, <1>12
<1>14. ASSUME NEW i \in 1..Len(Tail(tx.todo))
       PROVE  Tail(tx.todo)[i] = q.batch[d + 1 + i]
  <2>1. Tail(tx.todo)[i] = tx.todo[i + 1] /\ i + 1 \in 1..Len(tx.todo)
    BY <1>7
  <2>2. tx.todo[i + 1] = q.batch[d + (i + 1)]
    BY <2>1, <1>8, <1>12
  <2>3. i \in Nat
    BY <1>7
  <2>4. d + (i + 1) = d + 1 + i
    BY <2>3, <1>12
  <2> QED BY <2>1, <2>2, <2>4
<1>15. /\ q'.stream = tx'.stream
       /\ tx'.seq = n' + (d + 1)
       /\ \A i \in 1..Len(tx'.todo) : tx'.todo[i] = q'.batch[d + 1 + i]
       /\ {<<x.seq, x.body>> : x \in tx'.rows} = {<<n' + i, q'.batch[i]>> : i \in 1..(d + 1)}
  BY <1>4, <1>5, <1>6, <1>8, <1>12, <1>13, <1>14
<1>16. Done' = d + 1 /\ d + 1 \in Nat
  BY <1>10, <1>12
<1> QED BY <1>15, <1>16 DEF TxBatch, q, n

LEMMA WriteDraftKeeps ==
  ASSUME Inv, WriteDraft
  PROVE  Inv'
<1> USE DEF Inv
<1>0. tx # None /\ tx.todo # << >>
  BY DEF WriteDraft
<1>1. tx \in Tx
  BY <1>0, NewRowFacts
<1> DEFINE e == NewRow
<1>2. /\ e \in Row /\ e.stream = tx.stream /\ e.seq = tx.seq + 1
      /\ e.lamport = tx.lamport + 1 /\ e.epoch = tx.epoch
      /\ e.prev = tx.hash /\ e.hash = Hash(Core(e), e.prev)
  BY <1>0, NewRowFacts
<1>3. /\ tx' = [tx EXCEPT !.todo = Tail(tx.todo), !.rows = tx.rows \cup {e},
                          !.seq = tx.seq + 1, !.lamport = tx.lamport + 1, !.hash = e.hash]
      /\ UNCHANGED <<rows, heads, meta, projections, blobs, req, epoch, granted,
                     cursor, seen>>
  BY DEF WriteDraft, journal, hosts, readers
<1> HIDE DEF e
<1>4. /\ tx'.host = tx.host /\ tx'.epoch = tx.epoch /\ tx'.stream = tx.stream
      /\ tx'.todo = Tail(tx.todo) /\ tx'.guard = tx.guard
      /\ tx'.rows = tx.rows \cup {e} /\ tx'.seq = tx.seq + 1
      /\ tx'.hash = e.hash /\ tx'.lamport = tx.lamport + 1
  BY <1>1, <1>3 DEF Tx
<1>5. /\ Len(Tail(tx.todo)) = Len(tx.todo) - 1 /\ Len(tx.todo) \in Nat
      /\ Tail(tx.todo) \in Seq(Bodies)
      /\ \A i \in 1..Len(Tail(tx.todo)) : Tail(tx.todo)[i] = tx.todo[i + 1]
                                          /\ i + 1 \in 1..Len(tx.todo)
  BY <1>0, <1>1 DEF Tx
<1>6. /\ tx.seq \in Nat /\ tx.lamport \in Nat /\ tx.epoch \in Nat
      /\ meta.lamport \in Nat /\ meta.epoch \in Nat /\ granted \in Nat
      /\ MaxLamport \in Nat /\ rows \in SUBSET Row /\ tx.rows \in SUBSET Row
  BY <1>1, JournalAssumption DEF Types, Tx
<1>7. Types'
  <2>1. tx' \in Tx
    BY <1>1, <1>2, <1>3, <1>5, <1>6 DEF Tx, Row
  <2> QED BY <2>1, <1>3 DEF Types
<1>8. Bounds' /\ ReaderBounds' /\ ChainVerifies' /\ Committed'
  <2>1. Bounds' /\ ReaderBounds'
    BY <1>3 DEF Bounds, ReaderBounds
  <2>2. granted <= granted'
    BY <1>3, <1>6
  <2>3. UNCHANGED journal
    BY <1>3 DEF journal
  <2>4. ChainVerifies' /\ Committed'
    BY <2>2, <2>3, <1>7, JournalSame
  <2> QED BY <2>1, <2>4
<1>9. TxBatch'
  BY WriteDraftBatch
<1>10. Written' = Written \cup {e} /\ Written \in SUBSET Row
  BY <1>3, <1>4, <1>6 DEF Written, Accepted
<1>11. \A o \in Written : /\ o \in Row /\ o.lamport <= tx.lamport /\ o.epoch <= tx.epoch
                          /\ o.stream = tx.stream => o.seq <= tx.seq
  <2> SUFFICES ASSUME NEW o \in Written
               PROVE  /\ o \in Row /\ o.lamport <= tx.lamport /\ o.epoch <= tx.epoch
                      /\ o.stream = tx.stream => o.seq <= tx.seq
    OBVIOUS
  <2>1. o \in Row /\ o.lamport \in Nat /\ o.epoch \in Nat /\ o.seq \in Nat
    BY <1>10 DEF Row
  <2>2. o.lamport <= tx.lamport /\ o.epoch <= tx.epoch
    <3>1. CASE o \in Accepted
      BY <3>1, <2>1, <1>0, <1>6 DEF Committed, Dated, TxOK
    <3>2. CASE o \in tx.rows
      BY <3>2, <2>1, <1>0, <1>6 DEF Dated, TxOK
    <3> QED BY <3>1, <3>2 DEF Written
  <2>3. o.stream = tx.stream => o.seq <= tx.seq
    <3>1. {x.seq : x \in OfStream(Written, tx.stream)} = 1..tx.seq
      BY <1>0 DEF TxOK, Chained
    <3> QED BY <3>1, <1>6 DEF OfStream
  <2> QED BY <2>1, <2>2, <2>3
<1>12. Ordered(Written')
  <2>1. \A o \in Written : /\ o.lamport < e.lamport /\ o.epoch <= e.epoch
                           /\ o.stream = e.stream => o.seq < e.seq
    <3> SUFFICES ASSUME NEW o \in Written
                 PROVE  /\ o.lamport < e.lamport /\ o.epoch <= e.epoch
                        /\ o.stream = e.stream => o.seq < e.seq
      OBVIOUS
    <3>1. o.lamport \in Nat /\ o.seq \in Nat
      BY <1>11 DEF Row
    <3> QED BY <3>1, <1>2, <1>6, <1>11
  <2> QED BY <2>1, <1>0, <1>2, <1>10, OrderExtends DEF TxOK
<1>13. Chained(OfStream(Written', tx.stream), tx.seq + 1, e.hash)
  <2>1. OfStream(Written', tx.stream) = OfStream(Written, tx.stream) \cup {e}
    BY <1>2, <1>10 DEF OfStream
  <2>2. OfStream(Written, tx.stream) \in SUBSET Row
    BY <1>10 DEF OfStream
  <2> QED BY <2>1, <2>2, <1>0, <1>2, <1>6, ChainExtends DEF TxOK
<1>14. Dated(tx.rows \cup {e}, tx.lamport + 1, tx.epoch)
  <2> SUFFICES ASSUME NEW o \in tx.rows \cup {e}
               PROVE  /\ 1 <= o.seq /\ o.seq <= o.lamport /\ o.lamport <= tx.lamport + 1
                      /\ 1 <= o.epoch /\ o.epoch <= tx.epoch
    BY DEF Dated
  <2>1. CASE o \in tx.rows
    <3>1. o.lamport \in Nat
      BY <2>1, <1>6 DEF Row
    <3> QED BY <2>1, <3>1, <1>0, <1>6 DEF TxOK, Dated
  <2>2. CASE o = e
    BY <2>2, <1>0, <1>2, <1>6 DEF TxOK
  <2> QED BY <2>1, <2>2
<1>15. \A o \in tx.rows \cup {e} : /\ o.stream = tx.stream /\ meta.lamport < o.lamport
                                   /\ heads[tx.stream].seq < o.seq /\ ~Taken(o)
  <2>1. heads[tx.stream].seq \in Nat /\ heads[tx.stream].seq <= tx.seq
    BY <1>0, <1>1 DEF TxOK, Types, Tx
  <2>2. ~Taken(e)
    BY DEF WriteDraft, e
  <2> QED BY <2>1, <2>2, <1>0, <1>2, <1>6 DEF TxOK
<1>16. \A o : Taken(o)' = Taken(o)
  BY <1>3 DEF Taken
<1>17. /\ meta.epoch <= tx.epoch /\ meta.lamport <= tx.lamport + 1
       /\ heads[tx.stream].seq <= tx.seq + 1
       /\ tx.seq + 1 <= tx.lamport + 1 /\ 1 <= tx.epoch /\ tx.epoch <= granted
       /\ tx.lamport + 1 + Len(Tail(tx.todo)) <= MaxLamport /\ req[tx.host] # None
  <2>1. heads[tx.stream].seq \in Nat
    BY <1>1 DEF Types, Tx
  <2> QED BY <2>1, <1>0, <1>5, <1>6 DEF TxOK
<1>18. TxOK'
  <2>1. /\ Chained(OfStream(Written, tx.stream), tx.seq, tx.hash)'
        /\ Dated(tx.rows, tx.lamport, tx.epoch)'
        /\ Ordered(Written)'
    BY <1>4, <1>12, <1>13, <1>14 DEF Chained, Dated, Ordered, OfStream
  <2>2. \A o \in tx'.rows : /\ o.stream = tx'.stream /\ meta'.lamport < o.lamport
                            /\ heads'[tx'.stream].seq < o.seq /\ ~Taken(o)'
    BY <1>3, <1>4, <1>15, <1>16
  <2> QED BY <2>1, <2>2, <1>3, <1>4, <1>17 DEF TxOK
<1> QED BY <1>7, <1>8, <1>9, <1>18

\* A transaction that wrote something found nothing beyond the head: the key
\* (stream, seq) of its first event was free.
LEMMA NothingThere ==
  ASSUME Inv, tx # None, tx.rows # {}
  PROVE  Beyond(tx.stream) = {}
<1> DEFINE q == req[tx.host]
           s == tx.stream
           n == heads[s].seq
<1>1. tx \in Tx /\ s \in Streams /\ Done \in Nat
      /\ {<<e.seq, e.body>> : e \in tx.rows} = {<<n + i, q.batch[i]>> : i \in 1..Done}
  BY DEF Inv, Types, Tx, TxBatch
<1> DEFINE d == Done
<1>2. d \in Nat
  BY <1>1
<1> HIDE DEF q, n, d
<1>3. d >= 1
  <2> SUFFICES ASSUME d = 0 PROVE FALSE
    BY <1>2
  <2>1. {<<n + i, q.batch[i]>> : i \in 1..d} = {}
    OBVIOUS
  <2> QED BY <2>1, <1>1 DEF d
<1>4. PICK first \in tx.rows : first.seq = n + 1
  <2>1. 1 \in 1..d
    BY <1>2, <1>3
  <2>2. <<n + 1, q.batch[1]>> \in {<<e.seq, e.body>> : e \in tx.rows}
    BY <2>1, <1>1 DEF d
  <2> QED BY <2>2
<1> SUFFICES ASSUME Beyond(s) # {} PROVE FALSE
  OBVIOUS
<1>5. PICK batch \in Batches : \E k \in 1..(Len(batch) - 1) :
        {<<e.seq, e.body>> : e \in Beyond(s)} = {<<heads[s].seq + i, batch[i]>> : i \in 1..k}
  BY <1>1 DEF Inv, ChainVerifies, RefusedHalf
<1>6. PICK k \in 1..(Len(batch) - 1) :
        {<<e.seq, e.body>> : e \in Beyond(s)} = {<<n + i, batch[i]>> : i \in 1..k}
  BY <1>5 DEF n
<1>7. 1 \in 1..k
  BY BatchFits
<1>8. <<n + 1, batch[1]>> \in {<<e.seq, e.body>> : e \in Beyond(s)}
  BY <1>6, <1>7
<1>9. PICK o \in Beyond(s) : o.seq = n + 1
  BY <1>8
<1>10. first.stream = s /\ ~Taken(first)
  BY DEF Inv, TxOK
<1> QED BY <1>4, <1>9, <1>10 DEF Taken, Beyond, OfStream

\* What a batch wrote before it is refused is the beginning of that batch, in
\* front of its oversized draft, and nobody had left anything there before.
LEMMA RejectDraftKeeps ==
  ASSUME Inv, RejectDraft
  PROVE  Inv'
<1> USE DEF Inv
<1> DEFINE q == req[tx.host]
           s == tx.stream
           n == heads[s].seq
<1>1. tx \in Tx /\ tx # None /\ tx.todo # << >> /\ Head(tx.todo) \in Oversized
  BY DEF RejectDraft, Types
<1>2. /\ rows' = rows \cup tx.rows /\ tx' = None /\ req' = [req EXCEPT ![tx.host] = None]
      /\ UNCHANGED <<heads, meta, projections, blobs, epoch, granted, cursor, seen>>
  BY DEF RejectDraft, readers
<1>3. /\ s \in Streams /\ n \in Nat /\ tx.rows \in SUBSET Row /\ rows \in SUBSET Row
      /\ tx.lamport \in Nat /\ tx.epoch \in Nat /\ granted \in Nat /\ MaxLamport \in Nat
      /\ Len(tx.todo) \in Nat
  BY <1>1, JournalAssumption DEF Types, Tx
<1>4. Types'
  BY <1>2, <1>3 DEF Types
<1>5. Bounds' /\ ReaderBounds'
  BY <1>2 DEF Bounds, ReaderBounds, Types
<1>6. \A e \in tx.rows : e.stream = s /\ n < e.seq /\ ~Taken(e) /\ e.seq \in Nat
  BY <1>1, <1>3 DEF TxOK, Row
<1>7. Accepted' = Accepted
  <2>1. \A e \in tx.rows : ~(e.seq <= heads[e.stream].seq)
    BY <1>3, <1>6
  <2> QED BY <2>1, <1>2 DEF Accepted
<1>8. ASSUME NEW t \in Streams PROVE RefusedHalf(t)'
  <2>1. CASE t # s \/ tx.rows = {}
    <3>1. Beyond(t)' = Beyond(t)
      BY <2>1, <1>2, <1>6 DEF Beyond, OfStream
    <3> QED BY <3>1, <1>2 DEF RefusedHalf, ChainVerifies
  <2>2. CASE t = s /\ tx.rows # {}
    <3>1. /\ Done \in Nat /\ \A i \in 1..Len(tx.todo) : tx.todo[i] = q.batch[Done + i]
          /\ {<<e.seq, e.body>> : e \in tx.rows} = {<<n + i, q.batch[i]>> : i \in 1..Done}
      BY <1>1 DEF TxBatch
    <3>2. q.batch \in Batches /\ Len(q.batch) \in Nat
      <4>1. q \in Req
        BY <1>1 DEF TxOK, Types, Tx
      <4> QED BY <4>1, BatchFits DEF Req
    <3> DEFINE d == Done
    <3>3. d \in Nat /\ d = Len(q.batch) - Len(tx.todo)
      BY <3>1 DEF Done
    <3> HIDE DEF d, n, q
    <3>4. Len(tx.todo) >= 1 /\ tx.todo[1] = Head(tx.todo)
      BY <1>1 DEF Tx
    <3>5. q.batch[d + 1] \in Oversized /\ d <= Len(q.batch) - 1
      <4>1. 1 \in 1..Len(tx.todo)
        BY <3>4, <1>3
      <4>2. tx.todo[1] = q.batch[d + 1]
        BY <4>1, <3>1 DEF d
      <4>3. d <= Len(q.batch) - 1
        <5>1. \A x, y, z \in Int : x = y - z /\ z >= 1 => x <= y - 1
          OBVIOUS
        <5>2. d \in Int /\ Len(q.batch) \in Int /\ Len(tx.todo) \in Int
          BY <3>2, <3>3, <1>3
        <5> QED BY <5>1, <5>2, <3>3, <3>4
      <4> QED BY <4>2, <4>3, <3>4, <1>1
    <3>6. d >= 1
      <4> SUFFICES ASSUME d = 0 PROVE FALSE
        BY <3>3
      <4>1. {<<n + i, q.batch[i]>> : i \in 1..d} = {}
        OBVIOUS
      <4> QED BY <4>1, <3>1, <2>2 DEF d
    <3>7. Beyond(t) = {}
      BY <2>2, <1>1, NothingThere
    <3>8. Beyond(t)' = tx.rows
      <4>1. \A e \in tx.rows : e.stream = t /\ e.seq > heads'[t].seq
        BY <1>2, <1>3, <1>6, <2>2 DEF n
      <4>2. Beyond(t)' = Beyond(t) \cup tx.rows
        BY <4>1, <1>2 DEF Beyond, OfStream
      <4> QED BY <4>2, <3>7
    <3>9. {<<e.seq, e.body>> : e \in tx.rows} = {<<heads'[t].seq + i, q.batch[i]>> : i \in 1..d}
      BY <3>1, <1>2, <2>2 DEF n, d
    <3>10. d \in 1..(Len(q.batch) - 1)
      <4>1. \A x \in Nat, y \in Int : 1 <= x /\ x <= y => x \in 1..y
        OBVIOUS
      <4>2. Len(q.batch) - 1 \in Int
        BY <3>2
      <4> HIDE DEF d, q
      <4> QED BY <4>1, <4>2, <3>3, <3>5, <3>6
    <3>11. \E batch \in Batches : \E k \in 1..(Len(batch) - 1) :
             /\ batch[k + 1] \in Oversized
             /\ {<<e.seq, e.body>> : e \in tx.rows}
                  = {<<heads'[t].seq + i, batch[i]>> : i \in 1..k}
      BY <3>2, <3>5, <3>9, <3>10
    <3> QED BY <2>2, <3>8, <3>11 DEF RefusedHalf
  <2> QED BY <2>1, <2>2
<1>9. ChainVerifies'
  <2>1. \A t \in Streams : Chained(OfStream(Accepted', t), heads'[t].seq, heads'[t].hash)
    BY <1>2, <1>7 DEF ChainVerifies
  <2> QED BY <2>1, <1>8 DEF ChainVerifies, OfStream, Chained
<1>10. Committed'
  <2>1. Dated(rows \cup tx.rows, MaxLamport, granted)
    <3> SUFFICES ASSUME NEW e \in tx.rows
                 PROVE  /\ 1 <= e.seq /\ e.seq <= e.lamport /\ e.lamport <= MaxLamport
                        /\ 1 <= e.epoch /\ e.epoch <= granted
      BY DEF Dated, Committed
    <3>1. e.lamport \in Nat /\ e.epoch \in Nat
      BY <1>3 DEF Row
    <3>2. tx.lamport <= MaxLamport /\ tx.epoch <= granted
      BY <1>1, <1>3 DEF TxOK
    <3> QED BY <3>1, <3>2, <1>1, <1>3 DEF TxOK, Dated
  <2> QED BY <2>1, <1>2, <1>7 DEF Committed, Dated, Ordered
<1>11. TxOK' /\ TxBatch'
  BY <1>2 DEF TxOK, TxBatch
<1> QED BY <1>4, <1>5, <1>9, <1>10, <1>11

\* A commit accepts what the transaction wrote and covers nothing else.
LEMMA CommitAccepts ==
  ASSUME Inv, Commit
  PROVE  /\ tx \in Tx /\ tx # None /\ tx.rows # {}
         /\ Accepted' = Written /\ Beyond(tx.stream) = {}
         /\ \A t \in Streams : Beyond(t)' = Beyond(t)
         /\ NothingBeyondHead' => NothingBeyondHead
<1> USE DEF Inv
<1> DEFINE q == req[tx.host]
           s == tx.stream
           n == heads[s].seq
<1>1. tx \in Tx /\ tx # None /\ tx.todo = << >>
  BY DEF Commit, Types
<1>2. /\ s \in Streams /\ n \in Nat /\ tx.seq \in Nat /\ n <= tx.seq
      /\ tx.rows \in SUBSET Row /\ rows \in SUBSET Row
      /\ \A t \in Streams : heads[t].seq \in Nat
  BY <1>1 DEF Types, Tx, TxOK
<1>3. tx.rows # {}
  <2>1. q \in Req
    BY <1>1 DEF TxOK, Types, Tx
  <2>2. q.batch \in Seq(Bodies) /\ q.batch # << >>
    BY <2>1, JournalAssumption DEF Req
  <2>3. {<<e.seq, e.body>> : e \in tx.rows} = {<<n + i, q.batch[i]>> : i \in 1..Done}
    BY <1>1 DEF TxBatch
  <2> HIDE DEF q, n
  <2>4. Len(q.batch) \in Nat /\ Len(q.batch) # 0
    BY <2>2
  <2>5. Done = Len(q.batch)
    BY <1>1, <2>4 DEF Done, q
  <2>6. <<n + 1, q.batch[1]>> \in {<<n + i, q.batch[i]>> : i \in 1..Len(q.batch)}
    BY <2>4
  <2>7. <<n + 1, q.batch[1]>> \in {<<e.seq, e.body>> : e \in tx.rows}
    BY <2>3, <2>5, <2>6
  <2> QED BY <2>7
<1>4. Beyond(s) = {}
  BY <1>1, <1>3, NothingThere
<1>5. /\ rows' = rows \cup tx.rows
      /\ heads'[s].seq = tx.seq
      /\ \A t \in Streams : t # s => heads'[t] = heads[t]
  BY <1>2 DEF Commit, Types
<1>6. \A e \in tx.rows : /\ e.stream = s /\ n < e.seq /\ e.seq \in Nat
                         /\ e.seq <= tx.seq /\ ~Taken(e)
  <2> SUFFICES ASSUME NEW e \in tx.rows
               PROVE  /\ e.stream = s /\ n < e.seq /\ e.seq \in Nat
                      /\ e.seq <= tx.seq /\ ~Taken(e)
    OBVIOUS
  <2>1. e.stream = s /\ n < e.seq /\ e.seq \in Nat /\ ~Taken(e)
    BY <1>1, <1>2 DEF TxOK, Row
  <2>2. e \in OfStream(Written, s)
    BY <2>1 DEF OfStream, Written
  <2>3. e.seq \in 1..tx.seq
    BY <2>2, <1>1 DEF TxOK, Chained
  <2> QED BY <2>1, <2>3, <1>2
<1>7. \A e \in rows : /\ e.stream \in Streams /\ e.seq \in Nat
                      /\ e.stream = s => e.seq <= n
  BY <1>2, <1>4 DEF Row, Beyond, OfStream
<1> HIDE DEF n, q
<1>8. Accepted' = Written
  <2>1. ASSUME NEW e \in rows PROVE e.seq <= heads'[e.stream].seq <=> e \in Accepted
    <3>1. CASE e.stream = s
      BY <3>1, <1>2, <1>5, <1>7 DEF Accepted, n
    <3>2. CASE e.stream # s
      BY <3>2, <1>5, <1>7 DEF Accepted
    <3> QED BY <3>1, <3>2
  <2>2. \A e \in tx.rows : e.seq <= heads'[e.stream].seq
    BY <1>5, <1>6
  <2>3. Accepted \subseteq rows
    BY DEF Accepted
  <2>4. Accepted' = {e \in rows \cup tx.rows : e.seq <= heads'[e.stream].seq}
    BY <1>5 DEF Accepted
  <2> QED BY <2>1, <2>2, <2>3, <2>4 DEF Written
<1>9. ASSUME NEW t \in Streams PROVE Beyond(t)' = Beyond(t)
  <2>1. Beyond(t)' = {e \in rows \cup tx.rows : e.stream = t /\ e.seq > heads'[t].seq}
    BY <1>5 DEF Beyond, OfStream
  <2>2. CASE t = s
    <3>1. \A e \in rows \cup tx.rows : e.stream = t => ~(e.seq > heads'[t].seq)
      BY <2>2, <1>2, <1>5, <1>6, <1>7
    <3> QED BY <2>1, <2>2, <3>1, <1>4
  <2>3. CASE t # s
    BY <2>1, <2>3, <1>5, <1>6 DEF Beyond, OfStream
  <2> QED BY <2>2, <2>3
<1>10. ASSUME NothingBeyondHead' PROVE NothingBeyondHead
  <2> SUFFICES ASSUME NEW e \in rows PROVE e.seq <= heads[e.stream].seq
    BY DEF NothingBeyondHead
  <2>1. e.seq <= heads'[e.stream].seq
    BY <1>5, <1>10 DEF NothingBeyondHead
  <2>2. CASE e.stream = s
    BY <2>2, <1>7 DEF n
  <2>3. CASE e.stream # s
    BY <2>1, <2>3, <1>5, <1>7
  <2> QED BY <2>2, <2>3
<1> QED BY <1>1, <1>3, <1>4, <1>8, <1>9, <1>10

LEMMA CommitKeeps ==
  ASSUME Inv, Commit
  PROVE  Inv'
<1> USE DEF Inv
<1>1. /\ tx \in Tx /\ tx # None /\ Accepted' = Written
      /\ \A t \in Streams : Beyond(t)' = Beyond(t)
      /\ Beyond(tx.stream) = {}
  BY CommitAccepts
<1> DEFINE top == IF tx.epoch > meta.epoch THEN tx.epoch ELSE meta.epoch
<1>2. /\ rows' = rows \cup tx.rows /\ tx' = None /\ req' = [req EXCEPT ![tx.host] = None]
      /\ heads' = [heads EXCEPT ![tx.stream] = [seq |-> tx.seq, hash |-> tx.hash]]
      /\ meta' = [lamport |-> tx.lamport, epoch |-> top]
      /\ UNCHANGED <<projections, blobs, epoch, granted, cursor, seen>>
  BY DEF Commit, readers
<1>3. /\ tx.seq \in Nat /\ tx.lamport \in Nat /\ tx.epoch \in Nat /\ tx.stream \in Streams
      /\ meta.lamport \in Nat /\ meta.epoch \in Nat /\ granted \in Nat
      /\ MaxLamport \in Nat /\ rows \in SUBSET Row /\ tx.rows \in SUBSET Row
      /\ \A s \in Streams : heads[s].seq \in Nat
      /\ Len(tx.todo) \in Nat
  BY <1>1, JournalAssumption DEF Types, Tx
<1>4. top = tx.epoch
  BY <1>1, <1>3 DEF TxOK
<1> HIDE DEF top
<1>5. Written \in SUBSET Row
  BY <1>3 DEF Written, Accepted
<1>6. Types'
  BY <1>1, <1>2, <1>3, <1>4 DEF Types, Tx
<1>7. meta'.lamport = tx.lamport /\ meta'.epoch = tx.epoch
  BY <1>2, <1>4
<1>8. /\ heads'[tx.stream].seq = tx.seq /\ heads'[tx.stream].hash = tx.hash
      /\ \A s \in Streams : s # tx.stream => heads'[s] = heads[s]
  BY <1>2, <1>3 DEF Types
<1>9. Bounds' /\ ReaderBounds'
  <2>1. tx.lamport <= MaxLamport /\ tx.seq <= tx.lamport /\ meta.lamport <= tx.lamport
    BY <1>1, <1>3 DEF TxOK
  <2>2. \A s \in Streams : heads'[s].seq <= meta'.lamport
    BY <1>3, <1>7, <1>8, <2>1 DEF Bounds
  <2> QED BY <1>1, <1>2, <1>3, <1>7, <2>1, <2>2 DEF Bounds, ReaderBounds, TxOK, Types
<1>10. ChainVerifies'
  <2> SUFFICES ASSUME NEW s \in Streams
               PROVE  /\ Chained(OfStream(Written, s), heads'[s].seq, heads'[s].hash)
                      /\ RefusedHalf(s)'
    BY <1>1 DEF ChainVerifies, OfStream, Chained
  <2>1. CASE s = tx.stream
    BY <2>1, <1>1, <1>8 DEF TxOK, RefusedHalf
  <2>2. CASE s # tx.stream
    <3>1. OfStream(Written, s) = OfStream(Accepted, s)
      BY <2>2, <1>1 DEF OfStream, Written, TxOK
    <3> QED BY <3>1, <2>2, <1>1, <1>8 DEF ChainVerifies, RefusedHalf
  <2> QED BY <2>1, <2>2
<1>11. Committed'
  <2>1. Dated(Written, tx.lamport, tx.epoch)
    <3> SUFFICES ASSUME NEW e \in Written
                 PROVE  /\ 1 <= e.seq /\ e.seq <= e.lamport /\ e.lamport <= tx.lamport
                        /\ 1 <= e.epoch /\ e.epoch <= tx.epoch
      BY DEF Dated
    <3>1. e.lamport \in Nat /\ e.epoch \in Nat
      BY <1>5 DEF Row
    <3>2. CASE e \in Accepted
      <4>1. meta.lamport <= tx.lamport /\ meta.epoch <= tx.epoch
        BY <1>1 DEF TxOK
      <4> QED BY <3>1, <3>2, <4>1, <1>3 DEF Committed, Dated
    <3>3. CASE e \in tx.rows
      BY <3>3, <1>1 DEF TxOK, Dated
    <3> QED BY <3>2, <3>3 DEF Written
  <2>2. Ordered(Written)
    BY <1>1 DEF TxOK
  <2>3. Dated(rows \cup tx.rows, MaxLamport, granted)
    <3> SUFFICES ASSUME NEW e \in tx.rows
                 PROVE  /\ 1 <= e.seq /\ e.seq <= e.lamport /\ e.lamport <= MaxLamport
                        /\ 1 <= e.epoch /\ e.epoch <= granted
      BY DEF Dated, Committed
    <3>1. e.lamport \in Nat /\ e.epoch \in Nat
      BY <1>3 DEF Row
    <3>2. tx.lamport <= MaxLamport /\ tx.epoch <= granted
      BY <1>1, <1>3 DEF TxOK
    <3> QED BY <3>1, <3>2, <1>1, <1>3 DEF TxOK, Dated
  <2> QED BY <2>1, <2>2, <2>3, <1>1, <1>2, <1>7 DEF Committed, Dated, Ordered
<1>12. TxOK' /\ TxBatch'
  BY <1>2 DEF TxOK, TxBatch
<1> QED BY <1>6, <1>9, <1>10, <1>11, <1>12

LEMMA RollBackKeeps ==
  ASSUME Inv, RollBack
  PROVE  Inv'
<1> USE DEF Inv
<1>1. /\ tx' = None /\ req' = [req EXCEPT ![tx.host] = None]
      /\ UNCHANGED <<rows, heads, meta, projections, blobs, epoch, granted, cursor, seen>>
  BY DEF RollBack, journal, readers
<1>2. Types'
  BY <1>1 DEF Types
<1>3. Bounds' /\ ReaderBounds'
  BY <1>1 DEF Bounds, ReaderBounds, Types, RollBack, Tx
<1> QED BY <1>1, <1>2, <1>3, Closes

LEMMA CrashKeeps ==
  ASSUME Inv, NEW h \in Hosts, Crash(h)
  PROVE  Inv'
<1> USE DEF Inv
<1>1. /\ req' = [req EXCEPT ![h] = None] /\ epoch' = [epoch EXCEPT ![h] = 0]
      /\ cursor' = [r \in Readers |-> IF <<r, h>> \in Shares THEN 0 ELSE cursor[r]]
      /\ seen' = [r \in Readers |-> IF <<r, h>> \in Shares THEN {} ELSE seen[r]]
      /\ UNCHANGED <<rows, heads, meta, projections, blobs, granted>>
  BY DEF Crash, journal
<1>2. tx' = None \/ (tx' = tx /\ tx # None /\ tx.host # h)
  BY DEF Crash
<1>3. Types'
  <2>1. cursor' \in [Readers -> Nat] /\ seen' \in [Readers -> SUBSET Row]
    BY <1>1 DEF Types
  <2> QED BY <2>1, <1>1, <1>2 DEF Types
<1>4. Bounds'
  BY <1>1, <1>3 DEF Bounds, Types
<1>5. ReaderBounds'
  BY <1>1, JournalAssumption DEF ReaderBounds
<1>6. CASE tx' = None
  BY <1>6, <1>1, <1>3, <1>4, <1>5, Closes
<1>7. CASE tx' = tx /\ tx # None /\ tx.host # h
  <2>1. req'[tx.host] = req[tx.host] /\ granted <= granted'
    BY <1>7, <1>1 DEF Types, Tx
  <2>2. ChainVerifies' /\ Committed'
    BY <2>1, <1>1, <1>3, JournalSame DEF journal
  <2>3. TxOK' /\ TxBatch'
    BY <2>1, <1>1, <1>3, <1>7, TxSame
  <2> QED BY <2>2, <2>3, <1>3, <1>4, <1>5
<1> QED BY <1>2, <1>6, <1>7

-----------------------------------------------------------------------------
(* Readers, projections and blobs: whatever a reader sees on its connection,  *)
(* types and bounds hold.                                                     *)

LEMMA LastIsGreatest ==
  ASSUME NEW page \in SUBSET Row, page # {}, NEW b \in Nat, \A e \in page : e.lamport <= b
  PROVE  /\ \A e \in page : e.lamport <= Last(page)
         /\ \E e \in page : e.lamport = Last(page)
<1> DEFINE L == {e.lamport : e \in page}
<1>1. \E l \in L : \A n \in L : n <= l
  <2>1. L \in SUBSET Nat /\ L # {} /\ \A n \in L : n <= b
    BY DEF Row
  <2> HIDE DEF L
  <2> QED BY <2>1, GreatestNumber
<1>2. \E l \in L : \A e \in page : e.lamport <= l
  BY <1>1
<1>3. Last(page) \in L /\ \A e \in page : e.lamport <= Last(page)
  BY <1>2 DEF Last
<1> QED BY <1>3

LEMMA ReadKeeps ==
  ASSUME Inv, NEW r \in Readers, Read(r)
  PROVE  Inv'
<1> USE DEF Inv
<1>1. PICK page \in Pages(r) : /\ page # {}
                               /\ cursor' = [cursor EXCEPT ![r] = Last(page)]
                               /\ seen' = [seen EXCEPT ![r] = seen[r] \cup NotApplied(r, page)]
  BY DEF Read
<1>2. UNCHANGED <<rows, heads, meta, projections, blobs, tx, req, epoch, granted>>
  BY DEF Read, journal, hosts
<1>3. ASSUME NEW e \in page
      PROVE  e \in Row /\ e.lamport <= MaxLamport /\ e.seq <= MaxLamport
  <2>0. MaxLamport \in Nat
    BY JournalAssumption
  <2>1. e \in rows \/ (tx # None /\ e \in tx.rows)
    BY <1>1 DEF Pages, Ahead, Visible
  <2>2. CASE e \in rows
    <3>1. e \in Row /\ e.seq \in Nat /\ e.lamport \in Nat
      BY <2>2 DEF Types, Row
    <3>2. e.seq <= e.lamport /\ e.lamport <= MaxLamport
      BY <2>2 DEF Committed, Dated
    <3> QED BY <2>0, <3>1, <3>2
  <2>3. CASE tx # None /\ e \in tx.rows
    <3>1. e \in Row /\ e.seq \in Nat /\ e.lamport \in Nat /\ tx.lamport \in Nat
          /\ Len(tx.todo) \in Nat
      BY <2>3 DEF Types, Tx, Row
    <3>2. e.seq <= e.lamport /\ e.lamport <= tx.lamport
      BY <2>3 DEF TxOK, Dated
    <3>3. tx.lamport + Len(tx.todo) <= MaxLamport
      BY <2>3 DEF TxOK
    <3> QED BY <2>0, <3>1, <3>2, <3>3
  <2> QED BY <2>1, <2>2, <2>3
<1>4. Last(page) \in Nat /\ Last(page) <= MaxLamport
  <2>1. page \in SUBSET Row /\ MaxLamport \in Nat
    BY <1>3, JournalAssumption
  <2>2. PICK e \in page : e.lamport = Last(page)
    BY <1>1, <1>3, <2>1, LastIsGreatest
  <2> QED BY <2>2, <1>3 DEF Row
<1>5. NotApplied(r, page) \subseteq page
  BY DEF NotApplied
<1>6. Types'
  <2>1. seen[r] \cup NotApplied(r, page) \in SUBSET Row
    BY <1>3, <1>5 DEF Types
  <2>2. seen' \in [Readers -> SUBSET Row] /\ cursor' \in [Readers -> Nat]
    BY <1>1, <1>4, <2>1 DEF Types
  <2> QED BY <2>2, <1>2 DEF Types
<1>7. Bounds'
  BY <1>2 DEF Bounds
<1>8. ReaderBounds'
  <2> SUFFICES ASSUME NEW q \in Readers
               PROVE  cursor'[q] <= MaxLamport /\ \A e \in seen'[q] : e.seq <= MaxLamport
    BY DEF ReaderBounds
  <2>1. CASE q = r
    <3>1. cursor'[q] = Last(page) /\ seen'[q] = seen[r] \cup NotApplied(r, page)
      BY <2>1, <1>1 DEF Types
    <3> QED BY <3>1, <1>3, <1>4, <1>5 DEF ReaderBounds
  <2>2. CASE q # r
    BY <2>2, <1>1 DEF Types, ReaderBounds
  <2> QED BY <2>1, <2>2
<1>9. ChainVerifies' /\ Committed' /\ TxOK' /\ TxBatch'
  <2>1. granted <= granted' /\ UNCHANGED journal
    BY <1>2 DEF Types, journal
  <2> QED BY <2>1, <1>2, <1>6, JournalSame, TxSame
<1> QED BY <1>6, <1>7, <1>8, <1>9

\* The number a projection keeps of a stream is that of the last event folded.
LEMMA AppliedIsLast ==
  ASSUME Inv, NEW r \in Readers, NEW s
  PROVE  /\ Applied(r, s) \in {0} \cup {e.seq : e \in OfStream(seen[r], s)}
         /\ Applied(r, s) \in Nat
         /\ \A e \in OfStream(seen[r], s) : e.seq <= Applied(r, s)
<1> DEFINE N == {0} \cup {e.seq : e \in OfStream(seen[r], s)}
<1>1. N \in SUBSET Nat /\ N # {} /\ MaxLamport \in Nat /\ \A k \in N : k <= MaxLamport
  BY JournalAssumption DEF Inv, Types, ReaderBounds, OfStream, Row
<1>2. \E m \in N : \A k \in N : k <= m
  <2> HIDE DEF N
  <2> QED BY <1>1, GreatestNumber
<1>3. \E m \in N : \A e \in OfStream(seen[r], s) : e.seq <= m
  BY <1>2
<1>4. Applied(r, s) \in N /\ \A e \in OfStream(seen[r], s) : e.seq <= Applied(r, s)
  BY <1>3 DEF Applied
<1> QED BY <1>1, <1>4

LEMMA SetProjectionKeeps ==
  ASSUME Inv, NEW r \in Readers, NEW s \in Streams, NEW k \in Keys, SetProjection(r, s, k)
  PROVE  Inv'
<1> USE DEF Inv
<1> DEFINE p == [applied |-> Applied(r, s), state |-> Fold(seen[r]), of |-> s]
<1>1. /\ projections' = [projections EXCEPT ![k] = p]
      /\ UNCHANGED <<rows, heads, meta, blobs, tx, req, epoch, granted, cursor, seen>>
  BY DEF SetProjection, journal, hosts, readers
<1>2. p \in Known
  BY AppliedIsLast, FoldIsState DEF Known, Types
<1> HIDE DEF p
<1>3. Types'
  BY <1>1, <1>2 DEF Types
<1>4. Bounds' /\ granted <= granted'
  BY <1>1 DEF Bounds, Types
<1> QED BY <1>1, <1>3, <1>4, HostsKeep

LEMMA BlobsKeep ==
  ASSUME Inv, NEW b \in Blobs, PutBlob(b) \/ Redact(b)
  PROVE  Inv'
<1> USE DEF Inv
<1>1. UNCHANGED <<rows, heads, meta, projections, tx, req, epoch, granted, cursor, seen>>
  BY DEF PutBlob, Redact, journal, hosts, readers
<1>2. Types'
  BY <1>1 DEF Types, PutBlob, Redact
<1>3. Bounds' /\ granted <= granted'
  BY <1>1 DEF Bounds, Types
<1> QED BY <1>1, <1>2, <1>3, HostsKeep

-----------------------------------------------------------------------------
LEMMA StepKeepsInv == Inv /\ [Next]_vars => Inv'
<1> SUFFICES ASSUME Inv, [Next]_vars PROVE Inv'
  OBVIOUS
<1>1. CASE UNCHANGED vars
  <2>1. /\ UNCHANGED <<rows, heads, meta, projections, blobs, tx, req, epoch, granted,
                       cursor, seen>>
    BY <1>1 DEF vars
  <2>2. Types' /\ Bounds' /\ granted <= granted'
    BY <2>1 DEF Inv, Types, Bounds
  <2> QED BY <2>1, <2>2, HostsKeep
<1>2. ASSUME NEW h \in Hosts, Acquire(h) \/ Refuse(h) \/ Begin(h) \/ Crash(h) PROVE Inv'
  BY <1>2, AcquireKeeps, RefuseKeeps, BeginKeeps, CrashKeeps
<1>3. ASSUME NEW h \in Hosts, NEW s \in Streams, NEW batch \in Batches,
             Prepare(h, s, batch) PROVE Inv'
  BY <1>3, PrepareKeeps
<1>4. CASE WriteDraft \/ RejectDraft \/ Commit \/ RollBack
  BY <1>4, WriteDraftKeeps, RejectDraftKeeps, CommitKeeps, RollBackKeeps
<1>5. ASSUME NEW r \in Readers, Read(r) PROVE Inv'
  BY <1>5, ReadKeeps
<1>6. ASSUME NEW r \in Readers, NEW s \in Streams, NEW k \in Keys, SetProjection(r, s, k)
      PROVE  Inv'
  BY <1>6, SetProjectionKeeps
<1>7. ASSUME NEW b \in Blobs, PutBlob(b) \/ Redact(b) PROVE Inv'
  BY <1>7, BlobsKeep
<1> QED BY <1>1, <1>2, <1>3, <1>4, <1>5, <1>6, <1>7 DEF Next

\* The invariant of the whole module, from which the theorems below follow.
LEMMA Invariance == Spec => []Inv
<1> QED BY InitInv, StepKeepsInv, PTL DEF Spec

\* Every variable has its type and its bound.
THEOREM TypeCorrect == Spec => []TypeOK
<1>1. Inv => TypeOK
  <2> SUFFICES ASSUME Inv PROVE TypeOK
    OBVIOUS
  <2> USE DEF Inv
  <2>0. /\ MaxLamport \in Nat /\ MaxEpoch \in Nat /\ granted \in Nat
        /\ meta.lamport \in Nat /\ meta.epoch \in Nat
        /\ meta.lamport <= MaxLamport /\ meta.epoch <= MaxEpoch /\ granted <= MaxEpoch
    BY JournalAssumption DEF Types, Bounds
  <2>1. ASSUME NEW e \in rows
        PROVE  e.stream \in Streams /\ e.body \in Bodies /\ e.seq \in 1..MaxLamport
               /\ e.lamport \in 1..MaxLamport /\ e.epoch \in 1..MaxEpoch
    <3>1. e \in Row
      BY DEF Types
    <3>2. 1 <= e.seq /\ e.seq <= e.lamport /\ e.lamport <= MaxLamport
          /\ 1 <= e.epoch /\ e.epoch <= granted
      BY DEF Committed, Dated
    <3> QED BY <3>1, <3>2, <2>0 DEF Row
  <2>2. \A s \in Streams : heads[s].seq \in 0..MaxLamport
    BY <2>0 DEF Types, Bounds
  <2>3. meta \in [lamport : 0..MaxLamport, epoch : 0..MaxEpoch]
    BY <2>0 DEF Types
  <2>4. tx # None => tx.host \in Hosts /\ req[tx.host] # None
    BY DEF Types, Tx, TxOK
  <2>5. epoch \in [Hosts -> 0..MaxEpoch] /\ granted \in 0..MaxEpoch
    BY <2>0 DEF Types, Bounds
  <2>6. cursor \in [Readers -> 0..MaxLamport]
    BY <2>0 DEF Types, ReaderBounds
  <2> QED BY <2>1, <2>2, <2>3, <2>4, <2>5, <2>6 DEF TypeOK, Types
<1> QED BY <1>1, Invariance, PTL

\* In every stream the events up to the head are linked from the first, and
\* beyond it there is at most what a refused batch wrote before its oversized
\* draft, whatever hosts append, fail, crash or lose their lease.
THEOREM ChainsHold == Spec => []ChainVerifies
<1>1. Inv => ChainVerifies
  BY DEF Inv
<1> QED BY <1>1, Invariance, PTL

\* A host that lost its lease has nothing accepted after a newer one, in any
\* stream, whatever refused batches have left behind.
THEOREM FencingHolds == Spec => []EpochsInOrder
<1>1. Inv => EpochsInOrder
  BY DEF Inv, EpochsInOrder, Committed, Ordered
<1> QED BY <1>1, Invariance, PTL

-----------------------------------------------------------------------------
(* Readers on connections of their own, until a refused batch leaves an       *)
(* event behind: from then on the hypothesis NothingBeyondHead is false for    *)
(* good, because the clock and the head never pass that event.                *)

LEMMA AllAccepted ==
  ASSUME Inv, NothingBeyondHead
  PROVE  Accepted = rows
BY DEF Accepted, NothingBeyondHead

\* What readers and projections hold depends on events, rows and folds only.
LEMMA ReadersSame ==
  ASSUME Reading, UNCHANGED <<rows, heads, meta, projections, cursor, seen>>
  PROVE  NothingBeyondHead' => ReadersExact' /\ ProjectionsExact'
<1> SUFFICES ASSUME NothingBeyondHead' PROVE ReadersExact' /\ ProjectionsExact'
  OBVIOUS
<1>1. NothingBeyondHead
  BY DEF NothingBeyondHead
<1>2. ReadersExact /\ ProjectionsExact
  BY <1>1 DEF Reading
<1> QED BY <1>2 DEF ReadersExact, ProjectionsExact, Prefix, OfStream, About, Fold

\* A guard that was let through stays what it was while its transaction lasts.
LEMMA GuardSame ==
  ASSUME Reading, UNCHANGED <<rows, heads, projections>>,
         tx' = None \/ (tx # None /\ tx'.guard = tx.guard /\ tx'.stream = tx.stream)
  PROVE  GuardSawAll'
<1>1. CASE tx' = None
  BY <1>1 DEF GuardSawAll
<1>2. CASE tx # None /\ tx'.guard = tx.guard /\ tx'.stream = tx.stream
  BY <1>2 DEF Reading, GuardSawAll, NothingBeyondHead, About, OfStream, Fold
<1> QED BY <1>1, <1>2

LEMMA BeginReads ==
  ASSUME Inv, Reading, NEW h \in Hosts, Begin(h)
  PROVE  Reading'
<1> USE DEF Inv
<1> DEFINE q == req[h]
<1>1. q \in Req /\ q.stream \in Streams
  BY DEF Begin, Types, Req
<1>2. /\ tx'.stream = q.stream /\ tx'.guard = q.guard
      /\ UNCHANGED <<rows, heads, meta, projections, cursor, seen>>
  BY DEF Begin, journal, readers
<1>3. NothingBeyondHead' => ReadersExact' /\ ProjectionsExact'
  BY <1>2, ReadersSame
<1>4. GuardSawAll'
  <2> DEFINE p == projections[q.guard.key]
  <2> SUFFICES ASSUME q.guard # None, NothingBeyondHead, p.of = q.stream
               PROVE  About(q.guard.state, q.stream) = Fold(OfStream(rows, q.stream))
    BY <1>2 DEF GuardSawAll, NothingBeyondHead, OfStream, Fold, About
  <2>1. q.guard \in Citation
    BY <1>1 DEF Req
  <2>2. q.guard.key \in Keys
    BY <2>1 DEF Citation
  <2>3. p # None /\ p.applied = heads[q.stream].seq /\ p.state = q.guard.state
    BY DEF Begin, GuardFailed
  <2>4. ProjectionsExact
    BY DEF Reading
  <2>5. About(p.state, p.of) = Fold(Prefix(p.of, p.applied))
    BY <2>2, <2>3, <2>4 DEF ProjectionsExact
  <2> HIDE DEF p, q
  <2>6. Prefix(q.stream, heads[q.stream].seq) = OfStream(rows, q.stream)
    BY DEF Prefix, OfStream, NothingBeyondHead
  <2> QED BY <2>3, <2>5, <2>6
<1> QED BY <1>3, <1>4 DEF Reading

LEMMA RejectDraftReads ==
  ASSUME Inv, Reading, RejectDraft
  PROVE  Reading'
<1>1. tx \in Tx /\ tx # None /\ tx' = None /\ rows' = rows \cup tx.rows
      /\ UNCHANGED <<heads, meta, projections, cursor, seen>>
  BY DEF RejectDraft, readers, Inv, Types
<1>2. ASSUME NothingBeyondHead' PROVE ReadersExact' /\ ProjectionsExact'
  <2>1. \A e \in tx.rows : e.stream = tx.stream /\ heads[tx.stream].seq < e.seq
                           /\ e.seq \in Nat /\ heads[tx.stream].seq \in Nat
    BY <1>1 DEF Inv, TxOK, Types, Tx, Row
  <2>2. \A e \in tx.rows : e.seq <= heads[tx.stream].seq
    BY <1>1, <1>2, <2>1 DEF NothingBeyondHead
  <2>3. tx.rows = {}
    BY <2>1, <2>2
  <2>4. UNCHANGED <<rows, heads, meta, projections, cursor, seen>>
    BY <1>1, <2>3
  <2> QED BY <1>2, <2>4, ReadersSame
<1> QED BY <1>1, <1>2 DEF Reading, GuardSawAll

LEMMA CommitReads ==
  ASSUME Inv, Reading, Commit
  PROVE  Reading'
<1> USE DEF Inv
<1>1. /\ tx \in Tx /\ tx # None
      /\ NothingBeyondHead' => NothingBeyondHead
  BY CommitAccepts
<1>2. /\ rows' = rows \cup tx.rows /\ tx' = None /\ meta'.lamport = tx.lamport
      /\ heads' = [heads EXCEPT ![tx.stream] = [seq |-> tx.seq, hash |-> tx.hash]]
      /\ UNCHANGED <<projections, cursor, seen>>
  BY DEF Commit, readers
<1>3. /\ tx.seq \in Nat /\ tx.lamport \in Nat /\ meta.lamport \in Nat
      /\ tx.rows \in SUBSET Row /\ tx.stream \in Streams
      /\ meta.lamport <= tx.lamport /\ heads[tx.stream].seq <= tx.seq
      /\ \A s \in Streams : heads[s].seq \in Nat
  BY <1>1 DEF Types, Tx, TxOK
<1>4. \A e \in tx.rows : /\ e.lamport \in Nat /\ meta.lamport < e.lamport
                         /\ e.stream = tx.stream /\ e.seq \in Nat
                         /\ heads[tx.stream].seq < e.seq
  BY <1>1, <1>3 DEF TxOK, Row
<1>5. ASSUME NothingBeyondHead' PROVE ReadersExact' /\ ProjectionsExact'
  <2>1. ReadersExact /\ ProjectionsExact
    BY <1>1, <1>5 DEF Reading
  <2>2. ReadersExact'
    <3> SUFFICES ASSUME NEW r \in Readers
                 PROVE  /\ cursor[r] <= tx.lamport
                        /\ seen[r] = {e \in rows \cup tx.rows : e.lamport <= cursor[r]}
      BY <1>2 DEF ReadersExact
    <3>1. cursor[r] \in Nat /\ cursor[r] <= meta.lamport
          /\ seen[r] = {e \in rows : e.lamport <= cursor[r]}
      BY <2>1 DEF ReadersExact, Types
    <3>2. \A e \in tx.rows : ~(e.lamport <= cursor[r])
      BY <3>1, <1>3, <1>4
    <3> QED BY <3>1, <3>2, <1>3
  <2>3. ProjectionsExact'
    <3> SUFFICES ASSUME NEW k \in Keys, projections[k] # None
                 PROVE  LET p == projections[k]
                        IN /\ p.applied <= heads'[p.of].seq
                           /\ About(p.state, p.of) = Fold(Prefix(p.of, p.applied)')
      BY <1>2 DEF ProjectionsExact, Fold, About
    <3> DEFINE p == projections[k]
    <3>1. p \in Known
      BY DEF Types
    <3>2. /\ p.applied \in Nat /\ p.of \in Streams /\ p.applied <= heads[p.of].seq
          /\ About(p.state, p.of) = Fold(Prefix(p.of, p.applied))
      BY <2>1, <3>1 DEF ProjectionsExact, Known
    <3> HIDE DEF p
    <3>3. p.applied <= heads'[p.of].seq
      <4>1. CASE p.of = tx.stream
        <5>1. heads'[p.of].seq = tx.seq
          BY <4>1, <1>2, <1>3 DEF Types
        <5> QED BY <5>1, <4>1, <1>3, <3>2
      <4>2. CASE p.of # tx.stream
        BY <4>2, <1>2, <3>2 DEF Types
      <4> QED BY <4>1, <4>2
    <3>4. \A e \in tx.rows : ~(e.stream = p.of /\ e.seq <= p.applied)
      BY <1>3, <1>4, <3>2
    <3>5. {e \in OfStream(rows', p.of) : e.seq <= p.applied} = Prefix(p.of, p.applied)
      BY <3>4, <1>2 DEF Prefix, OfStream
    <3>6. projections' = projections /\ p = projections[k]
      BY <1>2 DEF p
    <3>7. Fold(Prefix(projections[k].of, projections[k].applied)')
            = Fold({e \in OfStream(rows', p.of) : e.seq <= p.applied})
      BY <3>6 DEF Prefix, OfStream, Fold
    <3> QED BY <3>2, <3>3, <3>5, <3>6, <3>7
  <2> QED BY <2>2, <2>3
<1> QED BY <1>2, <1>5 DEF Reading, GuardSawAll

LEMMA ReadReads ==
  ASSUME Inv, Reading, OwnConnections, NEW r \in Readers, Read(r)
  PROVE  Reading'
<1> USE DEF Inv
<1>1. PICK page \in Pages(r) : /\ page # {}
                               /\ cursor' = [cursor EXCEPT ![r] = Last(page)]
                               /\ seen' = [seen EXCEPT ![r] = seen[r] \cup NotApplied(r, page)]
  BY DEF Read
<1>2. UNCHANGED <<rows, heads, meta, projections, blobs, tx, req, epoch, granted>>
  BY DEF Read, journal, hosts
<1>3. GuardSawAll'
  <2>1. tx' = None \/ (tx # None /\ tx'.guard = tx.guard /\ tx'.stream = tx.stream)
    BY <1>2
  <2> QED BY <1>2, <2>1, GuardSame
<1>4. ASSUME NothingBeyondHead' PROVE ReadersExact' /\ ProjectionsExact'
  <2>1. NothingBeyondHead /\ ReadersExact /\ ProjectionsExact
    BY <1>2, <1>4 DEF Reading, NothingBeyondHead
  <2>2. /\ page \subseteq {e \in rows : e.lamport > cursor[r]}
        /\ \A e \in page, o \in rows :
             o.lamport > cursor[r] /\ o \notin page => e.lamport <= o.lamport
    <3>1. Visible(r) = rows
      BY DEF Visible, OwnConnections
    <3> QED BY <3>1, <1>1 DEF Pages, Ahead
  <2>3. /\ \A e \in rows : e \in Row /\ e.lamport \in Nat /\ e.seq \in Nat
                           /\ e.lamport <= meta.lamport
        /\ cursor[r] \in Nat /\ meta.lamport \in Nat
    BY <2>1, AllAccepted DEF Types, Row, Committed, Dated
  <2>4. Ordered(rows)
    BY <2>1, AllAccepted DEF Committed
  <2>5. PICK last \in page : last.lamport = Last(page)
    <3>1. page \in SUBSET Row /\ \A e \in page : e.lamport <= meta.lamport
      BY <2>2, <2>3
    <3> QED BY <3>1, <1>1, <2>3, LastIsGreatest
  <2>6. \A e \in page : e.lamport <= Last(page)
    <3>1. page \in SUBSET Row /\ \A e \in page : e.lamport <= meta.lamport
      BY <2>2, <2>3
    <3> QED BY <3>1, <1>1, <2>3, LastIsGreatest
  <2>7. /\ Last(page) \in Nat /\ Last(page) <= meta.lamport /\ cursor[r] < Last(page)
        /\ last \in rows
    BY <2>2, <2>3, <2>5
  <2>8. page = {e \in rows : e.lamport > cursor[r] /\ e.lamport <= Last(page)}
    <3>1. ASSUME NEW e \in rows, e.lamport > cursor[r], e.lamport <= Last(page)
          PROVE  e \in page
      <4> SUFFICES ASSUME e \notin page PROVE FALSE
        OBVIOUS
      <4>1. last.lamport <= e.lamport
        BY <2>2, <3>1
      <4>2. last.lamport = e.lamport
        BY <4>1, <2>3, <2>5, <2>7, <3>1
      <4> QED BY <4>2, <2>4, <2>7 DEF Ordered
    <3> QED BY <3>1, <2>2, <2>6
  <2>9. NotApplied(r, page) = page
    <3> SUFFICES ASSUME NEW e \in page, NEW o \in seen[r], o.stream = e.stream
                 PROVE  o.seq < e.seq
      BY DEF NotApplied, OfStream
    <3>1. o \in rows /\ o.lamport <= cursor[r] /\ e \in rows /\ e.lamport > cursor[r]
      BY <2>1, <2>2 DEF ReadersExact
    <3>2. o.lamport < e.lamport
      BY <3>1, <2>3
    <3> QED BY <3>1, <3>2, <2>4 DEF Ordered
  <2>10. seen'[r] = {e \in rows : e.lamport <= Last(page)}
    <3>1. seen'[r] = seen[r] \cup page
      BY <1>1, <2>9 DEF Types
    <3>2. seen[r] = {e \in rows : e.lamport <= cursor[r]}
      BY <2>1 DEF ReadersExact
    <3>3. \A e \in rows : e.lamport <= Last(page)
                         <=> e.lamport <= cursor[r] \/ (e.lamport > cursor[r] /\ e.lamport <= Last(page))
      BY <2>3, <2>7
    <3>4. \A e \in rows : e \in seen'[r] <=> e.lamport <= Last(page)
      BY <3>1, <3>2, <3>3, <2>8
    <3>5. seen'[r] \subseteq rows
      BY <3>1, <3>2, <2>2
    <3> QED BY <3>4, <3>5
  <2>11. ReadersExact'
    <3> SUFFICES ASSUME NEW q \in Readers
                 PROVE  /\ cursor'[q] <= meta.lamport
                        /\ seen'[q] = {e \in rows : e.lamport <= cursor'[q]}
      BY <1>2 DEF ReadersExact
    <3>1. CASE q = r
      BY <3>1, <1>1, <2>7, <2>10 DEF Types
    <3>2. CASE q # r
      BY <3>2, <1>1, <2>1 DEF Types, ReadersExact
    <3> QED BY <3>1, <3>2
  <2> QED BY <2>1, <2>11, <1>2 DEF ProjectionsExact, Prefix, OfStream, About, Fold
<1> QED BY <1>3, <1>4 DEF Reading

LEMMA SetProjectionReads ==
  ASSUME Inv, Reading, NEW r \in Readers, NEW s \in Streams, NEW k \in Keys,
         SetProjection(r, s, k)
  PROVE  Reading'
<1> USE DEF Inv
<1> DEFINE n == Applied(r, s)
           p == [applied |-> n, state |-> Fold(seen[r]), of |-> s]
<1>1. /\ tx' = None /\ projections' = [projections EXCEPT ![k] = p]
      /\ UNCHANGED <<rows, heads, meta, blobs, req, epoch, granted, cursor, seen>>
  BY DEF SetProjection, journal, hosts, readers
<1>2. /\ n \in {0} \cup {e.seq : e \in OfStream(seen[r], s)} /\ n \in Nat
      /\ \A e \in OfStream(seen[r], s) : e.seq <= n
  BY AppliedIsLast
<1>3. p.applied = n /\ p.state = Fold(seen[r]) /\ p.of = s
  OBVIOUS
<1> HIDE DEF n, p
<1>4. ASSUME NothingBeyondHead' PROVE ReadersExact' /\ ProjectionsExact'
  <2>1. NothingBeyondHead /\ ReadersExact /\ ProjectionsExact
    BY <1>1, <1>4 DEF Reading, NothingBeyondHead
  <2>2. \A e \in OfStream(seen[r], s) : e \in OfStream(rows, s) /\ e.seq <= heads[s].seq
    BY <2>1 DEF OfStream, ReadersExact, NothingBeyondHead
  <2>3. heads[s].seq \in Nat
    BY DEF Types
  <2>4. n <= heads[s].seq
    BY <1>2, <2>2, <2>3
  <2>5. OfStream(seen[r], s) = Prefix(s, n)
    <3>1. ASSUME NEW e \in OfStream(rows, s), e.seq <= n PROVE e \in seen[r]
      <4>1. /\ e \in Row /\ e.seq \in Nat /\ e.lamport \in Nat /\ 1 <= e.seq
            /\ cursor[r] \in Nat /\ e \in rows /\ e.stream = s
        BY DEF OfStream, Types, Row, Committed, Dated
      <4>2. n # 0
        BY <4>1, <3>1
      <4>3. PICK o \in OfStream(seen[r], s) : o.seq = n
        BY <1>2, <4>2
      <4>4. o \in rows /\ o.stream = s /\ o.lamport <= cursor[r] /\ o.lamport \in Nat
        BY <4>3, <2>1 DEF OfStream, ReadersExact, Types, Row
      <4>5. Ordered(rows)
        BY <2>1, AllAccepted DEF Committed
      <4>6. ~(o.lamport < e.lamport)
        BY <4>1, <4>3, <4>4, <4>5, <3>1, <1>2 DEF Ordered
      <4>7. e.lamport <= cursor[r]
        BY <4>1, <4>4, <4>6
      <4> QED BY <4>1, <4>7, <2>1 DEF ReadersExact
    <3> QED BY <3>1, <2>2, <1>2 DEF Prefix, OfStream
  <2>6. About(Fold(seen[r]), s) = Fold(OfStream(seen[r], s))
    BY DEF About, Fold, OfStream
  <2>7. ReadersExact'
    BY <1>1, <2>1 DEF ReadersExact
  <2>8. ProjectionsExact'
    <3> SUFFICES ASSUME NEW j \in Keys, projections'[j] # None
                 PROVE  LET x == projections'[j]
                        IN /\ x.applied <= heads[x.of].seq
                           /\ About(x.state, x.of) = Fold(Prefix(x.of, x.applied))
      BY <1>1 DEF ProjectionsExact, Fold, Prefix, OfStream, About
    <3>1. CASE j = k
      <4>1. projections'[j] = p
        BY <3>1, <1>1 DEF Types
      <4>2. p.applied <= heads[p.of].seq
        BY <1>3, <2>4
      <4>3. About(p.state, p.of) = Fold(Prefix(p.of, p.applied))
        BY <1>3, <2>5, <2>6
      <4> QED BY <4>1, <4>2, <4>3
    <3>2. CASE j # k
      <4>1. projections'[j] = projections[j]
        BY <3>2, <1>1 DEF Types
      <4> QED BY <4>1, <2>1 DEF ProjectionsExact
    <3> QED BY <3>1, <3>2
  <2> QED BY <2>7, <2>8
<1> QED BY <1>1, <1>4 DEF Reading, GuardSawAll

\* Steps that leave events, heads, rows and folds alone.
LEMMA OthersRead ==
  ASSUME Reading, UNCHANGED <<rows, heads, meta, projections, cursor, seen>>,
         tx' = None \/ (tx # None /\ tx'.guard = tx.guard /\ tx'.stream = tx.stream)
  PROVE  Reading'
BY ReadersSame, GuardSame DEF Reading

LEMMA StepKeepsReading ==
  ASSUME OwnConnections, Inv, Reading, [Next]_vars
  PROVE  Reading'
<1> USE DEF journal, hosts, readers
<1> DEFINE TxStays == tx' = None \/ (tx # None /\ tx'.guard = tx.guard /\ tx'.stream = tx.stream)
<1>1. CASE UNCHANGED vars
  BY <1>1, OthersRead DEF vars
<1>2. ASSUME NEW h \in Hosts, Acquire(h) \/ Refuse(h) \/ Begin(h) \/ Crash(h) PROVE Reading'
  <2>1. CASE Acquire(h)
    BY <2>1, OthersRead DEF Acquire
  <2>2. CASE Refuse(h)
    BY <2>2, OthersRead DEF Refuse
  <2>3. CASE Begin(h)
    BY <2>3, BeginReads
  <2>4. CASE Crash(h)
    <3>1. cursor' = cursor /\ seen' = seen
      BY <2>4 DEF Crash, OwnConnections, Inv, Types
    <3>2. UNCHANGED <<rows, heads, meta, projections>> /\ TxStays
      BY <2>4 DEF Crash
    <3> QED BY <3>1, <3>2, OthersRead
  <2> QED BY <1>2, <2>1, <2>2, <2>3, <2>4
<1>3. ASSUME NEW h \in Hosts, NEW s \in Streams, NEW batch \in Batches,
             Prepare(h, s, batch) PROVE Reading'
  BY <1>3, OthersRead DEF Prepare
<1>4. CASE WriteDraft
  <2>1. tx \in Tx /\ tx # None
    BY <1>4 DEF WriteDraft, Inv, Types
  <2>2. tx'.guard = tx.guard /\ tx'.stream = tx.stream
    BY <1>4, <2>1 DEF WriteDraft, Tx
  <2> QED BY <1>4, <2>1, <2>2, OthersRead DEF WriteDraft
<1>5. CASE RejectDraft \/ Commit
  BY <1>5, RejectDraftReads, CommitReads
<1>6. CASE RollBack
  BY <1>6, OthersRead DEF RollBack
<1>7. ASSUME NEW r \in Readers, Read(r) PROVE Reading'
  BY <1>7, ReadReads
<1>8. ASSUME NEW r \in Readers, NEW s \in Streams, NEW k \in Keys, SetProjection(r, s, k)
      PROVE  Reading'
  BY <1>8, SetProjectionReads
<1>9. ASSUME NEW b \in Blobs, PutBlob(b) \/ Redact(b) PROVE Reading'
  BY <1>9, OthersRead DEF PutBlob, Redact
<1> QED BY <1>1, <1>2, <1>3, <1>4, <1>5, <1>6, <1>7, <1>8, <1>9 DEF Next

LEMMA ReadingHolds ==
  ASSUME OwnConnections
  PROVE  Spec => []Reading
<1>1. Init => Reading
  BY DEF Init, Reading, ReadersExact, ProjectionsExact, GuardSawAll
<1>2. Inv /\ Reading /\ [Next]_vars => Reading'
  BY StepKeepsReading
<1> QED BY <1>1, <1>2, Invariance, PTL DEF Spec

\* A reader with a connection of its own misses no event and keeps none that
\* was rolled back, until a refused batch leaves an event behind.
THEOREM CursorsExact ==
  ASSUME OwnConnections
  PROVE  Spec => []CursorMissesNothing
<1>1. Reading => CursorMissesNothing
  BY DEF Reading, ReadersExact, CursorMissesNothing
<1> QED BY <1>1, ReadingHolds, PTL

\* A guard that passes on a row set for the stream it extends was decided on
\* the whole of that stream, until a refused batch leaves an event behind.
THEOREM GuardsComplete ==
  ASSUME OwnConnections
  PROVE  Spec => []GuardSawAll
<1>1. Reading => GuardSawAll
  BY DEF Reading
<1> QED BY <1>1, ReadingHolds, PTL

-----------------------------------------------------------------------------
(* What is accepted implements the append-only log.                          *)

\* A commit adds its batch to the log, after everything that was there.
LEMMA CommitExtends ==
  ASSUME Inv, Commit
  PROVE  Log!Next
<1> USE DEF Inv
<1> DEFINE q == req[tx.host]
           n == heads[tx.stream].seq
<1>1. tx \in Tx /\ tx # None /\ tx.todo = << >>
  BY DEF Commit, Types
<1>2. q \in Req /\ q.batch \in Batches /\ Len(q.batch) \in Nat /\ n \in Nat
      /\ tx.stream \in Streams
  <2>1. q \in Req
    BY <1>1 DEF TxOK, Types, Tx
  <2> QED BY <2>1, <1>1, BatchFits DEF Types, Tx, Req
<1>3. Done = Len(q.batch)
  BY <1>1, <1>2 DEF Done
<1>4. {<<e.seq, e.body>> : e \in tx.rows} = {<<n + i, q.batch[i]>> : i \in 1..Len(q.batch)}
  BY <1>1, <1>3 DEF TxBatch
<1>5. \A e \in tx.rows : e.stream = tx.stream /\ meta.lamport < e.lamport
  BY <1>1 DEF TxOK
<1>6. \A o \in Accepted : o.lamport <= meta.lamport /\ o \in Row
  BY DEF Committed, Dated, Types, Accepted
<1>7. \A e \in tx.rows, o \in Accepted : o.lamport < e.lamport
  <2> SUFFICES ASSUME NEW e \in tx.rows, NEW o \in Accepted PROVE o.lamport < e.lamport
    OBVIOUS
  <2>1. e.lamport \in Nat /\ o.lamport \in Nat /\ meta.lamport \in Nat
    BY <1>1, <1>6 DEF Types, Tx, Row
  <2> QED BY <2>1, <1>5, <1>6
<1>8. Accepted' = Accepted \cup tx.rows /\ blobs' = blobs
  BY CommitAccepts DEF Commit, Written
<1>9. \A e \in tx.rows : e \notin Accepted
  <2> SUFFICES ASSUME NEW e \in tx.rows, e \in Accepted PROVE FALSE
    OBVIOUS
  <2>1. e.lamport < e.lamport /\ e.lamport \in Nat
    BY <1>6, <1>7 DEF Row
  <2> QED BY <2>1
<1>10. Accepted' \ Accepted = tx.rows
  BY <1>8, <1>9
<1>11. Log!IsLast(tx.stream, n)
  BY <1>1, <1>2 DEF Log!IsLast, ChainVerifies, Chained, OfStream
<1>12. n \in {0} \cup {e.seq : e \in Accepted}
  <2>1. CASE n = 0
    BY <2>1
  <2>2. CASE n # 0
    <3>1. n \in 1..n
      BY <2>2, <1>2
    <3>2. n \in {e.seq : e \in OfStream(Accepted, tx.stream)}
      BY <3>1, <1>2 DEF ChainVerifies, Chained
    <3> QED BY <3>2 DEF OfStream
  <2> QED BY <2>1, <2>2
<1> HIDE DEF q, n
<1>13. {<<e.stream, e.seq, e.body>> : e \in tx.rows}
         = {<<tx.stream, n + i, q.batch[i]>> : i \in 1..Len(q.batch)}
  <2>1. ASSUME NEW e \in tx.rows
        PROVE  \E i \in 1..Len(q.batch) :
                 <<e.stream, e.seq, e.body>> = <<tx.stream, n + i, q.batch[i]>>
    <3>1. <<e.seq, e.body>> \in {<<n + i, q.batch[i]>> : i \in 1..Len(q.batch)}
      BY <1>4
    <3> QED BY <3>1, <1>5
  <2>2. ASSUME NEW i \in 1..Len(q.batch)
        PROVE  \E e \in tx.rows :
                 <<e.stream, e.seq, e.body>> = <<tx.stream, n + i, q.batch[i]>>
    <3>1. <<n + i, q.batch[i]>> \in {<<e.seq, e.body>> : e \in tx.rows}
      BY <1>4
    <3> QED BY <3>1, <1>5
  <2> DEFINE S == {<<e.stream, e.seq, e.body>> : e \in tx.rows}
             T == {<<tx.stream, n + i, q.batch[i]>> : i \in 1..Len(q.batch)}
  <2>3. S \subseteq T
    BY <2>1
  <2>4. T \subseteq S
    <3> SUFFICES ASSUME NEW i \in 1..Len(q.batch)
                 PROVE  <<tx.stream, n + i, q.batch[i]>> \in S
      OBVIOUS
    <3> QED BY <2>2
  <2> QED BY <2>3, <2>4
<1>14. \A e, o \in tx.rows : e.seq = o.seq => e = o
  BY <1>1, <1>5 DEF TxOK, Chained, OfStream, Written
<1>15. Log!Extend(tx.stream, q.batch)
  BY <1>7, <1>8, <1>10, <1>11, <1>12, <1>13, <1>14 DEF Log!Extend
<1> QED BY <1>2, <1>15 DEF Log!Next

LEMMA StepRefines ==
  ASSUME Inv, [Next]_vars
  PROVE  Log!Next \/ UNCHANGED <<Accepted, {b \in Blobs : blobs[b] = "redacted"}>>
<1> DEFINE gone == {b \in Blobs : blobs[b] = "redacted"}
<1>0. ASSUME UNCHANGED <<rows, heads, blobs>>
      PROVE  UNCHANGED <<Accepted, gone>>
  BY <1>0 DEF Accepted
<1>1. CASE UNCHANGED vars
  BY <1>0, <1>1 DEF vars
<1>2. ASSUME NEW h \in Hosts, Acquire(h) \/ Refuse(h) \/ Begin(h) \/ Crash(h)
      PROVE  UNCHANGED <<rows, heads, blobs>>
  BY <1>2 DEF Acquire, Refuse, Begin, Crash, journal
<1>3. ASSUME NEW h \in Hosts, NEW s \in Streams, NEW batch \in Batches,
             Prepare(h, s, batch) PROVE UNCHANGED <<rows, heads, blobs>>
  BY <1>3 DEF Prepare, journal
<1>4. CASE WriteDraft \/ RollBack
  BY <1>0, <1>4 DEF WriteDraft, RollBack, journal
<1>5. CASE RejectDraft
  <2>1. /\ tx \in Tx /\ tx # None /\ rows' = rows \cup tx.rows
        /\ UNCHANGED <<heads, blobs>>
    BY <1>5 DEF RejectDraft, Inv, Types
  <2>2. \A e \in tx.rows : ~(e.seq <= heads[e.stream].seq)
    <3>1. \A e \in tx.rows : e.stream = tx.stream /\ heads[tx.stream].seq < e.seq
                             /\ e.seq \in Nat /\ heads[tx.stream].seq \in Nat
      BY <2>1 DEF Inv, TxOK, Types, Tx, Row
    <3> QED BY <3>1
  <2>3. Accepted' = Accepted
    BY <2>1, <2>2 DEF Accepted
  <2> QED BY <2>1, <2>3
<1>6. CASE Commit
  BY <1>6, CommitExtends
<1>7. ASSUME NEW r \in Readers, Read(r) PROVE UNCHANGED <<rows, heads, blobs>>
  BY <1>7 DEF Read, journal
<1>8. ASSUME NEW r \in Readers, NEW s \in Streams, NEW k \in Keys, SetProjection(r, s, k)
      PROVE  UNCHANGED <<rows, heads, blobs>>
  BY <1>8 DEF SetProjection, journal
<1>9. ASSUME NEW b \in Blobs, PutBlob(b) \/ Redact(b) PROVE Log!Next
  <2>1. UNCHANGED Accepted
    BY <1>9 DEF PutBlob, Redact, journal, Accepted
  <2>2. gone \subseteq gone'
    BY <1>9 DEF PutBlob, Redact, Inv, Types
  <2>3. Log!Destroy
    BY <2>1, <2>2 DEF Log!Destroy
  <2> QED BY <2>3 DEF Log!Next
<1> HIDE DEF gone
<1> QED BY <1>0, <1>1, <1>2, <1>3, <1>4, <1>5, <1>6, <1>7, <1>8, <1>9 DEF Next, gone

\* What is accepted implements the append-only log: every accepted batch is
\* there whole and a refused one not at all, half written or not, and a
\* redacted content is gone for good.
THEOREM ImplementsLog == Spec => IsEventLog
<1>1. Init => Log!Init
  BY DEF Init, Log!Init, Accepted
<1>2. Inv /\ [Next]_vars
        => [Log!Next]_<<Accepted, {b \in Blobs : blobs[b] = "redacted"}>>
  BY StepRefines
<1> QED BY <1>1, <1>2, Invariance, PTL DEF Spec, IsEventLog, Log!Spec

-----------------------------------------------------------------------------
\* Where no batch has an oversized draft after another draft, the docstring of
\* _construir_y_escribir is true of every failure and crash: nothing is left
\* beyond a head, and the hypothesis of the two reading theorems holds.
THEOREM OnlyRefusalsLeave ==
  ASSUME \A batch \in Batches : \A i \in 2..Len(batch) : batch[i] \notin Oversized
  PROVE  Spec => []NothingBeyondHead
<1>1. ASSUME Inv PROVE NothingBeyondHead
  <2> SUFFICES ASSUME NEW e \in rows, ~(e.seq <= heads[e.stream].seq) PROVE FALSE
    BY DEF NothingBeyondHead
  <2>1. e.stream \in Streams /\ e.seq \in Nat /\ heads[e.stream].seq \in Nat
    BY <1>1 DEF Inv, Types, Row
  <2>2. e \in Beyond(e.stream)
    BY <2>1 DEF Beyond, OfStream
  <2>3. PICK batch \in Batches : \E k \in 1..(Len(batch) - 1) : batch[k + 1] \in Oversized
    BY <1>1, <2>1, <2>2 DEF Inv, ChainVerifies, RefusedHalf
  <2>4. PICK k \in 1..(Len(batch) - 1) : batch[k + 1] \in Oversized
    BY <2>3
  <2>5. k + 1 \in 2..Len(batch)
    BY BatchFits
  <2> QED BY <2>4, <2>5
<1> QED BY <1>1, Invariance, PTL

=============================================================================
