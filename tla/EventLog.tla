------------------------------ MODULE EventLog ------------------------------
(***************************************************************************)
(* What the journal promises: an append-only set of events in streams, that *)
(* grows by whole batches, each later than everything before it, and a set   *)
(* of contents destroyed for good.                                           *)
(***************************************************************************)
EXTENDS Integers, Sequences

CONSTANTS Streams, Batches
VARIABLES log, gone

Init == log = {} /\ gone = {}

\* The number of the last event of a stream numbered from 1 without a gap.
IsLast(s, n) == {e.seq : e \in {x \in log : x.stream = s}} = 1..n

\* One batch extends one stream, in its order, right after the last event.
Extend(s, batch) ==
  LET new == log' \ log
  IN /\ log \subseteq log'
     /\ \E n \in {0} \cup {e.seq : e \in log} :
          /\ IsLast(s, n)
          /\ {<<e.stream, e.seq, e.body>> : e \in new}
               = {<<s, n + i, batch[i]>> : i \in 1..Len(batch)}
     /\ \A e, o \in new : e.seq = o.seq => e = o
     /\ \A e \in new, o \in log : o.lamport < e.lamport
     /\ UNCHANGED gone

Destroy == gone \subseteq gone' /\ UNCHANGED log

Next == Destroy \/ \E s \in Streams, batch \in Batches : Extend(s, batch)

Spec == Init /\ [][Next]_<<log, gone>>
=============================================================================
