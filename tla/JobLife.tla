-------------------------------- MODULE JobLife --------------------------------
(***************************************************************************)
(* What the durable queue promises whoever submits a job: the job is       *)
(* pending until it ends, or until the relay gives up on publishing it,    *)
(* and neither verdict is ever taken back.                                 *)
(***************************************************************************)
CONSTANT Job
VARIABLE life

LifeTypeOK == life \in [Job -> {"absent", "pending", "ended", "lost"}]

Init == life = [j \in Job |-> "absent"]

Submit(j) == life[j] = "absent" /\ life' = [life EXCEPT ![j] = "pending"]
End(j) == life[j] = "pending" /\ life' = [life EXCEPT ![j] = "ended"]
\* One commit of the relay gives up on every exhausted row of its batch.
Lose(S) == /\ \A j \in S : life[j] = "pending"
           /\ life' = [j \in Job |-> IF j \in S THEN "lost" ELSE life[j]]

Next == \/ \E j \in Job : Submit(j) \/ End(j)
        \/ \E S \in SUBSET Job : Lose(S)

Spec == Init /\ [][Next]_life

\* No job stays pending for ever.
Resolves == \A j \in Job : (life[j] = "pending") ~> (life[j] \in {"ended", "lost"})
=============================================================================
