------------------------------ MODULE MCJobQueue ------------------------------
(* JobQueue with interchangeable workers, for the larger safety run.        *)
EXTENDS JobQueue, TLC

Symmetry == Permutations(Worker)
=============================================================================
