----------------------------- MODULE MCJobQueue -----------------------------
(* Instances of JobQueue for TLC. *)
EXTENDS JobQueue, TLC

(* Keys, workers and callers are interchangeable; used by the runs that    *)
(* check no liveness.                                                      *)
Symmetry == Permutations(Keys) \cup Permutations(Workers) \cup Permutations(Callers)
=============================================================================
