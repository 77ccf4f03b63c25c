------------------------- MODULE MCObjectMigration -------------------------
(* Instances of ObjectMigration for TLC. *)
EXTENDS ObjectMigration, TLC

(* Requests are interchangeable; used by the run that checks no liveness. *)
Symmetry == Permutations(Requests)

(* What later steps still read of a request: not the reply it was given,   *)
(* its token only up to the calls that use it, and what it has seen only   *)
(* if its reply can tell of an object, which is then Ceph's at the moment, *)
(* or the legacy one, or none.  States that differ in nothing else are the *)
(* same to the run that checks no liveness.                                *)
TokenPC == {"read", "fallback", "container", "exists", "ensure", "list"}
StillRead(r) ==
    [op |-> req[r].op, cephSaid |-> req[r].cephSaid,
     token |-> IF pc[r] \in TokenPC THEN req[r].token ELSE "none",
     seen  |-> IF req[r].op \in {"GET", "HEAD", "POST"}
              THEN seen[r] \cap {"source", "none"} ELSE {}]
View ==
    <<ceph, swift, pc, [r \in Requests |-> StillRead(r)],
      status, attempts, owners, dated, apart, faults>>
=============
