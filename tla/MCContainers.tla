---------------------------- MODULE MCContainers ----------------------------
(* Instances of Containers for TLC. *)
EXTENDS Containers, TLC

(* Requests are interchangeable. *)
Symmetry == Permutations(Requests)

(* What later steps still read; states that differ in nothing else are the *)
(* same to TLC.  The source is read until it is gone and nobody has to     *)
(* synchronise what it was.  Of the answers so far a deletion reads none   *)
(* that its next call replaces, and the reply that was given is read by    *)
(* none.                                                                   *)
SourceRead ==
    swift # "absent" \/ \E p \in Procs : pc[p] \in {"putTarget", "postTarget", "verify"}
Source == IF SourceRead THEN <<legacy, owner>> ELSE <<>>
Told(r) ==
    [req[r] EXCEPT !.reply = "pending", !.said = IF pc[r] = "deleteCeph" THEN "nothing" ELSE @]

(* Of what a process has seen: of the causes for a synchronisation to fail *)
(* whether there was one, unless the owner is one for good; of the reasons *)
(* for a "not found" whether there was one.  A deletion sees itself why it *)
(* answers anything else.                                                  *)
Cause(p)   ==
    IF SourceRead /\ owner /\ seen[p] \cap {"deleted", "removed"} # {} THEN {"cause"} ELSE {}
Missing(p) == IF seen[p] \cap {"none", "deleted"} # {} THEN {"none"} ELSE {}
Reasons(p) ==
    CASE p \in Copiers     -> {}
      [] req[p].op = "PUT" -> IF swift = "absent" THEN {} ELSE seen[p] \cap {"deleted"}
      [] req[p].op # "PUT" -> Missing(p)
SaidWhy(r) ==
    CASE req[r].said = "conflict"         -> {"conflict"}
      [] req[r].said \in {"ok", "absent"} -> {"notInCeph"}
      [] req[r].said = "refused"          -> {}
StillRead(p) ==
    CASE pc[p] \in {"exists"} \cup EnsurePC -> Cause(p) \cup Reasons(p)
      [] pc[p] \in {"write", "headCeph", "headSwift", "listCeph", "listSwift"} -> Reasons(p)
      [] pc[p] = "deleteSwift" -> seen[p] \cap SaidWhy(p)
      [] pc[p] \in {"deleteCeph", "idle"} \cup CopyPC -> {}
View ==
    <<ceph, swift, Source, pc, [r \in Requests |-> Told(r)],
      [p \in Procs |-> StillRead(p)], faults>>
=============================================================================
