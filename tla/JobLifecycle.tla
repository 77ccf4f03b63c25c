---------------------------- MODULE JobLifecycle ----------------------------
(***************************************************************************)
(* What the job queue promises to the workers that share it: a job is      *)
(* submitted once, is held by at most one worker at a time, is tried at    *)
(* most MaxAttempts times, is settled only by the worker that holds it,    *)
(* and is never touched again once it succeeded or was rejected.           *)
(*                                                                         *)
(* JobQueue implements this specification.                                 *)
(***************************************************************************)
EXTENDS Naturals

CONSTANTS
    Keys,         \* dedupe keys: at most one job per key
    Workers,      \* the goroutines that execute jobs
    MaxAttempts   \* how often a job may be tried

VARIABLES
    status,    \* status[k]: the status of the job with key k
    attempts,  \* attempts[k]: how often it was handed out
    owners     \* owners[k]: the workers that hold it

vars == <<status, attempts, owners>>

Queued == {"pending", "failed"}      \* may be handed out
Final  == {"succeeded", "rejected"}  \* over, and nothing changes it

Init ==
    /\ status = [k \in Keys |-> "absent"]
    /\ attempts = [k \in Keys |-> 0]
    /\ owners = [k \in Keys |-> {}]

(* A client or an operator asks for work that nobody asked for before. *)
Submit(k) ==
    /\ status[k] = "absent"
    /\ status' = [status EXCEPT ![k] = "pending"]
    /\ UNCHANGED <<attempts, owners>>

(* A worker that holds nothing takes a queued job that has attempts left. *)
Claim(k, w) ==
    /\ status[k] \in Queued
    /\ attempts[k] < MaxAttempts
    /\ owners[k] = {}
    /\ \A j \in Keys : w \notin owners[j]
    /\ status' = [status EXCEPT ![k] = "running"]
    /\ attempts' = [attempts EXCEPT ![k] = @ + 1]
    /\ owners' = [owners EXCEPT ![k] = {w}]

(* The holder, and nobody else, says how the attempt ended. *)
Settle(k, w) ==
    /\ status[k] = "running"
    /\ owners[k] = {w}
    /\ \E outcome \in Final \cup {"failed"} :
          status' = [status EXCEPT ![k] = outcome]
    /\ owners' = [owners EXCEPT ![k] = {}]
    /\ UNCHANGED attempts

(* Workers die, or fail to record an outcome: they hold nothing any more   *)
(* and the jobs they held stay "running".                                  *)
Abandon(W) ==
    /\ owners' = [k \in Keys |-> owners[k] \ W]
    /\ UNCHANGED <<status, attempts>>

Next ==
    \/ \E k \in Keys : Submit(k)
    \/ \E k \in Keys, w \in Workers : Claim(k, w) \/ Settle(k, w)
    \/ \E W \in SUBSET Workers : Abandon(W)

Spec == Init /\ [][Next]_vars
=============================================================================
