----------------------------- MODULE WorkerPool -----------------------------
(***************************************************************************)
(* The workers of JobQueue and the token they share: KeystoneTokenSource   *)
(* of internal/auth/auth.go, a cache under a mutex that is held during the *)
(* request to Keystone.  A job that carries no caller's token waits for    *)
(* the worker's own before its first backend call (headersForCredentials   *)
(* and WorkerHeaders).  Left out are the later calls of Token of the same  *)
(* job, and those of requests without credentials of their own: they take  *)
(* and give back the mutex in the same way, and change the cache only when *)
(* it is stale.                                                            *)
(***************************************************************************)
EXTENDS JobQueue

CONSTANTS
    Lifetimes,  \* how long the tokens of Keystone are valid, in ticks
    Margin,     \* Token renews a token that has no more than this left
    NoWorker    \* nobody

ASSUME TokenAssumption ==
    Lifetimes \subseteq Nat /\ Margin \in Nat /\ NoWorker \notin Workers

VARIABLES
    cached,  \* expires: when the cached token expires; 0 if there is none
    lock,    \* mu: who holds it
    token    \* token[w]: what worker w has of its token

pool     == <<cached, lock, token>>
poolVars == <<vars, cached, lock, token>>

PoolTypeOK ==
    /\ cached \in Nat
    /\ lock \in Workers \cup {NoWorker}
    /\ token \in [Workers -> {"none", "wanted", "fetching", "ready", "refused"}]

PoolInit ==
    /\ Init
    /\ cached = 0
    /\ lock = NoWorker
    /\ token = [w \in Workers |-> "none"]

Fresh == cached > now + Margin
-----------------------------------------------------------------------------
(* processJob begins: with the caller's headers, or with a call of Token.  *)
PoolStart(w) ==
    /\ Start(w)
    /\ token' = [token EXCEPT ![w] = IF worker[w].cred.auth THEN "ready" ELSE "wanted"]
    /\ UNCHANGED <<cached, lock>>

(* Mutant: the cache is looked at before the mutex is taken. *)
LockUnchecked(w) ==
    /\ token[w] = "wanted"
    /\ \/ Fresh /\ token' = [token EXCEPT ![w] = "ready"]
       \/ ~Fresh /\ token' = [token EXCEPT ![w] = "fetching"]
    /\ UNCHANGED <<vars, cached, lock>>

(* Token takes the mutex; a fresh token in the cache is returned at once,  *)
(* else the mutex is kept and Keystone is asked.                           *)
Lock(w) ==
    /\ token[w] = "wanted"
    /\ lock = NoWorker
    /\ \/ /\ Fresh
          /\ token' = [token EXCEPT ![w] = "ready"]
          /\ UNCHANGED lock
       \/ /\ ~Fresh
          /\ token' = [token EXCEPT ![w] = "fetching"]
          /\ lock' = w
    /\ UNCHANGED <<vars, cached>>

(* Mutants: the margin is taken off when the token is stored; an error     *)
(* returns with the mutex held.                                            *)
FetchEarly(w) ==
    /\ token[w] = "fetching"
    /\ lock' = NoWorker
    /\ \E life \in Lifetimes : cached' = now + life - Margin
    /\ token' = [token EXCEPT ![w] = "ready"]
    /\ UNCHANGED vars
FetchKeepsLock(w) ==
    /\ token[w] = "fetching"
    /\ \/ /\ \E life \in Lifetimes : cached' = now + life
          /\ token' = [token EXCEPT ![w] = "ready"]
          /\ lock' = NoWorker
       \/ /\ token' = [token EXCEPT ![w] = "refused"]
          /\ UNCHANGED <<cached, lock>>
    /\ UNCHANGED vars

(* Keystone's answer; an error of any kind leaves the cache as it was.     *)
(* Like the failure of a job it is bounded by the attempts of the jobs.    *)
Fetch(w) ==
    /\ token[w] = "fetching"
    /\ lock' = NoWorker
    /\ \/ /\ \E life \in Lifetimes : cached' = now + life
          /\ token' = [token EXCEPT ![w] = "ready"]
       \/ /\ token' = [token EXCEPT ![w] = "refused"]
          /\ UNCHANGED cached
    /\ UNCHANGED vars

(* Mutant: a job that got no token is dropped. *)
EndsUnmarked(w) ==
    /\ \/ token[w] = "ready" /\ (Succeed(w) \/ Fail(w))
       \/ /\ token[w] = "refused"
          /\ worker' = [worker EXCEPT ![w] = Idle]
          /\ UNCHANGED <<jobs, caller, now, faults>>
    /\ token' = [token EXCEPT ![w] = "none"]
    /\ UNCHANGED <<cached, lock>>

(* The job ends; it fails if there was no token. *)
Ends(w) ==
    /\ \/ token[w] = "ready" /\ (Succeed(w) \/ Fail(w))
       \/ token[w] = "refused" /\ Fail(w)
    /\ token' = [token EXCEPT ![w] = "none"]
    /\ UNCHANGED <<cached, lock>>

(* A new process has no token and no mutex. *)
PoolRestart ==
    /\ Restart
    /\ cached' = 0
    /\ lock' = NoWorker
    /\ token' = [w \in Workers |-> "none"]

PoolExecute(w) ==
    \/ Reject(w) /\ UNCHANGED pool
    \/ PoolStart(w)
    \/ Lock(w)
    \/ Fetch(w)
    \/ Ends(w)

PoolNext ==
    \/ \E c \in Callers : Enqueue(c) /\ UNCHANGED pool
    \/ \E w \in Workers : Claim(w) /\ UNCHANGED pool
    \/ \E w \in Workers : PoolExecute(w)
    \/ PoolRestart
    \/ Tick /\ UNCHANGED pool

PoolSpec == PoolInit /\ [][PoolNext]_poolVars

(* As in JobQueue; the client of Keystone has a timeout, so every request  *)
(* to it ends, and a mutex that is free is taken by one that waits for it. *)
PoolFairness ==
    /\ WF_vars(Tick)
    /\ \A w \in Workers :
          /\ WF_poolVars(Claim(w) /\ UNCHANGED pool)
          /\ WF_poolVars(PoolExecute(w))

PoolFairSpec == PoolSpec /\ PoolFairness
-----------------------------------------------------------------------------
(* However many workers want a token at once, Keystone is not asked for a  *)
(* token while there is a fresh one: those that waited for the mutex use   *)
(* what the one that held it has fetched.                                  *)
FetchedOnlyWhenStale == \A w \in Workers : token[w] = "fetching" => ~Fresh

(* The mutex is held exactly while its holder asks Keystone, whose job is  *)
(* in execution: no failure, restart or end of a job leaves it locked.     *)
LockIsUsed ==
    \A w \in Workers :
        /\ (lock = w) <=> (token[w] = "fetching")
        /\ (token[w] # "none") <=> (worker[w].pc = "processing")

(* Waiting for a token and getting none are steps of a job in execution:   *)
(* the pool does what JobQueue allows, and keeps all its promises.         *)
ImplementsQueue == Spec
=============================================================================
