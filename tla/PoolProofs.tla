----------------------------- MODULE PoolProofs -----------------------------
(***************************************************************************)
(* What WorkerPool guarantees for every number of workers and every        *)
(* lifetime of a token: the pool implements JobQueue, so that the theorems *)
(* about the queue hold of it, and the shared token is locked and renewed  *)
(* as it should be.                                                        *)
(***************************************************************************)
EXTENDS WorkerPool, JobQueueProofs

(* The steps of the pool are steps of the queue, or leave it alone. *)
LEMMA PoolStepImplements == [PoolNext]_poolVars => [Next]_vars
  <1> SUFFICES ASSUME [PoolNext]_poolVars PROVE [Next]_vars
    OBVIOUS
  <1>1. ASSUME NEW w \in Workers, PoolExecute(w) PROVE [Next]_vars
    <2>1. CASE Reject(w) \/ PoolStart(w) \/ Ends(w)
      <3>1. Execute(w)
        BY <2>1 DEF PoolStart, Ends, Execute
      <3>2. QED
        BY <3>1 DEF Next
    <2>2. CASE Lock(w) \/ Fetch(w)
      BY <2>2 DEF Lock, Fetch
    <2>3. QED
      BY <1>1, <2>1, <2>2 DEF PoolExecute
  <1>2. CASE PoolRestart
    BY <1>2 DEF PoolRestart, Next
  <1>3. CASE UNCHANGED poolVars
    BY <1>3 DEF poolVars
  <1>4. QED
    BY <1>1, <1>2, <1>3 DEF PoolNext, Next

(* Whatever the workers do about their tokens is a step of a job in        *)
(* execution: the pool implements the queue.                               *)
THEOREM PoolImplementsQueue == PoolSpec => ImplementsQueue
  <1>1. PoolInit => Init
    BY DEF PoolInit
  <1>2. QED
    BY <1>1, PoolStepImplements, PTL DEF PoolSpec, Spec, ImplementsQueue

(* Hence its jobs keep every promise of JobLifecycle. *)
THEOREM PoolImplementsLifecycle == PoolSpec => ImplementsLifecycle
  BY PoolImplementsQueue, Refinement, PTL DEF ImplementsQueue

LEMMA PoolKeepsIInv == PoolSpec => []IInv
  BY PoolImplementsQueue, Invariance, PTL DEF ImplementsQueue
-----------------------------------------------------------------------------
(* How the steps of the queue change which workers execute a job.          *)
Processing(w) == worker[w].pc = "processing"

LEMMA OutdatedProcessing ==
    ASSUME NEW ws \in [Workers -> WorkerState], NEW w \in Workers
    PROVE  Outdated(ws)[w].pc = "processing" <=> ws[w].pc = "processing"
  BY OutdatedResult DEF Stale, Idle

LEMMA MarkEnds ==
    ASSUME TypeOK, NEW w \in Workers, NEW row, Mark(w, row)
    PROVE  /\ \A v \in Workers : Processing(v)' <=> (Processing(v) /\ v # w)
           /\ now' = now
  <1> DEFINE freed == [worker EXCEPT ![w] = Idle]
  <1>1. Idle \in WorkerState /\ Idle.pc = "idle"
    BY DEF Idle, WorkerState, Cred, NoCred
  <1>2. freed \in [Workers -> WorkerState]
    BY <1>1 DEF TypeOK
  <1>3. \A v \in Workers : freed[v].pc = "processing" <=> (Processing(v) /\ v # w)
    BY <1>1 DEF TypeOK, Processing
  <1>4. \A v \in Workers : Outdated(freed)[v].pc = "processing" <=> freed[v].pc = "processing"
    BY <1>2, OutdatedProcessing
  <1>5. worker' = Outdated(freed) \/ worker' = freed
    BY DEF Mark
  <1>6. QED
    BY <1>3, <1>4, <1>5 DEF Mark, Processing

LEMMA QueueLeavesProcessing ==
    ASSUME TypeOK,
           \/ \E c \in Callers : Enqueue(c)
           \/ \E w \in Workers : Claim(w) \/ Reject(w)
    PROVE  /\ \A v \in Workers : Processing(v)' <=> Processing(v)
           /\ now' = now
  <1>1. ASSUME NEW c \in Callers, Enqueue(c)
        PROVE  /\ \A v \in Workers : Processing(v)' <=> Processing(v)
               /\ now' = now
    <2>1. worker' = Outdated(worker) \/ worker' = worker
      BY <1>1 DEF Enqueue, EnqueueInsert, EnqueueSelect, EnqueueRefresh
    <2>2. now' = now
      BY <1>1 DEF Enqueue, EnqueueInsert, EnqueueSelect, EnqueueRefresh
    <2>3. QED
      BY <2>1, <2>2, OutdatedProcessing DEF TypeOK, Processing
  <1>2. ASSUME NEW w \in Workers, Claim(w)
        PROVE  /\ \A v \in Workers : Processing(v)' <=> Processing(v)
               /\ now' = now
    <2>1. CASE ClaimSelect(w) \/ ClaimAbort(w)
      BY <2>1 DEF ClaimSelect, ClaimAbort, TypeOK, WorkerState, Idle, Processing
    <2>2. CASE ClaimCommit(w)
      <3> DEFINE mine == [worker EXCEPT ![w].pc = "claimed", ![w].attempts = @ + 1]
      <3>1. mine \in [Workers -> WorkerState]
        <4>1. worker[w] \in WorkerState /\ worker[w].attempts + 1 \in Nat
          BY DEF TypeOK, WorkerState
        <4>2. [worker[w] EXCEPT !.pc = "claimed", !.attempts = @ + 1] \in WorkerState
          BY <4>1 DEF WorkerState
        <4>3. QED
          BY <4>2 DEF TypeOK
      <3>2. \A v \in Workers : mine[v].pc = "processing" <=> Processing(v)
        BY <2>2 DEF ClaimCommit, TypeOK, WorkerState, Processing
      <3>3. worker' = Outdated(mine) /\ now' = now
        BY <2>2 DEF ClaimCommit
      <3>4. \A v \in Workers : Outdated(mine)[v].pc = "processing" <=> mine[v].pc = "processing"
        BY <3>1, OutdatedProcessing
      <3>5. QED
        BY <3>2, <3>3, <3>4 DEF Processing
    <2>3. QED
      BY <1>2, <2>1, <2>2 DEF Claim
  <1>3. ASSUME NEW w \in Workers, Reject(w)
        PROVE  /\ \A v \in Workers : Processing(v)' <=> Processing(v)
               /\ now' = now
    <2>1. ~Processing(w)
      BY <1>3 DEF Reject, Processing
    <2>2. QED
      BY <1>3, <2>1, MarkEnds DEF Reject
  <1>4. QED
    BY <1>1, <1>2, <1>3

LEMMA StartBegins ==
    ASSUME TypeOK, NEW w \in Workers, Start(w)
    PROVE  /\ \A v \in Workers : Processing(v)' <=> (Processing(v) \/ v = w)
           /\ now' = now /\ ~Processing(w)
  BY DEF Start, TypeOK, WorkerState, Processing
-----------------------------------------------------------------------------
(* The inductive invariant of the token.  A worker that asks Keystone      *)
(* holds the mutex, so nobody else renews the token meanwhile, and the     *)
(* clock never makes a stale token fresh.                                  *)
PoolInv == PoolTypeOK /\ LockIsUsed /\ FetchedOnlyWhenStale

LEMMA PoolInvInit == PoolInit => PoolInv
  <1> SUFFICES ASSUME PoolInit PROVE PoolInv
    OBVIOUS
  <1>1. PoolTypeOK
    BY DEF PoolInit, PoolTypeOK
  <1>2. \A w \in Workers : worker[w].pc = "idle"
    BY DEF PoolInit, Init, Idle
  <1>3. LockIsUsed
    BY <1>2, TokenAssumption DEF PoolInit, LockIsUsed
  <1>4. FetchedOnlyWhenStale
    BY DEF PoolInit, FetchedOnlyWhenStale
  <1>5. QED
    BY <1>1, <1>3, <1>4 DEF PoolInv

(* The clock moves forward: a stale token stays stale. *)
LEMMA StaleStays ==
    ASSUME TypeOK, PoolTypeOK, ~Fresh, cached' = cached, now' \in Nat, now' >= now
    PROVE  ~Fresh'
  <1>1. now \in Nat /\ cached \in Nat /\ Margin \in Nat
    BY TokenAssumption, TimeAssumption DEF TypeOK, PoolTypeOK
  <1>2. \A t \in Nat : t >= now => ~(cached > t + Margin)
    BY <1>1 DEF Fresh
  <1>3. QED
    BY <1>1, <1>2 DEF Fresh

LEMMA OthersKeepPoolInv ==
    ASSUME TypeOK, PoolInv, UNCHANGED pool, now' \in Nat, now' >= now,
           \A v \in Workers : Processing(v)' <=> Processing(v)
    PROVE  PoolInv'
  <1>1. PoolTypeOK' /\ LockIsUsed'
    BY DEF PoolInv, PoolTypeOK, LockIsUsed, pool, Processing
  <1>2. FetchedOnlyWhenStale'
    BY StaleStays DEF PoolInv, FetchedOnlyWhenStale, pool
  <1>3. QED
    BY <1>1, <1>2 DEF PoolInv

LEMMA TokenStep ==
    ASSUME TypeOK, PoolInv, NEW w \in Workers, Lock(w) \/ Fetch(w)
    PROVE  PoolInv'
  <1> USE DEF PoolInv
  <1>1. CASE Lock(w)
    <2>1. PoolTypeOK'
      BY <1>1 DEF Lock, PoolTypeOK
    <2>2. LockIsUsed'
      BY <1>1, TokenAssumption DEF Lock, PoolTypeOK, LockIsUsed, vars
    <2>3. Fresh' = Fresh
      BY <1>1 DEF Lock, Fresh, vars
    <2>4. FetchedOnlyWhenStale'
      BY <1>1, <2>3 DEF Lock, PoolTypeOK, FetchedOnlyWhenStale
    <2>5. QED
      BY <2>1, <2>2, <2>4
  <1>2. CASE Fetch(w)
    <2>1. cached' \in Nat
      BY <1>2, TokenAssumption DEF Fetch, PoolTypeOK, TypeOK
    <2>2. PoolTypeOK'
      BY <1>2, <2>1 DEF Fetch, PoolTypeOK
    <2>3. \A v \in Workers : v # w => token[v] # "fetching"
      BY <1>2 DEF Fetch, LockIsUsed
    <2>4. LockIsUsed'
      BY <1>2, <2>3, TokenAssumption DEF Fetch, PoolTypeOK, LockIsUsed, vars
    <2>5. FetchedOnlyWhenStale'
      BY <1>2, <2>3 DEF Fetch, PoolTypeOK, FetchedOnlyWhenStale
    <2>6. QED
      BY <2>2, <2>4, <2>5
  <1>3. QED
    BY <1>1, <1>2

LEMMA JobStep ==
    ASSUME TypeOK, PoolInv, NEW w \in Workers, PoolStart(w) \/ Ends(w)
    PROVE  PoolInv'
  <1> USE DEF PoolInv
  <1>1. CASE PoolStart(w)
    <2>1. /\ \A v \in Workers : Processing(v)' <=> (Processing(v) \/ v = w)
          /\ now' = now /\ ~Processing(w)
      BY <1>1, StartBegins DEF PoolStart
    <2>2. token[w] = "none"
      BY <2>1 DEF LockIsUsed, Processing
    <2>3. token'[w] \in {"ready", "wanted"} /\ \A v \in Workers : v # w => token'[v] = token[v]
      BY <1>1 DEF PoolStart, PoolTypeOK
    <2>4. PoolTypeOK'
      BY <1>1 DEF PoolStart, PoolTypeOK
    <2>5. LockIsUsed'
      BY <1>1, <2>1, <2>2, <2>3 DEF PoolStart, LockIsUsed, Processing
    <2>6. FetchedOnlyWhenStale'
      BY <1>1, <2>1, <2>3 DEF PoolStart, FetchedOnlyWhenStale, Fresh
    <2>7. QED
      BY <2>4, <2>5, <2>6
  <1>2. CASE Ends(w)
    <2>1. /\ \A v \in Workers : Processing(v)' <=> (Processing(v) /\ v # w)
          /\ now' = now
      BY <1>2, MarkEnds DEF Ends, Succeed, Fail
    <2>2. token[w] \in {"ready", "refused"}
      BY <1>2 DEF Ends
    <2>3. token'[w] = "none" /\ \A v \in Workers : v # w => token'[v] = token[v]
      BY <1>2 DEF Ends, PoolTypeOK
    <2>4. PoolTypeOK'
      BY <1>2 DEF Ends, PoolTypeOK
    <2>5. LockIsUsed'
      BY <1>2, <2>1, <2>2, <2>3 DEF Ends, LockIsUsed, Processing
    <2>6. FetchedOnlyWhenStale'
      BY <1>2, <2>1, <2>3 DEF Ends, FetchedOnlyWhenStale, Fresh
    <2>7. QED
      BY <2>4, <2>5, <2>6
  <1>3. QED
    BY <1>1, <1>2

LEMMA PoolRestartStep ==
    ASSUME PoolRestart
    PROVE  PoolInv'
  <1>1. \A w \in Workers : worker'[w].pc = "idle"
    BY DEF PoolRestart, Restart, Idle
  <1>2. PoolTypeOK'
    BY DEF PoolRestart, PoolTypeOK
  <1>3. LockIsUsed'
    BY <1>1, TokenAssumption DEF PoolRestart, LockIsUsed
  <1>4. FetchedOnlyWhenStale'
    BY DEF PoolRestart, FetchedOnlyWhenStale
  <1>5. QED
    BY <1>2, <1>3, <1>4 DEF PoolInv

LEMMA PoolInvStep == TypeOK /\ PoolInv /\ [PoolNext]_poolVars => PoolInv'
  <1> SUFFICES ASSUME TypeOK, PoolInv, [PoolNext]_poolVars PROVE PoolInv'
    OBVIOUS
  <1>1. now \in Nat
    BY DEF TypeOK
  <1>2. ASSUME UNCHANGED pool,
               \/ \E c \in Callers : Enqueue(c)
               \/ \E w \in Workers : Claim(w) \/ Reject(w)
        PROVE  PoolInv'
    BY <1>1, <1>2, QueueLeavesProcessing, OthersKeepPoolInv
  <1>3. CASE Tick /\ UNCHANGED pool
    <2>1. /\ now' = now + 1
          /\ \A v \in Workers : Processing(v)' <=> Processing(v)
      BY <1>3 DEF Tick, Processing
    <2>2. QED
      BY <1>1, <1>3, <2>1, OthersKeepPoolInv
  <1>4. CASE UNCHANGED poolVars
    <2>1. now' = now /\ UNCHANGED pool /\ \A v \in Workers : Processing(v)' <=> Processing(v)
      BY <1>4 DEF poolVars, pool, vars, Processing
    <2>2. QED
      BY <1>1, <2>1, OthersKeepPoolInv
  <1>5. CASE PoolRestart
    BY <1>5, PoolRestartStep
  <1>6. ASSUME NEW w \in Workers, PoolExecute(w) PROVE PoolInv'
    BY <1>2, <1>6, TokenStep, JobStep DEF PoolExecute
  <1>7. QED
    BY <1>2, <1>3, <1>4, <1>5, <1>6 DEF PoolNext

LEMMA PoolInvariance == PoolSpec => []PoolInv
  <1>1. IInv => TypeOK
    BY DEF IInv
  <1>2. QED
    BY <1>1, PoolInvInit, PoolInvStep, PoolKeepsIInv, PTL DEF PoolSpec

(* The cache, the mutex and the workers' tokens keep their types. *)
THEOREM PoolTypeCorrect == PoolSpec => []PoolTypeOK
  <1>1. PoolInv => PoolTypeOK
    BY DEF PoolInv
  <1>2. QED
    BY <1>1, PoolInvariance, PTL

(* The mutex is held exactly while its holder asks Keystone for a job in   *)
(* execution: nothing leaves it locked.                                    *)
THEOREM TheLockIsUsed == PoolSpec => []LockIsUsed
  <1>1. PoolInv => LockIsUsed
    BY DEF PoolInv
  <1>2. QED
    BY <1>1, PoolInvariance, PTL

(* However many workers wait for a token, Keystone is never asked for one  *)
(* while there is a fresh one.                                             *)
THEOREM RenewedOnlyWhenStale == PoolSpec => []FetchedOnlyWhenStale
  <1>1. PoolInv => FetchedOnlyWhenStale
    BY DEF PoolInv
  <1>2. QED
    BY <1>1, PoolInvariance, PTL
=============================================================================
