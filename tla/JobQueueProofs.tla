--------------------------- MODULE JobQueueProofs ---------------------------
(***************************************************************************)
(* What JobQueue guarantees for every number of keys, workers, callers,    *)
(* attempts and faults: IInv is inductive, and the safety properties and   *)
(* the action properties of the queue follow from it.                      *)
(***************************************************************************)
EXTENDS JobQueue, TLAPS

(* A commit ends the snapshots of open claims and changes nothing else. *)
LEMMA OutdatedResult ==
    ASSUME NEW ws \in [Workers -> WorkerState], NEW w \in Workers
    PROVE  /\ Outdated(ws) \in [Workers -> WorkerState]
           /\ Outdated(ws)[w].pc # "selected"
           /\ ws[w].pc # "selected" => Outdated(ws)[w] = ws[w]
           /\ ws[w].pc = "selected" => Outdated(ws)[w] = Stale
  <1>1. Stale \in WorkerState
    BY DEF Stale, Idle, WorkerState, Cred, NoCred
  <1>2. QED
    BY <1>1 DEF Outdated, Stale, Idle, WorkerState

(* The wait before a retry is a time on the model's clock. *)
LEMMA BackoffResult ==
    ASSUME NEW t \in 0..MaxTime, NEW n \in 0..MaxAttempts
    PROVE  Horizon(t + Backoff(n)) \in Nat
  <1>1. Backoff(n) \in Nat
    <2>1. CASE n > 1
      <3>1. n - 1 \in 0..MaxAttempts
        BY <2>1, MaxAttemptsAssumption
      <3>2. QED
        BY <2>1, <3>1, BackoffAssumption DEF Backoff
    <2>2. CASE ~(n > 1)
      <3>1. 0 \in 0..MaxAttempts
        BY MaxAttemptsAssumption
      <3>2. QED
        BY <2>2, <3>1, BackoffAssumption DEF Backoff
    <2>3. QED
      BY <2>1, <2>2
  <1>2. QED
    BY <1>1, TimeAssumption DEF Horizon

LEMMA IncomingResult == Incoming \subseteq Cred
  <1>1. NoCred \in Cred
    BY DEF NoCred, Cred
  <1>2. [auth : {TRUE}, expiry : Expiries \cup {NoExpiry}] \subseteq Cred
    <2>1. {TRUE} \subseteq BOOLEAN
      OBVIOUS
    <2>2. QED
      BY <2>1 DEF Cred
  <1>3. QED
    BY <1>1, <1>2 DEF Incoming

LEMMA InitIInv == Init => IInv
  <1> SUFFICES ASSUME Init PROVE IInv
    OBVIOUS
  <1>1. NoCred \in Cred /\ NoRow \in Row /\ Idle \in WorkerState /\ AtRest \in CallerState
    BY DEF NoCred, Cred, NoRow, Row, JobStatus, Queued, Final, Idle, WorkerState, AtRest, CallerState
  <1>2. TypeOK
    BY <1>1, TimeAssumption, FaultsAssumption DEF Init, TypeOK
  <1>3. \A k \in Keys : jobs[k] = NoRow
    BY DEF Init
  <1>4. \A w \in Workers : worker[w].pc = "idle"
    BY DEF Init, Idle
  <1>5. \A c \in Callers : caller[c] = AtRest
    BY DEF Init
  <1>6. SelectedIsCurrent /\ RestingWorker /\ HolderSeesItsClaim /\ ExclusiveClaim
    BY <1>4 DEF SelectedIsCurrent, RestingWorker, HolderSeesItsClaim, ExclusiveClaim, Busy
  <1>7. WaitingCaller
    BY <1>5 DEF WaitingCaller, AtRest
  <1>8. AbsentIsBlank /\ AttemptsBounded /\ OrphanNeedsFault
    BY <1>3, MaxAttemptsAssumption DEF AbsentIsBlank, AttemptsBounded, OrphanNeedsFault, NoRow
  <1>9. TokenHasExpiry
    BY <1>3, <1>5 DEF TokenHasExpiry, Judgeable, Enqueueable, NoRow, AtRest, NoCred
  <1>10. QED
    BY <1>2, <1>6, <1>7, <1>8, <1>9 DEF IInv
-----------------------------------------------------------------------------
(* One lemma per group of actions: each preserves the inductive invariant. *)

LEMMA EnqueueInsertStep ==
    ASSUME IInv, NEW c \in Callers, EnqueueInsert(c)
    PROVE  IInv'
  <1> USE DEF IInv
  <1>1. PICK k \in Keys, cred \in Incoming :
           /\ Enqueueable(cred)
           /\ \/ /\ jobs[k].status = "absent"
                 /\ jobs' = [jobs EXCEPT ![k] =
                       [status |-> "pending", attempts |-> 0,
                        cred |-> cred, nextRun |-> now]]
                 /\ worker' = Outdated(worker)
                 /\ NoFault
                 /\ UNCHANGED caller
              \/ /\ IF jobs[k].status = "absent" THEN Fault ELSE NoFault
                 /\ caller' = [caller EXCEPT ![c] =
                       [pc |-> "conflict", key |-> k, cred |-> cred]]
                 /\ UNCHANGED <<jobs, worker>>
    BY DEF EnqueueInsert
  <1>2. cred \in Cred
    BY IncomingResult
  <1>3. now' = now /\ now \in Nat
    BY TimeAssumption DEF EnqueueInsert, TypeOK
  <1>4. CASE /\ jobs[k].status = "absent"
             /\ jobs' = [jobs EXCEPT ![k] =
                   [status |-> "pending", attempts |-> 0,
                    cred |-> cred, nextRun |-> now]]
             /\ worker' = Outdated(worker)
             /\ NoFault
             /\ UNCHANGED caller
    <2> DEFINE row == [status |-> "pending", attempts |-> 0, cred |-> cred, nextRun |-> now]
    <2>1. row \in Row
      BY <1>2, <1>3 DEF Row, JobStatus, Queued, Final
    <2>2. jobs'[k] = row /\ \A j \in Keys : j # k => jobs'[j] = jobs[j]
      BY <1>4 DEF TypeOK
    <2>3. \A w \in Workers :
             /\ worker'[w].pc # "selected"
             /\ worker[w].pc # "selected" => worker'[w] = worker[w]
             /\ worker[w].pc = "selected" => worker'[w] = Stale
      BY <1>4, OutdatedResult DEF TypeOK
    <2>4. Stale.pc = "stale"
      BY DEF Stale, Idle
    <2>5. \A w \in Workers : Busy(w)' => Busy(w) /\ worker'[w] = worker[w]
      BY <2>3, <2>4 DEF Busy
    <2>6. \A w \in Workers : Busy(w) => Busy(w)' /\ worker'[w] = worker[w]
      BY <2>3 DEF Busy
    <2>7. \A w \in Workers : Busy(w) => worker[w].key # k
      BY <1>4 DEF HolderSeesItsClaim
    <2> HIDE DEF row
    <2>8. TypeOK'
      <3>1. jobs' \in [Keys -> Row]
        BY <1>4, <2>1 DEF TypeOK, row
      <3>2. worker' \in [Workers -> WorkerState]
        BY <1>4, OutdatedResult DEF TypeOK, Outdated
      <3>3. QED
        BY <1>3, <1>4, <3>1, <3>2 DEF TypeOK, NoFault
    <2>9. SelectedIsCurrent'
      BY <2>3 DEF SelectedIsCurrent
    <2>10. RestingWorker' /\ ExclusiveClaim'
      BY <2>5 DEF RestingWorker, ExclusiveClaim
    <2>11. HolderSeesItsClaim'
      BY <2>2, <2>5, <2>7 DEF HolderSeesItsClaim, RestingWorker
    <2>12. WaitingCaller'
      BY <1>4, <2>2 DEF WaitingCaller, row
    <2>13. AbsentIsBlank' /\ AttemptsBounded'
      BY <2>2, MaxAttemptsAssumption DEF AbsentIsBlank, AttemptsBounded, row
    <2>14. OrphanNeedsFault'
      BY <1>4, <2>2, <2>6 DEF OrphanNeedsFault, Owned, NoFault, row
    <2>15. TokenHasExpiry'
      BY <1>1, <1>4, <2>2 DEF TokenHasExpiry, Judgeable, Enqueueable, row
    <2>16. QED
      BY <2>8, <2>9, <2>10, <2>11, <2>12, <2>13, <2>14, <2>15
  <1>5. CASE /\ IF jobs[k].status = "absent" THEN Fault ELSE NoFault
             /\ caller' = [caller EXCEPT ![c] =
                   [pc |-> "conflict", key |-> k, cred |-> cred]]
             /\ UNCHANGED <<jobs, worker>>
    <2>1. faults' \in 0..MaxFaults /\ (faults' = 0 => faults = 0)
      BY <1>5, FaultsAssumption DEF TypeOK, Fault, NoFault
    <2>2. caller'[c] = [pc |-> "conflict", key |-> k, cred |-> cred]
          /\ \A d \in Callers : d # c => caller'[d] = caller[d]
      BY <1>5 DEF TypeOK
    <2>3. TypeOK'
      BY <1>2, <1>3, <1>5, <2>1 DEF TypeOK, CallerState
    <2>4. WaitingCaller' /\ TokenHasExpiry'
      BY <1>1, <1>5, <2>2 DEF WaitingCaller, TokenHasExpiry, Judgeable, Enqueueable
    <2>5. QED
      BY <1>5, <2>1, <2>3, <2>4 DEF SelectedIsCurrent, RestingWorker, AbsentIsBlank,
         HolderSeesItsClaim, ExclusiveClaim, AttemptsBounded, OrphanNeedsFault, Owned, Busy
  <1>6. QED
    BY <1>1, <1>4, <1>5

LEMMA EnqueueSelectStep ==
    ASSUME IInv, NEW c \in Callers, EnqueueSelect(c)
    PROVE  IInv'
  <1> USE DEF IInv
  <1>1. UNCHANGED <<jobs, worker, now>> /\ caller[c].pc = "conflict"
    BY DEF EnqueueSelect
  <1>2. faults' \in 0..MaxFaults /\ (faults' = 0 => faults = 0)
    BY FaultsAssumption DEF EnqueueSelect, TypeOK, Fault, NoFault
  <1>3. AtRest \in CallerState
    BY DEF AtRest, CallerState, NoCred, Cred
  <1>4. /\ \A d \in Callers : d # c => caller'[d] = caller[d]
        /\ caller'[c] \in CallerState
        /\ caller' \in [Callers -> CallerState]
        /\ \/ caller'[c] = AtRest
           \/ /\ caller'[c].pc = "refresh"
              /\ caller'[c].key = caller[c].key
              /\ caller'[c].cred = caller[c].cred
              /\ caller[c].cred.auth
              /\ jobs[caller[c].key].status # "absent"
    BY <1>1, <1>3 DEF EnqueueSelect, ShouldRefresh, TypeOK, CallerState
  <1>5. TypeOK'
    BY <1>1, <1>2, <1>4 DEF TypeOK
  <1>6. WaitingCaller'
    BY <1>1, <1>4 DEF WaitingCaller, AtRest
  <1>7. TokenHasExpiry'
    BY <1>1, <1>4 DEF TokenHasExpiry, Judgeable, Enqueueable, AtRest, NoCred
  <1>8. QED
    BY <1>1, <1>2, <1>5, <1>6, <1>7 DEF SelectedIsCurrent, RestingWorker, AbsentIsBlank,
       HolderSeesItsClaim, ExclusiveClaim, AttemptsBounded, OrphanNeedsFault, Owned, Busy

LEMMA EnqueueRefreshStep ==
    ASSUME IInv, NEW c \in Callers, EnqueueRefresh(c)
    PROVE  IInv'
  <1> USE DEF IInv
  <1> DEFINE k == caller[c].key
  <1>1. /\ caller[c].pc = "refresh" /\ now' = now
        /\ caller' = [caller EXCEPT ![c] = AtRest]
        /\ k \in Keys /\ jobs[k].status # "absent"
    BY DEF EnqueueRefresh, WaitingCaller
  <1>2. /\ caller' \in [Callers -> CallerState]
        /\ caller'[c] = AtRest
        /\ \A d \in Callers : d # c => caller'[d] = caller[d]
    BY <1>1 DEF TypeOK, AtRest, CallerState, NoCred, Cred
  <1>3. faults' \in 0..MaxFaults /\ (faults' = 0 => faults = 0)
    BY FaultsAssumption DEF EnqueueRefresh, TypeOK, Fault, NoFault
  <1>4. CASE /\ jobs' = [jobs EXCEPT ![k].cred = caller[c].cred]
             /\ worker' = Outdated(worker)
    <2>1. caller[c].cred \in Cred
      BY DEF TypeOK, CallerState
    <2>2. /\ jobs' \in [Keys -> Row]
          /\ \A j \in Keys : j # k => jobs'[j] = jobs[j]
          /\ jobs'[k].cred = caller[c].cred
          /\ jobs'[k].status = jobs[k].status
          /\ jobs'[k].attempts = jobs[k].attempts
      BY <1>1, <1>4, <2>1 DEF TypeOK, Row
    <2>3. \A j \in Keys : jobs'[j].status = jobs[j].status /\ jobs'[j].attempts = jobs[j].attempts
      BY <2>2
    <2>4. \A w \in Workers :
             /\ worker'[w].pc # "selected"
             /\ worker[w].pc # "selected" => worker'[w] = worker[w]
             /\ worker[w].pc = "selected" => worker'[w] = Stale
      BY <1>4, OutdatedResult DEF TypeOK
    <2>5. Stale.pc = "stale"
      BY DEF Stale, Idle
    <2>6. \A w \in Workers : (Busy(w)' <=> Busy(w)) /\ (Busy(w) => worker'[w] = worker[w])
      BY <2>4, <2>5 DEF Busy
    <2> HIDE DEF k
    <2>7. TypeOK'
      <3>1. worker' \in [Workers -> WorkerState]
        BY <1>4, OutdatedResult DEF TypeOK, Outdated
      <3>2. QED
        BY <1>1, <1>2, <1>3, <2>2, <3>1 DEF TypeOK
    <2>8. SelectedIsCurrent'
      BY <2>4 DEF SelectedIsCurrent
    <2>9. RestingWorker' /\ ExclusiveClaim'
      BY <2>6 DEF RestingWorker, ExclusiveClaim
    <2>10. HolderSeesItsClaim'
      BY <2>3, <2>6 DEF HolderSeesItsClaim, RestingWorker
    <2>11. WaitingCaller'
      BY <1>2, <2>3 DEF WaitingCaller, AtRest
    <2>12. AbsentIsBlank' /\ AttemptsBounded'
      BY <1>1, <2>2, <2>3 DEF AbsentIsBlank, AttemptsBounded
    <2>13. OrphanNeedsFault'
      BY <1>3, <2>3, <2>6 DEF OrphanNeedsFault, Owned
    <2>14. TokenHasExpiry'
      BY <1>1, <1>2, <2>2 DEF TokenHasExpiry, Judgeable, Enqueueable, AtRest, NoCred
    <2>15. QED
      BY <2>7, <2>8, <2>9, <2>10, <2>11, <2>12, <2>13, <2>14
  <1>5. CASE UNCHANGED <<jobs, worker>>
    <2>1. TypeOK'
      BY <1>1, <1>2, <1>3, <1>5 DEF TypeOK
    <2>2. WaitingCaller' /\ TokenHasExpiry'
      BY <1>2, <1>5 DEF WaitingCaller, TokenHasExpiry, Judgeable, Enqueueable, AtRest, NoCred
    <2>3. QED
      BY <1>3, <1>5, <2>1, <2>2 DEF SelectedIsCurrent, RestingWorker, AbsentIsBlank,
         HolderSeesItsClaim, ExclusiveClaim, AttemptsBounded, OrphanNeedsFault, Owned, Busy
  <1>6. QED
    BY <1>4, <1>5 DEF EnqueueRefresh

LEMMA ClaimSelectStep ==
    ASSUME IInv, NEW w \in Workers, ClaimSelect(w)
    PROVE  IInv'
  <1> USE DEF IInv
  <1>1. PICK k \in Keys :
           /\ Ready(k)
           /\ worker' = [worker EXCEPT ![w] =
                 [pc |-> "selected", key |-> k,
                  attempts |-> jobs[k].attempts, cred |-> jobs[k].cred]]
    BY DEF ClaimSelect
  <1>2. UNCHANGED <<jobs, caller, now, faults>> /\ worker[w].pc = "idle"
    BY DEF ClaimSelect
  <1>3. /\ worker'[w] = [pc |-> "selected", key |-> k,
                         attempts |-> jobs[k].attempts, cred |-> jobs[k].cred]
        /\ \A v \in Workers : v # w => worker'[v] = worker[v]
    BY <1>1 DEF TypeOK
  <1>4. \A v \in Workers : (Busy(v)' <=> Busy(v)) /\ (Busy(v) => worker'[v] = worker[v])
    BY <1>2, <1>3 DEF Busy
  <1>5. TypeOK'
    <2>1. jobs[k].attempts \in Nat /\ jobs[k].cred \in Cred
      BY DEF TypeOK, Row
    <2>2. QED
      BY <1>1, <1>2, <2>1 DEF TypeOK, WorkerState
  <1>6. SelectedIsCurrent'
    BY <1>1, <1>2, <1>3 DEF SelectedIsCurrent, Ready
  <1>7. QED
    BY <1>2, <1>4, <1>5, <1>6 DEF RestingWorker, WaitingCaller, AbsentIsBlank, HolderSeesItsClaim,
       ExclusiveClaim, AttemptsBounded, OrphanNeedsFault, Owned, TokenHasExpiry

LEMMA ClaimCommitStep ==
    ASSUME IInv, NEW w \in Workers, ClaimCommit(w)
    PROVE  IInv'
  <1> USE DEF IInv
  <1> DEFINE k  == worker[w].key
             ws == [worker EXCEPT ![w].pc = "claimed", ![w].attempts = @ + 1]
  <1>1. /\ k \in Keys /\ jobs[k].status \in Queued
        /\ jobs[k].attempts = worker[w].attempts
        /\ worker[w].attempts \in Nat /\ worker[w].attempts < MaxAttempts
        /\ worker[w].pc = "selected"
        /\ UNCHANGED <<caller, now, faults>>
    BY DEF ClaimCommit, SelectedIsCurrent, TypeOK, WorkerState
  <1>2. /\ jobs' \in [Keys -> Row]
        /\ \A j \in Keys : j # k => jobs'[j] = jobs[j]
        /\ jobs'[k].status = "running"
        /\ jobs'[k].attempts = worker[w].attempts + 1
        /\ jobs'[k].cred = jobs[k].cred
    BY <1>1 DEF ClaimCommit, TypeOK, Row, JobStatus
  <1>3. /\ ws \in [Workers -> WorkerState]
        /\ ws[w].pc = "claimed" /\ ws[w].key = k
        /\ ws[w].attempts = worker[w].attempts + 1
        /\ \A v \in Workers : v # w => ws[v] = worker[v]
    <2>1. worker[w] \in WorkerState /\ worker \in [Workers -> WorkerState]
      BY DEF TypeOK
    <2> DEFINE rec == [worker[w] EXCEPT !.pc = "claimed", !.attempts = @ + 1]
    <2>2. /\ rec.pc = "claimed" /\ rec.key = k
          /\ rec.attempts = worker[w].attempts + 1
      BY <1>1, <2>1 DEF WorkerState
    <2>3. rec \in WorkerState
      <3> DEFINE mid == [worker[w] EXCEPT !.pc = "claimed"]
      <3>1. mid \in WorkerState
        BY <2>1 DEF WorkerState
      <3> HIDE DEF mid
      <3>2. [mid EXCEPT !.attempts = worker[w].attempts + 1] \in WorkerState
        BY <1>1, <3>1 DEF WorkerState
      <3>3. QED
        BY <3>2 DEF mid
    <2>4. ws = [worker EXCEPT ![w] = rec]
      BY <2>1
    <2> HIDE DEF rec
    <2>5. QED
      BY <2>1, <2>2, <2>3, <2>4
  <1>4. worker' = Outdated(ws)
    BY DEF ClaimCommit
  <1> HIDE DEF k, ws
  <1>5. worker'[w] = ws[w]
    BY <1>3, <1>4, OutdatedResult
  <1>6. \A v \in Workers : v # w =>
           /\ worker'[v].pc # "selected"
           /\ worker[v].pc # "selected" => worker'[v] = worker[v]
           /\ worker[v].pc = "selected" => worker'[v] = Stale
    BY <1>3, <1>4, OutdatedResult
  <1>7. Stale.pc = "stale"
    BY DEF Stale, Idle
  <1>8. \A v \in Workers : v # w => (Busy(v)' <=> Busy(v)) /\ (Busy(v) => worker'[v] = worker[v])
    BY <1>6, <1>7 DEF Busy
  <1>9. Busy(w)' /\ ~Busy(w)
    BY <1>1, <1>3, <1>5 DEF Busy
  <1>10. \A v \in Workers : Busy(v) => worker[v].key # k
    BY <1>1 DEF HolderSeesItsClaim, Queued
  <1>11. TypeOK'
    <2>1. worker' \in [Workers -> WorkerState]
      BY <1>3, <1>4, OutdatedResult DEF Outdated
    <2>2. QED
      BY <1>1, <1>2, <2>1 DEF TypeOK
  <1>12. SelectedIsCurrent'
    BY <1>3, <1>5, <1>6 DEF SelectedIsCurrent
  <1>13. RestingWorker'
    BY <1>1, <1>3, <1>5, <1>8 DEF RestingWorker
  <1>14. HolderSeesItsClaim'
    BY <1>2, <1>3, <1>5, <1>8, <1>10 DEF HolderSeesItsClaim, RestingWorker
  <1>15. ExclusiveClaim'
    BY <1>3, <1>5, <1>8, <1>10 DEF ExclusiveClaim
  <1>16. AttemptsBounded'
    BY <1>1, <1>2, MaxAttemptsAssumption DEF AttemptsBounded
  <1>17. OrphanNeedsFault'
    BY <1>1, <1>2, <1>3, <1>5, <1>8, <1>9 DEF OrphanNeedsFault, Owned
  <1>18. WaitingCaller'
    BY <1>1, <1>2 DEF WaitingCaller
  <1>19. AbsentIsBlank' /\ TokenHasExpiry'
    BY <1>1, <1>2 DEF AbsentIsBlank, TokenHasExpiry, Judgeable, Enqueueable
  <1>20. QED
    BY <1>11, <1>12, <1>13, <1>14, <1>15, <1>16, <1>17, <1>18, <1>19

LEMMA ClaimAbortStep ==
    ASSUME IInv, NEW w \in Workers, ClaimAbort(w)
    PROVE  IInv'
  <1> USE DEF IInv
  <1>1. /\ UNCHANGED <<jobs, caller, now>>
        /\ worker' = [worker EXCEPT ![w] = Idle]
        /\ ~Busy(w)
    BY DEF ClaimAbort, Busy
  <1>2. faults' \in 0..MaxFaults /\ (faults' = 0 => faults = 0)
    BY FaultsAssumption DEF ClaimAbort, TypeOK, Fault, NoFault
  <1>3. /\ worker' \in [Workers -> WorkerState]
        /\ worker'[w].pc = "idle"
        /\ \A v \in Workers : v # w => worker'[v] = worker[v]
    BY <1>1 DEF TypeOK, Idle, WorkerState, NoCred, Cred
  <1>4. \A v \in Workers : (Busy(v)' <=> Busy(v)) /\ (Busy(v) => worker'[v] = worker[v])
    BY <1>1, <1>3 DEF Busy
  <1>5. TypeOK' /\ SelectedIsCurrent'
    BY <1>1, <1>2, <1>3 DEF TypeOK, SelectedIsCurrent
  <1>6. QED
    BY <1>1, <1>2, <1>4, <1>5 DEF RestingWorker, WaitingCaller, AbsentIsBlank, HolderSeesItsClaim,
       ExclusiveClaim, AttemptsBounded, OrphanNeedsFault, Owned, TokenHasExpiry

LEMMA StartStep ==
    ASSUME IInv, NEW w \in Workers, Start(w)
    PROVE  IInv'
  <1> USE DEF IInv
  <1>1. UNCHANGED <<jobs, caller, now, faults>> /\ worker[w].pc = "claimed"
    BY DEF Start
  <1>2. /\ worker' \in [Workers -> WorkerState]
        /\ worker'[w].pc = "processing"
        /\ worker'[w].key = worker[w].key
        /\ worker'[w].attempts = worker[w].attempts
        /\ \A v \in Workers : v # w => worker'[v] = worker[v]
    BY DEF Start, TypeOK, WorkerState
  <1>3. \A v \in Workers :
           /\ Busy(v)' <=> Busy(v)
           /\ worker'[v].key = worker[v].key
           /\ worker'[v].attempts = worker[v].attempts
    BY <1>1, <1>2 DEF Busy
  <1>4. TypeOK' /\ SelectedIsCurrent'
    BY <1>1, <1>2 DEF TypeOK, SelectedIsCurrent
  <1>5. QED
    BY <1>1, <1>3, <1>4 DEF RestingWorker, WaitingCaller, AbsentIsBlank, HolderSeesItsClaim,
       ExclusiveClaim, AttemptsBounded, OrphanNeedsFault, Owned, TokenHasExpiry

(* The three marks: a row is written by the worker that holds it. *)
LEMMA MarkStep ==
    ASSUME IInv, NEW w \in Workers, Busy(w), NEW row \in Row, Mark(w, row),
           row.status \in Final \cup {"failed"},
           row.attempts = jobs[worker[w].key].attempts,
           row.cred = jobs[worker[w].key].cred
    PROVE  IInv'
  <1> USE DEF IInv
  <1> DEFINE k  == worker[w].key
             ws == [worker EXCEPT ![w] = Idle]
  <1>1. k \in Keys /\ jobs[k].status = "running" /\ UNCHANGED <<caller, now>>
    BY DEF RestingWorker, HolderSeesItsClaim, Mark
  <1>2. faults' \in 0..MaxFaults /\ (faults' = 0 => faults = 0)
    BY FaultsAssumption DEF Mark, TypeOK, Fault, NoFault
  <1>3. /\ ws \in [Workers -> WorkerState]
        /\ ws[w].pc = "idle"
        /\ \A v \in Workers : v # w => ws[v] = worker[v]
    BY DEF TypeOK, Idle, WorkerState, NoCred, Cred
  <1>4. \A v \in Workers : v # w /\ Busy(v) => worker[v].key # k
    BY DEF ExclusiveClaim
  <1> HIDE DEF k, ws
  <1>5. CASE jobs' = [jobs EXCEPT ![k] = row] /\ worker' = Outdated(ws)
    <2>1. /\ jobs' \in [Keys -> Row]
          /\ jobs'[k] = row
          /\ \A j \in Keys : j # k => jobs'[j] = jobs[j]
      BY <1>1, <1>5 DEF TypeOK
    <2>2. \A v \in Workers :
             /\ worker'[v].pc # "selected"
             /\ ws[v].pc # "selected" => worker'[v] = ws[v]
             /\ ws[v].pc = "selected" => worker'[v] = Stale
      BY <1>3, <1>5, OutdatedResult
    <2>3. Stale.pc = "stale"
      BY DEF Stale, Idle
    <2>4. ~Busy(w)' /\ \A v \in Workers : v # w =>
             (Busy(v)' <=> Busy(v)) /\ (Busy(v) => worker'[v] = worker[v])
      BY <1>3, <2>2, <2>3 DEF Busy
    <2>5. TypeOK'
      <3>1. worker' \in [Workers -> WorkerState]
        BY <1>3, <1>5, OutdatedResult DEF Outdated
      <3>2. QED
        BY <1>1, <1>2, <2>1, <3>1 DEF TypeOK
    <2>6. SelectedIsCurrent'
      BY <2>2 DEF SelectedIsCurrent
    <2>7. RestingWorker' /\ ExclusiveClaim'
      BY <2>4 DEF RestingWorker, ExclusiveClaim
    <2>8. HolderSeesItsClaim'
      BY <1>4, <2>1, <2>4 DEF HolderSeesItsClaim, RestingWorker
    <2>9. row.status # "absent" /\ row.status # "running"
      BY DEF Final
    <2>10. WaitingCaller' /\ AbsentIsBlank' /\ AttemptsBounded'
      BY <1>1, <2>1, <2>9 DEF WaitingCaller, AbsentIsBlank, AttemptsBounded, k
    <2>11. OrphanNeedsFault'
      <3>1. SUFFICES ASSUME faults' = 0, NEW j \in Keys, jobs'[j].status = "running"
                     PROVE  Owned(j)'
        BY DEF OrphanNeedsFault
      <3>2. j # k /\ jobs[j].status = "running"
        BY <2>1, <2>9, <3>1
      <3>3. PICK v \in Workers : Busy(v) /\ worker[v].key = j
        BY <1>2, <3>1, <3>2 DEF OrphanNeedsFault, Owned
      <3>4. v # w
        BY <3>2, <3>3 DEF k
      <3>5. QED
        BY <2>4, <3>3, <3>4 DEF Owned
    <2>12. TokenHasExpiry'
      BY <1>1, <2>1 DEF TokenHasExpiry, Judgeable, Enqueueable, k
    <2>13. QED
      BY <2>5, <2>6, <2>7, <2>8, <2>10, <2>11, <2>12
  <1>6. CASE jobs' = jobs /\ worker' = ws /\ Fault
    <2>1. \A v \in Workers : (Busy(v)' => Busy(v)) /\ (Busy(v)' => worker'[v] = worker[v])
      BY <1>3, <1>6 DEF Busy
    <2>2. faults' # 0
      BY <1>6 DEF Fault, TypeOK
    <2>3. TypeOK' /\ SelectedIsCurrent'
      BY <1>1, <1>2, <1>3, <1>6 DEF TypeOK, SelectedIsCurrent
    <2>4. QED
      BY <1>1, <1>6, <2>1, <2>2, <2>3 DEF RestingWorker, WaitingCaller, AbsentIsBlank,
         HolderSeesItsClaim, ExclusiveClaim, AttemptsBounded, OrphanNeedsFault, TokenHasExpiry
  <1>7. QED
    BY <1>5, <1>6 DEF Mark, k, ws

(* The row a busy worker writes when it gives its job up. *)
LEMMA MarkedRow ==
    ASSUME IInv, NEW w \in Workers, Busy(w), NEW s \in JobStatus, NEW t \in Nat
    PROVE  LET r == jobs[worker[w].key]
           IN  [r EXCEPT !.status = s] \in Row /\ [r EXCEPT !.status = s, !.nextRun = t] \in Row
  <1> DEFINE r == jobs[worker[w].key]
  <1>1. r \in Row
    BY DEF IInv, RestingWorker, TypeOK
  <1> HIDE DEF r
  <1>2. [r EXCEPT !.status = s] \in Row
    BY <1>1 DEF Row
  <1> DEFINE q == [r EXCEPT !.status = s]
  <1> HIDE DEF q
  <1>3. [q EXCEPT !.nextRun = t] \in Row
    <2>1. q \in Row
      BY <1>2 DEF q
    <2>2. QED
      BY <2>1 DEF Row
  <1>4. QED
    BY <1>2, <1>3 DEF q, r

(* A failed job waits until a time on the clock. *)
LEMMA RetryTime ==
    ASSUME IInv, NEW w \in Workers, Busy(w)
    PROVE  Horizon(now + Backoff(worker[w].attempts)) \in Nat
  <1>1. worker[w].attempts \in 0..MaxAttempts
    BY MaxAttemptsAssumption
    DEF IInv, TypeOK, WorkerState, RestingWorker, HolderSeesItsClaim, AttemptsBounded
  <1>2. QED
    BY <1>1, BackoffResult DEF IInv, TypeOK

LEMMA ExecuteStep ==
    ASSUME IInv, NEW w \in Workers, Execute(w)
    PROVE  IInv'
  <1> DEFINE r == jobs[worker[w].key]
  <1>1. CASE Reject(w)
    <2>1. Busy(w) /\ "rejected" \in JobStatus /\ 0 \in Nat
      BY <1>1 DEF Reject, Busy, JobStatus, Final
    <2> DEFINE row == [r EXCEPT !.status = "rejected"]
    <2>2. row \in Row
      BY <2>1, MarkedRow
    <2>3. row.status = "rejected" /\ row.attempts = r.attempts /\ row.cred = r.cred
      BY <2>1 DEF IInv, RestingWorker, TypeOK, Row
    <2>4. Mark(w, row)
      BY <1>1 DEF Reject
    <2> HIDE DEF row
    <2>5. QED
      BY <2>1, <2>2, <2>3, <2>4, MarkStep DEF Final
  <1>2. CASE Start(w)
    BY <1>2, StartStep
  <1>3. CASE Succeed(w)
    <2>1. Busy(w) /\ "succeeded" \in JobStatus /\ 0 \in Nat
      BY <1>3 DEF Succeed, Busy, JobStatus, Final
    <2> DEFINE row == [r EXCEPT !.status = "succeeded"]
    <2>2. row \in Row
      BY <2>1, MarkedRow
    <2>3. row.status = "succeeded" /\ row.attempts = r.attempts /\ row.cred = r.cred
      BY <2>1 DEF IInv, RestingWorker, TypeOK, Row
    <2>4. Mark(w, row)
      BY <1>3 DEF Succeed
    <2> HIDE DEF row
    <2>5. QED
      BY <2>1, <2>2, <2>3, <2>4, MarkStep DEF Final
  <1>4. CASE Fail(w)
    <2>1. Busy(w) /\ "failed" \in JobStatus
      BY <1>4 DEF Fail, Busy, JobStatus, Queued
    <2> DEFINE t   == Horizon(now + Backoff(worker[w].attempts))
               row == [r EXCEPT !.status = "failed", !.nextRun = t]
    <2>2. t \in Nat
      BY <2>1, RetryTime
    <2>3. Mark(w, row)
      BY <1>4 DEF Fail
    <2> HIDE DEF t
    <2>4. row \in Row
      BY <2>1, <2>2, MarkedRow
    <2>5. row.status = "failed" /\ row.attempts = r.attempts /\ row.cred = r.cred
      BY <2>1 DEF IInv, RestingWorker, TypeOK, Row
    <2> HIDE DEF row
    <2>6. QED
      BY <2>1, <2>3, <2>4, <2>5, MarkStep
  <1>5. QED
    BY <1>1, <1>2, <1>3, <1>4 DEF Execute

LEMMA RestartStep == IInv /\ Restart => IInv'
  <1> SUFFICES ASSUME IInv, Restart PROVE IInv'
    OBVIOUS
  <1> USE DEF IInv
  <1>1. UNCHANGED <<jobs, now>>
    BY DEF Restart
  <1>2. faults' \in 0..MaxFaults /\ faults' # 0
    BY FaultsAssumption DEF Restart, TypeOK, Fault
  <1>3. Idle \in WorkerState /\ AtRest \in CallerState
    BY DEF Idle, WorkerState, AtRest, CallerState, NoCred, Cred
  <1>4. /\ \A w \in Workers : worker'[w] = Idle
        /\ \A c \in Callers : caller'[c] = AtRest
    BY DEF Restart
  <1>5. TypeOK'
    BY <1>1, <1>2, <1>3 DEF Restart, TypeOK
  <1>6. \A w \in Workers : ~Busy(w)' /\ worker'[w].pc # "selected"
    BY <1>4 DEF Busy, Idle
  <1>7. WaitingCaller' /\ TokenHasExpiry'
    BY <1>1, <1>4 DEF WaitingCaller, TokenHasExpiry, Judgeable, Enqueueable, AtRest, NoCred
  <1>8. QED
    BY <1>1, <1>2, <1>5, <1>6, <1>7 DEF SelectedIsCurrent, RestingWorker, AbsentIsBlank,
       HolderSeesItsClaim, ExclusiveClaim, AttemptsBounded, OrphanNeedsFault

(* The clock, and steps in which nothing happens. *)
LEMMA TickStep == IInv /\ (Tick \/ UNCHANGED vars) => IInv'
  <1> SUFFICES ASSUME IInv, Tick \/ UNCHANGED vars PROVE IInv'
    OBVIOUS
  <1> USE DEF IInv
  <1>1. UNCHANGED <<jobs, worker, caller, faults>>
    BY DEF Tick, vars
  <1>2. now' \in 0..MaxTime
    BY TimeAssumption DEF Tick, vars, TypeOK
  <1>3. QED
    BY <1>1, <1>2 DEF TypeOK, SelectedIsCurrent, RestingWorker, WaitingCaller, AbsentIsBlank,
       HolderSeesItsClaim, ExclusiveClaim, AttemptsBounded, OrphanNeedsFault, Owned, Busy,
       TokenHasExpiry

LEMMA NextIInv == IInv /\ [Next]_vars => IInv'
  <1> SUFFICES ASSUME IInv, [Next]_vars PROVE IInv'
    OBVIOUS
  <1>1. ASSUME NEW c \in Callers, Enqueue(c) PROVE IInv'
    BY <1>1, EnqueueInsertStep, EnqueueSelectStep, EnqueueRefreshStep DEF Enqueue
  <1>2. ASSUME NEW w \in Workers, Claim(w) PROVE IInv'
    BY <1>2, ClaimSelectStep, ClaimCommitStep, ClaimAbortStep DEF Claim
  <1>3. ASSUME NEW w \in Workers, Execute(w) PROVE IInv'
    BY <1>3, ExecuteStep
  <1>4. QED
    BY <1>1, <1>2, <1>3, RestartStep, TickStep DEF Next
-----------------------------------------------------------------------------
(* IInv holds in every reachable state of the queue. *)
THEOREM Invariance == Spec => []IInv
  <1>1. QED
    BY InitIInv, NextIInv, PTL DEF Spec

(* The variables keep their types: the clock and the fault count stay      *)
(* within their bounds, every row is a row and every goroutine is at a     *)
(* known point.                                                            *)
THEOREM TypeCorrect == Spec => []TypeOK
  <1>1. IInv => TypeOK
    BY DEF IInv
  <1>2. QED
    BY <1>1, Invariance, PTL

(* ClaimNext hands no job to two workers at a time. *)
THEOREM ClaimsAreExclusive == Spec => []ExclusiveClaim
  <1>1. IInv => ExclusiveClaim
    BY DEF IInv
  <1>2. QED
    BY <1>1, Invariance, PTL

(* The row of a job under execution is "running" and counts the attempt.   *)
THEOREM HoldersSeeTheirClaims == Spec => []HolderSeesItsClaim
  <1>1. IInv => HolderSeesItsClaim
    BY DEF IInv
  <1>2. QED
    BY <1>1, Invariance, PTL

(* No job is tried more often than the configuration allows. *)
THEOREM AttemptsAreBounded == Spec => []AttemptsBounded
  <1>1. IInv => AttemptsBounded
    BY DEF IInv
  <1>2. QED
    BY <1>1, Invariance, PTL

(* Only a crash or a failing database call can leave a "running" row that  *)
(* no worker executes.                                                     *)
THEOREM OrphansNeedFaults == Spec => []OrphanNeedsFault
  <1>1. IInv => OrphanNeedsFault
    BY DEF IInv
  <1>2. QED
    BY <1>1, Invariance, PTL

(* Every stored caller token has an expiry. *)
THEOREM TokensHaveExpiry == Spec => []TokenHasExpiry
  <1>1. IInv => TokenHasExpiry
    BY DEF IInv
  <1>2. QED
    BY <1>1, Invariance, PTL
-----------------------------------------------------------------------------
(* The queue implements JobLifecycle: every step of the queue is a step of *)
(* the abstract specification, or changes nothing that it speaks of.       *)

(* A step that changes no status, no attempt count and no holder. *)
Invisible ==
    /\ \A k \in Keys : jobs'[k].status = jobs[k].status /\ jobs'[k].attempts = jobs[k].attempts
    /\ \A w \in Workers : Busy(w)' <=> Busy(w)
    /\ \A w \in Workers : Busy(w) => worker'[w].key = worker[w].key

LEMMA InvisibleStutters == Invisible => UNCHANGED Lifecycle!vars
  <1> SUFFICES ASSUME Invisible PROVE UNCHANGED Lifecycle!vars
    OBVIOUS
  <1>1. UNCHANGED statusOf /\ UNCHANGED attemptsOf
    BY DEF Invisible, statusOf, attemptsOf
  <1>2. UNCHANGED ownersOf
    BY DEF Invisible, ownersOf
  <1>3. QED
    BY <1>1, <1>2 DEF Lifecycle!vars

LEMMA InitImplements == Init => Lifecycle!Init
  BY DEF Init, Lifecycle!Init, statusOf, attemptsOf, ownersOf, NoRow, Busy, Idle

(* A commit by nobody in particular leaves the holders alone. *)
LEMMA OutdatedHolders ==
    ASSUME TypeOK, NEW w \in Workers, worker' = Outdated(worker)
    PROVE  (Busy(w)' <=> Busy(w)) /\ (Busy(w) => worker'[w].key = worker[w].key)
  <1>1. Stale.pc = "stale"
    BY DEF Stale, Idle
  <1>2. QED
    BY <1>1, OutdatedResult DEF TypeOK, Busy

LEMMA EnqueueImplements ==
    ASSUME IInv, NEW c \in Callers, Enqueue(c)
    PROVE  Lifecycle!Next \/ UNCHANGED Lifecycle!vars
  <1> USE DEF IInv
  <1>1. CASE EnqueueInsert(c)
    <2>1. CASE UNCHANGED <<jobs, worker>>
      BY <2>1, InvisibleStutters DEF Invisible, Busy
    <2>2. CASE \E k \in Keys, cred \in Incoming :
                  /\ jobs[k].status = "absent"
                  /\ jobs' = [jobs EXCEPT ![k] =
                        [status |-> "pending", attempts |-> 0,
                         cred |-> cred, nextRun |-> now]]
                  /\ worker' = Outdated(worker)
      <3>1. PICK k \in Keys, cred \in Incoming :
               /\ jobs[k].status = "absent"
               /\ jobs' = [jobs EXCEPT ![k] =
                     [status |-> "pending", attempts |-> 0,
                      cred |-> cred, nextRun |-> now]]
               /\ worker' = Outdated(worker)
        BY <2>2
      <3>2. /\ jobs'[k].status = "pending" /\ jobs'[k].attempts = 0 /\ jobs[k].attempts = 0
            /\ \A j \in Keys : j # k => jobs'[j] = jobs[j]
        BY <3>1 DEF TypeOK, AbsentIsBlank, NoRow
      <3>3. statusOf[k] = "absent" /\ statusOf' = [statusOf EXCEPT ![k] = "pending"]
        <4>1. jobs[k].status = "absent" /\ k \in Keys
          BY <3>1
        <4>2. \A j \in Keys : jobs'[j].status = IF j = k THEN "pending" ELSE jobs[j].status
          BY <3>2
        <4>3. QED
          BY <4>1, <4>2 DEF statusOf
      <3>4. UNCHANGED <<attemptsOf, ownersOf>>
        BY <3>1, <3>2, OutdatedHolders DEF attemptsOf, ownersOf
      <3>5. QED
        BY <3>3, <3>4 DEF Lifecycle!Next, Lifecycle!Submit
    <2>3. QED
      BY <1>1, <2>1, <2>2 DEF EnqueueInsert
  <1>2. CASE EnqueueSelect(c)
    BY <1>2, InvisibleStutters DEF EnqueueSelect, Invisible, Busy
  <1>3. CASE EnqueueRefresh(c)
    <2>1. CASE UNCHANGED <<jobs, worker>>
      BY <2>1, InvisibleStutters DEF Invisible, Busy
    <2>2. CASE /\ jobs' = [jobs EXCEPT ![caller[c].key].cred = caller[c].cred]
               /\ worker' = Outdated(worker)
      <3>1. \A k \in Keys : jobs'[k].status = jobs[k].status /\ jobs'[k].attempts = jobs[k].attempts
        BY <2>2 DEF TypeOK, Row
      <3>2. QED
        BY <2>2, <3>1, OutdatedHolders, InvisibleStutters DEF Invisible
    <2>3. QED
      BY <1>3, <2>1, <2>2 DEF EnqueueRefresh
  <1>4. QED
    BY <1>1, <1>2, <1>3 DEF Enqueue

LEMMA ClaimImplements ==
    ASSUME IInv, NEW w \in Workers, Claim(w)
    PROVE  Lifecycle!Next \/ UNCHANGED Lifecycle!vars
  <1> USE DEF IInv
  <1>1. CASE ClaimSelect(w)
    BY <1>1, InvisibleStutters DEF ClaimSelect, Invisible, Busy, TypeOK
  <1>2. CASE ClaimAbort(w)
    BY <1>2, InvisibleStutters DEF ClaimAbort, Invisible, Busy, TypeOK, Idle
  <1>3. CASE ClaimCommit(w)
    <2>0. PICK k \in Keys : k = worker[w].key
      BY <1>3 DEF ClaimCommit, SelectedIsCurrent
    <2>1. /\ k \in Keys /\ jobs[k].status \in Queued
          /\ jobs[k].attempts = worker[w].attempts
          /\ jobs[k].attempts \in Nat /\ jobs[k].attempts < MaxAttempts
          /\ worker[w].pc = "selected"
      BY <1>3, <2>0 DEF ClaimCommit, SelectedIsCurrent, TypeOK, Row
    <2>2. /\ \A j \in Keys : j # k => jobs'[j] = jobs[j]
          /\ jobs'[k].status = "running"
          /\ jobs'[k].attempts = jobs[k].attempts + 1
      BY <1>3, <2>0, <2>1 DEF ClaimCommit, TypeOK, Row
    <2>3. /\ worker'[w].pc = "claimed" /\ worker'[w].key = k
          /\ \A v \in Workers : v # w =>
                IF worker[v].pc = "selected" THEN worker'[v] = Stale
                                             ELSE worker'[v] = worker[v]
      BY <1>3, <2>0, <2>1 DEF ClaimCommit, Outdated, TypeOK, WorkerState
    <2>4. Stale.pc = "stale"
      BY DEF Stale, Idle
    <2>5. \A v \in Workers : v # w => (Busy(v)' <=> Busy(v)) /\ (Busy(v) => worker'[v] = worker[v])
      BY <2>3, <2>4 DEF Busy
    <2>6. Busy(w)' /\ ~Busy(w)
      BY <2>1, <2>3 DEF Busy
    <2>7. \A v \in Workers : Busy(v) => worker[v].key # k
      BY <2>1 DEF HolderSeesItsClaim, Queued
    <2>8. \A v \in Workers : (Busy(v) /\ worker[v].key = k)' <=> v = w
      <3>1. SUFFICES ASSUME NEW v \in Workers PROVE (Busy(v) /\ worker[v].key = k)' <=> v = w
        OBVIOUS
      <3>2. CASE v = w
        BY <2>3, <2>6, <3>2
      <3>3. CASE v # w
        BY <2>3, <2>5, <2>7, <3>3
      <3>4. QED
        BY <3>2, <3>3
    <2>9. \A j \in Keys : j # k =>
             \A v \in Workers : (Busy(v) /\ worker[v].key = j)' <=> (Busy(v) /\ worker[v].key = j)
      BY <2>3, <2>5, <2>6
    <2>10. ownersOf[k] = {} /\ \A j \in Keys : w \notin ownersOf[j]
      BY <2>1, <2>6, <2>7 DEF ownersOf
    <2>11. ownersOf' = [ownersOf EXCEPT ![k] = {w}]
      <3>1. ownersOf'[k] = {w}
        BY <2>1, <2>8 DEF ownersOf
      <3>2. \A j \in Keys : j # k => ownersOf'[j] = ownersOf[j]
        BY <2>9 DEF ownersOf
      <3>3. QED
        BY <3>1, <3>2 DEF ownersOf
    <2>12. /\ statusOf[k] \in Queued /\ attemptsOf[k] < MaxAttempts
           /\ statusOf' = [statusOf EXCEPT ![k] = "running"]
           /\ attemptsOf' = [attemptsOf EXCEPT ![k] = @ + 1]
      BY <2>1, <2>2 DEF statusOf, attemptsOf
    <2>13. Lifecycle!Claim(k, w)
      BY <2>10, <2>11, <2>12 DEF Lifecycle!Claim, Lifecycle!Queued, Queued
    <2>14. QED
      BY <2>1, <2>13 DEF Lifecycle!Next
  <1>4. QED
    BY <1>1, <1>2, <1>3 DEF Claim

(* A mark settles the job for its holder; a mark that fails abandons it. *)
LEMMA MarkImplements ==
    ASSUME IInv, NEW w \in Workers, Busy(w), NEW row \in Row, Mark(w, row),
           row.status \in Final \cup {"failed"},
           row.attempts = jobs[worker[w].key].attempts
    PROVE  Lifecycle!Next
  <1> USE DEF IInv
  <1>1. PICK k \in Keys : k = worker[w].key
    BY DEF RestingWorker
  <1>2. jobs[k].status = "running" /\ \A v \in Workers : v # w /\ Busy(v) => worker[v].key # k
    BY <1>1 DEF HolderSeesItsClaim, ExclusiveClaim
  <1> DEFINE ws == [worker EXCEPT ![w] = Idle]
  <1>3. /\ ws \in [Workers -> WorkerState]
        /\ ws[w].pc = "idle"
        /\ \A v \in Workers : v # w => ws[v] = worker[v]
    BY DEF TypeOK, Idle, WorkerState, NoCred, Cred
  <1> HIDE DEF ws
  <1>4. CASE jobs' = [jobs EXCEPT ![k] = row] /\ worker' = Outdated(ws)
    <2>1. jobs'[k] = row /\ \A j \in Keys : j # k => jobs'[j] = jobs[j]
      BY <1>4 DEF TypeOK
    <2>2. Stale.pc = "stale"
      BY DEF Stale, Idle
    <2>3. ~Busy(w)' /\ \A v \in Workers : v # w =>
             (Busy(v)' <=> Busy(v)) /\ (Busy(v) => worker'[v] = worker[v])
      BY <1>3, <1>4, <2>2, OutdatedResult DEF Busy
    <2>4. ownersOf[k] = {w}
      BY <1>1, <1>2 DEF ownersOf
    <2>5. ownersOf' = [ownersOf EXCEPT ![k] = {}]
      <3>1. ownersOf'[k] = {}
        BY <1>2, <2>3 DEF ownersOf
      <3>2. \A j \in Keys : j # k => ownersOf'[j] = ownersOf[j]
        BY <1>1, <2>3 DEF ownersOf
      <3>3. QED
        BY <3>1, <3>2 DEF ownersOf
    <2>6. /\ statusOf[k] = "running"
          /\ statusOf' = [statusOf EXCEPT ![k] = row.status]
          /\ UNCHANGED attemptsOf
      BY <1>1, <1>2, <2>1 DEF statusOf, attemptsOf
    <2>7. Lifecycle!Settle(k, w)
      BY <2>4, <2>5, <2>6 DEF Lifecycle!Settle, Lifecycle!Final, Final
    <2>8. QED
      BY <2>7 DEF Lifecycle!Next
  <1>5. CASE jobs' = jobs /\ worker' = ws
    <2>1. ~Busy(w)' /\ \A v \in Workers : v # w =>
             (Busy(v)' <=> Busy(v)) /\ (Busy(v) => worker'[v] = worker[v])
      BY <1>3, <1>5 DEF Busy
    <2>2. ownersOf' = [j \in Keys |-> ownersOf[j] \ {w}]
      BY <2>1 DEF ownersOf
    <2>3. UNCHANGED <<statusOf, attemptsOf>>
      BY <1>5 DEF statusOf, attemptsOf
    <2>4. Lifecycle!Abandon({w}) /\ {w} \in SUBSET Workers
      BY <2>2, <2>3 DEF Lifecycle!Abandon
    <2>5. QED
      BY <2>4 DEF Lifecycle!Next
  <1>6. QED
    BY <1>1, <1>4, <1>5 DEF Mark, ws

LEMMA ExecuteImplements ==
    ASSUME IInv, NEW w \in Workers, Execute(w)
    PROVE  Lifecycle!Next \/ UNCHANGED Lifecycle!vars
  <1> DEFINE r == jobs[worker[w].key]
  <1>1. CASE Start(w)
    BY <1>1, InvisibleStutters DEF IInv, Start, Invisible, Busy, TypeOK, WorkerState
  <1>2. ASSUME Busy(w), NEW s \in {"rejected", "succeeded"},
               Mark(w, [r EXCEPT !.status = s])
        PROVE  Lifecycle!Next
    <2> DEFINE row == [r EXCEPT !.status = s]
    <2>1. s \in JobStatus /\ s \in Final /\ 0 \in Nat
      BY DEF JobStatus, Final
    <2>2. row \in Row
      BY <1>2, <2>1, MarkedRow
    <2>3. row.status = s /\ row.attempts = r.attempts
      BY <1>2 DEF IInv, RestingWorker, TypeOK, Row
    <2>4. Mark(w, row)
      BY <1>2
    <2> HIDE DEF row
    <2>5. QED
      BY <1>2, <2>1, <2>2, <2>3, <2>4, MarkImplements
  <1>3. CASE Fail(w)
    <2>1. Busy(w) /\ "failed" \in JobStatus
      BY <1>3 DEF Fail, Busy, JobStatus, Queued
    <2> DEFINE t   == Horizon(now + Backoff(worker[w].attempts))
               row == [r EXCEPT !.status = "failed", !.nextRun = t]
    <2>2. t \in Nat
      BY <2>1, RetryTime
    <2>3. Mark(w, row)
      BY <1>3 DEF Fail
    <2> HIDE DEF t
    <2>4. row \in Row
      BY <2>1, <2>2, MarkedRow
    <2>5. row.status = "failed" /\ row.attempts = r.attempts
      BY <2>1 DEF IInv, RestingWorker, TypeOK, Row
    <2> HIDE DEF row
    <2>6. QED
      BY <2>1, <2>3, <2>4, <2>5, MarkImplements
  <1>4. QED
    BY <1>1, <1>2, <1>3 DEF Execute, Reject, Succeed, Busy

LEMMA RestartImplements == IInv /\ Restart => Lifecycle!Next
  <1> SUFFICES ASSUME IInv, Restart PROVE Lifecycle!Next
    OBVIOUS
  <1>1. \A w \in Workers : ~Busy(w)'
    BY DEF Restart, Busy, Idle
  <1>2. ownersOf' = [k \in Keys |-> ownersOf[k] \ Workers]
    BY <1>1 DEF ownersOf
  <1>3. UNCHANGED <<statusOf, attemptsOf>>
    BY DEF Restart, statusOf, attemptsOf
  <1>4. Lifecycle!Abandon(Workers)
    BY <1>2, <1>3 DEF Lifecycle!Abandon
  <1>5. QED
    BY <1>4 DEF Lifecycle!Next

LEMMA NextImplements == IInv /\ [Next]_vars => [Lifecycle!Next]_(Lifecycle!vars)
  <1> SUFFICES ASSUME IInv, [Next]_vars PROVE [Lifecycle!Next]_(Lifecycle!vars)
    OBVIOUS
  <1>1. ASSUME NEW c \in Callers, Enqueue(c) PROVE [Lifecycle!Next]_(Lifecycle!vars)
    BY <1>1, EnqueueImplements
  <1>2. ASSUME NEW w \in Workers, Claim(w) PROVE [Lifecycle!Next]_(Lifecycle!vars)
    BY <1>2, ClaimImplements
  <1>3. ASSUME NEW w \in Workers, Execute(w) PROVE [Lifecycle!Next]_(Lifecycle!vars)
    BY <1>3, ExecuteImplements
  <1>4. CASE Restart
    BY <1>4, RestartImplements
  <1>5. CASE Tick \/ UNCHANGED vars
    <2>1. UNCHANGED <<jobs, worker>>
      BY <1>5 DEF Tick, vars
    <2>2. QED
      BY <2>1, InvisibleStutters DEF Invisible, Busy
  <1>6. QED
    BY <1>1, <1>2, <1>3, <1>4, <1>5 DEF Next

(* The queue of SQLite rows and worker loops is a correct implementation   *)
(* of the job life cycle: submitted once, held by one worker, settled by   *)
(* its holder, tried at most MaxAttempts times.                            *)
THEOREM Refinement == Spec => ImplementsLifecycle
  <1>1. QED
    BY InitImplements, NextImplements, Invariance, PTL DEF Spec, Lifecycle!Spec, ImplementsLifecycle
-----------------------------------------------------------------------------
(* A job that succeeded or was rejected keeps its status for ever. *)
THEOREM FinalStatusesAreKept == Spec => FinalStatusKept
  <1>1. ASSUME Lifecycle!Next \/ UNCHANGED Lifecycle!vars PROVE FinalKept
    <2>1. ASSUME NEW k \in Keys, statusOf[k] \in Final PROVE statusOf'[k] = statusOf[k]
      BY <1>1, <2>1 DEF Lifecycle!Next, Lifecycle!Submit, Lifecycle!Claim, Lifecycle!Settle,
         Lifecycle!Abandon, Lifecycle!vars, Lifecycle!Queued, Final, statusOf
    <2>2. QED
      BY <2>1 DEF FinalKept, statusOf
  <1>2. IInv /\ [Next]_vars => [FinalKept]_vars
    BY <1>1, NextImplements
  <1>3. QED
    BY <1>2, Invariance, PTL DEF Spec, FinalStatusKept

(* A job that runs with a caller's identity keeps doing so. *)
THEOREM CallerIdentitiesAreKept == Spec => CallerIdentityKept
  <1>1. ASSUME IInv, Next PROVE CallerKept
    <2> USE <1>1 DEF IInv
    <2>1. ASSUME NEW c \in Callers, Enqueue(c) PROVE CallerKept
      <3>1. CASE EnqueueInsert(c)
        <4>1. ASSUME NEW k \in Keys, NEW row, jobs[k].status = "absent",
                     jobs' = [jobs EXCEPT ![k] = row]
              PROVE  CallerKept
          <5>1. ~jobs[k].cred.auth
            BY <4>1 DEF AbsentIsBlank, NoRow, NoCred
          <5>2. \A j \in Keys : j # k => jobs'[j] = jobs[j]
            BY <4>1 DEF TypeOK
          <5>3. QED
            BY <5>1, <5>2 DEF CallerKept
        <4>2. CASE UNCHANGED jobs
          BY <4>2 DEF CallerKept
        <4>3. QED
          BY <3>1, <4>1, <4>2 DEF EnqueueInsert
      <3>2. CASE EnqueueSelect(c)
        BY <3>2 DEF EnqueueSelect, CallerKept
      <3>3. CASE EnqueueRefresh(c)
        <4>1. caller[c].cred.auth
          BY <3>3 DEF EnqueueRefresh, WaitingCaller
        <4>2. CASE jobs' = [jobs EXCEPT ![caller[c].key].cred = caller[c].cred]
          <5>1. \A k \in Keys : jobs'[k].cred = jobs[k].cred \/ jobs'[k].cred = caller[c].cred
            BY <4>2 DEF TypeOK, Row
          <5>2. QED
            BY <4>1, <5>1 DEF CallerKept
        <4>3. CASE UNCHANGED jobs
          BY <4>3 DEF CallerKept
        <4>4. QED
          BY <3>3, <4>2, <4>3 DEF EnqueueRefresh
      <3>4. QED
        BY <2>1, <3>1, <3>2, <3>3 DEF Enqueue
    <2>2. ASSUME NEW w \in Workers, Claim(w) PROVE CallerKept
      <3>1. CASE ClaimCommit(w)
        <4>1. worker[w].key \in Keys
          BY <3>1 DEF ClaimCommit, SelectedIsCurrent
        <4>2. \A k \in Keys : jobs'[k].cred = jobs[k].cred
          BY <3>1, <4>1 DEF ClaimCommit, TypeOK, Row
        <4>3. QED
          BY <4>2 DEF CallerKept
      <3>2. CASE ClaimSelect(w) \/ ClaimAbort(w)
        BY <3>2 DEF ClaimSelect, ClaimAbort, CallerKept
      <3>3. QED
        BY <2>2, <3>1, <3>2 DEF Claim
    <2>3. ASSUME NEW w \in Workers, Execute(w) PROVE CallerKept
      <3>1. ASSUME NEW row, Mark(w, row), row.cred = jobs[worker[w].key].cred PROVE CallerKept
        <4>1. \A k \in Keys : jobs'[k].cred = jobs[k].cred
          BY <3>1 DEF Mark, TypeOK
        <4>2. QED
          BY <4>1 DEF CallerKept
      <3>2. CASE Start(w)
        BY <3>2 DEF Start, CallerKept
      <3>3. CASE Reject(w) \/ Succeed(w) \/ Fail(w)
        <4>1. worker[w].key \in Keys /\ jobs[worker[w].key] \in Row
          BY <3>3 DEF Reject, Succeed, Fail, Busy, RestingWorker, TypeOK
        <4>2. \A s, t : /\ [jobs[worker[w].key] EXCEPT !.status = s].cred = jobs[worker[w].key].cred
                        /\ [jobs[worker[w].key] EXCEPT !.status = s, !.nextRun = t].cred
                              = jobs[worker[w].key].cred
          BY <4>1 DEF Row
        <4>3. QED
          BY <3>1, <3>3, <4>2 DEF Reject, Succeed, Fail
      <3>4. QED
        BY <2>3, <3>2, <3>3 DEF Execute
    <2>4. CASE Restart \/ Tick
      BY <2>4 DEF Restart, Tick, CallerKept
    <2>5. QED
      BY <1>1, <2>1, <2>2, <2>3, <2>4 DEF Next
  <1>2. IInv /\ [Next]_vars => [CallerKept]_vars
    BY <1>1
  <1>3. QED
    BY <1>2, Invariance, PTL DEF Spec, CallerIdentityKept
=============================================================================
