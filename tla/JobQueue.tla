------------------------------ MODULE JobQueue ------------------------------
(***************************************************************************)
(* The durable migration queue: the SQLite job table of                    *)
(* internal/store/sqlite.go, the worker loops and the enqueue path of      *)
(* internal/migration/service.go that share it, and the clock that decides *)
(* when a job is due and whether a caller's token is still fresh.          *)
(*                                                                         *)
(* Every database call is one step; between two calls of one goroutine the *)
(* others run.  ClaimNext is a transaction of a SELECT and an UPDATE, so   *)
(* it takes two steps, and SQLite's isolation lets it commit only if       *)
(* nothing was written in between.                                         *)
(*                                                                         *)
(* What a job does when it runs is a nondeterministic success or failure   *)
(* here.                                                                   *)
(***************************************************************************)
EXTENDS Integers, FiniteSets

CONSTANTS
    Keys,         \* dedupe keys
    Workers,      \* goroutines running Service.worker
    Callers,      \* goroutines running Service.enqueue
    MaxAttempts,  \* migration.max_attempts
    RetryBase,    \* migration.retry_base, in ticks
    MinFresh,     \* minFreshTokenLifetime, in ticks
    Expiries,     \* expiry times of caller tokens
    NoExpiry,     \* a caller token without an expiry header
    NoKey,        \* not a dedupe key
    MaxTime,      \* bound: the clock stops here
    MaxFaults     \* bound: crashes and failing database calls

ASSUME MaxAttemptsAssumption == MaxAttempts \in Nat \ {0}
ASSUME TimeAssumption ==
    /\ RetryBase \in Nat /\ MinFresh \in Nat /\ MaxTime \in Nat
    /\ Expiries \subseteq Nat
(* Arithmetic, stated for the prover: it does not know that powers of two  *)
(* are natural numbers.                                                    *)
ASSUME BackoffAssumption == \A n \in 0..MaxAttempts : RetryBase * 2^n \in Nat
ASSUME FaultsAssumption == MaxFaults \in Nat
ASSUME NullAssumption == NoExpiry \notin Nat /\ NoKey \notin Keys

VARIABLES
    jobs,    \* the table: jobs[k] is the row with dedupe key k
    worker,  \* worker[w]: where worker w is in its loop, and the row it read
    caller,  \* caller[c]: where an enqueuing goroutine is, and its job
    now,     \* the wall clock
    faults   \* how many faults happened

vars == <<jobs, worker, caller, now, faults>>
-----------------------------------------------------------------------------
(* Credentials: whether the job carries a caller's identity, and when that *)
(* expires.  RequireFreshToken is always written equal to HasAuth.         *)
Cred     == [auth : BOOLEAN, expiry : Expiries \cup {NoExpiry}]
NoCred   == [auth |-> FALSE, expiry |-> NoExpiry]
Incoming == {NoCred} \cup [auth : {TRUE}, expiry : Expiries \cup {NoExpiry}]

Queued    == {"pending", "failed"}
Final     == {"succeeded", "rejected"}
JobStatus == Queued \cup Final \cup {"absent", "running"}

Row   == [status : JobStatus, attempts : Nat, cred : Cred, nextRun : Nat]
NoRow == [status |-> "absent", attempts |-> 0, cred |-> NoCred, nextRun |-> 0]

(* The worker loop: idle (polling), selected (between the SELECT and the   *)
(* commit of ClaimNext), stale (the same, when the table was written in    *)
(* between), claimed, processing.                                          *)
WorkerState ==
    [pc : {"idle", "selected", "stale", "claimed", "processing"},
     key : Keys \cup {NoKey}, attempts : Nat, cred : Cred]
Idle  == [pc |-> "idle", key |-> NoKey, attempts |-> 0, cred |-> NoCred]
Stale == [Idle EXCEPT !.pc = "stale"]

(* SQLiteStore.Enqueue: conflict (the INSERT failed), refresh (the row     *)
(* that was read asks for the newer token, the UPDATE is still to come).   *)
CallerState ==
    [pc : {"idle", "conflict", "refresh"}, key : Keys \cup {NoKey}, cred : Cred]
AtRest == [pc |-> "idle", key |-> NoKey, cred |-> NoCred]

Busy(w) == worker[w].pc \in {"claimed", "processing"}

Fault   == faults < MaxFaults /\ faults' = faults + 1
NoFault == UNCHANGED faults

(* Mutant: ClaimNext reads outside its transaction. *)
NoIsolation(ws) == ws

(* A committed write ends the snapshot of every open ClaimNext. *)
Outdated(ws) ==
    [w \in Workers |-> IF ws[w].pc = "selected" THEN Stale ELSE ws[w]]

(* service.go max(Attempts-1, 0) and the shift; the clock's bound also     *)
(* bounds the time a job waits for.                                        *)
Backoff(n) == RetryBase * 2^(IF n > 1 THEN n - 1 ELSE 0)
Horizon(t) == IF t > MaxTime THEN MaxTime ELSE t

TypeOK ==
    /\ jobs \in [Keys -> Row]
    /\ worker \in [Workers -> WorkerState]
    /\ caller \in [Callers -> CallerState]
    /\ now \in 0..MaxTime
    /\ faults \in 0..MaxFaults

Init ==
    /\ jobs = [k \in Keys |-> NoRow]
    /\ worker = [w \in Workers |-> Idle]
    /\ caller = [c \in Callers |-> AtRest]
    /\ now = 0
    /\ faults = 0
-----------------------------------------------------------------------------
(* Mutant: the latest request's credentials always win. *)
LatestWins(row, cred) == row.status \notin Final /\ row.cred # cred

(* shouldRefreshAuth(existing, incoming). *)
ShouldRefresh(row, cred) ==
    /\ cred.auth
    /\ row.status \notin Final
    /\ \/ ~row.cred.auth
       \/ row.cred.expiry = NoExpiry /\ cred.expiry # NoExpiry
       \/ /\ row.cred.expiry # NoExpiry
          /\ cred.expiry # NoExpiry
          /\ cred.expiry > row.cred.expiry

(* Mutant: the service queues caller tokens without an expiry. *)
AnyToken(cred) == cred \in Cred

(* A caller token without an expiry is refused before the store is asked. *)
Enqueueable(cred) == cred.auth => cred.expiry # NoExpiry

(* The INSERT.  When it fails, on the unique dedupe key or on the disk,    *)
(* Enqueue goes on to look for the existing row.                           *)
EnqueueInsert(c) ==
    /\ caller[c].pc = "idle"
    /\ \E k \in Keys, cred \in Incoming :
          /\ Enqueueable(cred)
          /\ \/ /\ jobs[k].status = "absent"
                /\ jobs' = [jobs EXCEPT ![k] =
                      [status |-> "pending", attempts |-> 0,
                       cred |-> cred, nextRun |-> now]]
                /\ worker' = Outdated(worker)
                /\ NoFault
                /\ UNCHANGED caller
             \/ /\ IF jobs[k].status = "absent" THEN Fault ELSE NoFault
                /\ caller' = [caller EXCEPT ![c] =
                      [pc |-> "conflict", key |-> k, cred |-> cred]]
                /\ UNCHANGED <<jobs, worker>>
    /\ UNCHANGED now

(* The SELECT by dedupe key, and the decision about the row it returned.   *)
(* Enqueue returns when there is no row, when the row keeps its            *)
(* credentials, and when the SELECT fails.                                 *)
EnqueueSelect(c) ==
    /\ caller[c].pc = "conflict"
    /\ LET row     == jobs[caller[c].key]
           refresh == row.status # "absent" /\ ShouldRefresh(row, caller[c].cred)
       IN  \/ /\ refresh
              /\ caller' = [caller EXCEPT ![c].pc = "refresh"]
              /\ NoFault
           \/ /\ caller' = [caller EXCEPT ![c] = AtRest]
              /\ IF refresh THEN Fault ELSE NoFault
    /\ UNCHANGED <<jobs, worker, now>>

(* Mutant: a refreshed job is also queued again. *)
RefreshRequeues(c) ==
    /\ caller[c].pc = "refresh"
    /\ caller' = [caller EXCEPT ![c] = AtRest]
    /\ jobs' = [jobs EXCEPT ![caller[c].key].cred = caller[c].cred,
                            ![caller[c].key].status = "pending"]
    /\ worker' = Outdated(worker)
    /\ UNCHANGED <<now, faults>>

(* The UPDATE of the credentials, of whatever the row has become since. *)
EnqueueRefresh(c) ==
    /\ caller[c].pc = "refresh"
    /\ caller' = [caller EXCEPT ![c] = AtRest]
    /\ \/ /\ jobs' = [jobs EXCEPT ![caller[c].key].cred = caller[c].cred]
          /\ worker' = Outdated(worker)
          /\ NoFault
       \/ Fault /\ UNCHANGED <<jobs, worker>>
    /\ UNCHANGED now
-----------------------------------------------------------------------------
(* Mutants: the SELECT forgets the attempts, or the failed jobs. *)
ReadyForEver(k) == jobs[k].status \in Queued /\ jobs[k].nextRun <= now
ReadyOnce(k) ==
    /\ jobs[k].status = "pending"
    /\ jobs[k].attempts < MaxAttempts
    /\ jobs[k].nextRun <= now

(* The rows the SELECT of ClaimNext ranges over, and the ones it may       *)
(* return: ties on next_run_at are broken by a creation time that the      *)
(* model leaves out.                                                       *)
Ready(k) ==
    /\ jobs[k].status \in Queued
    /\ jobs[k].attempts < MaxAttempts
    /\ jobs[k].nextRun <= now

ClaimSelect(w) ==
    /\ worker[w].pc = "idle"
    /\ \E k \in Keys :
          /\ Ready(k)
          /\ \A j \in Keys : Ready(j) => jobs[k].nextRun <= jobs[j].nextRun
          /\ worker' = [worker EXCEPT ![w] =
                [pc |-> "selected", key |-> k,
                 attempts |-> jobs[k].attempts, cred |-> jobs[k].cred]]
    /\ UNCHANGED <<jobs, caller, now, faults>>

(* Mutant: the attempt is counted in the returned job, not in the row. *)
ClaimUncounted(w) ==
    /\ worker[w].pc = "selected"
    /\ jobs' = [jobs EXCEPT ![worker[w].key].status = "running"]
    /\ worker' = Outdated([worker EXCEPT ![w].pc = "claimed",
                                         ![w].attempts = @ + 1])
    /\ UNCHANGED <<caller, now, faults>>

(* The UPDATE to "running" and the commit: no write came in between. *)
ClaimCommit(w) ==
    /\ worker[w].pc = "selected"
    /\ jobs' = [jobs EXCEPT ![worker[w].key].status = "running",
                            ![worker[w].key].attempts = worker[w].attempts + 1]
    /\ worker' = Outdated([worker EXCEPT ![w].pc = "claimed",
                                         ![w].attempts = @ + 1])
    /\ UNCHANGED <<caller, now, faults>>

(* The UPDATE or the commit fails and the transaction is rolled back:      *)
(* always after a write in between, else as a fault.                       *)
ClaimAbort(w) ==
    /\ \/ worker[w].pc = "stale" /\ NoFault
       \/ worker[w].pc = "selected" /\ Fault
    /\ worker' = [worker EXCEPT ![w] = Idle]
    /\ UNCHANGED <<jobs, caller, now>>

(* rejectReason, on the copy of the row that the claim returned. *)
MustReject(cred) ==
    cred.auth /\ (cred.expiry # NoExpiry => cred.expiry < now + MinFresh)

(* MarkSucceeded, MarkFailed and MarkRejected all end the iteration.  They *)
(* write the row by its id, and an error they return is only logged.       *)
Mark(w, row) ==
    /\ \/ /\ jobs' = [jobs EXCEPT ![worker[w].key] = row]
          /\ worker' = Outdated([worker EXCEPT ![w] = Idle])
          /\ NoFault
       \/ /\ worker' = [worker EXCEPT ![w] = Idle]
          /\ Fault
          /\ UNCHANGED jobs
    /\ UNCHANGED <<caller, now>>

(* Mutant: the loop continues without marking the job. *)
RejectUnmarked(w) ==
    /\ worker[w].pc = "claimed"
    /\ MustReject(worker[w].cred)
    /\ worker' = [worker EXCEPT ![w] = Idle]
    /\ UNCHANGED <<jobs, caller, now, faults>>

Reject(w) ==
    /\ worker[w].pc = "claimed"
    /\ MustReject(worker[w].cred)
    /\ Mark(w, [jobs[worker[w].key] EXCEPT !.status = "rejected"])

Start(w) ==
    /\ worker[w].pc = "claimed"
    /\ ~MustReject(worker[w].cred)
    /\ worker' = [worker EXCEPT ![w].pc = "processing"]
    /\ UNCHANGED <<jobs, caller, now, faults>>

(* Mutant: a status the rest of the store does not know. *)
SucceedMisspelt(w) ==
    /\ worker[w].pc = "processing"
    /\ Mark(w, [jobs[worker[w].key] EXCEPT !.status = "done"])

Succeed(w) ==
    /\ worker[w].pc = "processing"
    /\ Mark(w, [jobs[worker[w].key] EXCEPT !.status = "succeeded"])

Fail(w) ==
    /\ worker[w].pc = "processing"
    /\ Mark(w, [jobs[worker[w].key] EXCEPT
                  !.status = "failed",
                  !.nextRun = Horizon(now + Backoff(worker[w].attempts))])
-----------------------------------------------------------------------------
(* The process dies, or is told to stop: main does not wait for the        *)
(* workers, and their cancelled context fails every later database call.   *)
(* The table survives; opening it again changes nothing in it.             *)
Restart ==
    /\ Fault
    /\ worker' = [w \in Workers |-> Idle]
    /\ caller' = [c \in Callers |-> AtRest]
    /\ UNCHANGED <<jobs, now>>

Tick ==
    /\ now < MaxTime
    /\ now' = now + 1
    /\ UNCHANGED <<jobs, worker, caller, faults>>

Enqueue(c) == EnqueueInsert(c) \/ EnqueueSelect(c) \/ EnqueueRefresh(c)
Claim(w)   == ClaimSelect(w) \/ ClaimCommit(w) \/ ClaimAbort(w)
Execute(w) == Reject(w) \/ Start(w) \/ Succeed(w) \/ Fail(w)

Next ==
    \/ \E c \in Callers : Enqueue(c)
    \/ \E w \in Workers : Claim(w) \/ Execute(w)
    \/ Restart
    \/ Tick

Spec == Init /\ [][Next]_vars

(* The worker loop never stops polling, every attempt ends because every   *)
(* backend call has a timeout, and time passes.  Nothing is assumed of the *)
(* clients.                                                                *)
Fairness ==
    /\ WF_vars(Tick)
    /\ \A w \in Workers :
          /\ WF_vars(Claim(w))
          /\ WF_vars(Execute(w))

FairSpec == Spec /\ Fairness
-----------------------------------------------------------------------------
(* ClaimNext never hands one job to two workers. *)
ExclusiveClaim ==
    \A v, w \in Workers :
        v # w /\ Busy(v) /\ Busy(w) => worker[v].key # worker[w].key

(* While a worker executes a job its row says so, and counts this attempt: *)
(* the unconditional UPDATEs of the other goroutines never settle it,      *)
(* requeue it or hand it out again.                                        *)
HolderSeesItsClaim ==
    \A w \in Workers : Busy(w) =>
        /\ jobs[worker[w].key].status = "running"
        /\ jobs[worker[w].key].attempts = worker[w].attempts

(* No job is tried more often than migration.max_attempts allows, whatever *)
(* claims are lost, aborted or repeated.                                   *)
AttemptsBounded == \A k \in Keys : jobs[k].attempts <= MaxAttempts

Owned(k) == \E w \in Workers : Busy(w) /\ worker[w].key = k

(* Without a crash or a failing database call, a "running" row is really   *)
(* being executed: no order of enqueues, claims and marks leaves one       *)
(* behind.                                                                 *)
OrphanNeedsFault ==
    faults = 0 => \A k \in Keys : jobs[k].status = "running" => Owned(k)

Judgeable(cred) == cred.auth => cred.expiry # NoExpiry

(* A caller's token is stored with its expiry or not at all, through every *)
(* insert and every refresh, so that the worker can always judge it.       *)
TokenHasExpiry ==
    /\ \A k \in Keys : Judgeable(jobs[k].cred)
    /\ \A c \in Callers : Judgeable(caller[c].cred)

(* A job that succeeded or was rejected keeps its status for ever: a late  *)
(* mark of another worker or a second enqueue never reopens it.            *)
FinalKept ==
    \A k \in Keys : jobs[k].status \in Final => jobs'[k].status = jobs[k].status
FinalStatusKept == [][FinalKept]_vars

(* A job that runs with a caller's identity never falls back to the        *)
(* worker's own: refreshing credentials replaces them by a caller's.       *)
CallerKept ==
    \A k \in Keys : jobs[k].cred.auth => jobs'[k].cred.auth
CallerIdentityKept == [][CallerKept]_vars

(* Every queued job comes to an end: it succeeds, is rejected, has failed  *)
(* as often as it may, or was lost with its worker or its worker's mark.   *)
Ended(k) ==
    \/ jobs[k].status \in Final
    \/ jobs[k].status = "failed" /\ jobs[k].attempts = MaxAttempts
    \/ jobs[k].status = "running" /\ ~Owned(k)
EveryJobEnds ==
    \A k \in Keys : jobs[k].status \in Queued ~> Ended(k)

(* The queue keeps the promises of JobLifecycle: a worker owns the job it  *)
(* is executing.                                                           *)
statusOf   == [k \in Keys |-> jobs[k].status]
attemptsOf == [k \in Keys |-> jobs[k].attempts]
ownersOf   == [k \in Keys |-> {w \in Workers : Busy(w) /\ worker[w].key = k}]
Lifecycle  == INSTANCE JobLifecycle WITH
    status <- statusOf, attempts <- attemptsOf, owners <- ownersOf
ImplementsLifecycle == Lifecycle!Spec
-----------------------------------------------------------------------------
(* The inductive invariant.  A worker inside ClaimNext whose snapshot is   *)
(* still current has read a queued row with attempts left.                 *)
SelectedIsCurrent ==
    \A w \in Workers : worker[w].pc = "selected" =>
        /\ worker[w].key \in Keys
        /\ jobs[worker[w].key].status \in Queued
        /\ jobs[worker[w].key].attempts = worker[w].attempts
        /\ worker[w].attempts < MaxAttempts

RestingWorker ==
    \A w \in Workers : Busy(w) => worker[w].key \in Keys

WaitingCaller ==
    \A c \in Callers :
        /\ caller[c].pc # "idle" => caller[c].key \in Keys
        /\ caller[c].pc = "refresh" =>
              caller[c].cred.auth /\ jobs[caller[c].key].status # "absent"

AbsentIsBlank ==
    \A k \in Keys : jobs[k].status = "absent" => jobs[k] = NoRow

IInv ==
    /\ TypeOK
    /\ SelectedIsCurrent
    /\ RestingWorker
    /\ WaitingCaller
    /\ AbsentIsBlank
    /\ HolderSeesItsClaim
    /\ ExclusiveClaim
    /\ AttemptsBounded
    /\ OrphanNeedsFault
    /\ TokenHasExpiry
-----------------------------------------------------------------------------
(* What the documentation says and the code does not do. *)

(* SWIFT_MIGRATION_PROXY_PLAN.md, Persistence: failed jobs are retried and *)
(* job state is persisted, so a job that was started is finished, failed   *)
(* or retried, also when the process restarts.                             *)
StartedJobIsResolved ==
    \A k \in Keys : jobs[k].status = "running" ~> jobs[k].status # "running"

(* The store keeps the fresher of two tokens: sqlite_test.go,              *)
(* TestSQLiteStoreDuplicateRefreshesFresherAuth, and shouldRefreshAuth.    *)
FresherKept ==
    \A k \in Keys :
        jobs[k].cred.auth /\ jobs'[k].cred.auth =>
            jobs'[k].cred.expiry >= jobs[k].cred.expiry
TokenNeverDowngraded == [][FresherKept]_vars

(* README.md: a queued job is rejected when its token is stale. *)
RejectedTokenIsStale ==
    \A k \in Keys : jobs[k].status = "rejected" => MustReject(jobs[k].cred)
=============================================================================
