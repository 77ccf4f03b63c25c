# A formal model of swift-migration-api

swift-migration-api is a proxy that speaks the Swift protocol and stands in front
of two object stores: Ceph RGW, the new one, and legacy Swift. It answers requests
from Ceph, falls back to Swift after a 404, and copies what it finds only in Swift
into Ceph, at once or through a durable queue. This directory holds TLA+ modules of
the parts of it that are hard to test, the configurations with which TLC checks
them, and proofs that TLAPS checks.

    tlc -workers 2 -config queue_safety.cfg MCJobQueue.tla
    tlapm JobQueueProofs.tla     (and PoolProofs, ObjectProofs, ContainersProofs,
                                  ListingProofs, NamesProofs, OrderLemmas)

Definitions whose comment begins with "Mutant" are plausible bugs and no part of any
specification: each property is violated when one of them takes the place of the
definition that follows it. `PROJECT.json` names them.

`PROJECT.json` lists, for every definition, the source lines it models, every run,
a mutation of the model that breaks each property, the findings and the hazards.

## 1. Inventory

| Component | State | Operations | Interacts with |
|---|---|---|---|
| Job store (`internal/store/sqlite.go`) | the SQLite table `jobs`: status, attempts, credentials, next run; unique dedupe key | `Enqueue` (INSERT, or SELECT and perhaps refresh), `ClaimNext` (transaction), `MarkSucceeded/Failed/Rejected`, reads | called by enqueuing requests, scans and all workers concurrently; survives restarts |
| Migration service (`internal/migration/service.go`) | none of its own; N worker goroutines | `enqueue`, `worker`, `processJob` (object copy, container scan, account scan), `EnsureContainer`, immediate copy and sync | the store; both backends; the worker token |
| Proxy (`internal/proxy/handler.go`, `listing.go`, `path.go`) | per request only; background copies outlive the request | object GET/HEAD/PUT/POST/DELETE, merged listings, container PUT/POST/DELETE/HEAD | both backends; enqueues jobs or runs copies |
| Credentials (`internal/auth/auth.go`) | none | what a request carries, header filtering, token expiry | every call |
| Worker token (`KeystoneTokenSource`) | a cached token and its expiry under a mutex | `Token` | Keystone; all workers |
| Admin interface (`internal/admin/handler.go`) | none | enqueue object, container, account; read jobs | the service |
| Backend client (`internal/backend/backend.go`) | none | `Do`, URL building | Ceph, Swift |
| Process (`cmd/.../main.go`), configuration, logging | the root context | start, shutdown | starts the workers and the server |

What is hard, by component, with what makes it correct:

* **Queue.** Workers and requests share the table with statements that are atomic
  one by one only. Correct: a job is executed by one worker at a time, tried at most
  `max_attempts` times, never reopened once it is over, and comes to an end; an
  update of its credentials does not disturb its execution; a worker can always
  judge whether a caller's token is fresh. Crashes, failing marks, retries and
  deduplication are where this is at stake.
* **One object.** A request, background copies, a worker and other clients act on
  one object in two clusters, through calls that fail before or after they took
  effect. Correct: replies are honest, a succeeded job means a migrated object,
  migration ends, deletions stick, and clients' writes survive.
* **Listings and scans.** A page is made of two listings of different moments, and
  a sequence of pages of many moments. Correct: nothing that stays is missed, and
  Ceph's entry is preferred.
* **Containers.** Metadata and ACLs are copied at every object copy and verified;
  deletion is check-then-act over two clusters. Correct: a container never appears
  without its ACLs, overlapping synchronisations do not make each other fail, a
  client's own headers stay, replies are honest, deletions stick.
* **Worker token.** A cache with an expiry, a mutex held during a request, and
  headers used for as long as a sync runs. Correct: the mutex is always given back,
  Keystone is asked only when it must be, and no job waits for ever.
* **Names.** The same object is named by a client's path, an operator's path, a
  listing's entry, a job, a dedupe key and the URL of a backend. Correct: all of them
  name the same object, and different objects never share a job.

`PROJECT.json` lists the hazards at their lines.

## 2. The modules

    JobLifecycle ............ abstract: what a job queue promises
      ^ implemented by (checked and proved)
      |                 ^ used by (Job!Submit, Job!Claim, ...)
    JobQueue          ObjectMigration     Containers     Listing     Names
      ^ implemented by
    WorkerPool

    MCJobQueue, MCWorkerPool, MCObjectMigration,     instances for TLC
    MCContainers, MCListing, MCNames
    JobQueueProofs, PoolProofs, ObjectProofs,        proofs for TLAPS
    ContainersProofs, ListingProofs, NamesProofs,
    OrderLemmas (least and greatest numbers)

### JobLifecycle

The abstract specification, with `status`, `attempts` and `owners` (the workers
that hold a job). Its actions are `Submit`, `Claim`, `Settle`, and `Abandon` for
workers that die or fail to record an outcome. It says nothing about time,
credentials, SQL or snapshots. `ObjectMigration` uses its actions for the one job
it needs, so that it stands on what `JobQueue` was shown to implement.

### JobQueue

The table is `jobs`, a row per dedupe key. `worker[w]` is where a worker is in
`Service.worker`; it keeps the copy of the row that `ClaimNext` returned, because
the code goes on with that copy. `caller[c]` is where a goroutine is in
`SQLiteStore.Enqueue`. One action is one database statement:

| Code | Actions |
|---|---|
| `Service.enqueue`, `SQLiteStore.Enqueue` | `EnqueueInsert`; on failure `EnqueueSelect`, then perhaps `EnqueueRefresh` |
| `ClaimNext` | `ClaimSelect`, then `ClaimCommit` or `ClaimAbort` |
| `worker` after the claim | `Reject` or `Start`; then `Succeed` or `Fail` with the backoff |
| crash, SIGTERM | `Restart`: workers and callers are gone, the table stays |
| the wall clock | `Tick` |

SQLite itself is modelled from how it is used: a transaction that has read cannot
write once another connection has committed a write (`Outdated` turns a
`selected` worker into a `stale` one, which can only abort). The order by
creation time among rows that are due at the same time is nondeterministic. Every
statement may fail, as a fault. What a job does is a choice of success or failure.
`JobQueue` does not tell job types apart, as the table does not.

### WorkerPool

`JobQueue` with the token that its workers share: `KeystoneTokenSource`, a cached
token (`cached` is when it expires) under a mutex (`lock`). The execution of a job
begins with a call of `Token` unless the job carries a caller's token:

| Code | Actions |
|---|---|
| `processJob` begins, `headersForCredentials` | `PoolStart` |
| `Token`: `mu.Lock`, a look at the cache | `Lock`: returns a fresh token, or keeps the mutex |
| `Token`: the request to Keystone, its answer or failure, the deferred unlock | `Fetch` |
| the job ends; it fails without a token | `Ends` |
| a new process | `PoolRestart` |

It implements `JobQueue` (`ImplementsQueue`), so everything said about the queue
holds of workers that wait for one another. Left out are other takers of the same
mutex: a job calls `Token` again for its container and for its pages
(`service.go:136`, `201`, `354`), and a request without credentials calls it through
`EnsureContainerWithSourceAuth` or an immediate copy (`handler.go:326`, `346`, `366`).

### ObjectMigration

One object in `ceph` and in `swift`, told apart by who wrote it. Processes are
request goroutines and workers; `pc` is the next backend call; each call is one
step that succeeds, fails before it had an effect, or fails after it. A request
goroutine becomes the background copy it starts, as `runAsync` outlives the
request. The copy is `CopyEnsure`, `CopyHead`, `CopyGet`, `CopyPut`, `CopyVerify`,
the same actions for whoever runs it; `CopyEnds` is what each does with the result.
A listing with a token without expiry starts a second kind of background process, the
immediate sync of the whole container: `ListContainer`, `SyncEnsure`, `SyncPage`, and
then, when it comes to this object, the copy from `CopyHead` on.
The handlers are `Read`, `Fallback`, `PutContainer`, `PutCeph`, `PostExists`,
`PostCeph`, `DeleteCeph`, `DeleteSwift` and `ListContainer`. `apart` is what differs
between the clusters whatever is copied: a header of the container that only a client
has set, which `SetHeader` sets and removes at any time, or its owner; and the ACLs
and owner of the object, which are compared but never copied. With the one,
`EnsureContainerWithSourceAuth` fails every time; with the other, the verification of
the copy. `seen` is history: what a client could
have seen since its request began. A deletion that is between its two calls may be
seen as done or not.

### Containers

One container in both clusters: in Ceph whether it exists, who set each of its
headers (unset, the legacy value, a client's value) and whether it holds an object;
in Swift whether it is absent, empty or full, and which headers it has. `owner` says
whether the clusters agree on `X-Container-Owner`, which is compared but never copied.
A request may set or remove each header (`change`). What
`ObjectMigration` takes as one step, `EnsureContainerWithSourceAuth`, is here call by
call, run by a request that needs the container or ahead of a copy:

| Code | Actions |
|---|---|
| container PUT and POST, `ensureTargetContainer` of an upload | `Begin`, `Exists`, `Write` |
| `proxyWith404Fallback` for HEAD | `HeadCeph`, `HeadSwift` |
| `handleContainerDelete` | `ListCeph`, `ListSwift`, `DeleteCeph`, `DeleteSwift` |
| `EnsureContainerWithSourceAuth`, `verifyContainerSync` | `HeadSource`, `PutTarget`, `PostTarget`, `Verify`, and `EnsureEnds` for what each does with the result |
| a copy into the container, or a scan of it | `StartCopy`, `CopyGet`, `CopyPut` |
| deletions of its objects | `Emptied` |
| crash, shutdown | `Restart` |

A header's value in Swift never changes. The processes in `Dated` use a caller's token
that may expire at any time: `HeadSource` then fails ahead of its call. `seen` is
history again, for a copy too: that the container, or a header of it, was removed
meanwhile.

### Listing

Names are numbers, a page is a set, and a backend returns the lowest names after a
marker, as many as the client's limit and its own (`Cap`) allow. The module is the
listing of a container or of an account (`level`); an account's names are its
containers, and its scan queues container jobs where a container's queues copies.
`ListCeph`, `ListSwift` and `SwiftFails` are `handleMergedListing`, `Merge`
and `ApplyLimit` are `listing.go`; `RequestScan` is `enqueueContainerScan`, for
containers only. `ScanStart`, `ScanPage` and `ScanVisit` are the scan, as a job or
immediate (it copies at once). `Copy`, `Upload` and `Delete` are everybody else;
`Delete` is either of the two calls of a deletion. `stable` is history: names that
were there, and not being deleted, since the client began; `lister.sent` is the last
page with where its entries are from, `lister.had` what Ceph had when it was asked,
and `lister.hidden` marks the two cases in which the code loses names: a failure of
Swift that the handler hides, and a page that only one of the backends cut.

### Names

Texts are sequences of characters, any (`Characters`), few of them special. `ParseSwiftPath`
(`path.go`), `SplitPath` (`admin/handler.go`), `dedupeKey` (`service.go`) and
`BuildPath` (`backend.go`) are operators that say what the code does with a text;
`Address` is what a backend makes of the URL that `Do` sends, whose path ends at the
first `?` or `#`. `Read` is a client who
is served from Swift, which queues a job; `Operate` an operator; `Scan` a job that
finds an entry in a listing and queues the next. `asked` is history: what was meant,
and the job it led to. `Meant` is the reference for the parser: the resources that a
path can have been put together from.

## 3. The runs

| Run | Bounds | Shows |
|---|---|---|
| `queue_safety` | 2 keys, 2 workers, 2 callers, 2 attempts, tokens that expire at 1 or 2, time 0..1, 1 fault | nine properties, among them the inductive invariant of the proofs and the refinement of `JobLifecycle` |
| `queue_liveness` | `WorkerPool`: 2 keys, 2 workers, 1 caller, 2 attempts, time 0..1, Keystone tokens that live 0 or 2 with a margin of 1, 1 fault | `EveryJobEnds`, `ImplementsQueue`, `FetchedOnlyWhenStale`, `LockIsUsed` |
| `queue_stuck_running` | 1 key, 1 fault | finding: a job that runs for ever |
| `queue_token_downgrade` | 1 key, 2 callers, no fault | finding: the older token wins |
| `queue_rejected_fresh` | 1 key, no fault | finding: rejected with a fresh token in the row |
| `object_safety` | 2 clients with every method, a scan, 1 worker, 2 attempts, tokens with and without an expiry, headers that agree or not, 1 fault, ETags verified, no copy on HEAD | `RepliesAreHonest`, `QuietForGood`, `GoneForGood` |
| `object_liveness` | 2 clients (GET, POST), the worker's token or one without an expiry, headers that agree or not, 1 fault, 2 attempts, ETags not verified, copy on HEAD | `SucceededMeansMigrated`, `EveryRequestAnswered`, `FallbackMigrates` |
| `object_lost_update` | no fault | finding: a copy replaces a client's write |
| `container_safety` | 2 clients with every method and tokens that may expire, 1 copy or scan, 1 header, owners that agree or not, 1 fault | `HeadersCarried`, `ClientHeadersKept`, `EnsureFailsForCause`, `RepliesAreHonest`, `GoneForGood` |
| `listing_safety` | 4 names, both levels, a client limit of 2 or none, backends that cut at 2, scan pages of 2, 1 fault, 1 change by another client, any number of copies | `ListingComplete`, `CephPreferred`, `ScanComplete` |
| `listing_partial` | 2 names, 1 fault | finding: a failure of Swift is hidden |
| `names_safety` | all texts of up to 6 letters and slashes and a dozen with special characters or API prefixes, 2 requests or entries in turn | `PathsAreParsed`, `JobReadsWhatWasAsked`, `OneJobPerResource` |

The type invariant of each module is checked by one of its runs. Deadlock is checked
but in `names_safety`, whose number of requests is bounded.

Why the bounds are enough. Two workers and two callers are the fewest that race;
with two keys one job is disturbed by writes for another one, which is what aborts
claims. Two attempts give a first try, a retry and an end of retries. A fault is
one event; two faults repeat what one does on another job, except that they use up
two attempts, which is why `FallbackMigrates` allows fewer faults than attempts. A
Keystone token that lives 0 is stale at once, one that lives 2 is fresh and becomes
stale within its margin. Two clients and a copy are a deletion, a write and a
synchronisation at once; headers are independent of each other, so one that the
legacy container has or has not is every case. Four names and pages of two give full
pages, a short one, and the page boundary at an exact multiple. Six characters are
enough for an account, a container and an object with slashes of its own or at its
end. Requests, keys and callers are interchangeable, so the runs that check no
liveness use symmetry. The theorems of section 4 hold without these bounds.

`object_safety` and `container_safety` also use a `VIEW`: two states that differ only
in what no later step and no property reads count as one. That is the reply already
given, a token that no later call uses, what a process has seen beyond the question
that its next reply asks, and the headers and owner of a legacy container that is gone
with nobody left to synchronise it. The comments of `MCObjectMigration` and
`MCContainers` say what is left out and why. Neither run checks liveness, and TLC
judges each action property on every step it generates, also on one that leads to a
state that counts as known. An invariant it judges on one state of those that count as
the same, so the type of a field that the view leaves out is what the proofs of
section 4 establish, and not these runs.

Fairness. `WorkerPool` assumes weak fairness of the clock, of every worker's claim
and of its execution: `worker` is a loop that polls again after every outcome, the
backend client and the client of Keystone have timeouts, so an attempt ends, and a
mutex that is free is taken by one that waits. `EveryJobEnds` holds although a
claim is aborted by any other write, because an aborted claim is always due to a
write that made progress. `ObjectMigration` assumes weak fairness of each process's
calls, for the same reasons. Nothing is assumed of clients or operators.
`EveryJobEnds` and `FallbackMigrates` except the job that was lost with its worker
or its worker's mark: it stays running for ever, the finding of
`queue_stuck_running`. `FallbackMigrates` also excepts a container whose
headers differ at some time before the copy.

## 4. What is proved

All theorems hold for every finite or infinite set of keys, workers, callers,
requests, copies and headers, for every number of attempts, faults and ticks, for
every number of names and size of a page, and for texts of any length over any
characters.

| Module | Theorem | Statement |
|---|---|---|
| `JobQueueProofs` | `Invariance` | `Spec => []IInv` |
| | `TypeCorrect`, `ClaimsAreExclusive`, `HoldersSeeTheirClaims`, `AttemptsAreBounded`, `OrphansNeedFaults`, `TokensHaveExpiry` | the invariants of `queue_safety` |
| | `FinalStatusesAreKept`, `CallerIdentitiesAreKept` | its action properties |
| | `Refinement` | `Spec => Lifecycle!Spec` |
| `PoolProofs` | `PoolImplementsQueue`, `PoolImplementsLifecycle` | `PoolSpec => Spec`, and hence `Lifecycle!Spec` |
| | `PoolTypeCorrect`, `TheLockIsUsed`, `RenewedOnlyWhenStale` | the invariants of `queue_liveness` |
| `ObjectProofs` | `ObjectTypeCorrect`, `RepliesStayHonest`, `MigrationEnds`, `ObjectGoneForGood` | the properties of `object_safety` |
| | `SuccessIsMigration` | `SucceededMeansMigrated`, where no client deletes |
| `ContainersProofs` | `ContainerTypeCorrect`, `ContainerRepliesAreHonest`, `OnlyCausesMakeItFail`, `ClientHeadersAreKept`, `HeadersAreCarried`, `ContainerGoneForGood` | the properties of `container_safety` |
| `ListingProofs` | `ListingTypeCorrect`, `MergedListingIsComplete`, `ScansMissNothing`, `CephEntriesWin` | the properties of `listing_safety` |
| `NamesProofs` | `PathsAreTakenApart` | `PathsAreParsed`: parsing inverts the construction of a path |
| | `NamesTypeCorrect`, `JobsReadWhatWasAsked`, `OneJobForOneResource` | the invariants of `names_safety` |

**The queue.** None of the properties is inductive alone. That two workers never
hold one job follows from what a worker inside `ClaimNext` knows: as long as its
snapshot is current, the row it read is still queued and has the attempts it read
(`SelectedIsCurrent`). Every write to the table turns such a worker stale
(`Outdated`), so the fact need not survive the write. A worker that commits thus
moves a queued row to running, while every worker that holds a job sees its row
running (`HolderSeesItsClaim`), hence it holds another one (`ExclusiveClaim`).
`HolderSeesItsClaim` survives the marks of others because of `ExclusiveClaim`, and
survives refreshes because they write credentials only. `AttemptsBounded` needs that
a selected row has attempts left; `OrphanNeedsFault` needs that a mark is written by
the holder. `WaitingCaller` says that the row a caller is about to refresh exists
and that its new credentials are a caller's, from which `TokenHasExpiry` and
`CallerIdentityKept` follow. `IInv` is the conjunction; the proof has a lemma per
action. The refinement maps `owners[k]` to the busy workers with key `k`; steps that
touch neither a status nor a holder are stuttering steps, and a crash is `Abandon`
of all workers.

**The pool.** Each step of `WorkerPool` is one of `JobQueue` or leaves the queue's
variables alone, which is the refinement; `IInv` comes with it. The invariant of the
token is the conjunction of its three parts: the worker that asks Keystone holds the
mutex, so no other renews the token, and the clock makes no stale token fresh.

**One object.** `HInv` says of each request what its program counter means: while it
has a reply to give, that is pending; between its lookup in Ceph and the end of its
reads it has seen whatever Swift has now (`Looking`); and a POST about to write has
an object in Ceph or has seen it deleted. The steps of others preserve this because
the legacy object disappears only during a deletion, and every such moment is seen.
`QuietForGood` and `GoneForGood` are then steps from one kind of state, and need
types only: a job that is over can be neither claimed nor settled (`OverIsOver`).
For `SuccessIsMigration` the worker knows from its verification on that the object
is there (`MigratedInv`).

**One container.** `CInv` says that a process past its PUT knows the legacy headers to
be in Ceph, unless one or the container was removed since (`Synchronised`), that a header
with a legacy value is a legacy header, that a request about to write has the
container in Ceph, or found none in Swift, or it was deleted since (`Prepared`), and
that what Ceph answered to a deletion is in what the request has found
(`Remembers`). `CephChanges` lists all that can happen to the container in Ceph; the
properties of headers are read off that list.

**Listings and scans.** `LInv` says what the marker of a client means: up to it, all
names that stayed have been listed, and between the two calls for a page, those
behind it were in Ceph when it was asked or are in Swift now (`NoneMissed`). A copy
takes no name away, and a deletion takes its name out of `stable`. A scan has
handled what Swift has up to its marker, and what comes after it is on its page or,
if the page was full, behind it (`Remaining`). Both need one fact about a page
(`PageCovers`), and the listing needs it of a page merged from two that neither
backend cut alone (`MergeCovers`): it leaves out no name up to its last one, and is
empty only if there is none. That a page has a last name, and that a set with fewer
names than were asked for is listed whole, is proved without induction: every
nonempty set of numbers has a least one (`OrderLemmas`), and a subset is no larger
than its set.

**Names.** `ParseOfPath` and `PathOfParse` are the two halves of an inverse: what is
parsed from the path of a resource is the resource, and the path of what is parsed
is the path, by the positions of its first two slashes. A slash is cut off a path
exactly when it is no part of an object's name (`PathIsNormal`, `SlashedIsCut`,
`TwoSlashes`), hence a client's path is parsed as what it means and as nothing else.
`PathsAreParsed` needs no invariant, only that the API prefix found is the one after
the public prefix (`SuffixIs`). A dedupe key holds three bars, if the names of the
job hold none, and their positions tell where each name ends (`KeyNamesOneJob`);
what is escaped is read again (`AddressOfJob`). `NInv` adds that all jobs are
resources and that whoever asked has a job under his key, whose path is what he
asked for; for a client only if no character of his name ends the path or begins an
escape, as he is served from the path as it is; the jobs of scans have the paths of their jobs with a name appended.

Assumptions: those that the modules name. `TextsAssumption` says that objects have
names, and that the escapes `%20`, `%23`, `%25` and `%3F`, which are characters of the
model, are none of a text whose escapes have been read. `PrefixAssumption` says that
the public prefix holds no API prefix of its own: with one, the code finds that one,
and parses something else. `BackoffAssumption` says that the backoff
is a natural number; it is arithmetic that the prover does not know, and TLC
evaluates it in every run of the queue. `ProcessAssumption` says that no process is
both a request and a worker. `TokenAssumption` says that those with a dated token are
processes.

Only model-checked: the liveness properties (`EveryJobEnds`, `EveryRequestAnswered`,
`FallbackMigrates`), which the prover does not reach. `SucceededMeansMigrated` is
proved under the hypothesis of its run, that no client deletes the object. Every
other property of a passing run is a theorem. That the findings of section 5 are
reachable is shown by TLC alone.

## 5. What the checks found

* A job whose worker dies, or whose outcome cannot be written, stays `running` and
  is never claimed again, and its dedupe key blocks every later request for it
  (`queue_stuck_running`).
* Two concurrent enqueues with different tokens may leave the older one
  (`queue_token_downgrade`).
* A job may be rejected for a stale token after the row got a fresh one, and then it
  is over for good (`queue_rejected_fresh`).
* A copy overwrites what a client wrote to Ceph after the copy began
  (`object_lost_update`).
* A merged listing hides that Swift did not answer (`listing_partial`).

Some properties except what the code does not do, and say so in their comments. Each
exception is a behaviour that the model shows when the exception is taken away:

* a listing whose page only one backend cut, because the client's limit exceeds the
  backends' own or there is none, jumps over names (`hidden` in `Listing`);
* a scan job succeeds although it could not queue a copy (`skipped` in `Listing`);
* the deletion of a container or object that Ceph refuses is reported as a success
  when Swift deletes its own (`RepliesAreHonest` in `Containers`);
* every copy sets the container's headers that Swift has back to the legacy value
  (`ClientHeadersKept`);
* a header that only a client has set, or an `X-Container-Owner` that differs, makes
  every copy into the container fail without any call failing; one of them may also
  fail because a client removed a header or the container meanwhile, or because the
  caller's token expired (`EnsureFailsForCause`). While that lasts, a queued copy uses
  up its attempts and the object is never migrated (`FallbackMigrates`);
* an object whose ACLs or owner differ is copied, fails its verification, and is copied
  again by every attempt (`CopyVerify`);
* every listing of a container with a token without expiry copies all its objects
  again, over what clients have written, although their jobs are over
  (`QuietForGood`);
* a request that found the container in Ceph may create it without its ACLs, if it
  is deleted in between (`HeadersCarried`);
* an object comes back out of a copy that already held its data (`GoneForGood`);
* names with `+` lead a job to another object than was meant, and so do a client's
  names with `%`, `?` or `#`, who is served from the unescaped path; names with `|` may
  share a dedupe key with others; and an object whose name ends with a slash cannot be
  queued by an operator (`Ordinary` in `Names`).

## 6. Not modelled

* Values of headers and the formats of dates; which headers are forwarded. The
  object's own metadata is one value with its body.
* Listing parameters other than marker and limit (prefix, delimiter, `end_marker`),
  and a limit of zero.
* Configuration, read once; logging; the admin interface's reads and its key.
* Objects with an empty or dotted path segment: `http.ServeMux` redirects them before
  a handler sees them (`Clean` in `Names`).
* A client that disconnects, which cancels the calls of its request: a failing call
  at any of them. Bodies that break off are failing calls too.
* Direct writes to Swift by others than the proxy; changes of legacy headers.
* Later calls of `Token` by the same job, and calls by requests (section 2).
* White space at the ends of names, which the plain listing trims (`listing.go:39-44`),
  and control characters in names, which the client of the backends refuses.
* The other objects of an immediate sync: that it may end before it comes to this one
  is a choice of `SyncPage`.

## 7. Plan

1. The composition of `ObjectMigration` and `Containers`: a copy whose container is
   deleted between its synchronisation and its PUT.
2. `SuccessIsMigration` with clients that delete: what a succeeded job promises from
   the deletion on.
