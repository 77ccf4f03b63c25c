--------------------------- MODULE ObjectMigration ---------------------------
(***************************************************************************)
(* One object in two clusters: the proxy's object handlers                 *)
(* (internal/proxy/handler.go) and the copies they start                   *)
(* (internal/migration/service.go), run by the request itself, in the      *)
(* background after the reply, or by a worker that claimed the object's    *)
(* job.                                                                    *)
(*                                                                         *)
(* A handler or a copy is a process; every call it makes to a backend is   *)
(* one step.  A call may fail, before or after it took effect.  The job is *)
(* that of JobLifecycle, which JobQueue implements: the actions that touch *)
(* it are the actions of that module.                                      *)
(*                                                                         *)
(* An object is told apart by who wrote it: "source" is the legacy object, *)
(* "posted" the legacy object with metadata set by a client, "written" an  *)
(* object uploaded by a client.  The container is assumed to be there      *)
(* once EnsureContainer succeeded; of its headers, and of those of the     *)
(* object that are compared but never copied, the model keeps whether they *)
(* differ between the clusters.                                            *)
(***************************************************************************)
EXTENDS Naturals, FiniteSets

CONSTANTS
    Requests,       \* goroutines serving clients, one request after another
    Workers,        \* goroutines running Service.worker
    Key,            \* the dedupe key of the object's copy job
    MaxAttempts,    \* migration.max_attempts
    CopyOnHeadMiss, \* migration.copy_on_head_miss
    VerifyETag,     \* migration.verify_etag
    Ops,            \* the requests that clients make
    Tokens,         \* the credentials that they make them with
    MaxFaults       \* bound: failing calls and crashes

ASSUME OpsAssumption ==
    /\ Ops \subseteq {"GET", "HEAD", "PUT", "POST", "DELETE", "LIST", "SCAN"}
    /\ Tokens \subseteq {"none", "dated", "undated"}
ASSUME SwitchAssumption == CopyOnHeadMiss \in BOOLEAN /\ VerifyETag \in BOOLEAN
ASSUME LimitAssumption == MaxAttempts \in Nat \ {0} /\ MaxFaults \in Nat
ASSUME ProcessAssumption == Requests \cap Workers = {}

VARIABLES
    ceph,      \* the object in Ceph RGW
    swift,     \* the object in legacy Swift
    pc,        \* pc[p]: the next call of process p
    req,       \* req[r]: the request that r serves, and its reply
    seen,      \* seen[r]: every object a client could have seen since r began
    status, attempts, owners,  \* the copy job, as in JobLifecycle
    dated,     \* the job carries a caller's token, which expires
    apart,     \* what differs between the clusters whatever is copied
    faults     \* how many faults happened

job  == <<status, attempts, owners>>
vars == <<ceph, swift, pc, req, seen, status, attempts, owners, dated, apart, faults>>

Job == INSTANCE JobLifecycle WITH Keys <- {Key}
-----------------------------------------------------------------------------
Procs   == Requests \cup Workers
Objects == {"none", "source", "posted", "written"}

(* The calls of a container's immediate sync, then of the copy of an       *)
(* object, in order; what a worker does with the result; the calls of the  *)
(* handlers.                                                               *)
SyncPC   == {"sync", "page"}
CopyPC   == {"ensure", "head", "get", "copyPut", "verify"}
MarkPC   == {"copied", "failed"}
ServePC  == {"read", "fallback", "container", "put", "exists", "post",
             "deleteCeph", "deleteSwift", "list"}
Request  == [op : Ops \cup {"free"}, token : Tokens \cup {"none"},
             cephSaid : {"nothing", "ok", "absent", "refused"},
             reply : Objects \cup {"pending", "ok", "error"}]
Free     == [op |-> "free", token |-> "none", cephSaid |-> "nothing", reply |-> "pending"]

TypeOK ==
    /\ ceph \in Objects
    /\ swift \in {"none", "source"}
    /\ pc \in [Procs -> {"idle"} \cup SyncPC \cup CopyPC \cup MarkPC \cup ServePC]
    /\ req \in [Requests -> Request]
    /\ seen \in [Requests -> SUBSET Objects]
    /\ dated \in BOOLEAN
    /\ apart \subseteq {"container", "object"}
    /\ faults \in 0..MaxFaults

(* What a client may be served at a moment: Ceph's object, or the legacy   *)
(* one; or neither, while a deletion is between its two steps, or when it  *)
(* ends there.                                                             *)
Deleting == \E r \in Requests : pc[r] = "deleteSwift"
Visible  == {IF ceph # "none" THEN ceph ELSE swift}
                \cup IF Deleting THEN {"none"} ELSE {}
Deleted  == IF ceph # "none" THEN {ceph'} \cap {"none"} ELSE {}

Waiting(r) == req[r].op # "free"

(* History, a part of every step: what was visible while a request waits.  *)
Watch ==
    seen' = [r \in Requests |->
        IF Waiting(r)' THEN seen[r] \cup Visible \cup Visible' \cup Deleted ELSE {}]

Fault   == faults < MaxFaults /\ faults' = faults + 1
NoFault == UNCHANGED faults

Init ==
    /\ ceph = "none"
    /\ swift \in {"none", "source"}
    /\ pc = [p \in Procs |-> "idle"]
    /\ req = [r \in Requests |-> Free]
    /\ seen = [r \in Requests |-> {}]
    /\ Job!Init
    /\ dated = FALSE
    /\ apart \in SUBSET {"container", "object"}
    /\ faults = 0

Goto(p, l)   == pc' = [pc EXCEPT ![p] = l]
Reply(r, x)  == req' = [req EXCEPT ![r] = [Free EXCEPT !.reply = x]]
Answer(r, x) == Goto(r, "idle") /\ Reply(r, x)
-----------------------------------------------------------------------------
(* Mutant: the switch of handleObject does not know POST. *)
PostForgotten(op) == IF op = "POST" THEN "unknown" ELSE "read"

(* A client makes a request: LIST lists the container of the object.  SCAN *)
(* stands for what queues the copy of an object without looking at Ceph: a *)
(* container job that found it in Swift, or the admin interface.           *)
FirstCall(op) ==
    CASE op \in {"GET", "HEAD"} -> "read"
      [] op = "PUT"             -> "container"
      [] op = "POST"            -> "exists"
      [] op = "DELETE"          -> "deleteCeph"
      [] op = "LIST"            -> "list"

Begin(r) ==
    /\ pc[r] = "idle"
    /\ \E op \in Ops \ {"SCAN"}, token \in Tokens :
          /\ req' = [req EXCEPT ![r] = [Free EXCEPT !.op = op, !.token = token]]
          /\ Goto(r, FirstCall(op))
    /\ UNCHANGED <<ceph, swift, job, dated, faults, apart>>
    /\ Watch

(* Service.enqueue of an object job: one row per object, and a row that    *)
(* is still open takes over the caller's token.                            *)
Enqueue(token) ==
    IF status[Key] = "absent"
    THEN Job!Submit(Key) /\ dated' = (token = "dated")
    ELSE /\ UNCHANGED job
         /\ dated' = (dated \/ (token = "dated" /\ status[Key] \notin Job!Final))

Scan ==
    /\ "SCAN" \in Ops
    /\ swift # "none"
    /\ \E token \in Tokens \ {"undated"} : Enqueue(token)
    /\ UNCHANGED <<ceph, swift, pc, req, faults, apart>>
    /\ Watch

(* A client sets a header of the container in Ceph that the legacy one     *)
(* does not have, or takes it away.                                        *)
SetHeader ==
    /\ apart' = IF "container" \in apart THEN apart \ {"container"} ELSE apart \cup {"container"}
    /\ UNCHANGED <<ceph, swift, pc, req, job, dated, faults>>
    /\ Watch
-----------------------------------------------------------------------------
(* Mutant: every failure of Ceph sends the read to Swift. *)
ReadFallsBack(r) ==
    /\ pc[r] = "read"
    /\ \/ ceph # "none" /\ Answer(r, ceph) /\ NoFault
       \/ ceph = "none" /\ Goto(r, "fallback") /\ UNCHANGED req /\ NoFault
       \/ Goto(r, "fallback") /\ UNCHANGED req /\ Fault
    /\ UNCHANGED <<ceph, swift, job, dated, apart>>
    /\ Watch

(* handleObjectRead: Ceph first, and Swift only after an exact 404. *)
Read(r) ==
    /\ pc[r] = "read"
    /\ \/ ceph # "none" /\ Answer(r, ceph) /\ NoFault
       \/ ceph = "none" /\ Goto(r, "fallback") /\ UNCHANGED req /\ NoFault
       \/ Answer(r, "error") /\ Fault
    /\ UNCHANGED <<ceph, swift, job, dated, apart>>
    /\ Watch

Migrates(r) == req[r].op = "GET" \/ CopyOnHeadMiss

(* The answer of Swift is the reply; before it is sent a copy is started   *)
(* in the background, or queued.  An enqueue that fails is only logged.    *)
Fallback(r) ==
    /\ pc[r] = "fallback"
    /\ \/ /\ swift = "none" \/ ~Migrates(r)
          /\ Answer(r, swift)
          /\ NoFault
          /\ UNCHANGED <<job, dated>>
       \/ /\ swift # "none" /\ Migrates(r) /\ req[r].token = "undated"
          /\ Goto(r, "ensure")
          /\ Reply(r, swift)
          /\ NoFault
          /\ UNCHANGED <<job, dated>>
       \/ /\ swift # "none" /\ Migrates(r) /\ req[r].token # "undated"
          /\ Answer(r, swift)
          /\ \/ Enqueue(req[r].token) /\ NoFault
             \/ Fault /\ UNCHANGED <<job, dated>>
       \/ /\ Answer(r, "error")
          /\ Fault
          /\ UNCHANGED <<job, dated>>
    /\ UNCHANGED <<ceph, swift, apart>>
    /\ Watch

(* headersForCredentials refuses a caller's token that has expired by now; *)
(* verifyContainerSync refuses a container whose headers differ, also one  *)
(* that a client has set in Ceph, or an owner, which nobody copies.        *)
HasDatedToken(p) == IF p \in Workers THEN dated ELSE req[p].token = "dated"
EnsureFails(p) ==
    IF HasDatedToken(p) \/ "container" \in apart THEN NoFault ELSE Fault

(* ensureTargetContainer. *)
PutContainer(r) ==
    /\ pc[r] = "container"
    /\ \/ Goto(r, "put") /\ UNCHANGED req /\ NoFault
       \/ Answer(r, "error") /\ EnsureFails(r)
    /\ UNCHANGED <<ceph, swift, job, dated, apart>>
    /\ Watch

(* proxyToCeph: the write itself. *)
PutCeph(r) ==
    /\ pc[r] = "put"
    /\ \/ ceph' = "written" /\ Answer(r, "ok") /\ NoFault
       \/ ceph' \in {ceph, "written"} /\ Answer(r, "error") /\ Fault
    /\ UNCHANGED <<swift, job, dated, apart>>
    /\ Watch

(* Mutant: a POST copies the object without looking at Ceph. *)
PostCopies(r) ==
    /\ pc[r] = "exists"
    /\ Goto(r, "ensure")
    /\ UNCHANGED <<ceph, swift, req, job, dated, faults, apart>>
    /\ Watch

(* ensureObjectPresentInCeph: an object that Ceph does not have is copied  *)
(* by the request itself, which then goes on.                              *)
PostExists(r) ==
    /\ pc[r] = "exists"
    /\ \/ Goto(r, IF ceph # "none" THEN "post" ELSE "ensure") /\ UNCHANGED req /\ NoFault
       \/ Answer(r, "error") /\ Fault
    /\ UNCHANGED <<ceph, swift, job, dated, apart>>
    /\ Watch

WithMetadata(object) == IF object = "source" THEN "posted" ELSE object

PostCeph(r) ==
    /\ pc[r] = "post"
    /\ \/ /\ ceph' = WithMetadata(ceph)
          /\ Answer(r, IF ceph = "none" THEN "none" ELSE "ok")
          /\ NoFault
       \/ /\ ceph' \in {ceph, WithMetadata(ceph)}
          /\ Answer(r, "error")
          /\ Fault
    /\ UNCHANGED <<swift, job, dated, apart>>
    /\ Watch

(* handleObjectDelete: a transport error of the first call ends it; a      *)
(* response of any status is kept, and Swift is asked in every case.       *)
DeleteCeph(r) ==
    /\ pc[r] = "deleteCeph"
    /\ \/ /\ Goto(r, "deleteSwift")
          /\ req' = [req EXCEPT ![r].cephSaid = IF ceph = "none" THEN "absent" ELSE "ok"]
          /\ ceph' = "none"
          /\ NoFault
       \/ /\ Goto(r, "deleteSwift")
          /\ req' = [req EXCEPT ![r].cephSaid = "refused"]
          /\ ceph' \in {ceph, "none"}
          /\ Fault
       \/ /\ Answer(r, "error")
          /\ ceph' \in {ceph, "none"}
          /\ Fault
    /\ UNCHANGED <<swift, job, dated, apart>>
    /\ Watch

(* The reply: Ceph's success, else Swift's, else the failure. *)
DeleteSwift(r) ==
    /\ pc[r] = "deleteSwift"
    /\ LET said == req[r].cephSaid
       IN  \/ /\ Answer(r, IF said = "ok" \/ swift # "none" THEN "ok"
                            ELSE IF said = "absent" THEN "none" ELSE "error")
              /\ swift' = "none"
              /\ NoFault
           \/ /\ Answer(r, IF said = "ok" THEN "ok" ELSE "error")
              /\ swift' \in {swift, "none"}
              /\ Fault
    /\ UNCHANGED <<ceph, job, dated, apart>>
    /\ Watch

(* handleMergedListing and enqueueContainerScan, of which matters here     *)
(* what they start: with a token without expiry an immediate sync of the   *)
(* container, after the reply; else a container job, which is SCAN.        *)
ListContainer(r) ==
    /\ pc[r] = "list"
    /\ \/ req[r].token = "undated" /\ Goto(r, "sync") /\ Reply(r, "ok") /\ NoFault
       \/ Answer(r, "ok") /\ NoFault
       \/ Answer(r, "error") /\ Fault
    /\ UNCHANGED <<ceph, swift, job, dated, apart>>
    /\ Watch
-----------------------------------------------------------------------------
(* Mutants: the worker ignores the error; a POST whose object is nowhere   *)
(* gets no reply.                                                          *)
ErrorIgnored(p, outcome) ==
    IF p \in Workers
    THEN Goto(p, "copied") /\ UNCHANGED req
    ELSE IF Waiting(p) THEN Answer(p, "error") ELSE Goto(p, "idle") /\ UNCHANGED req
AbsentUnanswered(p, outcome) ==
    Goto(p, IF p \notin Workers THEN "idle" ELSE IF outcome = "ok" THEN "copied" ELSE "failed")
    /\ UNCHANGED req

(* The end of a copy, by whichever process runs it.  A worker goes on to   *)
(* mark its job; a POST goes on to its write, or replies; a copy in the    *)
(* background is over.                                                     *)
CopyEnds(p, outcome) ==
    IF p \in Workers
    THEN Goto(p, IF outcome = "ok" THEN "copied" ELSE "failed") /\ UNCHANGED req
    ELSE IF Waiting(p)
         THEN CASE outcome = "ok"     -> Goto(p, "post") /\ UNCHANGED req
                [] outcome = "absent" -> Answer(p, "none")
                [] outcome = "error"  -> Answer(p, "error")
         ELSE Goto(p, "idle") /\ UNCHANGED req

(* headersForCredentials and EnsureContainerWithSourceAuth.  There may be  *)
(* no legacy container to differ from when the object is gone.             *)
EnsureStep(p, here, next) ==
    /\ pc[p] = here
    /\ \/ /\ "container" \notin apart \/ swift = "none"
          /\ Goto(p, next)
          /\ UNCHANGED req
          /\ NoFault
       \/ CopyEnds(p, "error") /\ EnsureFails(p)
    /\ UNCHANGED <<ceph, swift, job, dated, apart>>
    /\ Watch

(* SyncContainerNowWithSourceAuth copies what it finds in Swift, without a *)
(* look at Ceph or at the jobs; it ends with its pages, or with the first  *)
(* object whose copy fails, which may come before this one.                *)
SyncEnsure(p) == EnsureStep(p, "sync", "page")
SyncPage(p) ==
    /\ pc[p] = "page"
    /\ \/ swift # "none" /\ Goto(p, "head") /\ UNCHANGED req
       \/ CopyEnds(p, "error")
    /\ UNCHANGED <<ceph, swift, job, dated, faults, apart>>
    /\ Watch

CopyEnsure(p) == EnsureStep(p, "ensure", "head")

(* Mutant: a source that is gone is copied all the same. *)
ReadUnchecked(p, here, next) ==
    /\ pc[p] = here
    /\ Goto(p, next)
    /\ UNCHANGED <<ceph, swift, req, job, dated, faults, apart>>
    /\ Watch

(* HEAD and GET of the source: it may be gone at either. *)
CopyRead(p, here, next) ==
    /\ pc[p] = here
    /\ \/ swift # "none" /\ Goto(p, next) /\ UNCHANGED req /\ NoFault
       \/ swift = "none" /\ CopyEnds(p, "absent") /\ NoFault
       \/ CopyEnds(p, "error") /\ Fault
    /\ UNCHANGED <<ceph, swift, job, dated, apart>>
    /\ Watch

CopyHead(p) == CopyRead(p, "head", "get")
CopyGet(p)  == CopyRead(p, "get", "copyPut")

(* The PUT does not look at what Ceph has. *)
CopyPut(p) ==
    /\ pc[p] = "copyPut"
    /\ \/ ceph' = "source" /\ Goto(p, "verify") /\ UNCHANGED req /\ NoFault
       \/ ceph' \in {ceph, "source"} /\ CopyEnds(p, "error") /\ Fault
    /\ UNCHANGED <<swift, job, dated, apart>>
    /\ Watch

(* HEAD of the target and verifyObjectCopy: metadata set by a client       *)
(* differs; another body is noticed by its ETag, or perhaps not at all;    *)
(* and X-Object-Read, -Write and -Owner are compared but never copied.     *)
CopyVerify(p) ==
    /\ pc[p] = "verify"
    /\ \/ /\ ceph = "source" \/ (ceph = "written" /\ ~VerifyETag)
          /\ "object" \notin apart
          /\ CopyEnds(p, "ok")
          /\ NoFault
       \/ /\ ceph # "source" \/ "object" \in apart
          /\ CopyEnds(p, "error")
          /\ NoFault
       \/ CopyEnds(p, "error") /\ Fault
    /\ UNCHANGED <<ceph, swift, job, dated, apart>>
    /\ Watch

Copy(p) ==
    \/ SyncEnsure(p) \/ SyncPage(p)
    \/ CopyEnsure(p) \/ CopyHead(p) \/ CopyGet(p) \/ CopyPut(p) \/ CopyVerify(p)
-----------------------------------------------------------------------------
(* Mutant: failed jobs are not selected. *)
ClaimOnce(w) ==
    /\ pc[w] = "idle"
    /\ status[Key] = "pending"
    /\ Job!Claim(Key, w)
    /\ Goto(w, "ensure")
    /\ UNCHANGED <<ceph, swift, req, dated, faults, apart>>
    /\ Watch

Claim(w) ==
    /\ pc[w] = "idle"
    /\ Job!Claim(Key, w)
    /\ Goto(w, "ensure")
    /\ UNCHANGED <<ceph, swift, req, dated, faults, apart>>
    /\ Watch

(* MarkSucceeded, MarkFailed or MarkRejected; or the mark fails, and the   *)
(* job stays "running" with nobody to run it.                              *)
Mark(w, outcome) ==
    /\ Goto(w, "idle")
    /\ \/ Job!Settle(Key, w) /\ status'[Key] = outcome /\ NoFault
       \/ Job!Abandon({w}) /\ Fault
    /\ UNCHANGED <<ceph, swift, req, dated, apart>>
    /\ Watch

Reject(w)  == pc[w] = "ensure" /\ dated /\ Mark(w, "rejected")
Succeed(w) == pc[w] = "copied" /\ Mark(w, "succeeded")
Fail(w)    == pc[w] = "failed" /\ Mark(w, "failed")

(* Crash or shutdown: what runs is gone, what was written stays. *)
Restart ==
    /\ Fault
    /\ pc' = [p \in Procs |-> "idle"]
    /\ req' = [r \in Requests |-> Free]
    /\ Job!Abandon(Workers)
    /\ UNCHANGED <<ceph, swift, dated, apart>>
    /\ Watch

Serve(r) ==
    \/ Read(r) \/ Fallback(r)
    \/ PutContainer(r) \/ PutCeph(r)
    \/ PostExists(r) \/ PostCeph(r)
    \/ DeleteCeph(r) \/ DeleteSwift(r)
    \/ ListContainer(r)
Work(w) == Claim(w) \/ Reject(w) \/ Succeed(w) \/ Fail(w)

Next ==
    \/ \E r \in Requests : Begin(r) \/ Serve(r)
    \/ \E w \in Workers : Work(w)
    \/ \E p \in Procs : Copy(p)
    \/ Scan
    \/ SetHeader
    \/ Restart

Spec == Init /\ [][Next]_vars

(* Backend calls time out, so every call returns; workers keep polling.    *)
(* Clients and operators owe nothing.                                      *)
Fairness ==
    /\ \A r \in Requests : WF_vars(Serve(r))
    /\ \A w \in Workers : WF_vars(Work(w))
    /\ \A p \in Procs : WF_vars(Copy(p))

FairSpec == Spec /\ Fairness
-----------------------------------------------------------------------------
(* A read is served what the object was at some moment while the client    *)
(* waited, and a POST replies "not found" only if there was a moment       *)
(* without the object: copies that come and go between the two lookups of  *)
(* a handler never make the object vanish or go back.                      *)
HonestReply ==
    \A r \in Requests :
        Waiting(r) /\ req'[r].reply \in Objects =>
            req'[r].reply \in seen[r] \cup Visible \cup Visible'
RepliesAreHonest == [][HonestReply]_vars

(* A job is marked as succeeded only if the object really is in Ceph, and  *)
(* it stays there: a lost response, a crash or a competing copy never      *)
(* makes a job succeed that copied nothing.                                *)
SucceededMeansMigrated == status[Key] = "succeeded" => ceph # "none"

(* The object is in Ceph and nothing that could copy it is under way. *)
Lost == status[Key] = "running" /\ owners[Key] = {}
JobOver ==
    \/ status[Key] \in Job!Final \cup {"absent"}
    \/ status[Key] = "failed" /\ attempts[Key] = MaxAttempts
    \/ Lost
Quiet ==
    /\ ceph # "none"
    /\ JobOver
    /\ \A p \in Procs : pc[p] \notin SyncPC \cup CopyPC \cup {"fallback"}

(* Then migration is over, and Ceph's object belongs to the clients: reads *)
(* and updates that hit Ceph start no copy, and a scan that finds the      *)
(* legacy object again does not repeat a job that was there.  What copies  *)
(* again is a scan when there never was a job, and the immediate sync that *)
(* a listing with a token without expiry starts, every time.               *)
SyncStarts == \E r \in Requests : pc[r] = "list" /\ pc'[r] = "sync"
StaysQuiet ==
    Quiet => Quiet' \/ ceph' = "none" \/ (status[Key] = "absent" /\ Scan) \/ SyncStarts
QuietForGood == [][StaysQuiet]_vars

(* An object deleted from both clusters comes back only when a client      *)
(* uploads it, or out of a copy that already held its data: jobs still in  *)
(* the queue do not bring it back.                                         *)
Gone ==
    ceph = "none" /\ swift = "none" /\ \A p \in Procs : pc[p] # "copyPut"
StaysGone == Gone => Gone' \/ ceph' = "written"
GoneForGood == [][StaysGone]_vars

(* Every client gets an answer, whatever the backends do. *)
EveryRequestAnswered == \A r \in Requests : Waiting(r) ~> ~Waiting(r)

(* The first read of a legacy object leads to its migration, although one  *)
(* call may fail: the retry makes up for it.  The exceptions are a job     *)
(* that is lost with its worker, and a container whose headers differ at   *)
(* some time before the object is copied: then no attempt need get past    *)
(* verifyContainerSync.  An object that fails its own verification every   *)
(* time is in Ceph all the same.                                           *)
FallbackMigrates ==
    status[Key] = "pending" ~> (ceph # "none" \/ Lost \/ "container" \in apart)
-----------------------------------------------------------------------------
(* What the documentation says and the code does not do. *)

(* README.md, Object Metadata Update: an object is copied when it exists   *)
(* only in Swift.  So the legacy object never replaces one that a client   *)
(* has written to Ceph, or whose metadata a client has set there.          *)
WriteKept == ceph \in {"posted", "written"} => ceph' # "source"
WritesSurviveMigration == [][WriteKept]_vars
=============================================================================
