----------------------------- MODULE Containers -----------------------------
(***************************************************************************)
(* One container in two clusters: the proxy's container handlers           *)
(* (internal/proxy/handler.go), the object upload that needs the container *)
(* in Ceph, and EnsureContainerWithSourceAuth of                           *)
(* internal/migration/service.go, run by a request or ahead of every copy, *)
(* call by call.                                                           *)
(*                                                                         *)
(* A handler, a copy or a scan is a process; every call it makes to a      *)
(* backend is one step, which may fail before or after it took effect.     *)
(*                                                                         *)
(* A container is its metadata and whether it holds an object.  A header,  *)
(* an ACL or an X-Container-Meta one, is told apart by who set it.         *)
(* X-Container-Owner is compared with them but never copied: of it only    *)
(* matters whether the clusters agree.                                     *)
(***************************************************************************)
EXTENDS Naturals, FiniteSets

CONSTANTS
    Requests,  \* goroutines serving clients, one request after another
    Copiers,   \* workers and background copies of objects in the container
    Dated,     \* those of them that use a caller's token with an expiry
    Headers,   \* names of the headers that filterContainerHeaders copies
    MaxFaults  \* bound: failing calls and crashes

ASSUME ProcessAssumption == Requests \cap Copiers = {}
ASSUME TokenAssumption == Dated \subseteq Requests \cup Copiers
ASSUME BoundAssumption == MaxFaults \in Nat

VARIABLES
    ceph,    \* the container in Ceph RGW
    swift,   \* the container in legacy Swift
    legacy,  \* the headers that the legacy container has
    owner,   \* whether the clusters agree on the container's owner
    pc,      \* pc[p]: the next call of process p
    req,     \* req[r]: the request that r serves, and its reply
    seen,    \* history: what could have been found since p began
    faults   \* how many faults happened

vars == <<ceph, swift, legacy, owner, pc, req, seen, faults>>
-----------------------------------------------------------------------------
Procs       == Requests \cup Copiers
Values      == {"unset", "legacy", "client"}
Meta        == [Headers -> Values]
Container   == [exists : {TRUE}, meta : Meta, full : BOOLEAN]
Bare        == [h \in Headers |-> "unset"]
NoContainer == [exists |-> FALSE, meta |-> Bare, full |-> FALSE]

EnsurePC == {"headSource", "putTarget", "postTarget", "verify"}
CopyPC   == {"copyGet", "copyPut"}
ServePC  == {"exists", "write", "headCeph", "headSwift",
             "listCeph", "listSwift", "deleteCeph", "deleteSwift"}

(* change: the headers that a request sets or removes; said: what Ceph     *)
(* answered to a DELETE, to the listing and then to the deletion.          *)
Changes  == [Headers -> {"keep", "client", "unset"}]
Keep     == [h \in Headers |-> "keep"]
Answers  == {"ok", "absent", "conflict", "refused"}
Request  == [op : {"free", "PUT", "POST", "UPLOAD", "HEAD", "DELETE"},
             change : Changes, said : Answers \cup {"nothing"},
             reply : {"pending", "ok", "none", "conflict", "error"}]
Free     == [op |-> "free", change |-> Keep, said |-> "nothing", reply |-> "pending"]

TypeOK ==
    /\ ceph \in Container \cup {NoContainer}
    /\ swift \in {"absent", "empty", "full"}
    /\ legacy \subseteq Headers
    /\ owner \in BOOLEAN
    /\ pc \in [Procs -> {"idle"} \cup EnsurePC \cup CopyPC \cup ServePC]
    /\ req \in [Requests -> Request]
    /\ seen \in [Procs -> SUBSET {"none", "conflict", "notInCeph", "deleted", "removed"}]
    /\ faults \in 0..MaxFaults

Fault   == faults < MaxFaults /\ faults' = faults + 1
NoFault == UNCHANGED faults

Init ==
    /\ ceph = NoContainer
    /\ swift \in {"absent", "empty", "full"}
    /\ legacy \in IF swift = "absent" THEN {{}} ELSE SUBSET Headers
    /\ owner \in IF swift = "absent" THEN {TRUE} ELSE BOOLEAN
    /\ pc = [p \in Procs |-> "idle"]
    /\ req = [r \in Requests |-> Free]
    /\ seen = [p \in Procs |-> {}]
    /\ faults = 0

Waiting(r) == req[r].op # "free"

(* What a client may find at a moment: no container, while it is in        *)
(* neither cluster or a deletion has begun; an object in it; and whether   *)
(* Ceph has the container.                                                 *)
Deleting == \E r \in Requests : pc[r] = "deleteSwift"
Moment ==
    (IF Deleting \/ (~ceph.exists /\ swift = "absent") THEN {"none"} ELSE {})
    \cup (IF ceph.full \/ swift = "full" THEN {"conflict"} ELSE {})
    \cup (IF ceph.exists THEN {} ELSE {"notInCeph"})

(* What a step takes away in Ceph. *)
Deleted == IF ceph.exists /\ ~ceph'.exists THEN {"deleted"} ELSE {}
Removed ==
    IF ceph'.exists /\ \E h \in Headers : ceph.meta[h] # "unset" /\ ceph'.meta[h] = "unset"
    THEN {"removed"} ELSE {}

(* History, a part of every step. *)
Watch ==
    seen' = [p \in Procs |->
        IF pc'[p] = "idle" THEN {}
        ELSE seen[p] \cup (IF p \in Copiers THEN {} ELSE Moment \cup Moment') \cup Deleted \cup Removed]

Goto(p, l)   == pc' = [pc EXCEPT ![p] = l]
Answer(r, x) == Goto(r, "idle") /\ req' = [req EXCEPT ![r] = [Free EXCEPT !.reply = x]]
-----------------------------------------------------------------------------
(* A client makes a request: container PUT and POST that set or remove     *)
(* some headers, object upload, container HEAD and DELETE.                 *)
FirstCall(op) ==
    CASE op \in {"PUT", "POST", "UPLOAD"} -> "exists"
      [] op = "HEAD"                      -> "headCeph"
      [] op = "DELETE"                    -> "listCeph"

Begin(r) ==
    /\ pc[r] = "idle"
    /\ \E op \in {"PUT", "POST", "UPLOAD", "HEAD", "DELETE"}, change \in Changes :
          /\ op \in {"UPLOAD", "HEAD", "DELETE"} => change = Keep
          /\ req' = [req EXCEPT ![r] = [Free EXCEPT !.op = op, !.change = change]]
          /\ Goto(r, FirstCall(op))
    /\ UNCHANGED <<ceph, swift, legacy, owner, faults>>
    /\ Watch

(* Mutant: the container is not looked for in Swift. *)
ExistsAssumed(r) ==
    /\ pc[r] = "exists"
    /\ Goto(r, "write")
    /\ UNCHANGED <<ceph, swift, legacy, owner, req, faults>>
    /\ Watch

(* ensureContainerIfNeeded and ensureTargetContainer. *)
Exists(r) ==
    /\ pc[r] = "exists"
    /\ \/ Goto(r, IF ceph.exists THEN "write" ELSE "headSource") /\ UNCHANGED req /\ NoFault
       \/ Answer(r, "error") /\ Fault
    /\ UNCHANGED <<ceph, swift, legacy, owner>>
    /\ Watch

(* A backend sets and removes the headers of a request, keeps the others. *)
Update(meta, change) ==
    [h \in Headers |-> IF change[h] = "keep" THEN meta[h] ELSE change[h]]
WithHeaders(c, change) ==
    [exists |-> TRUE, meta |-> Update(c.meta, change), full |-> c.full]

(* Mutant: an upload does not need the container. *)
WrittenBlindly(r) ==
    CASE req[r].op = "UPLOAD"                -> [ceph EXCEPT !.full = TRUE]
      [] req[r].op = "POST" /\ ~ceph.exists  -> NoContainer
      [] req[r].op = "PUT" \/ (req[r].op = "POST" /\ ceph.exists) -> WithHeaders(ceph, req[r].change)

(* proxyToCeph: PUT creates the container if it must, POST and the upload  *)
(* of an object need it.                                                   *)
Written(r) ==
    CASE req[r].op = "PUT"                    -> WithHeaders(ceph, req[r].change)
      [] req[r].op = "POST" /\ ceph.exists    -> WithHeaders(ceph, req[r].change)
      [] req[r].op = "UPLOAD" /\ ceph.exists  -> [ceph EXCEPT !.full = TRUE]
      [] req[r].op # "PUT" /\ ~ceph.exists    -> NoContainer

Write(r) ==
    /\ pc[r] = "write"
    /\ \/ /\ ceph' = Written(r)
          /\ Answer(r, IF Written(r).exists THEN "ok" ELSE "none")
          /\ NoFault
       \/ /\ ceph' \in {ceph, Written(r)}
          /\ Answer(r, "error")
          /\ Fault
    /\ UNCHANGED <<swift, legacy, owner>>
    /\ Watch

(* proxyWith404Fallback. *)
HeadCeph(r) ==
    /\ pc[r] = "headCeph"
    /\ \/ ceph.exists /\ Answer(r, "ok") /\ NoFault
       \/ ~ceph.exists /\ Goto(r, "headSwift") /\ UNCHANGED req /\ NoFault
       \/ Answer(r, "error") /\ Fault
    /\ UNCHANGED <<ceph, swift, legacy, owner>>
    /\ Watch

HeadSwift(r) ==
    /\ pc[r] = "headSwift"
    /\ \/ Answer(r, IF swift = "absent" THEN "none" ELSE "ok") /\ NoFault
       \/ Answer(r, "error") /\ Fault
    /\ UNCHANGED <<ceph, swift, legacy, owner>>
    /\ Watch
-----------------------------------------------------------------------------
(* handleContainerDelete: containerEmpty for both clusters. *)
CephState == IF ~ceph.exists THEN "absent" ELSE IF ceph.full THEN "conflict" ELSE "ok"
SwiftState == CASE swift = "absent" -> "absent" [] swift = "full" -> "conflict" [] swift = "empty" -> "ok"

ListCeph(r) ==
    /\ pc[r] = "listCeph"
    /\ \/ Goto(r, "listSwift") /\ req' = [req EXCEPT ![r].said = CephState] /\ NoFault
       \/ Answer(r, "error") /\ Fault
    /\ UNCHANGED <<ceph, swift, legacy, owner>>
    /\ Watch

(* Mutant: only Ceph's container is checked. *)
ListCephOnly(r) ==
    /\ pc[r] = "listSwift"
    /\ \/ req[r].said = "conflict" /\ Answer(r, "conflict")
       \/ req[r].said = "absent" /\ Answer(r, "none")
       \/ req[r].said = "ok" /\ Goto(r, "deleteCeph") /\ UNCHANGED req
    /\ UNCHANGED <<ceph, swift, legacy, owner, faults>>
    /\ Watch

ListSwift(r) ==
    /\ pc[r] = "listSwift"
    /\ LET found == {req[r].said, SwiftState}
       IN  \/ "conflict" \in found /\ Answer(r, "conflict") /\ NoFault
           \/ found = {"absent"} /\ Answer(r, "none") /\ NoFault
           \/ /\ "conflict" \notin found /\ found # {"absent"}
              /\ Goto(r, "deleteCeph")
              /\ UNCHANGED req
              /\ NoFault
           \/ Answer(r, "error") /\ Fault
    /\ UNCHANGED <<ceph, swift, legacy, owner>>
    /\ Watch

(* The deletion in Ceph, which refuses it if there is an object by now.    *)
(* Any response is kept, and Swift is asked; without one the request ends. *)
DeleteCeph(r) ==
    /\ pc[r] = "deleteCeph"
    /\ LET deleted == IF ceph.full THEN ceph ELSE NoContainer
       IN  \/ /\ ceph' = deleted
              /\ Goto(r, "deleteSwift")
              /\ req' = [req EXCEPT ![r].said = CephState]
              /\ NoFault
           \/ /\ ceph' \in {ceph, deleted}
              /\ Goto(r, "deleteSwift")
              /\ req' = [req EXCEPT ![r].said = "refused"]
              /\ Fault
           \/ /\ ceph' \in {ceph, deleted}
              /\ Answer(r, "error")
              /\ Fault
    /\ UNCHANGED <<swift, legacy, owner>>
    /\ Watch

ReplyFor(answer) ==
    CASE answer = "ok" -> "ok" [] answer = "absent" -> "none"
      [] answer = "conflict" -> "conflict" [] answer = "refused" -> "error"

(* The reply: a success of either, else Ceph's failure unless it is a 404, *)
(* else Swift's.                                                           *)
Outcome(cephSaid, swiftSaid) ==
    IF "ok" \in {cephSaid, swiftSaid} THEN "ok"
    ELSE ReplyFor(IF cephSaid # "absent" THEN cephSaid ELSE swiftSaid)

DeleteSwift(r) ==
    /\ pc[r] = "deleteSwift"
    /\ LET deleted == IF swift = "full" THEN "full" ELSE "absent"
           said    == req[r].said
       IN  \/ swift' = deleted /\ Answer(r, Outcome(said, SwiftState)) /\ NoFault
           \/ swift' \in {swift, deleted} /\ Answer(r, Outcome(said, "refused")) /\ Fault
           \/ /\ swift' \in {swift, deleted}
              /\ Answer(r, IF said = "ok" THEN "ok" ELSE "error")
              /\ Fault
    /\ UNCHANGED <<ceph, legacy, owner>>
    /\ Watch
-----------------------------------------------------------------------------
(* EnsureContainerWithSourceAuth, by whichever process runs it.  A request *)
(* goes on to its write, or reports the failure; a copy goes on whether or *)
(* not there is a source container.                                        *)
EnsureEnds(p, success) ==
    IF p \in Copiers
    THEN Goto(p, IF success THEN "copyGet" ELSE "idle") /\ UNCHANGED req
    ELSE IF success THEN Goto(p, "write") /\ UNCHANGED req ELSE Answer(p, "error")

(* A worker claims a job, or a background copy begins. *)
StartCopy(p) ==
    /\ pc[p] = "idle"
    /\ Goto(p, "headSource")
    /\ UNCHANGED <<ceph, swift, legacy, owner, req, faults>>
    /\ Watch

(* Mutant: a source that does not exist is synchronised all the same. *)
HeadIgnored(p) ==
    /\ pc[p] = "headSource"
    /\ Goto(p, "putTarget")
    /\ UNCHANGED <<ceph, swift, legacy, owner, req, faults>>
    /\ Watch

(* headersForCredentials may find the caller's token expired, ahead of the *)
(* call.                                                                   *)
HeadSource(p) ==
    /\ pc[p] = "headSource"
    /\ \/ swift # "absent" /\ Goto(p, "putTarget") /\ UNCHANGED req /\ NoFault
       \/ swift = "absent" /\ EnsureEnds(p, TRUE) /\ NoFault
       \/ EnsureEnds(p, FALSE) /\ (Fault \/ (p \in Dated /\ NoFault))
    /\ UNCHANGED <<ceph, swift, legacy, owner>>
    /\ Watch

(* Mutants: the container is created first and gets its headers later; the *)
(* headers of the source replace those of the target.                      *)
CreateBare(c)     == WithHeaders(c, Keep)
ReplaceHeaders(c) == [exists |-> TRUE, full |-> c.full,
                      meta |-> [h \in Headers |-> IF h \in legacy THEN "legacy" ELSE "unset"]]

SourceHeaders == [h \in Headers |-> IF h \in legacy THEN "legacy" ELSE "keep"]
Synced(c) == WithHeaders(c, SourceHeaders)

PutHeaders(c) == Synced(c)

(* The PUT creates the container or updates it, with the headers of the    *)
(* source; the POST sets them again if there are any.                      *)
PutTarget(p) ==
    /\ pc[p] = "putTarget"
    /\ \/ /\ ceph' = PutHeaders(ceph)
          /\ Goto(p, IF legacy # {} THEN "postTarget" ELSE "verify")
          /\ UNCHANGED req
          /\ NoFault
       \/ /\ ceph' \in {ceph, PutHeaders(ceph)}
          /\ EnsureEnds(p, FALSE)
          /\ Fault
    /\ UNCHANGED <<swift, legacy, owner>>
    /\ Watch

PostTarget(p) ==
    /\ pc[p] = "postTarget"
    /\ \/ /\ ceph.exists
          /\ ceph' = Synced(ceph)
          /\ Goto(p, "verify")
          /\ UNCHANGED req
          /\ NoFault
       \/ ~ceph.exists /\ UNCHANGED ceph /\ EnsureEnds(p, FALSE) /\ NoFault
       \/ /\ ceph' \in IF ceph.exists THEN {ceph, Synced(ceph)} ELSE {ceph}
          /\ EnsureEnds(p, FALSE)
          /\ Fault
    /\ UNCHANGED <<swift, legacy, owner>>
    /\ Watch

(* Mutant: every header that the matcher knows must be there. *)
AgreesOnAll(c) == owner /\ \A h \in Headers : c.meta[h] = "legacy"

(* compareHeaders: every header that either side has, and the owner. *)
Agrees(c) ==
    owner /\ \A h \in Headers : c.meta[h] = IF h \in legacy THEN "legacy" ELSE "unset"

(* verifyContainerSync. *)
Verify(p) ==
    /\ pc[p] = "verify"
    /\ \/ EnsureEnds(p, ceph.exists /\ Agrees(ceph)) /\ NoFault
       \/ EnsureEnds(p, FALSE) /\ Fault
    /\ UNCHANGED <<ceph, swift, legacy, owner>>
    /\ Watch

Ensure(p) == HeadSource(p) \/ PutTarget(p) \/ PostTarget(p) \/ Verify(p)

(* The copy of an object, or a scan that lists the source and ends. *)
CopyGet(p) ==
    /\ pc[p] = "copyGet"
    /\ \/ swift = "full" /\ Goto(p, "copyPut")
       \/ Goto(p, "idle")
    /\ UNCHANGED <<ceph, swift, legacy, owner, req, faults>>
    /\ Watch

(* The PUT of the object needs the container. *)
CopyPut(p) ==
    /\ pc[p] = "copyPut"
    /\ LET copied == IF ceph.exists THEN [ceph EXCEPT !.full = TRUE] ELSE ceph
       IN  \/ ceph' = copied /\ NoFault
           \/ ceph' = ceph /\ Fault
    /\ Goto(p, "idle")
    /\ UNCHANGED <<swift, legacy, owner, req>>
    /\ Watch

(* The objects are deleted by clients, in either cluster. *)
Emptied ==
    /\ \/ ceph.full /\ ceph' = [ceph EXCEPT !.full = FALSE] /\ UNCHANGED swift
       \/ swift = "full" /\ swift' = "empty" /\ UNCHANGED ceph
    /\ UNCHANGED <<legacy, owner, pc, req, faults>>
    /\ Watch

(* Crash or shutdown. *)
Restart ==
    /\ Fault
    /\ pc' = [p \in Procs |-> "idle"]
    /\ req' = [r \in Requests |-> Free]
    /\ UNCHANGED <<ceph, swift, legacy, owner>>
    /\ Watch

Serve(r) ==
    \/ Exists(r) \/ Write(r)
    \/ HeadCeph(r) \/ HeadSwift(r)
    \/ ListCeph(r) \/ ListSwift(r) \/ DeleteCeph(r) \/ DeleteSwift(r)
Copy(p) == StartCopy(p) \/ CopyGet(p) \/ CopyPut(p)

Next ==
    \/ \E r \in Requests : Begin(r) \/ Serve(r)
    \/ \E p \in Copiers : Copy(p)
    \/ \E p \in Procs : Ensure(p)
    \/ Emptied
    \/ Restart

Spec == Init /\ [][Next]_vars
-----------------------------------------------------------------------------
(* A container that appears in Ceph beside the legacy one has its ACLs and *)
(* metadata from that moment on, not only once it was synchronised.  The   *)
(* exception is a request that made sure of the container in Ceph and      *)
(* writes after another one deleted it there.                              *)
CreatedComplete ==
    ~ceph.exists /\ ceph'.exists /\ swift # "absent" =>
        \/ \A h \in legacy : ceph'.meta[h] # "unset"
        \/ \E r \in Requests : pc[r] = "write" /\ pc'[r] # "write" /\ "deleted" \in seen[r]
HeadersCarried == [][CreatedComplete]_vars

(* What a client set in a header that the legacy container does not have   *)
(* stays, whatever is synchronised meanwhile, until a client removes the   *)
(* header or the container; and a header that both have goes back to the   *)
(* legacy value only by a process that found the legacy container.         *)
ClientKept ==
    \A h \in Headers :
        ceph.meta[h] = "client" /\ ceph'.exists /\ ceph'.meta[h] # "client" =>
            \/ h \in legacy /\ \E p \in Procs : pc[p] \in {"putTarget", "postTarget"}
            \/ \E r \in Requests : pc[r] = "write" /\ req[r].change[h] = "unset"
ClientHeadersKept == [][ClientKept]_vars

(* EnsureContainer fails, and with it the request or the copy, only when a *)
(* call failed; when the caller's token expired before the first one; when *)
(* the clusters do not agree on the owner, which nobody copies; when a     *)
(* client had set a header in Ceph; or when a header or the container was  *)
(* removed there meanwhile.  Synchronisations that overlap do not make     *)
(* each other fail.                                                        *)
GivesUp(p) ==
    pc[p] \in EnsurePC /\ pc'[p] = "idle" /\ (p \in Requests => req'[p].reply = "error")
FailedForCause ==
    \A p \in Procs : GivesUp(p) /\ faults' = faults =>
        \/ p \in Dated /\ pc[p] = "headSource"
        \/ ~owner
        \/ \E h \in Headers : ceph.meta[h] = "client"
        \/ seen[p] \cap {"deleted", "removed"} # {}
EnsureFailsForCause == [][FailedForCause]_vars

(* A client is told that there is no container only if at some moment of   *)
(* its request there was none or a deletion had begun; that it is not      *)
(* empty only if at some moment it was not; and that it is deleted only if *)
(* at some moment Ceph did not have it.  The last has an exception: Ceph   *)
(* refused, and the deletion in Swift is reported as a success.            *)
Answered(r, x) == Waiting(r) /\ req'[r].reply = x
Saw(r) == seen[r] \cup Moment \cup Moment'
HonestReply ==
    \A r \in Requests :
        /\ Answered(r, "none") => Saw(r) \cap {"none", "deleted"} # {}
        /\ Answered(r, "conflict") => "conflict" \in Saw(r)
        /\ Answered(r, "ok") /\ req[r].op = "DELETE" =>
              "notInCeph" \in Saw(r) \/ req[r].said \in {"conflict", "refused"}
RepliesAreHonest == [][HonestReply]_vars

(* A container deleted from both clusters comes back only by the PUT of a  *)
(* client, or by a synchronisation that has found the legacy container:    *)
(* copies and uploads that come later do not create it.                    *)
ContainerGone ==
    /\ ~ceph.exists /\ swift = "absent"
    /\ \A p \in Procs : pc[p] # "putTarget"
StaysGone ==
    ContainerGone =>
        ContainerGone' \/ \E r \in Requests : pc[r] = "write" /\ req[r].op = "PUT"
GoneForGood == [][StaysGone]_vars
=============================================================================
