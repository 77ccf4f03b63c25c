-------------------------- MODULE ContainersProofs --------------------------
(***************************************************************************)
(* What Containers guarantees for every number of requests and copies, any *)
(* set of headers and every number of faults: the container's headers are  *)
(* carried and kept, its synchronisation fails only for a cause, replies   *)
(* are honest, and a container that is gone stays gone.                    *)
(***************************************************************************)
EXTENDS Containers, TLAPS

Locations == {"idle"} \cup EnsurePC \cup CopyPC \cup ServePC
Found     == {"none", "conflict", "notInCeph", "deleted", "removed"}
Replies   == {"ok", "none", "conflict", "error"}

LEMMA GotoType ==
    ASSUME pc \in [Procs -> Locations], NEW p \in Procs, NEW l \in Locations, Goto(p, l)
    PROVE  /\ pc' \in [Procs -> Locations]
           /\ pc'[p] = l
           /\ \A q \in Procs : q # p => pc'[q] = pc[q]
  BY DEF Goto

LEMMA AnswerType ==
    ASSUME TypeOK, NEW r \in Requests, NEW x \in Replies, Answer(r, x)
    PROVE  /\ pc' \in [Procs -> Locations] /\ pc'[r] = "idle"
           /\ \A q \in Procs : q # r => pc'[q] = pc[q]
           /\ req' \in [Requests -> Request]
           /\ ~Waiting(r)' /\ req'[r].reply = x
           /\ \A q \in Requests : q # r => req'[q] = req[q]
  <1>1. [Free EXCEPT !.reply = x] \in Request
    BY DEF Free, Request, Replies, Changes, Keep
  <1>2. [Free EXCEPT !.reply = x].op = "free" /\ [Free EXCEPT !.reply = x].reply = x
    BY DEF Free
  <1>3. req \in [Requests -> Request] /\ pc \in [Procs -> Locations] /\ r \in Procs
    BY DEF TypeOK, Locations, Procs
  <1>4. QED
    BY <1>1, <1>2, <1>3, GotoType DEF Answer, Waiting, Locations

(* What a process has found grows until it is idle again.                  *)
LEMMA WatchGrows ==
    ASSUME Watch, NEW p \in Procs, pc'[p] # "idle"
    PROVE  /\ seen[p] \cup Deleted \cup Removed \subseteq seen'[p]
           /\ p \in Requests => Moment \cup Moment' \subseteq seen'[p]
  BY ProcessAssumption DEF Watch

LEMMA WatchType ==
    ASSUME TypeOK, Watch
    PROVE  seen' \in [Procs -> SUBSET Found]
  <1>1. Moment \subseteq Found /\ Moment' \subseteq Found 
        /\ Deleted \cup Removed \subseteq Found
    BY DEF Moment, Deleted, Removed, Found
  <1>2. \A p \in Procs : seen[p] \subseteq Found
    BY DEF TypeOK, Found
  <1>3. QED
    BY <1>1, <1>2 DEF Watch
-----------------------------------------------------------------------------
(* The inductive invariant.  A process past its PUT knows that the headers *)
(* of the source are there, unless one or the container was removed since; *)
(* a request that writes knows why it may; and what a deletion was         *)
(* answered is still in what it has found.                                 *)
Carried == \A h \in legacy : ceph.meta[h] # "unset"

Synchronised(p) ==
    pc[p] \in {"postTarget", "verify"} =>
        seen[p] \cap {"deleted", "removed"} # {} \/ (ceph.exists /\ Carried)

Prepared(r) ==
    pc[r] = "write" => ceph.exists \/ swift = "absent" \/ "deleted" \in seen[r]

Remembers(r) ==
    /\ pc[r] = "headSwift" \/ (pc[r] = "listSwift" /\ req[r].said = "absent") =>
          "none" \in seen[r] \/ swift # "absent"
    /\ pc[r] \in {"listSwift", "deleteSwift"} /\ req[r].said = "conflict" =>
          "conflict" \in seen[r]
    /\ pc[r] = "deleteSwift" =>
          /\ req[r].said \in Answers
          /\ req[r].said \in {"ok", "absent"} => "notInCeph" \in seen[r]

Writes == {"PUT", "POST", "UPLOAD"}
Serving(r) ==
    /\ Waiting(r) => req[r].reply = "pending"
    /\ pc[r] \in {"exists", "write"} \cup EnsurePC => req[r].op \in Writes
    /\ pc[r] \in {"headCeph", "headSwift"} => req[r].op = "HEAD"

RequestInv(r) == Serving(r) /\ Prepared(r) /\ Remembers(r)

CInv ==
    /\ TypeOK
    /\ \A h \in Headers : ceph.meta[h] = "legacy" => h \in legacy
    /\ \A p \in Procs : Synchronised(p)
    /\ \A r \in Requests : RequestInv(r)

HonestFor(r) ==
    /\ Answered(r, "none") => Saw(r) \cap {"none", "deleted"} # {}
    /\ Answered(r, "conflict") => "conflict" \in Saw(r)
    /\ Answered(r, "ok") /\ req[r].op = "DELETE" =>
          "notInCeph" \in Saw(r) \/ req[r].said \in {"conflict", "refused"}

Cause(p) ==
    \/ p \in Dated /\ pc[p] = "headSource"
    \/ ~owner
    \/ \E h \in Headers : ceph.meta[h] = "client"
    \/ seen[p] \cap {"deleted", "removed"} # {}
CauseFor(p) == GivesUp(p) /\ faults' = faults => Cause(p)

(* What every step does to the container in either cluster.                *)
CephStep ==
    /\ ceph' \in Container \cup {NoContainer}
    /\ \A h \in Headers : ceph'.meta[h] = "legacy" => h \in legacy
SwiftStep ==
    /\ swift' \in {"absent", "empty", "full"}
    /\ swift = "absent" => swift' = "absent"
    /\ swift' = "absent" => swift = "absent" \/ Deleting

Steps == Watch /\ CephStep /\ SwiftStep /\ UNCHANGED <<legacy, owner>> /\ (Fault \/ NoFault)

Moves(p) ==
    /\ Steps
    /\ pc' \in [Procs -> Locations] /\ \A q \in Procs : q # p => pc'[q] = pc[q]
    /\ req' \in [Requests -> Request] /\ \A q \in Requests : q # p => req'[q] = req[q]

Keeps(p) ==
    /\ Moves(p)
    /\ Synchronised(p)' /\ CauseFor(p)
    /\ p \in Requests => RequestInv(p)' /\ HonestFor(p)

(* A step of another process disturbs nothing of this.                     *)
LEMMA OthersSynchronised ==
    ASSUME CInv, Steps, NEW p \in Procs, pc'[p] = pc[p]
    PROVE  Synchronised(p)' /\ CauseFor(p)
  <1>1. ASSUME pc'[p] \in {"postTarget", "verify"}
        PROVE  seen'[p] \cap {"deleted", "removed"} # {} \/ (ceph'.exists /\ Carried')
    <2>1. seen[p] \cap {"deleted", "removed"} # {} \/ (ceph.exists /\ Carried)
      BY <1>1 DEF CInv, Synchronised
    <2>2. seen[p] \cup Deleted \cup Removed \subseteq seen'[p]
      BY <1>1, WatchGrows DEF Steps
    <2>3. ceph.exists /\ ~ceph'.exists => "deleted" \in seen'[p]
      BY <2>2 DEF Deleted
    <2>4. Carried /\ ceph'.exists /\ ~Carried' => "removed" \in seen'[p]
      BY <2>2 DEF Removed, Carried, Steps, CInv, TypeOK
    <2>5. QED
      BY <2>1, <2>2, <2>3, <2>4
  <1>2. CauseFor(p)
    BY DEF CauseFor, GivesUp, EnsurePC
  <1>3. QED
    BY <1>1, <1>2 DEF Synchronised

LEMMA OthersServed ==
    ASSUME CInv, Steps, NEW r \in Requests, pc'[r] = pc[r], req'[r] = req[r]
    PROVE  RequestInv(r)' /\ HonestFor(r)
  <1>1. RequestInv(r) /\ r \in Procs
    BY DEF CInv, Procs
  <1>2. pc[r] # "idle" =>
            seen[r] \cup Deleted \cup Moment \cup Moment' \subseteq seen'[r]
    BY <1>1, WatchGrows DEF Steps
  <1>3. Serving(r)'
    BY <1>1 DEF RequestInv, Serving, Waiting
  <1>4. Prepared(r)'
    BY <1>1, <1>2 DEF RequestInv, Prepared, Steps, SwiftStep, Deleted
  <1>5. swift # "absent" /\ swift' = "absent" => "none" \in Moment
    BY DEF Steps, SwiftStep, Moment
  <1>6. Remembers(r)'
    BY <1>1, <1>2, <1>5 DEF RequestInv, Remembers
  <1>7. HonestFor(r)
    BY <1>1 DEF HonestFor, Answered, RequestInv, Serving
  <1>8. QED
    BY <1>3, <1>4, <1>6, <1>7 DEF RequestInv

LEMMA KeepsSuffices ==
    ASSUME CInv, NEW p \in Procs, Keeps(p)
    PROVE  CInv' /\ HonestReply /\ FailedForCause
  <1>1. TypeOK'
    <2>1. faults' \in 0..MaxFaults
      BY BoundAssumption DEF Keeps, Moves, Steps, Fault, NoFault, CInv, TypeOK
    <2>2. QED
      BY <2>1, WatchType
      DEF Keeps, Moves, Steps, CephStep, SwiftStep, CInv, TypeOK, Locations, Found
  <1>2. \A q \in Procs : Synchronised(q)' /\ CauseFor(q)
    BY OthersSynchronised DEF Keeps, Moves
  <1>3. \A r \in Requests : RequestInv(r)' /\ HonestFor(r)
    BY OthersServed DEF Keeps, Moves, Procs
  <1>4. \A h \in Headers : ceph'.meta[h] = "legacy" => h \in legacy'
    BY DEF Keeps, Moves, Steps, CephStep
  <1>5. QED
    BY <1>1, <1>2, <1>3, <1>4
    DEF CInv, HonestReply, HonestFor, FailedForCause, CauseFor, Cause
-----------------------------------------------------------------------------
(* The ways for a process to move.                                         *)
LEMMA AnswerKeeps ==
    ASSUME CInv, Steps, NEW r \in Requests, NEW x \in Replies, Answer(r, x),
           x = "none" => Saw(r) \cap {"none", "deleted"} # {},
           x = "conflict" => "conflict" \in Saw(r),
           x = "ok" /\ req[r].op = "DELETE" =>
               "notInCeph" \in Saw(r) \/ req[r].said \in {"conflict", "refused"},
           pc[r] \in EnsurePC /\ faults' = faults => Cause(r)
    PROVE  Keeps(r)
  <1>1. /\ pc' \in [Procs -> Locations] /\ pc'[r] = "idle"
        /\ \A q \in Procs : q # r => pc'[q] = pc[q]
        /\ req' \in [Requests -> Request]
        /\ ~Waiting(r)' /\ req'[r].reply = x
        /\ \A q \in Requests : q # r => req'[q] = req[q]
    BY AnswerType DEF CInv
  <1>2. Moves(r)
    BY <1>1 DEF Moves
  <1>3. Synchronised(r)' /\ RequestInv(r)'
    BY <1>1 DEF Synchronised, RequestInv, Serving, Prepared, Remembers, EnsurePC
  <1>4. HonestFor(r) /\ CauseFor(r)
    BY <1>1 DEF HonestFor, Answered, CauseFor, GivesUp
  <1>5. QED
    BY <1>2, <1>3, <1>4 DEF Keeps

LEMMA GotoMoves ==
    ASSUME CInv, Steps, NEW p \in Procs, NEW l \in Locations, Goto(p, l), UNCHANGED req
    PROVE  Moves(p) /\ pc'[p] = l
  BY GotoType DEF CInv, TypeOK, Locations, Moves

(* A request that goes on without an answer to remember.                   *)
LEMMA RequestGoesOn ==
    ASSUME CInv, Steps, NEW r \in Requests,
           NEW l \in {"write", "headSource", "headSwift", "deleteCeph"},
           Goto(r, l), UNCHANGED req,
           l \in {"write", "headSource"} => req[r].op \in Writes,
           l = "headSwift" => req[r].op = "HEAD",
           l = "write" => ceph.exists \/ swift' = "absent" \/ "deleted" \in seen[r],
           l = "headSwift" => "none" \in Moment' \/ swift' # "absent"
    PROVE  Keeps(r)
  <1>1. Moves(r) /\ pc'[r] = l
    BY GotoMoves DEF Procs, Locations, EnsurePC, ServePC
  <1>2. seen[r] \cup Deleted \cup Moment' \subseteq seen'[r]
    BY <1>1, WatchGrows DEF Steps, Procs
  <1>3. Serving(r)'
    BY <1>1 DEF CInv, RequestInv, Serving, Waiting, EnsurePC
  <1>4. Prepared(r)'
    BY <1>1, <1>2 DEF Prepared, Deleted
  <1>5. Remembers(r)' /\ Synchronised(r)' /\ CauseFor(r)
    BY <1>1, <1>2 DEF Remembers, Synchronised, CauseFor, GivesUp
  <1>6. HonestFor(r)
    BY DEF HonestFor, Answered, CInv, RequestInv, Serving
  <1>7. QED
    BY <1>1, <1>3, <1>4, <1>5, <1>6 DEF Keeps, RequestInv

(* A process that goes on with its synchronisation.                        *)
LEMMA EnsureGoesOn ==
    ASSUME CInv, Steps, NEW p \in Procs, NEW l \in {"putTarget", "postTarget", "verify"},
           pc[p] \in EnsurePC, Goto(p, l), UNCHANGED req,
           l # "putTarget" => ceph'.exists /\ Carried'
    PROVE  Keeps(p)
  <1>1. Moves(p) /\ pc'[p] = l
    BY GotoMoves DEF Locations, EnsurePC
  <1>2. Synchronised(p)' /\ CauseFor(p)
    BY <1>1 DEF Synchronised, CauseFor, GivesUp
  <1>3. ASSUME p \in Requests PROVE RequestInv(p)' /\ HonestFor(p)
    BY <1>1, <1>3 DEF CInv, RequestInv, Serving, Waiting, Prepared, Remembers, HonestFor, Answered
  <1>4. QED
    BY <1>1, <1>2, <1>3 DEF Keeps

LEMMA EnsureEndsKeeps ==
    ASSUME CInv, Steps, NEW p \in Procs, NEW success \in BOOLEAN,
           pc[p] \in EnsurePC, EnsureEnds(p, success),
           success => ceph.exists \/ swift' = "absent",
           ~success /\ faults' = faults => Cause(p)
    PROVE  Keeps(p)
  <1>1. CASE p \in Copiers
    <2>1. p \notin Requests /\ UNCHANGED req
      BY <1>1, ProcessAssumption DEF EnsureEnds
    <2>2. PICK l \in {"copyGet", "idle"} : Goto(p, l) /\ (l = "idle" => ~success)
      BY <1>1 DEF EnsureEnds
    <2>3. Moves(p) /\ pc'[p] = l
      BY <2>1, <2>2, GotoMoves DEF Locations, CopyPC
    <2>4. Synchronised(p)' /\ CauseFor(p)
      BY <2>2, <2>3 DEF Synchronised, CauseFor, GivesUp
    <2>5. QED
      BY <2>1, <2>3, <2>4 DEF Keeps
  <1>2. CASE p \notin Copiers /\ success
    <2>1. p \in Requests /\ Goto(p, "write") /\ UNCHANGED req
      BY <1>2 DEF Procs, EnsureEnds
    <2>2. req[p].op \in Writes
      BY <2>1 DEF CInv, RequestInv, Serving
    <2>3. QED
      BY <1>2, <2>1, <2>2, RequestGoesOn
  <1>3. CASE p \notin Copiers /\ ~success
    <2>1. p \in Requests /\ Answer(p, "error")
      BY <1>3 DEF Procs, EnsureEnds
    <2>2. QED
      BY <1>3, <2>1, AnswerKeeps DEF Replies
  <1>4. QED
    BY <1>1, <1>2, <1>3

LEMMA FaultCounts ==
    ASSUME TypeOK, Fault
    PROVE  faults' # faults
  <1>1. \A n \in Nat : n + 1 # n
    OBVIOUS
  <1>2. faults \in Nat
    BY BoundAssumption DEF TypeOK
  <1>3. QED
    BY <1>1, <1>2 DEF Fault
-----------------------------------------------------------------------------
(* What a step may make of the container.                                  *)
LEMMA HeadersOf ==
    ASSUME NEW change, NEW h \in Headers
    PROVE  WithHeaders(ceph, change).meta[h] =
               IF change[h] = "keep" THEN ceph.meta[h] ELSE change[h]
  BY DEF WithHeaders, Update

LEMMA HeadersType ==
    ASSUME CInv, NEW change \in [Headers -> Values \cup {"keep"}],
           \A h \in Headers : change[h] = "legacy" => h \in legacy
    PROVE  LET c == WithHeaders(ceph, change)
           IN  c \in Container /\ c.exists /\ (ceph' = c => CephStep)
  <1>1. ceph.meta \in Meta /\ ceph.full \in BOOLEAN
    <2>1. CASE ceph \in Container
      BY <2>1 DEF Container
    <2>2. CASE ceph = NoContainer
      BY <2>2 DEF NoContainer, Bare, Meta, Values
    <2>3. QED
      BY <2>1, <2>2 DEF CInv, TypeOK
  <1>2. Update(ceph.meta, change) \in Meta
    BY <1>1 DEF Update, Meta
  <1> DEFINE c == WithHeaders(ceph, change)
  <1>3. c.exists /\ c \in Container
    BY <1>1, <1>2 DEF WithHeaders, Container
  <1>4. \A h \in Headers : c.meta[h] = "legacy" => h \in legacy
    BY HeadersOf DEF CInv
  <1> HIDE DEF c
  <1>5. ceph' = c => CephStep
    BY <1>3, <1>4 DEF CephStep
  <1>6. QED
    BY <1>3, <1>5 DEF c

LEMMA SameCeph ==
    ASSUME CInv, ceph' = ceph \/ ceph' = NoContainer
                 \/ (ceph.exists /\ \E b \in BOOLEAN : ceph' = [ceph EXCEPT !.full = b])
    PROVE  CephStep
  <1>1. CASE ceph' = ceph
    BY <1>1 DEF CephStep, CInv, TypeOK
  <1>2. CASE ceph' = NoContainer
    BY <1>2 DEF CephStep, NoContainer, Bare
  <1>3. CASE ceph.exists /\ \E b \in BOOLEAN : ceph' = [ceph EXCEPT !.full = b]
    <2>1. ceph \in Container
      BY <1>3 DEF CInv, TypeOK, NoContainer
    <2>2. PICK b \in BOOLEAN : ceph' = [ceph EXCEPT !.full = b]
      BY <1>3
    <2>3. ceph' \in Container /\ ceph'.meta = ceph.meta
      BY <2>1, <2>2 DEF Container
    <2>4. QED
      BY <2>3 DEF CephStep, CInv
  <1>4. QED
    BY <1>1, <1>2, <1>3
-----------------------------------------------------------------------------
(* One lemma per call.                                                     *)
LEMMA ReadSteps ==
    ASSUME CInv, UNCHANGED <<ceph, swift, legacy, owner>>, Watch, Fault \/ NoFault
    PROVE  Steps
  BY SameCeph DEF Steps, SwiftStep, CInv, TypeOK

LEMMA BeginKeeps ==
    ASSUME CInv, NEW r \in Requests, Begin(r)
    PROVE  Keeps(r)
  <1>1. Steps
    BY ReadSteps DEF Begin, NoFault
  <1>2. PICK op \in {"PUT", "POST", "UPLOAD", "HEAD", "DELETE"}, change \in Changes :
            /\ req' = [req EXCEPT ![r] = [Free EXCEPT !.op = op, !.change = change]]
            /\ Goto(r, FirstCall(op))
    BY DEF Begin
  <1>3. /\ FirstCall(op) \in {"exists", "headCeph", "listCeph"}
        /\ FirstCall(op) = "exists" => op \in Writes
        /\ FirstCall(op) = "headCeph" => op = "HEAD"
    BY DEF FirstCall, Writes
  <1>4. /\ [Free EXCEPT !.op = op, !.change = change] \in Request
        /\ [Free EXCEPT !.op = op, !.change = change].op = op
        /\ [Free EXCEPT !.op = op, !.change = change].reply = "pending"
    BY DEF Free, Request
  <1>5. /\ req' \in [Requests -> Request] /\ \A q \in Requests : q # r => req'[q] = req[q]
        /\ req'[r].op = op /\ req'[r].reply = "pending"
    BY <1>2, <1>4 DEF CInv, TypeOK
  <1>6. /\ pc' \in [Procs -> Locations] /\ pc'[r] = FirstCall(op)
        /\ \A q \in Procs : q # r => pc'[q] = pc[q]
    BY <1>2, <1>3, GotoType DEF CInv, TypeOK, Locations, Procs, ServePC
  <1>7. Moves(r)
    BY <1>1, <1>5, <1>6 DEF Moves
  <1>8. RequestInv(r)' /\ Synchronised(r)' /\ CauseFor(r) /\ HonestFor(r)
    BY <1>3, <1>5, <1>6
    DEF RequestInv, Serving, Prepared, Remembers, Synchronised, CauseFor, GivesUp,
        HonestFor, Answered, EnsurePC
  <1>9. QED
    BY <1>7, <1>8 DEF Keeps

LEMMA ExistsKeeps ==
    ASSUME CInv, NEW r \in Requests, Exists(r)
    PROVE  Keeps(r)
  <1>1. Steps /\ pc[r] = "exists" /\ req[r].op \in Writes
    BY ReadSteps DEF Exists, CInv, RequestInv, Serving
  <1>2. CASE Goto(r, "write") /\ ceph.exists /\ UNCHANGED req
    BY <1>1, <1>2, RequestGoesOn
  <1>3. CASE Goto(r, "headSource") /\ UNCHANGED req
    BY <1>1, <1>3, RequestGoesOn
  <1>4. CASE Answer(r, "error")
    BY <1>1, <1>4, AnswerKeeps DEF Replies, EnsurePC
  <1>5. QED
    BY <1>2, <1>3, <1>4 DEF Exists

LEMMA WrittenStep ==
    ASSUME CInv, NEW r \in Requests, pc[r] = "write", ceph' \in {ceph, Written(r)}
    PROVE  CephStep /\ Written(r).exists \in BOOLEAN
  <1>1. /\ req[r].change \in [Headers -> Values \cup {"keep"}]
        /\ \A h \in Headers : req[r].change[h] # "legacy"
    BY DEF CInv, TypeOK, Request, Changes, Values
  <1>2. CASE Written(r) = WithHeaders(ceph, req[r].change)
    <2>1. /\ Written(r) \in Container
          /\ ceph' = Written(r) => CephStep
      BY <1>1, <1>2, HeadersType
    <2>2. QED
      BY <2>1, SameCeph DEF Container
  <1>3. CASE ceph.exists /\ Written(r) = [ceph EXCEPT !.full = TRUE]
    <2>1. ceph \in Container
      BY <1>3 DEF CInv, TypeOK, NoContainer
    <2>2. QED
      BY <1>3, <2>1, SameCeph DEF Container
  <1>4. CASE Written(r) = NoContainer
    BY <1>4, SameCeph DEF NoContainer
  <1>5. \/ Written(r) = WithHeaders(ceph, req[r].change)
        \/ ceph.exists /\ Written(r) = [ceph EXCEPT !.full = TRUE]
        \/ Written(r) = NoContainer
    BY DEF Written, CInv, RequestInv, Serving, Writes
  <1>6. QED
    BY <1>2, <1>3, <1>4, <1>5

LEMMA WriteKeeps ==
    ASSUME CInv, NEW r \in Requests, Write(r)
    PROVE  Keeps(r)
  <1>1. /\ pc[r] = "write" /\ req[r].op \in Writes
        /\ ceph.exists \/ swift = "absent" \/ "deleted" \in seen[r]
    BY DEF Write, CInv, RequestInv, Serving, Prepared
  <1>2. CephStep /\ Written(r).exists \in BOOLEAN
    BY <1>1, WrittenStep DEF Write
  <1>3. Steps
    BY <1>2 DEF Write, Steps, SwiftStep, CInv, TypeOK
  <1>4. CASE Answer(r, "error") \/ Answer(r, "ok")
    BY <1>1, <1>3, <1>4, AnswerKeeps DEF Replies, EnsurePC, Writes
  <1>5. CASE Answer(r, "none") /\ ~Written(r).exists
    <2>1. ~ceph.exists
      BY <1>1, <1>5 DEF Written, WithHeaders, Writes, CInv, TypeOK, Container
    <2>2. "none" \in Moment \/ "deleted" \in seen[r]
      BY <1>1, <2>1 DEF Moment
    <2>3. QED
      BY <1>1, <1>3, <1>5, <2>2, AnswerKeeps DEF Replies, EnsurePC, Saw
  <1>6. QED
    BY <1>2, <1>4, <1>5 DEF Write

LEMMA HeadKeeps ==
    ASSUME CInv, NEW r \in Requests, HeadCeph(r) \/ HeadSwift(r)
    PROVE  Keeps(r)
  <1>1. Steps /\ req[r].op = "HEAD" /\ pc[r] \in {"headCeph", "headSwift"}
    BY ReadSteps DEF HeadCeph, HeadSwift, CInv, RequestInv, Serving
  <1>2. CASE Answer(r, "error") \/ Answer(r, "ok")
    BY <1>1, <1>2, AnswerKeeps DEF Replies, EnsurePC
  <1>3. CASE HeadCeph(r) /\ ~ceph.exists /\ Goto(r, "headSwift") /\ UNCHANGED req
    <2>1. "none" \in Moment' \/ swift' # "absent"
      BY <1>3 DEF HeadCeph, Moment
    <2>2. QED
      BY <1>1, <1>3, <2>1, RequestGoesOn
  <1>4. CASE HeadSwift(r) /\ swift = "absent" /\ Answer(r, "none")
    <2>1. "none" \in seen[r]
      BY <1>4 DEF HeadSwift, CInv, RequestInv, Remembers
    <2>2. QED
      BY <1>1, <1>4, <2>1, AnswerKeeps DEF Replies, EnsurePC, Saw
  <1>5. QED
    BY <1>2, <1>3, <1>4 DEF HeadCeph, HeadSwift

(* A deletion that takes note of an answer of Ceph.                        *)
LEMMA NoteKeeps ==
    ASSUME CInv, Steps, NEW r \in Requests, NEW l \in {"listSwift", "deleteSwift"},
           NEW said \in Answers, pc[r] \in {"listCeph", "deleteCeph"},
           Goto(r, l), req' = [req EXCEPT ![r].said = said],
           said = "conflict" => "conflict" \in Moment,
           l = "deleteSwift" /\ said \in {"ok", "absent"} =>
               "notInCeph" \in Moment \cup Moment',
           l = "listSwift" /\ said = "absent" => "none" \in Moment' \/ swift' # "absent"
    PROVE  Keeps(r)
  <1>1. /\ pc' \in [Procs -> Locations] /\ pc'[r] = l
        /\ \A q \in Procs : q # r => pc'[q] = pc[q]
    BY GotoType DEF CInv, TypeOK, Locations, Procs, ServePC
  <1>2. /\ req' \in [Requests -> Request] /\ \A q \in Requests : q # r => req'[q] = req[q]
        /\ req'[r].op = req[r].op /\ req'[r].reply = req[r].reply /\ req'[r].said = said
    BY DEF CInv, TypeOK, Request
  <1>3. Moves(r)
    BY <1>1, <1>2 DEF Moves
  <1>4. Moment \cup Moment' \subseteq seen'[r]
    BY <1>1, WatchGrows DEF Steps, Procs
  <1>5. Serving(r)' /\ HonestFor(r)
    BY <1>1, <1>2
    DEF CInv, RequestInv, Serving, Waiting, EnsurePC, HonestFor, Answered
  <1>6. Remembers(r)'
    BY <1>1, <1>2, <1>4 DEF Remembers
  <1>7. Prepared(r)' /\ Synchronised(r)' /\ CauseFor(r)
    BY <1>1 DEF Prepared, Synchronised, CauseFor, GivesUp
  <1>8. QED
    BY <1>3, <1>5, <1>6, <1>7 DEF Keeps, RequestInv

LEMMA ListCephKeeps ==
    ASSUME CInv, NEW r \in Requests, ListCeph(r)
    PROVE  Keeps(r)
  <1>1. Steps /\ pc[r] = "listCeph"
    BY ReadSteps DEF ListCeph
  <1>2. CASE Answer(r, "error")
    BY <1>1, <1>2, AnswerKeeps DEF Replies, EnsurePC
  <1>3. CASE Goto(r, "listSwift") /\ req' = [req EXCEPT ![r].said = CephState]
    <2>1. CephState \in Answers /\ (CephState = "conflict" => "conflict" \in Moment)
      BY DEF CephState, Answers, Moment
    <2>2. CephState = "absent" => "none" \in Moment' \/ swift' # "absent"
      BY DEF ListCeph, CephState, Moment
    <2>3. QED
      BY <1>1, <1>3, <2>1, <2>2, NoteKeeps
  <1>4. QED
    BY <1>2, <1>3 DEF ListCeph

LEMMA ListSwiftKeeps ==
    ASSUME CInv, NEW r \in Requests, ListSwift(r)
    PROVE  Keeps(r)
  <1>1. Steps /\ pc[r] = "listSwift" /\ swift \in {"absent", "empty", "full"}
    BY ReadSteps DEF ListSwift, CInv, TypeOK
  <1>2. CASE Answer(r, "error")
    BY <1>1, <1>2, AnswerKeeps DEF Replies, EnsurePC
  <1>3. CASE "conflict" \in {req[r].said, SwiftState} /\ Answer(r, "conflict")
    <2>1. "conflict" \in Saw(r)
      BY <1>1, <1>3 DEF SwiftState, Saw, Moment, CInv, RequestInv, Remembers
    <2>2. QED
      BY <1>1, <1>3, <2>1, AnswerKeeps DEF Replies, EnsurePC
  <1>4. CASE {req[r].said, SwiftState} = {"absent"} /\ Answer(r, "none")
    <2>1. req[r].said = "absent" /\ swift = "absent"
      BY <1>1, <1>4 DEF SwiftState
    <2>2. "none" \in seen[r]
      BY <1>1, <2>1 DEF CInv, RequestInv, Remembers
    <2>3. QED
      BY <1>1, <1>4, <2>2, AnswerKeeps DEF Replies, EnsurePC, Saw
  <1>5. CASE Goto(r, "deleteCeph") /\ UNCHANGED req
    BY <1>1, <1>5, RequestGoesOn
  <1>6. QED
    BY <1>2, <1>3, <1>4, <1>5 DEF ListSwift

LEMMA DeleteCephKeeps ==
    ASSUME CInv, NEW r \in Requests, DeleteCeph(r)
    PROVE  Keeps(r)
  <1>1. ceph' = ceph \/ ceph' = NoContainer
    BY DEF DeleteCeph
  <1>2. Steps /\ pc[r] = "deleteCeph"
    BY <1>1, SameCeph DEF DeleteCeph, Steps, SwiftStep, CInv, TypeOK
  <1>3. CASE Answer(r, "error")
    BY <1>2, <1>3, AnswerKeeps DEF Replies, EnsurePC
  <1>4. CASE Goto(r, "deleteSwift") /\ req' = [req EXCEPT ![r].said = "refused"]
    BY <1>2, <1>4, NoteKeeps DEF Answers
  <1>5. CASE /\ Goto(r, "deleteSwift") /\ req' = [req EXCEPT ![r].said = CephState]
             /\ ceph' = IF ceph.full THEN ceph ELSE NoContainer
    <2>1. CephState \in Answers /\ (CephState = "conflict" => "conflict" \in Moment)
      BY DEF CephState, Answers, Moment
    <2>2. CephState \in {"ok", "absent"} => "notInCeph" \in Moment \cup Moment'
      BY <1>5 DEF CephState, Moment, NoContainer
    <2>3. QED
      BY <1>2, <1>5, <2>1, <2>2, NoteKeeps
  <1>6. QED
    BY <1>3, <1>4, <1>5 DEF DeleteCeph

LEMMA OutcomeType ==
    ASSUME NEW cephSaid \in Answers, NEW swiftSaid \in Answers
    PROVE  /\ Outcome(cephSaid, swiftSaid) \in Replies
           /\ Outcome(cephSaid, swiftSaid) = "conflict" =>
                  "conflict" \in {cephSaid, swiftSaid}
  <1>1. \A answer \in Answers :
            /\ ReplyFor(answer) \in Replies
            /\ ReplyFor(answer) = "conflict" => answer = "conflict"
    BY DEF ReplyFor, Replies, Answers
  <1>2. QED
    BY <1>1 DEF Outcome, Replies

LEMMA DeleteSwiftKeeps ==
    ASSUME CInv, NEW r \in Requests, DeleteSwift(r)
    PROVE  Keeps(r)
  <1>1. /\ pc[r] = "deleteSwift" /\ swift \in {"absent", "empty", "full"}
        /\ Deleting /\ "none" \in Moment
    BY DEF DeleteSwift, CInv, TypeOK, Deleting, Moment
  <1>2. swift' = swift \/ (swift' = "absent" /\ swift # "full")
    BY DEF DeleteSwift
  <1>3. Steps
    BY <1>1, <1>2, SameCeph DEF DeleteSwift, Steps, SwiftStep
  <1>4. req[r].said = "conflict" => "conflict" \in Saw(r)
    BY <1>1 DEF CInv, RequestInv, Remembers, Saw
  <1>5. req[r].said \in {"ok", "absent"} => "notInCeph" \in Saw(r)
    BY <1>1 DEF CInv, RequestInv, Remembers, Saw
  <1>6. SwiftState = "conflict" => "conflict" \in Saw(r)
    BY <1>1 DEF SwiftState, Moment, Saw
  <1>7. req[r].said \in Answers /\ SwiftState \in Answers /\ "refused" \in Answers
    BY <1>1 DEF CInv, RequestInv, Remembers, SwiftState, Answers
  <1>8. ASSUME NEW x \in Replies, Answer(r, x), x = "conflict" => "conflict" \in Saw(r)
        PROVE  Keeps(r)
    <2>1. req[r].said \in {"ok", "absent"} \/ req[r].said \in {"conflict", "refused"}
      BY <1>7 DEF Answers
    <2>2. QED
      BY <1>1, <1>3, <1>5, <1>8, <2>1, AnswerKeeps DEF EnsurePC, Saw
  <1>9. ASSUME NEW said \in {SwiftState, "refused"}, Answer(r, Outcome(req[r].said, said))
        PROVE  Keeps(r)
    <2>1. /\ Outcome(req[r].said, said) \in Replies
          /\ Outcome(req[r].said, said) = "conflict" => "conflict" \in {req[r].said, said}
      BY <1>7, OutcomeType
    <2>2. QED
      BY <1>4, <1>6, <1>8, <1>9, <2>1
  <1>10. CASE Answer(r, "ok") \/ Answer(r, "error")
    BY <1>8, <1>10 DEF Replies
  <1>11. QED
    BY <1>9, <1>10 DEF DeleteSwift

LEMMA SyncedStep ==
    ASSUME CInv, ceph' \in {ceph, Synced(ceph)}
    PROVE  /\ CephStep
           /\ ceph' = Synced(ceph) => ceph'.exists /\ \A h \in legacy : ceph'.meta[h] # "unset"
  <1>1. /\ SourceHeaders \in [Headers -> Values \cup {"keep"}]
        /\ \A h \in Headers : SourceHeaders[h] = IF h \in legacy THEN "legacy" ELSE "keep"
    BY DEF SourceHeaders, Values
  <1>2. Synced(ceph).exists /\ (ceph' = Synced(ceph) => CephStep)
    BY <1>1, HeadersType DEF Synced
  <1>3. \A h \in legacy : Synced(ceph).meta[h] = "legacy"
    BY <1>1, HeadersOf DEF Synced, CInv, TypeOK
  <1>4. QED
    BY <1>2, <1>3, SameCeph

LEMMA EnsureKeeps ==
    ASSUME CInv, NEW p \in Procs, Ensure(p)
    PROVE  Keeps(p)
  <1>1. pc[p] \in EnsurePC /\ TypeOK
    BY DEF Ensure, HeadSource, PutTarget, PostTarget, Verify, EnsurePC, CInv
  <1>2. ceph' \in {ceph, Synced(ceph)}
    BY DEF Ensure, HeadSource, PutTarget, PutHeaders, PostTarget, Verify
  <1>3. Steps
    BY <1>1, <1>2, SyncedStep
    DEF Ensure, HeadSource, PutTarget, PostTarget, Verify, Steps, SwiftStep, TypeOK
  <1>4. CASE EnsureEnds(p, FALSE) /\ Fault
    BY <1>1, <1>3, <1>4, FaultCounts, EnsureEndsKeeps
  <1>5. CASE HeadSource(p)
    <2>1. CASE Goto(p, "putTarget") /\ UNCHANGED req
      BY <1>1, <1>3, <2>1, EnsureGoesOn
    <2>2. CASE swift = "absent" /\ EnsureEnds(p, TRUE)
      BY <1>1, <1>3, <1>5, <2>2, EnsureEndsKeeps DEF HeadSource
    <2>3. CASE EnsureEnds(p, FALSE) /\ p \in Dated
      BY <1>1, <1>3, <1>5, <2>3, EnsureEndsKeeps DEF HeadSource, Cause
    <2>4. QED
      BY <1>4, <1>5, <2>1, <2>2, <2>3 DEF HeadSource
  <1>6. CASE PutTarget(p)
    <2>1. CASE ceph' = PutHeaders(ceph) /\ UNCHANGED req
               /\ Goto(p, IF legacy # {} THEN "postTarget" ELSE "verify")
      <3>1. ceph'.exists /\ Carried'
        BY <1>2, <1>6, <2>1, SyncedStep DEF PutHeaders, PutTarget, Carried
      <3>2. QED
        BY <1>1, <1>3, <2>1, <3>1, EnsureGoesOn
    <2>2. QED
      BY <1>4, <1>6, <2>1 DEF PutTarget
  <1>7. CASE PostTarget(p)
    <2>1. CASE ceph' = Synced(ceph) /\ UNCHANGED req /\ Goto(p, "verify")
      <3>1. ceph'.exists /\ Carried'
        BY <1>2, <1>7, <2>1, SyncedStep DEF PostTarget, Carried
      <3>2. QED
        BY <1>1, <1>3, <2>1, <3>1, EnsureGoesOn
    <2>2. CASE ~ceph.exists /\ EnsureEnds(p, FALSE)
      <3>1. Cause(p)
        BY <1>7, <2>2 DEF PostTarget, CInv, Synchronised, Cause
      <3>2. QED
        BY <1>1, <1>3, <2>2, <3>1, EnsureEndsKeeps
    <2>3. QED
      BY <1>4, <1>7, <2>1, <2>2 DEF PostTarget
  <1>8. CASE Verify(p)
    <2>1. CASE EnsureEnds(p, ceph.exists /\ Agrees(ceph))
      <3>1. CASE ceph.exists /\ Agrees(ceph)
        BY <1>1, <1>3, <2>1, <3>1, EnsureEndsKeeps
      <3>2. CASE ~(ceph.exists /\ Agrees(ceph))
        <4>1. seen[p] \cap {"deleted", "removed"} # {} \/ (ceph.exists /\ Carried)
          BY <1>8 DEF Verify, CInv, Synchronised
        <4>2. ASSUME ceph.exists, Carried, ~Agrees(ceph), owner
              PROVE  \E h \in Headers : ceph.meta[h] = "client"
          <5>1. PICK h \in Headers : ceph.meta[h] # IF h \in legacy THEN "legacy" ELSE "unset"
            BY <4>2 DEF Agrees
          <5>2. ceph \in Container
            BY <4>2 DEF CInv, TypeOK, NoContainer
          <5>3. ceph.meta[h] \in {"unset", "legacy", "client"}
            BY <5>2 DEF Container, Meta, Values
          <5>4. QED
            BY <4>2, <5>1, <5>3 DEF CInv, Carried
        <4>3. Cause(p)
          BY <3>2, <4>1, <4>2 DEF Cause
        <4>4. EnsureEnds(p, FALSE)
          BY <2>1, <3>2 DEF EnsureEnds
        <4>5. QED
          BY <1>1, <1>3, <4>3, <4>4, EnsureEndsKeeps
      <3>3. QED
        BY <3>1, <3>2
    <2>2. QED
      BY <1>4, <1>8, <2>1 DEF Verify
  <1>9. QED
    BY <1>5, <1>6, <1>7, <1>8 DEF Ensure

LEMMA CopyKeeps ==
    ASSUME CInv, NEW p \in Copiers, Copy(p)
    PROVE  Keeps(p)
  <1>1. p \in Procs /\ p \notin Requests
    BY ProcessAssumption DEF Procs
  <1>2. PICK l \in {"headSource", "copyPut", "idle"} : Goto(p, l)
    BY DEF Copy, StartCopy, CopyGet, CopyPut
  <1>3. ceph' = ceph \/ (ceph.exists /\ ceph' = [ceph EXCEPT !.full = TRUE])
    BY DEF Copy, StartCopy, CopyGet, CopyPut
  <1>4. Steps /\ UNCHANGED req
    BY <1>3, SameCeph DEF Copy, StartCopy, CopyGet, CopyPut, Steps, SwiftStep, CInv, TypeOK, NoFault
  <1>5. Moves(p) /\ pc'[p] = l
    BY <1>1, <1>2, <1>4, GotoMoves DEF Locations, EnsurePC, CopyPC
  <1>6. pc[p] \notin EnsurePC
    BY DEF Copy, StartCopy, CopyGet, CopyPut, EnsurePC
  <1>7. QED
    BY <1>1, <1>5, <1>6 DEF Keeps, Synchronised, CauseFor, GivesUp
-----------------------------------------------------------------------------
LEMMA EmptiedKeeps ==
    ASSUME CInv, Emptied
    PROVE  CInv' /\ HonestReply /\ FailedForCause
  <1>1. CephStep
    <2>1. CASE ceph.full /\ ceph' = [ceph EXCEPT !.full = FALSE]
      <3>1. ceph # NoContainer
        BY <2>1 DEF NoContainer
      <3>2. ceph.exists
        BY <3>1 DEF CInv, TypeOK, Container
      <3>3. QED
        BY <2>1, <3>2, SameCeph
    <2>2. QED
      BY <2>1, SameCeph DEF Emptied
  <1>2. Steps
    BY <1>1 DEF Emptied, Steps, SwiftStep, NoFault, CInv, TypeOK
  <1>3. TypeOK'
    BY <1>1, <1>2, WatchType DEF Emptied, Steps, CephStep, SwiftStep, CInv, TypeOK, Found
  <1>4. \A q \in Procs : Synchronised(q)' /\ CauseFor(q)
    BY <1>2, OthersSynchronised DEF Emptied
  <1>5. \A r \in Requests : RequestInv(r)' /\ HonestFor(r)
    BY <1>2, OthersServed DEF Emptied
  <1>6. QED
    BY <1>1, <1>2, <1>3, <1>4, <1>5
    DEF CInv, HonestReply, HonestFor, FailedForCause, CauseFor, Cause, CephStep, Steps

LEMMA RestartKeeps ==
    ASSUME CInv, Restart
    PROVE  CInv' /\ HonestReply /\ FailedForCause
  <1>1. Free \in Request /\ Free.op = "free" /\ Free.reply = "pending"
    BY DEF Free, Request, Changes, Keep
  <1>2. TypeOK'
    <2>1. faults' \in 0..MaxFaults
      BY BoundAssumption DEF Restart, Fault, CInv, TypeOK
    <2>2. QED
      BY <1>1, <2>1, WatchType DEF Restart, CInv, TypeOK, Found
  <1>3. \A p \in Procs : Synchronised(p)'
    BY DEF Restart, Synchronised
  <1>4. ASSUME NEW r \in Requests PROVE RequestInv(r)' /\ HonestFor(r)
    <2>1. pc'[r] = "idle" /\ req'[r] = Free
      BY DEF Restart, Procs
    <2>2. QED
      BY <1>1, <2>1 DEF RequestInv, Serving, Waiting, Prepared, Remembers, EnsurePC,
                        HonestFor, Answered
  <1>5. FailedForCause
    BY FaultCounts DEF Restart, FailedForCause, CInv
  <1>6. QED
    BY <1>2, <1>3, <1>4, <1>5 DEF CInv, Restart, HonestReply, HonestFor

LEMMA NextKeeps ==
    ASSUME CInv, Next
    PROVE  CInv' /\ HonestReply /\ FailedForCause
  <1>1. ASSUME NEW r \in Requests, Begin(r) \/ Serve(r)
        PROVE  CInv' /\ HonestReply /\ FailedForCause
    <2>1. Keeps(r)
      BY <1>1, BeginKeeps, ExistsKeeps, WriteKeeps, HeadKeeps, ListCephKeeps,
         ListSwiftKeeps, DeleteCephKeeps, DeleteSwiftKeeps DEF Serve
    <2>2. QED
      BY <2>1, KeepsSuffices DEF Procs
  <1>2. ASSUME NEW p \in Copiers, Copy(p)
        PROVE  CInv' /\ HonestReply /\ FailedForCause
    BY <1>2, CopyKeeps, KeepsSuffices DEF Procs
  <1>3. ASSUME NEW p \in Procs, Ensure(p)
        PROVE  CInv' /\ HonestReply /\ FailedForCause
    BY <1>3, EnsureKeeps, KeepsSuffices
  <1>4. QED
    BY <1>1, <1>2, <1>3, EmptiedKeeps, RestartKeeps DEF Next

LEMMA CInvStarts ==
    ASSUME Init
    PROVE  CInv
  <1>1. Free \in Request /\ Free.op = "free" /\ Free.said = "nothing"
    BY DEF Free, Request, Changes, Keep
  <1>2. TypeOK
    <2>1. ceph \in Container \cup {NoContainer} /\ swift \in {"absent", "empty", "full"}
      BY DEF Init
    <2>2. legacy \subseteq Headers /\ owner \in BOOLEAN
      BY DEF Init
    <2>3. pc \in [Procs -> {"idle"} \cup EnsurePC \cup CopyPC \cup ServePC]
      BY DEF Init
    <2>4. req \in [Requests -> Request] /\ faults \in 0..MaxFaults
      BY <1>1, BoundAssumption DEF Init
    <2>5. seen \in [Procs -> SUBSET {"none", "conflict", "notInCeph", "deleted", "removed"}]
      BY DEF Init
    <2>6. QED
      BY <2>1, <2>2, <2>3, <2>4, <2>5 DEF TypeOK
  <1>3. \A h \in Headers : ceph.meta[h] # "legacy"
    BY DEF Init, NoContainer, Bare
  <1>4. \A p \in Procs : Synchronised(p)
    BY DEF Init, Synchronised
  <1>5. \A r \in Requests : RequestInv(r)
    BY <1>1 DEF Init, RequestInv, Serving, Waiting, Prepared, Remembers, EnsurePC, Procs
  <1>6. QED
    BY <1>2, <1>3, <1>4, <1>5 DEF CInv

LEMMA CInvHolds == Spec => []CInv
  <1>1. CInv /\ [Next]_vars => CInv'
    <2>1. CASE UNCHANGED vars
      BY <2>1 DEF vars, CInv, TypeOK, Synchronised, Carried, RequestInv, Serving, Waiting,
                  Prepared, Remembers
    <2>2. QED
      BY <2>1, NextKeeps
  <1>2. QED
    BY <1>1, CInvStarts, PTL DEF Spec

(* Every variable of the container handlers keeps its type.                *)
THEOREM ContainerTypeCorrect == Spec => []TypeOK
  BY CInvHolds, PTL DEF CInv

(* No order of the two lookups or the four calls of a deletion, of other   *)
(* requests' calls and of faults makes a reply untrue.                     *)
THEOREM ContainerRepliesAreHonest == Spec => RepliesAreHonest
  <1>1. CInv /\ [Next]_vars => [HonestReply]_vars
    BY NextKeeps
  <1>2. QED
    BY <1>1, CInvHolds, PTL DEF Spec, RepliesAreHonest

(* Any number of synchronisations of the same container may overlap: none  *)
(* fails because of another one.                                           *)
THEOREM OnlyCausesMakeItFail == Spec => EnsureFailsForCause
  <1>1. CInv /\ [Next]_vars => [FailedForCause]_vars
    BY NextKeeps
  <1>2. QED
    BY <1>1, CInvHolds, PTL DEF Spec, EnsureFailsForCause
-----------------------------------------------------------------------------
(* All that can happen to the container in Ceph.                           *)
ClientWrites(r) ==
    /\ pc[r] = "write" /\ pc'[r] = "idle"
    /\ req[r].op = "PUT" \/ ceph.exists
    /\ ceph' = WithHeaders(ceph, req[r].change)
CopySyncs(p) ==
    /\ pc[p] = "putTarget" \/ (pc[p] = "postTarget" /\ ceph.exists)
    /\ ceph' = Synced(ceph)
OnlyContent ==
    \/ ceph' = ceph
    \/ ceph' = NoContainer
    \/ ceph.exists /\ \E b \in BOOLEAN : ceph' = [ceph EXCEPT !.full = b]

LEMMA CephChanges ==
    ASSUME CInv, Next
    PROVE  \/ OnlyContent
           \/ \E r \in Requests : ClientWrites(r)
           \/ \E p \in Procs : CopySyncs(p)
  <1>1. ASSUME NEW r \in Requests, Write(r) PROVE OnlyContent \/ ClientWrites(r)
    <2>1. pc'[r] = "idle"
      <3>1. PICK x \in Replies : Answer(r, x)
        BY <1>1 DEF Write, Replies
      <3>2. QED
        BY <3>1, AnswerType DEF CInv
    <2>2. pc[r] = "write" /\ ceph' \in {ceph, Written(r)}
      BY <1>1 DEF Write
    <2>3. req[r].op \in Writes
      BY <2>2 DEF CInv, RequestInv, Serving
    <2>4. QED
      BY <2>1, <2>2, <2>3 DEF Written, Writes, ClientWrites, OnlyContent
  <1>2. ASSUME NEW r \in Requests, Begin(r) \/ Serve(r), ~Write(r) PROVE OnlyContent
    BY <1>2 DEF Begin, Serve, Exists, HeadCeph, HeadSwift, ListCeph, ListSwift,
                DeleteCeph, DeleteSwift, OnlyContent
  <1>3. ASSUME NEW p \in Copiers, Copy(p) PROVE OnlyContent
    BY <1>3 DEF Copy, StartCopy, CopyGet, CopyPut, OnlyContent
  <1>4. ASSUME NEW p \in Procs, Ensure(p) PROVE OnlyContent \/ CopySyncs(p)
    BY <1>4 DEF Ensure, HeadSource, PutTarget, PutHeaders, PostTarget, Verify,
                OnlyContent, CopySyncs
  <1>5. ASSUME Emptied PROVE OnlyContent
    <2>1. CASE ceph.full /\ ceph' = [ceph EXCEPT !.full = FALSE]
      <3>1. ceph # NoContainer
        BY <2>1 DEF NoContainer
      <3>2. ceph.exists
        BY <3>1 DEF CInv, TypeOK, Container
      <3>3. QED
        BY <2>1, <3>2 DEF OnlyContent
    <2>2. QED
      BY <1>5, <2>1 DEF Emptied, OnlyContent
  <1>6. ASSUME Restart PROVE OnlyContent
    BY <1>6 DEF Restart, OnlyContent
  <1>7. QED
    BY <1>1, <1>2, <1>3, <1>4, <1>5, <1>6 DEF Next, Serve

LEMMA ContentOnly ==
    ASSUME CInv, OnlyContent, ceph'.exists
    PROVE  ceph.exists /\ ceph'.meta = ceph.meta
  <1>1. ceph' # NoContainer
    BY DEF NoContainer
  <1>2. ceph.exists => ceph \in Container
    BY DEF CInv, TypeOK, NoContainer
  <1>3. QED
    BY <1>1, <1>2 DEF OnlyContent, Container

LEMMA ClientKeptStep ==
    ASSUME CInv, Next
    PROVE  ClientKept
  <1> SUFFICES ASSUME NEW h \in Headers, ceph.meta[h] = "client", ceph'.exists,
                      ceph'.meta[h] # "client"
               PROVE  \/ h \in legacy /\ \E p \in Procs : pc[p] \in {"putTarget", "postTarget"}
                      \/ \E r \in Requests : pc[r] = "write" /\ req[r].change[h] = "unset"
    BY DEF ClientKept
  <1>1. ~OnlyContent
    BY ContentOnly
  <1>2. ASSUME NEW r \in Requests, ClientWrites(r)
        PROVE  pc[r] = "write" /\ req[r].change[h] = "unset"
    <2>1. req[r].change[h] \in {"keep", "client", "unset"}
      BY DEF CInv, TypeOK, Request, Changes
    <2>2. QED
      BY <1>2, <2>1, HeadersOf DEF ClientWrites
  <1>3. ASSUME NEW p \in Procs, CopySyncs(p)
        PROVE  h \in legacy /\ pc[p] \in {"putTarget", "postTarget"}
    BY <1>3, HeadersOf DEF CopySyncs, Synced, SourceHeaders
  <1>4. QED
    BY <1>1, <1>2, <1>3, CephChanges

(* No synchronisation takes away a header that only a client has set.      *)
THEOREM ClientHeadersAreKept == Spec => ClientHeadersKept
  <1>1. CInv /\ [Next]_vars => [ClientKept]_vars
    BY ClientKeptStep
  <1>2. QED
    BY <1>1, CInvHolds, PTL DEF Spec, ClientHeadersKept

LEMMA CreatedCompleteStep ==
    ASSUME CInv, Next
    PROVE  CreatedComplete
  <1> SUFFICES ASSUME ~ceph.exists, ceph'.exists, swift # "absent"
               PROVE  \/ \A h \in legacy : ceph'.meta[h] # "unset"
                      \/ \E r \in Requests : pc[r] = "write" /\ pc'[r] # "write" /\ "deleted" \in seen[r]
    BY DEF CreatedComplete
  <1>1. ~OnlyContent
    BY ContentOnly
  <1>2. ASSUME NEW r \in Requests, ClientWrites(r)
        PROVE  pc[r] = "write" /\ pc'[r] # "write" /\ "deleted" \in seen[r]
    BY <1>2 DEF ClientWrites, CInv, RequestInv, Prepared
  <1>3. ASSUME NEW p \in Procs, CopySyncs(p) PROVE \A h \in legacy : ceph'.meta[h] # "unset"
    <2>1. legacy \subseteq Headers
      BY DEF CInv, TypeOK
    <2>2. QED
      BY <1>3, <2>1, HeadersOf DEF CopySyncs, Synced, SourceHeaders
  <1>4. QED
    BY <1>1, <1>2, <1>3, CephChanges

(* No container appears in Ceph without the ACLs and metadata of the       *)
(* legacy one, unless it is deleted under the hands of its writer.         *)
THEOREM HeadersAreCarried == Spec => HeadersCarried
  <1>1. CInv /\ [Next]_vars => [CreatedComplete]_vars
    BY CreatedCompleteStep
  <1>2. QED
    BY <1>1, CInvHolds, PTL DEF Spec, HeadersCarried

LEMMA GoneStep ==
    ASSUME CInv, Next
    PROVE  StaysGone
  <1> SUFFICES ASSUME ContainerGone,
                      \A r \in Requests : ~(pc[r] = "write" /\ req[r].op = "PUT")
               PROVE  ContainerGone'
    BY DEF StaysGone
  <1>1. ~ceph.exists /\ swift = "absent" /\ \A p \in Procs : pc[p] # "putTarget"
    BY DEF ContainerGone
  <1>2. \A r \in Requests : ~ClientWrites(r)
    BY <1>1 DEF ClientWrites
  <1>3. \A p \in Procs : ~CopySyncs(p)
    BY <1>1 DEF CopySyncs
  <1>4. ~ceph'.exists
    BY <1>1, <1>2, <1>3, CephChanges, ContentOnly
  <1>5. \A p \in Procs, l \in Locations :
            Goto(p, l) /\ l # "putTarget" => \A q \in Procs : pc'[q] # "putTarget"
    BY <1>1, GotoType DEF CInv, TypeOK, Locations
  <1>6. ASSUME NEW p \in Procs,
               NEW l \in {"idle", "exists", "headCeph", "listCeph", "headSource", "write",
                          "headSwift", "listSwift", "deleteCeph", "deleteSwift",
                          "postTarget", "verify", "copyGet", "copyPut"},
               Goto(p, l), swift' = "absent"
        PROVE  ContainerGone'
    BY <1>4, <1>5, <1>6 DEF ContainerGone, Locations, EnsurePC, CopyPC, ServePC
  <1>7. ASSUME NEW r \in Requests, Begin(r) PROVE ContainerGone'
    <2>1. PICK op \in {"PUT", "POST", "UPLOAD", "HEAD", "DELETE"} : Goto(r, FirstCall(op))
      BY <1>7 DEF Begin
    <2>2. FirstCall(op) \in {"exists", "headCeph", "listCeph"}
      BY DEF FirstCall
    <2>3. QED
      BY <1>1, <1>6, <1>7, <2>1, <2>2 DEF Begin, Procs
  <1>8. ASSUME NEW r \in Requests, Serve(r) PROVE ContainerGone'
    <2>1. \E l \in {"idle", "headSource", "write", "headSwift", "listSwift", "deleteCeph",
                     "deleteSwift"} : Goto(r, l)
      BY <1>8 DEF Serve, Exists, Write, HeadCeph, HeadSwift, ListCeph, ListSwift,
                  DeleteCeph, DeleteSwift, Answer
    <2>2. swift' = "absent"
      BY <1>1, <1>8 DEF Serve, Exists, Write, HeadCeph, HeadSwift, ListCeph, ListSwift,
                        DeleteCeph, DeleteSwift
    <2>3. QED
      BY <1>6, <2>1, <2>2 DEF Procs
  <1>9. ASSUME NEW p \in Copiers, Copy(p) PROVE ContainerGone'
    BY <1>1, <1>6, <1>9 DEF Copy, StartCopy, CopyGet, CopyPut, Procs
  <1>10. ASSUME NEW p \in Procs, Ensure(p) PROVE ContainerGone'
    <2>1. \E l \in {"idle", "write", "verify", "copyGet"} : Goto(p, l)
      BY <1>1, <1>10 DEF Ensure, HeadSource, PutTarget, PostTarget, Verify, EnsureEnds, Answer
    <2>2. swift' = "absent"
      BY <1>1, <1>10 DEF Ensure, HeadSource, PutTarget, PostTarget, Verify
    <2>3. QED
      BY <1>6, <2>1, <2>2
  <1>11. ASSUME Emptied PROVE ContainerGone'
    BY <1>1, <1>4, <1>11 DEF Emptied, ContainerGone
  <1>12. ASSUME Restart PROVE ContainerGone'
    BY <1>1, <1>4, <1>12 DEF Restart, ContainerGone
  <1>13. QED
    BY <1>7, <1>8, <1>9, <1>10, <1>11, <1>12 DEF Next

(* A container that is in neither cluster comes back only by the PUT of a  *)
(* client, unless a synchronisation was already at its own PUT.            *)
THEOREM ContainerGoneForGood == Spec => GoneForGood
  <1>1. CInv /\ [Next]_vars => [StaysGone]_vars
    BY GoneStep
  <1>2. QED
    BY <1>1, CInvHolds, PTL DEF Spec, GoneForGood
=============================================================================
