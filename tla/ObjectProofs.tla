---------------------------- MODULE ObjectProofs ----------------------------
(***************************************************************************)
(* What ObjectMigration guarantees for every number of requests and        *)
(* workers, every mix of operations and tokens, and every number of        *)
(* faults: its replies are honest, a migration that is over stays over, an *)
(* object that is gone stays gone, and a job that succeeded has migrated   *)
(* its object.                                                             *)
(***************************************************************************)
EXTENDS ObjectMigration, TLAPS

Locations == {"idle"} \cup SyncPC \cup CopyPC \cup MarkPC \cup ServePC

LEMMA GotoType ==
    ASSUME pc \in [Procs -> Locations], NEW p \in Procs, NEW l \in Locations, Goto(p, l)
    PROVE  /\ pc' \in [Procs -> Locations]
           /\ pc'[p] = l
           /\ \A q \in Procs : q # p => pc'[q] = pc[q]
  BY DEF Goto

LEMMA ReplyType ==
    ASSUME req \in [Requests -> Request], NEW r \in Requests,
           NEW x \in Objects \cup {"pending", "ok", "error"}, Reply(r, x)
    PROVE  /\ req' \in [Requests -> Request]
           /\ ~Waiting(r)' /\ req'[r].reply = x
           /\ \A q \in Requests : q # r => req'[q] = req[q]
  <1>1. [Free EXCEPT !.reply = x] \in Request
    BY DEF Free, Request
  <1>2. [Free EXCEPT !.reply = x].op = "free" /\ [Free EXCEPT !.reply = x].reply = x
    BY DEF Free
  <1>3. QED
    BY <1>1, <1>2 DEF Reply, Waiting

(* The history of what a client could have seen. *)
LEMMA WatchType ==
    ASSUME TypeOK, Watch, ceph' \in Objects, swift' \in {"none", "source"}
    PROVE  seen' \in [Requests -> SUBSET Objects]
  <1>1. Visible \subseteq Objects /\ Visible' \subseteq Objects /\ Deleted \subseteq Objects
    BY DEF TypeOK, Visible, Deleted, Objects
  <1>2. \A r \in Requests : seen[r] \subseteq Objects
    BY DEF TypeOK
  <1>3. QED
    BY <1>1, <1>2 DEF Watch

LEMMA WatchGrows ==
    ASSUME Watch, NEW r \in Requests, Waiting(r)'
    PROVE  seen'[r] = seen[r] \cup Visible \cup Visible' \cup Deleted
  BY DEF Watch
-----------------------------------------------------------------------------
(* The inductive invariant, for one request r.  Between its two lookups    *)
(* the request has seen whatever Swift has; and a POST that goes on to its *)
(* write has seen an object in Ceph, or seen it deleted.  A sync runs only *)
(* after its reply.                                                        *)
Looking(r) == pc[r] = "fallback" \/ (pc[r] \in {"ensure", "head", "get"} /\ Waiting(r))

HistoryOf(r) ==
    /\ pc[r] \in ServePC => Waiting(r)
    /\ pc[r] \in SyncPC => ~Waiting(r)
    /\ Waiting(r) => req[r].reply = "pending"
    /\ Looking(r) => swift \in seen[r]
    /\ pc[r] = "post" => ceph # "none" \/ "none" \in seen[r]

HInv == TypeOK /\ \A r \in Requests : HistoryOf(r)

HonestFor(r) ==
    Waiting(r) /\ req'[r].reply \in Objects =>
        req'[r].reply \in seen[r] \cup Visible \cup Visible'

(* Swift's object disappears only while a deletion is under way. *)
SwiftStep == swift' = swift \/ (swift' = "none" /\ Deleting)

(* The steps of the others do not disturb what a request has seen.         *)
LEMMA OthersKeepHistory ==
    ASSUME HInv, Watch, SwiftStep, NEW r \in Requests, pc'[r] = pc[r], req'[r] = req[r]
    PROVE  HistoryOf(r)' /\ HonestFor(r)
  <1>1. Waiting(r)' = Waiting(r) /\ Looking(r)' = Looking(r)
    BY DEF Waiting, Looking
  <1>2. HistoryOf(r)
    BY DEF HInv
  <1>3. ASSUME Looking(r)' PROVE swift' \in seen'[r]
    <2>1. Waiting(r)' /\ swift \in seen[r]
      BY <1>1, <1>2, <1>3 DEF Looking, HistoryOf, ServePC, SyncPC
    <2>2. seen[r] \cup Visible \subseteq seen'[r]
      BY <2>1, WatchGrows
    <2>3. QED
      BY <2>1, <2>2 DEF SwiftStep, Visible
  <1>4. ASSUME pc'[r] = "post" PROVE ceph' # "none" \/ "none" \in seen'[r]
    <2>1. Waiting(r)' /\ (ceph # "none" \/ "none" \in seen[r])
      BY <1>1, <1>2, <1>4 DEF HistoryOf, ServePC, SyncPC
    <2>2. seen[r] \cup Deleted \subseteq seen'[r]
      BY <2>1, WatchGrows
    <2>3. QED
      BY <2>1, <2>2 DEF Deleted
  <1>5. HonestFor(r)
    BY <1>2 DEF HistoryOf, HonestFor, Objects
  <1>6. QED
    BY <1>1, <1>2, <1>3, <1>4, <1>5 DEF HistoryOf

(* A request that has sent its reply has nothing left to be honest about.  *)
LEMMA AnswerEnds ==
    ASSUME HInv, NEW r \in Requests, NEW x \in Objects \cup {"pending", "ok", "error"},
           Answer(r, x), x \in Objects => x \in seen[r] \cup Visible \cup Visible'
    PROVE  HistoryOf(r)' /\ HonestFor(r)
  <1>1. pc'[r] = "idle"
    BY GotoType DEF Answer, HInv, TypeOK, Locations, Procs
  <1>2. ~Waiting(r)' /\ req'[r].reply = x
    BY ReplyType DEF Answer, HInv, TypeOK
  <1>3. QED
    BY <1>1, <1>2 DEF HistoryOf, Looking, HonestFor, ServePC, SyncPC

(* A process that goes on to its next call.                                *)
LEMMA GoesOn ==
    ASSUME HInv, Watch, NEW r \in Requests, NEW l \in Locations,
           Goto(r, l), UNCHANGED req,
           l \in ServePC => Waiting(r), l \in SyncPC => ~Waiting(r),
           l \in {"fallback", "ensure", "head", "get"} /\ Waiting(r) =>
               swift' \in seen[r] \cup Visible,
           l = "post" => ceph' # "none"
    PROVE  HistoryOf(r)' /\ HonestFor(r)
  <1>1. pc'[r] = l
    BY GotoType DEF HInv, TypeOK, Locations, Procs
  <1>2. Waiting(r)' = Waiting(r) /\ req'[r] = req[r]
    BY DEF Waiting
  <1>3. Waiting(r) => req[r].reply = "pending"
    BY DEF HInv, HistoryOf
  <1>4. ASSUME Looking(r)' PROVE swift' \in seen'[r]
    <2>1. Waiting(r)' /\ Waiting(r) /\ l \in {"fallback", "ensure", "head", "get"}
      BY <1>1, <1>2, <1>4 DEF Looking, ServePC, SyncPC
    <2>2. QED
      BY <2>1, WatchGrows
  <1>5. HonestFor(r)
    BY <1>2, <1>3 DEF HonestFor, Objects
  <1>6. QED
    BY <1>1, <1>2, <1>3, <1>4, <1>5 DEF HistoryOf

(* What every step of a process p leaves alone.                            *)
Moves(p) ==
    /\ Watch /\ SwiftStep
    /\ pc' \in [Procs -> Locations] /\ \A q \in Procs : q # p => pc'[q] = pc[q]
    /\ req' \in [Requests -> Request] /\ \A q \in Requests : q # p => req'[q] = req[q]
    /\ ceph' \in Objects /\ swift' \in {"none", "source"}
    /\ dated' \in BOOLEAN /\ faults' \in 0..MaxFaults
    /\ UNCHANGED apart

Keeps(p) == Moves(p) /\ (p \in Requests => HistoryOf(p)' /\ HonestFor(p))

LEMMA KeepsSuffices ==
    ASSUME HInv, NEW p \in Procs, Keeps(p)
    PROVE  HInv' /\ HonestReply
  <1>1. TypeOK'
    BY WatchType DEF Keeps, Moves, HInv, TypeOK, Locations
  <1>2. ASSUME NEW r \in Requests PROVE HistoryOf(r)' /\ HonestFor(r)
    BY OthersKeepHistory DEF Keeps, Moves, Procs
  <1>3. QED
    BY <1>1, <1>2 DEF HInv, HonestReply, HonestFor

LEMMA FaultType ==
    ASSUME TypeOK, Fault \/ NoFault
    PROVE  faults' \in 0..MaxFaults
  BY LimitAssumption DEF TypeOK, Fault, NoFault

(* The two ways for a process to move.                                     *)
LEMMA GotoMoves ==
    ASSUME TypeOK, NEW p \in Procs, NEW l \in Locations, Goto(p, l), UNCHANGED req,
           Watch, SwiftStep, ceph' \in Objects, dated' \in BOOLEAN,
           UNCHANGED apart, Fault \/ NoFault
    PROVE  Moves(p)
  BY GotoType, FaultType DEF TypeOK, Locations, Moves, SwiftStep

LEMMA AnswerMoves ==
    ASSUME TypeOK, NEW r \in Requests, NEW l \in Locations, Goto(r, l),
           NEW x \in Objects \cup {"pending", "ok", "error"}, Reply(r, x),
           Watch, SwiftStep, ceph' \in Objects, dated' \in BOOLEAN,
           UNCHANGED apart, Fault \/ NoFault
    PROVE  Moves(r)
  BY GotoType, ReplyType, FaultType DEF TypeOK, Locations, Moves, SwiftStep, Procs

LEMMA AnswerKeeps ==
    ASSUME HInv, NEW r \in Requests, NEW x \in Objects \cup {"pending", "ok", "error"},
           Answer(r, x), x \in Objects => x \in seen[r] \cup Visible \cup Visible',
           Watch, SwiftStep, ceph' \in Objects, dated' \in BOOLEAN,
           UNCHANGED apart, Fault \/ NoFault
    PROVE  Keeps(r)
  <1>1. Moves(r)
    BY AnswerMoves DEF Answer, HInv, Locations
  <1>2. QED
    BY <1>1, AnswerEnds DEF Keeps

LEMMA GotoKeeps ==
    ASSUME HInv, NEW r \in Requests, NEW l \in Locations, Goto(r, l), UNCHANGED req,
           l \in ServePC => Waiting(r), l \in SyncPC => ~Waiting(r),
           l \in {"fallback", "ensure", "head", "get"} /\ Waiting(r) =>
               swift' \in seen[r] \cup Visible,
           l = "post" => ceph' # "none",
           Watch, SwiftStep, ceph' \in Objects, dated' \in BOOLEAN,
           UNCHANGED apart, Fault \/ NoFault
    PROVE  Keeps(r)
  <1>1. Moves(r)
    BY GotoMoves DEF HInv, Procs
  <1>2. QED
    BY <1>1, GoesOn DEF Keeps

-----------------------------------------------------------------------------
(* One lemma per handler.                                                  *)
LEMMA ReadKeeps ==
    ASSUME HInv, NEW r \in Requests, Read(r)
    PROVE  Keeps(r)
  <1>1. TypeOK /\ HistoryOf(r) /\ Waiting(r) /\ pc[r] = "read"
    BY DEF HInv, HistoryOf, Read, ServePC, SyncPC
  <1>2. Watch /\ SwiftStep /\ ceph' \in Objects /\ dated' \in BOOLEAN /\ UNCHANGED apart
    BY <1>1 DEF Read, TypeOK, SwiftStep
  <1>3. CASE ceph # "none" /\ Answer(r, ceph) /\ NoFault
    <2>1. ceph \in Visible /\ ceph \in Objects
      BY <1>1, <1>3 DEF Visible, TypeOK
    <2>2. QED
      BY <1>2, <1>3, <2>1, AnswerKeeps
  <1>4. CASE ceph = "none" /\ Goto(r, "fallback") /\ UNCHANGED req /\ NoFault
    <2>1. swift' \in Visible
      BY <1>4 DEF Visible, Read
    <2>2. QED
      BY <1>1, <1>2, <1>4, <2>1, GotoKeeps DEF Locations, ServePC, SyncPC
  <1>5. CASE Answer(r, "error") /\ Fault
    BY <1>2, <1>5, AnswerKeeps DEF Objects
  <1>6. QED
    BY <1>3, <1>4, <1>5 DEF Read

LEMMA EnqueueType ==
    ASSUME TypeOK, NEW token, Enqueue(token)
    PROVE  dated' \in BOOLEAN
  <1>1. QED
    BY DEF Enqueue, TypeOK

LEMMA FallbackKeeps ==
    ASSUME HInv, NEW r \in Requests, Fallback(r)
    PROVE  Keeps(r)
  <1>1. TypeOK /\ HistoryOf(r) /\ Waiting(r) /\ pc[r] = "fallback"
    BY DEF HInv, HistoryOf, Fallback, ServePC, SyncPC
  <1>2. swift \in seen[r] /\ swift \in Objects
    BY <1>1 DEF HistoryOf, Looking, TypeOK, Objects
  <1>3. Watch /\ SwiftStep /\ ceph' \in Objects /\ UNCHANGED apart
    BY <1>1 DEF Fallback, TypeOK, SwiftStep
  <1>4. dated' \in BOOLEAN
    BY <1>1, EnqueueType DEF Fallback, TypeOK
  <1>5. Fault \/ NoFault
    BY DEF Fallback
  <1>6. CASE Answer(r, swift)
    BY <1>2, <1>3, <1>4, <1>5, <1>6, AnswerKeeps
  <1>7. CASE Goto(r, "ensure") /\ Reply(r, swift)
    <2>1. Moves(r)
      BY <1>1, <1>2, <1>3, <1>4, <1>5, <1>7, AnswerMoves DEF Locations, CopyPC
    <2>2. pc'[r] = "ensure" /\ ~Waiting(r)' /\ req'[r].reply = swift
      BY <1>1, <1>2, <1>7, GotoType, ReplyType DEF TypeOK, Locations, CopyPC, Procs
    <2>3. HistoryOf(r)' /\ HonestFor(r)
      BY <1>2, <2>2 DEF HistoryOf, Looking, HonestFor, ServePC, SyncPC
    <2>4. QED
      BY <2>1, <2>3 DEF Keeps
  <1>8. CASE Answer(r, "error")
    BY <1>3, <1>4, <1>5, <1>8, AnswerKeeps DEF Objects
  <1>9. QED
    BY <1>6, <1>7, <1>8 DEF Fallback

LEMMA WriteKeeps ==
    ASSUME HInv, NEW r \in Requests, PutContainer(r) \/ PutCeph(r)
    PROVE  Keeps(r)
  <1>1. TypeOK /\ HistoryOf(r) /\ Waiting(r)
    BY DEF HInv, HistoryOf, PutContainer, PutCeph, ServePC, SyncPC
  <1>2. Watch /\ SwiftStep /\ ceph' \in Objects /\ dated' \in BOOLEAN /\ UNCHANGED apart
    BY <1>1 DEF PutContainer, PutCeph, TypeOK, SwiftStep, Objects
  <1>3. Fault \/ NoFault
    BY DEF PutContainer, PutCeph, EnsureFails
  <1>4. CASE Answer(r, "error") \/ Answer(r, "ok")
    BY <1>2, <1>3, <1>4, AnswerKeeps DEF Objects
  <1>5. CASE Goto(r, "put") /\ UNCHANGED req
    BY <1>1, <1>2, <1>3, <1>5, GotoKeeps DEF Locations, ServePC, SyncPC
  <1>6. QED
    BY <1>4, <1>5 DEF PutContainer, PutCeph

LEMMA ExistsKeeps ==
    ASSUME HInv, NEW r \in Requests, PostExists(r)
    PROVE  Keeps(r)
  <1>1. TypeOK /\ HistoryOf(r) /\ Waiting(r)
    BY DEF HInv, HistoryOf, PostExists, ServePC, SyncPC
  <1>2. Watch /\ SwiftStep /\ ceph' \in Objects /\ dated' \in BOOLEAN /\ UNCHANGED apart
    BY <1>1 DEF PostExists, TypeOK, SwiftStep
  <1>3. CASE ceph # "none" /\ Goto(r, "post") /\ UNCHANGED req /\ NoFault
    <2>1. ceph' # "none"
      BY <1>3 DEF PostExists
    <2>2. QED
      BY <1>1, <1>2, <1>3, <2>1, GotoKeeps DEF Locations, ServePC, SyncPC
  <1>4. CASE ceph = "none" /\ Goto(r, "ensure") /\ UNCHANGED req /\ NoFault
    <2>1. swift' \in Visible
      BY <1>4 DEF Visible, PostExists
    <2>2. QED
      BY <1>1, <1>2, <1>4, <2>1, GotoKeeps DEF Locations, ServePC, SyncPC, CopyPC
  <1>5. CASE Answer(r, "error") /\ Fault
    BY <1>2, <1>5, AnswerKeeps DEF Objects
  <1>6. QED
    BY <1>3, <1>4, <1>5 DEF PostExists

LEMMA PostKeeps ==
    ASSUME HInv, NEW r \in Requests, PostCeph(r)
    PROVE  Keeps(r)
  <1>1. TypeOK /\ HistoryOf(r) /\ Waiting(r) /\ pc[r] = "post"
    BY DEF HInv, HistoryOf, PostCeph, ServePC, SyncPC
  <1>2. Watch /\ SwiftStep /\ ceph' \in Objects /\ dated' \in BOOLEAN /\ UNCHANGED apart
    BY <1>1 DEF PostCeph, TypeOK, SwiftStep, WithMetadata, Objects
  <1>3. Fault \/ NoFault
    BY DEF PostCeph
  <1>4. CASE Answer(r, "error") \/ Answer(r, "ok")
    BY <1>2, <1>3, <1>4, AnswerKeeps DEF Objects
  <1>5. CASE ceph = "none" /\ Answer(r, "none")
    <2>1. "none" \in seen[r]
      BY <1>1, <1>5 DEF HistoryOf
    <2>2. QED
      BY <1>2, <1>3, <1>5, <2>1, AnswerKeeps DEF Objects
  <1>6. QED
    BY <1>4, <1>5 DEF PostCeph

LEMMA DeleteCephKeeps ==
    ASSUME HInv, NEW r \in Requests, DeleteCeph(r)
    PROVE  Keeps(r)
  <1>1. TypeOK /\ HistoryOf(r) /\ Waiting(r)
    BY DEF HInv, HistoryOf, DeleteCeph, ServePC, SyncPC
  <1>2. Watch /\ SwiftStep /\ ceph' \in Objects /\ dated' \in BOOLEAN /\ UNCHANGED apart
    BY <1>1 DEF DeleteCeph, TypeOK, SwiftStep, Objects
  <1>3. Fault \/ NoFault
    BY DEF DeleteCeph
  <1>4. CASE Answer(r, "error")
    BY <1>2, <1>3, <1>4, AnswerKeeps DEF Objects
  <1>5. ASSUME NEW said \in {"ok", "absent", "refused"},
               Goto(r, "deleteSwift"), req' = [req EXCEPT ![r].cephSaid = said]
        PROVE  Keeps(r)
    <2>1. /\ req' \in [Requests -> Request] /\ \A q \in Requests : q # r => req'[q] = req[q]
          /\ req'[r].op = req[r].op /\ req'[r].reply = req[r].reply
      BY <1>1, <1>5 DEF TypeOK, Request
    <2>2. /\ pc' \in [Procs -> Locations] /\ pc'[r] = "deleteSwift"
          /\ \A q \in Procs : q # r => pc'[q] = pc[q]
      BY <1>1, <1>5, GotoType DEF TypeOK, Locations, Procs, ServePC, SyncPC
    <2>3. swift' \in {"none", "source"}
      BY <1>1 DEF DeleteCeph, TypeOK
    <2>4. Moves(r)
      BY <1>1, <1>2, <1>3, <2>1, <2>2, <2>3, FaultType DEF Moves
    <2>5. Waiting(r)' /\ req'[r].reply = "pending"
      BY <1>1, <2>1 DEF HistoryOf, Waiting
    <2>6. HistoryOf(r)' /\ HonestFor(r)
      BY <2>2, <2>5 DEF HistoryOf, Looking, HonestFor, Objects, SyncPC
    <2>7. QED
      BY <2>4, <2>6 DEF Keeps
  <1>6. QED
    BY <1>4, <1>5 DEF DeleteCeph

LEMMA DeleteSwiftKeeps ==
    ASSUME HInv, NEW r \in Requests, DeleteSwift(r)
    PROVE  Keeps(r)
  <1>1. TypeOK /\ Deleting
    BY DEF HInv, DeleteSwift, Deleting
  <1>2. Watch /\ SwiftStep /\ ceph' \in Objects /\ dated' \in BOOLEAN /\ UNCHANGED apart
    BY <1>1 DEF DeleteSwift, TypeOK, SwiftStep
  <1>3. Fault \/ NoFault
    BY DEF DeleteSwift
  <1>4. "none" \in Visible
    BY <1>1 DEF Visible
  <1>5. \E x \in {"ok", "none", "error"} : Answer(r, x)
    BY DEF DeleteSwift
  <1>6. QED
    BY <1>2, <1>3, <1>4, <1>5, AnswerKeeps DEF Objects

LEMMA ListKeeps ==
    ASSUME HInv, NEW r \in Requests, ListContainer(r)
    PROVE  Keeps(r)
  <1>1. TypeOK
    BY DEF HInv
  <1>2. Watch /\ SwiftStep /\ ceph' \in Objects /\ dated' \in BOOLEAN /\ UNCHANGED apart
    BY <1>1 DEF ListContainer, TypeOK, SwiftStep
  <1>3. Fault \/ NoFault
    BY DEF ListContainer
  <1>4. CASE Answer(r, "error") \/ Answer(r, "ok")
    BY <1>2, <1>3, <1>4, AnswerKeeps DEF Objects
  <1>5. CASE Goto(r, "sync") /\ Reply(r, "ok")
    <2>1. Moves(r)
      BY <1>1, <1>2, <1>3, <1>5, AnswerMoves DEF Locations, SyncPC
    <2>2. pc'[r] = "sync" /\ ~Waiting(r)' /\ req'[r].reply = "ok"
      BY <1>1, <1>5, GotoType, ReplyType DEF TypeOK, Locations, SyncPC, Procs
    <2>3. HistoryOf(r)' /\ HonestFor(r)
      BY <2>2 DEF HistoryOf, Looking, HonestFor, ServePC, Objects
    <2>4. QED
      BY <2>1, <2>3 DEF Keeps
  <1>6. QED
    BY <1>4, <1>5 DEF ListContainer

LEMMA ServeKeeps ==
    ASSUME HInv, NEW r \in Requests, Serve(r)
    PROVE  Keeps(r)
  BY ReadKeeps, FallbackKeeps, WriteKeeps, ExistsKeeps, PostKeeps,
     DeleteCephKeeps, DeleteSwiftKeeps, ListKeeps DEF Serve

LEMMA BeginKeeps ==
    ASSUME HInv, NEW r \in Requests, Begin(r)
    PROVE  Keeps(r)
  <1>1. TypeOK
    BY DEF HInv
  <1>2. PICK op \in Ops \ {"SCAN"}, token \in Tokens :
            /\ req' = [req EXCEPT ![r] = [Free EXCEPT !.op = op, !.token = token]]
            /\ Goto(r, FirstCall(op))
    BY DEF Begin
  <1>3. FirstCall(op) \in {"read", "container", "exists", "deleteCeph", "list"} /\ op # "free"
    BY OpsAssumption DEF FirstCall
  <1>4. /\ [Free EXCEPT !.op = op, !.token = token] \in Request
        /\ [Free EXCEPT !.op = op, !.token = token].op = op
        /\ [Free EXCEPT !.op = op, !.token = token].reply = "pending"
    BY DEF Free, Request
  <1>5. /\ req' \in [Requests -> Request] /\ \A q \in Requests : q # r => req'[q] = req[q]
        /\ req'[r].op = op /\ req'[r].reply = "pending"
    BY <1>1, <1>2, <1>4 DEF TypeOK
  <1>6. /\ pc' \in [Procs -> Locations] /\ pc'[r] = FirstCall(op)
        /\ \A q \in Procs : q # r => pc'[q] = pc[q]
    BY <1>1, <1>2, <1>3, GotoType DEF TypeOK, Locations, Procs, ServePC, SyncPC
  <1>7. Moves(r)
    BY <1>1, <1>5, <1>6, FaultType DEF Moves, Begin, TypeOK, SwiftStep
  <1>8. Waiting(r)'
    BY <1>3, <1>5 DEF Waiting
  <1>9. HistoryOf(r)' /\ HonestFor(r)
    BY <1>3, <1>5, <1>6, <1>8 DEF HistoryOf, Looking, HonestFor, Objects, CopyPC, SyncPC
  <1>10. QED
    BY <1>7, <1>9 DEF Keeps

(* The end of a copy, whoever ran it.                                      *)
LEMMA CopyEndsKeeps ==
    ASSUME HInv, NEW p \in Procs, NEW outcome \in {"ok", "absent", "error"},
           CopyEnds(p, outcome),
           outcome = "ok" => ceph' # "none",
           outcome = "absent" => swift = "none" /\ pc[p] \in {"head", "get"},
           Watch, SwiftStep, ceph' \in Objects, dated' \in BOOLEAN,
           UNCHANGED apart, Fault \/ NoFault
    PROVE  Keeps(p)
  <1>1. TypeOK
    BY DEF HInv
  <1>2. CASE p \in Workers
    <2>1. p \notin Requests
      BY <1>2, ProcessAssumption
    <2>2. QED
      BY <1>1, <1>2, <2>1, GotoMoves DEF CopyEnds, Keeps, Locations, MarkPC
  <1>3. CASE p \notin Workers /\ Waiting(p)
    <2>1. p \in Requests
      BY <1>3 DEF Procs
    <2>2. CASE outcome = "ok"
      BY <1>3, <2>1, <2>2, GotoKeeps DEF CopyEnds, Locations, ServePC, SyncPC
    <2>3. CASE outcome = "absent"
      <3>1. "none" \in seen[p]
        BY <1>3, <2>1, <2>3 DEF HInv, HistoryOf, Looking
      <3>2. QED
        BY <1>3, <2>1, <2>3, <3>1, AnswerKeeps DEF CopyEnds, Objects
    <2>4. CASE outcome = "error"
      BY <1>3, <2>1, <2>4, AnswerKeeps DEF CopyEnds, Objects
    <2>5. QED
      BY <2>2, <2>3, <2>4
  <1>4. CASE p \notin Workers /\ ~Waiting(p)
    BY <1>4, GotoKeeps DEF CopyEnds, Procs, Locations, ServePC, SyncPC
  <1>5. QED
    BY <1>2, <1>3, <1>4

(* A copy that goes on to its next call, whoever runs it.                  *)
LEMMA CopyGoesOn ==
    ASSUME HInv, NEW p \in Procs, NEW l \in CopyPC \cup {"page"}, Goto(p, l),
           UNCHANGED req,
           l \in {"head", "get"} =>
               pc[p] \in {"page", "ensure", "head"} /\ swift' = swift,
           l # "ensure", l = "page" => pc[p] = "sync",
           Watch, SwiftStep, ceph' \in Objects, dated' \in BOOLEAN,
           UNCHANGED apart, Fault \/ NoFault
    PROVE  Keeps(p)
  <1>1. CASE p \in Requests
    <2>1. l \in {"head", "get"} /\ Waiting(p) => swift' \in seen[p]
      BY <1>1 DEF HInv, HistoryOf, Looking, SyncPC
    <2>2. l = "page" => ~Waiting(p)
      BY <1>1 DEF HInv, HistoryOf, SyncPC
    <2>3. QED
      BY <1>1, <2>1, <2>2, GotoKeeps DEF Locations, ServePC, SyncPC, CopyPC
  <1>2. CASE p \notin Requests
    BY <1>2, GotoMoves DEF Keeps, HInv, Locations, SyncPC
  <1>3. QED
    BY <1>1, <1>2

LEMMA CopyKeeps ==
    ASSUME HInv, NEW p \in Procs, Copy(p)
    PROVE  Keeps(p)
  <1>1. TypeOK
    BY DEF HInv
  <1>2. /\ Watch /\ SwiftStep /\ ceph' \in Objects /\ dated' \in BOOLEAN
        /\ UNCHANGED apart /\ (Fault \/ NoFault)
    BY <1>1 DEF Copy, SyncEnsure, SyncPage, EnsureStep, CopyEnsure,
                CopyHead, CopyGet, CopyRead, CopyPut, CopyVerify,
                EnsureFails, NoFault, TypeOK, SwiftStep, Objects
  <1>3. CASE CopyEnds(p, "error")
    BY <1>2, <1>3, CopyEndsKeeps
  <1>4. CASE CopyEnsure(p) \/ SyncEnsure(p)
    <2>1. CASE CopyEnsure(p) /\ Goto(p, "head") /\ UNCHANGED req
      BY <1>2, <2>1, CopyGoesOn DEF CopyEnsure, EnsureStep, CopyPC
    <2>2. CASE SyncEnsure(p) /\ Goto(p, "page") /\ UNCHANGED req
      BY <1>2, <2>2, CopyGoesOn DEF SyncEnsure, EnsureStep
    <2>3. QED
      BY <1>3, <1>4, <2>1, <2>2 DEF CopyEnsure, SyncEnsure, EnsureStep
  <1>5. ASSUME NEW here \in {"head", "get"},
               NEW next \in {"get", "copyPut"}, here = "get" => next = "copyPut",
               CopyRead(p, here, next)
        PROVE  Keeps(p)
    <2>1. CASE Goto(p, next) /\ UNCHANGED req
      BY <1>2, <1>5, <2>1, CopyGoesOn DEF CopyRead, CopyPC
    <2>2. CASE swift = "none" /\ CopyEnds(p, "absent")
      BY <1>2, <1>5, <2>2, CopyEndsKeeps DEF CopyRead
    <2>3. QED
      BY <1>3, <1>5, <2>1, <2>2 DEF CopyRead
  <1>6. CASE CopyPut(p)
    <2>1. CASE Goto(p, "verify") /\ UNCHANGED req
      BY <1>2, <2>1, CopyGoesOn DEF CopyPC
    <2>2. QED
      BY <1>3, <1>6, <2>1 DEF CopyPut
  <1>7. CASE CopyVerify(p)
    <2>1. CASE CopyEnds(p, "ok") /\ ceph \in {"source", "written"}
      <3>1. ceph' # "none"
        BY <1>7, <2>1 DEF CopyVerify
      <3>2. QED
        BY <1>2, <2>1, <3>1, CopyEndsKeeps
    <2>2. QED
      BY <1>3, <1>7, <2>1 DEF CopyVerify
  <1>8. CASE SyncPage(p)
    <2>1. CASE Goto(p, "head") /\ UNCHANGED req
      BY <1>2, <1>8, <2>1, CopyGoesOn DEF SyncPage, CopyPC
    <2>2. QED
      BY <1>3, <1>8, <2>1 DEF SyncPage
  <1>9. QED
    BY <1>4, <1>5, <1>6, <1>7, <1>8 DEF Copy, CopyHead, CopyGet
-----------------------------------------------------------------------------
LEMMA WorkKeeps ==
    ASSUME HInv, NEW w \in Workers, Work(w)
    PROVE  Keeps(w)
  <1>1. TypeOK /\ w \notin Requests /\ w \in Procs
    BY ProcessAssumption DEF HInv, Procs
  <1>2. /\ Watch /\ SwiftStep /\ ceph' \in Objects /\ dated' \in BOOLEAN
        /\ UNCHANGED apart /\ UNCHANGED req
    BY <1>1 DEF Work, Claim, Reject, Succeed, Fail, Mark, TypeOK, SwiftStep
  <1>3. /\ Goto(w, "ensure") \/ Goto(w, "idle")
        /\ Fault \/ NoFault
    BY DEF Work, Claim, Reject, Succeed, Fail, Mark, NoFault
  <1>4. QED
    BY <1>1, <1>2, <1>3, GotoMoves DEF Keeps, Locations, CopyPC

LEMMA ScanKeeps ==
    ASSUME HInv, Scan
    PROVE  HInv' /\ HonestReply
  <1>1. TypeOK /\ Watch /\ SwiftStep
    BY DEF HInv, Scan, SwiftStep
  <1>2. dated' \in BOOLEAN
    BY <1>1, EnqueueType DEF Scan
  <1>3. TypeOK'
    BY <1>1, <1>2, WatchType DEF Scan, TypeOK
  <1>4. ASSUME NEW r \in Requests PROVE HistoryOf(r)' /\ HonestFor(r)
    BY <1>1, OthersKeepHistory DEF Scan
  <1>5. QED
    BY <1>3, <1>4 DEF HInv, HonestReply, HonestFor

LEMMA SetHeaderKeeps ==
    ASSUME HInv, SetHeader
    PROVE  HInv' /\ HonestReply
  <1>1. TypeOK /\ Watch /\ SwiftStep
    BY DEF HInv, SetHeader, SwiftStep
  <1>2. TypeOK'
    BY <1>1, WatchType DEF SetHeader, TypeOK
  <1>3. ASSUME NEW r \in Requests PROVE HistoryOf(r)' /\ HonestFor(r)
    BY <1>1, OthersKeepHistory DEF SetHeader
  <1>4. QED
    BY <1>2, <1>3 DEF HInv, HonestReply, HonestFor

LEMMA RestartKeeps ==
    ASSUME HInv, Restart
    PROVE  HInv' /\ HonestReply
  <1>1. TypeOK /\ Watch /\ faults' \in 0..MaxFaults
    BY FaultType DEF HInv, Restart
  <1>2. Free \in Request /\ Free.op = "free" /\ Free.reply = "pending"
    BY DEF Free, Request
  <1>3. TypeOK'
    BY <1>1, <1>2, WatchType DEF Restart, TypeOK
  <1>4. ASSUME NEW r \in Requests PROVE HistoryOf(r)' /\ HonestFor(r)
    <2>1. pc'[r] = "idle" /\ req'[r] = Free
      BY DEF Restart, Procs
    <2>2. QED
      BY <1>2, <2>1 DEF HistoryOf, Looking, Waiting, HonestFor, Objects, ServePC, SyncPC
  <1>5. QED
    BY <1>3, <1>4 DEF HInv, HonestReply, HonestFor

LEMMA NextKeeps ==
    ASSUME HInv, Next
    PROVE  HInv' /\ HonestReply
  <1>1. ASSUME NEW r \in Requests, Begin(r) \/ Serve(r)
        PROVE  HInv' /\ HonestReply
    BY <1>1, BeginKeeps, ServeKeeps, KeepsSuffices DEF Procs
  <1>2. ASSUME NEW w \in Workers, Work(w)
        PROVE  HInv' /\ HonestReply
    BY <1>2, WorkKeeps, KeepsSuffices DEF Procs
  <1>3. ASSUME NEW p \in Procs, Copy(p)
        PROVE  HInv' /\ HonestReply
    BY <1>3, CopyKeeps, KeepsSuffices
  <1>4. QED
    BY <1>1, <1>2, <1>3, ScanKeeps, SetHeaderKeeps, RestartKeeps DEF Next

LEMMA HInvStarts ==
    ASSUME Init
    PROVE  HInv
  <1>1. Free \in Request /\ Free.op = "free"
    BY DEF Free, Request
  <1>2. TypeOK
    <2>1. /\ ceph \in Objects /\ swift \in {"none", "source"} /\ dated \in BOOLEAN
          /\ apart \subseteq {"container", "object"}
          /\ req \in [Requests -> Request] /\ seen \in [Requests -> SUBSET Objects]
      BY <1>1 DEF Init, Objects
    <2>2. pc \in [Procs -> {"idle"} \cup SyncPC \cup CopyPC \cup MarkPC \cup ServePC]
      BY DEF Init
    <2>3. faults \in 0..MaxFaults
      BY LimitAssumption DEF Init
    <2>4. QED
      BY <2>1, <2>2, <2>3 DEF TypeOK
  <1>3. ASSUME NEW r \in Requests PROVE HistoryOf(r)
    BY <1>1 DEF Init, HistoryOf, Looking, Waiting, ServePC, SyncPC, Procs
  <1>4. QED
    BY <1>2, <1>3 DEF HInv

LEMMA HInvHolds == Spec => []HInv
  <1>1. HInv /\ [Next]_vars => HInv'
    <2>1. CASE UNCHANGED vars
      BY <2>1 DEF vars, job, HInv, TypeOK, HistoryOf, Looking, Waiting
    <2>2. QED
      BY <2>1, NextKeeps
  <1>2. QED
    BY <1>1, HInvStarts, PTL DEF Spec

(* Every variable of the object handlers keeps its type.                   *)
THEOREM ObjectTypeCorrect == Spec => []TypeOK
  BY HInvHolds, PTL DEF HInv

(* Whatever copies, deletions and faults come between the two lookups of   *)
(* handleObjectRead, or between the steps of a POST, no reply tells of an  *)
(* object, or of its absence, that was never there while the client        *)
(* waited.                                                                 *)
THEOREM RepliesStayHonest == Spec => RepliesAreHonest
  <1>1. HInv /\ [Next]_vars => [HonestReply]_vars
    BY NextKeeps
  <1>2. QED
    BY <1>1, HInvHolds, PTL DEF Spec, RepliesAreHonest
-----------------------------------------------------------------------------
(* An object that is gone: only a client's upload changes Ceph, and no     *)
(* copy gets past its read of the source.                                  *)
LEMMA GoneStep ==
    ASSUME TypeOK, Gone, Next
    PROVE  Gone' \/ ceph' = "written"
  <1>1. ceph = "none" /\ swift = "none" /\ \A p \in Procs : pc[p] # "copyPut"
    BY DEF Gone
  <1>2. \A p \in Procs, l \in Locations :
            Goto(p, l) /\ l # "copyPut" => \A q \in Procs : pc'[q] # "copyPut"
    BY <1>1, GotoType DEF TypeOK, Locations
  <1>3. ASSUME NEW r \in Requests, Begin(r) PROVE Gone'
    <2>1. PICK op \in Ops \ {"SCAN"} : Goto(r, FirstCall(op))
      BY <1>3 DEF Begin
    <2>2. FirstCall(op) \in {"read", "container", "exists", "deleteCeph", "list"}
      BY OpsAssumption DEF FirstCall
    <2>3. QED
      BY <1>1, <1>2, <1>3, <2>1, <2>2 DEF Gone, Begin, Procs, Locations, ServePC, SyncPC
  <1>4. ASSUME NEW r \in Requests, Serve(r) PROVE Gone' \/ ceph' = "written"
    <2>1. \E l \in {"idle", "fallback", "ensure", "put", "post", "deleteSwift", "sync"} : Goto(r, l)
      BY <1>4 DEF Serve, Read, Fallback, PutContainer, PutCeph, PostExists, PostCeph,
                  DeleteCeph, DeleteSwift, ListContainer, Answer
    <2>2. swift' = "none" /\ (ceph' = "none" \/ ceph' = "written")
      BY <1>1, <1>4 DEF Serve, Read, Fallback, PutContainer, PutCeph, PostExists,
                        PostCeph, WithMetadata, DeleteCeph, DeleteSwift, ListContainer
    <2>3. \A q \in Procs : pc'[q] # "copyPut"
      BY <1>2, <2>1 DEF Procs, Locations, ServePC, SyncPC, CopyPC
    <2>4. QED
      BY <2>2, <2>3 DEF Gone
  <1>5. ASSUME NEW w \in Workers, Work(w) PROVE Gone'
    <2>1. Goto(w, "ensure") \/ Goto(w, "idle")
      BY <1>5 DEF Work, Claim, Reject, Succeed, Fail, Mark
    <2>2. UNCHANGED <<ceph, swift>>
      BY <1>5 DEF Work, Claim, Reject, Succeed, Fail, Mark
    <2>3. QED
      BY <1>1, <1>2, <2>1, <2>2 DEF Gone, Procs, Locations, CopyPC
  <1>6. ASSUME NEW p \in Procs, Copy(p) PROVE Gone'
    <2>1. UNCHANGED <<ceph, swift>>
      BY <1>1, <1>6 DEF Copy, SyncEnsure, SyncPage, EnsureStep, CopyEnsure,
                        CopyHead, CopyGet, CopyRead, CopyPut, CopyVerify
    <2>2. \E l \in {"idle", "copied", "failed", "post", "page", "head"} : Goto(p, l)
      BY <1>1, <1>6 DEF Copy, SyncEnsure, SyncPage, EnsureStep, CopyEnsure,
                        CopyHead, CopyGet, CopyRead, CopyPut, CopyVerify,
                        CopyEnds, Answer
    <2>3. QED
      BY <1>1, <1>2, <2>1, <2>2 DEF Gone, Locations, CopyPC, MarkPC, ServePC, SyncPC
  <1>7. ASSUME Scan \/ SetHeader PROVE Gone'
    BY <1>1, <1>7 DEF Scan, SetHeader, Gone
  <1>8. ASSUME Restart PROVE Gone'
    BY <1>1, <1>8 DEF Restart, Gone
  <1>9. QED
    BY <1>3, <1>4, <1>5, <1>6, <1>7, <1>8 DEF Next

(* A deleted object never comes back by itself.                            *)
THEOREM ObjectGoneForGood == Spec => GoneForGood
  <1>1. TypeOK /\ [Next]_vars => [StaysGone]_vars
    BY GoneStep DEF StaysGone
  <1>2. QED
    BY <1>1, ObjectTypeCorrect, PTL DEF Spec, GoneForGood
-----------------------------------------------------------------------------
(* A migration that is over.  Its job can be neither claimed nor settled:  *)
(* what is left for the workers is to give it up.                          *)
LEMMA OverIsOver ==
    ASSUME JobOver, NEW w \in Workers
    PROVE  ~Job!Claim(Key, w) /\ ~Job!Settle(Key, w)
  <1>1. ~Job!Claim(Key, w)
    BY LimitAssumption DEF JobOver, Lost, Job!Claim, Job!Queued, Job!Final
  <1>2. ~Job!Settle(Key, w)
    BY DEF JobOver, Lost, Job!Settle, Job!Final
  <1>3. QED
    BY <1>1, <1>2

LEMMA AbandonedIsOver ==
    ASSUME JobOver, NEW W, Job!Abandon(W)
    PROVE  JobOver'
  <1>1. owners[Key] = {} => owners'[Key] = {}
    BY DEF Job!Abandon
  <1>2. QED
    BY <1>1 DEF JobOver, Lost, Job!Abandon, Job!Final

LEMMA QuietStep ==
    ASSUME TypeOK, Next
    PROVE  StaysQuiet
  <1> SUFFICES ASSUME Quiet
               PROVE  Quiet' \/ ceph' = "none" \/ (status[Key] = "absent" /\ Scan) \/ SyncStarts
    BY DEF StaysQuiet
  <1> DEFINE Still == UNCHANGED job
             Resting(l) == l \notin SyncPC \cup CopyPC \cup {"fallback"}
  <1>1. ceph # "none" /\ JobOver /\ \A p \in Procs : Resting(pc[p])
    BY DEF Quiet
  <1>2. Still => JobOver'
    BY <1>1 DEF JobOver, Lost, job
  <1>3. \A p \in Procs, l \in Locations :
            Goto(p, l) /\ Resting(l) => \A q \in Procs : Resting(pc'[q])
    BY <1>1, GotoType DEF TypeOK, Locations
  <1>4. ASSUME NEW r \in Requests, Begin(r) PROVE Quiet'
    <2>1. PICK op \in Ops \ {"SCAN"} : Goto(r, FirstCall(op))
      BY <1>4 DEF Begin
    <2>2. FirstCall(op) \in {"read", "container", "exists", "deleteCeph", "list"}
      BY OpsAssumption DEF FirstCall
    <2>3. \A q \in Procs : Resting(pc'[q])
      BY <1>3, <2>1, <2>2 DEF Procs, Locations, ServePC, SyncPC, CopyPC
    <2>4. QED
      BY <1>1, <1>2, <1>4, <2>3 DEF Quiet, Begin
  <1>5. ASSUME NEW r \in Requests, Serve(r) PROVE Quiet' \/ ceph' = "none" \/ SyncStarts
    <2>1. pc[r] # "fallback"
      BY <1>1 DEF Procs
    <2>6. CASE Goto(r, "sync") /\ ListContainer(r)
      <3>1. pc[r] = "list" /\ pc'[r] = "sync"
        BY <2>6, GotoType DEF ListContainer, TypeOK, Locations, SyncPC, Procs
      <3>2. QED
        BY <3>1 DEF SyncStarts
    <2> SUFFICES ASSUME ~(Goto(r, "sync") /\ ListContainer(r))
                 PROVE  Quiet' \/ ceph' = "none"
      BY <2>6
    <2>2. \E l \in {"idle", "put", "post", "deleteSwift"} : Goto(r, l)
      BY <1>1, <1>5, <2>1 DEF Serve, Read, Fallback, PutContainer, PutCeph, PostExists,
                              PostCeph, DeleteCeph, DeleteSwift, ListContainer, Answer
    <2>3. Still
      BY <1>5, <2>1 DEF Serve, Read, Fallback, PutContainer, PutCeph, PostExists,
                        PostCeph, DeleteCeph, DeleteSwift, ListContainer
    <2>4. \A q \in Procs : Resting(pc'[q])
      BY <1>3, <2>2 DEF Procs, Locations, ServePC, SyncPC, CopyPC
    <2>5. QED
      BY <1>2, <2>3, <2>4 DEF Quiet
  <1>6. ASSUME NEW w \in Workers, Work(w) PROVE Quiet'
    <2>1. Goto(w, "idle") /\ Job!Abandon({w}) /\ UNCHANGED ceph
      BY <1>1, <1>6, OverIsOver DEF Work, Claim, Reject, Succeed, Fail, Mark
    <2>2. JobOver'
      BY <1>1, <2>1, AbandonedIsOver
    <2>3. \A q \in Procs : Resting(pc'[q])
      BY <1>3, <2>1 DEF Procs, Locations, CopyPC, SyncPC
    <2>4. QED
      BY <1>1, <2>1, <2>2, <2>3 DEF Quiet
  <1>7. ASSUME NEW p \in Procs PROVE ~Copy(p)
    BY <1>1 DEF Copy, SyncEnsure, SyncPage, EnsureStep, CopyEnsure, CopyHead, CopyGet,
                CopyRead, CopyPut, CopyVerify, CopyPC, SyncPC
  <1>8. ASSUME Scan, status[Key] # "absent" PROVE Quiet'
    <2>1. Still
      BY <1>8 DEF Scan, Enqueue
    <2>2. QED
      BY <1>1, <1>2, <1>8, <2>1 DEF Scan, Quiet
  <1>9. ASSUME Restart PROVE Quiet'
    <2>1. JobOver'
      BY <1>1, <1>9, AbandonedIsOver DEF Restart
    <2>2. QED
      BY <1>1, <1>9, <2>1 DEF Restart, Quiet, CopyPC, SyncPC
  <1>11. ASSUME SetHeader PROVE Quiet'
    <2>1. Still
      BY <1>11 DEF SetHeader
    <2>2. QED
      BY <1>1, <1>2, <1>11, <2>1 DEF SetHeader, Quiet
  <1>10. QED
    BY <1>4, <1>5, <1>6, <1>7, <1>8, <1>9, <1>11 DEF Next

(* Once an object is in Ceph and its job is over, no later read, update,   *)
(* scan, retry or restart starts another copy that would replace what the  *)
(* clients have made of it: only a listing with a token without expiry     *)
(* does, whose immediate sync asks neither the jobs nor Ceph.              *)
THEOREM MigrationEnds == Spec => QuietForGood
  <1>1. TypeOK /\ [Next]_vars => [StaysQuiet]_vars
    BY QuietStep
  <1>2. QED
    BY <1>1, ObjectTypeCorrect, PTL DEF Spec, QuietForGood
-----------------------------------------------------------------------------
(* Without deletions, a job that succeeded has its object in Ceph.  The    *)
(* worker knows from the verification on, before it marks the job.         *)
MigratedInv ==
    /\ Key \in DOMAIN status
    /\ \A p \in Procs : pc[p] \notin {"deleteCeph", "deleteSwift"}
    /\ \A w \in Workers : pc[w] = "copied" => ceph # "none"
    /\ SucceededMeansMigrated

LEMMA CephStays ==
    ASSUME MigratedInv, Next, ceph # "none"
    PROVE  ceph' # "none"
  <1>1. ASSUME NEW r \in Requests, Serve(r) PROVE ceph' # "none"
    <2>1. pc[r] \notin {"deleteCeph", "deleteSwift"}
      BY DEF MigratedInv, Procs
    <2>2. QED
      BY <1>1, <2>1 DEF Serve, Read, Fallback, PutContainer, PutCeph, PostExists,
                        PostCeph, WithMetadata, DeleteCeph, DeleteSwift, ListContainer
  <1>2. ASSUME NEW p \in Procs, Copy(p) PROVE ceph' # "none"
    BY <1>2 DEF Copy, SyncEnsure, SyncPage, EnsureStep, CopyEnsure,
                CopyHead, CopyGet, CopyRead, CopyPut, CopyVerify
  <1>3. QED
    BY <1>1, <1>2 DEF Next, Begin, Work, Claim, Reject, Succeed, Fail, Mark, Scan, SetHeader,
                         Restart

LEMMA MigratedStep ==
    ASSUME "DELETE" \notin Ops, TypeOK, MigratedInv, Next
    PROVE  MigratedInv'
  <1> DEFINE Kept == \/ UNCHANGED status
                     \/ status' = [status EXCEPT ![Key] = "pending"]
  <1>1. ceph # "none" => ceph' # "none"
    BY CephStays
  <1>2. Kept => Key \in DOMAIN status' /\ SucceededMeansMigrated'
    BY <1>1 DEF MigratedInv, SucceededMeansMigrated
  <1>3. ASSUME NEW p \in Procs, NEW l \in Locations, Goto(p, l),
               l \notin {"deleteCeph", "deleteSwift"},
               p \in Workers /\ l = "copied" => ceph' # "none"
        PROVE  /\ \A q \in Procs : pc'[q] \notin {"deleteCeph", "deleteSwift"}
               /\ \A w \in Workers : pc'[w] = "copied" => ceph' # "none"
    BY <1>1, <1>3, GotoType DEF TypeOK, Locations, MigratedInv, Procs
  <1>4. ASSUME NEW r \in Requests, Begin(r) PROVE MigratedInv'
    <2>1. PICK op \in Ops \ {"SCAN"} : Goto(r, FirstCall(op))
      BY <1>4 DEF Begin
    <2>2. FirstCall(op) \in {"read", "container", "exists", "list"}
      BY OpsAssumption DEF FirstCall
    <2>3. QED
      BY <1>2, <1>3, <1>4, <2>1, <2>2
      DEF MigratedInv, Begin, job, Procs, Locations, ServePC, SyncPC
  <1>5. ASSUME NEW r \in Requests, Serve(r) PROVE MigratedInv'
    <2>1. pc[r] \notin {"deleteCeph", "deleteSwift"}
      BY DEF MigratedInv, Procs
    <2>2. \E l \in {"idle", "fallback", "ensure", "put", "post", "sync"} : Goto(r, l)
      BY <1>5, <2>1 DEF Serve, Read, Fallback, PutContainer, PutCeph, PostExists,
                        PostCeph, DeleteCeph, DeleteSwift, ListContainer, Answer
    <2>3. Kept
      BY <1>5, <2>1 DEF Serve, Read, Fallback, PutContainer, PutCeph, PostExists,
                        PostCeph, DeleteCeph, DeleteSwift, ListContainer, Enqueue,
                        Job!Submit, job
    <2>4. QED
      BY <1>2, <1>3, <2>2, <2>3 DEF MigratedInv, Procs, Locations, ServePC, SyncPC, CopyPC
  <1>6. ASSUME NEW w \in Workers, Work(w) PROVE MigratedInv'
    <2>1. Goto(w, "ensure") \/ Goto(w, "idle")
      BY <1>6 DEF Work, Claim, Reject, Succeed, Fail, Mark
    <2>2. Key \in DOMAIN status'
      BY <1>6 DEF Work, Claim, Reject, Succeed, Fail, Mark, MigratedInv,
                  Job!Claim, Job!Settle, Job!Abandon
    <2>3. SucceededMeansMigrated'
      <3>1. CASE Succeed(w)
        BY <1>1, <3>1 DEF Succeed, MigratedInv, SucceededMeansMigrated
      <3>2. CASE Reject(w) \/ Fail(w)
        BY <1>1, <3>2 DEF Reject, Fail, Mark, MigratedInv, SucceededMeansMigrated,
                          Job!Abandon
      <3>3. CASE Claim(w)
        BY <1>1, <3>3 DEF Claim, MigratedInv, SucceededMeansMigrated, Job!Claim
      <3>4. QED
        BY <1>6, <3>1, <3>2, <3>3 DEF Work
    <2>4. QED
      BY <1>3, <2>1, <2>2, <2>3 DEF MigratedInv, Procs, Locations, CopyPC
  <1>7. ASSUME NEW p \in Procs, Copy(p) PROVE MigratedInv'
    <2>1. UNCHANGED status
      BY <1>7 DEF Copy, SyncEnsure, SyncPage, EnsureStep, CopyEnsure,
                  CopyHead, CopyGet, CopyRead, CopyPut, CopyVerify, job
    <2>2. \/ \E l \in CopyPC \cup {"page", "failed", "idle", "post"} : Goto(p, l)
          \/ Goto(p, "copied") /\ ceph' # "none"
      BY <1>7 DEF Copy, SyncEnsure, SyncPage, EnsureStep, CopyEnsure,
                  CopyHead, CopyGet, CopyRead, CopyPut, CopyVerify,
                  CopyEnds, Answer, CopyPC
    <2>3. QED
      BY <1>2, <1>3, <2>1, <2>2 DEF MigratedInv, Locations, ServePC, SyncPC, CopyPC, MarkPC
  <1>8. ASSUME Scan \/ SetHeader PROVE MigratedInv'
    <2>1. Kept
      BY <1>8 DEF Scan, SetHeader, Enqueue, Job!Submit, job
    <2>2. QED
      BY <1>2, <1>8, <2>1 DEF Scan, SetHeader, MigratedInv
  <1>9. ASSUME Restart PROVE MigratedInv'
    <2>1. UNCHANGED <<ceph, status>> /\ \A p \in Procs : pc'[p] = "idle"
      BY <1>9 DEF Restart, Job!Abandon
    <2>2. QED
      BY <1>2, <2>1 DEF MigratedInv, Procs
  <1>10. QED
    BY <1>4, <1>5, <1>6, <1>7, <1>8, <1>9 DEF Next

(* No lost response, crash or competing copy makes a job succeed that      *)
(* copied nothing, as long as no client deletes the object.                *)
THEOREM SuccessIsMigration ==
    ASSUME "DELETE" \notin Ops
    PROVE  Spec => []SucceededMeansMigrated
  <1>1. Init => MigratedInv
    BY DEF Init, MigratedInv, SucceededMeansMigrated, Job!Init, Procs
  <1>2. TypeOK /\ MigratedInv /\ [Next]_vars => MigratedInv'
    <2>1. CASE UNCHANGED vars
      BY <2>1 DEF vars, job, MigratedInv, SucceededMeansMigrated
    <2>2. QED
      BY <2>1, MigratedStep
  <1>3. MigratedInv => SucceededMeansMigrated
    BY DEF MigratedInv
  <1>4. QED
    BY <1>1, <1>2, <1>3, ObjectTypeCorrect, PTL DEF Spec

=============================================================================
