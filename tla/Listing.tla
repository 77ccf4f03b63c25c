------------------------------ MODULE Listing ------------------------------
(***************************************************************************)
(* The names of the objects in one container, or of the containers in one  *)
(* account, listed by a client through the proxy (internal/proxy:          *)
(* handleMergedListing and listing.go) and scanned by the migration        *)
(* (internal/migration/service.go: processContainerJob,                    *)
(* SyncContainerNowWithSourceAuth and processAccountJob), while they are   *)
(* copied, uploaded and deleted.  Both go page by page with the last name  *)
(* as the next marker, so that names come and go between two pages, and    *)
(* between the listing of Ceph and that of Swift that make one page.       *)
(*                                                                         *)
(* Names are numbers in the order of the listing; a page is the set of its *)
(* entries, since every listing is sorted.  The model follows one client   *)
(* and one scan; whatever else migrates objects is the action Copy.        *)
(***************************************************************************)
EXTENDS Naturals, FiniteSets

CONSTANTS
    NameCount,    \* names are 1..NameCount
    ClientLimits, \* the limit parameters of clients, or NoLimit
    NoLimit,      \* the client sends no limit
    Cap,          \* the longest page that a backend returns
    ScanLimit,    \* the limit of a scan: 1000 in the code
    MaxFaults,    \* bound: failing calls
    MaxChanges    \* bound: uploads and deletions by other clients

ASSUME NamesAssumption == NameCount \in Nat
ASSUME LimitsAssumption ==
    /\ Cap \in Nat \ {0} /\ ScanLimit \in 1..Cap
    /\ ClientLimits \subseteq (Nat \ {0}) \cup {NoLimit}
ASSUME BoundsAssumption == MaxFaults \in Nat /\ MaxChanges \in Nat

VARIABLES
    level,    \* what is listed: a container or an account
    ceph,     \* the names in it in Ceph, or NoContainer
    swift,    \* the names in it in Swift, or NoContainer
    lister,   \* a client going through the merged listing
    stable,   \* history: names that were there since the client began
    scan,     \* the container or account job, or the immediate scan
    faults, changes

vars == <<level, ceph, swift, lister, stable, scan, faults, changes>>
-----------------------------------------------------------------------------
Names       == 1..NameCount
NoContainer == {0}  \* nor account
NamesIn(c)  == c \ NoContainer
Last(S)     == CHOOSE n \in S : \A m \in S : m <= n
First(S)    == CHOOSE n \in S : \A m \in S : n <= m

(* The first k of a set of names. *)
Lowest(S, k) == {n \in S : Cardinality({m \in S : m < n}) < k}

(* What a backend returns: names after the marker, at most as many as      *)
(* asked for, and never more than its own limit.                           *)
Capped(limit) == limit = NoLimit \/ limit > Cap
Page(c, marker, limit) ==
    Lowest({n \in NamesIn(c) : n > marker}, IF Capped(limit) THEN Cap ELSE limit)

(* A page ended at its backend's own limit, before a name of the other's.  *)
Overtaken(page, other, limit) ==
    /\ Capped(limit) /\ Cardinality(page) = Cap
    /\ \E n \in other : n > Last(page)

(* Mutant: the limit is left to the backends. *)
NotLimited(S, limit) == S

ApplyLimit(S, limit) == IF limit = NoLimit THEN S ELSE Lowest(S, limit)

Entries(S, backend) == [name : S, from : {backend}]

(* Mutant: the backend that is read last wins. *)
MergeSwiftFirst(fromCeph, fromSwift, limit) ==
    {[name |-> n, from |-> IF n \in fromSwift THEN "swift" ELSE "ceph"]
        : n \in ApplyLimit(fromCeph \cup fromSwift, limit)}

(* mergePlainListing and mergeJSONListing: one entry per name, Ceph's if   *)
(* there are two, and then the limit.  The plain one also trims white      *)
(* space from names; the names here are those that have none at an end.    *)
Merge(fromCeph, fromSwift, limit) ==
    {[name |-> n, from |-> IF n \in fromCeph THEN "ceph" ELSE "swift"]
        : n \in ApplyLimit(fromCeph \cup fromSwift, limit)}

(* page, had: what Ceph returned, and what it had; sent: the last page of  *)
(* the reply; hidden: a failure of Swift was not reported to the client,   *)
(* or a page was cut by one backend only, without its asking.              *)
Lister == [pc : {"idle", "ceph", "swift", "done"}, limit : ClientLimits \cup {NoLimit},
           marker : 0..NameCount, found : BOOLEAN, page : SUBSET Names, had : SUBSET Names,
           sent : SUBSET [name : Names, from : {"ceph", "swift"}],
           got : SUBSET Names, hidden : BOOLEAN]
NoClient == [pc |-> "idle", limit |-> NoLimit, marker |-> 0, found |-> FALSE,
             page |-> {}, had |-> {}, sent |-> {}, got |-> {}, hidden |-> FALSE]

(* mode: a job of the queue, or an immediate scan with the caller's token. *)
Scan == [pc : {"idle", "queued", "list", "visit", "done"}, mode : {"job", "now"},
         marker : 0..NameCount, page : SUBSET Names, short : BOOLEAN,
         handled : SUBSET Names, skipped : SUBSET Names]
NoScan == [pc |-> "idle", mode |-> "job", marker |-> 0, page |-> {}, short |-> FALSE,
           handled |-> {}, skipped |-> {}]
QueuedScan(mode) == [NoScan EXCEPT !.pc = "queued", !.mode = mode]

TypeOK ==
    /\ level \in {"container", "account"}
    /\ ceph \in (SUBSET Names) \cup {NoContainer}
    /\ swift \in (SUBSET Names) \cup {NoContainer}
    /\ lister \in Lister
    /\ stable \subseteq Names
    /\ scan \in Scan
    /\ faults \in 0..MaxFaults
    /\ changes \in 0..MaxChanges

Fault   == faults < MaxFaults /\ faults' = faults + 1
NoFault == UNCHANGED faults

Init ==
    /\ level \in {"container", "account"}
    /\ ceph \in (SUBSET Names) \cup {NoContainer}
    /\ swift \in (SUBSET Names) \cup {NoContainer}
    /\ lister = NoClient
    /\ stable = {}
    /\ scan = NoScan
    /\ faults = 0
    /\ changes = 0
-----------------------------------------------------------------------------
(* A client starts to list from the beginning. *)
Begin ==
    /\ lister.pc \in {"idle", "done"}
    /\ \E limit \in ClientLimits :
          lister' = [NoClient EXCEPT !.pc = "ceph", !.limit = limit]
    /\ stable' = NamesIn(ceph) \cup NamesIn(swift)
    /\ UNCHANGED <<level, ceph, swift, scan, faults, changes>>

(* The reply to the client, who goes on after the last name of the page,   *)
(* and is done when the page is empty.                                     *)
Reply(entries, hidden) ==
    LET names == {e.name : e \in entries}
    IN  lister' = [NoClient EXCEPT
            !.pc = IF names = {} THEN "done" ELSE "ceph",
            !.limit = lister.limit,
            !.marker = IF names = {} THEN lister.marker ELSE Last(names),
            !.sent = entries,
            !.got = lister.got \cup names,
            !.hidden = lister.hidden \/ hidden]

(* handleMergedListing, first call: a failure other than 404 is the reply, *)
(* and the client gives up.                                                *)
ListCeph ==
    /\ lister.pc = "ceph"
    /\ \/ /\ lister' = [lister EXCEPT
                !.pc = "swift",
                !.found = (ceph # NoContainer),
                !.page = Page(ceph, lister.marker, lister.limit),
                !.had = NamesIn(ceph),
                !.sent = {}]
          /\ NoFault
       \/ lister' = NoClient /\ Fault
    /\ UNCHANGED <<level, ceph, swift, stable, scan, changes>>

(* enqueueContainerScan: a job, or at once for a token without an expiry.  *)
(* An enqueue that fails is only logged; a job that is there stays; and    *)
(* the listing of an account leads to no scan.                             *)
Scannable == level = "container" /\ scan.pc = "idle"
RequestScan ==
    \/ Scannable /\ (\E mode \in {"job", "now"} : scan' = QueuedScan(mode)) /\ NoFault
    \/ Scannable /\ UNCHANGED scan /\ Fault
    \/ ~Scannable /\ UNCHANGED scan /\ NoFault

(* handleMergedListing, second call, and the reply. *)
ListSwift ==
    /\ lister.pc = "swift"
    /\ LET limit  == lister.limit
           page   == Page(swift, lister.marker, limit)
           hidden == Overtaken(page, lister.page, limit) \/ Overtaken(lister.page, page, limit)
       IN  \/ /\ swift = NoContainer
              /\ IF lister.found THEN Reply(Entries(lister.page, "ceph"), FALSE) ELSE lister' = NoClient
              /\ NoFault
              /\ UNCHANGED scan
           \/ /\ swift # NoContainer
              /\ Reply(IF lister.found THEN Merge(lister.page, page, limit)
                                      ELSE Entries(page, "swift"), hidden)
              /\ RequestScan
    /\ UNCHANGED <<level, ceph, swift, stable, changes>>

(* Swift answers with an error status, which is the reply; or it does not  *)
(* answer, and Ceph's page, if there is one, is the reply.                 *)
SwiftFails ==
    /\ lister.pc = "swift"
    /\ \/ lister' = NoClient
       \/ lister.found /\ Reply(Entries(lister.page, "ceph"), TRUE)
    /\ Fault
    /\ UNCHANGED <<level, ceph, swift, stable, scan, changes>>
-----------------------------------------------------------------------------
(* A failing scan is run again if it is a job, from the beginning, and the *)
(* attempts suffice for MaxFaults failures; an immediate scan is over.     *)
ScanFails ==
    /\ scan' = IF scan.mode = "job" THEN QueuedScan("job") ELSE NoScan
    /\ Fault

(* An operator, or the scan of the account, asks for a scan. *)
AdminScan ==
    /\ scan.pc = "idle"
    /\ scan' = QueuedScan("job")
    /\ UNCHANGED <<level, ceph, swift, lister, stable, faults, changes>>

(* EnsureContainerWithSourceAuth creates the target container; the scan of *)
(* an account takes its headers only.                                      *)
ScanStart ==
    /\ scan.pc = "queued"
    /\ LET synced == IF level = "container" THEN NamesIn(ceph) ELSE ceph
       IN  \/ /\ level = "container" /\ swift = NoContainer
              /\ scan' = [scan EXCEPT !.pc = "done"]
              /\ NoFault
              /\ UNCHANGED ceph
           \/ /\ level = "container" => swift # NoContainer
              /\ scan' = [scan EXCEPT !.pc = "list"]
              /\ ceph' = synced
              /\ NoFault
           \/ ScanFails /\ ceph' \in {ceph, synced}
    /\ UNCHANGED <<level, swift, lister, stable, changes>>

(* Mutant: len(items) <= 1000 *)
NotLonger(page) == Cardinality(page) <= ScanLimit

(* A page shorter than the limit is the last one. *)
ShortPage(page) == Cardinality(page) < ScanLimit

(* forEachSourceContainerObject, or the loop of processAccountJob: one     *)
(* page; an empty one, or a 404, ends the scan.                            *)
ScanPage ==
    /\ scan.pc = "list"
    /\ LET page == Page(swift, scan.marker, ScanLimit)
       IN  \/ /\ scan' = [scan EXCEPT !.pc = IF page = {} THEN "done" ELSE "visit",
                                      !.page = page,
                                      !.short = ShortPage(page)]
              /\ NoFault
           \/ ScanFails
    /\ UNCHANGED <<level, ceph, swift, lister, stable, changes>>

Visited(name, result) ==
    LET rest == scan.page \ {name}
    IN  [result EXCEPT
            !.marker = name,
            !.page = rest,
            !.pc = IF rest # {} THEN "visit" ELSE IF scan.short THEN "done" ELSE "list"]

(* One name: a job queues the copy of the object, or the job of the        *)
(* container, and an enqueue that fails is only logged.  An immediate scan *)
(* copies it, goes on if it is gone from Swift, and ends with any other    *)
(* failure.                                                                *)
ScanVisit ==
    /\ scan.pc = "visit"
    /\ LET name    == First(scan.page)
           handled == Visited(name, [scan EXCEPT !.handled = @ \cup {name}])
           skipped == Visited(name, [scan EXCEPT !.skipped = @ \cup {name}])
       IN  \/ scan.mode = "job" /\ scan' = handled /\ NoFault /\ UNCHANGED ceph
           \/ scan.mode = "job" /\ scan' = skipped /\ Fault /\ UNCHANGED ceph
           \/ /\ scan.mode = "now" /\ name \in swift
              /\ scan' = handled
              /\ ceph' = NamesIn(ceph) \cup {name}
              /\ NoFault
           \/ /\ scan.mode = "now" /\ name \notin swift
              /\ scan' = Visited(name, scan)
              /\ NoFault
              /\ UNCHANGED ceph
           \/ scan.mode = "now" /\ ScanFails /\ UNCHANGED ceph
    /\ UNCHANGED <<level, swift, lister, stable, changes>>
-----------------------------------------------------------------------------
(* The other clients and the workers. *)

(* Mutant: the target container is not created first. *)
CopyOnly(name) ==
    /\ name \in swift
    /\ ceph' = ceph \cup {name}
    /\ UNCHANGED <<level, swift, lister, stable, scan, faults, changes>>

(* A worker, or the request of a client, copies an object, or creates a    *)
(* container that it found in Swift.                                       *)
Copy(name) ==
    /\ name \in swift
    /\ ceph' = NamesIn(ceph) \cup {name}
    /\ UNCHANGED <<level, swift, lister, stable, scan, faults, changes>>

Change == changes < MaxChanges /\ changes' = changes + 1

(* handleObjectPut, or the PUT of a container. *)
Upload(name) ==
    /\ Change
    /\ ceph' = NamesIn(ceph) \cup {name}
    /\ UNCHANGED <<level, swift, lister, stable, scan, faults>>

(* Either call of handleObjectDelete or handleContainerDelete; a listing   *)
(* may or may not show a name that is being deleted.                       *)
Delete(name) ==
    /\ Change
    /\ \/ name \in ceph /\ ceph' = ceph \ {name} /\ UNCHANGED swift
       \/ name \in swift /\ swift' = swift \ {name} /\ UNCHANGED ceph
    /\ stable' = stable \ {name}
    /\ UNCHANGED <<level, lister, scan, faults>>

Next ==
    \/ Begin \/ ListCeph \/ ListSwift \/ SwiftFails
    \/ AdminScan \/ ScanStart \/ ScanPage \/ ScanVisit
    \/ \E name \in Names : Copy(name) \/ Upload(name) \/ Delete(name)

Spec == Init /\ [][Next]_vars
-----------------------------------------------------------------------------
(* A client that reached the end of the merged listing has seen every name *)
(* that was there all the time, although each page is cut out of two pages *)
(* of different moments and objects move from Swift to Ceph meanwhile.     *)
(* Two cases are excepted: a failure of Swift that the handler hides, and  *)
(* a page that only one backend cut, at a limit of its own: the marker     *)
(* moves past names that were never listed.                                *)
ListingComplete == lister.pc = "done" /\ ~lister.hidden => stable \subseteq lister.got

(* The entry of a name that Ceph has is Ceph's, also when the name is not  *)
(* on the page that Ceph returned; with the same exceptions, since behind  *)
(* a page that Ceph cut the legacy entry is listed instead.                *)
CephEntryWins ==
    ~lister'.hidden =>
        \A e \in lister'.sent : e.from = "swift" => e.name \notin lister.had
CephPreferred == [][CephEntryWins]_vars

(* A scan that ended well has handled every name that is still in Swift,   *)
(* whatever was deleted under its marker, except for the names whose       *)
(* enqueue failed.                                                         *)
ScanComplete == scan.pc = "done" => NamesIn(swift) \subseteq scan.handled \cup scan.skipped
-----------------------------------------------------------------------------
(* handler_test.go, TestAccountListingDoesNotHideSwiftFailureBehind-       *)
(* PartialCephResult: a client that got to the end without an error has    *)
(* seen all.                                                               *)
ListingNotPartial == lister.pc = "done" => stable \subseteq lister.got
=============================================================================
