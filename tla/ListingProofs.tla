---------------------------- MODULE ListingProofs ----------------------------
(***************************************************************************)
(* What Listing guarantees for every number of names, all limits of the    *)
(* client, of the backends and of the scan, and every number of faults and *)
(* changes: a client that follows the merged listing to its end has seen   *)
(* all that was there, Ceph's entries win, and a scan misses no name.      *)
(***************************************************************************)
EXTENDS Listing, OrderLemmas, TLAPS

(* What a backend has after a marker, and how much of it fits on a page.   *)
After(c, marker) == {n \in NamesIn(c) : n > marker}
Size(limit)      == IF Capped(limit) THEN Cap ELSE limit
Limits           == ClientLimits \cup {NoLimit}

LEMMA SizeType ==
    ASSUME NEW limit \in Limits
    PROVE  Size(limit) \in Nat \ {0}
  BY LimitsAssumption DEF Size, Capped, Limits

LEMMA ScanSizeType == Size(ScanLimit) \in Nat \ {0} /\ ScanLimit <= Size(ScanLimit)
  BY LimitsAssumption DEF Size, Capped

-----------------------------------------------------------------------------
LEMMA NamesAreNumbers == Names \subseteq Nat /\ \A n \in Names : n <= NameCount
  BY NamesAssumption DEF Names

LEMMA FirstIsLeast ==
    ASSUME NEW S \in SUBSET Names, S # {}
    PROVE  First(S) \in S /\ \A m \in S : First(S) <= m
  <1>1. S \in SUBSET Nat
    BY NamesAreNumbers
  <1>2. \E n \in S : \A m \in S : n <= m
    BY <1>1, LeastExists
  <1>3. QED
    BY <1>2 DEF First

LEMMA LastIsGreatest ==
    ASSUME NEW S \in SUBSET Names, S # {}
    PROVE  Last(S) \in S /\ \A m \in S : m <= Last(S)
  <1>1. S \in SUBSET Nat /\ NameCount \in Nat /\ \A n \in S : n <= NameCount
    BY NamesAreNumbers, NamesAssumption
  <1>2. \E n \in S : \A m \in S : m <= n
    BY <1>1, GreatestExists
  <1>3. QED
    BY <1>2 DEF Last
-----------------------------------------------------------------------------
(* The first k of a set of names.                                          *)
LEMMA NamesFinite ==
    ASSUME NEW S \in SUBSET Names
    PROVE  IsFiniteSet(S) /\ Cardinality(S) \in Nat
  <1>1. IsFiniteSet(Names)
    BY FS_Interval, NamesAssumption DEF Names
  <1>2. IsFiniteSet(S)
    BY <1>1, FS_Subset
  <1>3. QED
    BY <1>2, FS_CardinalityType

LEMMA SubsetIsSmaller ==
    ASSUME NEW S \in SUBSET Names, NEW T \in SUBSET S
    PROVE  Cardinality(T) <= Cardinality(S)
  BY NamesFinite, FS_Subset

LEMMA LowestDownward ==
    ASSUME NEW S \in SUBSET Names, NEW k \in Nat, NEW n \in Lowest(S, k), NEW m \in S, m <= n
    PROVE  m \in Lowest(S, k)
  <1> DEFINE Below(x) == {y \in S : y < x}
  <1>1. Below(m) \subseteq Below(n)
    <2>1. m \in Nat /\ n \in Nat /\ \A y \in S : y \in Nat
      BY NamesAreNumbers DEF Lowest
    <2>2. \A y \in S : y < m => y < n
      BY <2>1
    <2>3. QED
      BY <2>2
  <1>2. Cardinality(Below(m)) <= Cardinality(Below(n))
    BY <1>1, SubsetIsSmaller
  <1>3. Cardinality(Below(n)) < k
    BY DEF Lowest
  <1>4. Cardinality(Below(m)) \in Nat /\ Cardinality(Below(n)) \in Nat
    BY NamesFinite
  <1>5. Cardinality(Below(m)) < k
    BY <1>2, <1>3, <1>4
  <1>6. QED
    BY <1>5 DEF Lowest

LEMMA LowestBelowRest ==
    ASSUME NEW S \in SUBSET Names, NEW k \in Nat, NEW n \in S, n \notin Lowest(S, k)
    PROVE  \A m \in Lowest(S, k) : m < n
  BY LowestDownward, NamesAssumption DEF Names, Lowest

(* A page that is not full is the last one.                                *)
LEMMA ShortIsAll ==
    ASSUME NEW S \in SUBSET Names, NEW k \in Nat, Cardinality(Lowest(S, k)) < k
    PROVE  Lowest(S, k) = S
  <1> DEFINE L == Lowest(S, k)
  <1>1. SUFFICES ASSUME S \ L # {} PROVE FALSE
    BY DEF Lowest
  <1>2. PICK n \in S \ L : \A m \in S \ L : n <= m
    <2>1. S \ L \in SUBSET Nat
      BY NamesAreNumbers
    <2>2. QED
      BY <1>1, <2>1, LeastExists
  <1>3. {m \in S : m < n} \subseteq L
    <2>1. S \subseteq Nat
      BY NamesAreNumbers
    <2>2. ASSUME NEW m \in S, m < n, m \notin L PROVE FALSE
      <3>1. n <= m /\ m \in Nat /\ n \in Nat
        BY <1>2, <2>1, <2>2
      <3>2. QED
        BY <2>2, <3>1
    <2>3. QED
      BY <2>2
  <1>4. Cardinality({m \in S : m < n}) <= Cardinality(L)
    BY <1>3, SubsetIsSmaller DEF Lowest
  <1>5. Cardinality({m \in S : m < n}) \in Nat /\ Cardinality(L) \in Nat
    BY NamesFinite DEF Lowest
  <1>6. Cardinality({m \in S : m < n}) < k
    BY <1>4, <1>5
  <1>7. QED
    BY <1>2, <1>6 DEF Lowest

LEMMA LowestAtMost ==
    ASSUME NEW S \in SUBSET Names, NEW k \in Nat
    PROVE  Cardinality(Lowest(S, k)) <= k
  <1> DEFINE L == Lowest(S, k)
  <1>1. CASE L = {}
    BY <1>1, FS_EmptySet
  <1>2. CASE L # {}
    <2> DEFINE n == Last(L)  B == {m \in S : m < n}
    <2>1. L \in SUBSET Names
      BY DEF Lowest
    <2>2. n \in L /\ \A m \in L : m <= n
      BY <1>2, <2>1, LastIsGreatest
    <2> HIDE DEF n
    <2>3. L \subseteq B \cup {n}
      BY <2>1, <2>2, NamesAssumption DEF Names, Lowest
    <2>4. IsFiniteSet(B) /\ Cardinality(B) \in Nat /\ Cardinality(B) < k
      BY <2>2, NamesFinite DEF Lowest
    <2>5. IsFiniteSet(B \cup {n}) /\ Cardinality(B \cup {n}) <= Cardinality(B) + 1
      <3>1. IsFiniteSet(B \cup {n})
        BY <2>4, FS_AddElement
      <3>2. Cardinality(B \cup {n}) = IF n \in B THEN Cardinality(B) ELSE Cardinality(B) + 1
        BY <2>4, FS_AddElement
      <3>3. QED
        BY <2>4, <3>1, <3>2
    <2>6. Cardinality(L) <= Cardinality(B \cup {n})
      BY <2>3, <2>5, FS_Subset
    <2>7. Cardinality(L) \in Nat /\ Cardinality(B \cup {n}) \in Nat
      BY <2>1, <2>5, NamesFinite, FS_CardinalityType
    <2>8. QED
      BY <2>4, <2>5, <2>6, <2>7
  <1>3. QED
    BY <1>1, <1>2

LEMMA LowestNonempty ==
    ASSUME NEW S \in SUBSET Names, NEW k \in Nat \ {0}, Lowest(S, k) = {}
    PROVE  S = {}
  BY ShortIsAll, FS_EmptySet
-----------------------------------------------------------------------------
(* A name that a page leaves out comes after all of the merged page, unless *)
(* the other page was cut later and by its backend only.                   *)
LEMMA LimitDownward ==
    ASSUME NEW S \in SUBSET Names, NEW limit \in Limits,
           NEW n \in ApplyLimit(S, limit), NEW m \in S, m <= n
    PROVE  m \in ApplyLimit(S, limit)
  <1>1. CASE limit = NoLimit
    BY <1>1 DEF ApplyLimit
  <1>2. CASE limit # NoLimit
    <2>1. limit \in Nat
      BY <1>2, LimitsAssumption DEF Limits
    <2>2. QED
      BY <1>2, <2>1, LowestDownward DEF ApplyLimit
  <1>3. QED
    BY <1>1, <1>2

LEMMA LimitNonempty ==
    ASSUME NEW S \in SUBSET Names, NEW limit \in Limits, ApplyLimit(S, limit) = {}
    PROVE  S = {}
  BY LowestNonempty, LimitsAssumption DEF Limits, ApplyLimit

LEMMA LeftOutIsLater ==
    ASSUME NEW C \in SUBSET Names, NEW W \in SUBSET Names, NEW limit \in Limits,
           NEW p, p = Lowest(C, Size(limit)), NEW q \in SUBSET W,
           ~Overtaken(p, q, limit),
           NEW n \in C, n \notin p, NEW m \in ApplyLimit(p \cup q, limit)
    PROVE  m < n
  <1>1. p \in SUBSET Names /\ m \in p \cup q /\ Size(limit) \in Nat \ {0}
    BY SizeType DEF Lowest, ApplyLimit
  <1>2. m \in Nat /\ n \in Nat /\ \A x \in p \cup q : x \in Nat
    BY <1>1, NamesAreNumbers
  <1>3. \A x \in p : x < n
    BY <1>1, LowestBelowRest
  <1>4. Cardinality(p) \in Nat /\ Cardinality(p) >= Size(limit) /\ Cardinality(p) <= Size(limit)
    <2>1. Cardinality(p) \in Nat
      BY <1>1, NamesFinite
    <2>2. Cardinality(p) <= Size(limit)
      BY <1>1, LowestAtMost
    <2>3. ~(Cardinality(p) < Size(limit))
      BY <1>1, ShortIsAll
    <2>4. QED
      BY <1>1, <2>1, <2>2, <2>3
  <1>5. CASE Capped(limit)
    <2>1. Cardinality(p) = Cap /\ Size(limit) = Cap
      BY <1>1, <1>4, <1>5 DEF Size
    <2>2. p # {}
      BY <1>1, <2>1, FS_EmptySet
    <2>3. Last(p) \in p
      BY <1>1, <2>2, LastIsGreatest
    <2>4. \A x \in q : ~(x > Last(p))
      BY <1>5, <2>1 DEF Overtaken
    <2>5. Last(p) \in Nat /\ Last(p) < n
      BY <1>2, <1>3, <2>3
    <2>6. CASE m \in p
      BY <1>3, <2>6
    <2>7. CASE m \in q
      BY <1>2, <2>4, <2>5, <2>7
    <2>8. QED
      BY <1>1, <2>6, <2>7
  <1>6. CASE ~Capped(limit)
    <2>1. limit # NoLimit /\ Size(limit) = limit
      BY <1>6 DEF Capped, Size
    <2>2. SUFFICES ASSUME n <= m PROVE FALSE
      BY <1>2
    <2> DEFINE B == {x \in p \cup q : x < m}
    <2>3. p \subseteq B
      BY <1>2, <1>3, <2>2
    <2>4. B \in SUBSET Names
      BY <1>1
    <2>5. Cardinality(p) <= Cardinality(B) /\ Cardinality(B) \in Nat
      BY <2>3, <2>4, SubsetIsSmaller, NamesFinite
    <2>6. Cardinality(B) < limit
      BY <2>1 DEF ApplyLimit, Lowest
    <2>7. QED
      BY <1>1, <1>4, <2>1, <2>5, <2>6
  <1>7. QED
    BY <1>5, <1>6

(* What one page, or the page merged from two, says about the names it is  *)
(* cut from: up to its last name it leaves out none, and it is empty only  *)
(* if there are none.                                                      *)
Covers(page, S) ==
    /\ page \subseteq S
    /\ \A n \in S : (\E m \in page : n <= m) => n \in page
    /\ page = {} => S = {}

LEMMA PageCovers ==
    ASSUME NEW S \in SUBSET Names, NEW k \in Nat \ {0}
    PROVE  Covers(Lowest(S, k), S)
  BY LowestDownward, LowestNonempty DEF Covers, Lowest

LEMMA MergeCovers ==
    ASSUME NEW C \in SUBSET Names, NEW W \in SUBSET Names, NEW limit \in Limits,
           NEW p, p = Lowest(C, Size(limit)), NEW q, q = Lowest(W, Size(limit)),
           ~Overtaken(p, q, limit), ~Overtaken(q, p, limit)
    PROVE  Covers(ApplyLimit(p \cup q, limit), C \cup W)
  <1> DEFINE M == ApplyLimit(p \cup q, limit)
  <1>1. p \in SUBSET C /\ q \in SUBSET W /\ M \subseteq p \cup q
    BY DEF Lowest, ApplyLimit
  <1>2. ASSUME NEW n \in C \cup W, NEW m \in M, n <= m PROVE n \in M
    <2>1. m \in Nat /\ n \in Nat /\ ~(m < n)
      <3>1. m \in Names /\ n \in Names
        BY <1>1
      <3>2. m \in Nat /\ n \in Nat
        BY <3>1, NamesAreNumbers
      <3>3. QED
        BY <1>2, <3>2
    <2>2. M = ApplyLimit(q \cup p, limit)
      OBVIOUS
    <2>3. n \in p \cup q
      <3>1. CASE n \in C
        BY <1>1, <2>1, <3>1, LeftOutIsLater
      <3>2. CASE n \in W
        BY <1>1, <2>1, <2>2, <3>2, LeftOutIsLater
      <3>3. QED
        BY <3>1, <3>2
    <2>4. QED
      BY <1>1, <1>2, <2>3, LimitDownward
  <1>3. M = {} => C \cup W = {}
    BY <1>1, SizeType, LimitNonempty, LowestNonempty
  <1>4. QED
    BY <1>1, <1>2, <1>3 DEF Covers
-----------------------------------------------------------------------------
(* The inductive invariant.  A client between two pages has got every name *)
(* that stayed, up to its marker; between the two calls for a page, what   *)
(* stayed and is left was in Ceph then or is in Swift now: a migration     *)
(* between them copies, and never takes a name away.                       *)
Between == lister.pc \in {"ceph", "swift"}

NoneMissed ==
    /\ Between => \A n \in stable : n <= lister.marker => n \in lister.got
    /\ lister.pc = "swift" =>
          \A n \in stable : n > lister.marker => n \in lister.had \cup NamesIn(swift)
    /\ lister.pc = "done" => stable \subseteq lister.got

ListerInv ==
    /\ stable \subseteq NamesIn(ceph) \cup NamesIn(swift)
    /\ lister.pc # "swift" => lister.had = {}
    /\ lister.pc = "swift" =>
          /\ lister.page = Page(lister.had, lister.marker, lister.limit)
          /\ lister.sent = {}
          /\ ~lister.found => lister.had = {}
    /\ ~lister.hidden => NoneMissed

(* A scan has handled what is still in Swift up to its marker; what comes  *)
(* after the marker is on its page, or behind it if there is another page. *)
Handled(n) == n \in scan.handled \cup scan.skipped

Remaining ==
    /\ scan.page # {} /\ \A n \in scan.page : n > scan.marker
    /\ \A n \in NamesIn(swift) :
          n > scan.marker => n \in scan.page \/ (~scan.short /\ \A m \in scan.page : m < n)

ScanInv ==
    /\ scan.pc = "queued" => scan.marker = 0
    /\ scan.pc \in {"list", "visit"} =>
          \A n \in NamesIn(swift) : n <= scan.marker => Handled(n)
    /\ scan.pc = "visit" => Remaining
    /\ ScanComplete

LInv == TypeOK /\ ListerInv /\ ScanInv

(* What every step does to the names; and that it disturbs neither of the  *)
(* two that it is not a step of.                                           *)
NamesStep ==
    /\ level' = level
    /\ ceph' \in (SUBSET Names) \cup {NoContainer}
    /\ swift' \in (SUBSET Names) \cup {NoContainer}
    /\ stable' \subseteq Names
    /\ faults' \in 0..MaxFaults /\ changes' \in 0..MaxChanges
    /\ NamesIn(swift') \subseteq NamesIn(swift)

Stays ==
    /\ stable' \subseteq stable
    /\ \A n \in stable' :
          /\ n \in NamesIn(ceph) => n \in NamesIn(ceph')
          /\ n \in NamesIn(swift) => n \in NamesIn(swift')

LEMMA ListerUndisturbed ==
    ASSUME LInv, Stays, UNCHANGED lister
    PROVE  ListerInv'
  <1>1. stable' \subseteq NamesIn(ceph') \cup NamesIn(swift')
    BY DEF LInv, ListerInv, Stays
  <1>2. NoneMissed => NoneMissed'
    BY DEF NoneMissed, Between, Stays
  <1>3. QED
    BY <1>1, <1>2 DEF LInv, ListerInv

LEMMA ScanUndisturbed ==
    ASSUME LInv, NamesStep, UNCHANGED scan
    PROVE  ScanInv'
  BY DEF LInv, ScanInv, ScanComplete, Remaining, Handled, NamesStep
-----------------------------------------------------------------------------
(* The steps of the client. *)
EntryType == [name : Names, from : {"ceph", "swift"}]
NamesOf(entries) == {e.name : e \in entries}

LEMMA NamesInType ==
    ASSUME TypeOK
    PROVE  /\ NamesIn(ceph) \in SUBSET Names /\ NamesIn(swift) \in SUBSET Names
           /\ NamesIn(lister.had) = lister.had
           /\ lister.limit \in Limits /\ lister.marker \in Nat
  <1>1. 0 \notin Names
    BY DEF Names
  <1>2. lister.had \subseteq Names /\ lister.limit \in Limits /\ lister.marker \in 0..NameCount
    BY DEF TypeOK, Lister, Limits
  <1>3. QED
    <2>1. NamesIn(lister.had) = lister.had
      BY <1>1, <1>2 DEF NamesIn, NoContainer
    <2>2. lister.marker \in Nat
      BY <1>2, NamesAssumption
    <2>3. \A c \in (SUBSET Names) \cup {NoContainer} : NamesIn(c) \in SUBSET Names
      BY DEF NamesIn
    <2>4. QED
      BY <1>2, <2>1, <2>2, <2>3 DEF TypeOK

LEMMA PageIsLowest ==
    ASSUME NEW c, NEW marker, NEW limit
    PROVE  Page(c, marker, limit) = Lowest(After(c, marker), Size(limit))
  BY DEF Page, After, Size

LEMMA ReplyFields ==
    ASSUME TypeOK, NEW entries \in SUBSET EntryType, NEW hidden \in BOOLEAN, Reply(entries, hidden)
    PROVE  LET names == NamesOf(entries)
           IN  /\ lister' \in Lister
               /\ lister'.pc = IF names = {} THEN "done" ELSE "ceph"
               /\ lister'.marker = IF names = {} THEN lister.marker ELSE Last(names)
               /\ lister'.sent = entries /\ lister'.had = {}
               /\ lister'.got = lister.got \cup names
               /\ lister'.hidden = (lister.hidden \/ hidden)
  <1> DEFINE names == NamesOf(entries)
  <1>1. names \in SUBSET Names
    BY DEF NamesOf, EntryType
  <1>2. names # {} => Last(names) \in 0..NameCount
    BY <1>1, LastIsGreatest DEF Names
  <1>3. /\ lister.limit \in ClientLimits \cup {NoLimit} /\ lister.marker \in 0..NameCount
        /\ lister.got \subseteq Names /\ lister.hidden \in BOOLEAN
    BY DEF TypeOK, Lister
  <1>4. lister' = [pc |-> IF names = {} THEN "done" ELSE "ceph", limit |-> lister.limit,
                   marker |-> IF names = {} THEN lister.marker ELSE Last(names),
                   found |-> FALSE, page |-> {}, had |-> {}, sent |-> entries,
                   got |-> lister.got \cup names, hidden |-> lister.hidden \/ hidden]
    BY DEF Reply, NoClient, NamesOf
  <1> HIDE DEF names
  <1>5. lister' \in Lister
    BY <1>1, <1>2, <1>3, <1>4 DEF Lister, EntryType
  <1>6. QED
    BY <1>4, <1>5 DEF names

(* A reply that leaves out nothing of what is after the marker.            *)
LEMMA ReplyKeeps ==
    ASSUME LInv, lister.pc = "swift", UNCHANGED <<ceph, swift, stable>>,
           NEW entries \in SUBSET EntryType, NEW hidden \in BOOLEAN, Reply(entries, hidden),
           NEW S \in SUBSET Names, \A n \in S : n > lister.marker,
           ~hidden => Covers(NamesOf(entries), S),
           \A n \in stable : n > lister.marker /\ n \in lister.had \cup NamesIn(swift) => n \in S
    PROVE  ListerInv'
  <1> DEFINE names == NamesOf(entries)
  <1>1. /\ lister' \in Lister
        /\ lister'.pc = IF names = {} THEN "done" ELSE "ceph"
        /\ lister'.marker = IF names = {} THEN lister.marker ELSE Last(names)
        /\ lister'.had = {}
        /\ lister'.got = lister.got \cup names
        /\ lister'.hidden = (lister.hidden \/ hidden)
    BY ReplyFields DEF LInv
  <1>2. names \in SUBSET Names
    BY DEF NamesOf, EntryType
  <1>3. stable' = stable /\ stable \subseteq NamesIn(ceph') \cup NamesIn(swift')
    BY DEF LInv, ListerInv
  <1>4. ASSUME ~lister'.hidden PROVE NoneMissed'
    <2>1. Covers(names, S) /\ NoneMissed
      BY <1>1, <1>4 DEF LInv, ListerInv
    <2>2. \A n \in stable : n > lister.marker => n \in S
      BY <2>1 DEF NoneMissed
    <2>3. \A n \in stable : n <= lister.marker => n \in lister.got
      BY <2>1 DEF NoneMissed, Between
    <2>4. lister.marker \in Nat /\ \A n \in stable : n \in Nat
      BY NamesInType, NamesAreNumbers DEF LInv, TypeOK
    <2>5. CASE names = {}
      <3>1. stable \subseteq lister.got
        BY <2>1, <2>2, <2>3, <2>4, <2>5 DEF Covers
      <3>2. QED
        BY <1>1, <1>3, <2>5, <3>1 DEF NoneMissed, Between
    <2>6. CASE names # {}
      <3>1. Last(names) \in names
        BY <1>2, <2>6, LastIsGreatest
      <3>2. \A n \in stable : n <= Last(names) => n \in lister.got \cup names
        BY <2>1, <2>2, <2>3, <2>4, <3>1 DEF Covers
      <3>3. QED
        BY <1>1, <1>3, <2>6, <3>2 DEF NoneMissed, Between
    <2>7. QED
      BY <2>5, <2>6
  <1>5. lister'.pc # "swift"
    BY <1>1
  <1>6. QED
    BY <1>1, <1>3, <1>4, <1>5 DEF ListerInv

LEMMA BeginKeeps ==
    ASSUME LInv, Begin
    PROVE  LInv'
  <1>1. PICK limit \in ClientLimits : lister' = [NoClient EXCEPT !.pc = "ceph", !.limit = limit]
    BY DEF Begin
  <1>2. lister' = [pc |-> "ceph", limit |-> limit, marker |-> 0, found |-> FALSE, page |-> {},
                   had |-> {}, sent |-> {}, got |-> {}, hidden |-> FALSE]
    BY <1>1 DEF NoClient
  <1>3. lister' \in Lister
    BY <1>2, NamesAssumption DEF Lister
  <1>4. stable' = NamesIn(ceph) \cup NamesIn(swift) /\ stable' \in SUBSET Names
    BY NamesInType DEF Begin, LInv
  <1>5. \A n \in stable' : ~(n <= 0)
    BY <1>4, NamesAssumption DEF Names
  <1>6. ListerInv'
    BY <1>2, <1>4, <1>5 DEF ListerInv, NoneMissed, Between, Begin
  <1>7. NamesStep /\ UNCHANGED scan /\ TypeOK'
    BY <1>3, <1>4 DEF NamesStep, Begin, LInv, TypeOK
  <1>8. QED
    BY <1>6, <1>7, ScanUndisturbed DEF LInv

LEMMA NoClientFits ==
    NoClient \in Lister /\ NoClient.pc = "idle" /\ NoClient.had = {} /\ NoClient.sent = {}
  BY NamesAssumption DEF NoClient, Lister

LEMMA GivesUp ==
    ASSUME LInv, UNCHANGED <<ceph, swift, stable>>, lister' = NoClient
    PROVE  ListerInv'
  BY NoClientFits DEF LInv, ListerInv, NoneMissed, Between

LEMMA ListCephKeeps ==
    ASSUME LInv, ListCeph
    PROVE  LInv'
  <1>1. ASSUME lister' = [lister EXCEPT !.pc = "swift", !.found = (ceph # NoContainer),
                             !.page = Page(ceph, lister.marker, lister.limit),
                             !.had = NamesIn(ceph), !.sent = {}]
        PROVE  lister' \in Lister /\ ListerInv'
    <2>1. /\ lister \in Lister /\ NamesIn(ceph) \in SUBSET Names /\ NamesIn(NamesIn(ceph)) = NamesIn(ceph)
      BY NamesInType DEF LInv, TypeOK, NamesIn
    <2>2. Page(ceph, lister.marker, lister.limit) \in SUBSET Names
      BY <2>1 DEF Page, Lowest
    <2>3. lister' \in Lister
      BY <1>1, <2>1, <2>2 DEF Lister
    <2>4. /\ lister'.pc = "swift" /\ lister'.found = (ceph # NoContainer)
          /\ lister'.page = Page(ceph, lister.marker, lister.limit)
          /\ lister'.had = NamesIn(ceph) /\ lister'.sent = {}
          /\ lister'.marker = lister.marker /\ lister'.limit = lister.limit
          /\ lister'.got = lister.got /\ lister'.hidden = lister.hidden
      BY <1>1, <2>1 DEF Lister
    <2>5. Page(NamesIn(ceph), lister.marker, lister.limit) = Page(ceph, lister.marker, lister.limit)
      BY <2>1 DEF Page
    <2>6. ceph = NoContainer => NamesIn(ceph) = {}
      BY DEF NamesIn
    <2>7. NoneMissed => NoneMissed'
      BY <2>4 DEF ListCeph, LInv, ListerInv, NoneMissed, Between
    <2>8. ListerInv'
      BY <2>4, <2>5, <2>6, <2>7 DEF ListCeph, LInv, ListerInv
    <2>9. QED
      BY <2>3, <2>8
  <1>2. lister' \in Lister /\ ListerInv' /\ faults' \in 0..MaxFaults
    <2>1. faults < MaxFaults => faults + 1 \in 0..MaxFaults
      BY BoundsAssumption DEF LInv, TypeOK
    <2>2. QED
      BY <1>1, <2>1, NoClientFits, GivesUp DEF ListCeph, Fault, NoFault, LInv, TypeOK
  <1>3. NamesStep /\ UNCHANGED scan /\ TypeOK'
    BY <1>2 DEF NamesStep, ListCeph, LInv, TypeOK
  <1>4. QED
    BY <1>2, <1>3, ScanUndisturbed DEF LInv

LEMMA EntriesNames ==
    ASSUME NEW S \in SUBSET Names, NEW b \in {"ceph", "swift"}
    PROVE  /\ Entries(S, b) \in SUBSET EntryType
           /\ NamesOf(Entries(S, b)) = S
  <1>1. \A n \in S : [name |-> n, from |-> b] \in Entries(S, b)
    BY DEF Entries
  <1>2. \A e \in Entries(S, b) : e \in EntryType /\ e.name \in S
    BY DEF Entries, EntryType
  <1>3. S \subseteq NamesOf(Entries(S, b))
    <2>1. ASSUME NEW n \in S PROVE n \in NamesOf(Entries(S, b))
      <3>1. [name |-> n, from |-> b].name = n
        OBVIOUS
      <3>2. QED
        BY <1>1, <3>1 DEF NamesOf
    <2>2. QED
      BY <2>1
  <1>4. QED
    BY <1>2, <1>3 DEF NamesOf

LEMMA MergeNames ==
    ASSUME NEW p \in SUBSET Names, NEW q \in SUBSET Names, NEW limit
    PROVE  /\ Merge(p, q, limit) \in SUBSET EntryType
           /\ NamesOf(Merge(p, q, limit)) = ApplyLimit(p \cup q, limit)
           /\ \A e \in Merge(p, q, limit) : e.from = "swift" => e.name \notin p
  <1> DEFINE M == ApplyLimit(p \cup q, limit)
             entry(n) == [name |-> n, from |-> IF n \in p THEN "ceph" ELSE "swift"]
  <1>1. Merge(p, q, limit) = {entry(n) : n \in M}
    BY DEF Merge
  <1>2. \A n : entry(n).name = n /\ (entry(n).from = "swift" => n \notin p)
    OBVIOUS
  <1>3. M \in SUBSET Names
    BY DEF ApplyLimit, Lowest
  <1>4. \A n \in M : entry(n) \in EntryType
    BY <1>3 DEF EntryType
  <1> HIDE DEF entry
  <1>5. NamesOf(Merge(p, q, limit)) = M
    BY <1>1, <1>2 DEF NamesOf
  <1>6. QED
    BY <1>1, <1>2, <1>4, <1>5

(* A reply is put together from the two pages, or is one of them.          *)
LEMMA PagesOf ==
    ASSUME LInv, lister.pc = "swift"
    PROVE  LET C == After(lister.had, lister.marker)
               W == After(swift, lister.marker)
           IN  /\ C \in SUBSET Names /\ W \in SUBSET Names
               /\ C = {n \in lister.had : n > lister.marker}
               /\ \A n \in C \cup W : n > lister.marker
               /\ lister.limit \in Limits /\ Size(lister.limit) \in Nat \ {0}
               /\ lister.page = Lowest(C, Size(lister.limit))
               /\ Page(swift, lister.marker, lister.limit) = Lowest(W, Size(lister.limit))
  <1>1. lister.limit \in Limits /\ NamesIn(lister.had) = lister.had
        /\ NamesIn(swift) \in SUBSET Names /\ lister.had \in SUBSET Names
    BY NamesInType DEF LInv, TypeOK, Lister
  <1>2. lister.page = Page(lister.had, lister.marker, lister.limit)
    BY DEF LInv, ListerInv
  <1>3. QED
    BY <1>1, <1>2, PageIsLowest, SizeType DEF After

LEMMA CephPageReply ==
    ASSUME LInv, lister.pc = "swift", UNCHANGED <<ceph, swift, stable>>,
           NEW hidden \in BOOLEAN, Reply(Entries(lister.page, "ceph"), hidden),
           hidden \/ swift = NoContainer
    PROVE  lister' \in Lister /\ ListerInv'
  <1> DEFINE C == After(lister.had, lister.marker)
  <1>1. /\ C \in SUBSET Names /\ C = {n \in lister.had : n > lister.marker}
        /\ lister.page = Lowest(C, Size(lister.limit)) /\ Size(lister.limit) \in Nat \ {0}
    BY PagesOf
  <1>2. lister.page \in SUBSET Names
    BY <1>1 DEF Lowest
  <1>3. Entries(lister.page, "ceph") \in SUBSET EntryType
        /\ NamesOf(Entries(lister.page, "ceph")) = lister.page
    BY <1>2, EntriesNames
  <1>4. lister' \in Lister
    BY <1>3, ReplyFields DEF LInv
  <1>5. CASE hidden
    <2>1. lister'.hidden /\ lister'.pc # "swift" /\ lister'.had = {}
      BY <1>3, <1>5, ReplyFields DEF LInv
    <2>2. QED
      BY <1>4, <2>1 DEF LInv, ListerInv
  <1>6. CASE swift = NoContainer
    <2>1. Covers(lister.page, C)
      BY <1>1, PageCovers
    <2>2. NamesIn(swift) = {}
      BY <1>6 DEF NamesIn
    <2>3. ListerInv'
      BY <1>1, <1>3, <2>1, <2>2, ReplyKeeps
    <2>4. QED
      BY <1>4, <2>3
  <1>7. QED
    BY <1>5, <1>6

LEMMA SwiftPageReply ==
    ASSUME LInv, lister.pc = "swift", UNCHANGED <<ceph, swift, stable>>, ~lister.found,
           NEW hidden \in BOOLEAN,
           Reply(Entries(Page(swift, lister.marker, lister.limit), "swift"), hidden)
    PROVE  lister' \in Lister /\ ListerInv'
  <1> DEFINE W == After(swift, lister.marker)
             q == Page(swift, lister.marker, lister.limit)
  <1>1. /\ W \in SUBSET Names /\ \A n \in W : n > lister.marker
        /\ q = Lowest(W, Size(lister.limit)) /\ Size(lister.limit) \in Nat \ {0}
    BY PagesOf
  <1>2. q \in SUBSET Names
    BY <1>1 DEF Lowest
  <1>3. Covers(q, W)
    BY <1>1, PageCovers
  <1> HIDE DEF q
  <1>4. Entries(q, "swift") \in SUBSET EntryType /\ NamesOf(Entries(q, "swift")) = q
    BY <1>2, EntriesNames
  <1>5. lister' \in Lister
    BY <1>4, ReplyFields DEF LInv, q
  <1>6. \A n \in stable : n > lister.marker /\ n \in lister.had \cup NamesIn(swift) => n \in W
    BY DEF After, LInv, ListerInv
  <1>7. ListerInv'
    BY <1>1, <1>3, <1>4, <1>6, ReplyKeeps DEF q
  <1>8. QED
    BY <1>5, <1>7

LEMMA MergeReply ==
    ASSUME LInv, lister.pc = "swift", UNCHANGED <<ceph, swift, stable>>,
           NEW q, q = Page(swift, lister.marker, lister.limit),
           NEW hidden \in BOOLEAN,
           ~hidden => /\ ~Overtaken(q, lister.page, lister.limit)
                      /\ ~Overtaken(lister.page, q, lister.limit),
           Reply(Merge(lister.page, q, lister.limit), hidden)
    PROVE  lister' \in Lister /\ ListerInv' /\ CephEntryWins
  <1> DEFINE C == After(lister.had, lister.marker)
             W == After(swift, lister.marker)
             p == lister.page
             M == ApplyLimit(p \cup q, lister.limit)
  <1>1. /\ C \in SUBSET Names /\ W \in SUBSET Names
        /\ C = {n \in lister.had : n > lister.marker} /\ \A n \in C \cup W : n > lister.marker
        /\ lister.limit \in Limits
        /\ p = Lowest(C, Size(lister.limit)) /\ q = Lowest(W, Size(lister.limit))
    BY PagesOf
  <1>2. p \in SUBSET C /\ q \in SUBSET W /\ p \in SUBSET Names /\ q \in SUBSET Names
    BY <1>1 DEF Lowest
  <1>3. /\ Merge(p, q, lister.limit) \in SUBSET EntryType
        /\ NamesOf(Merge(p, q, lister.limit)) = M
        /\ \A e \in Merge(p, q, lister.limit) : e.from = "swift" => e.name \notin p
    <2>1. lister.page \subseteq Names /\ q \subseteq Names
      BY <1>2
    <2>2. QED
      BY ONLY <2>1, MergeNames
  <1>4. /\ lister' \in Lister
        /\ lister'.sent = Merge(p, q, lister.limit)
        /\ lister'.hidden = (lister.hidden \/ hidden)
    BY <1>3, ReplyFields DEF LInv
  <1>5. ~hidden => Covers(M, C \cup W)
    BY <1>1, MergeCovers
  <1>6. \A n \in stable : n > lister.marker /\ n \in lister.had \cup NamesIn(swift) => n \in C \cup W
    BY <1>1 DEF After
  <1>7. C \cup W \in SUBSET Names
    BY <1>1
  <1>8. ListerInv'
    BY <1>1, <1>3, <1>5, <1>6, <1>7, ReplyKeeps
  <1>9. ASSUME ~hidden, NEW e \in Merge(p, q, lister.limit), e.from = "swift", e.name \in lister.had
        PROVE  FALSE
    <2>1. e.name \in M /\ e.name \notin p
      BY <1>3, <1>9 DEF NamesOf
    <2>2. e.name \in C
      BY <1>1, <1>2, <1>9, <2>1 DEF ApplyLimit, Lowest
    <2>3. e.name < e.name
      BY <1>1, <1>2, <1>9, <2>1, <2>2, LeftOutIsLater
    <2>4. QED
      BY <1>1, <2>2, <2>3, NamesAreNumbers
  <1>10. CephEntryWins
    BY <1>4, <1>9 DEF CephEntryWins
  <1>11. QED
    BY <1>4, <1>8, <1>10

LEMMA QueuedFits ==
    ASSUME NEW mode \in {"job", "now"}, scan' = QueuedScan(mode) \/ scan' = NoScan
    PROVE  scan' \in Scan /\ ScanInv'
  <1>1. /\ QueuedScan(mode) \in Scan /\ QueuedScan(mode).pc = "queued" /\ QueuedScan(mode).marker = 0
        /\ NoScan \in Scan /\ NoScan.pc = "idle"
    <2>1. 0 \in 0..NameCount
      BY NamesAssumption
    <2>2. NoScan \in Scan /\ NoScan.pc = "idle" /\ NoScan.marker = 0
      BY <2>1 DEF NoScan, Scan
    <2>3. \A s \in Scan :
             LET t == [s EXCEPT !.pc = "queued", !.mode = mode]
             IN  t \in Scan /\ t.pc = "queued" /\ t.marker = s.marker
      BY DEF Scan
    <2>4. QED
      BY <2>2, <2>3 DEF QueuedScan
  <1>2. QED
    BY <1>1 DEF ScanInv, ScanComplete

LEMMA RequestScanKeeps ==
    ASSUME LInv, NamesStep, RequestScan
    PROVE  scan' \in Scan /\ ScanInv' 
  BY QueuedFits, ScanUndisturbed DEF RequestScan, LInv, TypeOK

LEMMA FaultType ==
    ASSUME TypeOK, Fault \/ NoFault
    PROVE  faults' \in 0..MaxFaults
  <1>1. faults < MaxFaults => faults + 1 \in 0..MaxFaults
    BY BoundsAssumption DEF TypeOK
  <1>2. QED
    BY <1>1 DEF Fault, NoFault, TypeOK

(* Every step of the client keeps the invariant, and prefers Ceph's entry. *)
LEMMA ListSwiftKeeps ==
    ASSUME LInv, ListSwift
    PROVE  LInv' /\ CephEntryWins
  <1> DEFINE limit == lister.limit
             page == Page(swift, lister.marker, limit)
             hidden == Overtaken(page, lister.page, limit) \/ Overtaken(lister.page, page, limit)
  <1>1. lister.pc = "swift" /\ UNCHANGED <<level, ceph, swift, stable, changes>>
    BY DEF ListSwift
  <1>2. hidden \in BOOLEAN
    BY DEF Overtaken
  <1>3. /\ \/ lister.found /\ swift = NoContainer /\ Reply(Entries(lister.page, "ceph"), FALSE)
           \/ lister' = NoClient
           \/ lister.found /\ Reply(Merge(lister.page, page, limit), hidden)
           \/ ~lister.found /\ Reply(Entries(page, "swift"), hidden)
        /\ (UNCHANGED scan /\ NoFault) \/ RequestScan
    BY DEF ListSwift
  <1>4. lister' \in Lister /\ ListerInv' /\ CephEntryWins
    <2>1. CASE lister.found /\ swift = NoContainer /\ Reply(Entries(lister.page, "ceph"), FALSE)
      <3>1. lister' \in Lister /\ ListerInv'
        BY <1>1, <2>1, CephPageReply
      <3>2. lister.page \in SUBSET Names
        BY DEF LInv, TypeOK, Lister
      <3>3. lister'.sent = Entries(lister.page, "ceph")
        BY <2>1, <3>2, EntriesNames, ReplyFields DEF LInv
      <3>4. QED
        BY <3>1, <3>3 DEF CephEntryWins, Entries
    <2>2. CASE lister' = NoClient
      BY <1>1, <2>2, GivesUp, NoClientFits DEF CephEntryWins
    <2>3. CASE lister.found /\ Reply(Merge(lister.page, page, limit), hidden)
      <3> HIDE DEF page
      <3>1. page = Page(swift, lister.marker, lister.limit)
        BY DEF page
      <3>2. ~hidden => ~Overtaken(page, lister.page, limit) /\ ~Overtaken(lister.page, page, limit)
        OBVIOUS
      <3> HIDE DEF hidden
      <3>3. QED
        BY <1>1, <1>2, <2>3, <3>1, <3>2, MergeReply
    <2>4. CASE ~lister.found /\ Reply(Entries(page, "swift"), hidden)
      <3>1. lister.had = {}
        BY <1>1, <2>4 DEF LInv, ListerInv
      <3> HIDE DEF hidden
      <3>2. QED
        BY <1>1, <1>2, <2>4, <3>1, SwiftPageReply DEF CephEntryWins
    <2>5. QED
      BY <1>3, <2>1, <2>2, <2>3, <2>4
  <1>5. NamesStep
    BY <1>1, <1>3, FaultType DEF NamesStep, LInv, TypeOK, RequestScan, Fault, NoFault
  <1>6. scan' \in Scan /\ ScanInv'
    BY <1>3, <1>5, RequestScanKeeps, ScanUndisturbed DEF LInv, TypeOK
  <1>7. QED
    BY <1>4, <1>5, <1>6 DEF LInv, TypeOK, NamesStep

LEMMA SwiftFailsKeeps ==
    ASSUME LInv, SwiftFails
    PROVE  LInv' /\ CephEntryWins
  <1>1. lister.pc = "swift" /\ UNCHANGED <<level, ceph, swift, stable, scan, changes>> /\ Fault
        /\ (lister' = NoClient \/ Reply(Entries(lister.page, "ceph"), TRUE))
    BY DEF SwiftFails
  <1>2. lister' \in Lister /\ ListerInv' /\ CephEntryWins
    <2>1. CASE lister' = NoClient
      BY <1>1, <2>1, GivesUp, NoClientFits DEF CephEntryWins
    <2>2. CASE Reply(Entries(lister.page, "ceph"), TRUE)
      <3>1. lister' \in Lister /\ ListerInv'
        BY <1>1, <2>2, CephPageReply
      <3>2. lister.page \in SUBSET Names
        BY DEF LInv, TypeOK, Lister
      <3>3. lister'.hidden
        BY <2>2, <3>2, EntriesNames, ReplyFields DEF LInv
      <3>4. QED
        BY <3>1, <3>3 DEF CephEntryWins
    <2>3. QED
      BY <1>1, <2>1, <2>2
  <1>3. NamesStep
    BY <1>1, FaultType DEF NamesStep, LInv, TypeOK
  <1>4. QED
    BY <1>1, <1>2, <1>3, ScanUndisturbed DEF LInv, TypeOK, NamesStep
-----------------------------------------------------------------------------
(* The steps of the scan. *)
ScanStep ==
    /\ UNCHANGED <<level, swift, lister, stable, changes>>
    /\ ceph' \in (SUBSET Names) \cup {NoContainer}
    /\ NamesIn(ceph) \subseteq NamesIn(ceph')
    /\ scan' \in Scan
    /\ Fault \/ NoFault

LEMMA ScanStepKeeps ==
    ASSUME LInv, ScanStep, ScanInv'
    PROVE  LInv'
  <1>1. Stays
    BY DEF Stays, ScanStep
  <1>2. ListerInv'
    BY <1>1, ListerUndisturbed DEF ScanStep
  <1>3. TypeOK'
    BY FaultType DEF LInv, TypeOK, ScanStep
  <1>4. QED
    BY <1>2, <1>3 DEF LInv

LEMMA ScanFailsFits ==
    ASSUME ScanFails
    PROVE  scan' \in Scan /\ ScanInv' /\ Fault
  BY QueuedFits DEF ScanFails

LEMMA AdminScanKeeps ==
    ASSUME LInv, AdminScan
    PROVE  LInv'
  <1>1. scan' \in Scan /\ ScanInv'
    BY QueuedFits DEF AdminScan
  <1>2. ScanStep
    BY <1>1 DEF AdminScan, ScanStep, NoFault, LInv, TypeOK
  <1>3. QED
    BY <1>1, <1>2, ScanStepKeeps

LEMMA ScanStartKeeps ==
    ASSUME LInv, ScanStart
    PROVE  LInv'
  <1> DEFINE synced == IF level = "container" THEN NamesIn(ceph) ELSE ceph
  <1>1. /\ synced \in (SUBSET Names) \cup {NoContainer}
        /\ NamesIn(synced) = NamesIn(ceph)
    BY NamesInType DEF LInv, TypeOK, NamesIn
  <1>2. scan \in Scan /\ scan.pc = "queued" /\ scan.marker = 0
    BY DEF ScanStart, LInv, TypeOK, ScanInv
  <1>3. ASSUME swift = NoContainer, scan' = [scan EXCEPT !.pc = "done"]
        PROVE  scan' \in Scan /\ ScanInv'
    <2>1. scan' \in Scan /\ scan'.pc = "done"
      BY <1>2, <1>3 DEF Scan
    <2>2. NamesIn(swift') = {}
      BY <1>3 DEF ScanStart, NamesIn
    <2>3. QED
      BY <2>1, <2>2 DEF ScanInv, ScanComplete
  <1>4. ASSUME scan' = [scan EXCEPT !.pc = "list"]
        PROVE  scan' \in Scan /\ ScanInv'
    <2>1. scan' \in Scan /\ scan'.pc = "list" /\ scan'.marker = 0
      BY <1>2, <1>4 DEF Scan
    <2>2. \A n \in NamesIn(swift') : ~(n <= 0)
      <3>1. NamesIn(swift') \in SUBSET Names
        BY NamesInType DEF ScanStart, LInv
      <3>2. QED
        BY <3>1, NamesAssumption DEF Names
    <2>3. QED
      BY <2>1, <2>2 DEF ScanInv, ScanComplete
  <1>5. scan' \in Scan /\ ScanInv'
    BY <1>2, <1>3, <1>4, ScanFailsFits DEF ScanStart, Scan
  <1>6. ScanStep
    BY <1>1, <1>5 DEF ScanStart, ScanStep, ScanFails, LInv, TypeOK
  <1>7. QED
    BY <1>5, <1>6, ScanStepKeeps

LEMMA ScanPageKeeps ==
    ASSUME LInv, ScanPage
    PROVE  LInv'
  <1> DEFINE W == After(swift, scan.marker)
             page == Page(swift, scan.marker, ScanLimit)
  <1>1. scan \in Scan /\ scan.pc = "list" /\ scan.marker \in Nat /\ NamesIn(swift) \in SUBSET Names
    BY NamesInType, NamesAssumption DEF ScanPage, LInv, TypeOK, Scan
  <1>2. W \in SUBSET Names /\ page = Lowest(W, Size(ScanLimit))
        /\ Size(ScanLimit) \in Nat \ {0} /\ ScanLimit <= Size(ScanLimit)
    BY <1>1, PageIsLowest, ScanSizeType DEF After
  <1>3. page \in SUBSET W
    BY <1>2 DEF Lowest
  <1>4. ShortPage(page) => page = W
    <2>1. Cardinality(page) \in Nat /\ ScanLimit \in Nat
      BY <1>2, <1>3, NamesFinite, LimitsAssumption
    <2>2. ShortPage(page) => Cardinality(page) < Size(ScanLimit)
      BY <1>2, <2>1 DEF ShortPage
    <2>3. QED
      BY <1>2, <2>2, ShortIsAll
  <1>5. \A n \in W : n \notin page => \A m \in page : m < n
    BY <1>2, LowestBelowRest
  <1>6. page = {} => W = {}
    BY <1>2, LowestNonempty
  <1>7. ASSUME scan' = [scan EXCEPT !.pc = IF page = {} THEN "done" ELSE "visit",
                                    !.page = page, !.short = ShortPage(page)]
        PROVE  scan' \in Scan /\ ScanInv'
    <2>1. page \in SUBSET Names /\ ShortPage(page) \in BOOLEAN
      BY <1>2, <1>3 DEF ShortPage
    <2> HIDE DEF page
    <2>2. /\ scan' \in Scan
          /\ scan'.pc = (IF page = {} THEN "done" ELSE "visit")
          /\ scan'.page = page /\ scan'.short = ShortPage(page)
          /\ scan'.marker = scan.marker /\ scan'.handled = scan.handled /\ scan'.skipped = scan.skipped
      BY <1>1, <1>7, <2>1 DEF Scan
    <2>3. \A n \in NamesIn(swift) : n <= scan.marker => Handled(n)
      BY <1>1 DEF LInv, ScanInv
    <2>4. \A n \in NamesIn(swift) : n > scan.marker => n \in W
      BY DEF After
    <2>5. swift' = swift
      BY DEF ScanPage
    <2>6. CASE page = {}
      <3>1. \A n \in NamesIn(swift) : n <= scan.marker
        <4>1. \A n \in NamesIn(swift) : n \in Nat
          BY <1>1, NamesAreNumbers
        <4>2. \A n \in NamesIn(swift) : ~(n > scan.marker)
          BY <1>6, <2>4, <2>6
        <4>3. QED
          BY <1>1, <4>1, <4>2
      <3>2. QED
        BY <2>2, <2>3, <2>5, <2>6, <3>1 DEF ScanInv, ScanComplete, Handled
    <2>7. CASE page # {}
      <3>1. \A n \in page : n > scan.marker
        BY <1>3 DEF After
      <3>2. \A n \in NamesIn(swift) :
               n > scan.marker => n \in page \/ (~ShortPage(page) /\ \A m \in page : m < n)
        BY <1>4, <1>5, <2>4
      <3>3. QED
        BY <2>2, <2>3, <2>5, <2>7, <3>1, <3>2 DEF ScanInv, ScanComplete, Handled, Remaining
    <2>8. QED
      BY <2>2, <2>6, <2>7
  <1>8. scan' \in Scan /\ ScanInv' /\ (Fault \/ NoFault)
    BY <1>7, ScanFailsFits DEF ScanPage
  <1>9. ScanStep
    BY <1>8 DEF ScanPage, ScanStep, LInv, TypeOK
  <1>10. QED
    BY <1>8, <1>9, ScanStepKeeps

(* The name that is visited is the first that is left, so that the marker  *)
(* passes no other.                                                        *)
LEMMA VisitedFits ==
    ASSUME LInv, scan.pc = "visit", UNCHANGED swift,
           NEW name, name = First(scan.page),
           NEW result \in Scan, result.short = scan.short,
           scan.handled \subseteq result.handled, scan.skipped \subseteq result.skipped,
           name \in NamesIn(swift) => name \in result.handled \cup result.skipped,
           scan' = Visited(name, result)
    PROVE  scan' \in Scan /\ ScanInv'
  <1> DEFINE rest == scan.page \ {name}
  <1>1. scan \in Scan /\ Remaining /\ NamesIn(swift) \in SUBSET Names
    BY NamesInType DEF LInv, TypeOK, ScanInv
  <1>2. scan.page \in SUBSET Names /\ scan.page # {}
    BY <1>1 DEF Scan, Remaining
  <1>3. name \in scan.page /\ \A m \in scan.page : name <= m
    BY <1>2, FirstIsLeast
  <1>4. name \in 0..NameCount /\ rest \in SUBSET Names
    BY <1>2, <1>3, NamesAssumption DEF Names
  <1>5. /\ scan' \in Scan /\ scan'.marker = name /\ scan'.page = rest
        /\ scan'.pc = (IF rest # {} THEN "visit" ELSE IF scan.short THEN "done" ELSE "list")
        /\ scan'.short = scan.short
        /\ scan'.handled = result.handled /\ scan'.skipped = result.skipped
    <2> HIDE DEF rest
    <2>1. scan' = [result EXCEPT !.marker = name, !.page = rest,
                       !.pc = IF rest # {} THEN "visit" ELSE IF scan.short THEN "done" ELSE "list"]
      BY DEF Visited, rest
    <2>2. QED
      BY <1>4, <2>1 DEF Scan
  <1>6. name \in Nat /\ scan.marker \in Nat /\ (\A n \in NamesIn(swift) : n \in Nat)
        /\ \A n \in scan.page : n \in Nat
    <2>1. scan.marker \in Nat
      BY <1>1, NamesAssumption DEF Scan
    <2>2. Names \subseteq Nat
      BY NamesAreNumbers
    <2>3. QED
      BY <1>1, <1>2, <1>3, <2>1, <2>2
  <1>7. ASSUME NEW n \in NamesIn(swift), n <= name PROVE Handled(n)'
    <2>1. CASE n <= scan.marker
      <3>1. Handled(n)
        BY <2>1 DEF LInv, ScanInv
      <3>2. QED
        BY <1>5, <3>1 DEF Handled
    <2>2. CASE n > scan.marker
      <3>1. n \in scan.page
        BY <1>1, <1>3, <1>6, <1>7, <2>2 DEF Remaining
      <3>2. n = name
        BY <1>3, <1>6, <1>7, <3>1
      <3>3. QED
        BY <1>5, <3>2 DEF Handled
    <2>3. QED
      BY <1>6, <2>1, <2>2
  <1>8. ASSUME NEW n \in NamesIn(swift), n > name
        PROVE  n \in rest \/ (~scan.short /\ \A m \in rest : m < n)
    <2>1. n > scan.marker
      BY <1>1, <1>3, <1>6, <1>8 DEF Remaining
    <2>2. n \in scan.page \/ (~scan.short /\ \A m \in scan.page : m < n)
      BY <1>1, <2>1 DEF Remaining
    <2>3. n # name
      BY <1>6, <1>8
    <2>4. QED
      BY <2>2, <2>3
  <1>9. CASE rest # {}
    <2>1. \A n \in rest : n > name
      BY <1>3, <1>6
    <2>2. QED
      BY <1>5, <1>7, <1>8, <1>9, <2>1 DEF ScanInv, ScanComplete, Remaining
  <1>10. CASE rest = {}
    <2>1. scan.short => \A n \in NamesIn(swift) : n <= name
      BY <1>6, <1>8, <1>10
    <2>2. QED
      BY <1>5, <1>7, <1>10, <2>1 DEF ScanInv, ScanComplete, Handled
  <1>11. QED
    BY <1>9, <1>10

LEMMA ScanVisitKeeps ==
    ASSUME LInv, ScanVisit
    PROVE  LInv'
  <1> DEFINE name    == First(scan.page)
             handled == [scan EXCEPT !.handled = @ \cup {name}]
             skipped == [scan EXCEPT !.skipped = @ \cup {name}]
  <1>1. scan.pc = "visit" /\ swift' = swift /\ scan \in Scan
    BY DEF ScanVisit, LInv, TypeOK
  <1>2. name \in Names
    <2>1. scan.page # {} /\ scan.page \in SUBSET Names
      BY <1>1 DEF LInv, ScanInv, Remaining, Scan
    <2>2. QED
      BY <2>1, FirstIsLeast
  <1>3. \/ scan' = Visited(name, handled) \/ scan' = Visited(name, skipped)
        \/ scan' = Visited(name, scan) /\ name \notin swift
        \/ ScanFails
    BY DEF ScanVisit
  <1>4. /\ handled \in Scan /\ handled.short = scan.short
        /\ handled.handled = scan.handled \cup {name} /\ handled.skipped = scan.skipped
        /\ skipped \in Scan /\ skipped.short = scan.short
        /\ skipped.handled = scan.handled /\ skipped.skipped = scan.skipped \cup {name}
    <2> HIDE DEF name
    <2>1. QED
      BY <1>1, <1>2 DEF Scan
  <1>5. scan' \in Scan /\ ScanInv'
    <2> HIDE DEF handled, skipped
    <2>1. CASE scan' = Visited(name, handled)
      BY <1>1, <1>4, <2>1, VisitedFits
    <2>2. CASE scan' = Visited(name, skipped)
      BY <1>1, <1>4, <2>2, VisitedFits
    <2>3. CASE scan' = Visited(name, scan) /\ name \notin swift
      <3>1. name \notin NamesIn(swift)
        BY <2>3 DEF NamesIn
      <3>2. QED
        BY <1>1, <2>3, <3>1, VisitedFits
    <2>4. QED
      BY <1>3, <2>1, <2>2, <2>3, ScanFailsFits
  <1>6. /\ ceph' = ceph \/ ceph' = NamesIn(ceph) \cup {name}
        /\ UNCHANGED <<level, swift, lister, stable, changes>> /\ (Fault \/ NoFault)
    BY DEF ScanVisit, ScanFails
  <1>7. /\ ceph' \in (SUBSET Names) \cup {NoContainer} /\ NamesIn(ceph) \subseteq NamesIn(ceph')
    <2>1. NamesIn(ceph) \in SUBSET Names /\ 0 \notin Names
      BY NamesInType DEF LInv, Names
    <2> HIDE DEF name
    <2>2. QED
      BY <1>2, <1>6, <2>1 DEF LInv, TypeOK, NamesIn, NoContainer
  <1>8. ScanStep
    BY <1>5, <1>6, <1>7 DEF ScanStep
  <1>9. QED
    BY <1>5, <1>8, ScanStepKeeps
-----------------------------------------------------------------------------
(* The steps of others. *)
OtherStep ==
    /\ UNCHANGED <<level, lister, scan, faults>>
    /\ ceph' \in (SUBSET Names) \cup {NoContainer}
    /\ swift' \in (SUBSET Names) \cup {NoContainer}
    /\ changes' \in 0..MaxChanges
    /\ NamesIn(swift') \subseteq NamesIn(swift)
    /\ Stays

LEMMA OtherStepKeeps ==
    ASSUME LInv, OtherStep
    PROVE  LInv'
  <1>1. NamesStep
    BY DEF NamesStep, OtherStep, Stays, LInv, TypeOK
  <1>2. ListerInv' /\ ScanInv'
    BY <1>1, ListerUndisturbed, ScanUndisturbed DEF OtherStep
  <1>3. TypeOK'
    BY <1>1 DEF NamesStep, OtherStep, LInv, TypeOK
  <1>4. QED
    BY <1>2, <1>3 DEF LInv

LEMMA ChangeType ==
    ASSUME TypeOK, Change
    PROVE  changes' \in 0..MaxChanges
  BY BoundsAssumption DEF TypeOK, Change

LEMMA AddKeeps ==
    ASSUME LInv, NEW name \in Names, ceph' = NamesIn(ceph) \cup {name},
           UNCHANGED <<level, swift, lister, stable, scan, faults>>,
           changes' \in 0..MaxChanges
    PROVE  LInv'
  <1>1. NamesIn(ceph) \in SUBSET Names /\ 0 \notin Names
    BY NamesInType DEF LInv, Names
  <1>2. NamesIn(ceph') = NamesIn(ceph) \cup {name} /\ ceph' \in SUBSET Names
    BY <1>1 DEF NamesIn, NoContainer
  <1>3. OtherStep
    BY <1>2 DEF OtherStep, Stays, LInv, TypeOK
  <1>4. QED
    BY <1>3, OtherStepKeeps

LEMMA DeleteKeeps ==
    ASSUME LInv, NEW name \in Names, Delete(name)
    PROVE  LInv'
  <1>1. \A c \in (SUBSET Names) \cup {NoContainer} :
           name \in c => /\ c \ {name} \in (SUBSET Names) \cup {NoContainer}
                        /\ NamesIn(c \ {name}) = NamesIn(c) \ {name}
    <2>1. name # 0
      BY DEF Names
    <2>2. QED
      BY <2>1 DEF NamesIn, NoContainer
  <1>2. Stays /\ NamesIn(swift') \subseteq NamesIn(swift)
        /\ ceph' \in (SUBSET Names) \cup {NoContainer}
        /\ swift' \in (SUBSET Names) \cup {NoContainer}
    BY <1>1 DEF Delete, Stays, LInv, TypeOK
  <1>3. OtherStep
    BY <1>2, ChangeType DEF Delete, OtherStep, LInv
  <1>4. QED
    BY <1>3, OtherStepKeeps
-----------------------------------------------------------------------------
LEMMA InitFits == Init => LInv
  <1>1. ASSUME Init PROVE LInv
    <2>1. lister = NoClient /\ scan = NoScan /\ stable = {} /\ faults = 0 /\ changes = 0
      BY <1>1 DEF Init
    <2>2. NoScan \in Scan /\ NoScan.pc = "idle"
      BY NamesAssumption DEF NoScan, Scan
    <2>3. TypeOK
      BY <1>1, <2>1, <2>2, NoClientFits, BoundsAssumption DEF Init, TypeOK
    <2>4. ListerInv /\ ScanInv
      BY <2>1, <2>2, NoClientFits DEF ListerInv, NoneMissed, Between, ScanInv, ScanComplete
    <2>5. QED
      BY <2>3, <2>4 DEF LInv
  <1>2. QED
    BY <1>1

(* A reply is only sent by the call of Swift.                              *)
LEMMA NoReply ==
    ASSUME LInv, lister'.sent = {} \/ UNCHANGED lister
    PROVE  CephEntryWins
  BY DEF LInv, ListerInv, CephEntryWins

LEMMA StepFits == LInv /\ [Next]_vars => LInv' /\ CephEntryWins
  <1> SUFFICES ASSUME LInv, [Next]_vars PROVE LInv' /\ CephEntryWins
    OBVIOUS
  <1>1. CASE Begin
    <2>1. lister'.sent = {}
      BY <1>1 DEF Begin, NoClient
    <2>2. QED
      BY <1>1, <2>1, BeginKeeps, NoReply
  <1>2. CASE ListCeph
    <2>1. lister'.sent = {}
      BY <1>2, NoClientFits DEF ListCeph, LInv, TypeOK, Lister
    <2>2. QED
      BY <1>2, <2>1, ListCephKeeps, NoReply
  <1>3. CASE ListSwift
    BY <1>3, ListSwiftKeeps
  <1>4. CASE SwiftFails
    BY <1>4, SwiftFailsKeeps
  <1>5. CASE AdminScan
    BY <1>5, AdminScanKeeps, NoReply DEF AdminScan
  <1>6. CASE ScanStart
    BY <1>6, ScanStartKeeps, NoReply DEF ScanStart
  <1>7. CASE ScanPage
    BY <1>7, ScanPageKeeps, NoReply DEF ScanPage
  <1>8. CASE ScanVisit
    BY <1>8, ScanVisitKeeps, NoReply DEF ScanVisit
  <1>9. ASSUME NEW name \in Names, Copy(name) \/ Upload(name) \/ Delete(name)
        PROVE  LInv' /\ CephEntryWins
    <2>1. UNCHANGED lister
      BY <1>9 DEF Copy, Upload, Delete
    <2>2. CASE Copy(name)
      BY <2>1, <2>2, AddKeeps, NoReply DEF Copy, LInv, TypeOK
    <2>3. CASE Upload(name)
      BY <2>1, <2>3, AddKeeps, ChangeType, NoReply DEF Upload, LInv
    <2>4. CASE Delete(name)
      BY <2>1, <2>4, DeleteKeeps, NoReply
    <2>5. QED
      BY <1>9, <2>2, <2>3, <2>4
  <1>10. CASE UNCHANGED vars
    <2>1. OtherStep /\ UNCHANGED lister
      BY <1>10 DEF vars, OtherStep, Stays, LInv, TypeOK, ListerInv
    <2>2. QED
      BY <2>1, OtherStepKeeps, NoReply
  <1>11. QED
    BY <1>1, <1>2, <1>3, <1>4, <1>5, <1>6, <1>7, <1>8, <1>9, <1>10 DEF Next

LEMMA ListingInvariance == Spec => []LInv
  <1>1. LInv /\ [Next]_vars => LInv'
    BY StepFits
  <1>2. QED
    BY InitFits, <1>1, PTL DEF Spec

(* Every variable of the listings and scans keeps its type.                *)
THEOREM ListingTypeCorrect == Spec => []TypeOK
  <1>1. LInv => TypeOK
    BY DEF LInv
  <1>2. QED
    BY ListingInvariance, <1>1, PTL

(* Whatever is copied between two calls, and wherever the two backends and *)
(* the proxy cut their pages: a client that was told of no failure and got *)
(* to the end of the merged listing has seen all that was there.           *)
THEOREM MergedListingIsComplete == Spec => []ListingComplete
  <1>1. LInv => ListingComplete
    BY DEF LInv, ListerInv, NoneMissed, ListingComplete
  <1>2. QED
    BY ListingInvariance, <1>1, PTL

(* A scan that ended well has handled all that Swift still has, however    *)
(* often it was run again and whatever was deleted under its marker.       *)
THEOREM ScansMissNothing == Spec => []ScanComplete
  <1>1. LInv => ScanComplete
    BY DEF LInv, ScanInv
  <1>2. QED
    BY ListingInvariance, <1>1, PTL

(* No page of the merged listing shows the legacy entry of a name that     *)
(* Ceph had when its part was read, be the name on its part or behind it.  *)
THEOREM CephEntriesWin == Spec => CephPreferred
  <1>1. LInv /\ [Next]_vars => [CephEntryWins]_vars
    BY StepFits
  <1>2. QED
    BY ListingInvariance, <1>1, PTL DEF Spec, CephPreferred
=============================================================================
