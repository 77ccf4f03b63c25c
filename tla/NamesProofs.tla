----------------------------- MODULE NamesProofs -----------------------------
(***************************************************************************)
(* What Names guarantees for every set of paths and names and every number *)
(* of requests: the path of a client is taken apart as it was put          *)
(* together, jobs of different resources have different keys, and the job  *)
(* of a resource reads exactly that resource.                              *)
(***************************************************************************)
EXTENDS Names, OrderLemmas, SequenceTheorems, TLAPS

(* The keys of jobs hold the type of the job as one character. *)
Character == Characters \cup {"/", "|", "v1", "account", "container", "object"}
Text      == Seq(Character)

LEMMA SlashIsCharacter ==
    /\ "/" \in Character /\ "|" \in Character /\ "v1" \in Character
    /\ {"account", "container", "object"} \subseteq Character
  BY DEF Character

LEMMA TextDef ==
    ASSUME NEW s \in Text
    PROVE  /\ Len(s) \in Nat /\ DOMAIN s = 1..Len(s)
           /\ \A i \in 1..Len(s) : s[i] \in Character
           /\ s = Nothing <=> Len(s) = 0
  BY LenProperties, EmptySeq DEF Text, Nothing

LEMMA TextEqual ==
    ASSUME NEW s \in Text, NEW t \in Text, Len(s) = Len(t), \A i \in 1..Len(s) : s[i] = t[i]
    PROVE  s = t
  BY SeqEqual DEF Text

LEMMA PieceOf ==
    ASSUME NEW s \in Text, NEW i \in 1..(Len(s) + 1), NEW j \in 0..Len(s)
    PROVE  LET t == SubSeq(s, i, j)
           IN  /\ t \in Text
               /\ Len(t) = IF i <= j THEN j - i + 1 ELSE 0
               /\ \A x \in 1..Len(t) : t[x] = s[i + x - 1]
  <1> DEFINE t == SubSeq(s, i, j)
  <1>1. Len(s) \in Nat /\ i \in Int /\ j \in Int
    BY TextDef
  <1>2. \A x \in i..j : s[x] \in Character
    BY TextDef, <1>1
  <1>3. /\ t \in Seq(Character) /\ Len(t) = IF i <= j THEN j - i + 1 ELSE 0
        /\ \A x \in 1..(j - i + 1) : t[x] = s[i + x - 1]
    BY <1>1, <1>2, SubSeqProperties
  <1> HIDE DEF t
  <1>4. \A x \in 1..Len(t) : x \in 1..(j - i + 1)
    BY <1>1, <1>3
  <1>5. QED
    BY <1>3, <1>4 DEF Text, t

LEMMA Joined ==
    ASSUME NEW s \in Text, NEW t \in Text
    PROVE  /\ s \o t \in Text /\ Len(s \o t) = Len(s) + Len(t)
           /\ \A i \in 1..Len(s) : (s \o t)[i] = s[i]
           /\ \A i \in 1..Len(t) : (s \o t)[Len(s) + i] = t[i]
  <1>1. /\ s \o t \in Text /\ Len(s \o t) = Len(s) + Len(t)
        /\ \A i \in 1..(Len(s) + Len(t)) : (s \o t)[i] = IF i <= Len(s) THEN s[i] ELSE t[i - Len(s)]
    BY ConcatProperties DEF Text
  <1>2. Len(s) \in Nat /\ Len(t) \in Nat
    BY TextDef
  <1>3. \A i \in 1..Len(s) : (s \o t)[i] = s[i]
    BY <1>1, <1>2
  <1>4. \A i \in 1..Len(t) : (s \o t)[Len(s) + i] = t[i]
    <2>1. ASSUME NEW i \in 1..Len(t) PROVE (s \o t)[Len(s) + i] = t[i]
      <3>1. Len(s) + i \in 1..(Len(s) + Len(t)) /\ ~(Len(s) + i <= Len(s)) /\ Len(s) + i - Len(s) = i
        BY <1>2
      <3>2. QED
        BY <1>1, <3>1
    <2>2. QED
      BY <2>1
  <1>5. QED
    BY <1>1, <1>3, <1>4

LEMMA Associates ==
    ASSUME NEW s \in Text, NEW t \in Text, NEW u \in Text
    PROVE  s \o (t \o u) = s \o t \o u
  <1>1. s \in Seq(Character) /\ t \in Seq(Character) /\ u \in Seq(Character)
    BY DEF Text
  <1>2. QED
    BY ONLY <1>1, ConcatAssociative

LEMMA OneCharacter ==
    ASSUME NEW c \in Character
    PROVE  <<c>> \in Text /\ Len(<<c>>) = 1 /\ <<c>>[1] = c
  BY DEF Text

LEMMA NothingIsText == Nothing \in Text /\ Len(Nothing) = 0
  BY EmptySeq DEF Text, Nothing
-----------------------------------------------------------------------------
(* The slashes of a text, and its parts. *)
LEMMA SlashesAre ==
    ASSUME NEW s \in Text
    PROVE  /\ Slashes(s) \in SUBSET Nat /\ Slashes(s) \subseteq 1..Len(s)
           /\ \A i \in 1..Len(s) : i \in Slashes(s) <=> s[i] = "/"
  <1>1. DOMAIN s = 1..Len(s) /\ Len(s) \in Nat
    BY TextDef
  <1>2. QED
    BY <1>1 DEF Slashes

LEMMA FirstIs ==
    ASSUME NEW S \in SUBSET Nat, NEW i \in S, \A j \in S : i <= j
    PROVE  First(S) = i
  <1>1. First(S) \in S /\ \A j \in S : First(S) <= j
    BY DEF First
  <1>2. First(S) \in Nat /\ i \in Nat /\ First(S) <= i /\ i <= First(S)
    BY <1>1
  <1>3. QED
    BY <1>2

LEMMA PartsNone ==
    ASSUME NEW s, Slashes(s) = {}
    PROVE  Parts(s) = <<s>>
  BY DEF Parts

LEMMA PartsOne ==
    ASSUME NEW s \in Text, NEW i, Slashes(s) = {i}
    PROVE  Parts(s) = <<Before(s, i), Rest(s, i + 1)>>
  <1>1. i \in Nat /\ Slashes(s) \in SUBSET Nat
    BY SlashesAre
  <1>2. First(Slashes(s)) = i
    BY <1>1, FirstIs
  <1>3. {j \in Slashes(s) : j > i} = {}
    BY <1>1
  <1>4. QED
    BY <1>2, <1>3 DEF Parts

LEMMA PartsTwo ==
    ASSUME NEW s \in Text, NEW i \in Slashes(s), NEW j \in Slashes(s), i < j,
           \A k \in Slashes(s) : k = i \/ k >= j
    PROVE  Parts(s) = <<Before(s, i), SubSeq(s, i + 1, j - 1), Rest(s, j + 1)>>
  <1>1. i \in Nat /\ j \in Nat /\ Slashes(s) \in SUBSET Nat
    BY SlashesAre
  <1>2. \A k \in Slashes(s) : i <= k
    BY <1>1
  <1>3. First(Slashes(s)) = i
    BY <1>1, <1>2, FirstIs
  <1> DEFINE L == {k \in Slashes(s) : k > i}
  <1>4. L \in SUBSET Nat /\ j \in L /\ \A k \in L : j <= k
    BY <1>1
  <1>5. First(L) = j /\ L # {}
    BY <1>4, FirstIs
  <1>6. Slashes(s) # {}
    OBVIOUS
  <1>7. QED
    BY <1>3, <1>5, <1>6 DEF Parts

LEMMA SlashCases ==
    ASSUME NEW s \in Text
    PROVE  \/ Slashes(s) = {}
           \/ \E i \in Slashes(s) : Slashes(s) = {i}
           \/ \E i, j \in Slashes(s) : i < j /\ \A k \in Slashes(s) : k = i \/ k >= j
  <1>1. SUFFICES ASSUME Slashes(s) # {}, \A i \in Slashes(s) : Slashes(s) # {i}
                 PROVE  \E i, j \in Slashes(s) : i < j /\ \A k \in Slashes(s) : k = i \/ k >= j
    OBVIOUS
  <1>2. Slashes(s) \in SUBSET Nat
    BY SlashesAre
  <1>3. PICK i \in Slashes(s) : \A k \in Slashes(s) : i <= k
    BY <1>1, <1>2, LeastExists
  <1> DEFINE L == Slashes(s) \ {i}
  <1>4. L \in SUBSET Nat /\ L # {}
    BY <1>1, <1>2
  <1>5. PICK j \in L : \A k \in L : j <= k
    BY <1>4, LeastExists
  <1>6. i \in Nat /\ j \in Nat /\ i <= j /\ i # j
    BY <1>2, <1>3, <1>5
  <1>7. QED
    BY <1>5, <1>6
-----------------------------------------------------------------------------
(* A resource is named by its account, container and object. *)
Types == {"account", "container", "object"}
IsResource(r) ==
    /\ r \in [type : Types, account : Text, container : Text, object : Text]
    /\ r.account # Nothing /\ Slashes(r.account) = {}
    /\ Slashes(r.container) = {}
    /\ (r.container = Nothing) = (r.type = "account")
    /\ (r.object # Nothing) = (r.type = "object")

LEMMA JoinedBySlash ==
    ASSUME NEW a \in Text, NEW b \in Text
    PROVE  LET s == a \o (<<"/">> \o b)
           IN  /\ s \in Text /\ Len(s) = Len(a) + 1 + Len(b)
               /\ \A i \in 1..Len(a) : s[i] = a[i]
               /\ s[Len(a) + 1] = "/"
               /\ \A i \in 1..Len(b) : s[Len(a) + 1 + i] = b[i]
  <1> DEFINE u == <<"/">>
  <1>1. u \in Text /\ Len(u) = 1 /\ u[1] = "/"
    BY SlashIsCharacter, OneCharacter
  <1> HIDE DEF u
  <1> DEFINE t == u \o b
  <1>2. t \in Text /\ Len(t) = 1 + Len(b) /\ t[1] = "/" /\ \A i \in 1..Len(b) : t[1 + i] = b[i]
    <2>1. /\ t \in Text /\ Len(t) = Len(u) + Len(b)
          /\ \A i \in 1..Len(u) : t[i] = u[i]
          /\ \A i \in 1..Len(b) : t[Len(u) + i] = b[i]
      BY <1>1, Joined
    <2> HIDE DEF t
    <2>2. 1 \in 1..Len(u)
      BY <1>1
    <2>3. QED
      BY <1>1, <2>1, <2>2
  <1> HIDE DEF t
  <1> DEFINE s == a \o t
  <1>3. /\ s \in Text /\ Len(s) = Len(a) + Len(t)
        /\ \A i \in 1..Len(a) : s[i] = a[i]
        /\ \A i \in 1..Len(t) : s[Len(a) + i] = t[i]
    BY <1>2, Joined
  <1> HIDE DEF s
  <1>4. Len(a) \in Nat /\ Len(b) \in Nat
    BY TextDef
  <1>5. \A i \in 1..Len(b) : s[Len(a) + 1 + i] = b[i]
    <2>1. ASSUME NEW i \in 1..Len(b) PROVE s[Len(a) + 1 + i] = b[i]
      <3>1. 1 + i \in 1..Len(t) /\ Len(a) + (1 + i) = Len(a) + 1 + i
        BY <1>2, <1>4
      <3>2. QED
        BY <1>2, <1>3, <3>1
    <2>2. QED
      BY <2>1
  <1>6. s[Len(a) + 1] = "/"
    BY <1>2, <1>3, <1>4
  <1>7. s \in Text /\ Len(s) = Len(a) + 1 + Len(b)
    BY <1>2, <1>3, <1>4
  <1>8. QED
    BY <1>3, <1>5, <1>6, <1>7 DEF s, t, u

(* A text is what is before one of its slashes, the slash, and the rest.   *)
LEMMA SplitAtSlash ==
    ASSUME NEW s \in Text, NEW i \in Slashes(s)
    PROVE  /\ i \in 1..Len(s)
           /\ Before(s, i) \in Text /\ Len(Before(s, i)) = i - 1
           /\ \A x \in 1..(i - 1) : Before(s, i)[x] = s[x]
           /\ Rest(s, i + 1) \in Text /\ Len(Rest(s, i + 1)) = Len(s) - i
           /\ \A x \in 1..(Len(s) - i) : Rest(s, i + 1)[x] = s[i + x]
           /\ s = Before(s, i) \o (<<"/">> \o Rest(s, i + 1))
  <1>1. Len(s) \in Nat /\ i \in 1..Len(s) /\ s[i] = "/"
    BY TextDef, SlashesAre
  <1> DEFINE a == Before(s, i)  b == Rest(s, i + 1)
  <1>2. /\ a \in Text /\ Len(a) = i - 1 /\ \A x \in 1..(i - 1) : a[x] = s[x]
    <2>1. 1 \in 1..(Len(s) + 1) /\ i - 1 \in 0..Len(s)
      BY <1>1
    <2>2. /\ a \in Text /\ Len(a) = IF 1 <= i - 1 THEN i - 1 - 1 + 1 ELSE 0
          /\ \A x \in 1..Len(a) : a[x] = s[1 + x - 1]
      BY <2>1, PieceOf DEF Before
    <2> HIDE DEF a
    <2>3. Len(a) = i - 1
      BY <1>1, <2>2
    <2>4. \A x \in 1..(i - 1) : 1 + x - 1 = x
      BY <1>1
    <2>5. QED
      BY <2>2, <2>3, <2>4
  <1>3. /\ b \in Text /\ Len(b) = Len(s) - i /\ \A x \in 1..(Len(s) - i) : b[x] = s[i + x]
    <2>1. i + 1 \in 1..(Len(s) + 1) /\ Len(s) \in 0..Len(s)
      BY <1>1
    <2>2. /\ b \in Text /\ Len(b) = IF i + 1 <= Len(s) THEN Len(s) - (i + 1) + 1 ELSE 0
          /\ \A x \in 1..Len(b) : b[x] = s[i + 1 + x - 1]
      BY <2>1, PieceOf DEF Rest
    <2> HIDE DEF b
    <2>3. Len(b) = Len(s) - i
      BY <1>1, <2>2
    <2>4. \A x \in 1..(Len(s) - i) : i + 1 + x - 1 = i + x
      BY <1>1
    <2>5. QED
      BY <2>2, <2>3, <2>4
  <1> HIDE DEF a, b
  <1> DEFINE u == a \o (<<"/">> \o b)
  <1>4. /\ u \in Text /\ Len(u) = Len(a) + 1 + Len(b)
        /\ \A x \in 1..Len(a) : u[x] = a[x]
        /\ u[Len(a) + 1] = "/"
        /\ \A x \in 1..Len(b) : u[Len(a) + 1 + x] = b[x]
    BY <1>2, <1>3, JoinedBySlash
  <1> HIDE DEF u
  <1>5. Len(u) = Len(s)
    BY <1>1, <1>2, <1>3, <1>4
  <1>6. ASSUME NEW x \in 1..Len(u) PROVE u[x] = s[x]
    <2>1. CASE x < i
      BY <1>1, <1>2, <1>4, <2>1
    <2>2. CASE x = i
      BY <1>1, <1>2, <1>4, <2>2
    <2>3. CASE x > i
      <3>1. x - i \in 1..Len(b) /\ Len(a) + 1 + (x - i) = x /\ i + (x - i) = x
        BY <1>1, <1>2, <1>3, <1>5, <2>3
      <3>2. QED
        BY <1>3, <1>4, <3>1
    <2>4. QED
      BY <1>1, <1>5, <2>1, <2>2, <2>3
  <1>7. u = s
    BY <1>4, <1>5, <1>6, TextEqual
  <1>8. QED
    BY <1>1, <1>2, <1>3, <1>7 DEF u, a, b

LEMMA SlashesOfJoined ==
    ASSUME NEW a \in Text, Slashes(a) = {}, NEW b \in Text
    PROVE  LET s == a \o (<<"/">> \o b)
           IN  /\ s \in Text /\ Len(s) = Len(a) + 1 + Len(b)
               /\ Len(a) + 1 \in Slashes(s)
               /\ \A k \in Slashes(s) : k = Len(a) + 1 \/ (k > Len(a) + 1 /\ k - Len(a) - 1 \in Slashes(b))
               /\ \A k \in Slashes(b) : Len(a) + 1 + k \in Slashes(s)
               /\ Before(s, Len(a) + 1) = a
               /\ Rest(s, Len(a) + 2) = b
  <1> DEFINE s == a \o (<<"/">> \o b)
  <1>1. /\ s \in Text /\ Len(s) = Len(a) + 1 + Len(b)
        /\ \A x \in 1..Len(a) : s[x] = a[x]
        /\ s[Len(a) + 1] = "/"
        /\ \A x \in 1..Len(b) : s[Len(a) + 1 + x] = b[x]
    BY JoinedBySlash
  <1> HIDE DEF s
  <1>2. Len(a) \in Nat /\ Len(b) \in Nat /\ Slashes(b) \subseteq 1..Len(b) /\ Slashes(s) \subseteq 1..Len(s)
    BY <1>1, TextDef, SlashesAre
  <1>3. Len(a) + 1 \in Slashes(s)
    <2>1. Len(a) + 1 \in 1..Len(s)
      BY <1>1, <1>2
    <2>2. QED
      BY <1>1, <2>1, SlashesAre
  <1>4. ASSUME NEW k \in Slashes(s)
        PROVE  k = Len(a) + 1 \/ (k > Len(a) + 1 /\ k - Len(a) - 1 \in Slashes(b))
    <2>1. k \in 1..Len(s) /\ s[k] = "/"
      BY <1>1, SlashesAre
    <2>2. CASE k <= Len(a)
      <3>1. k \in 1..Len(a) /\ a[k] = "/"
        BY <1>1, <1>2, <2>1, <2>2
      <3>2. QED
        BY <3>1, SlashesAre
    <2>3. CASE k > Len(a) + 1
      <3>1. k - Len(a) - 1 \in 1..Len(b) /\ Len(a) + 1 + (k - Len(a) - 1) = k
        BY <1>1, <1>2, <2>1, <2>3
      <3>2. b[k - Len(a) - 1] = "/"
        BY <1>1, <2>1, <3>1
      <3>3. QED
        BY <2>3, <3>1, <3>2, SlashesAre
    <2>4. QED
      BY <1>2, <2>1, <2>2, <2>3
  <1>5. ASSUME NEW k \in Slashes(b) PROVE Len(a) + 1 + k \in Slashes(s)
    <2>1. k \in 1..Len(b) /\ b[k] = "/"
      BY SlashesAre
    <2>2. Len(a) + 1 + k \in 1..Len(s) /\ s[Len(a) + 1 + k] = "/"
      BY <1>1, <1>2, <2>1
    <2>3. QED
      BY <1>1, <2>2, SlashesAre
  <1>6. PICK i \in Slashes(s) : i = Len(a) + 1
    BY <1>3
  <1> DEFINE p == Before(s, i)  q == Rest(s, i + 1)
  <1>7. /\ p \in Text /\ Len(p) = i - 1 /\ \A x \in 1..(i - 1) : p[x] = s[x]
        /\ q \in Text /\ Len(q) = Len(s) - i
        /\ \A x \in 1..(Len(s) - i) : q[x] = s[i + x]
    BY <1>1, SplitAtSlash
  <1> HIDE DEF p, q
  <1>8. i - 1 = Len(a) /\ Len(s) - i = Len(b) /\ i + 1 = Len(a) + 2
    BY <1>1, <1>2, <1>6
  <1>9. p = a
    BY <1>1, <1>7, <1>8, TextEqual
  <1>10. q = b
    <2>1. \A x \in 1..Len(b) : q[x] = s[i + x]
      BY <1>7, <1>8
    <2>2. \A x \in 1..Len(b) : s[i + x] = b[x]
      BY <1>1, <1>6
    <2>3. Len(q) = Len(b)
      BY <1>7, <1>8
    <2>4. \A x \in 1..Len(q) : q[x] = b[x]
      BY <2>1, <2>2, <2>3
    <2>5. QED
      BY <1>7, <2>3, <2>4, TextEqual
  <1>11. QED
    BY <1>1, <1>3, <1>4, <1>5, <1>6, <1>8, <1>9, <1>10 DEF p, q, s
-----------------------------------------------------------------------------
(* Taking a path apart and putting it together. *)
LEMMA PathOfAccount ==
    ASSUME NEW r, IsResource(r), r.type = "account"
    PROVE  Path(r) = r.account
  BY ConcatEmptySeq DEF Path, IsResource, Text, Nothing

LEMMA PathOfContainer ==
    ASSUME NEW r, IsResource(r), r.type = "container"
    PROVE  Path(r) = r.account \o (<<"/">> \o r.container)
  <1> DEFINE u == <<"/">> \o r.container
  <1>1. r.account \in Text /\ r.container \in Text /\ r.container # Nothing /\ r.object = Nothing
    BY DEF IsResource
  <1>2. u \in Text
    BY <1>1, SlashIsCharacter, OneCharacter, Joined
  <1> HIDE DEF u
  <1>3. (r.account \o u) \o <<>> = r.account \o u
    BY <1>1, <1>2, Joined, ConcatEmptySeq DEF Text
  <1>4. QED
    BY <1>1, <1>3 DEF Path, Nothing, u

LEMMA PathOfObject ==
    ASSUME NEW r, IsResource(r), r.type = "object"
    PROVE  Path(r) = r.account \o (<<"/">> \o (r.container \o (<<"/">> \o r.object)))
  <1> DEFINE a == r.account  c == r.container  o == r.object
  <1>1. a \in Text /\ c \in Text /\ o \in Text /\ c # Nothing /\ o # Nothing
    BY DEF IsResource
  <1>2. Path(r) = a \o (<<"/">> \o c) \o (<<"/">> \o o)
    BY <1>1 DEF Path
  <1> HIDE DEF a, c, o
  <1>3. <<"/">> \in Text
    BY SlashIsCharacter, OneCharacter
  <1>4. <<"/">> \o c \in Text /\ <<"/">> \o o \in Text
    BY <1>1, <1>3, Joined
  <1>5. (a \o (<<"/">> \o c)) \o (<<"/">> \o o) = a \o ((<<"/">> \o c) \o (<<"/">> \o o))
    <2> DEFINE v == <<"/">> \o c  w == <<"/">> \o o
    <2>1. a \in Text /\ v \in Text /\ w \in Text
      BY <1>1, <1>4
    <2> HIDE DEF v, w
    <2>2. a \o (v \o w) = a \o v \o w
      BY ONLY <2>1, Associates
    <2>3. QED
      BY <2>2 DEF v, w
  <1>6. (<<"/">> \o c) \o (<<"/">> \o o) = <<"/">> \o (c \o (<<"/">> \o o))
    BY <1>1, <1>3, <1>4, Associates
  <1>7. QED
    BY <1>2, <1>5, <1>6 DEF a, c, o

LEMMA PartsOfPath ==
    ASSUME NEW r, IsResource(r)
    PROVE  /\ Path(r) \in Text /\ Path(r) # Nothing
           /\ r.type = "account" => Parts(Path(r)) = <<r.account>>
           /\ r.type = "container" => Parts(Path(r)) = <<r.account, r.container>>
           /\ r.type = "object" => Parts(Path(r)) = <<r.account, r.container, r.object>>
  <1> DEFINE a == r.account  c == r.container  o == r.object
  <1>1. /\ a \in Text /\ c \in Text /\ o \in Text /\ Slashes(a) = {} /\ Slashes(c) = {} /\ a # Nothing
        /\ r.type \in Types
    BY DEF IsResource
  <1>2. Len(a) \in Nat \ {0} /\ Len(c) \in Nat /\ Len(o) \in Nat
    BY <1>1, TextDef
  <1>3. CASE r.type = "account"
    BY <1>1, <1>3, PathOfAccount, PartsNone
  <1>4. CASE r.type = "container"
    <2> DEFINE s == a \o (<<"/">> \o c)
    <2>1. Path(r) = s
      BY <1>4, PathOfContainer
    <2> HIDE DEF a, c
    <2>2. /\ s \in Text /\ Len(s) = Len(a) + 1 + Len(c)
          /\ Len(a) + 1 \in Slashes(s)
          /\ \A k \in Slashes(s) : k = Len(a) + 1 \/ (k > Len(a) + 1 /\ k - Len(a) - 1 \in Slashes(c))
          /\ Before(s, Len(a) + 1) = a /\ Rest(s, Len(a) + 2) = c
      BY <1>1, SlashesOfJoined
    <2> HIDE DEF s
    <2>3. Slashes(s) = {Len(a) + 1}
      BY <1>1, <2>2
    <2>4. Parts(s) = <<Before(s, Len(a) + 1), Rest(s, Len(a) + 1 + 1)>>
      BY <2>2, <2>3, PartsOne
    <2>5. Len(a) + 1 + 1 = Len(a) + 2
      BY <1>2
    <2>6. s # Nothing
      BY <1>2, <2>2, NothingIsText
    <2>7. QED
      BY <1>4, <2>1, <2>2, <2>4, <2>5, <2>6 DEF a, c
  <1>5. CASE r.type = "object"
    <2> DEFINE b == c \o (<<"/">> \o o)  s == a \o (<<"/">> \o b)
               i == Len(a) + 1  j == Len(a) + 1 + (Len(c) + 1)
    <2>1. Path(r) = s
      BY <1>5, PathOfObject
    <2> HIDE DEF s, a, c, o
    <2>2. /\ b \in Text /\ Len(b) = Len(c) + 1 + Len(o)
          /\ Len(c) + 1 \in Slashes(b) /\ \A k \in Slashes(b) : k >= Len(c) + 1
          /\ Before(b, Len(c) + 1) = c /\ Rest(b, Len(c) + 2) = o
      <3>1. /\ b \in Text /\ Len(b) = Len(c) + 1 + Len(o) /\ Len(c) + 1 \in Slashes(b)
            /\ \A k \in Slashes(b) : k = Len(c) + 1 \/ (k > Len(c) + 1 /\ k - Len(c) - 1 \in Slashes(o))
            /\ Before(b, Len(c) + 1) = c /\ Rest(b, Len(c) + 2) = o
        BY <1>1, SlashesOfJoined
      <3> HIDE DEF b
      <3>2. \A k \in Slashes(b) : k >= Len(c) + 1
        <4>1. \A k \in Slashes(b) : k \in Nat
          BY <3>1, SlashesAre
        <4>2. QED
          BY <1>2, <3>1, <4>1
      <3>3. QED
        BY <3>1, <3>2
    <2> HIDE DEF b
    <2>3. /\ s \in Text /\ Len(s) = Len(a) + 1 + Len(b)
          /\ i \in Slashes(s)
          /\ \A k \in Slashes(s) : k = i \/ (k > i /\ k - Len(a) - 1 \in Slashes(b))
          /\ \A k \in Slashes(b) : Len(a) + 1 + k \in Slashes(s)
          /\ Before(s, i) = a /\ Rest(s, Len(a) + 2) = b
      BY <1>1, <2>2, SlashesOfJoined DEF s
    <2>4. j \in Slashes(s) /\ i < j
      BY <1>2, <2>2, <2>3
    <2>5. \A k \in Slashes(s) : k = i \/ k >= j
      <3>1. ASSUME NEW k \in Slashes(s), k # i PROVE k >= j
        <4>1. k - Len(a) - 1 >= Len(c) + 1
          BY <2>2, <2>3, <3>1
        <4>2. k \in Nat
          BY <2>3, SlashesAre
        <4>3. QED
          BY <1>2, <4>1, <4>2
      <3>2. QED
        BY <3>1
    <2>6. Parts(s) = <<Before(s, i), SubSeq(s, i + 1, j - 1), Rest(s, j + 1)>>
      BY <2>3, <2>4, <2>5, PartsTwo
    <2>7. SubSeq(s, i + 1, j - 1) = c
      <3> DEFINE t == SubSeq(s, i + 1, j - 1)
      <3>1. i + 1 \in 1..(Len(s) + 1) /\ j - 1 \in 0..Len(s)
        BY <1>2, <2>2, <2>3
      <3>2. /\ t \in Text /\ Len(t) = IF i + 1 <= j - 1 THEN j - 1 - (i + 1) + 1 ELSE 0
            /\ \A x \in 1..Len(t) : t[x] = s[i + 1 + x - 1]
        BY <2>3, <3>1, PieceOf
      <3> HIDE DEF t
      <3>3. Len(t) = Len(c)
        BY <1>2, <3>2
      <3>4. \A x \in 1..Len(c) : i + 1 + x - 1 = Len(a) + 1 + x /\ x \in 1..Len(b)
        BY <1>2, <2>2
      <3>5. \A x \in 1..Len(c) : t[x] = s[Len(a) + 1 + x]
        BY <3>2, <3>3, <3>4
      <3>6. \A x \in 1..Len(c) : s[Len(a) + 1 + x] = b[x] /\ b[x] = c[x]
        <4>1. \A x \in 1..Len(b) : s[Len(a) + 1 + x] = b[x]
          BY <1>1, <2>2, JoinedBySlash DEF s
        <4>2. \A x \in 1..Len(c) : b[x] = c[x]
          BY <1>1, JoinedBySlash DEF b
        <4>3. QED
          BY <3>4, <4>1, <4>2
      <3>7. QED
        BY <1>1, <3>2, <3>3, <3>5, <3>6, TextEqual DEF t
    <2>8. Rest(s, j + 1) = o
      <3> DEFINE t == Rest(s, j + 1)
      <3>1. /\ t \in Text /\ Len(t) = Len(s) - j /\ \A x \in 1..(Len(s) - j) : t[x] = s[j + x]
        BY <2>3, <2>4, SplitAtSlash
      <3> HIDE DEF t
      <3>2. Len(t) = Len(o) /\ Len(s) - j = Len(o)
        BY <1>2, <2>2, <2>3, <3>1
      <3>3. \A x \in 1..Len(o) : Len(c) + 1 + x \in 1..Len(b) /\ j + x = Len(a) + 1 + (Len(c) + 1 + x)
        BY <1>2, <2>2
      <3>4. \A x \in 1..Len(o) : t[x] = s[Len(a) + 1 + (Len(c) + 1 + x)]
        BY <3>1, <3>2, <3>3
      <3>5. \A x \in 1..Len(b) : s[Len(a) + 1 + x] = b[x]
        BY <1>1, <2>2, JoinedBySlash DEF s
      <3>6. \A x \in 1..Len(o) : b[Len(c) + 1 + x] = o[x]
        BY <1>1, JoinedBySlash DEF b
      <3>7. \A x \in 1..Len(o) : t[x] = o[x]
        BY <3>3, <3>4, <3>5, <3>6
      <3>8. QED
        BY <1>1, <3>1, <3>2, <3>7, TextEqual DEF t
    <2>9. s # Nothing
      BY <1>2, <2>2, <2>3, NothingIsText
    <2>10. QED
      BY <1>5, <2>1, <2>3, <2>6, <2>7, <2>8, <2>9 DEF a, c, o
  <1>6. QED
    BY <1>1, <1>3, <1>4, <1>5 DEF Types

LEMMA NamedAccount ==
    ASSUME NEW a
    PROVE  Named(<<a>>) = IF a = Nothing THEN Invalid
                          ELSE [type |-> "account", account |-> a, container |-> Nothing, object |-> Nothing]
  <1>1. Chars(<<a>>) = {a}
    BY DEF Chars
  <1>2. QED
    BY <1>1 DEF Named, Resource

LEMMA NamedContainer ==
    ASSUME NEW a, NEW c
    PROVE  Named(<<a, c>>) = IF Nothing \in {a, c} THEN Invalid
                             ELSE [type |-> "container", account |-> a, container |-> c, object |-> Nothing]
  <1>1. Chars(<<a, c>>) = {a, c}
    BY DEF Chars
  <1>2. QED
    BY <1>1 DEF Named, Resource

LEMMA NamedObject ==
    ASSUME NEW a, NEW c, NEW o
    PROVE  Named(<<a, c, o>>) = IF Nothing \in {a, c, o} THEN Invalid
                                ELSE [type |-> "object", account |-> a, container |-> c, object |-> o]
  <1>1. Chars(<<a, c, o>>) = {a, c, o}
    BY DEF Chars
  <1>2. QED
    BY <1>1 DEF Named, Resource

(* The path of a resource is parsed as that resource, so that no two share *)
(* a path.                                                                 *)
LEMMA ParseOfPath ==
    ASSUME NEW r, IsResource(r)
    PROVE  Named(Parts(Path(r))) = r
  <1>1. /\ r.type \in Types /\ r.account # Nothing
        /\ r = [type |-> r.type, account |-> r.account, container |-> r.container, object |-> r.object]
        /\ (r.container = Nothing) = (r.type = "account")
        /\ (r.object # Nothing) = (r.type = "object")
    BY DEF IsResource
  <1>2. CASE r.type = "account"
    BY <1>1, <1>2, PartsOfPath, NamedAccount
  <1>3. CASE r.type = "container"
    BY <1>1, <1>3, PartsOfPath, NamedContainer
  <1>4. CASE r.type = "object"
    BY <1>1, <1>4, PartsOfPath, NamedObject
  <1>5. QED
    BY <1>1, <1>2, <1>3, <1>4 DEF Types

LEMMA BeforeFirstSlash ==
    ASSUME NEW s \in Text, NEW i \in Slashes(s), \A k \in Slashes(s) : i <= k
    PROVE  Slashes(Before(s, i)) = {}
  <1>1. /\ Before(s, i) \in Text /\ Len(Before(s, i)) = i - 1 /\ i \in 1..Len(s)
        /\ \A x \in 1..(i - 1) : Before(s, i)[x] = s[x]
    BY SplitAtSlash
  <1>2. Len(s) \in Nat
    BY TextDef
  <1>3. ASSUME NEW k \in Slashes(Before(s, i)) PROVE FALSE
    <2>1. k \in 1..(i - 1) /\ s[k] = "/"
      BY <1>1, SlashesAre
    <2>2. k \in Slashes(s)
      BY <1>1, <1>2, <2>1, SlashesAre
    <2>3. i <= k /\ k <= i - 1
      BY <2>1, <2>2
    <2>4. QED
      BY <1>1, <2>1, <2>3
  <1>4. QED
    BY <1>3

(* A path that is not refused is that of the resource it is parsed as.     *)
LEMMA PathOfParse ==
    ASSUME NEW s \in Text, Named(Parts(s)) # Invalid
    PROVE  IsResource(Named(Parts(s))) /\ Path(Named(Parts(s))) = s
  <1> DEFINE r == Named(Parts(s))
  <1>1. CASE Slashes(s) = {}
    <2>1. s # Nothing /\ r = [type |-> "account", account |-> s, container |-> Nothing, object |-> Nothing]
      BY <1>1, PartsNone, NamedAccount
    <2> HIDE DEF r
    <2>2. IsResource(r) /\ r.type = "account" /\ r.account = s
      BY <1>1, <2>1, NothingIsText DEF IsResource, Types, Slashes, Nothing
    <2>3. QED
      BY <2>2, PathOfAccount DEF r
  <1>2. ASSUME NEW i \in Slashes(s), Slashes(s) = {i}
        PROVE  IsResource(r) /\ Path(r) = s
    <2> DEFINE a == Before(s, i)  c == Rest(s, i + 1)
    <2>1. /\ a \in Text /\ c \in Text /\ Len(c) = Len(s) - i
          /\ \A x \in 1..(Len(s) - i) : c[x] = s[i + x]
          /\ s = a \o (<<"/">> \o c)
      BY SplitAtSlash
    <2>2. i \in 1..Len(s) /\ Len(s) \in Nat
      BY SlashesAre, TextDef
    <2>3. Slashes(a) = {}
      BY <1>2, <2>2, BeforeFirstSlash
    <2>4. Nothing \notin {a, c}
          /\ r = [type |-> "container", account |-> a, container |-> c, object |-> Nothing]
      BY <1>2, PartsOne, NamedContainer
    <2> HIDE DEF r, a, c
    <2>5. ASSUME NEW k \in Slashes(c) PROVE FALSE
      <3>1. k \in 1..(Len(s) - i) /\ c[k] = "/"
        BY <2>1, SlashesAre
      <3>2. i + k \in 1..Len(s) /\ s[i + k] = "/"
        BY <2>1, <2>2, <3>1
      <3>3. i + k \in Slashes(s)
        BY <3>2, SlashesAre
      <3>4. QED
        BY <1>2, <2>2, <3>1, <3>3
    <2>6. IsResource(r) /\ r.type = "container" /\ r.account = a /\ r.container = c
      BY <2>1, <2>3, <2>4, <2>5, NothingIsText DEF IsResource, Types
    <2>7. QED
      BY <2>1, <2>6, PathOfContainer
  <1>3. ASSUME NEW i \in Slashes(s), NEW j \in Slashes(s), i < j,
               \A k \in Slashes(s) : k = i \/ k >= j
        PROVE  IsResource(r) /\ Path(r) = s
    <2> DEFINE a == Before(s, i)  b == Rest(s, i + 1)
               c == SubSeq(s, i + 1, j - 1)  o == Rest(s, j + 1)
    <2>1. i \in 1..Len(s) /\ j \in 1..Len(s) /\ Len(s) \in Nat
      BY SlashesAre, TextDef
    <2>2. /\ a \in Text /\ b \in Text /\ Len(b) = Len(s) - i
          /\ \A x \in 1..(Len(s) - i) : b[x] = s[i + x]
          /\ s = a \o (<<"/">> \o b)
      BY SplitAtSlash
    <2>3. /\ o \in Text /\ Len(o) = Len(s) - j /\ \A x \in 1..(Len(s) - j) : o[x] = s[j + x]
      BY SplitAtSlash
    <2>4. Slashes(a) = {}
      <3>1. \A k \in Slashes(s) : i <= k
        BY <1>3, <2>1, SlashesAre
      <3>2. QED
        BY <3>1, BeforeFirstSlash
    <2>5. Nothing \notin {a, c, o}
          /\ r = [type |-> "object", account |-> a, container |-> c, object |-> o]
      <3>1. Parts(s) = <<a, c, o>>
        BY <1>3, PartsTwo
      <3> HIDE DEF a, c, o
      <3>2. QED
        BY <1>3, <3>1, NamedObject
    <2>6. /\ c \in Text /\ Len(c) = j - i - 1 /\ \A x \in 1..(j - i - 1) : c[x] = s[i + x]
      <3>1. i + 1 \in 1..(Len(s) + 1) /\ j - 1 \in 0..Len(s)
        BY <2>1
      <3>2. /\ c \in Text /\ Len(c) = IF i + 1 <= j - 1 THEN j - 1 - (i + 1) + 1 ELSE 0
            /\ \A x \in 1..Len(c) : c[x] = s[i + 1 + x - 1]
        BY <3>1, PieceOf
      <3> HIDE DEF c
      <3>3. Len(c) = j - i - 1
        BY <1>3, <2>1, <3>2
      <3>4. \A x \in 1..(j - i - 1) : i + 1 + x - 1 = i + x
        BY <2>1
      <3>5. QED
        BY <3>2, <3>3, <3>4
    <2> HIDE DEF r, a, b, c, o
    <2>7. ASSUME NEW k \in Slashes(c) PROVE FALSE
      <3>1. k \in 1..(j - i - 1) /\ c[k] = "/"
        BY <2>6, SlashesAre
      <3>2. i + k \in 1..Len(s) /\ s[i + k] = "/" /\ i + k # i /\ ~(i + k >= j)
        BY <2>1, <2>6, <3>1
      <3>3. QED
        BY <1>3, <3>2, SlashesAre
    <2>8. b = c \o (<<"/">> \o o)
      <3> DEFINE u == c \o (<<"/">> \o o)
      <3>1. /\ u \in Text /\ Len(u) = Len(c) + 1 + Len(o)
            /\ \A x \in 1..Len(c) : u[x] = c[x]
            /\ u[Len(c) + 1] = "/"
            /\ \A x \in 1..Len(o) : u[Len(c) + 1 + x] = o[x]
        BY <2>3, <2>6, JoinedBySlash
      <3> HIDE DEF u
      <3>2. Len(u) = Len(b) /\ Len(c) + 1 = j - i
        BY <1>3, <2>1, <2>2, <2>3, <2>6, <3>1
      <3>3. s[j] = "/"
        BY SlashesAre
      <3>4. ASSUME NEW x \in 1..Len(b) PROVE b[x] = u[x]
        <4>1. b[x] = s[i + x] /\ x \in Nat /\ x \in 1..(Len(s) - i)
          <5>1. 1..Len(b) = 1..(Len(s) - i)
            BY <2>2
          <5>2. x \in 1..(Len(s) - i)
            BY <5>1
          <5>3. QED
            BY <2>1, <2>2, <5>2
        <4>2. CASE x < j - i
          BY <2>1, <2>6, <3>1, <4>1, <4>2
        <4>3. CASE x = j - i
          <5>1. i + x = j
            BY <2>1, <4>3
          <5>2. QED
            BY <3>1, <3>2, <3>3, <4>1, <4>3, <5>1
        <4>4. CASE x > j - i
          <5> DEFINE y == x - (j - i)
          <5>1. y \in 1..Len(o) /\ Len(c) + 1 + y = x /\ j + y = i + x
            <6>1. Len(o) = Len(s) - j /\ Len(c) + 1 = j - i /\ x \in 1..(Len(s) - i)
              BY <2>3, <3>2, <4>1
            <6>2. i \in Nat /\ j \in Nat /\ Len(s) \in Nat /\ x \in Nat /\ x <= Len(s) - i
              BY <2>1, <6>1
            <6>3. y \in Nat /\ y >= 1 /\ y <= Len(s) - j
              BY <1>3, <4>4, <6>2
            <6>4. y \in 1..Len(o)
              BY <6>1, <6>2, <6>3
            <6>5. Len(c) + 1 + y = x /\ j + y = i + x
              BY <6>1, <6>2
            <6>6. QED
              BY <6>4, <6>5
          <5> HIDE DEF y
          <5>2. u[x] = o[y] /\ o[y] = s[j + y]
            BY <2>3, <3>1, <5>1
          <5>3. QED
            BY <4>1, <5>1, <5>2
        <4>5. QED
          BY <2>1, <4>1, <4>2, <4>3, <4>4
      <3>5. QED
        BY <2>2, <3>1, <3>2, <3>4, TextEqual DEF u
    <2>9. IsResource(r) /\ r.type = "object" /\ r.account = a /\ r.container = c /\ r.object = o
      BY <2>2, <2>3, <2>4, <2>5, <2>6, <2>7 DEF IsResource, Types
    <2>10. QED
      BY <2>2, <2>8, <2>9, PathOfObject
  <1>4. QED
    BY <1>1, <1>2, <1>3, SlashCases
-----------------------------------------------------------------------------
(* Where the names of a resource are in its path.                          *)
HoldsAt(s, k, t) == k + Len(t) <= Len(s) /\ \A x \in 1..Len(t) : s[k + x] = t[x]

LEMMA PathHolds ==
    ASSUME NEW r, IsResource(r)
    PROVE  LET s == Path(r)  La == Len(r.account)  Lc == Len(r.container)  Lo == Len(r.object)
           IN  /\ s \in Text /\ La \in Nat \ {0} /\ Lc \in Nat /\ Lo \in Nat
               /\ HoldsAt(s, 0, r.account)
               /\ r.type = "account" => Slashes(s) = {}
               /\ r.type \in {"container", "object"} =>
                     s[La + 1] = "/" /\ Lc > 0 /\ HoldsAt(s, La + 1, r.container)
               /\ r.type = "container" => Len(s) = La + 1 + Lc /\ Slashes(s) = {La + 1}
               /\ r.type = "object" =>
                     /\ Len(s) = La + Lc + 2 + Lo /\ Lo > 0
                     /\ s[La + Lc + 2] = "/" /\ HoldsAt(s, La + Lc + 2, r.object)
  <1> DEFINE a == r.account  c == r.container  o == r.object
  <1>1. /\ a \in Text /\ c \in Text /\ o \in Text /\ Slashes(a) = {} /\ Slashes(c) = {} /\ a # Nothing
        /\ r.type \in Types /\ (r.type # "account" => c # Nothing) /\ (r.type = "object" => o # Nothing)
    BY DEF IsResource
  <1>2. Len(a) \in Nat \ {0} /\ Len(c) \in Nat /\ Len(o) \in Nat
        /\ (r.type # "account" => Len(c) > 0) /\ (r.type = "object" => Len(o) > 0)
    <2>1. Len(a) \in Nat /\ Len(c) \in Nat /\ Len(o) \in Nat /\ Len(a) # 0
          /\ (r.type # "account" => Len(c) # 0) /\ (r.type = "object" => Len(o) # 0)
      BY <1>1, TextDef
    <2>2. QED
      BY <2>1
  <1>3. CASE r.type = "account"
    <2>1. Path(r) = a
      BY <1>3, PathOfAccount
    <2>2. HoldsAt(a, 0, a)
      BY <1>2 DEF HoldsAt
    <2>3. QED
      BY <1>1, <1>2, <1>3, <2>1, <2>2
  <1>4. CASE r.type = "container"
    <2> DEFINE s == a \o (<<"/">> \o c)
    <2>1. Path(r) = s
      BY <1>4, PathOfContainer
    <2> HIDE DEF a, c
    <2>2. /\ s \in Text /\ Len(s) = Len(a) + 1 + Len(c)
          /\ \A x \in 1..Len(a) : s[x] = a[x]
          /\ s[Len(a) + 1] = "/"
          /\ \A x \in 1..Len(c) : s[Len(a) + 1 + x] = c[x]
      BY <1>1, JoinedBySlash
    <2>3. /\ Len(a) + 1 \in Slashes(s)
          /\ \A k \in Slashes(s) : k = Len(a) + 1 \/ (k > Len(a) + 1 /\ k - Len(a) - 1 \in Slashes(c))
      BY <1>1, SlashesOfJoined
    <2> HIDE DEF s
    <2>4. Slashes(s) = {Len(a) + 1}
      BY <1>1, <2>3
    <2>5. HoldsAt(s, 0, a) /\ HoldsAt(s, Len(a) + 1, c)
      BY <1>2, <2>2 DEF HoldsAt
    <2>6. QED
      BY <1>2, <1>4, <2>1, <2>2, <2>4, <2>5 DEF a, c
  <1>5. CASE r.type = "object"
    <2> DEFINE b == c \o (<<"/">> \o o)  s == a \o (<<"/">> \o b)
    <2>1. Path(r) = s
      BY <1>5, PathOfObject
    <2> HIDE DEF s, a, c, o
    <2>2. /\ b \in Text /\ Len(b) = Len(c) + 1 + Len(o)
          /\ \A x \in 1..Len(c) : b[x] = c[x]
          /\ b[Len(c) + 1] = "/"
          /\ \A x \in 1..Len(o) : b[Len(c) + 1 + x] = o[x]
      BY <1>1, JoinedBySlash
    <2> HIDE DEF b
    <2>3. /\ s \in Text /\ Len(s) = Len(a) + 1 + Len(b)
          /\ \A x \in 1..Len(a) : s[x] = a[x]
          /\ s[Len(a) + 1] = "/"
          /\ \A x \in 1..Len(b) : s[Len(a) + 1 + x] = b[x]
      BY <1>1, <2>2, JoinedBySlash DEF s
    <2>4. Len(s) = Len(a) + Len(c) + 2 + Len(o)
      BY <1>2, <2>2, <2>3
    <2>5. \A x \in 1..Len(c) : s[Len(a) + 1 + x] = c[x]
      <3>1. \A x \in 1..Len(c) : x \in 1..Len(b)
        BY <1>2, <2>2
      <3>2. QED
        BY <2>2, <2>3, <3>1
    <2>6. s[Len(a) + Len(c) + 2] = "/"
      <3>1. Len(c) + 1 \in 1..Len(b) /\ Len(a) + Len(c) + 2 = Len(a) + 1 + (Len(c) + 1)
        BY <1>2, <2>2
      <3>2. QED
        BY <2>2, <2>3, <3>1
    <2>7. \A x \in 1..Len(o) : s[Len(a) + Len(c) + 2 + x] = o[x]
      <3>1. \A x \in 1..Len(o) : /\ Len(c) + 1 + x \in 1..Len(b)
                                 /\ Len(a) + Len(c) + 2 + x = Len(a) + 1 + (Len(c) + 1 + x)
        BY <1>2, <2>2
      <3>2. QED
        BY <2>2, <2>3, <3>1
    <2>8. HoldsAt(s, 0, a) /\ HoldsAt(s, Len(a) + 1, c) /\ HoldsAt(s, Len(a) + Len(c) + 2, o)
      BY <1>2, <2>3, <2>4, <2>5, <2>7 DEF HoldsAt
    <2>9. QED
      BY <1>2, <1>5, <2>1, <2>3, <2>4, <2>6, <2>8 DEF a, c, o
  <1>6. QED
    BY <1>1, <1>3, <1>4, <1>5 DEF Types

(* At most one slash.                                                      *)
LEMMA AtMostOne ==
    ASSUME NEW s \in Text
    PROVE  /\ Slashes(s) = {} => Cardinality(Slashes(s)) <= 1
           /\ \A i : Slashes(s) = {i} => Cardinality(Slashes(s)) <= 1
           /\ \A i, j \in Slashes(s) : i # j => ~(Cardinality(Slashes(s)) <= 1)
  <1>1. Slashes(s) = {} => Cardinality(Slashes(s)) <= 1
    BY FS_EmptySet
  <1>2. \A i : Slashes(s) = {i} => Cardinality(Slashes(s)) <= 1
    <2>1. \A i : Cardinality({i}) = 1
      BY FS_Singleton
    <2>2. QED
      BY <2>1
  <1>3. ASSUME NEW i \in Slashes(s), NEW j \in Slashes(s), i # j
        PROVE  ~(Cardinality(Slashes(s)) <= 1)
    <2>1. IsFiniteSet(1..Len(s))
      BY TextDef, FS_Interval
    <2>2. IsFiniteSet(Slashes(s)) /\ Cardinality(Slashes(s)) \in Nat
      BY <2>1, SlashesAre, FS_Subset, FS_CardinalityType
    <2>3. IsFiniteSet({i}) /\ Cardinality({i}) = 1
      BY FS_Singleton
    <2>4. Cardinality({i} \cup {j}) = 2
      <3>1. Cardinality({i} \cup {j}) = IF j \in {i} THEN Cardinality({i}) ELSE Cardinality({i}) + 1
        BY <2>3, FS_AddElement
      <3>2. j \notin {i}
        BY <1>3
      <3>3. QED
        BY <2>3, <3>1, <3>2
    <2>5. Cardinality({i} \cup {j}) <= Cardinality(Slashes(s))
      BY <2>2, FS_Subset
    <2>6. QED
      BY <2>2, <2>4, <2>5
  <1>4. QED
    BY <1>1, <1>2, <1>3
-----------------------------------------------------------------------------
(* A slash that ends the path of an account or a container is cut, and one *)
(* that ends the name of an object is kept.                                *)
Slashed(s) == s \o <<"/">>

LEMMA SlashedText ==
    ASSUME NEW p \in Text
    PROVE  /\ Slashed(p) \in Text /\ Slashed(p) # Nothing
           /\ Len(Slashed(p)) = Len(p) + 1 /\ Slashed(p)[Len(p) + 1] = "/"
           /\ \A x \in 1..Len(p) : Slashed(p)[x] = p[x]
           /\ Before(Slashed(p), Len(p) + 1) = p
  <1> DEFINE u == <<"/">>  s == p \o u
  <1>1. u \in Text /\ Len(u) = 1 /\ u[1] = "/"
    BY SlashIsCharacter, OneCharacter
  <1> HIDE DEF u
  <1>2. /\ s \in Text /\ Len(s) = Len(p) + Len(u)
        /\ \A x \in 1..Len(p) : s[x] = p[x]
        /\ \A x \in 1..Len(u) : s[Len(p) + x] = u[x]
    BY <1>1, Joined
  <1> HIDE DEF s
  <1>3. Len(p) \in Nat /\ 1 \in 1..Len(u)
    BY <1>1, TextDef
  <1>4. Len(s) = Len(p) + 1 /\ s[Len(p) + 1] = "/"
    BY <1>1, <1>2, <1>3
  <1>5. s # Nothing
    BY <1>3, <1>4, NothingIsText
  <1>6. PICK i \in Slashes(s) : i = Len(p) + 1
    <2>1. Len(p) + 1 \in 1..Len(s)
      BY <1>3, <1>4
    <2>2. QED
      BY <1>2, <1>4, <2>1, SlashesAre
  <1>7. /\ Before(s, i) \in Text /\ Len(Before(s, i)) = i - 1
        /\ \A x \in 1..(i - 1) : Before(s, i)[x] = s[x]
    BY <1>2, SplitAtSlash
  <1>8. i - 1 = Len(p)
    BY <1>3, <1>6
  <1>9. Before(s, i) = p
    BY <1>2, <1>7, <1>8, TextEqual
  <1>10. QED
    BY <1>2, <1>4, <1>5, <1>6, <1>9 DEF Slashed, s, u

LEMMA EndsWithSlash ==
    ASSUME NEW s \in Text, s # Nothing, s[Len(s)] = "/"
    PROVE  /\ Before(s, Len(s)) \in Text /\ s = Slashed(Before(s, Len(s)))
           /\ Len(Before(s, Len(s))) = Len(s) - 1
           /\ \A k \in Slashes(s) : k < Len(s) => k \in Slashes(Before(s, Len(s)))
  <1>1. Len(s) \in Nat /\ Len(s) # 0
    BY TextDef
  <1>2. PICK i \in Slashes(s) : i = Len(s)
    <2>1. Len(s) \in 1..Len(s)
      BY <1>1
    <2>2. QED
      BY <2>1, SlashesAre
  <1> DEFINE p == Before(s, i)  q == Rest(s, i + 1)
  <1>3. /\ p \in Text /\ Len(p) = i - 1 /\ \A x \in 1..(i - 1) : p[x] = s[x]
        /\ q \in Text /\ Len(q) = Len(s) - i
        /\ s = p \o (<<"/">> \o q)
    BY SplitAtSlash
  <1> HIDE DEF p, q
  <1>4. q = <<>>
    <2>1. Len(q) = 0
      BY <1>1, <1>2, <1>3
    <2>2. QED
      BY <1>3, <2>1, TextDef DEF Nothing
  <1>5. <<"/">> \o q = <<"/">>
    BY <1>4, SlashIsCharacter, OneCharacter, ConcatEmptySeq DEF Text
  <1>6. \A k \in Slashes(s) : k < i => k \in Slashes(p)
    <2>1. ASSUME NEW k \in Slashes(s), k < i PROVE k \in Slashes(p)
      <3>1. k \in 1..Len(s) /\ s[k] = "/"
        BY SlashesAre
      <3>2. k \in 1..(i - 1)
        BY <1>1, <1>2, <2>1, <3>1
      <3>3. QED
        BY <1>3, <3>1, <3>2, SlashesAre
    <2>2. QED
      BY <2>1
  <1>7. QED
    BY <1>2, <1>3, <1>5, <1>6 DEF Slashed, p

LEMMA NormalizedIs ==
    ASSUME NEW s \in Text
    PROVE  LET n == normalizeListingPathSuffix(s)
               p == Before(s, Len(s))
           IN  \/ n = s /\ ~(s # Nothing /\ s[Len(s)] = "/" /\ p # Nothing /\ Cardinality(Slashes(p)) <= 1)
               \/ /\ s # Nothing /\ s[Len(s)] = "/" /\ p # Nothing /\ Cardinality(Slashes(p)) <= 1
                  /\ n = p
  BY DEF normalizeListingPathSuffix

LEMMA NormalizedType ==
    ASSUME NEW s \in Text
    PROVE  normalizeListingPathSuffix(s) \in Text
  BY NormalizedIs, EndsWithSlash

LEMMA PathIsNormal ==
    ASSUME NEW r, IsResource(r)
    PROVE  normalizeListingPathSuffix(Path(r)) = Path(r)
  <1> DEFINE s == Path(r)  p == Before(s, Len(s))
             La == Len(r.account)  Lc == Len(r.container)  Lo == Len(r.object)
  <1>1. /\ s \in Text /\ La \in Nat \ {0} /\ Lc \in Nat /\ Lo \in Nat
        /\ r.type = "account" => Slashes(s) = {}
        /\ r.type \in {"container", "object"} => s[La + 1] = "/" /\ Lc > 0
        /\ r.type = "container" => Len(s) = La + 1 + Lc /\ Slashes(s) = {La + 1}
        /\ r.type = "object" => /\ Len(s) = La + Lc + 2 + Lo /\ Lo > 0 /\ s[La + Lc + 2] = "/"
    BY PathHolds
  <1>2. r.type \in Types
    BY DEF IsResource
  <1> HIDE DEF s, La, Lc, Lo
  <1>3. SUFFICES ASSUME s # Nothing, s[Len(s)] = "/", Cardinality(Slashes(p)) <= 1
                 PROVE  FALSE
    BY <1>1, NormalizedIs DEF s
  <1>4. p \in Text /\ \A k \in Slashes(s) : k < Len(s) => k \in Slashes(p)
    BY <1>1, <1>3, EndsWithSlash
  <1>5. Len(s) \in Nat /\ Len(s) # 0
    BY <1>1, <1>3, TextDef
  <1>6. Len(s) \in Slashes(s)
    <2>1. Len(s) \in 1..Len(s)
      BY <1>5
    <2>2. QED
      BY <1>1, <1>3, <2>1, SlashesAre
  <1>7. CASE r.type = "account"
    BY <1>1, <1>6, <1>7
  <1>8. CASE r.type = "container"
    BY <1>1, <1>5, <1>6, <1>8
  <1>9. CASE r.type = "object"
    <2>1. /\ La + 1 \in 1..Len(s) /\ La + Lc + 2 \in 1..Len(s)
          /\ La + 1 < Len(s) /\ La + Lc + 2 < Len(s) /\ La + 1 # La + Lc + 2
      BY <1>1, <1>9
    <2>2. La + 1 \in Slashes(s) /\ La + Lc + 2 \in Slashes(s)
      BY <1>1, <1>9, <2>1, SlashesAre
    <2>3. La + 1 \in Slashes(p) /\ La + Lc + 2 \in Slashes(p)
      BY <1>4, <2>1, <2>2
    <2>4. QED
      BY <1>3, <1>4, <2>1, <2>3, AtMostOne
  <1>10. QED
    BY <1>2, <1>7, <1>8, <1>9 DEF Types

LEMMA SlashedIsCut ==
    ASSUME NEW r, IsResource(r), r.object = Nothing
    PROVE  normalizeListingPathSuffix(Slashed(Path(r))) = Path(r)
  <1> DEFINE p == Path(r)  s == Slashed(p)
  <1>1. p \in Text /\ p # Nothing
    BY PartsOfPath
  <1>2. Cardinality(Slashes(p)) <= 1
    <2>1. r.type \in {"account", "container"}
      BY DEF IsResource, Types
    <2>2. Slashes(p) = {} \/ Slashes(p) = {Len(r.account) + 1}
      BY <2>1, PathHolds
    <2> HIDE DEF p
    <2>3. QED
      BY <1>1, <2>2, AtMostOne
  <1> HIDE DEF p
  <1>3. s \in Text /\ s # Nothing /\ s[Len(s)] = "/" /\ Before(s, Len(s)) = p
    BY <1>1, SlashedText
  <1> HIDE DEF s
  <1>4. QED
    BY <1>1, <1>2, <1>3, NormalizedIs DEF s, p
-----------------------------------------------------------------------------
(* The pieces of a path are what the names of a resource can be.           *)
LEMMA PiecesAreTexts ==
    ASSUME NEW s \in Text
    PROVE  Nothing \in Pieces(s) /\ Pieces(s) \subseteq Text
  <1>1. \A i, j \in DOMAIN s : SubSeq(s, i, j) \in Text
    <2>1. ASSUME NEW i \in DOMAIN s, NEW j \in DOMAIN s PROVE SubSeq(s, i, j) \in Text
      <3>1. i \in 1..(Len(s) + 1) /\ j \in 0..Len(s)
        BY TextDef
      <3>2. QED
        BY <3>1, PieceOf
    <2>2. QED
      BY <2>1
  <1>2. ASSUME NEW t \in Pieces(s) PROVE t \in Text
    <2>1. t = Nothing \/ \E i, j \in DOMAIN s : t = SubSeq(s, i, j)
      BY ONLY t \in Pieces(s) DEF Pieces
    <2>2. QED
      BY <1>1, <2>1, NothingIsText
  <1>3. QED
    BY <1>2 DEF Pieces

LEMMA PieceAt ==
    ASSUME NEW s \in Text, NEW t \in Text, NEW k \in Nat, HoldsAt(s, k, t)
    PROVE  t \in Pieces(s)
  <1>1. Len(s) \in Nat /\ Len(t) \in Nat /\ DOMAIN s = 1..Len(s)
    BY TextDef
  <1>2. k + Len(t) <= Len(s) /\ \A x \in 1..Len(t) : s[k + x] = t[x]
    BY DEF HoldsAt
  <1>3. SUFFICES ASSUME t # Nothing PROVE t \in Pieces(s)
    BY PiecesAreTexts
  <1>4. Len(t) # 0
    BY <1>3, TextDef
  <1> DEFINE i == k + 1  j == k + Len(t)  u == SubSeq(s, i, j)
  <1>5. /\ i \in DOMAIN s /\ j \in DOMAIN s
        /\ i \in 1..(Len(s) + 1) /\ j \in 0..Len(s) /\ i <= j /\ j - i + 1 = Len(t)
        /\ \A x \in 1..Len(t) : i + x - 1 = k + x
    BY <1>1, <1>2, <1>4
  <1> HIDE DEF i, j
  <1>6. u \in Text /\ Len(u) = (IF i <= j THEN j - i + 1 ELSE 0) /\ \A x \in 1..Len(u) : u[x] = s[i + x - 1]
    BY <1>5, PieceOf
  <1>7. Len(u) = Len(t) /\ \A x \in 1..Len(u) : u[x] = t[x]
    BY <1>2, <1>5, <1>6
  <1>8. u = t
    BY <1>6, <1>7, TextEqual
  <1>9. QED
    BY <1>5, <1>8 DEF Pieces

LEMMA ResourcePieces ==
    ASSUME NEW r, IsResource(r), NEW s, s \in {Path(r), Slashed(Path(r))}
    PROVE  r.account \in Pieces(s) /\ r.container \in Pieces(s) /\ r.object \in Pieces(s)
  <1> DEFINE p == Path(r)  La == Len(r.account)  Lc == Len(r.container)
  <1>1. /\ p \in Text /\ La \in Nat /\ Lc \in Nat
        /\ HoldsAt(p, 0, r.account)
        /\ r.type \in {"container", "object"} => HoldsAt(p, La + 1, r.container)
        /\ r.type = "object" => HoldsAt(p, La + Lc + 2, r.object)
    BY PathHolds
  <1>2. /\ r.account \in Text /\ r.container \in Text /\ r.object \in Text
        /\ r.type \in Types
        /\ r.type = "account" => r.container = Nothing
        /\ r.type # "object" => r.object = Nothing
    BY DEF IsResource
  <1>3. s \in {p, Slashed(p)}
    OBVIOUS
  <1> HIDE DEF p, La, Lc
  <1>4. s \in Text /\ Len(s) \in Nat /\ Len(p) \in Nat /\ Len(p) <= Len(s) /\ \A x \in 1..Len(p) : s[x] = p[x]
    <2>1. Len(p) \in Nat
      BY <1>1, TextDef
    <2>2. /\ Slashed(p) \in Text /\ Len(Slashed(p)) = Len(p) + 1
          /\ \A x \in 1..Len(p) : Slashed(p)[x] = p[x]
      BY <1>1, SlashedText
    <2>3. QED
      BY <1>1, <1>3, <2>1, <2>2
  <1>5. ASSUME NEW k \in Nat, NEW t \in Text, HoldsAt(p, k, t)
        PROVE  t \in Pieces(s)
    <2>1. Len(t) \in Nat /\ k + Len(t) <= Len(p) /\ \A x \in 1..Len(t) : p[k + x] = t[x]
      BY <1>5, TextDef DEF HoldsAt
    <2>2. \A x \in 1..Len(t) : k + x \in 1..Len(p)
      BY <1>4, <2>1
    <2>3. HoldsAt(s, k, t)
      BY <1>4, <2>1, <2>2 DEF HoldsAt
    <2>4. QED
      BY <1>4, <2>3, PieceAt
  <1>6. 0 \in Nat /\ La + 1 \in Nat /\ La + Lc + 2 \in Nat /\ Nothing \in Pieces(s)
    BY <1>1, <1>4, PiecesAreTexts
  <1>7. r.account \in Pieces(s)
    BY <1>1, <1>2, <1>5, <1>6
  <1>8. r.container \in Pieces(s)
    BY <1>1, <1>2, <1>5, <1>6 DEF Types
  <1>9. r.object \in Pieces(s)
    BY <1>1, <1>2, <1>5, <1>6 DEF Types
  <1>10. QED
    BY <1>7, <1>8, <1>9
-----------------------------------------------------------------------------
(* What follows the API prefix that follows the public prefix.             *)
LEMMA WrittenTexts ==
    /\ PublicPrefixes \cup Texts \cup Objects \subseteq Text
    /\ Nothing \notin Objects
  <1>1. Characters \subseteq Character
    BY DEF Character
  <1>2. \A s \in Seq(Characters) : s \in Text
    BY <1>1, SeqMonotonic DEF Text
  <1>3. QED
    BY <1>2, TextsAssumption DEF Nothing

LEMMA ApiText == Api \in Text /\ Len(Api) = 3
  BY SlashIsCharacter DEF Api, Text

LEMMA SuffixIs ==
    ASSUME NEW p \in PublicPrefixes, NEW s \in Texts
    PROVE  Suffix(p \o Api \o s) = s /\ p \o Api \o s \in Text
  <1> DEFINE q == p \o Api  path == q \o s
             at == {i \in 1..(Len(path) - 2) : SubSeq(path, i, i + 2) = Api}
             Lp == Len(p)
  <1>1. p \in Text /\ s \in Text /\ Lp \in Nat /\ Len(s) \in Nat
    BY WrittenTexts, TextDef
  <1>2. /\ q \in Text /\ Len(q) = Lp + 3
        /\ \A x \in 1..3 : q[Lp + x] = Api[x]
    <2>1. /\ q \in Text /\ Len(q) = Lp + Len(Api)
          /\ \A x \in 1..Len(Api) : q[Lp + x] = Api[x]
      BY <1>1, ApiText, Joined
    <2> HIDE DEF q, Lp
    <2>2. QED
      BY <2>1, ApiText
  <1>3. \A i \in 1..Lp : SubSeq(q, i, i + 2) # Api
    BY PrefixAssumption
  <1> HIDE DEF q
  <1>4. /\ path \in Text /\ Len(path) = Len(q) + Len(s)
        /\ \A x \in 1..Len(q) : path[x] = q[x]
        /\ \A x \in 1..Len(s) : path[Len(q) + x] = s[x]
    BY <1>1, <1>2, Joined
  <1> HIDE DEF path, Lp
  <1>5. ASSUME NEW i \in 1..(Lp + 1)
        PROVE  /\ i \in 1..(Len(path) - 2)
               /\ SubSeq(path, i, i + 2) = SubSeq(q, i, i + 2)
               /\ SubSeq(q, i, i + 2) \in Text /\ Len(SubSeq(q, i, i + 2)) = 3
               /\ \A x \in 1..3 : SubSeq(q, i, i + 2)[x] = q[i + x - 1]
    <2> DEFINE u == SubSeq(path, i, i + 2)  v == SubSeq(q, i, i + 2)
    <2>1. /\ i \in 1..(Len(path) + 1) /\ i + 2 \in 0..Len(path) /\ i \in 1..(Len(path) - 2)
          /\ i \in 1..(Len(q) + 1) /\ i + 2 \in 0..Len(q)
          /\ i <= i + 2 /\ (i + 2) - i + 1 = 3
          /\ \A x \in 1..3 : i + x - 1 \in 1..Len(q)
      BY <1>1, <1>2, <1>4
    <2>2. u \in Text /\ Len(u) = 3 /\ \A x \in 1..Len(u) : u[x] = path[i + x - 1]
      BY <1>4, <2>1, PieceOf
    <2>3. v \in Text /\ Len(v) = 3 /\ \A x \in 1..Len(v) : v[x] = q[i + x - 1]
      BY <1>2, <2>1, PieceOf
    <2> HIDE DEF u, v
    <2>4. Len(u) = Len(v) /\ \A x \in 1..Len(u) : u[x] = v[x]
      BY <1>4, <2>1, <2>2, <2>3
    <2>5. u = v
      BY <2>2, <2>3, <2>4, TextEqual
    <2>6. QED
      BY <2>1, <2>3, <2>5 DEF u, v
  <1>6. Lp + 1 \in at
    <2>1. Lp + 1 \in 1..(Lp + 1)
      BY <1>1
    <2> DEFINE v == SubSeq(q, Lp + 1, Lp + 1 + 2)
    <2>2. v \in Text /\ Len(v) = 3 /\ \A x \in 1..3 : v[x] = q[Lp + 1 + x - 1]
      BY <1>5, <2>1
    <2> HIDE DEF v
    <2>3. \A x \in 1..3 : Lp + 1 + x - 1 = Lp + x
      BY <1>1
    <2>4. \A x \in 1..Len(v) : v[x] = Api[x]
      BY <1>2, <2>2, <2>3
    <2>5. v = Api
      BY <2>2, <2>4, ApiText, TextEqual
    <2>6. QED
      BY <1>5, <2>1, <2>5 DEF v
  <1>7. \A i \in at : Lp + 1 <= i
    <2>1. ASSUME NEW i \in at, i < Lp + 1 PROVE FALSE
      <3>1. i \in 1..Lp /\ i \in 1..(Lp + 1)
        BY <1>1, <1>4, <2>1
      <3>2. SubSeq(path, i, i + 2) = Api
        OBVIOUS
      <3>3. QED
        BY <1>3, <1>5, <3>1, <3>2
    <2>2. \A i \in at : i \in Int
      OBVIOUS
    <2>3. QED
      BY <1>1, <2>1, <2>2
  <1>8. First(at) = Lp + 1 /\ at # {}
    <2>1. at \in SUBSET Nat
      OBVIOUS
    <2> HIDE DEF at
    <2>2. QED
      BY <1>6, <1>7, <2>1, FirstIs
  <1>9. Rest(path, Lp + 1 + 3) = s
    <2> DEFINE i == Lp + 4  v == SubSeq(path, i, Len(path))
    <2>1. /\ i \in 1..(Len(path) + 1) /\ Len(path) \in 0..Len(path) /\ i = Lp + 1 + 3
          /\ (IF i <= Len(path) THEN Len(path) - i + 1 ELSE 0) = Len(s)
          /\ \A x \in 1..Len(s) : i + x - 1 = Len(q) + x
      BY <1>1, <1>2, <1>4
    <2> HIDE DEF i
    <2>2. /\ v \in Text /\ Len(v) = (IF i <= Len(path) THEN Len(path) - i + 1 ELSE 0)
          /\ \A x \in 1..Len(v) : v[x] = path[i + x - 1]
      BY <1>4, <2>1, PieceOf
    <2> HIDE DEF v
    <2>3. Len(v) = Len(s) /\ \A x \in 1..Len(v) : v[x] = s[x]
      <3>1. Len(v) = Len(s)
        BY <2>1, <2>2
      <3>2. ASSUME NEW x \in 1..Len(s) PROVE v[x] = s[x]
        <4>1. v[x] = path[i + x - 1]
          BY <2>2, <3>1
        <4>2. i + x - 1 = Len(q) + x
          BY <2>1
        <4>3. path[Len(q) + x] = s[x]
          BY <1>4
        <4>4. QED
          BY <4>1, <4>2, <4>3
      <3>3. QED
        BY <3>1, <3>2
    <2>4. v = s
      BY <1>1, <2>2, <2>3, TextEqual
    <2>5. QED
      BY <2>1, <2>4 DEF v, Rest
  <1>10. Suffix(path) = Rest(path, First(at) + 3)
    BY <1>8 DEF Suffix
  <1>11. QED
    BY <1>4, <1>8, <1>9, <1>10 DEF path, q
-----------------------------------------------------------------------------
(* What is found in a path is what the path means. *)
LEMMA TwoSlashes ==
    ASSUME NEW r, IsResource(r), r.object # Nothing
    PROVE  ~(Cardinality(Slashes(Path(r))) <= 1)
  <1> DEFINE s == Path(r)  La == Len(r.account)  Lc == Len(r.container)  Lo == Len(r.object)
  <1>1. /\ s \in Text /\ La \in Nat \ {0} /\ Lc \in Nat /\ Lo \in Nat
        /\ s[La + 1] = "/" /\ s[La + Lc + 2] = "/" /\ Lc > 0
        /\ Len(s) = La + Lc + 2 + Lo
    <2>1. r.type = "object"
      BY DEF IsResource
    <2>2. QED
      BY <2>1, PathHolds
  <1> HIDE DEF s, La, Lc, Lo
  <1>2. La + 1 \in 1..Len(s) /\ La + Lc + 2 \in 1..Len(s) /\ La + 1 # La + Lc + 2
    BY <1>1
  <1>3. La + 1 \in Slashes(s) /\ La + Lc + 2 \in Slashes(s)
    BY <1>1, <1>2, SlashesAre
  <1>4. ~(Cardinality(Slashes(s)) <= 1)
    BY <1>1, <1>2, <1>3, AtMostOne
  <1>5. QED
    BY <1>4 DEF s

NamesOf(r) == [account |-> r.account, container |-> r.container, object |-> r.object]

LEMMA FoundIsMeant ==
    ASSUME NEW s \in Text,
           Named(Parts(normalizeListingPathSuffix(s))) # Invalid
    PROVE  NamesOf(Named(Parts(normalizeListingPathSuffix(s)))) \in Meant(s)
  <1> DEFINE n == normalizeListingPathSuffix(s)  found == Named(Parts(n))  p == Before(s, Len(s))
             r == NamesOf(found)
  <1>1. n \in Text
    BY NormalizedType
  <1>2. IsResource(found) /\ Path(found) = n
    <2> HIDE DEF n
    <2>1. Named(Parts(n)) # Invalid
      BY DEF n
    <2>2. QED
      BY <1>1, <2>1, PathOfParse
  <1>3. \/ s = n
        \/ s = Slashed(n) /\ Cardinality(Slashes(n)) <= 1
    BY NormalizedIs, EndsWithSlash
  <1> HIDE DEF n, found
  <1>4. s = Path(found) \/ (found.object = Nothing /\ s = Slashed(Path(found)))
    BY <1>2, <1>3, TwoSlashes
  <1>5. /\ found.account \in Pieces(s) /\ found.container \in Pieces(s) /\ found.object \in Pieces(s)
    BY <1>2, <1>4, ResourcePieces
  <1>6. /\ found.account # Nothing /\ Slashes(found.account) = {} /\ Slashes(found.container) = {}
        /\ found.container = Nothing => found.object = Nothing
    BY <1>2 DEF IsResource
  <1>7. r.account = found.account /\ r.container = found.container /\ r.object = found.object
        /\ r \in [account : Pieces(s) \ {Nothing}, container : Pieces(s), object : Pieces(s)]
    BY <1>5, <1>6 DEF NamesOf
  <1>8. Path(r) = Path(found)
    BY <1>7 DEF Path
  <1> HIDE DEF r
  <1>9. r \in Meant(s)
    BY <1>4, <1>6, <1>7, <1>8 DEF Meant, Slashed
  <1>10. QED
    BY <1>9 DEF r, found, n

LEMMA MeantIsFound ==
    ASSUME NEW s \in Text, NEW r \in Meant(s)
    PROVE  /\ Named(Parts(normalizeListingPathSuffix(s))) # Invalid
           /\ r = NamesOf(Named(Parts(normalizeListingPathSuffix(s))))
  <1> DEFINE type == IF r.container = Nothing THEN "account"
                     ELSE IF r.object = Nothing THEN "container" ELSE "object"
             R == [type |-> type, account |-> r.account, container |-> r.container, object |-> r.object]
             n == normalizeListingPathSuffix(s)  found == Named(Parts(n))
  <1>1. /\ r \in [account : Pieces(s) \ {Nothing}, container : Pieces(s), object : Pieces(s)]
        /\ Slashes(r.account) = {} /\ Slashes(r.container) = {}
        /\ r.container = Nothing => r.object = Nothing
        /\ s = Path(r) \/ (r.object = Nothing /\ s = Slashed(Path(r)))
    BY DEF Meant, Slashed
  <1>2. /\ R.type = type /\ R.account = r.account /\ R.container = r.container /\ R.object = r.object
        /\ r.account \in Text /\ r.container \in Text /\ r.object \in Text
        /\ r.account # Nothing /\ type \in Types
        /\ R \in [type : Types, account : Text, container : Text, object : Text]
        /\ r = NamesOf(R)
    BY <1>1, PiecesAreTexts DEF Types, NamesOf
  <1>3. (r.container = Nothing) = (type = "account") /\ (r.object # Nothing) = (type = "object")
    BY <1>1
  <1> HIDE DEF R, type
  <1>4. IsResource(R)
    BY <1>1, <1>2, <1>3 DEF IsResource
  <1>5. Path(R) = Path(r)
    BY <1>2 DEF Path
  <1>6. n = Path(R)
    <2>1. CASE s = Path(r)
      BY <1>4, <1>5, <2>1, PathIsNormal
    <2>2. CASE r.object = Nothing /\ s = Slashed(Path(r))
      BY <1>2, <1>4, <1>5, <2>2, SlashedIsCut
    <2>3. QED
      BY <1>1, <2>1, <2>2
  <1>7. found = R
    BY <1>4, <1>6, ParseOfPath
  <1>8. R # Invalid
    BY <1>2 DEF Invalid, Types
  <1>9. QED
    BY <1>2, <1>7, <1>8

(* Whatever the characters, the prefixes and the texts are.                *)
THEOREM PathsAreTakenApart == Spec => []PathsAreParsed
  <1>1. PathsAreParsed
    <2>1. SUFFICES ASSUME NEW p \in PublicPrefixes, NEW s \in Texts, last = p \o Api \o s
                   PROVE  LET found == ParseSwiftPath(last)
                          IN  IF found = Invalid THEN Meant(s) = {}
                              ELSE Meant(s) = {[account |-> found.account, container |-> found.container,
                                                object |-> found.object]}
      BY DEF PathsAreParsed
    <2> DEFINE found == Named(Parts(normalizeListingPathSuffix(s)))
    <2>2. ParseSwiftPath(last) = found
      BY <2>1, SuffixIs DEF ParseSwiftPath, Normalized
    <2>3. s \in Text
      BY WrittenTexts
    <2>4. found # Invalid => NamesOf(found) \in Meant(s)
      BY <2>3, FoundIsMeant
    <2>5. \A r \in Meant(s) : found # Invalid /\ r = NamesOf(found)
      BY <2>3, MeantIsFound
    <2> HIDE DEF found
    <2>6. QED
      BY <2>2, <2>4, <2>5 DEF NamesOf
  <1>2. QED
    BY <1>1, PTL
-----------------------------------------------------------------------------
(* The address of a backend request: what is escaped is read again.        *)
Escapes == {"%20", "%23", "%25", "%3F"}
Written == Character \cup Escapes
Without(s, C) == Chars(s) \cap C = {}

LEMMA WithoutIs ==
    ASSUME NEW s \in Text, NEW C
    PROVE  Without(s, C) <=> \A i \in 1..Len(s) : s[i] \notin C
  <1>1. DOMAIN s = 1..Len(s)
    BY TextDef
  <1>2. QED
    BY <1>1 DEF Without, Chars

LEMMA EscapeTypes ==
    /\ Character \cap Escapes = {}
    /\ \A c \in Character : escape(c) \in Written
    /\ \A c \in Character : c # "+" => unescape(escape(c)) = c /\ escape(c) \notin Unsafe
    /\ \A c \in Character : unescape(c) = c
    /\ escape("/") = "/"
  <1>1. Character \cap Escapes = {}
    BY TextsAssumption DEF Character, Escapes
  <1>2. \A c : escape(c) \in {c, "%20", "%23", "%25", "%3F"}
    BY DEF escape
  <1>3. \A c \in Character : escape(c) \in Written
    BY <1>2 DEF Written, Escapes
  <1>4. ASSUME NEW c \in Character, c # "+"
        PROVE  unescape(escape(c)) = c /\ escape(c) \notin Unsafe
    <2>1. c \notin {"%20", "%23", "%25", "%3F"}
      BY <1>1 DEF Escapes
    <2>2. /\ escape(" ") = "%20" /\ escape("#") = "%23"
          /\ escape("%") = "%25" /\ escape("?") = "%3F"
      BY DEF escape
    <2>3. /\ unescape("%20") = " " /\ unescape("%23") = "#"
          /\ unescape("%25") = "%" /\ unescape("%3F") = "?"
      BY DEF unescape
    <2>4. {"%20", "%23", "%25", "%3F"} \cap Unsafe = {}
      BY DEF Unsafe
    <2>5. CASE c \in {" ", "#", "%", "?"}
      BY <2>2, <2>3, <2>4, <2>5
    <2>6. CASE c \notin {" ", "#", "%", "?"}
      <3>1. escape(c) = c
        BY <1>4, <2>6 DEF escape
      <3>2. unescape(c) = c
        BY <2>1 DEF unescape
      <3>3. QED
        BY <2>6, <3>1, <3>2 DEF Unsafe
    <2>7. QED
      BY <2>5, <2>6
  <1>5. \A c \in Character : unescape(c) = c
    BY <1>1 DEF unescape, Escapes
  <1>6. escape("/") = "/"
    BY DEF escape
  <1>7. QED
    BY <1>1, <1>3, <1>4, <1>5, <1>6

LEMMA EscapedIs ==
    ASSUME NEW s \in Text
    PROVE  /\ Escaped(s) \in Seq(Written) /\ Len(Escaped(s)) = Len(s)
           /\ DOMAIN Escaped(s) = 1..Len(s)
           /\ \A i \in 1..Len(s) : Escaped(s)[i] = escape(s[i])
  <1>1. Len(s) \in Nat /\ DOMAIN s = 1..Len(s) /\ \A i \in 1..Len(s) : s[i] \in Character
    BY TextDef
  <1> DEFINE u == Escaped(s)
  <1>2. u = [i \in 1..Len(s) |-> escape(s[i])]
    BY <1>1 DEF Escaped
  <1>3. \A i \in 1..Len(s) : u[i] = escape(s[i]) /\ u[i] \in Written
    BY <1>1, <1>2, EscapeTypes
  <1>4. u \in [1..Len(s) -> Written] /\ DOMAIN u = 1..Len(s)
    BY <1>2, <1>3
  <1> HIDE DEF u
  <1>5. u \in Seq(Written)
    BY <1>1, <1>4, SeqDef
  <1>6. Len(u) \in Nat /\ DOMAIN u = 1..Len(u)
    BY <1>5, LenProperties
  <1>7. 1..Len(u) = 1..Len(s)
    BY <1>4, <1>6
  <1>8. Len(u) = Len(s)
    <2>1. \A x \in Nat : x \in 1..Len(u) <=> x \in 1..Len(s)
      BY <1>7
    <2>2. Len(u) + 1 \in Nat /\ Len(s) + 1 \in Nat
      BY <1>1, <1>6
    <2>3. ~(Len(u) < Len(s)) /\ ~(Len(s) < Len(u))
      BY <1>1, <1>6, <2>1, <2>2
    <2>4. Len(u) \in Nat /\ Len(s) \in Nat
      BY <1>1, <1>6
    <2>5. QED
      BY ONLY <2>3, <2>4
  <1>9. QED
    BY <1>3, <1>4, <1>5, <1>8 DEF u

LEMMA EscapedJoined ==
    ASSUME NEW s \in Text, NEW t \in Text
    PROVE  Escaped(s \o t) = Escaped(s) \o Escaped(t)
  <1> DEFINE w == s \o t  a == Escaped(s)  b == Escaped(t)  u == Escaped(w)  v == a \o b
  <1>1. /\ w \in Text /\ Len(w) = Len(s) + Len(t)
        /\ \A i \in 1..Len(s) : w[i] = s[i]
        /\ \A i \in 1..Len(t) : w[Len(s) + i] = t[i]
    BY Joined
  <1>2. Len(s) \in Nat /\ Len(t) \in Nat
    BY TextDef
  <1>3. /\ a \in Seq(Written) /\ Len(a) = Len(s) /\ \A i \in 1..Len(s) : a[i] = escape(s[i])
        /\ b \in Seq(Written) /\ Len(b) = Len(t) /\ \A i \in 1..Len(t) : b[i] = escape(t[i])
    BY EscapedIs
  <1> HIDE DEF w, a, b
  <1>4. u \in Seq(Written) /\ Len(u) = Len(w) /\ \A i \in 1..Len(w) : u[i] = escape(w[i])
    BY <1>1, EscapedIs
  <1> HIDE DEF u
  <1>5. /\ v \in Seq(Written) /\ Len(v) = Len(a) + Len(b)
        /\ \A i \in 1..(Len(a) + Len(b)) : v[i] = IF i <= Len(a) THEN a[i] ELSE b[i - Len(a)]
    <2>1. a \in Seq(Written) /\ b \in Seq(Written)
      BY <1>3
    <2>2. QED
      BY ONLY <2>1, ConcatProperties
  <1> HIDE DEF v
  <1>6. ASSUME NEW i \in 1..Len(u) PROVE u[i] = v[i]
    <2>1. CASE i <= Len(s)
      <3>1. i \in 1..Len(s) /\ i \in 1..Len(w) /\ i \in 1..(Len(a) + Len(b)) /\ i <= Len(a)
        BY <1>1, <1>2, <1>3, <1>4, <2>1
      <3>2. QED
        BY <1>1, <1>3, <1>4, <1>5, <3>1
    <2>2. CASE ~(i <= Len(s))
      <3> DEFINE k == i - Len(s)
      <3>1. /\ k \in 1..Len(t) /\ i = Len(s) + k /\ i \in 1..Len(w) /\ i \in 1..(Len(a) + Len(b))
            /\ ~(i <= Len(a)) /\ i - Len(a) = k
        BY <1>1, <1>2, <1>3, <1>4, <2>2
      <3> HIDE DEF k
      <3>2. u[i] = escape(w[i]) /\ w[i] = t[k]
        BY <1>1, <1>4, <3>1
      <3>3. v[i] = b[k] /\ b[k] = escape(t[k])
        BY <1>3, <1>5, <3>1
      <3>4. QED
        BY <3>2, <3>3
    <2>3. QED
      BY <2>1, <2>2
  <1>7. Len(u) = Len(v)
    BY <1>1, <1>3, <1>4, <1>5
  <1>8. u = v
    BY <1>4, <1>5, <1>6, <1>7, SeqEqual
  <1>9. QED
    BY <1>8 DEF u, v, w, a, b

LEMMA EscapedSlash == Escaped(<<"/">>) = <<"/">> /\ Escaped(Nothing) = Nothing
  <1>1. Escaped(<<"/">>) = <<"/">>
    <2> DEFINE u == <<"/">>
    <2>1. u \in Text /\ Len(u) = 1 /\ u[1] = "/"
      BY SlashIsCharacter, OneCharacter
    <2>2. u \in Seq(Written)
      BY SlashIsCharacter DEF Written
    <2> HIDE DEF u
    <2>3. Escaped(u) \in Seq(Written) /\ Len(Escaped(u)) = 1 /\ Escaped(u)[1] = "/"
      BY <2>1, EscapedIs, EscapeTypes
    <2>4. \A i \in 1..Len(Escaped(u)) : Escaped(u)[i] = u[i]
      BY <2>1, <2>3
    <2>5. Escaped(u) = u
      BY <2>1, <2>2, <2>3, <2>4, SeqEqual
    <2>6. QED
      BY <2>5 DEF u
  <1>2. Escaped(Nothing) = Nothing
    <2>1. Escaped(Nothing) \in Seq(Written) /\ Len(Escaped(Nothing)) = 0
      BY NothingIsText, EscapedIs
    <2>2. QED
      BY <2>1, EmptySeq DEF Nothing
  <1>3. QED
    BY <1>1, <1>2

LEMMA AddressReads ==
    ASSUME NEW w \in Text, NEW u \in Seq(Written), Len(u) = Len(w),
           \A i \in 1..Len(w) : u[i] \notin Unsafe /\ unescape(u[i]) = w[i]
    PROVE  Address(u) = w
  <1>1. Len(w) \in Nat /\ DOMAIN u = 1..Len(w) /\ DOMAIN w = 1..Len(w) /\ w \in [1..Len(w) -> Character]
    BY TextDef, LenProperties DEF Text
  <1>2. {i \in DOMAIN u : u[i] \in {"?", "#"}} = {} /\ \A i \in DOMAIN u : u[i] # "%"
    BY <1>1 DEF Unsafe
  <1>3. Address(u) = [i \in DOMAIN u |-> unescape(u[i])]
    BY <1>2 DEF Address
  <1>4. [i \in DOMAIN u |-> unescape(u[i])] = [i \in 1..Len(w) |-> w[i]]
    BY <1>1
  <1>5. w = [i \in 1..Len(w) |-> w[i]]
    BY <1>1
  <1>6. QED
    BY <1>3, <1>4, <1>5

LEMMA AddressOfEscaped ==
    ASSUME NEW w \in Text, Without(w, {"+"})
    PROVE  Address(Escaped(w)) = w
  <1>1. \A i \in 1..Len(w) : w[i] \in Character /\ w[i] # "+"
    BY WithoutIs, TextDef
  <1>2. /\ Escaped(w) \in Seq(Written) /\ Len(Escaped(w)) = Len(w)
        /\ \A i \in 1..Len(w) : Escaped(w)[i] = escape(w[i])
    BY EscapedIs
  <1>3. \A i \in 1..Len(w) : Escaped(w)[i] \notin Unsafe /\ unescape(Escaped(w)[i]) = w[i]
    BY <1>1, <1>2, EscapeTypes
  <1>4. QED
    BY <1>2, <1>3, AddressReads

LEMMA AddressOfText ==
    ASSUME NEW w \in Text, Without(w, Unsafe)
    PROVE  Address(w) = w
  <1>1. \A i \in 1..Len(w) : w[i] \in Character /\ w[i] \notin Unsafe
    BY WithoutIs, TextDef
  <1>2. w \in Seq(Written)
    BY SeqMonotonic DEF Text, Written
  <1>3. \A i \in 1..Len(w) : w[i] \notin Unsafe /\ unescape(w[i]) = w[i]
    BY <1>1, EscapeTypes
  <1>4. QED
    BY <1>2, <1>3, AddressReads

LEMMA AfterSlash ==
    ASSUME NEW s \in Text
    PROVE  /\ <<"/">> \o s \in Text
           /\ \A C : Without(s, C) /\ "/" \notin C => Without(<<"/">> \o s, C)
  <1> DEFINE u == <<"/">>  w == u \o s
  <1>1. u \in Text /\ Len(u) = 1 /\ u[1] = "/"
    BY SlashIsCharacter, OneCharacter
  <1> HIDE DEF u
  <1>2. /\ w \in Text /\ Len(w) = Len(u) + Len(s)
        /\ \A i \in 1..Len(u) : w[i] = u[i]
        /\ \A i \in 1..Len(s) : w[Len(u) + i] = s[i]
    BY <1>1, Joined
  <1> HIDE DEF w
  <1>3. ASSUME NEW C, Without(s, C), "/" \notin C, NEW i \in 1..Len(w) PROVE w[i] \notin C
    <2>1. CASE i = 1
      <3>1. w[1] = "/"
        BY <1>1, <1>2
      <3>2. QED
        BY <1>3, <2>1, <3>1
    <2>2. CASE i # 1
      <3>1. i - 1 \in 1..Len(s) /\ Len(u) + (i - 1) = i
        BY <1>1, <1>2, <2>2, TextDef
      <3>2. w[i] = s[i - 1]
        BY <1>2, <3>1
      <3>3. QED
        BY <1>3, <3>1, <3>2, WithoutIs
    <2>3. QED
      BY <2>1, <2>2
  <1>4. \A C : Without(s, C) /\ "/" \notin C => Without(w, C)
    BY <1>2, <1>3, WithoutIs
  <1>5. QED
    BY <1>2, <1>4 DEF w, u

LEMMA AddressOfJob ==
    ASSUME NEW job, IsResource(job), Without(Path(job), {"+"})
    PROVE  Address(BuildPath(job)) = <<"/">> \o Path(job)
  <1> DEFINE a == job.account
             b == IF job.container = Nothing THEN Nothing ELSE <<"/">> \o job.container
             c == IF job.object = Nothing THEN Nothing ELSE <<"/">> \o job.object
             u == <<"/">>  w == u \o Path(job)
  <1>1. a \in Text /\ b \in Text /\ c \in Text /\ u \in Text
    <2>1. a \in Text /\ job.container \in Text /\ job.object \in Text
      BY DEF IsResource
    <2>2. QED
      BY <2>1, AfterSlash, NothingIsText, SlashIsCharacter, OneCharacter
  <1>2. Path(job) = a \o b \o c
    BY DEF Path
  <1>3. /\ Escaped(b) = IF job.container = Nothing THEN Nothing ELSE u \o Escaped(job.container)
        /\ Escaped(c) = IF job.object = Nothing THEN Nothing ELSE u \o Escaped(job.object)
    <2>1. job.container \in Text /\ job.object \in Text
      BY DEF IsResource
    <2>2. QED
      BY <1>1, <2>1, EscapedJoined, EscapedSlash
  <1>4. BuildPath(job) = u \o Escaped(a) \o Escaped(b) \o Escaped(c)
    BY <1>3 DEF BuildPath
  <1>5. Escaped(u) = u
    BY EscapedSlash
  <1> HIDE DEF a, b, c, u
  <1>6. a \o b \in Text /\ a \o b \o c \in Text
    BY <1>1, Joined
  <1>7. Escaped(w) = Escaped(u) \o ((Escaped(a) \o Escaped(b)) \o Escaped(c))
    <2>1. w = u \o (a \o b \o c)
      BY <1>2
    <2>2. Escaped(u \o (a \o b \o c)) = Escaped(u) \o Escaped(a \o b \o c)
      BY <1>1, <1>6, EscapedJoined
    <2>3. Escaped(a \o b \o c) = Escaped(a \o b) \o Escaped(c)
      BY <1>1, <1>6, EscapedJoined
    <2>4. Escaped(a \o b) = Escaped(a) \o Escaped(b)
      BY <1>1, EscapedJoined
    <2>5. QED
      BY <2>1, <2>2, <2>3, <2>4
  <1>8. /\ Escaped(a) \in Seq(Written) /\ Escaped(b) \in Seq(Written)
        /\ Escaped(c) \in Seq(Written) /\ Escaped(u) \in Seq(Written)
        /\ Escaped(a) \o Escaped(b) \in Seq(Written)
    BY <1>1, <1>6, EscapedIs, EscapedJoined
  <1>9. Escaped(u) \o ((Escaped(a) \o Escaped(b)) \o Escaped(c))
        = (Escaped(u) \o (Escaped(a) \o Escaped(b))) \o Escaped(c)
    <2> DEFINE x == Escaped(u)  y == Escaped(a) \o Escaped(b)  z == Escaped(c)
    <2>1. x \in Seq(Written) /\ y \in Seq(Written) /\ z \in Seq(Written)
      BY <1>8
    <2> HIDE DEF x, y, z
    <2>2. (x \o y) \o z = x \o (y \o z)
      BY <2>1, ConcatAssociative
    <2>3. QED
      BY <2>2 DEF x, y, z
  <1>10. Escaped(u) \o (Escaped(a) \o Escaped(b)) = (Escaped(u) \o Escaped(a)) \o Escaped(b)
    <2> DEFINE x == Escaped(u)  y == Escaped(a)  z == Escaped(b)
    <2>1. x \in Seq(Written) /\ y \in Seq(Written) /\ z \in Seq(Written)
      BY <1>8
    <2> HIDE DEF x, y, z
    <2>2. (x \o y) \o z = x \o (y \o z)
      BY <2>1, ConcatAssociative
    <2>3. QED
      BY <2>2 DEF x, y, z
  <1>11. BuildPath(job) = Escaped(w)
    BY <1>4, <1>5, <1>7, <1>9, <1>10
  <1>12. w \in Text /\ Without(w, {"+"})
    BY <1>2, <1>6, AfterSlash DEF u
  <1> HIDE DEF w
  <1>13. Address(BuildPath(job)) = w
    BY <1>11, <1>12, AddressOfEscaped
  <1>14. QED
    BY <1>13 DEF w, u
-----------------------------------------------------------------------------
(* The key of a job tells which resource it is about, unless its names     *)
(* hold a bar.                                                             *)
LEMMA JoinedByBar ==
    ASSUME NEW s \in Text, NEW t \in Text
    PROVE  LET w == s \o <<"|">> \o t
           IN  /\ w \in Text /\ Len(w) = Len(s) + 1 + Len(t)
               /\ \A x \in 1..Len(s) : w[x] = s[x]
               /\ w[Len(s) + 1] = "|"
               /\ \A x \in 1..Len(t) : w[Len(s) + 1 + x] = t[x]
  <1> DEFINE u == <<"|">>  v == s \o u  w == v \o t
  <1>1. u \in Text /\ Len(u) = 1 /\ u[1] = "|" /\ 1 \in 1..Len(u)
    BY SlashIsCharacter, OneCharacter
  <1> HIDE DEF u
  <1>2. /\ v \in Text /\ Len(v) = Len(s) + 1
        /\ \A x \in 1..Len(s) : v[x] = s[x]
        /\ v[Len(s) + 1] = "|"
    <2>1. /\ v \in Text /\ Len(v) = Len(s) + Len(u)
          /\ \A x \in 1..Len(s) : v[x] = s[x]
          /\ \A x \in 1..Len(u) : v[Len(s) + x] = u[x]
      BY <1>1, Joined
    <2>2. QED
      BY <1>1, <2>1
  <1> HIDE DEF v
  <1>3. /\ w \in Text /\ Len(w) = Len(v) + Len(t)
        /\ \A x \in 1..Len(v) : w[x] = v[x]
        /\ \A x \in 1..Len(t) : w[Len(v) + x] = t[x]
    BY <1>2, Joined
  <1> HIDE DEF w
  <1>4. Len(s) \in Nat /\ Len(t) \in Nat
    BY TextDef
  <1>5. \A x \in 1..Len(s) : x \in 1..Len(v)
    BY <1>2, <1>4
  <1>6. Len(s) + 1 \in 1..Len(v)
    BY <1>2, <1>4
  <1>7. QED
    BY <1>2, <1>3, <1>5, <1>6 DEF w, v, u

LEMMA KeyIs ==
    ASSUME NEW job, IsResource(job)
    PROVE  LET k == dedupeKey(job)
               La == Len(job.account)  Lc == Len(job.container)  Lo == Len(job.object)
           IN  /\ k \in Text /\ Len(k) = 4 + La + Lc + Lo
               /\ k[1] = job.type /\ k[2] = "|" /\ k[3 + La] = "|" /\ k[4 + La + Lc] = "|"
               /\ \A x \in 1..La : k[2 + x] = job.account[x]
               /\ \A x \in 1..Lc : k[3 + La + x] = job.container[x]
               /\ \A x \in 1..Lo : k[4 + La + Lc + x] = job.object[x]
  <1> DEFINE t == <<job.type>>  a == job.account  c == job.container  o == job.object
             La == Len(a)  Lc == Len(c)  Lo == Len(o)
             k1 == t \o <<"|">> \o a  k2 == k1 \o <<"|">> \o c  k == k2 \o <<"|">> \o o
  <1>1. a \in Text /\ c \in Text /\ o \in Text /\ job.type \in Character
    BY SlashIsCharacter DEF IsResource, Types
  <1>2. t \in Text /\ Len(t) = 1 /\ t[1] = job.type /\ 1 \in 1..Len(t)
    BY <1>1, OneCharacter
  <1>3. dedupeKey(job) = k
    BY DEF dedupeKey
  <1> HIDE DEF t, a, c, o
  <1>4. La \in Nat /\ Lc \in Nat /\ Lo \in Nat
    BY <1>1, TextDef
  <1>5. /\ k1 \in Text /\ Len(k1) = 2 + La /\ k1[1] = job.type /\ k1[2] = "|"
        /\ \A x \in 1..La : k1[2 + x] = a[x]
    <2>1. /\ k1 \in Text /\ Len(k1) = Len(t) + 1 + Len(a)
          /\ \A x \in 1..Len(t) : k1[x] = t[x]
          /\ k1[Len(t) + 1] = "|"
          /\ \A x \in 1..Len(a) : k1[Len(t) + 1 + x] = a[x]
      BY <1>1, <1>2, JoinedByBar
    <2> HIDE DEF k1
    <2>2. Len(t) + 1 = 2 /\ Len(t) + 1 + Len(a) = 2 + La
      BY <1>2, <1>4
    <2>3. QED
      BY <1>2, <2>1, <2>2
  <1> HIDE DEF k1
  <1>6. /\ k2 \in Text /\ Len(k2) = 3 + La + Lc /\ k2[1] = job.type /\ k2[2] = "|" /\ k2[3 + La] = "|"
        /\ \A x \in 1..La : k2[2 + x] = a[x]
        /\ \A x \in 1..Lc : k2[3 + La + x] = c[x]
    <2>1. /\ k2 \in Text /\ Len(k2) = Len(k1) + 1 + Len(c)
          /\ \A x \in 1..Len(k1) : k2[x] = k1[x]
          /\ k2[Len(k1) + 1] = "|"
          /\ \A x \in 1..Len(c) : k2[Len(k1) + 1 + x] = c[x]
      BY <1>1, <1>5, JoinedByBar
    <2> HIDE DEF k2
    <2>2. Len(k1) + 1 = 3 + La /\ Len(k1) + 1 + Len(c) = 3 + La + Lc
      BY <1>4, <1>5
    <2>3. 1 \in 1..Len(k1) /\ 2 \in 1..Len(k1) /\ \A x \in 1..La : 2 + x \in 1..Len(k1)
      BY <1>4, <1>5
    <2>4. QED
      BY <1>5, <2>1, <2>2, <2>3
  <1> HIDE DEF k2
  <1>7. /\ k \in Text /\ Len(k) = Len(k2) + 1 + Len(o)
        /\ \A x \in 1..Len(k2) : k[x] = k2[x]
        /\ k[Len(k2) + 1] = "|"
        /\ \A x \in 1..Len(o) : k[Len(k2) + 1 + x] = o[x]
    BY <1>1, <1>6, JoinedByBar
  <1> HIDE DEF k
  <1>8. Len(k2) + 1 = 4 + La + Lc /\ Len(k2) + 1 + Len(o) = 4 + La + Lc + Lo
    BY <1>4, <1>6
  <1>9. /\ 1 \in 1..Len(k2) /\ 2 \in 1..Len(k2) /\ 3 + La \in 1..Len(k2)
        /\ \A x \in 1..La : 2 + x \in 1..Len(k2)
        /\ \A x \in 1..Lc : 3 + La + x \in 1..Len(k2)
    BY <1>4, <1>6
  <1>10. /\ k[1] = job.type /\ k[2] = "|" /\ k[3 + La] = "|"
         /\ \A x \in 1..La : k[2 + x] = a[x]
         /\ \A x \in 1..Lc : k[3 + La + x] = c[x]
    BY <1>6, <1>7, <1>9
  <1>11. /\ k \in Text /\ Len(k) = 4 + La + Lc + Lo /\ k[4 + La + Lc] = "|"
         /\ \A x \in 1..Lo : k[4 + La + Lc + x] = o[x]
    BY <1>7, <1>8
  <1>12. QED
    BY <1>3, <1>10, <1>11 DEF a, c, o

WithoutBars(s) == \A x \in 1..Len(s) : s[x] # "|"

LEMMA KeyNamesOneJob ==
    ASSUME NEW r, IsResource(r), NEW q, IsResource(q), dedupeKey(q) = dedupeKey(r),
           WithoutBars(r.account), WithoutBars(r.container), WithoutBars(r.object)
    PROVE  q = r
  <1> DEFINE k == dedupeKey(r)
             a == r.account  c == r.container  o == r.object
             A == q.account  C == q.container  O == q.object
             La == Len(a)  Lc == Len(c)  Lo == Len(o)
             Ma == Len(A)  Mc == Len(C)  Mo == Len(O)
  <1>1. /\ k \in Text /\ Len(k) = 4 + La + Lc + Lo /\ k[1] = r.type
        /\ \A x \in 1..La : k[2 + x] = a[x]
        /\ \A x \in 1..Lc : k[3 + La + x] = c[x]
        /\ \A x \in 1..Lo : k[4 + La + Lc + x] = o[x]
    BY KeyIs
  <1>2. /\ Len(k) = 4 + Ma + Mc + Mo /\ k[1] = q.type /\ k[3 + Ma] = "|" /\ k[4 + Ma + Mc] = "|"
        /\ \A x \in 1..Ma : k[2 + x] = A[x]
        /\ \A x \in 1..Mc : k[3 + Ma + x] = C[x]
        /\ \A x \in 1..Mo : k[4 + Ma + Mc + x] = O[x]
    <2>1. dedupeKey(q) = k
      OBVIOUS
    <2> HIDE DEF k
    <2>2. LET j == dedupeKey(q)
          IN  /\ Len(j) = 4 + Ma + Mc + Mo /\ j[1] = q.type /\ j[3 + Ma] = "|" /\ j[4 + Ma + Mc] = "|"
              /\ \A x \in 1..Ma : j[2 + x] = A[x]
              /\ \A x \in 1..Mc : j[3 + Ma + x] = C[x]
              /\ \A x \in 1..Mo : j[4 + Ma + Mc + x] = O[x]
      BY KeyIs
    <2>3. QED
      BY <2>1, <2>2
  <1>3. /\ a \in Text /\ c \in Text /\ o \in Text /\ A \in Text /\ C \in Text /\ O \in Text
        /\ r.type \in Types
        /\ r = [type |-> r.type, account |-> a, container |-> c, object |-> o]
        /\ q = [type |-> q.type, account |-> A, container |-> C, object |-> O]
    BY DEF IsResource
  <1>4. /\ \A x \in 1..La : a[x] # "|"
        /\ \A x \in 1..Lc : c[x] # "|"
        /\ \A x \in 1..Lo : o[x] # "|"
    BY DEF WithoutBars
  <1> HIDE DEF k, a, c, o, A, C, O
  <1>5. /\ La \in Nat /\ Lc \in Nat /\ Lo \in Nat
        /\ Ma \in Nat /\ Mc \in Nat /\ Mo \in Nat
    BY <1>3, TextDef
  <1>6. ASSUME NEW i \in 1..Len(k), k[i] = "|"
        PROVE  i = 2 \/ i = 3 + La \/ i = 4 + La + Lc
    <2>1. i # 1
      BY <1>1, <1>3, <1>6 DEF Types
    <2>2. ~(i > 2 /\ i < 3 + La)
      <3>1. ASSUME i > 2, i < 3 + La PROVE FALSE
        <4> DEFINE x == i - 2
        <4>1. x \in 1..La /\ 2 + x = i
          BY <1>1, <1>5, <3>1
        <4> HIDE DEF x
        <4>2. k[i] = a[x] /\ a[x] # "|"
          BY <1>1, <1>4, <4>1
        <4>3. QED
          BY <1>6, <4>2
      <3>2. QED
        BY <3>1
    <2>3. ~(i > 3 + La /\ i < 4 + La + Lc)
      <3>1. ASSUME i > 3 + La, i < 4 + La + Lc PROVE FALSE
        <4> DEFINE x == i - (3 + La)
        <4>1. x \in 1..Lc /\ 3 + La + x = i
          BY <1>1, <1>5, <3>1
        <4> HIDE DEF x
        <4>2. k[i] = c[x] /\ c[x] # "|"
          BY <1>1, <1>4, <4>1
        <4>3. QED
          BY <1>6, <4>2
      <3>2. QED
        BY <3>1
    <2>4. ~(i > 4 + La + Lc)
      <3>1. ASSUME i > 4 + La + Lc PROVE FALSE
        <4> DEFINE x == i - (4 + La + Lc)
        <4>1. x \in 1..Lo /\ 4 + La + Lc + x = i
          BY <1>1, <1>5, <3>1
        <4> HIDE DEF x
        <4>2. k[i] = o[x] /\ o[x] # "|"
          BY <1>1, <1>4, <4>1
        <4>3. QED
          BY <1>6, <4>2
      <3>2. QED
        BY <3>1
    <2>5. i \in Nat /\ i >= 1
      BY <1>1, <1>5
    <2>6. QED
      BY <1>5, <2>1, <2>2, <2>3, <2>4, <2>5
  <1>7. 3 + Ma \in 1..Len(k) /\ 4 + Ma + Mc \in 1..Len(k)
    BY <1>2, <1>5
  <1>8. Ma = La /\ Mc = Lc
    <2>1. /\ 3 + Ma = 2 \/ 3 + Ma = 3 + La \/ 3 + Ma = 4 + La + Lc
          /\ 4 + Ma + Mc = 2 \/ 4 + Ma + Mc = 3 + La \/ 4 + Ma + Mc = 4 + La + Lc
      BY <1>2, <1>6, <1>7
    <2>2. QED
      BY <1>5, <2>1
  <1>9. Mo = Lo
    BY <1>1, <1>2, <1>5, <1>8
  <1>10. A = a
    BY <1>1, <1>2, <1>3, <1>8, TextEqual
  <1>11. C = c
    BY <1>1, <1>2, <1>3, <1>8, TextEqual
  <1>12. O = o
    BY <1>1, <1>2, <1>3, <1>8, <1>9, TextEqual
  <1>13. q.type = r.type
    BY <1>1, <1>2
  <1>14. QED
    BY <1>3, <1>10, <1>11, <1>12, <1>13
-----------------------------------------------------------------------------
(* The inductive invariant: every job is about a resource, and whatever    *)
(* was asked for has a job under its key, whose path is what was asked if  *)
(* nothing in it is taken for something else.                              *)
Served(x) ==
    /\ x.text \in Text /\ IsResource(x.job)
    /\ \E job \in queue : dedupeKey(job) = dedupeKey(x.job)
    /\ Ordinary(x) => x.text = Path(x.job) /\ x.address = <<"/">> \o x.text

NInv ==
    /\ count \in 0..MaxAsked
    /\ \A job \in queue : IsResource(job)
    /\ \A x \in asked : Served(x)

Request(who, text, address, job) == [by |-> who, text |-> text, address |-> address, job |-> job]

LEMMA AskKeeps ==
    ASSUME NInv, More,
           NEW who, NEW text \in Text, NEW address, NEW job, IsResource(job),
           Enqueue(job), Ask(who, text, address, job),
           Ordinary(Request(who, text, address, job)) => text = Path(job) /\ address = <<"/">> \o text
    PROVE  NInv'
  <1>1. count' \in 0..MaxAsked
    BY BoundAssumption DEF NInv, More
  <1>2. /\ \A j \in queue' : IsResource(j)
        /\ queue \subseteq queue'
        /\ \E j \in queue' : dedupeKey(j) = dedupeKey(job)
    BY DEF NInv, Enqueue
  <1>3. ASSUME NEW x \in asked' PROVE Served(x)'
    <2>1. CASE x \in asked
      <3>1. Served(x)
        BY <2>1 DEF NInv
      <3>2. QED
        BY <1>2, <3>1 DEF Served
    <2>2. CASE x = Request(who, text, address, job)
      <3>1. x.text = text /\ x.job = job /\ x.address = address
        BY <2>2 DEF Request
      <3>2. QED
        BY <1>2, <2>2, <3>1 DEF Served
    <2>3. QED
      BY <2>1, <2>2 DEF Ask, Request
  <1>4. (\A j \in queue : IsResource(j))'
    BY <1>2
  <1>5. (\A x \in asked : Served(x))'
    BY <1>3
  <1>6. QED
    BY <1>1, <1>4, <1>5 DEF NInv

LEMMA NothingAsked ==
    ASSUME NInv, count' \in 0..MaxAsked, UNCHANGED <<queue, asked>>
    PROVE  NInv'
  BY DEF NInv, Served

LEMMA ParsedIsResource ==
    ASSUME NEW s \in Text, Named(Parts(s)).type \in Types
    PROVE  IsResource(Named(Parts(s))) /\ Path(Named(Parts(s))) = s
  <1>1. Named(Parts(s)) # Invalid
    BY DEF Invalid, Types
  <1>2. QED
    BY <1>1, PathOfParse

LEMMA TrimType ==
    ASSUME NEW s \in Text
    PROVE  Trim(s) \in Text
  <1> DEFINE inner == (DOMAIN s) \ Slashes(s)
             greatest == CHOOSE i \in inner : \A j \in inner : j <= i
  <1>1. Len(s) \in Nat /\ inner \in SUBSET Nat /\ inner \subseteq 1..Len(s) /\ \A i \in inner : i <= Len(s)
    BY TextDef
  <1>2. CASE inner = {}
    BY <1>2, NothingIsText DEF Trim
  <1>3. CASE inner # {}
    <2>1. Trim(s) = SubSeq(s, First(inner), greatest)
      BY <1>3 DEF Trim
    <2> HIDE DEF inner
    <2>2. PICK least \in inner : \A j \in inner : least <= j
      BY <1>1, <1>3, LeastExists
    <2>3. First(inner) \in inner
      BY <1>1, <2>2, FirstIs
    <2>4. \E i \in inner : \A j \in inner : j <= i
      BY <1>1, <1>3, GreatestExists
    <2>5. greatest \in inner
      BY <2>4
    <2> HIDE DEF greatest
    <2>6. First(inner) \in 1..(Len(s) + 1) /\ greatest \in 0..Len(s)
      <3>1. \A j \in 1..Len(s) : j \in 1..(Len(s) + 1) /\ j \in 0..Len(s)
        BY <1>1
      <3>2. First(inner) \in 1..Len(s) /\ greatest \in 1..Len(s)
        BY <1>1, <2>3, <2>5
      <3>3. QED
        BY <3>1, <3>2
    <2>7. QED
      BY <2>1, <2>6, PieceOf
  <1>4. QED
    BY <1>2, <1>3
-----------------------------------------------------------------------------
LEMMA ReadStep ==
    ASSUME NInv, NEW p \in PublicPrefixes, NEW s \in Texts, Read(p \o Api \o s)
    PROVE  NInv'
  <1> DEFINE path == p \o Api \o s  text == Normalized(path)  job == ParseSwiftPath(path)
             address == Address(BackendPath(path))
  <1>1. text = normalizeListingPathSuffix(s) /\ text \in Text
    BY SuffixIs, WrittenTexts, NormalizedType DEF Normalized
  <1>2. job = Named(Parts(text)) /\ address = Address(<<"/">> \o text)
    BY DEF ParseSwiftPath, BackendPath
  <1>3. /\ More
        /\ \/ job.type \in {"container", "object"} /\ Enqueue(job) /\ Ask("client", text, address, job)
           \/ UNCHANGED <<queue, asked>>
    BY DEF Read
  <1> HIDE DEF text, job, address
  <1>4. CASE job.type \in {"container", "object"} /\ Enqueue(job) /\ Ask("client", text, address, job)
    <2>1. IsResource(job) /\ Path(job) = text
      BY <1>1, <1>2, <1>4, ParsedIsResource DEF Types
    <2>2. ASSUME Ordinary(Request("client", text, address, job))
          PROVE  address = <<"/">> \o text
      <3>1. Without(text, Unsafe) /\ "/" \notin Unsafe
        BY <2>2 DEF Ordinary, Unsafe, Request, Without
      <3>2. QED
        BY <1>1, <1>2, <3>1, AfterSlash, AddressOfText
    <2>3. QED
      BY <1>1, <1>3, <1>4, <2>1, <2>2, AskKeeps
  <1>5. CASE UNCHANGED <<queue, asked>>
    <2>1. count' \in 0..MaxAsked
      BY <1>3, BoundAssumption DEF NInv, More
    <2>2. QED
      BY <1>5, <2>1, NothingAsked
  <1>6. QED
    BY <1>3, <1>4, <1>5

LEMMA OperateStep ==
    ASSUME NInv, NEW s \in Texts, NEW type \in Types, Operate(s, type)
    PROVE  NInv'
  <1> DEFINE job == SplitPath(s)  address == <<"/">> \o s
  <1>1. More /\ job.type = type /\ Enqueue(job) /\ Ask("operator", s, address, job)
    BY DEF Operate
  <1>2. s \in Text /\ Trim(s) \in Text /\ job = Named(Parts(Trim(s)))
    BY WrittenTexts, TrimType DEF SplitPath
  <1> HIDE DEF job
  <1>3. IsResource(job) /\ Path(job) = Trim(s)
    BY <1>1, <1>2, ParsedIsResource
  <1>4. ASSUME Ordinary(Request("operator", s, address, job))
        PROVE  s = Path(job) /\ address = <<"/">> \o s
    BY <1>3, <1>4 DEF Ordinary, Request
  <1>5. QED
    BY <1>1, <1>2, <1>3, <1>4, AskKeeps

LEMMA ScanStep ==
    ASSUME NInv, NEW job \in queue, NEW name \in Objects, Scan(job, name)
    PROVE  NInv'
  <1> DEFINE u == <<"/">>  a == job.account  c == job.container
  <1>1. /\ job \in [type : Types, account : Text, container : Text, object : Text]
        /\ IsResource(job) /\ name \in Text /\ name # Nothing /\ More
        /\ a \in Text /\ c \in Text /\ u \in Text
    BY WrittenTexts, SlashIsCharacter, OneCharacter DEF NInv, IsResource, Scan
  <1>2. CASE job.type = "container"
    <2> DEFINE found == [job EXCEPT !.type = "object", !.object = name]
               text  == a \o u \o c \o u \o name
    <2>1. Enqueue(found) /\ Ask("scan", text, <<"/">> \o text, found)
      BY <1>2 DEF Scan
    <2>2. /\ found.type = "object" /\ found.account = a /\ found.container = c /\ found.object = name
          /\ found \in [type : Types, account : Text, container : Text, object : Text]
      BY <1>1 DEF Types
    <2> HIDE DEF found
    <2>3. c # Nothing
      BY <1>1, <1>2 DEF IsResource
    <2>4. IsResource(found)
      BY <1>1, <2>2, <2>3 DEF IsResource
    <2>5. Path(found) = (a \o (u \o c)) \o (u \o name)
      BY <1>1, <2>2, <2>3 DEF Path
    <2> HIDE DEF u, a, c
    <2>6. /\ a \o u \in Text /\ a \o u \o c \in Text /\ u \o name \in Text /\ text \in Text
      BY <1>1, Joined
    <2>7. a \o (u \o c) = (a \o u) \o c
      <3>1. a \in Text /\ u \in Text /\ c \in Text
        BY <1>1
      <3>2. QED
        BY ONLY <3>1, Associates
    <2>8. (a \o u \o c) \o (u \o name) = ((a \o u \o c) \o u) \o name
      <3> DEFINE v == a \o u \o c
      <3>1. v \in Text /\ u \in Text /\ name \in Text
        BY <1>1, <2>6
      <3> HIDE DEF v
      <3>2. v \o (u \o name) = v \o u \o name
        BY <3>1, Associates
      <3>3. QED
        BY <3>2 DEF v
    <2>9. text = Path(found)
      BY <2>5, <2>7, <2>8
    <2> HIDE DEF text
    <2>10. QED
      BY <1>1, <2>1, <2>4, <2>6, <2>9, AskKeeps
  <1>3. CASE job.type = "account" /\ Slashes(name) = {}
    <2> DEFINE found == [job EXCEPT !.type = "container", !.container = name]
               text  == a \o u \o name
    <2>1. Enqueue(found) /\ Ask("scan", text, <<"/">> \o text, found)
      BY <1>3 DEF Scan
    <2>2. /\ found.type = "container" /\ found.account = a /\ found.container = name
          /\ found.object = job.object
          /\ found \in [type : Types, account : Text, container : Text, object : Text]
      BY <1>1 DEF Types
    <2> HIDE DEF found
    <2>3. job.object = Nothing
      BY <1>1, <1>3 DEF IsResource
    <2>4. IsResource(found)
      BY <1>1, <1>3, <2>2, <2>3 DEF IsResource
    <2>5. Path(found) = a \o (u \o name)
      BY <2>2, <2>4, PathOfContainer
    <2> HIDE DEF u, a
    <2>6. a \o u \in Text /\ text \in Text
      BY <1>1, Joined
    <2>7. a \o (u \o name) = (a \o u) \o name
      <3>1. a \in Text /\ u \in Text /\ name \in Text
        BY <1>1
      <3>2. QED
        BY ONLY <3>1, Associates
    <2>8. text = Path(found)
      BY <2>5, <2>7
    <2> HIDE DEF text
    <2>9. QED
      BY <1>1, <2>1, <2>4, <2>6, <2>8, AskKeeps
  <1>4. QED
    BY <1>2, <1>3 DEF Scan

LEMMA NInvHolds == Spec => []NInv
  <1>1. Init => NInv
    BY BoundAssumption DEF Init, NInv
  <1>2. NInv /\ [Next]_vars => NInv'
    <2>1. SUFFICES ASSUME NInv, [Next]_vars PROVE NInv'
      OBVIOUS
    <2>2. ASSUME NEW p \in PublicPrefixes, NEW s \in Texts, Read(p \o Api \o s) PROVE NInv'
      BY <2>1, <2>2, ReadStep
    <2>3. ASSUME NEW s \in Texts, NEW type \in Types, Operate(s, type) PROVE NInv'
      BY <2>1, <2>3, OperateStep
    <2>4. ASSUME NEW job \in queue, NEW name \in Objects, Scan(job, name) PROVE NInv'
      BY <2>1, <2>4, ScanStep
    <2>5. CASE UNCHANGED vars
      BY <2>1, <2>5 DEF vars, NInv, Served
    <2>6. QED
      BY <2>1, <2>2, <2>3, <2>4, <2>5 DEF Next, Types
  <1>3. QED
    BY <1>1, <1>2, PTL DEF Spec
-----------------------------------------------------------------------------
(* Every job names an account without slashes, and what its type says.     *)
THEOREM NamesTypeCorrect == Spec => []TypeOK
  <1>1. NInv => TypeOK
    BY DEF NInv, TypeOK, IsResource, Types
  <1>2. QED
    BY <1>1, NInvHolds, PTL

LEMMA OrdinaryNames ==
    ASSUME NEW r, IsResource(r), Chars(Path(r)) \cap Lost = {}
    PROVE  /\ Without(Path(r), {"+"})
           /\ WithoutBars(r.account) /\ WithoutBars(r.container) /\ WithoutBars(r.object)
  <1> DEFINE s == Path(r)  La == Len(r.account)  Lc == Len(r.container)
  <1>1. /\ s \in Text /\ La \in Nat /\ Lc \in Nat
        /\ HoldsAt(s, 0, r.account)
        /\ r.type \in {"container", "object"} => HoldsAt(s, La + 1, r.container)
        /\ r.type = "object" => HoldsAt(s, La + Lc + 2, r.object)
    BY PathHolds
  <1>2. /\ r.account \in Text /\ r.container \in Text /\ r.object \in Text
        /\ r.type \in Types
        /\ r.type = "account" => r.container = Nothing
        /\ r.type # "object" => r.object = Nothing
    BY DEF IsResource
  <1>3. Chars(s) \cap Lost = {}
    OBVIOUS
  <1> HIDE DEF s, La, Lc
  <1>4. Len(s) \in Nat /\ DOMAIN s = 1..Len(s) /\ \A i \in 1..Len(s) : s[i] # "|"
    <2>1. Len(s) \in Nat /\ DOMAIN s = 1..Len(s)
      BY <1>1, TextDef
    <2>2. QED
      BY <1>3, <2>1 DEF Chars, Lost
  <1>5. ASSUME NEW k \in Nat, NEW t \in Text, HoldsAt(s, k, t)
        PROVE  WithoutBars(t)
    <2>1. Len(t) \in Nat /\ k + Len(t) <= Len(s) /\ \A x \in 1..Len(t) : s[k + x] = t[x]
      BY <1>5, TextDef DEF HoldsAt
    <2>2. \A x \in 1..Len(t) : k + x \in 1..Len(s)
      BY <1>4, <2>1
    <2>3. QED
      BY <1>4, <2>1, <2>2 DEF WithoutBars
  <1>6. WithoutBars(Nothing)
    BY NothingIsText DEF WithoutBars
  <1>7. 0 \in Nat /\ La + 1 \in Nat /\ La + Lc + 2 \in Nat
    BY <1>1
  <1>8. WithoutBars(r.account)
    BY <1>1, <1>2, <1>5, <1>7
  <1>9. WithoutBars(r.container)
    BY <1>1, <1>2, <1>5, <1>6, <1>7 DEF Types
  <1>10. WithoutBars(r.object)
    BY <1>1, <1>2, <1>5, <1>6, <1>7 DEF Types
  <1>11. Without(s, {"+"})
    BY <1>3 DEF Without, Lost
  <1>12. QED
    BY <1>8, <1>9, <1>10, <1>11 DEF s

LEMMA OrdinaryIsServed ==
    ASSUME NInv, NEW x \in asked, Ordinary(x)
    PROVE  /\ IsResource(x.job) /\ x.text \in Text
           /\ x.text = Path(x.job) /\ x.address = <<"/">> \o x.text
           /\ Without(Path(x.job), {"+"})
           /\ \A job : IsResource(job) /\ dedupeKey(job) = dedupeKey(x.job) => job = x.job
           /\ x.job \in queue
  <1>1. Served(x)
    BY DEF NInv
  <1>2. /\ x.text \in Text /\ IsResource(x.job)
        /\ x.text = Path(x.job) /\ x.address = <<"/">> \o x.text
    BY <1>1 DEF Served
  <1>3. /\ Without(Path(x.job), {"+"})
        /\ WithoutBars(x.job.account) /\ WithoutBars(x.job.container) /\ WithoutBars(x.job.object)
    BY <1>2, OrdinaryNames DEF Ordinary
  <1>4. \A job : IsResource(job) /\ dedupeKey(job) = dedupeKey(x.job) => job = x.job
    BY <1>2, <1>3, KeyNamesOneJob
  <1>5. PICK job \in queue : dedupeKey(job) = dedupeKey(x.job)
    BY <1>1 DEF Served
  <1>6. job = x.job
    BY <1>4, <1>5 DEF NInv
  <1>7. QED
    BY <1>2, <1>3, <1>4, <1>5, <1>6

(* Whatever names clients, operators and listings come up with, the job in *)
(* the queue under the key of a request reads exactly what was meant: its  *)
(* URL is taken apart at the backend into the path that was asked for.     *)
THEOREM JobsReadWhatWasAsked == Spec => []JobReadsWhatWasAsked
  <1>1. NInv => JobReadsWhatWasAsked
    <2>1. SUFFICES ASSUME NInv, NEW x \in asked, Ordinary(x)
                   PROVE  \E job \in queue : /\ dedupeKey(job) = dedupeKey(x.job)
                                             /\ Address(BuildPath(job)) = x.address
      BY DEF JobReadsWhatWasAsked
    <2>2. /\ IsResource(x.job) /\ Without(Path(x.job), {"+"}) /\ x.job \in queue
          /\ x.address = <<"/">> \o Path(x.job)
      BY <2>1, OrdinaryIsServed
    <2>3. Address(BuildPath(x.job)) = x.address
      BY <2>2, AddressOfJob
    <2>4. QED
      BY <2>2, <2>3
  <1>2. QED
    BY <1>1, NInvHolds, PTL

(* Two requests share a job exactly if they mean the same resource.        *)
THEOREM OneJobForOneResource == Spec => []OneJobPerResource
  <1>1. NInv => OneJobPerResource
    <2>1. SUFFICES ASSUME NInv, NEW x \in asked, NEW y \in asked, Ordinary(x), Ordinary(y)
                   PROVE  (dedupeKey(x.job) = dedupeKey(y.job)) <=> (x.address = y.address)
      BY DEF OneJobPerResource
    <2>2. /\ IsResource(x.job) /\ x.address = <<"/">> \o Path(x.job)
          /\ IsResource(y.job) /\ y.address = <<"/">> \o Path(y.job)
          /\ \A job : IsResource(job) /\ dedupeKey(job) = dedupeKey(y.job) => job = y.job
      BY <2>1, OrdinaryIsServed
    <2>3. ASSUME dedupeKey(x.job) = dedupeKey(y.job) PROVE x.address = y.address
      <3>1. x.job = y.job
        BY <2>2, <2>3
      <3>2. QED
        BY <2>2, <3>1
    <2>4. ASSUME x.address = y.address PROVE dedupeKey(x.job) = dedupeKey(y.job)
      <3>1. Path(x.job) \in Text /\ Path(y.job) \in Text /\ <<"/">> \in Text
        BY <2>2, PartsOfPath, SlashIsCharacter, OneCharacter
      <3>2. Path(x.job) = Path(y.job)
        BY <2>2, <2>4, <3>1, ConcatSimplifications DEF Text
      <3>3. x.job = y.job
        BY <2>2, <3>2, ParseOfPath
      <3>4. QED
        BY <3>3
    <2>5. QED
      BY <2>3, <2>4
  <1>2. QED
    BY <1>1, NInvHolds, PTL
=============================================================================
