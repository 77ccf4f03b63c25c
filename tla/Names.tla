------------------------------- MODULE Names -------------------------------
(***************************************************************************)
(* How an account, container or object is named on its way through the     *)
(* system: the path of a client's request (internal/proxy/path.go), of an  *)
(* operator's request (internal/admin/handler.go) or an entry of a listing *)
(* becomes a job with a dedupe key (internal/migration/service.go), and    *)
(* the job becomes the URL of a backend request (internal/backend).        *)
(*                                                                         *)
(* A text is a sequence of characters; "v1" and the escapes "%20", "%23",  *)
(* "%25", "%3F" count as one.  The letters of the model are the characters *)
(* that a URL passes on whether they are escaped or not; " ", "+", "%",    *)
(* "?", "#" and "|" stand for themselves.  Control characters, which Do    *)
(* refuses, are left out.                                                  *)
(***************************************************************************)
EXTENDS Naturals, Sequences, FiniteSets

CONSTANTS
    Characters,      \* what the texts are made of
    PublicPrefixes,  \* what precedes the API prefix in the paths of clients
    Texts,           \* what clients and operators write after their prefix
    Objects,         \* names of objects in the legacy containers
    MaxAsked         \* bound: requests and entries of listings

Api == <<"/", "v1", "/">>

ASSUME BoundAssumption == MaxAsked \in Nat

(* A text is what is left when its escapes are read; objects have names.   *)
ASSUME TextsAssumption ==
    /\ Characters \cap {"%20", "%23", "%25", "%3F"} = {}
    /\ PublicPrefixes \cup Texts \cup Objects \subseteq Seq(Characters)
    /\ <<>> \notin Objects

(* The API prefix after a public prefix is the first one.                  *)
ASSUME PrefixAssumption ==
    \A p \in PublicPrefixes : \A i \in 1..Len(p) : SubSeq(p \o Api, i, i + 2) # Api

VARIABLES
    queue,  \* the jobs in the store
    asked,  \* history: what was asked for, and the job it led to
    last,   \* the last path of a client
    count   \* how many requests and entries there were

vars == <<queue, asked, last, count>>
-----------------------------------------------------------------------------
Nothing == <<>>

First(S)    == CHOOSE i \in S : \A j \in S : i <= j
Chars(s)    == {s[i] : i \in DOMAIN s}
Slashes(s)  == {i \in DOMAIN s : s[i] = "/"}
Rest(s, i)  == SubSeq(s, i, Len(s))
Before(s, i) == SubSeq(s, 1, i - 1)

(* strings.SplitN(s, "/", 3) *)
Parts(s) ==
    LET later(i) == {j \in Slashes(s) : j > i}
        one      == First(Slashes(s))
        two      == First(later(one))
    IN  IF Slashes(s) = {} THEN <<s>>
        ELSE IF later(one) = {} THEN <<Before(s, one), Rest(s, one + 1)>>
        ELSE <<Before(s, one), SubSeq(s, one + 1, two - 1), Rest(s, two + 1)>>

Resource(parts) ==
    [type |-> <<"account", "container", "object">>[Len(parts)],
     account |-> parts[1],
     container |-> IF Len(parts) > 1 THEN parts[2] ELSE Nothing,
     object |-> IF Len(parts) > 2 THEN parts[3] ELSE Nothing]
Invalid == [type |-> "invalid", account |-> Nothing, container |-> Nothing, object |-> Nothing]

(* Mutant: an empty name is not refused. *)
NamedUnchecked(parts) == Resource(parts)

Named(parts) == IF Nothing \in Chars(parts) THEN Invalid ELSE Resource(parts)

(* Mutant: every trailing slash is cut. *)
CutSlash(suffix) ==
    IF suffix # Nothing /\ suffix[Len(suffix)] = "/" THEN Before(suffix, Len(suffix)) ELSE suffix

(* A slash after an account or a container is cut; one that ends the name  *)
(* of an object belongs to it.                                             *)
normalizeListingPathSuffix(suffix) ==
    LET trimmed == Before(suffix, Len(suffix))
    IN  IF suffix # Nothing /\ suffix[Len(suffix)] = "/"
           /\ trimmed # Nothing /\ Cardinality(Slashes(trimmed)) <= 1
        THEN trimmed
        ELSE suffix

(* Mutant: the last API prefix in the path counts. *)
LastApi(path) ==
    LET at == {i \in 1..(Len(path) - 2) : SubSeq(path, i, i + 2) = Api}
    IN  IF at = {} THEN Nothing ELSE Rest(path, 3 + CHOOSE i \in at : \A j \in at : j <= i)

(* What follows the first API prefix. *)
Suffix(path) ==
    LET at == {i \in 1..(Len(path) - 2) : SubSeq(path, i, i + 2) = Api}
    IN  IF at = {} THEN Nothing ELSE Rest(path, First(at) + 3)

Normalized(path)     == normalizeListingPathSuffix(Suffix(path))
ParseSwiftPath(path) == Named(Parts(Normalized(path)))
BackendPath(path)    == <<"/">> \o Normalized(path)
-----------------------------------------------------------------------------
(* Mutant: the name of an object is one segment. *)
EscapeAll(c) == IF c = "/" THEN "%2F" ELSE c

(* escapePathSegment: url.PathEscape leaves "+" alone, and then every "+"  *)
(* is replaced by an escaped space.                                        *)
escape(c) ==
    CASE c \in {" ", "+"} -> "%20" [] c = "#" -> "%23"
      [] c = "%" -> "%25" [] c = "?" -> "%3F"
      [] c \notin {" ", "+", "#", "%", "?"} -> c

Escaped(s) == [i \in DOMAIN s |-> escape(s[i])]

(* BuildAccountPath, BuildContainerPath and BuildObjectPath, which escapes *)
(* the pieces of the name between its slashes.                             *)
BuildPath(job) ==
    <<"/">> \o Escaped(job.account)
    \o (IF job.container = Nothing THEN Nothing ELSE <<"/">> \o Escaped(job.container))
    \o (IF job.object = Nothing THEN Nothing ELSE <<"/">> \o Escaped(job.object))

(* Do appends the path to the base URL as it is.  The path of the URL ends *)
(* at the first "?" or "#"; a "%" in it, or in the fragment after the "#", *)
(* that begins no escape makes the request fail, or be read as another     *)
(* one; the backend reads every escape as the character it stands for.     *)
unescape(c) ==
    CASE c = "%20" -> " " [] c = "%23" -> "#" [] c = "%25" -> "%" [] c = "%3F" -> "?"
      [] c \notin {"%20", "%23", "%25", "%3F"} -> c

Address(text) ==
    LET ends        == {i \in DOMAIN text : text[i] \in {"?", "#"}}
        path        == IF ends = {} THEN text ELSE Before(text, First(ends))
        fragment(i) == \E j \in 1..i : text[j] = "#"
        broken(i)   == text[i] = "%" /\ (i \in DOMAIN path \/ fragment(i))
    IN  IF \E i \in DOMAIN text : broken(i) THEN Nothing
        ELSE [i \in DOMAIN path |-> unescape(path[i])]
-----------------------------------------------------------------------------
(* Mutant: the name of the account is left out. *)
KeyWithoutAccount(job) == <<job.type>> \o <<"|">> \o job.container \o <<"|">> \o job.object

dedupeKey(job) ==
    <<job.type>> \o <<"|">> \o job.account \o <<"|">> \o job.container \o <<"|">> \o job.object

(* The store keeps one row per dedupe key. *)
Enqueue(job) ==
    queue' = IF \E j \in queue : dedupeKey(j) = dedupeKey(job) THEN queue ELSE queue \cup {job}

(* History: who asked, the text that names what was meant, the address     *)
(* that this text means, and the job.                                      *)
Ask(who, text, address, job) ==
    asked' = asked \cup {[by |-> who, text |-> text, address |-> address, job |-> job]}

More == count < MaxAsked /\ count' = count + 1

Init ==
    /\ queue = {}
    /\ asked = {}
    /\ last = Nothing
    /\ count = 0

(* http.ServeMux redirects a path with an empty piece before any handler   *)
(* sees it.                                                                *)
Clean(path) == \A i \in 2..Len(path) : path[i] = "/" => path[i - 1] # "/"

(* A client reads an object, or lists a container, that Swift has: it is   *)
(* requested at BackendPath and queued.  An account is only listed.        *)
Read(path) ==
    /\ More
    /\ Clean(path)
    /\ last' = path
    /\ LET job == ParseSwiftPath(path)
       IN  \/ /\ job.type \in {"container", "object"}
              /\ Enqueue(job)
              /\ Ask("client", Normalized(path), Address(BackendPath(path)), job)
           \/ job.type \in {"invalid", "account"} /\ UNCHANGED <<queue, asked>>

(* strings.Trim(s, "/") *)
Trim(s) ==
    LET inner == (DOMAIN s) \ Slashes(s)
    IN  IF inner = {} THEN Nothing
        ELSE SubSeq(s, First(inner), CHOOSE i \in inner : \A j \in inner : j <= i)

(* splitObjectPath, splitContainerPath, and the path of an account. *)
SplitPath(path) == Named(Parts(Trim(path)))

(* An operator queues a job: each type has its own endpoint. *)
Operate(path, type) ==
    /\ More
    /\ Clean(<<"/">> \o path)
    /\ LET job == SplitPath(path)
       IN  /\ job.type = type
           /\ Enqueue(job)
           /\ Ask("operator", path, <<"/">> \o path, job)
    /\ UNCHANGED last

(* A container job finds an object in the listing of Swift; an account job *)
(* finds a container.                                                      *)
Scan(job, name) ==
    /\ More
    /\ job \in queue
    /\ \/ /\ job.type = "container"
          /\ LET found == [job EXCEPT !.type = "object", !.object = name]
                 text  == job.account \o <<"/">> \o job.container \o <<"/">> \o name
             IN  Enqueue(found) /\ Ask("scan", text, <<"/">> \o text, found)
       \/ /\ job.type = "account"
          /\ Slashes(name) = {}
          /\ LET found == [job EXCEPT !.type = "container", !.container = name]
                 text  == job.account \o <<"/">> \o name
             IN  Enqueue(found) /\ Ask("scan", text, <<"/">> \o text, found)
    /\ UNCHANGED last

Next ==
    \/ \E p \in PublicPrefixes, s \in Texts : Read(p \o Api \o s)
    \/ \E s \in Texts, type \in {"account", "container", "object"} : Operate(s, type)
    \/ \E job \in queue, name \in Objects : Scan(job, name)

Spec == Init /\ [][Next]_vars
-----------------------------------------------------------------------------
(* Every job names an account without slashes, and what its type says.     *)
TypeOK ==
    /\ count \in 0..MaxAsked
    /\ \A job \in queue :
          /\ job.type \in {"account", "container", "object"}
          /\ job.account # Nothing /\ Slashes(job.account) = {}
          /\ Slashes(job.container) = {}
          /\ (job.container = Nothing) = (job.type = "account")
          /\ (job.object # Nothing) = (job.type = "object")

(* Reference: the path of a resource is its names joined by slashes, after *)
(* an API prefix; a slash may follow the name of an account or container.  *)
Path(r) ==
    r.account
    \o (IF r.container = Nothing THEN Nothing ELSE <<"/">> \o r.container)
    \o (IF r.object = Nothing THEN Nothing ELSE <<"/">> \o r.object)
Pieces(s) == {Nothing} \cup {SubSeq(s, i, j) : i, j \in DOMAIN s}
Meant(s) ==
    {r \in [account : Pieces(s) \ {Nothing}, container : Pieces(s), object : Pieces(s)] :
        /\ Slashes(r.account) = {} /\ Slashes(r.container) = {}
        /\ r.container = Nothing => r.object = Nothing
        /\ s = Path(r) \/ (r.object = Nothing /\ s = Path(r) \o <<"/">>)}

(* The path of a client is taken apart as it was put together: whatever    *)
(* slashes and API prefixes the name of the object holds, exactly the      *)
(* resource that the path means is found, and a path that means none is    *)
(* refused.  The prefix of the public endpoint must not hold another one.  *)
PathsAreParsed ==
    \A p \in PublicPrefixes, s \in Texts : last = p \o Api \o s =>
        LET found == ParseSwiftPath(last)
        IN  IF found = Invalid THEN Meant(s) = {}
            ELSE Meant(s) = {[account |-> found.account, container |-> found.container,
                              object |-> found.object]}

(* Two characters are lost on the way of every job: "+" becomes a space in *)
(* its URL, and "|" separates the names in its key.  A client is served    *)
(* from the unescaped path, where three more mean something else; and an   *)
(* operator's path loses the slash that ends it.                           *)
Lost   == {"+", "|"}
Unsafe == {"%", "?", "#"}
Ordinary(x) ==
    /\ Chars(x.text) \cap Lost = {}
    /\ x.by = "client" => Chars(x.text) \cap Unsafe = {}
    /\ x.by = "operator" => x.text = Trim(x.text)

(* Whoever asks for a migration, the job in the queue under its key reads  *)
(* exactly what was meant: for a client, what it was served.               *)
JobReadsWhatWasAsked ==
    \A x \in asked : Ordinary(x) =>
        \E job \in queue : dedupeKey(job) = dedupeKey(x.job) /\ Address(BuildPath(job)) = x.address

(* Two requests for the same resource, by whomever, share a job, and two   *)
(* for different ones do not.                                              *)
OneJobPerResource ==
    \A x, y \in asked : Ordinary(x) /\ Ordinary(y) =>
        ((dedupeKey(x.job) = dedupeKey(y.job)) <=> (x.address = y.address))
=============================================================================
