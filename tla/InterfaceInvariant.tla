------------------------- MODULE InterfaceInvariant -------------------------
(* The inductive invariant of a tab of the interface: what its requests and  *)
(* its page have to do with each other, whatever is under way.               *)
EXTENDS Interface

\* What a page can be given to show.
Documents(page) ==
  CASE page \in SecurityPages -> SecuritySettings
    [] page = "wifi" -> [ssid : Networks]
    [] page = "scan" -> {Listing}
    [] page \in ReadingPages -> {Reading}
    [] OTHER -> {}

Credentials == [username : Names, password : Passwords]

\* The pages whose component sends a kind of request.
Senders(kind) ==
  CASE kind \in {"scan", "list"} -> {"scan"}
    [] kind = "signin" -> {SignIn}
    [] kind = "save" -> SecurityPages \cup {"wifi"}
    [] kind = "load" -> Pages \ {"scan"}
    [] kind = "verify" -> Pages \cup {SignIn, None}

Bodies(kind, at) ==
  CASE kind = "signin" -> Credentials
    [] kind = "save" -> Documents(at)
    [] OTHER -> {None}

\* What a request can be granted.
Contents(r) ==
  CASE r.kind = "verify" -> {None}
    [] r.kind = "signin" -> Token
    [] r.kind \in {"load", "list"} -> Documents(r.at)
    [] r.kind = "save" -> {r.body}
    [] r.kind = "scan" -> {}

Answers(r) ==
  {Failed, Unauthorized, Answer("accepted", None)} \cup {Answer("ok", c) : c \in Contents(r)}

RequestFields == {"owner", "kind", "at", "token", "body", "answer"}

\* The session is verified with a token, by the AuthenticationWrapper: such a
\* request outlives every page.
TypedRequest(r) ==
  /\ r = [k \in RequestFields |-> r[k]]
  /\ r.owner \in Owners /\ r.kind \in Kinds /\ r.token \in Token \cup {None}
  /\ r.at \in Senders(r.kind)
  /\ r.body \in Bodies(r.kind, r.at)
  /\ r.answer = None \/ r.answer \in Answers(r)
  /\ r.kind = "verify" => r.owner = "mounted" /\ r.token \in Token

Own(q) == {i \in DOMAIN q : q[i].owner = "mounted" /\ q[i].kind # "verify"}
Verifies(q) == \E i \in DOMAIN q : q[i].kind = "verify"

\* The requests of a tab that shows the page m.
TypedRequests(q, m) ==
  /\ q = [i \in DOMAIN q |-> q[i]]
  /\ IsFiniteSet(DOMAIN q)
  /\ \A i \in DOMAIN q : TypedRequest(q[i])
  /\ \A i \in Own(q) : q[i].at = m

TabFields == {"initialized", "user", "path", "mounted", "waiting", "data", "selected",
              "polls", "timer", "requests"}
IsTab(v) == v = [k \in TabFields |-> v[k]]

TypedTab(v) ==
  /\ IsTab(v)
  /\ v.initialized \in BOOLEAN /\ v.waiting \in BOOLEAN /\ v.timer \in BOOLEAN
  /\ v.user \in [username : Names, admin : BOOLEAN] \cup {None}
  /\ v.path \in Pages \cup {Root, None}
  /\ v.mounted \in Pages \cup {SignIn, None}
  /\ v.selected \in Networks \cup {None}
  /\ v.polls \in 0..(NumPolls - 1)
  /\ v.data = None \/ v.data \in Documents(v.mounted)
  /\ TypedRequests(v.requests, v.mounted)

\* The component waits for one request of its own, or for its timeout.
Awaits(v) ==
  /\ v.timer = TRUE => v.mounted = "scan" /\ v.waiting = TRUE /\ Own(v.requests) = {}
  /\ v.waiting = FALSE => Own(v.requests) = {}
  /\ v.waiting = TRUE /\ v.timer = FALSE =>
       \E i \in DOMAIN v.requests : Own(v.requests) = {i}

\* Nothing is shown before the session is known, and then the page of the
\* path: the sign-in page to visitors, and to no user.
Routed(v) ==
  /\ v.initialized = FALSE => v.mounted = None /\ (v.path # None => Verifies(v.requests))
  /\ v.initialized = TRUE =>
       v.path # None /\ v.mounted = Component(v.path) /\ (v.user = None <=> v.path = Root)

\* While the form of a selected network is shown, the one thing it can be
\* waiting for is the answer to what it shows.
Chosen(v) ==
  v.mounted = "wifi" /\ v.selected # None =>
    /\ v.data = [ssid |-> v.selected]
    /\ \A i \in Own(v.requests) : v.requests[i].kind = "save" /\ v.requests[i].body = v.data

Unopened(v) == v.initialized = FALSE /\ DOMAIN v.requests = {}

Settings == [token : Token \cup {None}, redirect : Pages \cup {None}]

(* The device, the browsers, and every tab. *)
TabInv(v) ==
  /\ TypedTab(v) /\ Awaits(v) /\ Routed(v) /\ Chosen(v)
  /\ v.path = None => Unopened(v)

TabsInv ==
  /\ store \in [Browsers -> Settings]
  /\ tab = [t \in Tabs |-> tab[t]]
  /\ \A t \in Tabs : TabInv(tab[t])

DeviceInv ==
  /\ security \in SecuritySettings /\ flash \in SecuritySettings /\ ssid \in Networks
  /\ radio \in {"none", "scanning", "done"}

PageInv == DeviceInv /\ TabsInv /\ clicks \in 0..MaxClicks
=============================================================================
