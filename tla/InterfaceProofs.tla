-------------------------- MODULE InterfaceProofs --------------------------
(* For any number of tabs, browsers, requests, users, networks and polls:    *)
(* what a tab of the interface holds is of its type, it waits exactly for    *)
(* what is under way, and it shows the network that was selected; and the    *)
(* device keeps an admin, and only an admin of the settings replaced         *)
(* replaces them.                                                            *)
EXTENDS InterfaceInvariant, FiniteSetTheorems, TLAPS

---------------------------------------------------------------------------
(* Requests                                                                  *)

\* There is always a number that no request has.
LEMMA FreshIsNew ==
  ASSUME NEW q, IsFiniteSet(DOMAIN q)
  PROVE  Fresh(q) \notin DOMAIN q
<1> DEFINE n == Cardinality(DOMAIN q) + 1
<1>1. n \in Nat /\ n > Cardinality(DOMAIN q) /\ n >= 1 /\ Cardinality(DOMAIN q) \in Nat
  BY FS_CardinalityType
<1>2. IsFiniteSet(1..n) /\ Cardinality(1..n) = n
  <2> HIDE DEF n
  <2> QED BY <1>1, FS_Interval
<1>3. ~(1..n \subseteq DOMAIN q)
  <2> HIDE DEF n
  <2> QED BY <1>1, <1>2, FS_Subset
<1>4. \E i \in 1..n : i \notin DOMAIN q
  BY <1>3
<1> QED BY <1>4 DEF Fresh

\* What a request adds to those under way.
LEMMA SentTyped ==
  ASSUME NEW q, NEW m, NEW r, TypedRequests(q, m), TypedRequest(r), r.owner = "mounted",
         r.kind # "verify" => r.at = m
  PROVE  /\ TypedRequests(Sent(q, r), m)
         /\ Fresh(q) \notin DOMAIN q /\ DOMAIN Sent(q, r) = DOMAIN q \cup {Fresh(q)}
         /\ Sent(q, r)[Fresh(q)] = r
         /\ \A i \in DOMAIN q : Sent(q, r)[i] = q[i]
         /\ Own(Sent(q, r)) = IF r.kind = "verify" THEN Own(q) ELSE Own(q) \cup {Fresh(q)}
<1> DEFINE f == Fresh(q)
           e == Sent(q, r)
<1>1. f \notin DOMAIN q
  BY FreshIsNew DEF TypedRequests
<1>2. /\ e = [i \in DOMAIN e |-> e[i]] /\ DOMAIN e = DOMAIN q \cup {f}
      /\ e[f] = r /\ \A i \in DOMAIN q : e[i] = q[i]
  BY <1>1 DEF Sent
<1>3. IsFiniteSet(DOMAIN q \cup {f})
  BY FS_AddElement DEF TypedRequests
<1> HIDE DEF e, f
<1>4. Own(e) = IF r.kind = "verify" THEN Own(q) ELSE Own(q) \cup {f}
  BY <1>1, <1>2 DEF Own
<1>5. TypedRequests(e, m)
  <2>1. \A i \in DOMAIN e : TypedRequest(e[i])
    BY <1>2 DEF TypedRequests
  <2>2. \A i \in Own(e) : e[i].at = m
    BY <1>2, <1>4 DEF TypedRequests, Own
  <2> QED BY <1>2, <1>3, <2>1, <2>2 DEF TypedRequests
<1> QED BY <1>1, <1>2, <1>4, <1>5 DEF e, f

LEMMA DisownTyped ==
  ASSUME NEW q, NEW m, NEW from, NEW owner \in Owners \ {"mounted"}, TypedRequests(q, m)
  PROVE  /\ TypedRequests(Disown(q, from, owner), m)
         /\ DOMAIN Disown(q, from, owner) = DOMAIN q
         /\ Verifies(Disown(q, from, owner)) <=> Verifies(q)
         /\ "mounted" \in from => Own(Disown(q, from, owner)) = {}
<1> DEFINE d == Disown(q, from, owner)
<1>1. /\ d = [i \in DOMAIN d |-> d[i]] /\ DOMAIN d = DOMAIN q
      /\ \A i \in DOMAIN q :
           d[i] = IF q[i].owner \in from /\ q[i].kind # "verify"
                  THEN [q[i] EXCEPT !.owner = owner] ELSE q[i]
  BY DEF Disown
<1>2. ASSUME NEW i \in DOMAIN q
      PROVE  /\ TypedRequest(d[i])
             /\ d[i].kind = q[i].kind /\ d[i].at = q[i].at
             /\ d[i].owner = IF q[i].owner \in from /\ q[i].kind # "verify"
                             THEN owner ELSE q[i].owner
  <2> DEFINE r == q[i]
             e == [r EXCEPT !.owner = owner]
  <2>1. TypedRequest(r) BY DEF TypedRequests
  <2>2. /\ e = [k \in RequestFields |-> e[k]] /\ e.kind = r.kind /\ e.at = r.at
        /\ e.token = r.token /\ e.body = r.body /\ e.answer = r.answer /\ e.owner = owner
    BY <2>1 DEF TypedRequest, RequestFields
  <2>3. Answers(e) = Answers(r)
    <3> HIDE DEF e, r
    <3> QED BY <2>2 DEF Answers, Contents
  <2>4. r.kind # "verify" => TypedRequest(e)
    <3> HIDE DEF e, r
    <3> QED BY <2>1, <2>2, <2>3 DEF TypedRequest
  <2>5. d[i] = IF r.owner \in from /\ r.kind # "verify" THEN e ELSE r
    BY <1>1
  <2> HIDE DEF e, d
  <2> QED BY <2>1, <2>2, <2>4, <2>5
<1> HIDE DEF d
<1>3. Own(d) \subseteq Own(q) /\ ("mounted" \in from => Own(d) = {})
  BY <1>1, <1>2 DEF Own
<1>4. TypedRequests(d, m)
  BY <1>1, <1>2, <1>3 DEF TypedRequests, Own
<1>5. Verifies(d) <=> Verifies(q)
  BY <1>1, <1>2 DEF Verifies
<1> QED BY <1>1, <1>3, <1>4, <1>5 DEF d

LEMMA RestrictTyped ==
  ASSUME NEW q, NEW m, NEW S, TypedRequests(q, m), S \subseteq DOMAIN q
  PROVE  /\ TypedRequests(Restrict(q, S), m)
         /\ DOMAIN Restrict(q, S) = S /\ \A i \in S : Restrict(q, S)[i] = q[i]
         /\ Own(Restrict(q, S)) = Own(q) \cap S
<1> DEFINE d == Restrict(q, S)
<1>1. d = [i \in DOMAIN d |-> d[i]] /\ DOMAIN d = S /\ \A i \in S : d[i] = q[i]
  BY DEF Restrict
<1>2. IsFiniteSet(S)
  BY FS_Subset DEF TypedRequests
<1> HIDE DEF d
<1>3. Own(d) = Own(q) \cap S
  BY <1>1 DEF Own
<1>4. TypedRequests(d, m)
  BY <1>1, <1>2, <1>3 DEF TypedRequests
<1> QED BY <1>1, <1>3, <1>4 DEF d

\* What is left of the requests when one fails or is answered.
LEMMA LeftTyped ==
  ASSUME NEW q, NEW m, NEW i \in DOMAIN q, NEW a, TypedRequests(q, m)
  PROVE  /\ TypedRequests(Left(q, i, a), m)
         /\ DOMAIN q \ {i} \subseteq DOMAIN Left(q, i, a)
         /\ DOMAIN Left(q, i, a) \subseteq DOMAIN q
         /\ \A j \in DOMAIN q \ {i} : Left(q, i, a)[j] = q[j]
         /\ Own(Left(q, i, a)) = Own(q) \ {i}
<1> DEFINE p == Left(q, i, a)
           r == q[i]
           e == [r EXCEPT !.owner = "dead"]
           S == DOMAIN q \ {i}
<1>1. CASE Overdue(r, a)
  <2>1. p = [q EXCEPT ![i] = e]
    BY <1>1 DEF Left
  <2>2. TypedRequest(r) /\ r.kind # "verify" /\ q = [j \in DOMAIN q |-> q[j]]
    BY <1>1 DEF Overdue, TypedRequests
  <2>3. /\ e = [k \in RequestFields |-> e[k]] /\ e.kind = r.kind /\ e.at = r.at
        /\ e.token = r.token /\ e.body = r.body /\ e.answer = r.answer /\ e.owner = "dead"
    BY <2>2 DEF TypedRequest, RequestFields
  <2>4. r = q[i]
    OBVIOUS
  <2> HIDE DEF e, r
  <2>5. Answers(e) = Answers(r)
    BY <2>3 DEF Answers, Contents
  <2>6. TypedRequest(e)
    BY <2>2, <2>3, <2>5 DEF TypedRequest, Owners
  <2>7. /\ p = [j \in DOMAIN p |-> p[j]] /\ DOMAIN p = DOMAIN q /\ p[i] = e
        /\ \A j \in S : p[j] = q[j]
    BY <2>1, <2>2
  <2> HIDE DEF p
  <2>8. Own(p) = Own(q) \ {i}
    BY <2>3, <2>7 DEF Own
  <2>9. TypedRequests(p, m)
    BY <2>6, <2>7, <2>8 DEF TypedRequests, Own
  <2> QED BY <2>7, <2>8, <2>9 DEF p
<1>2. CASE ~Overdue(r, a)
  <2>1. p = Restrict(q, S)
    BY <1>2 DEF Left
  <2>2. Own(q) \cap S = Own(q) \ {i}
    BY DEF Own
  <2>3. S \subseteq DOMAIN q
    OBVIOUS
  <2> HIDE DEF p, S
  <2>4. TypedRequests(p, m) /\ DOMAIN p = S /\ (\A j \in S : p[j] = q[j]) /\ Own(p) = Own(q) \cap S
    BY <2>1, <2>3, RestrictTyped
  <2> QED BY <2>2, <2>3, <2>4 DEF p, S
<1> QED BY <1>1, <1>2

---------------------------------------------------------------------------
(* Tabs                                                                      *)

\* The tab w is the tab v but for some fields.
Alike(v, w, changed) == IsTab(w) /\ \A k \in TabFields \ changed : w[k] = v[k]

\* A new request of the mounted component.
LEMMA FetchTyped ==
  ASSUME NEW v, NEW s, NEW kind \in Kinds, NEW body, NEW w, w = Fetch(v, s, kind, body),
         TypedTab(v), s.token \in Token \cup {None}, kind = "verify" => s.token \in Token,
         v.mounted \in Senders(kind), body \in Bodies(kind, v.mounted)
  PROVE  /\ TypedTab(w) /\ Alike(v, w, {"requests"})
         /\ \A i \in DOMAIN v.requests :
              i \in DOMAIN w.requests /\ w.requests[i] = v.requests[i]
         /\ kind = "verify" => Own(w.requests) = Own(v.requests) /\ Verifies(w.requests)
         /\ kind # "verify" =>
              \E f \in DOMAIN w.requests :
                /\ Own(w.requests) = Own(v.requests) \cup {f}
                /\ w.requests[f].kind = kind /\ w.requests[f].body = body
<1> DEFINE r == [owner |-> "mounted", kind |-> kind, at |-> v.mounted, token |-> s.token,
                 body |-> body, answer |-> None]
           q == v.requests
           e == Sent(q, r)
           x == [v EXCEPT !.requests = e]
<1>1. /\ r = [k \in RequestFields |-> r[k]] /\ r.owner = "mounted" /\ r.kind = kind
      /\ r.at = v.mounted /\ r.token = s.token /\ r.body = body /\ r.answer = None
  BY DEF RequestFields
<1>2. w = [v EXCEPT !.requests = Sent(@, r)]
  BY DEF Fetch
<1> HIDE DEF r
<1>3. TypedRequest(r)
  BY <1>1 DEF TypedRequest, Owners
<1>4. /\ TypedRequests(e, v.mounted)
      /\ DOMAIN e = DOMAIN q \cup {Fresh(q)} /\ e[Fresh(q)] = r
      /\ \A i \in DOMAIN q : e[i] = q[i]
      /\ Own(e) = IF r.kind = "verify" THEN Own(q) ELSE Own(q) \cup {Fresh(q)}
  <2>1. r.kind # "verify" => r.at = v.mounted
    BY <1>1
  <2>2. r.owner = "mounted"
    BY <1>1
  <2>3. TypedRequest(r) /\ TypedRequests(q, v.mounted)
    BY <1>3 DEF TypedTab
  <2> HIDE DEF q
  <2> QED BY <2>1, <2>2, <2>3, SentTyped
<1>5. w = x
  BY <1>2
<1> HIDE DEF e
<1>6. Alike(v, x, {"requests"}) /\ x.requests = e
  BY DEF Alike, TypedTab, IsTab, TabFields
<1> HIDE DEF x
<1>7. TypedTab(x)
  BY <1>4, <1>6 DEF TypedTab, Alike, TabFields
<1>8. kind = "verify" => Own(e) = Own(q) /\ Verifies(e)
  BY <1>1, <1>4 DEF Verifies
<1>9. kind # "verify" =>
        Own(e) = Own(q) \cup {Fresh(q)} /\ e[Fresh(q)].kind = kind /\ e[Fresh(q)].body = body
  BY <1>1, <1>4
<1> QED BY <1>4, <1>5, <1>6, <1>7, <1>8, <1>9

\* The first request of a component that now waits for it, with nothing to show.
LEMMA FirstRequest ==
  ASSUME NEW v, NEW s, NEW kind \in {"load", "scan"}, NEW w, NEW x, TypedTab(v),
         s.token \in Token \cup {None}, v.mounted \in Senders(kind),
         Own(v.requests) = {}, v.timer = FALSE,
         Alike(v, w, {"data", "waiting", "polls"}), w.data = None, w.waiting = TRUE,
         w.polls \in 0..(NumPolls - 1), x = Fetch(w, s, kind, None)
  PROVE  /\ TypedTab(x) /\ Awaits(x)
         /\ Alike(v, x, {"data", "waiting", "polls", "requests"})
         /\ Alike(w, x, {"requests"})
         /\ Verifies(v.requests) => Verifies(x.requests)
<1>1. w.requests = v.requests /\ w.mounted = v.mounted /\ w.timer = FALSE
  BY DEF Alike, TabFields
<1>2. TypedTab(w)
  BY DEF TypedTab, Alike, TabFields
<1>3. /\ TypedTab(x) /\ Alike(w, x, {"requests"})
      /\ \A i \in DOMAIN w.requests :
           i \in DOMAIN x.requests /\ x.requests[i] = w.requests[i]
      /\ \E f \in DOMAIN x.requests : Own(x.requests) = Own(w.requests) \cup {f}
  <2>1. /\ None \in Bodies(kind, w.mounted) /\ kind \in Kinds /\ kind # "verify"
        /\ w.mounted \in Senders(kind)
    BY <1>1 DEF Bodies, Kinds
  <2> QED BY <1>2, <2>1, FetchTyped
<1>4. x.waiting = TRUE /\ x.timer = FALSE
  BY <1>1, <1>3 DEF Alike, TabFields
<1>5. Awaits(x)
  BY <1>1, <1>3, <1>4 DEF Awaits
<1>6. Alike(v, x, {"data", "waiting", "polls", "requests"})
  BY <1>3 DEF Alike
<1>7. Verifies(v.requests) => Verifies(x.requests)
  BY <1>1, <1>3 DEF Verifies
<1> QED BY <1>3, <1>5, <1>6, <1>7

LEMMA LoadDataTyped ==
  ASSUME NEW v, NEW s, NEW x, x = LoadData(v, s), TypedTab(v),
         s.token \in Token \cup {None}, v.mounted \in Pages \ {"scan"},
         Own(v.requests) = {}, v.timer = FALSE
  PROVE  /\ TypedTab(x) /\ Awaits(x) /\ Alike(v, x, {"data", "waiting", "requests"})
         /\ Verifies(v.requests) => Verifies(x.requests)
<1> DEFINE w == [v EXCEPT !.data = None, !.waiting = TRUE]
<1>1. Alike(v, w, {"data", "waiting"}) /\ w.data = None /\ w.waiting = TRUE
  BY DEF TypedTab, Alike, IsTab, TabFields
<1>2. x = Fetch(w, s, "load", None)
  BY DEF LoadData
<1>3. v.mounted \in Senders("load")
  BY DEF Senders
<1> HIDE DEF w
<1>4. w.polls \in 0..(NumPolls - 1) /\ Alike(v, w, {"data", "waiting", "polls"})
  BY <1>1 DEF TypedTab, Alike, TabFields
<1>5. /\ TypedTab(x) /\ Awaits(x) /\ Alike(w, x, {"requests"})
      /\ Verifies(v.requests) => Verifies(x.requests)
  BY <1>1, <1>2, <1>3, <1>4, FirstRequest
<1>6. Alike(v, x, {"data", "waiting", "requests"})
  BY <1>1, <1>5 DEF Alike
<1> QED BY <1>5, <1>6

LEMMA ScanNetworksTyped ==
  ASSUME NEW v, NEW s, NEW x, x = ScanNetworks(v, s), TypedTab(v),
         s.token \in Token \cup {None}, v.mounted = "scan",
         Own(v.requests) = {}, v.timer = FALSE
  PROVE  /\ TypedTab(x) /\ Awaits(x) /\ Alike(v, x, {"data", "waiting", "polls", "requests"})
         /\ Verifies(v.requests) => Verifies(x.requests)
<1> DEFINE w == [v EXCEPT !.data = None, !.waiting = TRUE, !.polls = 0]
<1>1. /\ Alike(v, w, {"data", "waiting", "polls"})
      /\ w.data = None /\ w.waiting = TRUE /\ w.polls = 0
  BY DEF TypedTab, Alike, IsTab, TabFields
<1>2. x = Fetch(w, s, "scan", None)
  BY DEF ScanNetworks
<1>3. v.mounted \in Senders("scan") /\ w.polls \in 0..(NumPolls - 1)
  BY <1>1, NumPollsAssumption DEF Senders
<1> HIDE DEF w
<1> QED BY <1>1, <1>2, <1>3, FirstRequest

\* A tab whose page was unmounted.
Vacant(v) ==
  /\ TypedTab(v) /\ Own(v.requests) = {}
  /\ v.mounted = None /\ v.waiting = FALSE /\ v.timer = FALSE /\ v.data = None

LEMMA UnmountTyped ==
  ASSUME NEW v, TypedTab(v), NEW x, x = Unmount(v)
  PROVE  /\ Vacant(x)
         /\ Alike(v, x, {"mounted", "waiting", "data", "polls", "timer", "requests"})
         /\ Verifies(x.requests) <=> Verifies(v.requests)
<1> DEFINE q == Disown(v.requests, {"mounted"}, "left")
<1>1. /\ TypedRequests(q, v.mounted) /\ Own(q) = {}
      /\ Verifies(q) <=> Verifies(v.requests)
  BY DisownTyped DEF TypedTab, Owners
<1>2. TypedRequests(q, None)
  BY <1>1 DEF TypedRequests
<1> HIDE DEF q
<1> DEFINE w == [v EXCEPT !.mounted = None, !.waiting = FALSE, !.data = None, !.polls = 0,
                         !.timer = FALSE, !.requests = q]
<1>3. /\ Alike(v, w, {"mounted", "waiting", "data", "polls", "timer", "requests"})
      /\ w.mounted = None /\ w.waiting = FALSE /\ w.data = None /\ w.polls = 0
      /\ w.timer = FALSE /\ w.requests = q
  BY DEF TypedTab, Alike, IsTab, TabFields
<1>4. x = w
  BY DEF Unmount, q
<1> HIDE DEF w
<1>5. TypedTab(w)
  <2>1. 0 \in 0..(NumPolls - 1)
    BY NumPollsAssumption
  <2> QED BY <1>2, <1>3, <2>1 DEF TypedTab, Alike, TabFields
<1> QED BY <1>1, <1>3, <1>4, <1>5 DEF Vacant

LEMMA MountTyped ==
  ASSUME NEW v, NEW page \in Pages \cup {SignIn}, NEW s, NEW x, x = Mount(v, page, s),
         Vacant(v), s.token \in Token \cup {None}
  PROVE  /\ TypedTab(x) /\ Awaits(x) /\ Chosen(x) /\ x.mounted = page
         /\ Alike(v, x, {"mounted", "selected", "waiting", "data", "polls", "requests"})
<1> DEFINE w == [v EXCEPT !.mounted = page,
                         !.selected = IF page \in WiFiConnection THEN @ ELSE None]
           y == [w EXCEPT !.data = [ssid |-> w.selected]]
<1>1. /\ Alike(v, w, {"mounted", "selected"}) /\ w.mounted = page
      /\ w.selected \in {v.selected, None}
  BY DEF Vacant, TypedTab, Alike, IsTab, TabFields
<1>2. x = CASE page = SignIn -> w
       [] page = "scan" -> ScanNetworks(w, s)
       [] page = "wifi" /\ w.selected # None -> y
       [] OTHER -> LoadData(w, s)
  BY DEF Mount
<1> HIDE DEF w
<1>3. /\ w.requests = v.requests /\ w.data = None /\ w.timer = FALSE /\ w.waiting = FALSE
      /\ Own(w.requests) = {}
  BY <1>1 DEF Vacant, Alike, TabFields
<1>4. TypedTab(w)
  <2>1. TypedRequests(w.requests, page)
    BY <1>3 DEF Vacant, TypedTab, TypedRequests
  <2> QED BY <1>1, <1>3, <2>1 DEF Vacant, TypedTab, Alike, TabFields
<1>5. CASE page = SignIn
  <2>1. x = w
    BY <1>2, <1>5, SMT DEF SignIn
  <2>2. Awaits(w) /\ Chosen(w)
    BY <1>1, <1>3, <1>5 DEF Awaits, Chosen, SignIn
  <2> QED BY <1>1, <1>4, <2>1, <2>2 DEF Alike
<1>6. CASE page = "scan"
  <2>1. x = ScanNetworks(w, s)
    BY <1>2, <1>6 DEF SignIn
  <2>2. /\ TypedTab(x) /\ Awaits(x)
        /\ Alike(w, x, {"data", "waiting", "polls", "requests"})
    BY <1>1, <1>3, <1>4, <1>6, <2>1, ScanNetworksTyped
  <2>3. x.mounted = page
    BY <1>1, <2>2 DEF Alike, TabFields
  <2>4. Chosen(x)
    BY <1>6, <2>3 DEF Chosen
  <2> QED BY <1>1, <2>2, <2>3, <2>4 DEF Alike
<1>7. CASE page = "wifi" /\ w.selected # None
  <2>1. x = y
    BY <1>2, <1>7 DEF SignIn
  <2>2. Alike(w, y, {"data"}) /\ y.data = [ssid |-> w.selected]
    BY <1>4 DEF TypedTab, IsTab, Alike, TabFields
  <2>3. y.data \in Documents("wifi")
    BY <1>4, <1>7, <2>2 DEF TypedTab, Documents, ReadingPages, SecurityPages
  <2> HIDE DEF y
  <2>4. TypedTab(y)
    BY <1>1, <1>4, <1>7, <2>2, <2>3 DEF TypedTab, Alike, TabFields
  <2>5. Awaits(y)
    BY <1>3, <2>2 DEF Awaits, Alike, TabFields
  <2>6. y.mounted = page /\ Chosen(y)
    BY <1>1, <1>3, <2>2 DEF Chosen, Alike, TabFields
  <2>7. Alike(v, y, {"mounted", "selected", "waiting", "data", "polls", "requests"})
    BY <1>1, <2>2 DEF Alike
  <2> QED BY <2>1, <2>4, <2>5, <2>6, <2>7
<1>8. CASE page \notin {SignIn, "scan"} /\ ~(page = "wifi" /\ w.selected # None)
  <2>1. x = LoadData(w, s)
    BY <1>2, <1>8, Zenon
  <2>2. w.mounted \in Pages \ {"scan"}
    BY <1>1, <1>8
  <2>3. TypedTab(x) /\ Awaits(x) /\ Alike(w, x, {"data", "waiting", "requests"})
    BY <1>3, <1>4, <2>1, <2>2, LoadDataTyped
  <2>4. x.mounted = page /\ x.selected = w.selected
    BY <1>1, <2>3 DEF Alike, TabFields
  <2>5. Chosen(x)
    BY <1>8, <2>4 DEF Chosen
  <2> QED BY <1>1, <2>3, <2>4, <2>5 DEF Alike
<1> QED BY <1>5, <1>6, <1>7, <1>8

---------------------------------------------------------------------------
(* Routes                                                                    *)

\* Where a tab is sent agrees with its user.
LEMMA PathTyped ==
  ASSUME NEW v, NEW s \in Settings, TypedTab(v), v.initialized = TRUE, v.path # None
  PROVE  /\ Path(v, s) \in Pages \cup {Root}
         /\ Component(Path(v, s)) \in Pages \cup {SignIn}
         /\ v.user = None <=> Path(v, s) = Root
<1>1. v.path \in Pages \cup {Root} /\ s.redirect \in Pages \cup {None}
  BY DEF TypedTab, Settings
<1>2. Root \notin Pages /\ Home \in Pages
  BY DEF Root, Home, Pages, AdminPages, ReadingPages, SecurityPages, WiFiPages
<1>3. fetchLoginRedirect(s) \in Pages
  BY <1>1, <1>2 DEF fetchLoginRedirect
<1>4. Path(v, s) \in Pages \cup {Root} /\ (v.user = None <=> Path(v, s) = Root)
  BY <1>1, <1>2, <1>3 DEF Path, Refused, Entering
<1> QED BY <1>4 DEF Component

\* The address of a tab and its user have no part in what its component waits
\* for or shows.
SessionFields == {"initialized", "user", "path"}

LEMMA SessionAlike ==
  ASSUME NEW v, NEW w, TypedTab(v), Alike(v, w, SessionFields), w.initialized \in BOOLEAN,
         w.user \in [username : Names, admin : BOOLEAN] \cup {None},
         w.path \in Pages \cup {Root, None}
  PROVE  /\ TypedTab(w) /\ w.mounted = v.mounted /\ w.requests = v.requests
         /\ Awaits(v) => Awaits(w)
         /\ Chosen(v) => Chosen(w)
<1>1. \A k \in TabFields \ SessionFields : w[k] = v[k]
  BY DEF Alike
<1>2. /\ w.requests = v.requests /\ w.waiting = v.waiting /\ w.timer = v.timer
      /\ w.mounted = v.mounted /\ w.selected = v.selected /\ w.data = v.data
      /\ w.polls = v.polls
  BY <1>1 DEF TabFields, SessionFields
<1>3. TypedTab(w)
  BY <1>2 DEF TypedTab, Alike
<1> QED BY <1>2, <1>3 DEF Awaits, Chosen

\* A tab may be rendered: it awaits something, or its page will be replaced.
Renders(v, s) ==
  \/ Awaits(v) /\ Chosen(v)
  \/ v.initialized = TRUE /\ Component(Path(v, s)) # v.mounted

LEMMA RenderTyped ==
  ASSUME NEW v, NEW s \in Settings, NEW r, r = Render(v, s), TypedTab(v), v.path # None,
         v.initialized = FALSE => v.mounted = None /\ Verifies(v.requests),
         Renders(v, s)
  PROVE  TabInv(r.tab) /\ r.tab.path # None /\ r.store \in Settings
<1> DEFINE w == [v EXCEPT !.path = Path(v, s)]
           target == IF v.initialized THEN Component(w.path) ELSE None
<1>1. /\ r.tab = IF target = v.mounted THEN w ELSE Mount(Unmount(w), target, s)
      /\ r.store = [s EXCEPT !.redirect = IF Refused(v) THEN v.path
                                          ELSE IF Entering(v) THEN None ELSE @]
  BY Zenon DEF Render
<1>2. /\ Alike(v, w, SessionFields) /\ w.path = Path(v, s)
      /\ w.initialized = v.initialized /\ w.user = v.user
  BY DEF TypedTab, IsTab, Alike, TabFields, SessionFields
<1>3. r.store \in Settings
  <2>1. Refused(v) => v.path \in Pages
    BY DEF Refused, TypedTab
  <2> QED BY <1>1, <2>1 DEF Settings
<1>4. v.initialized \in BOOLEAN /\ s.token \in Token \cup {None}
  BY DEF TypedTab, Settings
<1> HIDE DEF w
<1>5. CASE v.initialized = FALSE
  <2>1. Path(v, s) = v.path /\ v.path \in Pages \cup {Root}
    BY <1>5 DEF Path, Refused, Entering, TypedTab
  <2>2. r.tab = w
    BY <1>1, <1>5
  <2>3. /\ TypedTab(w) /\ Awaits(w) /\ Chosen(w) /\ w.path # None
        /\ w.mounted = None /\ w.initialized = FALSE /\ Verifies(w.requests)
    BY <1>2, <1>5, <2>1, SessionAlike DEF Renders, TypedTab
  <2> QED BY <1>3, <2>2, <2>3 DEF TabInv, Routed
<1>6. CASE v.initialized = TRUE
  <2>1. /\ w.path \in Pages \cup {Root} /\ target = Component(w.path)
        /\ target \in Pages \cup {SignIn} /\ (v.user = None <=> w.path = Root)
    BY <1>2, <1>6, PathTyped
  <2>2. /\ TypedTab(w) /\ w.mounted = v.mounted /\ w.initialized = TRUE /\ w.user = v.user
        /\ Awaits(v) => Awaits(w)
        /\ Chosen(v) => Chosen(w)
    BY <1>2, <1>6, <2>1, SessionAlike DEF TypedTab
  <2>3. w.path # None
    BY <2>1, NoneAssumption
  <2> HIDE DEF target
  <2>4. CASE target = v.mounted
    <3>1. r.tab = w /\ Awaits(w) /\ Chosen(w)
      BY <1>1, <1>2, <2>1, <2>2, <2>4 DEF Renders
    <3> QED BY <1>3, <2>1, <2>2, <2>3, <2>4, <3>1 DEF TabInv, Routed
  <2>5. CASE target # v.mounted
    <3> DEFINE u == Unmount(w)
               x == Mount(u, target, s)
    <3>1. /\ Vacant(u)
          /\ Alike(w, u, {"mounted", "waiting", "data", "polls", "timer", "requests"})
      BY <2>2, UnmountTyped
    <3> HIDE DEF u
    <3>2. /\ TypedTab(x) /\ Awaits(x) /\ Chosen(x) /\ x.mounted = target
          /\ Alike(u, x, {"mounted", "selected", "waiting", "data", "polls", "requests"})
      BY <1>4, <2>1, <3>1, MountTyped
    <3>3. r.tab = x
      BY <1>1, <2>5 DEF u
    <3> HIDE DEF x
    <3>4. x.initialized = TRUE /\ x.user = w.user /\ x.path = w.path
      BY <2>2, <3>1, <3>2 DEF Alike, TabFields
    <3> QED BY <1>3, <2>1, <2>2, <2>3, <3>2, <3>3, <3>4 DEF TabInv, Routed
  <2> QED BY <2>4, <2>5
<1> QED BY <1>4, <1>5, <1>6
LEMMA ContextChangedTyped ==
  ASSUME NEW v, NEW s \in Settings, NEW r, r = ContextChanged(v, s), TypedTab(v),
         v.path # None, v.initialized = FALSE => v.mounted = None /\ Verifies(v.requests),
         Renders(v, s) \/ v.mounted \in WiFiPages
  PROVE  TabInv(r.tab) /\ r.tab.path # None /\ r.store \in Settings
<1>1. CASE v.mounted \in WiFiPages
  <2> DEFINE u == Unmount(v)
  <2>1. r = Render(u, s)
    BY <1>1 DEF ContextChanged
  <2>2. /\ Vacant(u)
        /\ Verifies(u.requests) <=> Verifies(v.requests)
        /\ Alike(v, u, {"mounted", "waiting", "data", "polls", "timer", "requests"})
    BY UnmountTyped
  <2> HIDE DEF u
  <2>3. u.path = v.path /\ u.initialized = v.initialized
    BY <2>2 DEF Alike, TabFields
  <2>4. None # "wifi"
    BY NoneAssumption DEF Pages, AdminPages, ReadingPages, WiFiPages
  <2>5. Renders(u, s)
    BY <2>2, <2>4 DEF Vacant, Renders, Awaits, Chosen
  <2>6. TypedTab(u) /\ u.mounted = None
    BY <2>2 DEF Vacant
  <2> QED BY <2>1, <2>2, <2>3, <2>5, <2>6, RenderTyped
<1>2. CASE v.mounted \notin WiFiPages
  BY <1>2, RenderTyped DEF ContextChanged
<1> QED BY <1>1, <1>2

\* A tab that waits for nothing else enters the application, or verifies its
\* token on the way.
LEMMA refreshTyped ==
  ASSUME NEW v, NEW s \in Settings, NEW r, r = refresh(v, s), TypedTab(v), v.path # None,
         Awaits(v), Chosen(v),
         v.initialized = FALSE => v.mounted = None,
         v.initialized = TRUE => Routed(v)
  PROVE  TabInv(r.tab) /\ r.tab.path # None /\ r.store \in Settings
<1>1. CASE s.token # None
  <2> DEFINE w == Fetch(v, s, "verify", None)
  <2>1. r.tab = w /\ r.store = s
    BY <1>1 DEF refresh
  <2>2. /\ s.token \in Token /\ v.mounted \in Senders("verify")
        /\ None \in Bodies("verify", v.mounted) /\ "verify" \in Kinds
    BY <1>1 DEF Settings, Senders, Bodies, Kinds, TypedTab
  <2>3. /\ TypedTab(w) /\ Alike(v, w, {"requests"})
        /\ \A i \in DOMAIN v.requests :
             i \in DOMAIN w.requests /\ w.requests[i] = v.requests[i]
        /\ Own(w.requests) = Own(v.requests) /\ Verifies(w.requests)
    BY <2>2, FetchTyped
  <2> HIDE DEF w
  <2>4. /\ w.waiting = v.waiting /\ w.timer = v.timer /\ w.mounted = v.mounted
        /\ w.selected = v.selected /\ w.data = v.data /\ w.path = v.path
        /\ w.initialized = v.initialized /\ w.user = v.user
    BY <2>3 DEF Alike, TabFields
  <2>5. Awaits(w)
    BY <2>3, <2>4 DEF Awaits
  <2>6. Chosen(w)
    BY <2>3, <2>4 DEF Chosen, Own
  <2>7. Routed(w)
    BY <2>3, <2>4 DEF Routed
  <2> QED BY <2>1, <2>3, <2>4, <2>5, <2>6, <2>7 DEF TabInv
<1>2. CASE s.token = None
  <2> DEFINE w == [v EXCEPT !.initialized = TRUE, !.user = None]
  <2>1. r = ContextChanged(w, s)
    BY <1>2 DEF refresh
  <2>2. /\ Alike(v, w, SessionFields) /\ w.initialized = TRUE /\ w.user = None
        /\ w.path = v.path
    BY DEF TypedTab, IsTab, Alike, TabFields, SessionFields
  <2> HIDE DEF w
  <2>3. TypedTab(w) /\ Awaits(w) /\ Chosen(w)
    BY <2>2, SessionAlike DEF TypedTab
  <2> QED BY <2>1, <2>2, <2>3, ContextChangedTyped DEF Renders
<1> QED BY <1>1, <1>2

LEMMA EnterTyped ==
  ASSUME NEW path \in Pages \cup {Root}, NEW q, TypedRequests(q, None), Own(q) = {},
         NEW s \in Settings, NEW r, r = Enter(path, q, s)
  PROVE  TabInv(r.tab) /\ r.tab.path # None /\ r.store \in Settings
<1> DEFINE w == NewTab(path, q)
           z == [s EXCEPT !.redirect = None]
<1>1. /\ IsTab(w) /\ w.initialized = FALSE /\ w.user = None /\ w.path = path
      /\ w.mounted = None /\ w.waiting = FALSE /\ w.data = None /\ w.selected = None
      /\ w.polls = 0 /\ w.timer = FALSE /\ w.requests = q
  BY DEF NewTab, IsTab, TabFields
<1>2. r = refresh(w, z) /\ z \in Settings
  BY DEF Enter, Settings
<1> HIDE DEF w, z
<1>3. TypedTab(w) /\ w.path # None
  <2>1. 0 \in 0..(NumPolls - 1) /\ path # None
    BY NumPollsAssumption, NoneAssumption
  <2> QED BY <1>1, <2>1 DEF TypedTab
<1>4. Awaits(w) /\ Chosen(w)
  BY <1>1, NoneAssumption DEF Awaits, Chosen
<1> QED BY <1>1, <1>2, <1>3, <1>4, refreshTyped

LEMMA UnauthorizeTyped ==
  ASSUME NEW v, NEW s \in Settings, NEW r, r = Unauthorize(v, s), TypedTab(v)
  PROVE  TabInv(r.tab) /\ r.tab.path # None /\ r.store \in Settings
<1> DEFINE S == {i \in DOMAIN v.requests : v.requests[i].kind # "verify"}
           q == Restrict(v.requests, S)
           d == Disown(q, {"mounted", "left"}, "gone")
<1>1. TypedRequests(q, v.mounted)
  BY RestrictTyped DEF TypedTab
<1>2. r = Enter(Root, d, s)
  BY DEF Unauthorize
<1> HIDE DEF q
<1>3. TypedRequests(d, v.mounted) /\ Own(d) = {}
  BY <1>1, DisownTyped DEF Owners
<1> HIDE DEF d
<1>4. TypedRequests(d, None)
  BY <1>3 DEF TypedRequests
<1> QED BY <1>2, <1>3, <1>4, EnterTyped

LEMMA ReloadTyped ==
  ASSUME NEW v, NEW path \in Pages \cup {Root}, NEW s \in Settings,
         NEW r, r = Reload(v, path, s), TypedTab(v)
  PROVE  TabInv(r.tab) /\ r.tab.path # None /\ r.store \in Settings
<1> DEFINE S == {i \in DOMAIN v.requests :
                   v.requests[i].kind = "save" /\ v.requests[i].answer = None}
           q == Restrict(v.requests, S)
           d == Disown(q, Owners, "dead")
<1>1. TypedRequests(q, v.mounted)
  BY RestrictTyped DEF TypedTab
<1>2. r = Enter(path, d, s)
  BY DEF Reload
<1> HIDE DEF q
<1>3. TypedRequests(d, v.mounted) /\ Own(d) = {}
  BY <1>1, DisownTyped DEF Owners
<1> HIDE DEF d
<1>4. TypedRequests(d, None)
  BY <1>3 DEF TypedRequests
<1> QED BY <1>2, <1>3, <1>4, EnterTyped

---------------------------------------------------------------------------
(* Answers                                                                   *)

\* The answer a to the request r arrives at the tab v, which no longer has it
\* under way: if it is what the component waited for, nothing else is.
IsOwn(r) == r.owner = "mounted" /\ r.kind # "verify"

Received(v, r, a) ==
  /\ TypedTab(v) /\ Chosen(v) /\ v.path # None
  /\ TypedRequest(r) /\ a \in Answers(r)
  /\ v.initialized = FALSE => v.mounted = None
  /\ r.kind # "verify" \/ v.initialized = TRUE => Routed(v)
  /\ IsOwn(r) =>
       /\ r.at = v.mounted /\ v.waiting = TRUE /\ v.timer = FALSE /\ Own(v.requests) = {}
       /\ v.mounted = "wifi" /\ v.selected # None => r.kind = "save" /\ r.body = v.data
  /\ ~IsOwn(r) => Awaits(v)

LEMMA VerifiedTyped ==
  ASSUME NEW v, NEW s \in Settings, NEW r, NEW a, Received(v, r, a), r.kind = "verify",
         NEW x, x = Verified(v, s, r, a)
  PROVE  TabInv(x.tab) /\ x.store \in Settings
<1> DEFINE user == IF a.status = "ok" THEN Payload(r.token) ELSE None
           w == [v EXCEPT !.initialized = TRUE, !.user = user]
<1>1. user \in [username : Names, admin : BOOLEAN] \cup {None}
  BY DEF Received, TypedRequest, Payload, Token
<1>2. x = ContextChanged(w, s)
  BY DEF Verified
<1> HIDE DEF user
<1>3. /\ Alike(v, w, SessionFields) /\ w.initialized = TRUE /\ w.user = user
      /\ w.path = v.path
  BY DEF Received, TypedTab, IsTab, Alike, TabFields, SessionFields
<1> HIDE DEF w
<1>4. TypedTab(v) /\ Awaits(v) /\ Chosen(v) /\ v.path # None
  BY DEF Received, IsOwn
<1>5. TypedTab(w) /\ Awaits(w) /\ Chosen(w)
  BY <1>1, <1>3, <1>4, SessionAlike DEF TypedTab
<1> QED BY <1>2, <1>3, <1>4, <1>5, ContextChangedTyped DEF Renders

\* The component stops waiting and shows what may be shown.
LEMMA EndedTyped ==
  ASSUME NEW v, NEW data, NEW w, w = [v EXCEPT !.waiting = FALSE, !.data = data],
         TypedTab(v), Routed(v), v.timer = FALSE, Own(v.requests) = {}, v.path # None,
         data = None \/ data \in Documents(v.mounted),
         v.mounted = "wifi" /\ v.selected # None => data = [ssid |-> v.selected]
  PROVE  TabInv(w) /\ w.path # None
<1>1. Alike(v, w, {"waiting", "data"}) /\ w.waiting = FALSE /\ w.data = data
  BY DEF TypedTab, IsTab, Alike, TabFields
<1>2. /\ w.requests = v.requests /\ w.mounted = v.mounted /\ w.timer = FALSE
      /\ w.selected = v.selected /\ w.path = v.path /\ w.initialized = v.initialized
      /\ w.user = v.user /\ w.polls = v.polls
  BY <1>1 DEF Alike, TabFields
<1>3. TypedTab(w)
  BY <1>1, <1>2 DEF TypedTab, Alike
<1> QED BY <1>1, <1>2, <1>3 DEF TabInv, Awaits, Routed, Chosen

LEMMA SignedInTyped ==
  ASSUME NEW v, NEW s \in Settings, NEW r, NEW a, Received(v, r, a), r.kind = "signin",
         NEW x, x = SignedIn(v, s, r, a)
  PROVE  TabInv(x.tab) /\ x.store \in Settings
<1>1. /\ TypedTab(v) /\ Chosen(v) /\ v.path # None /\ Routed(v)
      /\ TypedRequest(r) /\ a \in Answers(r)
  BY DEF Received
<1>2. ~IsOwn(r) => TabInv(v)
  BY <1>1 DEF Received, TabInv
<1>3. IsOwn(r) => v.mounted = SignIn
  BY <1>1 DEF Received, TypedRequest, Senders, SignIn
<1>4. CASE a.status # "ok"
  <2> DEFINE w == [v EXCEPT !.waiting = FALSE]
  <2>1. x.tab = (IF IsOwn(r) THEN w ELSE v) /\ x.store = s
    BY <1>4 DEF SignedIn, IsOwn
  <2>2. w = [v EXCEPT !.waiting = FALSE, !.data = v.data]
    BY <1>1 DEF TypedTab, IsTab, TabFields
  <2> HIDE DEF w
  <2>3. ASSUME IsOwn(r) PROVE TabInv(w)
    <3>1. v.timer = FALSE /\ Own(v.requests) = {} /\ v.mounted # "wifi"
      BY <1>3, <2>3 DEF Received, SignIn
    <3>2. v.data = None \/ v.data \in Documents(v.mounted)
      BY <1>1 DEF TypedTab
    <3> QED BY <1>1, <2>2, <3>1, <3>2, EndedTyped
  <2> QED BY <1>2, <2>1, <2>3
<1>5. CASE a.status = "ok"
  <2> DEFINE stored == [s EXCEPT !.token = a.content]
             w == [v EXCEPT !.user = Payload(a.content)]
  <2>1. a.content \in Token
    BY <1>1, <1>5 DEF Answers, Contents, Answer, Failed, Unauthorized
  <2>2. stored \in Settings
    BY <2>1 DEF Settings
  <2>3. Payload(a.content) \in [username : Names, admin : BOOLEAN]
    BY <2>1 DEF Payload, Token
  <2>4. x = IF r.owner = "gone" THEN [tab |-> v, store |-> stored]
            ELSE ContextChanged(w, stored)
    BY <1>5 DEF SignedIn
  <2>5. CASE r.owner = "gone"
    BY <1>2, <2>2, <2>4, <2>5 DEF IsOwn
  <2>6. CASE r.owner # "gone"
    <3>1. /\ Alike(v, w, SessionFields) /\ w.initialized = v.initialized
          /\ w.user = Payload(a.content) /\ w.path = v.path
      BY <1>1 DEF TypedTab, IsTab, Alike, TabFields, SessionFields
    <3> HIDE DEF w, stored
    <3>2. /\ TypedTab(w) /\ w.mounted = v.mounted /\ w.requests = v.requests
          /\ Awaits(v) => Awaits(w)
          /\ Chosen(v) => Chosen(w)
      BY <1>1, <2>3, <3>1, SessionAlike DEF TypedTab
    <3>3. ASSUME IsOwn(r)
          PROVE  w.initialized = TRUE /\ Component(Path(w, stored)) # w.mounted
      <4>1. v.initialized = TRUE
        BY <1>1, <1>3, <3>3, NoneAssumption DEF Routed, TypedTab
      <4>2. v.path = Root
        BY <1>1, <1>3, <3>3, <4>1 DEF Routed, Component, TypedTab, Pages, AdminPages, ReadingPages,
           SecurityPages, WiFiPages, SignIn
      <4>3. w.user # None
        BY <2>3, <3>1, NoneAssumption
      <4>4. fetchLoginRedirect(stored) \in Pages
        BY <2>2 DEF fetchLoginRedirect, Settings, Home, Pages, ReadingPages
      <4>5. Path(w, stored) \in Pages
        BY <3>1, <4>1, <4>2, <4>3, <4>4 DEF Path, Refused, Entering
      <4> QED BY <1>3, <3>1, <3>2, <3>3, <4>1, <4>5
              DEF Component, Pages, AdminPages, ReadingPages, SecurityPages, WiFiPages, SignIn, Root
    <3>4. Renders(w, stored)
      BY <1>1, <3>2, <3>3 DEF Renders, Received
    <3>5. w.initialized = FALSE => w.mounted = None /\ Verifies(w.requests)
      BY <1>1, <3>1, <3>2 DEF Routed
    <3> QED BY <1>1, <2>2, <2>4, <2>6, <3>1, <3>2, <3>4, <3>5, ContextChangedTyped
  <2> QED BY <2>5, <2>6
<1> QED BY <1>4, <1>5

LEMMA LoadedTyped ==
  ASSUME NEW v, NEW s \in Settings, NEW r, NEW a, Received(v, r, a), r.kind = "load",
         NEW x, x = Loaded(v, s, r, a)
  PROVE  TabInv(x.tab) /\ x.store \in Settings
<1>1. /\ TypedTab(v) /\ Chosen(v) /\ v.path # None /\ Routed(v)
      /\ TypedRequest(r) /\ a \in Answers(r)
  BY DEF Received
<1>2. CASE ~IsOwn(r)
  BY <1>1, <1>2 DEF Received, TabInv, Loaded, IsOwn
<1>3. CASE IsOwn(r)
  <2> DEFINE w == [v EXCEPT !.waiting = FALSE, !.data = a.content]
  <2>1. x.tab = w /\ x.store = s
    BY <1>3 DEF Loaded, IsOwn
  <2>2. /\ r.at = v.mounted /\ v.timer = FALSE /\ Own(v.requests) = {}
        /\ ~(v.mounted = "wifi" /\ v.selected # None)
    BY <1>3 DEF Received
  <2>3. a.content = None \/ a.content \in Documents(v.mounted)
    BY <1>1, <2>2 DEF Answers, Contents, Answer, Failed, Unauthorized
  <2> HIDE DEF w
  <2>4. TabInv(w)
    BY <1>1, <2>2, <2>3, EndedTyped DEF w
  <2> QED BY <2>1, <2>4
<1> QED BY <1>2, <1>3

LEMMA SavedTyped ==
  ASSUME NEW v, NEW s \in Settings, NEW r, NEW a, Received(v, r, a), r.kind = "save",
         NEW x, x = Saved(v, s, r, a)
  PROVE  TabInv(x.tab) /\ x.store \in Settings
<1> DEFINE data == IF a.status = "ok" THEN a.content ELSE v.data
           e == [v EXCEPT !.waiting = FALSE, !.data = data]
           w == IF ~IsOwn(r) THEN v ELSE e
<1>1. /\ TypedTab(v) /\ Chosen(v) /\ v.path # None /\ Routed(v)
      /\ TypedRequest(r) /\ a \in Answers(r)
  BY DEF Received
<1>2. x = refresh(w, s) \/ x = [tab |-> w, store |-> s]
  BY DEF Saved, IsOwn
<1>3. TabInv(w) /\ w.path # None
  <2>1. CASE ~IsOwn(r)
    BY <1>1, <2>1 DEF Received, TabInv
  <2>2. CASE IsOwn(r)
    <3>1. /\ r.at = v.mounted /\ v.timer = FALSE /\ Own(v.requests) = {}
          /\ v.mounted = "wifi" /\ v.selected # None => r.body = v.data
      BY <2>2 DEF Received
    <3>2. /\ v.data = None \/ v.data \in Documents(v.mounted)
          /\ r.body \in Documents(v.mounted)
          /\ v.mounted = "wifi" /\ v.selected # None => v.data = [ssid |-> v.selected]
      BY <1>1, <3>1 DEF TypedTab, TypedRequest, Bodies, Chosen
    <3>3. data = v.data \/ data = r.body
      BY <1>1 DEF Answers, Contents, Answer, Failed, Unauthorized
    <3> HIDE DEF data, e
    <3>4. TabInv(e) /\ e.path # None
      BY <1>1, <3>1, <3>2, <3>3, EndedTyped DEF e
    <3> QED BY <2>2, <3>4
  <2> QED BY <2>1, <2>2
<1> HIDE DEF w
<1>4. /\ TypedTab(w) /\ Awaits(w) /\ Chosen(w) /\ Routed(w)
      /\ w.initialized = FALSE => w.mounted = None
  BY <1>3 DEF TabInv, Routed
<1>5. ASSUME NEW y, y = refresh(w, s) PROVE TabInv(y.tab) /\ y.store \in Settings
  BY <1>3, <1>4, <1>5, refreshTyped
<1> QED BY <1>2, <1>3, <1>5

\* The scanner goes on waiting, for its timeout.
LEMMA PolledTyped ==
  ASSUME NEW v, NEW w, TypedTab(v), Routed(v), v.path # None, v.mounted = "scan",
         v.waiting = TRUE, Own(v.requests) = {},
         Alike(v, w, {"polls", "timer"}), w.timer = TRUE, w.polls \in 0..(NumPolls - 1)
  PROVE  TabInv(w)
<1>1. /\ w.requests = v.requests /\ w.mounted = v.mounted /\ w.waiting = TRUE
      /\ w.selected = v.selected /\ w.path = v.path /\ w.initialized = v.initialized
      /\ w.user = v.user /\ w.data = v.data
  BY DEF Alike, TabFields
<1>2. TypedTab(w)
  BY <1>1 DEF TypedTab, Alike
<1> QED BY <1>1, <1>2 DEF TabInv, Awaits, Routed, Chosen

LEMMA ScannedTyped ==
  ASSUME NEW v, NEW s \in Settings, NEW r, NEW a, Received(v, r, a), r.kind = "scan",
         NEW x, x = Scanned(v, s, r, a)
  PROVE  TabInv(x.tab) /\ x.store \in Settings
<1>1. TypedTab(v) /\ Chosen(v) /\ v.path # None /\ Routed(v) /\ TypedRequest(r)
  BY DEF Received
<1>2. CASE ~IsOwn(r)
  BY <1>1, <1>2 DEF Received, TabInv, Scanned, IsOwn
<1>3. CASE IsOwn(r)
  <2> DEFINE w == [v EXCEPT !.timer = TRUE]
             e == [v EXCEPT !.waiting = FALSE, !.data = None]
  <2>1. x.tab \in {w, e} /\ x.store = s
    BY <1>3 DEF Scanned, IsOwn
  <2>2. v.waiting = TRUE /\ v.timer = FALSE /\ Own(v.requests) = {} /\ v.mounted = "scan"
    BY <1>1, <1>3 DEF Received, TypedRequest, Senders
  <2>3. Alike(v, w, {"polls", "timer"}) /\ w.timer = TRUE /\ w.polls \in 0..(NumPolls - 1)
    BY <1>1 DEF TypedTab, IsTab, Alike, TabFields
  <2> HIDE DEF w, e
  <2>4. TabInv(w)
    BY <1>1, <2>2, <2>3, PolledTyped
  <2>5. TabInv(e)
    BY <1>1, <2>2, EndedTyped DEF e
  <2> QED BY <2>1, <2>4, <2>5
<1> QED BY <1>2, <1>3

LEMMA ListedTyped ==
  ASSUME NEW v, NEW s \in Settings, NEW r, NEW a, Received(v, r, a), r.kind = "list",
         NEW x, x = Listed(v, s, r, a)
  PROVE  TabInv(x.tab) /\ x.store \in Settings
<1>1. /\ TypedTab(v) /\ Chosen(v) /\ v.path # None /\ Routed(v)
      /\ TypedRequest(r) /\ a \in Answers(r)
  BY DEF Received
<1>2. CASE ~IsOwn(r)
  BY <1>1, <1>2 DEF Received, TabInv, Listed, IsOwn
<1>3. CASE IsOwn(r)
  <2> DEFINE w == [v EXCEPT !.polls = @ + 1, !.timer = TRUE]
             e == [v EXCEPT !.waiting = FALSE, !.data = a.content]
  <2>1. x.store = s /\ (x.tab = e \/ (x.tab = w /\ v.polls + 1 < NumPolls))
    BY <1>3 DEF Listed, IsOwn
  <2>2. /\ v.waiting = TRUE /\ v.timer = FALSE /\ Own(v.requests) = {}
        /\ v.mounted = "scan" /\ r.at = v.mounted
    BY <1>1, <1>3 DEF Received, TypedRequest, Senders
  <2>3. a.content = None \/ a.content \in Documents(v.mounted)
    BY <1>1, <2>2 DEF Answers, Contents, Answer, Failed, Unauthorized
  <2>4. Alike(v, w, {"polls", "timer"}) /\ w.timer = TRUE /\ w.polls = v.polls + 1
    BY <1>1 DEF TypedTab, IsTab, Alike, TabFields
  <2> HIDE DEF w, e
  <2>5. v.polls + 1 < NumPolls => w.polls \in 0..(NumPolls - 1)
    BY <1>1, <2>4, NumPollsAssumption DEF TypedTab
  <2>6. v.polls + 1 < NumPolls => TabInv(w)
    BY <1>1, <2>2, <2>4, <2>5, PolledTyped
  <2>7. TabInv(e)
    BY <1>1, <2>2, <2>3, EndedTyped DEF e
  <2> QED BY <2>1, <2>6, <2>7
<1> QED BY <1>2, <1>3

LEMMA SettledTyped ==
  ASSUME NEW v, NEW s \in Settings, NEW r, NEW a, Received(v, r, a),
         NEW x, x = Settled(v, s, r, a)
  PROVE  TabInv(x.tab) /\ x.store \in Settings
<1>1. CASE r.owner = "dead"
  <2>1. ~IsOwn(r) /\ r.kind # "verify"
    BY <1>1 DEF Received, TypedRequest, IsOwn
  <2>2. TabInv(v)
    BY <2>1 DEF Received, TabInv
  <2> QED BY <1>1, <2>2 DEF Settled
<1>2. CASE r.owner # "dead" /\ a = Unauthorized /\ r.kind \notin {"verify", "signin"}
  BY <1>2, UnauthorizeTyped DEF Settled, Received
<1>3. CASE r.owner # "dead" /\ ~(a = Unauthorized /\ r.kind \notin {"verify", "signin"})
  <2>1. r.kind \in Kinds
    BY DEF Received, TypedRequest
  <2>2. x = CASE r.kind = "verify" -> Verified(v, s, r, a)
              [] r.kind = "signin" -> SignedIn(v, s, r, a)
              [] r.kind = "load" -> Loaded(v, s, r, a)
              [] r.kind = "save" -> Saved(v, s, r, a)
              [] r.kind = "scan" -> Scanned(v, s, r, a)
              [] r.kind = "list" -> Listed(v, s, r, a)
    BY <1>3, Zenon DEF Settled
  <2>3. /\ r.kind = "verify" => x = Verified(v, s, r, a)
        /\ r.kind = "signin" => x = SignedIn(v, s, r, a)
        /\ r.kind = "load" => x = Loaded(v, s, r, a)
        /\ r.kind = "save" => x = Saved(v, s, r, a)
        /\ r.kind = "scan" => x = Scanned(v, s, r, a)
        /\ r.kind = "list" => x = Listed(v, s, r, a)
    BY <2>2, SMT
  <2> QED BY <2>1, <2>3, VerifiedTyped, SignedInTyped, LoadedTyped, SavedTyped, ScannedTyped,
             ListedTyped DEF Kinds
<1> QED BY <1>1, <1>2, <1>3

---------------------------------------------------------------------------
(* Actions                                                                   *)

\* What a tab that shows a component is: the session is known, and its page is
\* that of the path.
LEMMA ShowsPage ==
  ASSUME NEW v, TabInv(v), v.mounted \in Pages \cup {SignIn}
  PROVE  /\ v.initialized = TRUE /\ v.path # None
         /\ v.mounted \in Pages => v.path = v.mounted /\ v.user # None
<1>1. v.initialized = TRUE /\ v.path # None
  BY NoneAssumption DEF TabInv, Routed, TypedTab
<1>2. v.mounted \in Pages => v.path = v.mounted /\ v.user # None
  BY <1>1 DEF TabInv, Routed, Component, Pages, AdminPages, ReadingPages, SecurityPages, WiFiPages, SignIn,
     Root
<1> QED BY <1>1, <1>2

\* The component sends the one request it now waits for.
LEMMA AskTyped ==
  ASSUME NEW v, NEW s, NEW kind \in Kinds \ {"verify"}, NEW body, NEW w, NEW x,
         TabInv(v), v.path # None, Own(v.requests) = {}, s.token \in Token \cup {None},
         Alike(v, w, {"waiting", "timer"}), w.waiting = TRUE, w.timer = FALSE,
         v.mounted \in Senders(kind), body \in Bodies(kind, v.mounted),
         v.mounted = "wifi" => kind = "save" /\ body = v.data,
         x = Fetch(w, s, kind, body)
  PROVE  TabInv(x)
<1>1. /\ w.requests = v.requests /\ w.mounted = v.mounted /\ w.polls = v.polls
      /\ w.selected = v.selected /\ w.path = v.path /\ w.initialized = v.initialized
      /\ w.user = v.user /\ w.data = v.data
  BY DEF Alike, TabFields
<1>2. Routed(v) /\ Chosen(v)
  BY DEF TabInv
<1>3. /\ TypedTab(x) /\ Alike(w, x, {"requests"})
      /\ \A i \in DOMAIN w.requests :
           i \in DOMAIN x.requests /\ x.requests[i] = w.requests[i]
      /\ \E f \in DOMAIN x.requests :
           /\ Own(x.requests) = Own(w.requests) \cup {f}
           /\ x.requests[f].kind = kind /\ x.requests[f].body = body
  <2>1. /\ kind \in Kinds /\ kind # "verify"
        /\ w.mounted \in Senders(kind) /\ body \in Bodies(kind, w.mounted)
    BY <1>1
  <2>2. TypedTab(w)
    BY <1>1 DEF TabInv, TypedTab, Alike
  <2> QED BY <2>1, <2>2, FetchTyped
<1>4. /\ x.mounted = v.mounted /\ x.selected = v.selected /\ x.path = v.path
      /\ x.initialized = v.initialized /\ x.user = v.user /\ x.data = v.data
      /\ x.waiting = TRUE /\ x.timer = FALSE
  BY <1>1, <1>3 DEF Alike, TabFields
<1>5. Awaits(x)
  BY <1>1, <1>3, <1>4 DEF Awaits
<1>6. Chosen(x)
  BY <1>1, <1>2, <1>3, <1>4 DEF Chosen
<1>7. Routed(x)
  BY <1>1, <1>2, <1>3, <1>4 DEF Routed, Verifies
<1> QED BY <1>3, <1>4, <1>5, <1>6, <1>7 DEF TabInv

LEMMA PutTyped ==
  ASSUME TabsInv, NEW t \in Tabs, NEW r, Put(t, r), TabInv(r.tab), r.store \in Settings
  PROVE  TabsInv'
<1>1. /\ tab' = [tab EXCEPT ![t] = r.tab]
      /\ store' = [store EXCEPT ![BrowserOf[t]] = r.store]
  BY DEF Put
<1>2. store' \in [Browsers -> Settings]
  BY <1>1 DEF TabsInv, Browsers
<1> QED BY <1>1, <1>2 DEF TabsInv

LEMMA StorageTyped ==
  ASSUME TabsInv, NEW t \in Tabs
  PROVE  Storage(t) \in Settings /\ Storage(t).token \in Token \cup {None}
BY DEF TabsInv, Storage, Browsers, Settings

LEMMA ClickTyped ==
  ASSUME PageInv, NEW t \in Tabs, NEW v, NEW s \in Settings, Click(t, v, s), TabInv(v)
  PROVE  PageInv'
<1> DEFINE r == [tab |-> v, store |-> s]
<1>1. /\ r.tab = v /\ r.store = s /\ Put(t, r)
      /\ clicks < MaxClicks /\ clicks' = clicks + 1 /\ UNCHANGED device
  BY DEF Click
<1> HIDE DEF r
<1>2. TabsInv'
  BY <1>1, PutTyped DEF PageInv
<1>3. DeviceInv' /\ clicks' \in 0..MaxClicks
  BY <1>1, ClicksAssumption DEF PageInv, DeviceInv, device
<1> QED BY <1>2, <1>3 DEF PageInv

LEMMA SetDataTyped ==
  ASSUME PageInv, NEW t \in Tabs, NEW data, SetData(t, data), ~tab[t].waiting,
         data \in Documents(tab[t].mounted), tab[t].mounted \in Pages,
         tab[t].mounted = "wifi" => tab[t].selected = None
  PROVE  PageInv'
<1> DEFINE v == tab[t]
           w == [v EXCEPT !.data = data]
<1>1. TabInv(v) /\ Storage(t) \in Settings
  BY StorageTyped DEF PageInv, TabsInv
<1>2. v.path # None
  BY <1>1, ShowsPage
<1>3. Alike(v, w, {"data"}) /\ w.data = data
  BY <1>1 DEF TabInv, TypedTab, IsTab, Alike, TabFields
<1>4. Click(t, w, Storage(t))
  BY DEF SetData
<1> HIDE DEF w
<1>5. /\ w.requests = v.requests /\ w.mounted = v.mounted /\ w.polls = v.polls
      /\ w.selected = v.selected /\ w.path = v.path /\ w.initialized = v.initialized
      /\ w.user = v.user /\ w.waiting = v.waiting /\ w.timer = v.timer
  BY <1>3 DEF Alike, TabFields
<1>6. TypedTab(w)
  BY <1>1, <1>3, <1>5 DEF TabInv, TypedTab, Alike
<1>7. TabInv(w)
  BY <1>1, <1>2, <1>3, <1>5, <1>6 DEF TabInv, Awaits, Routed, Chosen
<1> QED BY <1>1, <1>4, <1>7, ClickTyped

LEMMA UserActsTyped ==
  ASSUME PageInv, NEW t \in Tabs, UserActs(t)
  PROVE  PageInv'
<1> DEFINE v == tab[t]
           s == Storage(t)
<1>1. /\ TabInv(v) /\ s \in Settings /\ s.token \in Token \cup {None} /\ TabsInv
  BY StorageTyped DEF PageInv, TabsInv
<1>2. /\ TypedTab(v) /\ Awaits(v) /\ Chosen(v) /\ Routed(v)
      /\ v.waiting \in BOOLEAN /\ v.timer \in BOOLEAN
  BY <1>1 DEF TabInv, TypedTab
<1>3. ~v.waiting => Own(v.requests) = {} /\ v.timer = FALSE
  BY <1>2 DEF Awaits
<1>4. v.mounted \in Pages \cup {SignIn} =>
        /\ v.initialized = TRUE /\ v.path # None
        /\ v.mounted \in Pages => v.path = v.mounted /\ v.user # None
  BY <1>1, ShowsPage
<1>5. ASSUME NEW path \in Addresses, Open(t, path) PROVE PageInv'
  <2> DEFINE r == Enter(path, NoRequests, s)
  <2>1. TypedRequests(NoRequests, None) /\ Own(NoRequests) = {}
    BY FS_EmptySet DEF TypedRequests, NoRequests, Own
  <2>2. path \in Pages \cup {Root}
    BY AddressesAssumption
  <2>3. Put(t, r) /\ UNCHANGED <<security, flash, ssid, radio, clicks>>
    BY <1>5 DEF Open
  <2> HIDE DEF r
  <2>4. TabInv(r.tab) /\ r.store \in Settings
    BY <1>1, <2>1, <2>2, EnterTyped DEF r
  <2>5. TabsInv'
    BY <1>1, <2>3, <2>4, PutTyped
  <2> QED BY <2>3, <2>5 DEF PageInv, DeviceInv
<1>6. ASSUME NEW path \in Addresses, GoTo(t, path) PROVE PageInv'
  <2> DEFINE r == Reload(v, path, s)
  <2>1. path \in Pages \cup {Root}
    BY AddressesAssumption
  <2>2. Click(t, r.tab, r.store)
    BY <1>6 DEF GoTo, ClickRendered
  <2> HIDE DEF r
  <2>3. TabInv(r.tab) /\ r.store \in Settings
    BY <1>1, <1>2, <2>1, ReloadTyped DEF r
  <2> QED BY <2>2, <2>3, ClickTyped
\* What may be rendered after a change of the session.
<1>7. ASSUME NEW w, NEW z \in Settings, Alike(v, w, SessionFields), v.mounted \in Pages,
             w.initialized = TRUE, w.path \in Pages \cup {Root},
             w.user \in [username : Names, admin : BOOLEAN] \cup {None},
             ClickRendered(t, Render(w, z))
      PROVE  PageInv'
  <2> DEFINE r == Render(w, z)
  <2>1. TypedTab(w) /\ Renders(w, z) /\ w.path # None
    BY <1>2, <1>7, SessionAlike, NoneAssumption DEF Renders
  <2>2. Click(t, r.tab, r.store)
    BY <1>7 DEF ClickRendered
  <2> HIDE DEF r
  <2>3. TabInv(r.tab) /\ r.store \in Settings
    BY <1>7, <2>1, RenderTyped DEF r
  <2> QED BY <2>2, <2>3, ClickTyped
<1>8. ASSUME NEW page \in Pages, Navigate(t, page) PROVE PageInv'
  <2> DEFINE w == [v EXCEPT !.path = page]
  <2>1. v.mounted \in Pages /\ ClickRendered(t, Render(w, s))
    BY <1>8 DEF Navigate
  <2>2. /\ Alike(v, w, SessionFields) /\ w.initialized = v.initialized
        /\ w.path = page /\ w.user = v.user
    BY <1>2 DEF TypedTab, IsTab, Alike, TabFields, SessionFields
  <2> HIDE DEF w
  <2> QED BY <1>1, <1>2, <1>4, <1>7, <2>1, <2>2 DEF TypedTab
<1>9. ASSUME SignOut(t) PROVE PageInv'
  <2> DEFINE w == [v EXCEPT !.user = None, !.path = Root]
             z == [s EXCEPT !.token = None]
  <2>1. v.mounted \in Pages /\ ClickRendered(t, Render(w, z))
    BY <1>9 DEF SignOut
  <2>2. z \in Settings
    BY <1>1 DEF Settings
  <2>3. /\ Alike(v, w, SessionFields) /\ w.initialized = v.initialized
        /\ w.path = Root /\ w.user = None
    BY <1>2 DEF TypedTab, IsTab, Alike, TabFields, SessionFields
  <2> HIDE DEF w, z
  <2> QED BY <1>1, <1>4, <1>7, <2>1, <2>2, <2>3
\* What is sent by a component that waits for nothing.
<1> DEFINE waits == [v EXCEPT !.waiting = TRUE]
<1>10. ASSUME ~v.waiting
       PROVE  /\ Alike(v, waits, {"waiting", "timer"}) /\ waits.waiting = TRUE
              /\ waits.timer = FALSE
  BY <1>2, <1>3, <1>10 DEF TypedTab, IsTab, Alike, TabFields
<1> HIDE DEF waits
<1>11. ASSUME NEW username \in Names, NEW password \in Passwords,
              SubmitSignIn(t, username, password)
       PROVE  PageInv'
  <2> DEFINE body == [username |-> username, password |-> password]
             z == [token |-> None]
             x == Fetch(waits, z, "signin", body)
  <2>1. v.mounted = SignIn /\ ~v.waiting /\ Click(t, x, s)
    BY <1>11 DEF SubmitSignIn, waits
  <2>2. /\ "signin" \in Kinds \ {"verify"} /\ v.mounted \in Senders("signin")
        /\ body \in Bodies("signin", v.mounted) /\ z.token \in Token \cup {None}
        /\ v.mounted # "wifi"
    BY <2>1 DEF Kinds, Senders, Bodies, Credentials, SignIn
  <2>3. v.path # None
    BY <1>4, <2>1
  <2> HIDE DEF body, z, x
  <2>4. TabInv(x)
    BY <1>1, <1>3, <1>10, <2>1, <2>2, <2>3, AskTyped DEF x
  <2> QED BY <1>1, <2>1, <2>4, ClickTyped
<1>12. ASSUME Reset(t) PROVE PageInv'
  <2> DEFINE l == LoadData(v, s)
             w == [l EXCEPT !.selected = None]
             r == ContextChanged(w, s)
  <2>1. /\ v.mounted \in Pages \ {"scan"} /\ ~v.waiting
        /\ IF v.mounted = "wifi" THEN Click(t, r.tab, r.store) ELSE Click(t, l, s)
    BY <1>12 DEF Reset, ClickRendered
  <2> HIDE DEF l
  <2>2. TypedTab(l) /\ Awaits(l) /\ Alike(v, l, {"data", "waiting", "requests"})
    BY <1>1, <1>2, <1>3, <2>1, LoadDataTyped DEF l
  <2>3. /\ l.mounted = v.mounted /\ l.initialized = v.initialized /\ l.path = v.path
        /\ l.user = v.user
    BY <2>2 DEF Alike, TabFields
  <2>4. CASE v.mounted # "wifi"
    <3>1. TabInv(l)
      BY <1>2, <1>4, <2>1, <2>2, <2>3, <2>4 DEF TabInv, Chosen, Routed
    <3> QED BY <1>1, <2>1, <2>4, <3>1, ClickTyped
  <2>5. CASE v.mounted = "wifi"
    <3>1. Alike(l, w, {"selected"}) /\ w.selected = None
      BY <2>2 DEF TypedTab, IsTab, Alike, TabFields
    <3> HIDE DEF w
    <3>2. TypedTab(w) /\ w.mounted = "wifi" /\ w.initialized = TRUE /\ w.path # None
      BY <1>4, <2>1, <2>2, <2>3, <2>5, <3>1 DEF TypedTab, Alike, TabFields
    <3> HIDE DEF r
    <3>3. TabInv(r.tab) /\ r.store \in Settings
      BY <1>1, <3>2, ContextChangedTyped DEF WiFiPages, r
    <3> QED BY <2>1, <2>5, <3>3, ClickTyped
  <2> QED BY <2>4, <2>5
<1>13. ASSUME DeselectNetwork(t) PROVE PageInv'
  <2> DEFINE w == [v EXCEPT !.selected = None]
             r == ContextChanged(w, s)
  <2>1. v.mounted = "wifi" /\ Click(t, r.tab, r.store)
    BY <1>13 DEF DeselectNetwork, Shown, ClickRendered
  <2>2. Alike(v, w, {"selected"}) /\ w.selected = None
    BY <1>2 DEF TypedTab, IsTab, Alike, TabFields
  <2> HIDE DEF w
  <2>3. TypedTab(w) /\ w.mounted = "wifi" /\ w.initialized = TRUE /\ w.path # None
    BY <1>2, <1>4, <2>1, <2>2 DEF TypedTab, Alike, TabFields, Pages, AdminPages, ReadingPages, WiFiPages
  <2> HIDE DEF r
  <2>4. TabInv(r.tab) /\ r.store \in Settings
    BY <1>1, <2>3, ContextChangedTyped DEF WiFiPages, r
  <2> QED BY <2>1, <2>4, ClickTyped
<1>14. ASSUME NEW secret \in Secrets, ChangeSecret(t, secret) PROVE PageInv'
  <2> DEFINE data == [v.data EXCEPT !.jwt_secret = secret]
  <2>1. v.mounted = "security" /\ v.data # None /\ ~v.waiting /\ SetData(t, data)
    BY <1>14 DEF ChangeSecret, Shown
  <2>2. v.data \in SecuritySettings
    BY <1>2, <2>1 DEF TypedTab, Documents, ReadingPages, SecurityPages
  <2>3. data \in Documents(v.mounted) /\ v.mounted \in Pages
    BY <2>1, <2>2 DEF Documents, ReadingPages, SecurityPages, SecuritySettings, Pages, AdminPages, ReadingPages
  <2> HIDE DEF data
  <2> QED BY <2>1, <2>3, SetDataTyped
<1>15. ASSUME NEW users, users \subseteq User, UniqueNames(users), Shown(t, {"users"}),
              SetData(t, [v.data EXCEPT !.users = users])
       PROVE  PageInv'
  <2> DEFINE data == [v.data EXCEPT !.users = users]
  <2>1. v.mounted = "users" /\ v.data # None /\ ~v.waiting /\ SetData(t, data)
    BY <1>15 DEF Shown
  <2>2. v.data \in SecuritySettings
    BY <1>2, <2>1 DEF TypedTab, Documents, ReadingPages, SecurityPages
  <2>3. data \in Documents(v.mounted) /\ v.mounted \in Pages
    BY <1>15, <2>1, <2>2 DEF Documents, ReadingPages, SecurityPages, SecuritySettings, Pages, AdminPages, ReadingPages
  <2> HIDE DEF data
  <2> QED BY <2>1, <2>3, SetDataTyped
<1>16. Shown(t, {"users"}) => v.data.users \subseteq User /\ UniqueNames(v.data.users)
  BY <1>2 DEF Shown, TypedTab, Documents, ReadingPages, SecurityPages, SecuritySettings
<1>17. ASSUME NEW user \in User, DoneEditingUser(t, user) PROVE PageInv'
  <2> DEFINE users == doneEditingUser(v.data.users, user)
  <2>1. users \subseteq User /\ UniqueNames(users)
    BY <1>16, <1>17 DEF DoneEditingUser, doneEditingUser, UniqueNames
  <2> QED BY <1>15, <1>17, <2>1 DEF DoneEditingUser
<1>18. ASSUME NEW username, RemoveUser(t, username) PROVE PageInv'
  <2> DEFINE users == {u \in v.data.users : u.username # username}
  <2>1. users \subseteq User /\ UniqueNames(users)
    BY <1>16, <1>18 DEF RemoveUser, UniqueNames
  <2> QED BY <1>15, <1>18, <2>1 DEF RemoveUser
<1>19. ASSUME NEW network \in Networks, ChangeNetwork(t, network) PROVE PageInv'
  <2> DEFINE data == [ssid |-> network]
  <2>1. v.mounted = "wifi" /\ ~v.waiting /\ v.selected = None /\ SetData(t, data)
    BY <1>19 DEF ChangeNetwork, Shown
  <2>2. data \in Documents(v.mounted) /\ v.mounted \in Pages
    BY <2>1 DEF Documents, ReadingPages, SecurityPages, Pages, AdminPages, ReadingPages, WiFiPages
  <2> HIDE DEF data
  <2> QED BY <2>1, <2>2, SetDataTyped
<1>20. ASSUME NEW network \in Networks, SelectNetwork(t, network) PROVE PageInv'
  <2> DEFINE w == [v EXCEPT !.selected = network, !.path = "wifi"]
             r == Render(w, s)
  <2>1. v.mounted = "scan" /\ Click(t, r.tab, r.store)
    BY <1>20 DEF SelectNetwork, Shown, ClickRendered
  <2>2. Alike(v, w, {"selected", "path"}) /\ w.selected = network /\ w.path = "wifi"
    BY <1>2 DEF TypedTab, IsTab, Alike, TabFields
  <2> HIDE DEF w
  <2>3. /\ TypedTab(w) /\ w.mounted = "scan" /\ w.initialized = TRUE
        /\ w.path # None /\ w.user # None
    BY <1>2, <1>4, <2>1, <2>2, NoneAssumption
    DEF TypedTab, Alike, TabFields, Pages, AdminPages, ReadingPages, WiFiPages
  <2>4. Component(Path(w, s)) = "wifi"
    BY <2>2, <2>3 DEF Path, Refused, Entering, Component, Root
  <2> HIDE DEF r
  <2>5. TabInv(r.tab) /\ r.store \in Settings
    BY <1>1, <2>3, <2>4, RenderTyped DEF Renders, r
  <2> QED BY <2>1, <2>5, ClickTyped
<1>21. ASSUME Save(t) PROVE PageInv'
  <2> DEFINE body == v.data
             x == Fetch(waits, s, "save", body)
  <2>1. /\ v.mounted \in SecurityPages \cup {"wifi"} /\ ~v.waiting /\ v.data # None
        /\ Click(t, x, s)
    BY <1>21 DEF Save, Shown, waits
  <2>2. /\ "save" \in Kinds \ {"verify"} /\ v.mounted \in Senders("save")
        /\ body \in Bodies("save", v.mounted) /\ v.mounted \in Pages /\ body = v.data
    BY <1>2, <2>1 DEF TypedTab, Kinds, Senders, Bodies, Pages, AdminPages, ReadingPages, WiFiPages
  <2>3. /\ v.path # None /\ Own(v.requests) = {}
        /\ Alike(v, waits, {"waiting", "timer"}) /\ waits.waiting = TRUE
        /\ waits.timer = FALSE
    BY <1>3, <1>4, <1>10, <2>1, <2>2
  <2> HIDE DEF body, x
  <2>4. TabInv(x)
    <3>1. /\ TabInv(v) /\ s.token \in Token \cup {None}
          /\ v.mounted = "wifi" => body = v.data
      BY <1>1, <2>2
    <3> HIDE DEF s, v
    <3> QED BY <2>2, <2>3, <3>1, AskTyped DEF x
  <2> QED BY <1>1, <2>1, <2>4, ClickTyped
<1>22. ASSUME RequestNetworkScan(t) PROVE PageInv'
  <2> DEFINE x == ScanNetworks(v, s)
  <2>1. v.mounted = "scan" /\ ~v.waiting /\ Click(t, x, s) /\ v.mounted \in Pages
    BY <1>22 DEF RequestNetworkScan, Pages, AdminPages, ReadingPages, WiFiPages
  <2> HIDE DEF x
  <2>2. TypedTab(x) /\ Awaits(x) /\ Alike(v, x, {"data", "waiting", "polls", "requests"})
    BY <1>1, <1>2, <1>3, <2>1, ScanNetworksTyped DEF x
  <2>3. /\ x.mounted = v.mounted /\ x.initialized = v.initialized /\ x.path = v.path
        /\ x.user = v.user
    BY <2>2 DEF Alike, TabFields
  <2>4. TabInv(x)
    BY <1>2, <1>4, <2>1, <2>2, <2>3 DEF TabInv, Chosen, Routed
  <2> QED BY <1>1, <2>1, <2>4, ClickTyped
<1> QED
  BY <1>5, <1>6, <1>8, <1>9, <1>11, <1>12, <1>13, <1>14, <1>17, <1>18, <1>19, <1>20, <1>21,
     <1>22 DEF UserActs

\* The device answers a request with what that request can be answered.
LEMMA AnsweredTyped ==
  ASSUME TabsInv, NEW t \in Tabs, NEW i \in DOMAIN tab[t].requests, NEW answer,
         Answered(t, i, answer), answer \in Answers(tab[t].requests[i])
  PROVE  TabsInv'
<1> DEFINE v == tab[t]
           r == v.requests[i]
           p == [r EXCEPT !.answer = answer]
           q == [v.requests EXCEPT ![i] = p]
           w == [v EXCEPT !.requests = q]
<1>1. TabInv(v) /\ TypedTab(v) /\ TypedRequests(v.requests, v.mounted) /\ TypedRequest(r)
  BY DEF TabsInv, TabInv, TypedTab, TypedRequests
<1>2. TypedRequest(p) /\ p.owner = r.owner /\ p.kind = r.kind /\ p.at = r.at /\ p.body = r.body
  <2> HIDE DEF r
  <2>1. /\ p = [k \in RequestFields |-> p[k]] /\ p.kind = r.kind /\ p.at = r.at
        /\ p.token = r.token /\ p.body = r.body /\ p.owner = r.owner /\ p.answer = answer
    BY <1>1 DEF TypedRequest, RequestFields
  <2>2. answer \in Answers(r)
    BY DEF r
  <2> HIDE DEF p
  <2>3. Answers(p) = Answers(r)
    BY <2>1 DEF Answers, Contents
  <2> QED BY <1>1, <2>1, <2>2, <2>3 DEF TypedRequest
<1>3. /\ q = [j \in DOMAIN q |-> q[j]] /\ DOMAIN q = DOMAIN v.requests /\ q[i] = p
      /\ \A j \in DOMAIN q : j # i => q[j] = v.requests[j]
  <2> HIDE DEF p
  <2> QED BY <1>1 DEF TypedRequests
<1>4. /\ tab' = [tab EXCEPT ![t] = w] /\ UNCHANGED store
  <2>1. w = [v EXCEPT !.requests[i].answer = answer]
    BY <1>1 DEF TypedTab, IsTab, TabFields
  <2> QED BY <2>1 DEF Answered
<1> HIDE DEF p, q
<1>5. Own(q) = Own(v.requests) /\ (Verifies(q) <=> Verifies(v.requests))
  BY <1>2, <1>3 DEF Own, Verifies
<1>6. TypedRequests(q, v.mounted)
  <2>1. \A j \in DOMAIN q : TypedRequest(q[j])
    BY <1>1, <1>2, <1>3 DEF TypedRequests
  <2>2. \A j \in Own(q) : q[j].at = v.mounted
    <3>1. \A j \in DOMAIN q : q[j].at = v.requests[j].at
      BY <1>2, <1>3
    <3> QED BY <1>1, <1>5, <3>1 DEF TypedRequests, Own
  <2> QED BY <1>1, <1>3, <2>1, <2>2 DEF TypedRequests
<1>7. Alike(v, w, {"requests"}) /\ w.requests = q
  BY <1>1 DEF TypedTab, IsTab, Alike, TabFields
<1> HIDE DEF w
<1>8. /\ w.waiting = v.waiting /\ w.timer = v.timer /\ w.mounted = v.mounted
      /\ w.selected = v.selected /\ w.data = v.data /\ w.path = v.path
      /\ w.initialized = v.initialized /\ w.user = v.user /\ w.polls = v.polls
  BY <1>7 DEF Alike, TabFields
<1>9. TypedTab(w)
  BY <1>1, <1>6, <1>7, <1>8 DEF TypedTab, Alike
<1>10. Awaits(w) /\ Routed(w)
  BY <1>1, <1>3, <1>5, <1>7, <1>8 DEF TabInv, Awaits, Routed
<1>11. Chosen(w)
  <2>1. \A j \in DOMAIN q : q[j].kind = v.requests[j].kind /\ q[j].body = v.requests[j].body
    BY <1>2, <1>3
  <2>2. Own(q) \subseteq DOMAIN q /\ Chosen(v)
    BY <1>1 DEF Own, TabInv
  <2> QED BY <1>5, <1>7, <1>8, <2>1, <2>2 DEF Chosen
<1>12. w.path # None
  BY <1>1, <1>8 DEF TabInv, Unopened
<1>13. TabInv(w)
  BY <1>9, <1>10, <1>11, <1>12 DEF TabInv
<1> HIDE DEF v
<1> QED BY <1>4, <1>13 DEF TabsInv

LEMMA BrokenTyped == Broken \in SecuritySettings
BY SecretAssumption DEF Broken, SecuritySettings, UniqueNames

LEMMA RestartedTyped ==
  ASSUME Restarted, flash' \in SecuritySettings, clicks \in 0..MaxClicks
  PROVE  DeviceInv' /\ clicks' \in 0..MaxClicks
<1>1. clicks' \in 0..MaxClicks
  BY ClicksAssumption DEF Restarted
<1>2. DeviceInv'
  BY DEF Restarted, DeviceInv
<1> QED BY <1>1, <1>2

LEMMA DeviceHandlesTyped ==
  ASSUME PageInv, NEW t \in Tabs, NEW i \in DOMAIN tab[t].requests, DeviceHandles(t, i)
  PROVE  PageInv'
<1> DEFINE r == tab[t].requests[i]
<1>1. TypedRequest(r) /\ TabsInv
  BY DEF PageInv, TabsInv, TabInv, TypedTab, TypedRequests
<1>2. ASSUME NEW answer \in Answers(r), Handle(t, i, answer), DeviceInv'
      PROVE  PageInv'
  BY <1>1, <1>2, AnsweredTyped DEF Handle, PageInv
<1>3. {Failed, Unauthorized, Answer("accepted", None)} \subseteq Answers(r)
  BY DEF Answers
<1>4. ASSUME UNCHANGED device PROVE DeviceInv'
  BY <1>4 DEF PageInv, DeviceInv, device
<1>5. \A c \in Contents(r) : Answer("ok", c) \in Answers(r)
  BY DEF Answers
<1>6. CASE VerifyAuthorization(t, i)
  <2>1. r.kind = "verify" /\ UNCHANGED device
    BY <1>6 DEF VerifyAuthorization
  <2>2. None \in Contents(r)
    BY <2>1 DEF Contents
  <2> QED BY <1>2, <1>3, <1>4, <1>5, <1>6, <2>1, <2>2 DEF VerifyAuthorization
<1>7. CASE HandleSignIn(t, i)
  <2>1. r.kind = "signin" /\ UNCHANGED device
    BY <1>7 DEF HandleSignIn
  <2>2. ASSUME NEW user \in security.users PROVE generateJWT(security, user) \in Contents(r)
    BY <2>1 DEF Contents, generateJWT, PageInv, DeviceInv, SecuritySettings, User, Token
  <2>3. authenticate(security, r.body.username, r.body.password) \subseteq security.users
    BY DEF authenticate
  <2> HIDE DEF r
  <2> QED BY <1>2, <1>3, <1>4, <1>5, <1>7, <2>1, <2>2, <2>3 DEF HandleSignIn, r
<1>8. CASE Refuse(t, i)
  BY <1>2, <1>3, <1>4, <1>8 DEF Refuse
<1>9. CASE Serve(t, i)
  <2>1. r.kind = "load" /\ r.at \in Pages \ {"scan"} /\ UNCHANGED device
    BY <1>1, <1>9 DEF Serve, TypedRequest, Senders
  <2>2. Document(r.at) \in Documents(r.at)
    BY <2>1 DEF Document, Documents, PageInv, DeviceInv, Pages, AdminPages, ReadingPages, WiFiPages,
       SecurityPages
  <2>3. Document(r.at) \in Contents(r)
    BY <2>1, <2>2 DEF Contents
  <2> QED BY <1>2, <1>4, <1>5, <1>9, <2>1, <2>3 DEF Serve
<1>10. CASE Update(t, i)
  <2>1. /\ r.kind = "save" /\ r.body \in Documents(r.at)
        /\ security' = IF r.at \in SecurityPages THEN r.body ELSE security
        /\ ssid' = IF r.at = "wifi" THEN r.body.ssid ELSE ssid
        /\ radio' = radio
    BY <1>1, <1>10 DEF Update, TypedRequest, Bodies
  <2>2. /\ flash' \in {flash, r.body, Broken} /\ (r.at \notin SecurityPages => flash' = flash)
        /\ \E answer \in {Failed, Answer("ok", r.body)} : Handle(t, i, answer)
    BY <1>10 DEF Update
  <2> HIDE DEF r
  <2>3. r.at \in SecurityPages => r.body \in SecuritySettings
    BY <2>1 DEF Documents, ReadingPages, SecurityPages
  <2>4. security' \in SecuritySettings /\ flash' \in SecuritySettings
    BY <2>1, <2>2, <2>3, BrokenTyped DEF PageInv, DeviceInv
  <2>5. ssid' \in Networks
    BY <2>1 DEF PageInv, DeviceInv, Documents, ReadingPages, SecurityPages
  <2>6. DeviceInv'
    BY <2>1, <2>4, <2>5 DEF PageInv, DeviceInv
  <2>7. r.body \in Contents(r)
    BY <2>1 DEF Contents
  <2>8. PICK answer \in {Failed, Answer("ok", r.body)} : Handle(t, i, answer)
    BY <2>2
  <2>9. answer \in Answers(r)
    BY <1>3, <1>5, <2>7
  <2> QED BY <1>2, <2>6, <2>8, <2>9
<1>13. CASE PowerLoss(t, i)
  <2>1. /\ Answered(t, i, Failed) /\ Restarted
        /\ flash' = IF r.at \in SecurityPages THEN Broken ELSE flash
    BY <1>13 DEF PowerLoss
  <2>2. flash' \in SecuritySettings
    BY <2>1, BrokenTyped DEF PageInv, DeviceInv
  <2>3. DeviceInv' /\ clicks' \in 0..MaxClicks
    BY <2>1, <2>2, RestartedTyped DEF PageInv
  <2>4. TabsInv'
    BY <1>1, <1>3, <2>1, AnsweredTyped
  <2> QED BY <2>3, <2>4 DEF PageInv
<1>11. CASE HandleScan(t, i)
  <2>1. DeviceInv'
    BY <1>11 DEF HandleScan, PageInv, DeviceInv
  <2> QED BY <1>2, <1>3, <1>11, <2>1 DEF HandleScan
<1>12. CASE ListNetworks(t, i)
  <2>1. DeviceInv'
    BY <1>12 DEF ListNetworks, PageInv, DeviceInv
  <2>2. r.kind = "list" /\ r.at = "scan"
    BY <1>1, <1>12 DEF ListNetworks, TypedRequest, Senders
  <2>3. Listing \in Contents(r)
    BY <2>2 DEF Contents, Documents, ReadingPages, SecurityPages
  <2> QED BY <1>2, <1>3, <1>5, <1>12, <2>1, <2>3 DEF ListNetworks
<1> QED
  BY <1>6, <1>7, <1>8, <1>9, <1>10, <1>11, <1>12, <1>13 DEF DeviceHandles

LEMMA DeliverTyped ==
  ASSUME PageInv, NEW t \in Tabs, NEW i \in DOMAIN tab[t].requests, Deliver(t, i)
  PROVE  PageInv'
<1> DEFINE u == tab[t]
           r == u.requests[i]
<1>1. /\ TypedTab(u) /\ Awaits(u) /\ Routed(u) /\ Chosen(u) /\ u.path # None
      /\ TypedRequests(u.requests, u.mounted) /\ TypedRequest(r)
  BY DEF PageInv, TabsInv, TabInv, TypedTab, TypedRequests, Unopened
<1>2. PICK a \in {r.answer, Failed} \ {None} :
        Put(t, Settled([u EXCEPT !.requests = Left(@, i, a)], Storage(t), r, a))
  BY DEF Deliver
<1> DEFINE q == Left(u.requests, i, a)
           v == [u EXCEPT !.requests = q]
<1>3. a \in Answers(r)
  BY <1>1, <1>2 DEF TypedRequest, Answers
<1>4. /\ TypedRequests(q, u.mounted)
      /\ \A j \in DOMAIN u.requests \ {i} : j \in DOMAIN q /\ q[j] = u.requests[j]
      /\ DOMAIN q \subseteq DOMAIN u.requests
      /\ Own(q) = Own(u.requests) \ {i}
  BY <1>1, LeftTyped
<1> DEFINE x == Settled(v, Storage(t), r, a)
<1>15. Put(t, x)
  BY <1>2
<1> HIDE DEF x, q
<1>5. Alike(u, v, {"requests"}) /\ v.requests = q
  BY <1>1 DEF TypedTab, IsTab, Alike, TabFields
<1> HIDE DEF v
<1>6. /\ v.waiting = u.waiting /\ v.timer = u.timer /\ v.mounted = u.mounted
      /\ v.selected = u.selected /\ v.data = u.data /\ v.path = u.path
      /\ v.initialized = u.initialized /\ v.user = u.user /\ v.polls = u.polls
  BY <1>5 DEF Alike, TabFields
<1>7. TypedTab(v)
  BY <1>1, <1>4, <1>5, <1>6 DEF TypedTab, Alike
<1>8. Chosen(v)
  <2>1. \A j \in Own(q) : j \in Own(u.requests) /\ q[j] = u.requests[j]
    BY <1>4 DEF Own
  <2> QED BY <1>1, <1>5, <1>6, <2>1 DEF Chosen
<1>9. r.kind # "verify" \/ v.initialized = TRUE => Routed(v)
  <2>1. r.kind # "verify" /\ Verifies(u.requests) => Verifies(q)
    BY <1>4 DEF Verifies
  <2> QED BY <1>1, <1>5, <1>6, <2>1 DEF Routed
<1>10. ASSUME IsOwn(r)
       PROVE  /\ r.at = v.mounted /\ v.waiting = TRUE /\ v.timer = FALSE
              /\ Own(v.requests) = {}
              /\ v.mounted = "wifi" /\ v.selected # None =>
                   r.kind = "save" /\ r.body = v.data
  <2>1. i \in Own(u.requests)
    BY <1>10 DEF IsOwn, Own
  <2>2. u.waiting = TRUE /\ u.timer = FALSE /\ Own(u.requests) = {i}
    BY <1>1, <2>1 DEF Awaits, TypedTab
  <2>3. r.at = u.mounted
    BY <1>1, <2>1 DEF TypedRequests
  <2>4. u.mounted = "wifi" /\ u.selected # None => r.kind = "save" /\ r.body = u.data
    BY <1>1, <2>1 DEF Chosen
  <2> QED BY <1>4, <1>5, <1>6, <2>2, <2>3, <2>4
<1>11. ASSUME ~IsOwn(r) PROVE Awaits(v)
  <2>1. Own(q) = Own(u.requests) /\ Own(q) \subseteq DOMAIN q
    BY <1>4, <1>11 DEF IsOwn, Own
  <2> QED BY <1>1, <1>5, <1>6, <2>1 DEF Awaits
<1>12. v.initialized = FALSE => v.mounted = None
  BY <1>1, <1>6 DEF Routed
<1>13. Received(v, r, a)
  BY <1>1, <1>3, <1>6, <1>7, <1>8, <1>9, <1>10, <1>11, <1>12 DEF Received
<1>14. Storage(t) \in Settings /\ TabsInv
  BY StorageTyped DEF PageInv
<1>16. TabInv(x.tab) /\ x.store \in Settings
  BY <1>13, <1>14, SettledTyped DEF x
<1>17. TabsInv'
  BY <1>14, <1>15, <1>16, PutTyped
<1> QED BY <1>17 DEF Deliver, PageInv, DeviceInv

LEMMA PollNetworkListTyped ==
  ASSUME PageInv, NEW t \in Tabs, PollNetworkList(t)
  PROVE  PageInv'
<1> DEFINE v == tab[t]
           s == Storage(t)
           w == [v EXCEPT !.timer = FALSE]
           x == Fetch(w, s, "list", None)
<1>1. TabInv(v) /\ s.token \in Token \cup {None}
  BY StorageTyped DEF PageInv, TabsInv
<1>2. v.timer = TRUE
  BY <1>1 DEF PollNetworkList, TabInv, TypedTab
<1>3. v.mounted = "scan" /\ v.waiting = TRUE /\ Own(v.requests) = {}
  BY <1>1, <1>2 DEF TabInv, Awaits
<1>4. v.path # None
  BY <1>1, <1>3, ShowsPage DEF Pages, AdminPages, ReadingPages, WiFiPages
<1>5. Alike(v, w, {"waiting", "timer"}) /\ w.waiting = TRUE /\ w.timer = FALSE
  BY <1>1, <1>3 DEF TabInv, TypedTab, IsTab, Alike, TabFields
<1>6. tab' = [tab EXCEPT ![t] = x]
  BY DEF PollNetworkList
<1>7. /\ "list" \in Kinds \ {"verify"} /\ v.mounted \in Senders("list")
      /\ None \in Bodies("list", v.mounted) /\ v.mounted # "wifi"
  BY <1>3 DEF Kinds, Senders, Bodies
<1> HIDE DEF v, s, w, x
<1>8. TabInv(x)
  BY <1>1, <1>3, <1>4, <1>5, <1>7, AskTyped DEF x
<1>9. TabsInv'
  BY <1>6, <1>8 DEF PollNetworkList, PageInv, TabsInv
<1> QED BY <1>9 DEF PollNetworkList, PageInv, DeviceInv

LEMMA InitTyped ==
  ASSUME Init
  PROVE  PageInv
<1> DEFINE w == NewTab(None, NoRequests)
<1>1. /\ IsTab(w) /\ w.initialized = FALSE /\ w.user = None /\ w.path = None
      /\ w.mounted = None /\ w.waiting = FALSE /\ w.data = None /\ w.selected = None
      /\ w.polls = 0 /\ w.timer = FALSE /\ w.requests = NoRequests
  BY DEF NewTab, IsTab, TabFields
<1> HIDE DEF w
<1>2. TypedRequests(NoRequests, None) /\ Own(NoRequests) = {} /\ DOMAIN NoRequests = {}
  BY FS_EmptySet DEF TypedRequests, NoRequests, Own
<1>3. TypedTab(w)
  <2>1. 0 \in 0..(NumPolls - 1)
    BY NumPollsAssumption
  <2> QED BY <1>1, <1>2, <2>1 DEF TypedTab
<1>4. None # "wifi"
  BY NoneAssumption DEF Pages, AdminPages, ReadingPages, WiFiPages
<1>5. TabInv(w)
  BY <1>1, <1>2, <1>3, <1>4 DEF TabInv, Awaits, Routed, Chosen, Unopened
<1>6. TabsInv
  <2>1. store \in [Browsers -> Settings]
    BY DEF Init, Settings
  <2> QED BY <1>5, <2>1 DEF Init, TabsInv, w
<1> QED BY <1>6, ClicksAssumption DEF Init, PageInv, DeviceInv

LEMMA NextTyped ==
  ASSUME PageInv, [Next]_vars
  PROVE  PageInv'
<1>1. ASSUME NEW t \in Tabs, Network(t) PROVE PageInv'
  BY <1>1, DeviceHandlesTyped, DeliverTyped DEF Network
<1>2. CASE ScanCompletes
  BY <1>2 DEF ScanCompletes, PageInv, DeviceInv, TabsInv
<1>3. CASE UNCHANGED vars
  BY <1>3 DEF vars, PageInv, DeviceInv, TabsInv
<1>4. CASE Restart
  <2>1. DeviceInv' /\ clicks' \in 0..MaxClicks
    BY <1>4, RestartedTyped DEF Restart, PageInv, DeviceInv
  <2>2. TabsInv'
    BY <1>4 DEF Restart, PageInv, TabsInv
  <2> QED BY <2>1, <2>2 DEF PageInv
<1> QED BY <1>1, <1>2, <1>3, <1>4, UserActsTyped, PollNetworkListTyped DEF Next

LEMMA PagesInductive == Spec => []PageInv
BY InitTyped, NextTyped, PTL DEF Spec

---------------------------------------------------------------------------
(* What the invariant says                                                   *)

LEMMA DocumentsTyped ==
  ASSUME NEW page
  PROVE  Documents(page) \subseteq
           SecuritySettings \cup [ssid : Networks] \cup {Listing, Reading, None}
BY DEF Documents, ReadingPages, SecurityPages

LEMMA RequestTyped ==
  ASSUME NEW r, TypedRequest(r)
  PROVE  r \in Request
<1> DEFINE Content == SecuritySettings \cup [ssid : Networks] \cup {Listing, Reading, None}
                      \cup Token
           Asked == SecuritySettings \cup [ssid : Networks] \cup {None}
                    \cup [username : Names, password : Passwords]
           Replies == {None, Failed, Unauthorized} \cup [status : {"ok"}, content : Content]
                       \cup {Answer("accepted", None)}
<1>1. /\ r = [k \in RequestFields |-> r[k]]
      /\ r.owner \in Owners /\ r.kind \in Kinds /\ r.token \in Token \cup {None}
      /\ r.at \in Senders(r.kind) /\ r.body \in Bodies(r.kind, r.at)
      /\ r.answer = None \/ r.answer \in Answers(r)
  BY DEF TypedRequest
<1>2. r.at \in Pages \cup {SignIn, None}
  BY <1>1 DEF Senders, Kinds, Pages, AdminPages, ReadingPages, SecurityPages, WiFiPages
<1>3. r.kind = "save" => r.body \in SecuritySettings \cup [ssid : Networks]
  BY <1>1 DEF Senders, Bodies, Documents, ReadingPages, SecurityPages
<1>4. r.body \in Asked
  BY <1>1, <1>3 DEF Bodies, Credentials
<1>5. Contents(r) \subseteq Content
  BY <1>1, <1>3, DocumentsTyped DEF Contents, Kinds
<1>6. \A c \in Content : Answer("ok", c) \in [status : {"ok"}, content : Content]
  BY DEF Answer
<1>7. r.answer \in Replies
  <2> HIDE DEF Content
  <2> QED BY <1>1, <1>5, <1>6 DEF Answers
<1>8. Request = [owner : Owners, kind : Kinds, at : Pages \cup {SignIn, None},
                 token : Token \cup {None}, body : Asked, answer : Replies]
  BY DEF Request
<1> HIDE DEF Asked, Replies, Content
<1> QED BY <1>1, <1>2, <1>4, <1>7, <1>8 DEF RequestFields

(* What the tabs, the device and the browsers hold is of its type, whatever  *)
(* answer arrives at whatever page (the documents that RestComponent and     *)
(* WiFiNetworkScanner are given, the token that SignInPage stores).          *)
THEOREM TabsAreTyped == Spec => []TypeOK
<1>1. ASSUME PageInv PROVE TypeOK
  <2>1. store \in [Browsers -> [token : Token \cup {None}, redirect : Pages \cup {None}]]
    BY <1>1 DEF PageInv, TabsInv, Settings
  <2>2. ASSUME NEW t \in Tabs
        PROVE  LET v == tab[t] IN
               /\ v.initialized \in BOOLEAN /\ v.waiting \in BOOLEAN /\ v.timer \in BOOLEAN
               /\ v.user \in [username : Names, admin : BOOLEAN] \cup {None}
               /\ v.path \in Pages \cup {Root, None}
               /\ v.mounted \in Pages \cup {SignIn, None}
               /\ v.selected \in Networks \cup {None}
               /\ v.polls \in 0..(NumPolls - 1)
               /\ v.data \in SecuritySettings \cup [ssid : Networks]
                             \cup {Listing, Reading, None}
               /\ \A i \in DOMAIN v.requests : v.requests[i] \in Request
    <3> DEFINE v == tab[t]
    <3>1. TypedTab(v)
      BY <1>1 DEF PageInv, TabsInv, TabInv
    <3>2. v.data \in SecuritySettings \cup [ssid : Networks] \cup {Listing, Reading, None}
      BY <3>1, DocumentsTyped DEF TypedTab
    <3>3. \A i \in DOMAIN v.requests : v.requests[i] \in Request
      BY <3>1, RequestTyped DEF TypedTab, TypedRequests
    <3> HIDE DEF v
    <3>4. /\ v.initialized \in BOOLEAN /\ v.waiting \in BOOLEAN /\ v.timer \in BOOLEAN
          /\ v.user \in [username : Names, admin : BOOLEAN] \cup {None}
          /\ v.path \in Pages \cup {Root, None}
          /\ v.mounted \in Pages \cup {SignIn, None}
          /\ v.selected \in Networks \cup {None}
          /\ v.polls \in 0..(NumPolls - 1)
      BY <3>1 DEF TypedTab
    <3> QED BY <3>2, <3>3, <3>4 DEF v
  <2> QED BY <1>1, <2>1, <2>2 DEF PageInv, DeviceInv, TypeOK
<1> QED BY <1>1, PagesInductive, PTL

(* A component waits exactly as long as one request or timeout of its own is *)
(* outstanding, in whatever order answers arrive and pages are left          *)
(* (RestComponent.loadData and saveData, WiFiNetworkScanner.pollNetworkList, *)
(* SignInPage.onSubmit).                                                     *)
THEOREM WaitersAreAnswered == Spec => []WaitingIsAwaited
<1>1. ASSUME PageInv PROVE WaitingIsAwaited
  <2> SUFFICES ASSUME NEW t \in Tabs
      PROVE LET v == tab[t]
                own == {i \in DOMAIN v.requests :
                          v.requests[i].owner = "mounted" /\ v.requests[i].kind # "verify"} IN
            /\ (v.mounted = None) = ~v.initialized
            /\ ~v.initialized /\ v.path # None =>
                 \E i \in DOMAIN v.requests : v.requests[i].kind = "verify"
            /\ Cardinality(own) + (IF v.timer THEN 1 ELSE 0) = IF v.waiting THEN 1 ELSE 0
    BY DEF WaitingIsAwaited
  <2> DEFINE v == tab[t]
  <2>1. TypedTab(v) /\ Awaits(v) /\ Routed(v)
    BY <1>1 DEF PageInv, TabsInv, TabInv
  <2> HIDE DEF v
  <2>2. (v.mounted = None) = ~v.initialized
    <3>1. v.path \in Pages \cup {Root, None} /\ v.initialized \in BOOLEAN
      BY <2>1 DEF TypedTab
    <3>2. v.initialized = TRUE => v.mounted # None
      BY <2>1, <3>1, NoneAssumption DEF Routed, Component
    <3>3. v.initialized = FALSE => v.mounted = None
      BY <2>1 DEF Routed
    <3> QED BY <3>1, <3>2, <3>3
  <2>3. ~v.initialized /\ v.path # None =>
          \E i \in DOMAIN v.requests : v.requests[i].kind = "verify"
    BY <2>1 DEF TypedTab, Routed, Verifies
  <2>4. Cardinality(Own(v.requests)) + (IF v.timer THEN 1 ELSE 0) = IF v.waiting THEN 1 ELSE 0
    <3>1. v.waiting \in BOOLEAN /\ v.timer \in BOOLEAN
      BY <2>1 DEF TypedTab
    <3>2. v.waiting = TRUE /\ v.timer = FALSE => Cardinality(Own(v.requests)) = 1
      BY <2>1, FS_Singleton DEF Awaits
    <3>3. v.waiting = FALSE \/ v.timer = TRUE =>
            Cardinality(Own(v.requests)) = 0 /\ (v.timer = TRUE => v.waiting = TRUE)
      BY <2>1, FS_EmptySet DEF Awaits
    <3> QED BY <3>1, <3>2, <3>3
  <2> QED BY <2>2, <2>3, <2>4 DEF v, Own
<1> QED BY <1>1, PagesInductive, PTL

(* The form of a selected network is about that network, whatever was loaded *)
(* before it was selected and whenever that answer arrives                   *)
(* (WiFiSettingsController.componentDidMount, WiFiConnection.selectNetwork). *)
THEOREM SelectionIsShown == Spec => []SelectedIsShown
<1>1. ASSUME PageInv PROVE SelectedIsShown
  BY <1>1 DEF PageInv, TabsInv, TabInv, Chosen, SelectedIsShown
<1> QED BY <1>1, PagesInductive, PTL

-----------------------------------------------------------------------------
(* The accounts of the device                                                *)

(* The security settings that a tab holds or posts come from the device or   *)
(* passed the check of the form of the users. Kept(c) is said of them        *)
(* wherever they may be on their way back to the device.                     *)
Kept(c) == "users" \in DOMAIN c /\ HasAdmin(c.users)

\* What the device has of them: nobody is left to load or to post the settings
\* of a broken file.
Whole(c) == c = Broken \/ Kept(c)

GoodRequest(r) ==
  /\ r = [k \in RequestFields |-> r[k]]
  /\ r.kind \in Kinds
  /\ r.kind \in {"scan", "list"} => r.at = "scan"
  /\ r.at \in SecurityPages =>
       /\ r.kind = "save" => Kept(r.body)
       /\ r.kind \in {"load", "save"} /\ r.answer # None =>
            r.answer.content = None \/ Kept(r.answer.content)

\* The requests of a tab that shows the page m.
GoodRequests(q, m) ==
  /\ q = [i \in DOMAIN q |-> q[i]]
  /\ \A i \in DOMAIN q :
       /\ GoodRequest(q[i])
       /\ q[i].owner = "mounted" /\ q[i].kind # "verify" => q[i].at = m

GoodTab(v) ==
  /\ IsTab(v)
  /\ GoodRequests(v.requests, v.mounted)
  /\ v.timer => v.mounted = "scan"
  /\ v.mounted \in SecurityPages /\ v.data # None =>
       "users" \in DOMAIN v.data /\ (v.mounted = "security" => HasAdmin(v.data.users))

\* A tab that shows nothing: what it sent belongs to no page.
Bare(v) ==
  /\ IsTab(v)
  /\ \A m : GoodRequests(v.requests, m)
  /\ v.data = None /\ v.timer = FALSE

(* The inductive invariant. *)
AdminInv ==
  /\ Whole(security) /\ Whole(flash)
  /\ tab = [t \in Tabs |-> tab[t]]
  /\ \A t \in Tabs : GoodTab(tab[t])

---------------------------------------------------------------------------
(* Requests                                                                  *)

LEMMA SentGood ==
  ASSUME NEW q, NEW m, NEW r, GoodRequests(q, m), GoodRequest(r), r.at = m
  PROVE  GoodRequests(Sent(q, r), m)
BY DEF Sent, GoodRequests

LEMMA FetchGood ==
  ASSUME NEW v, NEW s, NEW kind, NEW body, GoodTab(v), kind \in Kinds,
         kind \in {"scan", "list"} => v.mounted = "scan",
         kind = "save" /\ v.mounted \in SecurityPages => Kept(body)
  PROVE  GoodTab(Fetch(v, s, kind, body))
<1> DEFINE r == [owner |-> "mounted", kind |-> kind, at |-> v.mounted, token |-> s.token,
                 body |-> body, answer |-> None]
<1>1. GoodRequest(r)
  BY DEF GoodRequest, RequestFields
<1>2. GoodRequests(Sent(v.requests, r), v.mounted)
  BY <1>1, SentGood DEF GoodTab
<1> HIDE DEF r
<1>3. GoodTab([v EXCEPT !.requests = Sent(@, r)])
  BY <1>2 DEF GoodTab, IsTab, TabFields
<1> QED BY <1>3 DEF Fetch, r

LEMMA DisownGood ==
  ASSUME NEW q, NEW m, NEW from, NEW owner, GoodRequests(q, m), owner # "mounted"
  PROVE  /\ GoodRequests(Disown(q, from, owner), m)
         /\ "mounted" \in from => \A n : GoodRequests(Disown(q, from, owner), n)
<1> DEFINE d == Disown(q, from, owner)
<1>1. /\ d = [i \in DOMAIN d |-> d[i]] /\ DOMAIN d = DOMAIN q
      /\ \A i \in DOMAIN q :
           d[i] = IF q[i].owner \in from /\ q[i].kind # "verify"
                  THEN [q[i] EXCEPT !.owner = owner] ELSE q[i]
  BY DEF Disown
<1>2. \A i \in DOMAIN q : GoodRequest(q[i])
  BY DEF GoodRequests
<1>3. ASSUME NEW i \in DOMAIN q
      PROVE  /\ GoodRequest(d[i])
             /\ d[i].kind = q[i].kind /\ d[i].at = q[i].at
             /\ d[i].owner = IF q[i].owner \in from /\ q[i].kind # "verify"
                             THEN owner ELSE q[i].owner
  <2> DEFINE e == [q[i] EXCEPT !.owner = owner]
  <2>1. GoodRequest(q[i]) BY <1>2
  <2>2. /\ e = [k \in RequestFields |-> e[k]] /\ e.kind = q[i].kind /\ e.at = q[i].at
        /\ e.body = q[i].body /\ e.answer = q[i].answer /\ e.owner = owner
    BY <2>1 DEF GoodRequest, RequestFields
  <2>3. GoodRequest(e)
    BY <2>1, <2>2 DEF GoodRequest
  <2> QED BY <1>1, <2>1, <2>2, <2>3
<1> HIDE DEF d
<1>4. GoodRequests(d, m)
  BY <1>1, <1>3 DEF GoodRequests
<1>5. ASSUME "mounted" \in from, NEW n PROVE GoodRequests(d, n)
  BY <1>1, <1>3, <1>5 DEF GoodRequests
<1> QED BY <1>4, <1>5 DEF d

LEMMA RestrictGood ==
  ASSUME NEW q, NEW m, NEW S, GoodRequests(q, m), S \subseteq DOMAIN q
  PROVE  GoodRequests(Restrict(q, S), m)
BY DEF Restrict, GoodRequests

LEMMA LeftGood ==
  ASSUME NEW q, NEW m, NEW i \in DOMAIN q, NEW a, GoodRequests(q, m)
  PROVE  GoodRequests(Left(q, i, a), m)
<1> DEFINE r == q[i]
           e == [r EXCEPT !.owner = "dead"]
<1>1. CASE Overdue(r, a)
  <2>1. Left(q, i, a) = [q EXCEPT ![i] = e]
    BY <1>1 DEF Left
  <2>2. GoodRequest(r)
    BY DEF GoodRequests
  <2>3. /\ e = [k \in RequestFields |-> e[k]] /\ e.kind = r.kind /\ e.at = r.at
        /\ e.body = r.body /\ e.answer = r.answer /\ e.owner = "dead"
    BY <2>2 DEF GoodRequest, RequestFields
  <2> HIDE DEF e, r
  <2>4. GoodRequest(e)
    BY <2>2, <2>3 DEF GoodRequest
  <2> QED BY <2>1, <2>3, <2>4 DEF GoodRequests
<1>2. CASE ~Overdue(r, a)
  BY <1>2, RestrictGood DEF Left
<1> QED BY <1>1, <1>2

---------------------------------------------------------------------------
(* Tabs                                                                      *)

LEMMA BareIsGood ==
  ASSUME NEW v, Bare(v)
  PROVE  GoodTab(v)
BY DEF Bare, GoodTab

LEMMA LoadDataGood ==
  ASSUME NEW v, NEW s, GoodTab(v)
  PROVE  GoodTab(LoadData(v, s))
<1> DEFINE w == [v EXCEPT !.data = None, !.waiting = TRUE]
<1>1. GoodTab(w)
  BY DEF GoodTab, IsTab, TabFields
<1> HIDE DEF w
<1>2. GoodTab(Fetch(w, s, "load", None))
  BY <1>1, FetchGood DEF Kinds
<1> QED BY <1>2 DEF LoadData, w

LEMMA ScanNetworksGood ==
  ASSUME NEW v, NEW s, GoodTab(v), v.mounted = "scan"
  PROVE  GoodTab(ScanNetworks(v, s))
<1> DEFINE w == [v EXCEPT !.data = None, !.waiting = TRUE, !.polls = 0]
<1>1. GoodTab(w) /\ w.mounted = "scan"
  BY DEF GoodTab, IsTab, TabFields
<1> HIDE DEF w
<1>2. GoodTab(Fetch(w, s, "scan", None))
  BY <1>1, FetchGood DEF Kinds
<1> QED BY <1>2 DEF ScanNetworks, w

LEMMA UnmountBare ==
  ASSUME NEW v, GoodTab(v)
  PROVE  Bare(Unmount(v))
<1> DEFINE q == Disown(v.requests, {"mounted"}, "left")
<1>1. \A m : GoodRequests(q, m)
  BY DisownGood DEF GoodTab
<1> HIDE DEF q
<1> DEFINE w == [v EXCEPT !.mounted = None, !.waiting = FALSE, !.data = None, !.polls = 0,
                         !.timer = FALSE, !.requests = q]
<1>2. IsTab(w) /\ w.data = None /\ w.timer = FALSE /\ w.requests = q
  BY DEF GoodTab, IsTab, TabFields
<1>3. Unmount(v) = w
  BY DEF Unmount, q
<1> HIDE DEF w
<1> QED BY <1>1, <1>2, <1>3 DEF Bare

LEMMA MountGood ==
  ASSUME NEW v, NEW page, NEW s, Bare(v)
  PROVE  GoodTab(Mount(v, page, s))
<1> DEFINE w == [v EXCEPT !.mounted = page,
                         !.selected = IF page \in WiFiConnection THEN @ ELSE None]
           x == [w EXCEPT !.data = [ssid |-> w.selected]]
<1>1. /\ IsTab(w) /\ w.requests = v.requests /\ w.data = None /\ w.timer = FALSE
      /\ w.mounted = page
  BY DEF Bare, IsTab, TabFields
<1>2. Mount(v, page, s) = CASE page = SignIn -> w
       [] page = "scan" -> ScanNetworks(w, s)
       [] page = "wifi" /\ w.selected # None -> x
       [] OTHER -> LoadData(w, s)
  BY DEF Mount
<1> HIDE DEF w
<1>3. GoodTab(w)
  BY <1>1 DEF Bare, GoodTab
<1>4. ASSUME page = "wifi" PROVE GoodTab(x)
  <2>1. IsTab(x) /\ x.requests = w.requests /\ x.timer = FALSE /\ x.mounted = page
    BY <1>1 DEF IsTab, TabFields
  <2> QED BY <1>3, <1>4, <2>1, <1>1 DEF GoodTab, SecurityPages
<1> HIDE DEF x
<1>5. CASE page = "scan"
  BY <1>1, <1>2, <1>3, <1>5, ScanNetworksGood DEF SignIn
<1>6. CASE page # "scan"
  BY <1>2, <1>3, <1>4, <1>6, LoadDataGood
<1> QED BY <1>5, <1>6

\* A change of what neither the requests nor the data depend on.
LEMMA AlikeGood ==
  ASSUME NEW v, NEW w, GoodTab(v), IsTab(w), w.requests = v.requests,
         w.mounted = v.mounted, w.timer = v.timer, w.data = v.data
  PROVE  GoodTab(w)
BY DEF GoodTab

LEMMA RenderGood ==
  ASSUME NEW v, NEW s, GoodTab(v)
  PROVE  GoodTab(Render(v, s).tab)
<1>1. ASSUME NEW path PROVE GoodTab([v EXCEPT !.path = path])
  <2> DEFINE w == [v EXCEPT !.path = path]
  <2>1. /\ IsTab(w) /\ w.requests = v.requests /\ w.mounted = v.mounted
        /\ w.timer = v.timer /\ w.data = v.data
    BY DEF GoodTab, IsTab, TabFields
  <2> HIDE DEF w
  <2>2. GoodTab(w)
    BY <2>1, AlikeGood
  <2> QED BY <2>2 DEF w
<1>2. PICK path, target :
        Render(v, s).tab = IF target = v.mounted THEN [v EXCEPT !.path = path]
                           ELSE Mount(Unmount([v EXCEPT !.path = path]), target, s)
  <2> DEFINE w == [v EXCEPT !.path = Path(v, s)]
             target == IF v.initialized THEN Component(w.path) ELSE None
  <2>1. Render(v, s).tab = IF target = v.mounted THEN w ELSE Mount(Unmount(w), target, s)
    BY Zenon DEF Render
  <2> HIDE DEF target
  <2> QED BY <2>1, Zenon
<1> QED BY <1>1, <1>2, UnmountBare, MountGood

LEMMA ContextChangedGood ==
  ASSUME NEW v, NEW s, GoodTab(v)
  PROVE  GoodTab(ContextChanged(v, s).tab)
BY UnmountBare, BareIsGood, RenderGood DEF ContextChanged

LEMMA refreshGood ==
  ASSUME NEW v, NEW s, GoodTab(v)
  PROVE  GoodTab(refresh(v, s).tab)
<1> DEFINE w == [v EXCEPT !.initialized = TRUE, !.user = None]
<1>1. /\ IsTab(w) /\ w.requests = v.requests /\ w.mounted = v.mounted
      /\ w.timer = v.timer /\ w.data = v.data
  BY DEF GoodTab, IsTab, TabFields
<1>2. refresh(v, s).tab = IF s.token # None THEN Fetch(v, s, "verify", None)
                          ELSE ContextChanged(w, s).tab
  BY DEF refresh
<1> HIDE DEF w
<1>3. GoodTab(ContextChanged(w, s).tab)
  BY <1>1, AlikeGood, ContextChangedGood
<1>4. GoodTab(Fetch(v, s, "verify", None))
  BY FetchGood DEF Kinds
<1> QED BY <1>2, <1>3, <1>4

LEMMA EnterGood ==
  ASSUME NEW path, NEW q, NEW s, GoodRequests(q, None)
  PROVE  GoodTab(Enter(path, q, s).tab)
<1>1. GoodTab(NewTab(path, q))
  <2> DEFINE w == NewTab(path, q)
  <2>1. IsTab(w) /\ w.requests = q /\ w.mounted = None /\ w.timer = FALSE /\ w.data = None
    BY DEF NewTab, IsTab, TabFields
  <2> HIDE DEF w
  <2>2. GoodTab(w)
    BY <2>1 DEF GoodTab
  <2> QED BY <2>2 DEF w
<1> QED BY <1>1, refreshGood DEF Enter

LEMMA UnauthorizeGood ==
  ASSUME NEW v, NEW s, GoodTab(v)
  PROVE  GoodTab(Unauthorize(v, s).tab)
<1> DEFINE q == Restrict(v.requests,
                         {i \in DOMAIN v.requests : v.requests[i].kind # "verify"})
<1>1. GoodRequests(q, v.mounted)
  BY RestrictGood DEF GoodTab
<1> HIDE DEF q
<1>2. GoodRequests(Disown(q, {"mounted", "left"}, "gone"), None)
  BY <1>1, DisownGood
<1> QED BY <1>2, EnterGood DEF Unauthorize, q

LEMMA ReloadGood ==
  ASSUME NEW v, NEW path, NEW s, GoodTab(v)
  PROVE  GoodTab(Reload(v, path, s).tab)
<1> DEFINE q == Restrict(v.requests, {i \in DOMAIN v.requests :
                           v.requests[i].kind = "save" /\ v.requests[i].answer = None})
<1>1. GoodRequests(q, v.mounted)
  BY RestrictGood DEF GoodTab
<1> HIDE DEF q
<1>2. GoodRequests(Disown(q, Owners, "dead"), None)
  BY <1>1, DisownGood DEF Owners
<1> QED BY <1>2, EnterGood DEF Reload, q

---------------------------------------------------------------------------
(* Answers                                                                   *)

\* The answer a to the request r fits the tab v that receives it.
Fits(v, r, a) ==
  /\ r.owner = "mounted" /\ r.kind # "verify" => r.at = v.mounted
  /\ r.kind \in {"scan", "list"} => r.at = "scan"
  /\ r.kind \in {"load", "save"} /\ r.at \in SecurityPages =>
       a.content = None \/ Kept(a.content)

LEMMA VerifiedGood ==
  ASSUME NEW v, NEW s, NEW r, NEW a, GoodTab(v)
  PROVE  GoodTab(Verified(v, s, r, a).tab)
<1> DEFINE w == [v EXCEPT !.initialized = TRUE,
                         !.user = IF a.status = "ok" THEN Payload(r.token) ELSE None]
<1>1. /\ IsTab(w) /\ w.requests = v.requests /\ w.mounted = v.mounted
      /\ w.timer = v.timer /\ w.data = v.data
  BY DEF GoodTab, IsTab, TabFields
<1>2. Verified(v, s, r, a) = ContextChanged(w, s)
  BY DEF Verified
<1> HIDE DEF w
<1> QED BY <1>1, <1>2, AlikeGood, ContextChangedGood

LEMMA SignedInGood ==
  ASSUME NEW v, NEW s, NEW r, NEW a, GoodTab(v)
  PROVE  GoodTab(SignedIn(v, s, r, a).tab)
<1> DEFINE w == [v EXCEPT !.waiting = FALSE]
           x == [v EXCEPT !.user = Payload(a.content)]
<1>1. /\ IsTab(w) /\ w.requests = v.requests /\ w.mounted = v.mounted
      /\ w.timer = v.timer /\ w.data = v.data
  BY DEF GoodTab, IsTab, TabFields
<1>2. /\ IsTab(x) /\ x.requests = v.requests /\ x.mounted = v.mounted
      /\ x.timer = v.timer /\ x.data = v.data
  BY DEF GoodTab, IsTab, TabFields
<1>3. \/ SignedIn(v, s, r, a).tab \in {w, v}
      \/ SignedIn(v, s, r, a) = ContextChanged(x, [s EXCEPT !.token = a.content])
  BY DEF SignedIn
<1> HIDE DEF w, x
<1>4. GoodTab(w) /\ GoodTab(x)
  BY <1>1, <1>2, AlikeGood
<1> QED BY <1>3, <1>4, ContextChangedGood

\* The mounted page shows what it was answered, or what it showed.
LEMMA ShownGood ==
  ASSUME NEW v, NEW data, GoodTab(v),
         v.mounted \in SecurityPages => data \in {v.data, None} \/ Kept(data)
  PROVE  GoodTab([v EXCEPT !.waiting = FALSE, !.data = data])
<1> DEFINE w == [v EXCEPT !.waiting = FALSE, !.data = data]
<1>1. /\ IsTab(w) /\ w.requests = v.requests /\ w.mounted = v.mounted
      /\ w.timer = v.timer /\ w.data = data
  BY DEF GoodTab, IsTab, TabFields
<1> HIDE DEF w
<1>2. GoodTab(w)
  BY <1>1 DEF GoodTab, Kept
<1> QED BY <1>2 DEF w

LEMMA LoadedGood ==
  ASSUME NEW v, NEW s, NEW r, NEW a, GoodTab(v), Fits(v, r, a), r.kind = "load"
  PROVE  GoodTab(Loaded(v, s, r, a).tab)
BY ShownGood DEF Loaded, Fits

LEMMA SavedGood ==
  ASSUME NEW v, NEW s, NEW r, NEW a, GoodTab(v), Fits(v, r, a), r.kind = "save"
  PROVE  GoodTab(Saved(v, s, r, a).tab)
<1> DEFINE data == IF a.status = "ok" THEN a.content ELSE v.data
           w == IF r.owner # "mounted" THEN v
                ELSE [v EXCEPT !.waiting = FALSE, !.data = data]
<1>1. GoodTab(w)
  BY ShownGood DEF Fits
<1>2. Saved(v, s, r, a) \in {refresh(w, s), [tab |-> w, store |-> s]}
  BY DEF Saved
<1> HIDE DEF w
<1> QED BY <1>1, <1>2, refreshGood

LEMMA PolledGood ==
  ASSUME NEW v, GoodTab(v), v.mounted = "scan", NEW polls
  PROVE  /\ GoodTab([v EXCEPT !.timer = TRUE])
         /\ GoodTab([v EXCEPT !.polls = polls, !.timer = TRUE])
<1> DEFINE w == [v EXCEPT !.timer = TRUE]
           x == [v EXCEPT !.polls = polls, !.timer = TRUE]
<1>1. IsTab(w) /\ w.requests = v.requests /\ w.mounted = "scan" /\ w.data = v.data
  BY DEF GoodTab, IsTab, TabFields
<1>2. IsTab(x) /\ x.requests = v.requests /\ x.mounted = "scan" /\ x.data = v.data
  BY DEF GoodTab, IsTab, TabFields
<1> HIDE DEF w, x
<1>3. GoodTab(w) /\ GoodTab(x)
  BY <1>1, <1>2 DEF GoodTab, SecurityPages
<1> QED BY <1>3 DEF w, x

LEMMA ScannedGood ==
  ASSUME NEW v, NEW s, NEW r, NEW a, GoodTab(v), Fits(v, r, a), r.kind = "scan"
  PROVE  GoodTab(Scanned(v, s, r, a).tab)
<1>1. CASE r.owner # "mounted"
  BY <1>1 DEF Scanned
<1>2. CASE r.owner = "mounted"
  <2>1. v.mounted = "scan" /\ v.mounted \notin SecurityPages
    BY <1>2 DEF Fits, SecurityPages
  <2>2. /\ GoodTab([v EXCEPT !.timer = TRUE])
        /\ GoodTab([v EXCEPT !.waiting = FALSE, !.data = None])
    BY <2>1, ShownGood, PolledGood
  <2> QED BY <1>2, <2>2 DEF Scanned
<1> QED BY <1>1, <1>2

LEMMA ListedGood ==
  ASSUME NEW v, NEW s, NEW r, NEW a, GoodTab(v), Fits(v, r, a), r.kind = "list"
  PROVE  GoodTab(Listed(v, s, r, a).tab)
<1>1. CASE r.owner # "mounted"
  BY <1>1 DEF Listed
<1>2. CASE r.owner = "mounted"
  <2>1. v.mounted = "scan" /\ v.mounted \notin SecurityPages
    BY <1>2 DEF Fits, SecurityPages
  <2>2. /\ GoodTab([v EXCEPT !.polls = v.polls + 1, !.timer = TRUE])
        /\ GoodTab([v EXCEPT !.waiting = FALSE, !.data = a.content])
    BY <2>1, ShownGood, PolledGood
  <2> QED BY <1>2, <2>2 DEF Listed
<1> QED BY <1>1, <1>2

LEMMA SettledGood ==
  ASSUME NEW v, NEW s, NEW r, NEW a, GoodTab(v), Fits(v, r, a), r.kind \in Kinds
  PROVE  GoodTab(Settled(v, s, r, a).tab)
<1>1. CASE r.owner = "dead"
  BY <1>1 DEF Settled
<1>2. CASE r.owner # "dead" /\ a = Unauthorized /\ r.kind \notin {"verify", "signin"}
  BY <1>2, UnauthorizeGood DEF Settled
<1>3. CASE r.owner # "dead" /\ ~(a = Unauthorized /\ r.kind \notin {"verify", "signin"})
  <2>1. Settled(v, s, r, a) =
          CASE r.kind = "verify" -> Verified(v, s, r, a)
            [] r.kind = "signin" -> SignedIn(v, s, r, a)
            [] r.kind = "load" -> Loaded(v, s, r, a)
            [] r.kind = "save" -> Saved(v, s, r, a)
            [] r.kind = "scan" -> Scanned(v, s, r, a)
            [] r.kind = "list" -> Listed(v, s, r, a)
    BY <1>3, Zenon DEF Settled
  <2>2. CASE r.kind = "verify" BY <2>1, <2>2, VerifiedGood
  <2>3. CASE r.kind = "signin" BY <2>1, <2>3, SignedInGood
  <2>4. CASE r.kind = "load" BY <2>1, <2>4, LoadedGood
  <2>5. CASE r.kind = "save" BY <2>1, <2>5, SavedGood
  <2>6. CASE r.kind = "scan" BY <2>1, <2>6, ScannedGood
  <2>7. CASE r.kind = "list" BY <2>1, <2>7, ListedGood
  <2> QED BY <2>2, <2>3, <2>4, <2>5, <2>6, <2>7 DEF Kinds
<1> QED BY <1>1, <1>2, <1>3

---------------------------------------------------------------------------
(* Steps                                                                     *)

LEMMA PutGood ==
  ASSUME AdminInv, NEW t \in Tabs, NEW w, GoodTab(w), tab' = [tab EXCEPT ![t] = w],
         UNCHANGED <<security, flash>>
  PROVE  AdminInv'
BY DEF AdminInv

LEMMA AnsweredGood ==
  ASSUME AdminInv, NEW t \in Tabs, NEW i \in DOMAIN tab[t].requests, NEW answer,
         Answered(t, i, answer),
         tab[t].requests[i].at \in SecurityPages /\ tab[t].requests[i].kind \in {"load", "save"} =>
           answer.content = None \/ Kept(answer.content)
  PROVE  tab' = [u \in Tabs |-> tab'[u]] /\ \A u \in Tabs : GoodTab(tab'[u])
<1> DEFINE v == tab[t]
           q == v.requests
           r == q[i]
           e == [r EXCEPT !.answer = answer]
           p == [q EXCEPT ![i] = e]
           w == [v EXCEPT !.requests = p]
<1>1. GoodTab(v) /\ GoodRequests(q, v.mounted) /\ GoodRequest(r)
  BY DEF AdminInv, GoodTab, GoodRequests
<1>2. /\ e = [k \in RequestFields |-> e[k]] /\ e.kind = r.kind /\ e.at = r.at
      /\ e.body = r.body /\ e.answer = answer /\ e.owner = r.owner
  BY <1>1 DEF GoodRequest, RequestFields
<1>3. GoodRequest(e)
  <2> HIDE DEF e, r
  <2> QED BY <1>1, <1>2 DEF GoodRequest, r
<1>4. p = [j \in DOMAIN p |-> p[j]] /\ DOMAIN p = DOMAIN q
      /\ \A j \in DOMAIN q : p[j] = IF j = i THEN e ELSE q[j]
  <2> HIDE DEF e
  <2> QED BY <1>1 DEF GoodRequests
<1>5. GoodRequests(p, v.mounted)
  <2> HIDE DEF e, p
  <2> QED BY <1>1, <1>2, <1>3, <1>4 DEF GoodRequests
<1>6. GoodTab(w)
  <2>1. /\ IsTab(w) /\ w.requests = p /\ w.mounted = v.mounted /\ w.timer = v.timer
        /\ w.data = v.data
    <3> HIDE DEF p
    <3> QED BY <1>1 DEF GoodTab, IsTab, TabFields
  <2> HIDE DEF w, p
  <2> QED BY <1>1, <1>5, <2>1 DEF GoodTab
<1>7. tab' = [tab EXCEPT ![t] = w]
  BY DEF Answered
<1> HIDE DEF w
<1> QED BY <1>6, <1>7 DEF AdminInv

\* An action of the user that changes nothing but one tab.
LEMMA ClickGood ==
  ASSUME AdminInv, NEW t \in Tabs, NEW w, NEW s, GoodTab(w), Click(t, w, s)
  PROVE  AdminInv'
<1>1. tab' = [tab EXCEPT ![t] = w] /\ UNCHANGED <<security, flash>>
  BY DEF Click, Put, device
<1> QED BY <1>1, PutGood

LEMMA SetDataGood ==
  ASSUME AdminInv, NEW t \in Tabs, NEW data, SetData(t, data),
         tab[t].mounted \in SecurityPages =>
           "users" \in DOMAIN data /\ (tab[t].mounted = "security" => HasAdmin(data.users))
  PROVE  AdminInv'
<1> DEFINE v == tab[t]
           w == [v EXCEPT !.data = data]
<1>1. GoodTab(v)
  BY DEF AdminInv
<1>2. /\ IsTab(w) /\ w.requests = v.requests /\ w.mounted = v.mounted /\ w.timer = v.timer
      /\ w.data = data
  BY <1>1 DEF GoodTab, IsTab, TabFields
<1>3. Click(t, w, Storage(t))
  BY DEF SetData
<1> HIDE DEF w
<1>4. GoodTab(w)
  BY <1>1, <1>2 DEF GoodTab
<1> QED BY <1>3, <1>4, ClickGood

LEMMA UserActsGood ==
  ASSUME AdminInv, NEW t \in Tabs, UserActs(t)
  PROVE  AdminInv'
<1> DEFINE v == tab[t]
           s == Storage(t)
<1>1. GoodTab(v)
  BY DEF AdminInv
<1>2. ASSUME NEW path, Open(t, path) PROVE AdminInv'
  <2>1. GoodRequests(NoRequests, None)
    BY DEF GoodRequests, NoRequests
  <2>2. GoodTab(Enter(path, NoRequests, s).tab)
    BY <2>1, EnterGood
  <2> QED BY <1>2, <2>2, PutGood DEF Open, Put
<1>3. ASSUME NEW path, GoTo(t, path) PROVE AdminInv'
  BY <1>1, <1>3, ReloadGood, ClickGood DEF GoTo, ClickRendered
<1>4. ASSUME NEW page \in Pages, Navigate(t, page) PROVE AdminInv'
  <2> DEFINE w == [v EXCEPT !.path = page]
  <2>1. /\ IsTab(w) /\ w.requests = v.requests /\ w.mounted = v.mounted
        /\ w.timer = v.timer /\ w.data = v.data
    BY <1>1 DEF GoodTab, IsTab, TabFields
  <2>2. ClickRendered(t, Render(w, s))
    BY <1>4 DEF Navigate
  <2> HIDE DEF w
  <2> QED BY <1>1, <2>1, <2>2, AlikeGood, RenderGood, ClickGood DEF ClickRendered
<1>5. ASSUME SignOut(t) PROVE AdminInv'
  <2> DEFINE w == [v EXCEPT !.user = None, !.path = Root]
  <2>1. /\ IsTab(w) /\ w.requests = v.requests /\ w.mounted = v.mounted
        /\ w.timer = v.timer /\ w.data = v.data
    BY <1>1 DEF GoodTab, IsTab, TabFields
  <2>2. ClickRendered(t, Render(w, [s EXCEPT !.token = None]))
    BY <1>5 DEF SignOut
  <2> HIDE DEF w
  <2> QED BY <1>1, <2>1, <2>2, AlikeGood, RenderGood, ClickGood DEF ClickRendered
<1>6. \A w : IsTab(w) /\ w.requests = v.requests /\ w.mounted = v.mounted
              /\ w.timer = v.timer /\ w.data = v.data => GoodTab(w)
  BY <1>1, AlikeGood
<1> DEFINE waits == [v EXCEPT !.waiting = TRUE]
<1>7. /\ IsTab(waits) /\ waits.requests = v.requests /\ waits.mounted = v.mounted
      /\ waits.timer = v.timer /\ waits.data = v.data
  BY <1>1 DEF GoodTab, IsTab, TabFields
<1>8. ASSUME NEW username, NEW password, SubmitSignIn(t, username, password)
      PROVE  AdminInv'
  <2>1. \E x : Click(t, Fetch(waits, [token |-> None], "signin", x), s)
    BY <1>8, Zenon DEF SubmitSignIn
  <2> HIDE DEF waits
  <2> QED BY <1>6, <1>7, <2>1, FetchGood, ClickGood DEF Kinds
<1>9. ASSUME Reset(t) PROVE AdminInv'
  <2> DEFINE l == LoadData(v, s)
             w == [l EXCEPT !.selected = None]
  <2>1. GoodTab(l)
    BY <1>1, LoadDataGood
  <2>2. ClickRendered(t, ContextChanged(w, s)) \/ Click(t, l, s)
    BY <1>9 DEF Reset
  <2> HIDE DEF l
  <2>3. /\ IsTab(w) /\ w.requests = l.requests /\ w.mounted = l.mounted
        /\ w.timer = l.timer /\ w.data = l.data
    BY <2>1 DEF GoodTab, IsTab, TabFields
  <2> HIDE DEF w
  <2>4. GoodTab(w)
    BY <2>1, <2>3, AlikeGood
  <2> QED BY <2>1, <2>2, <2>4, ContextChangedGood, ClickGood DEF ClickRendered
<1>10. ASSUME DeselectNetwork(t) PROVE AdminInv'
  <2> DEFINE w == [v EXCEPT !.selected = None]
  <2>1. /\ IsTab(w) /\ w.requests = v.requests /\ w.mounted = v.mounted
        /\ w.timer = v.timer /\ w.data = v.data
    BY <1>1 DEF GoodTab, IsTab, TabFields
  <2>2. ClickRendered(t, ContextChanged(w, s))
    BY <1>10 DEF DeselectNetwork
  <2> HIDE DEF w
  <2> QED BY <1>6, <2>1, <2>2, ContextChangedGood, ClickGood DEF ClickRendered
<1>11. ASSUME NEW secret, ChangeSecret(t, secret) PROVE AdminInv'
  <2> DEFINE data == [v.data EXCEPT !.jwt_secret = secret]
  <2>1. v.mounted = "security" /\ v.data # None /\ SetData(t, data)
    BY <1>11 DEF ChangeSecret, Shown
  <2>2. "users" \in DOMAIN v.data /\ HasAdmin(v.data.users)
    BY <1>1, <2>1 DEF GoodTab, SecurityPages
  <2>3. DOMAIN data = DOMAIN v.data /\ data.users = v.data.users
    BY <2>2
  <2> HIDE DEF data
  <2> QED BY <2>1, <2>2, <2>3, SetDataGood
<1>12. ASSUME NEW users, Shown(t, {"users"}), SetData(t, [v.data EXCEPT !.users = users])
       PROVE  AdminInv'
  <2> DEFINE data == [v.data EXCEPT !.users = users]
  <2>1. v.mounted = "users" /\ "users" \in DOMAIN v.data
    BY <1>1, <1>12 DEF Shown, GoodTab, SecurityPages
  <2>2. DOMAIN data = DOMAIN v.data /\ SetData(t, data)
    BY <1>12
  <2> HIDE DEF data
  <2> QED BY <2>1, <2>2, SetDataGood
<1>13. ASSUME NEW user, DoneEditingUser(t, user) PROVE AdminInv'
  BY <1>12, <1>13 DEF DoneEditingUser
<1>14. ASSUME NEW username, RemoveUser(t, username) PROVE AdminInv'
  BY <1>12, <1>14 DEF RemoveUser
<1>15. ASSUME NEW network, ChangeNetwork(t, network) PROVE AdminInv'
  BY <1>15, SetDataGood DEF ChangeNetwork, Shown, SecurityPages
<1>16. ASSUME NEW network, SelectNetwork(t, network) PROVE AdminInv'
  <2> DEFINE w == [v EXCEPT !.selected = network, !.path = "wifi"]
  <2>1. /\ IsTab(w) /\ w.requests = v.requests /\ w.mounted = v.mounted
        /\ w.timer = v.timer /\ w.data = v.data
    BY <1>1 DEF GoodTab, IsTab, TabFields
  <2>2. ClickRendered(t, Render(w, s))
    BY <1>16 DEF SelectNetwork
  <2> HIDE DEF w
  <2> QED BY <1>6, <2>1, <2>2, RenderGood, ClickGood DEF ClickRendered
\* The form of the users does not save without an admin; that of the secret
\* has the users it was given.
<1>17. ASSUME Save(t) PROVE AdminInv'
  <2>1. /\ Click(t, Fetch(waits, s, "save", v.data), s)
        /\ v.data # None /\ ~(v.mounted = "users" /\ ~HasAdmin(v.data.users))
    BY <1>17 DEF Save, Shown, noAdminConfigured
  <2>2. v.mounted \in SecurityPages => Kept(v.data)
    BY <1>1, <2>1 DEF GoodTab, SecurityPages, Kept
  <2> HIDE DEF waits
  <2>3. GoodTab(Fetch(waits, s, "save", v.data))
    BY <1>6, <1>7, <2>2, FetchGood DEF Kinds
  <2> QED BY <2>1, <2>3, ClickGood
<1>18. ASSUME RequestNetworkScan(t) PROVE AdminInv'
  BY <1>1, <1>18, ScanNetworksGood, ClickGood DEF RequestNetworkScan
<1> QED
  BY <1>2, <1>3, <1>4, <1>5, <1>8, <1>9, <1>10, <1>11, <1>13, <1>14, <1>15, <1>16, <1>17,
     <1>18 DEF UserActs

LEMMA DeviceHandlesGood ==
  ASSUME AdminInv, NEW t \in Tabs, NEW i \in DOMAIN tab[t].requests, DeviceHandles(t, i)
  PROVE  AdminInv'
<1> DEFINE r == tab[t].requests[i]
<1>1. GoodRequest(r)
  BY DEF AdminInv, GoodTab, GoodRequests
<1>2. ASSUME NEW answer, Answered(t, i, answer), Whole(security'), Whole(flash'),
             r.at \in SecurityPages /\ r.kind \in {"load", "save"} =>
               answer.content = None \/ Kept(answer.content)
      PROVE  AdminInv'
  BY <1>2, AnsweredGood DEF AdminInv
<1>3. CASE VerifyAuthorization(t, i)
  BY <1>3, <1>2 DEF VerifyAuthorization, Handle, device, AdminInv
<1>4. CASE HandleSignIn(t, i)
  BY <1>4, <1>2 DEF HandleSignIn, Handle, device, AdminInv
<1>5. CASE Refuse(t, i)
  BY <1>5, <1>2 DEF Refuse, Handle, device, AdminInv, Unauthorized, Answer
<1>6. CASE Serve(t, i)
  <2>1. /\ Answered(t, i, Answer("ok", Document(r.at))) /\ UNCHANGED <<security, flash>>
        /\ Granted(r)
    BY <1>6 DEF Serve, Handle, device
  <2>2. r.at \in SecurityPages => security # Broken
    BY <2>1 DEF Granted, AdminPages, IS_ADMIN, Found, authenticateRequest, Broken
  <2>3. r.at \in SecurityPages => Kept(Document(r.at))
    BY <2>2 DEF Document, AdminInv, Whole, SecurityPages
  <2> QED BY <2>1, <2>3, <1>2 DEF AdminInv, Answer
<1>7. CASE Update(t, i)
  <2>1. /\ r.kind = "save" /\ r.at \in SecurityPages => Kept(r.body)
        /\ \E answer \in {Failed, Answer("ok", r.body)} : Answered(t, i, answer)
    BY <1>1, <1>7 DEF Update, Handle, GoodRequest
  <2>2. Whole(security') /\ Whole(flash')
    <3>1. /\ security' = IF r.at \in SecurityPages THEN r.body ELSE security
          /\ flash' \in {flash, Broken} \/ (r.at \in SecurityPages /\ flash' = r.body)
      BY <1>7 DEF Update
    <3>2. r.at \in SecurityPages => Whole(r.body)
      BY <1>1, <1>7 DEF Update, GoodRequest, Whole
    <3> QED BY <3>1, <3>2 DEF AdminInv, Whole
  <2>3. PICK answer \in {Failed, Answer("ok", r.body)} : Answered(t, i, answer)
    BY <2>1
  <2>4. r.at \in SecurityPages => answer.content = None \/ Kept(answer.content)
    BY <1>1, <1>7, <2>3 DEF Update, GoodRequest, Failed, Answer
  <2> QED BY <2>2, <2>3, <2>4, <1>2
<1>10. CASE PowerLoss(t, i)
  <2>1. /\ Answered(t, i, Failed) /\ security' = flash' /\ flash' \in {flash, Broken}
    BY <1>10 DEF PowerLoss, Restarted
  <2>2. Whole(security') /\ Whole(flash')
    BY <2>1 DEF AdminInv, Whole
  <2> QED BY <2>1, <2>2, <1>2 DEF Failed, Answer
<1>8. CASE HandleScan(t, i)
  BY <1>8, <1>1, <1>2 DEF HandleScan, Handle, GoodRequest, SecurityPages, AdminInv
<1>9. CASE ListNetworks(t, i)
  BY <1>9, <1>1, <1>2 DEF ListNetworks, Handle, GoodRequest, SecurityPages, AdminInv
<1> QED
  BY <1>3, <1>4, <1>5, <1>6, <1>7, <1>8, <1>9, <1>10 DEF DeviceHandles

LEMMA DeliverGood ==
  ASSUME AdminInv, NEW t \in Tabs, NEW i \in DOMAIN tab[t].requests, Deliver(t, i)
  PROVE  AdminInv'
<1> DEFINE u == tab[t]
           r == u.requests[i]
<1>1. /\ GoodTab(u) /\ GoodRequest(r)
      /\ r.owner = "mounted" /\ r.kind # "verify" => r.at = u.mounted
  BY DEF AdminInv, GoodTab, GoodRequests
<1>3. PICK a \in {r.answer, Failed} \ {None} :
        Put(t, Settled([u EXCEPT !.requests = Left(@, i, a)], Storage(t), r, a))
  BY DEF Deliver
<1> DEFINE q == Left(u.requests, i, a)
           v == [u EXCEPT !.requests = q]
<1>6. Put(t, Settled(v, Storage(t), r, a))
  BY <1>3
<1>2. GoodTab(v) /\ v.mounted = u.mounted
  <2>1. GoodRequests(q, u.mounted)
    BY <1>1, LeftGood DEF GoodTab
  <2> HIDE DEF q
  <2>2. /\ IsTab(v) /\ v.requests = q /\ v.mounted = u.mounted /\ v.timer = u.timer
        /\ v.data = u.data
    BY <1>1 DEF GoodTab, IsTab, TabFields
  <2> HIDE DEF v
  <2> QED BY <1>1, <2>1, <2>2 DEF GoodTab
<1> HIDE DEF v
<1>4. Fits(v, r, a)
  BY <1>1, <1>2, <1>3 DEF Fits, GoodRequest, Failed, Answer
<1>5. GoodTab(Settled(v, Storage(t), r, a).tab)
  BY <1>1, <1>2, <1>4, SettledGood DEF GoodRequest
<1> QED BY <1>5, <1>6, PutGood DEF Put, Deliver

LEMMA PollNetworkListGood ==
  ASSUME AdminInv, NEW t \in Tabs, PollNetworkList(t)
  PROVE  AdminInv'
<1> DEFINE v == tab[t]
           w == [v EXCEPT !.timer = FALSE]
<1>1. GoodTab(v) /\ v.mounted = "scan"
  BY DEF AdminInv, GoodTab, PollNetworkList
<1>2. /\ IsTab(w) /\ w.requests = v.requests /\ w.mounted = v.mounted /\ w.timer = FALSE
      /\ w.data = v.data
  BY <1>1 DEF GoodTab, IsTab, TabFields
<1>3. tab' = [tab EXCEPT ![t] = Fetch(w, Storage(t), "list", None)]
  BY DEF PollNetworkList
<1> HIDE DEF w
<1>4. GoodTab(w)
  BY <1>1, <1>2 DEF GoodTab
<1>5. GoodTab(Fetch(w, Storage(t), "list", None))
  BY <1>1, <1>2, <1>4, FetchGood DEF Kinds
<1>6. UNCHANGED <<security, flash>>
  BY DEF PollNetworkList
<1> QED BY <1>3, <1>5, <1>6, PutGood

LEMMA InitGood ==
  ASSUME Init
  PROVE  AdminInv
<1>1. Whole(security) /\ Whole(flash)
  BY DEF Init, Whole, Kept, SecuritySettings
<1>2. GoodTab(NewTab(None, NoRequests))
  <2> DEFINE w == NewTab(None, NoRequests)
  <2>1. /\ IsTab(w) /\ w.requests = NoRequests /\ w.mounted = None /\ w.timer = FALSE
        /\ w.data = None
    BY DEF NewTab, IsTab, TabFields
  <2> HIDE DEF w
  <2>2. GoodRequests(NoRequests, None)
    BY DEF GoodRequests, NoRequests
  <2>3. GoodTab(w)
    BY <2>1, <2>2 DEF GoodTab
  <2> QED BY <2>3 DEF w
<1> QED BY <1>1, <1>2 DEF Init, AdminInv

LEMMA NextGood ==
  ASSUME AdminInv, [Next]_vars
  PROVE  AdminInv'
<1>1. ASSUME NEW t \in Tabs, Network(t) PROVE AdminInv'
  BY <1>1, DeviceHandlesGood, DeliverGood DEF Network
<1>2. CASE ScanCompletes
  BY <1>2 DEF ScanCompletes, AdminInv
<1>3. CASE UNCHANGED vars
  BY <1>3 DEF vars, AdminInv
<1>4. CASE Restart
  BY <1>4 DEF Restart, Restarted, AdminInv
<1> QED BY <1>1, <1>2, <1>3, <1>4, UserActsGood, PollNetworkListGood DEF Next

(* The device always has an admin, and after any restart, however many tabs  *)
(* edit and post their own copies of the users, unless it lost its file      *)
(* (SecuritySettingsService::readFromJsonObject takes what it is given;      *)
(* ManageUsersForm and SecuritySettingsForm are what keeps one).             *)
THEOREM AnAdminRemains == Spec => []AdminRemains
<1>1. AdminInv => AdminRemains
  BY DEF AdminInv, Whole, Kept, AdminRemains
<1> QED BY <1>1, InitGood, NextGood, PTL DEF Spec

(* Whoever replaces the security settings is an admin of the settings        *)
(* replaced, by a token of their secret: SecurityManager::authenticateRequest *)
(* looks the token up when the request is handled. Otherwise only a restart  *)
(* does, with what is on the flash.                                          *)
THEOREM OnlyAdminsChangeSettings == Spec => OnlyAdminsChange
<1> DEFINE Restarts == security' = flash /\ UNCHANGED <<flash, tab>>
           Changed ==
      \E t \in Tabs : \E i \in DOMAIN tab[t].requests :
        LET r == tab[t].requests[i] IN
        /\ r.kind = "save" /\ r.answer = None /\ r.token # None
        /\ r.token.secret = security.jwt_secret
        /\ \E u \in security.users : u.admin /\ u.username = r.token.username
<1>1. ASSUME NEW t \in Tabs, UserActs(t) PROVE security' = security
  BY <1>1 DEF UserActs, Open, GoTo, Navigate, SignOut, SubmitSignIn, Reset, DeselectNetwork,
     ChangeSecret, DoneEditingUser, RemoveUser, ChangeNetwork, SelectNetwork, Save,
     RequestNetworkScan, SetData, ClickRendered, Click, device
<1>2. ASSUME PageInv, NEW t \in Tabs, NEW i \in DOMAIN tab[t].requests,
             Update(t, i) \/ PowerLoss(t, i), security' # security
      PROVE  Changed
  <2> DEFINE r == tab[t].requests[i]
  <2>1. r.kind = "save" /\ r.answer = None /\ Granted(r)
    BY <1>2 DEF Update, PowerLoss, Handle, Answered
  <2>4. r.at \in AdminPages
    BY <1>2, <2>1 DEF PageInv, TabsInv, TabInv, TypedTab, TypedRequests, TypedRequest, Senders,
       AdminPages, WiFiPages
  <2>2. PICK u \in authenticateRequest(security, r.token) : u.admin
    BY <2>1, <2>4 DEF Granted, IS_ADMIN, Found
  <2>3. /\ r.token # None /\ r.token.secret = security.jwt_secret
        /\ u \in security.users /\ u.username = r.token.username
    BY <2>2 DEF authenticateRequest
  <2> QED BY <2>1, <2>2, <2>3
<1>3. ASSUME NEW t \in Tabs, NEW i \in DOMAIN tab[t].requests,
             DeviceHandles(t, i), ~Update(t, i), ~PowerLoss(t, i)
      PROVE  security' = security
  BY <1>3 DEF DeviceHandles, VerifyAuthorization, HandleSignIn, Refuse, Serve, HandleScan,
     ListNetworks, device
<1>4. ASSUME PageInv, [Next]_vars, security' # security PROVE Restarts \/ Changed
  <2>1. \A t \in Tabs : ~UserActs(t) /\ ~PollNetworkList(t)
    BY <1>1, <1>4 DEF PollNetworkList
  <2>2. ~ScanCompletes /\ ~UNCHANGED vars
    BY <1>4 DEF ScanCompletes, vars
  <2>3. CASE Restart
    BY <2>3 DEF Restart, Restarted
  <2>4. CASE ~Restart
    <3>1. PICK t \in Tabs : Network(t)
      BY <1>4, <2>1, <2>2, <2>4 DEF Next
    <3>2. PICK i \in DOMAIN tab[t].requests : DeviceHandles(t, i) \/ Deliver(t, i)
      BY <3>1 DEF Network
    <3>3. ~Deliver(t, i)
      BY <1>4 DEF Deliver
    <3> QED BY <1>2, <1>3, <1>4, <3>2, <3>3
  <2> QED BY <2>3, <2>4
<1>5. PageInv /\ [Next]_vars => [security' # security => Restarts \/ Changed]_vars
  BY <1>4
<1> QED BY <1>5, PagesInductive, PTL DEF Spec, OnlyAdminsChange
=============================================================================
