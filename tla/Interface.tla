------------------------------ MODULE Interface ------------------------------
(* The web interface and the device it administers: the session of a tab     *)
(* (AuthenticationWrapper, routes, SignInPage), the page it shows            *)
(* (RestComponent with its forms, WiFiNetworkScanner, WiFiConnection) and    *)
(* the requests under way, over the accounts of the device.                  *)
(*                                                                           *)
(* JavaScript runs one callback at a time, so a click, a timer or the        *)
(* arrival of an answer is one action, with all it renders, mounts and       *)
(* sends. Between sending a request and receiving its answer anything may    *)
(* happen: the request is handled by the device at some moment (Handle) and  *)
(* its answer arrives, or fails to, at a later one (Deliver), in any order.  *)
(* A save that the browser gave up may still be handled. The device may      *)
(* restart at any moment, and power may fail while it writes.                *)
(*                                                                           *)
(* One page stands for the pages that behave alike: "status" for the         *)
(* read-only ones, but for the one of the Wi-Fi section, "wifistatus", and   *)
(* "wifi" for the settings of the services.                                  *)
EXTENDS Accounts, Naturals, FiniteSets, Functions

CONSTANTS
  Tabs,
  BrowserOf,      \* the browser, with its localStorage, that a tab runs in
  Networks,       \* the networks in reach
  NumPolls,       \* NUM_POLLS
  DefaultSecret,  \* DEFAULT_JWT_SECRET
  Addresses,      \* bound: the addresses that users enter
  MaxClicks       \* bound: what the users of all tabs do, restarts among it

ASSUME NumPollsAssumption == NumPolls \in Nat \ {0}

ASSUME SecretAssumption == DefaultSecret \in Secrets

VARIABLES
  security,       \* the device: SecuritySettingsService and its SecurityManager
  flash,          \* the device: what that service would read at a start
  ssid,           \* the device: the settings of the other services
  radio,          \* the device: WiFi.scanComplete()
  store,          \* localStorage of each browser
  tab,            \* each tab
  clicks          \* user actions and restarts of the device so far

device == <<security, flash, ssid, radio>>
vars == <<security, flash, ssid, radio, store, tab, clicks>>

Root == "/"
SignIn == "signin"
SecurityPages == {"users", "security"}
WiFiPages == {"scan", "wifi"}
AdminPages == SecurityPages \cup WiFiPages
ReadingPages == {"status", "wifistatus"}
Pages == AdminPages \cup ReadingPages

\* The routes of WiFiConnection, which keeps the selected network.
WiFiConnection == WiFiPages \cup {"wifistatus"}

ASSUME AddressesAssumption == Addresses \subseteq Pages \cup {Root}

ASSUME ClicksAssumption == MaxClicks \in Nat

\* None is no page and no user.
ASSUME NoneAssumption ==
  None \notin Pages \cup {SignIn, Root} \cup [username : Names, admin : BOOLEAN]

Home == "status"                    \* where /smartpod/ leads
Browsers == {BrowserOf[t] : t \in Tabs}
Reading == [reading |-> TRUE]       \* what a read-only page shows
Listing == [networks |-> Networks]  \* what a scan finds

Kinds == {"verify", "signin", "load", "save", "scan", "list"}

\* A request is sent by the mounted component; "left" is a request whose
\* component was unmounted, "gone" one whose AuthenticationWrapper was, and
\* "dead" one whose document was.
Owners == {"mounted", "left", "gone", "dead"}

Answer(status, content) == [status |-> status, content |-> content]
Failed == Answer("failed", None)
Unauthorized == Answer("unauthorized", None)

---------------------------------------------------------------------------
(* A tab. waiting is what the mounted component shows instead of its form:   *)
(* ~fetched of a RestComponent, scanningForNetworks, processing of the       *)
(* sign-in page.                                                             *)

NewTab(path, requests) ==
  [initialized |-> FALSE, user |-> None, path |-> path, mounted |-> None,
   waiting |-> FALSE, data |-> None, selected |-> None, polls |-> 0,
   timer |-> FALSE, requests |-> requests]

\* The requests of a tab, by a number that tells equal ones apart.
NoRequests == [i \in {} |-> None]

Fresh(requests) ==
  CHOOSE i \in 1..(Cardinality(DOMAIN requests) + 1) : i \notin DOMAIN requests

Sent(requests, r) ==
  [i \in DOMAIN requests \cup {Fresh(requests)} |->
     IF i \in DOMAIN requests THEN requests[i] ELSE r]

\* authorizedFetch: the token is the one stored now.
Fetch(v, s, kind, body) ==
  [v EXCEPT !.requests = Sent(@, [owner |-> "mounted", kind |-> kind,
                                  at |-> v.mounted, token |-> s.token,
                                  body |-> body, answer |-> None])]

LoadData(v, s) ==
  Fetch([v EXCEPT !.data = None, !.waiting = TRUE], s, "load", None)

ScanNetworks(v, s) ==
  Fetch([v EXCEPT !.data = None, !.waiting = TRUE, !.polls = 0], s, "scan", None)

Disown(requests, from, owner) ==
  [i \in DOMAIN requests |->
     IF requests[i].owner \in from /\ requests[i].kind # "verify"
     THEN [requests[i] EXCEPT !.owner = owner] ELSE requests[i]]

\* Mutant: a request goes on when its component is unmounted.
UnmountKeepsRequests(v) ==
  [v EXCEPT !.mounted = None, !.waiting = FALSE, !.data = None, !.polls = 0, !.timer = FALSE]

Unmount(v) ==
  [v EXCEPT !.mounted = None, !.waiting = FALSE, !.data = None, !.polls = 0,
            !.timer = FALSE, !.requests = Disown(@, {"mounted"}, "left")]

\* componentDidMount of the page.
Mount(v, page, s) ==
  LET w == [v EXCEPT !.mounted = page,
                     !.selected = IF page \in WiFiConnection THEN @ ELSE None]
  IN CASE page = SignIn -> w
       [] page = "scan" -> ScanNetworks(w, s)
       [] page = "wifi" /\ w.selected # None -> [w EXCEPT !.data = [ssid |-> w.selected]]
       [] OTHER -> LoadData(w, s)

\* AuthenticatedRoute sends a visitor away and stores the path,
\* UnauthenticatedRoute sends a user back there, AuthenticationWrapper shows
\* no route before the session is known.
Refused(v) == v.initialized /\ v.user = None /\ v.path # Root
Entering(v) == v.initialized /\ v.user # None /\ v.path = Root

fetchLoginRedirect(s) == IF s.redirect = None THEN Home ELSE s.redirect

Path(v, s) ==
  IF Refused(v) THEN Root ELSE IF Entering(v) THEN fetchLoginRedirect(s) ELSE v.path

Component(path) == IF path = Root THEN SignIn ELSE path

Render(v, s) ==
  LET w == [v EXCEPT !.path = Path(v, s)]
      target == IF v.initialized THEN Component(w.path) ELSE None
  IN [tab |-> IF target = v.mounted THEN w ELSE Mount(Unmount(w), target, s),
      store |-> [s EXCEPT !.redirect = IF Refused(v) THEN v.path
                                       ELSE IF Entering(v) THEN None ELSE @]]

\* A change of the authentication context renders WiFiConnection again, whose
\* pages for admins are new components each time it renders.
ContextChanged(v, s) ==
  Render(IF v.mounted \in WiFiPages THEN Unmount(v) ELSE v, s)

refresh(v, s) ==
  IF s.token # None
  THEN [tab |-> Fetch(v, s, "verify", None), store |-> s]
  ELSE ContextChanged([v EXCEPT !.initialized = TRUE, !.user = None], s)

\* AppRouting is mounted, with a new AuthenticationWrapper.
Enter(path, requests, s) ==
  refresh(NewTab(path, requests), [s EXCEPT !.redirect = None])

\* history.push("/unauthorized"), whose route redirects to "/": AppRouting is
\* unmounted and mounted again.
Unauthorize(v, s) ==
  Enter(Root,
        Disown(Restrict(v.requests,
                        {i \in DOMAIN v.requests : v.requests[i].kind # "verify"}),
               {"mounted", "left"}, "gone"), s)

\* The document is loaded again: what was sent may still reach the device.
Reload(v, path, s) ==
  Enter(path,
        Disown(Restrict(v.requests,
                        {i \in DOMAIN v.requests :
                           v.requests[i].kind = "save" /\ v.requests[i].answer = None}),
               Owners, "dead"), s)

---------------------------------------------------------------------------
(* The answers                                                               *)

Verified(v, s, r, a) ==
  ContextChanged([v EXCEPT !.initialized = TRUE,
                           !.user = IF a.status = "ok" THEN Payload(r.token) ELSE None], s)

SignedIn(v, s, r, a) ==
  LET stored == [s EXCEPT !.token = a.content]
  IN IF a.status # "ok"
     THEN [tab |-> IF r.owner = "mounted" THEN [v EXCEPT !.waiting = FALSE] ELSE v,
           store |-> s]
     ELSE IF r.owner = "gone" THEN [tab |-> v, store |-> stored]
     ELSE ContextChanged([v EXCEPT !.user = Payload(a.content)], stored)

Loaded(v, s, r, a) ==
  [tab |-> IF r.owner = "mounted"
           THEN [v EXCEPT !.waiting = FALSE, !.data = a.content] ELSE v,
   store |-> s]

Saved(v, s, r, a) ==
  LET w == IF r.owner # "mounted" THEN v
           ELSE [v EXCEPT !.waiting = FALSE,
                          !.data = IF a.status = "ok" THEN a.content ELSE @]
  IN IF a.status = "ok" /\ r.at \in SecurityPages /\ r.owner # "gone"
     THEN refresh(w, s)
     ELSE [tab |-> w, store |-> s]

Scanned(v, s, r, a) ==
  [tab |-> IF r.owner # "mounted" THEN v
           ELSE IF a.status = "accepted" THEN [v EXCEPT !.timer = TRUE]
           ELSE [v EXCEPT !.waiting = FALSE, !.data = None],
   store |-> s]

\* Mutant: one poll too many.
ListedOffByOne(v, s, r, a) ==
  [tab |-> IF r.owner # "mounted" THEN v
           ELSE IF a.status = "accepted" /\ v.polls + 1 <= NumPolls
           THEN [v EXCEPT !.polls = @ + 1, !.timer = TRUE]
           ELSE [v EXCEPT !.waiting = FALSE, !.data = a.content],
   store |-> s]

\* Mutant: polls are not counted.
ListedUncounted(v, s, r, a) ==
  [tab |-> IF r.owner # "mounted" THEN v
           ELSE IF a.status = "accepted" THEN [v EXCEPT !.timer = TRUE]
           ELSE [v EXCEPT !.waiting = FALSE, !.data = a.content],
   store |-> s]

Listed(v, s, r, a) ==
  [tab |-> IF r.owner # "mounted" THEN v
           ELSE IF a.status = "accepted" /\ v.polls + 1 < NumPolls
           THEN [v EXCEPT !.polls = @ + 1, !.timer = TRUE]
           ELSE [v EXCEPT !.waiting = FALSE, !.data = a.content],
   store |-> s]

---------------------------------------------------------------------------
Storage(t) == store[BrowserOf[t]]

Put(t, r) ==
  /\ tab' = [tab EXCEPT ![t] = r.tab]
  /\ store' = [store EXCEPT ![BrowserOf[t]] = r.store]

HasAdmin(users) == \E u \in users : u.admin

\* What is read from a file that is not whole.
Broken == [jwt_secret |-> DefaultSecret, users |-> {}]

Init ==
  /\ security \in {c \in SecuritySettings : HasAdmin(c.users)}
  /\ flash = security
  /\ ssid \in Networks
  /\ radio \in {"none", "done"}
  /\ store \in [Browsers -> [token : Token \cup {None}, redirect : {None}]]
  /\ tab = [t \in Tabs |-> NewTab(None, NoRequests)]
  /\ clicks = 0

---------------------------------------------------------------------------
(* What the user of a tab does                                               *)

Click(t, v, s) ==
  /\ clicks < MaxClicks
  /\ clicks' = clicks + 1
  /\ Put(t, [tab |-> v, store |-> s])
  /\ UNCHANGED device

ClickRendered(t, r) == Click(t, r.tab, r.store)

\* A form that is shown, with its data.
Shown(t, pages) ==
  /\ tab[t].mounted \in pages
  /\ ~tab[t].waiting
  /\ tab[t].data # None

\* The tab is opened.
Open(t, path) ==
  /\ tab[t].path = None
  /\ Put(t, Enter(path, NoRequests, Storage(t)))
  /\ UNCHANGED <<security, flash, ssid, radio, clicks>>

\* Another address is entered, or the page loaded again.
GoTo(t, path) ==
  /\ tab[t].path # None
  /\ ClickRendered(t, Reload(tab[t], path, Storage(t)))

\* The links of the menu and the tabs of the section lead everywhere, but
\* those to admin pages are disabled for other users.
isAdmin(v) == v.user # None /\ v.user.admin
Linked(v, page) == page \in AdminPages => isAdmin(v)

\* The section of the security pages offers both to whoever sees one.
SecurityTab(v, page) == v.mounted \in SecurityPages /\ page \in SecurityPages

Navigate(t, page) ==
  LET v == tab[t] IN
  /\ v.mounted \in Pages \ {page}
  /\ Linked(v, page) \/ SecurityTab(v, page)
  /\ ClickRendered(t, Render([v EXCEPT !.path = page], Storage(t)))

\* signOut changes the context and the path in one event handler, for which
\* React renders once.
SignOut(t) ==
  LET v == tab[t] IN
  /\ v.mounted \in Pages
  /\ ClickRendered(t, Render([v EXCEPT !.user = None, !.path = Root],
                             [Storage(t) EXCEPT !.token = None]))

SubmitSignIn(t, username, password) ==
  LET v == tab[t] IN
  /\ v.mounted = SignIn
  /\ ~v.waiting
  /\ Click(t, Fetch([v EXCEPT !.waiting = TRUE], [token |-> None], "signin",
                    [username |-> username, password |-> password]), Storage(t))

\* Mutant: the settings are loaded into the form of the selected network.
ResetKeepsSelection(t) ==
  /\ tab[t].mounted \in Pages \ {"scan"}
  /\ ~tab[t].waiting
  /\ Click(t, LoadData(tab[t], Storage(t)), Storage(t))

\* Refresh, Reset or Retry. In the Wi-Fi settings it also gives up the
\* selected network, which renders the section, and so mounts the page, again.
Reset(t) ==
  LET v == tab[t]
      s == Storage(t) IN
  /\ v.mounted \in Pages \ {"scan"}
  /\ ~v.waiting
  /\ IF v.mounted = "wifi"
     THEN ClickRendered(t, ContextChanged([LoadData(v, s) EXCEPT !.selected = None], s))
     ELSE Click(t, LoadData(v, s), s)

\* Deselects the network; its form is mounted again and loads the settings.
DeselectNetwork(t) ==
  /\ Shown(t, {"wifi"})
  /\ tab[t].selected # None
  /\ ClickRendered(t, ContextChanged([tab[t] EXCEPT !.selected = None], Storage(t)))

SetData(t, data) == Click(t, [tab[t] EXCEPT !.data = data], Storage(t))

ChangeSecret(t, secret) ==
  /\ Shown(t, {"security"})
  /\ SetData(t, [tab[t].data EXCEPT !.jwt_secret = secret])

doneEditingUser(users, user) == {u \in users : u.username # user.username} \cup {user}

\* The dialog of one user from opening to Done: its own state lasts no
\* longer, and no other control of the page can be reached meanwhile. A name
\* that is taken can be edited but not added.
DoneEditingUser(t, user) ==
  /\ Shown(t, {"users"})
  /\ SetData(t, [tab[t].data EXCEPT !.users = doneEditingUser(@, user)])

RemoveUser(t, username) ==
  /\ Shown(t, {"users"})
  /\ SetData(t, [tab[t].data EXCEPT !.users = {u \in @ : u.username # username}])

\* The network is a field only while none is selected.
ChangeNetwork(t, network) ==
  /\ Shown(t, {"wifi"})
  /\ tab[t].selected = None
  /\ SetData(t, [ssid |-> network])

noAdminConfigured(t) == ~HasAdmin(tab[t].data.users)

\* Mutant: the form of the users does not ask for an admin.
SaveWithoutAdmin(t) ==
  LET v == tab[t] IN
  /\ Shown(t, SecurityPages \cup {"wifi"})
  /\ Click(t, Fetch([v EXCEPT !.waiting = TRUE], Storage(t), "save", v.data), Storage(t))

Save(t) ==
  LET v == tab[t] IN
  /\ Shown(t, SecurityPages \cup {"wifi"})
  /\ ~(v.mounted = "users" /\ noAdminConfigured(t))
  /\ Click(t, Fetch([v EXCEPT !.waiting = TRUE], Storage(t), "save", v.data), Storage(t))

RequestNetworkScan(t) ==
  /\ tab[t].mounted = "scan"
  /\ ~tab[t].waiting
  /\ Click(t, ScanNetworks(tab[t], Storage(t)), Storage(t))

SelectNetwork(t, network) ==
  /\ Shown(t, {"scan"})
  /\ ClickRendered(t, Render([tab[t] EXCEPT !.selected = network, !.path = "wifi"],
                             Storage(t)))

---------------------------------------------------------------------------
(* What the device does with a request                                       *)

Answered(t, i, answer) ==
  /\ tab[t].requests[i].answer = None
  /\ tab' = [tab EXCEPT ![t].requests[i].answer = answer]
  /\ UNCHANGED store

Handle(t, i, answer) == Answered(t, i, answer) /\ UNCHANGED clicks

Found(r) == authenticateRequest(security, r.token)

\* wrapRequest
Granted(r) ==
  IF r.at \in AdminPages THEN IS_ADMIN(Found(r)) ELSE IS_AUTHENTICATED(Found(r))

VerifyAuthorization(t, i) ==
  LET r == tab[t].requests[i] IN
  /\ r.kind = "verify"
  /\ Handle(t, i, IF IS_AUTHENTICATED(Found(r)) THEN Answer("ok", None) ELSE Unauthorized)
  /\ UNCHANGED device

HandleSignIn(t, i) ==
  LET r == tab[t].requests[i]
      found == authenticate(security, r.body.username, r.body.password) IN
  /\ r.kind = "signin"
  /\ \/ found = {} /\ Handle(t, i, Unauthorized)
     \/ \E user \in found : Handle(t, i, Answer("ok", generateJWT(security, user)))
  /\ UNCHANGED device

Refuse(t, i) ==
  LET r == tab[t].requests[i] IN
  /\ r.kind \in {"load", "save", "scan", "list"}
  /\ ~Granted(r)
  /\ Handle(t, i, Unauthorized)
  /\ UNCHANGED device

Document(page) ==
  CASE page \in SecurityPages -> security
    [] page = "wifi" -> [ssid |-> ssid]
    [] OTHER -> Reading

Serve(t, i) ==
  LET r == tab[t].requests[i] IN
  /\ r.kind = "load"
  /\ Granted(r)
  /\ Handle(t, i, Answer("ok", Document(r.at)))
  /\ UNCHANGED device

\* The fields are assigned before the file is written. If it cannot be opened
\* the answer is a 500, which the tab cannot tell from a lost one; if the
\* flash is full it stays short, and the answer is the posted object.
Update(t, i) ==
  LET r == tab[t].requests[i] IN
  /\ r.kind = "save"
  /\ Granted(r)
  /\ security' = IF r.at \in SecurityPages THEN r.body ELSE security
  /\ ssid' = IF r.at = "wifi" THEN r.body.ssid ELSE ssid
  /\ \/ Handle(t, i, Failed) /\ flash' = flash
     \/ /\ Handle(t, i, Answer("ok", r.body))
        /\ flash' \in IF r.at \in SecurityPages THEN {r.body, Broken} ELSE {flash}
  /\ UNCHANGED radio

\* The device starts again, with what it has in its files.
Restarted ==
  /\ clicks < MaxClicks
  /\ clicks' = clicks + 1
  /\ security' = flash'
  /\ ssid' \in Networks
  /\ radio' = "none"

Restart == UNCHANGED <<flash, store, tab>> /\ Restarted

\* Power fails after opening the file has truncated it.
PowerLoss(t, i) ==
  LET r == tab[t].requests[i] IN
  /\ r.kind = "save"
  /\ Granted(r)
  /\ Answered(t, i, Failed)
  /\ flash' = IF r.at \in SecurityPages THEN Broken ELSE flash
  /\ Restarted

HandleScan(t, i) ==
  LET r == tab[t].requests[i] IN
  /\ r.kind = "scan"
  /\ Granted(r)
  /\ Handle(t, i, Answer("accepted", None))
  /\ radio' = "scanning"
  /\ UNCHANGED <<security, flash, ssid>>

ListNetworks(t, i) ==
  LET r == tab[t].requests[i] IN
  /\ r.kind = "list"
  /\ Granted(r)
  /\ Handle(t, i, IF radio = "done" THEN Answer("ok", Listing) ELSE Answer("accepted", None))
  /\ radio' = IF radio = "none" THEN "scanning" ELSE radio
  /\ UNCHANGED <<security, flash, ssid>>

ScanCompletes ==
  /\ radio = "scanning"
  /\ radio' \in {"done", "none"}
  /\ UNCHANGED <<security, flash, ssid, store, tab, clicks>>

---------------------------------------------------------------------------
(* What the tab does with an answer, or with the news that none will come    *)

Settled(v, s, r, a) ==
  IF r.owner = "dead" THEN [tab |-> v, store |-> s]
  ELSE IF a = Unauthorized /\ r.kind \notin {"verify", "signin"} THEN Unauthorize(v, s)
  ELSE CASE r.kind = "verify" -> Verified(v, s, r, a)
         [] r.kind = "signin" -> SignedIn(v, s, r, a)
         [] r.kind = "load" -> Loaded(v, s, r, a)
         [] r.kind = "save" -> Saved(v, s, r, a)
         [] r.kind = "scan" -> Scanned(v, s, r, a)
         [] r.kind = "list" -> Listed(v, s, r, a)

\* A save that fails before it is handled may still reach the device.
Overdue(r, a) == a = Failed /\ r.kind = "save" /\ r.answer = None /\ r.owner # "dead"

Left(requests, i, a) ==
  IF Overdue(requests[i], a) THEN [requests EXCEPT ![i].owner = "dead"]
  ELSE Restrict(requests, DOMAIN requests \ {i})

Deliver(t, i) ==
  LET r == tab[t].requests[i] IN
  /\ \E a \in {r.answer, Failed} \ {None} :
       Put(t, Settled([tab[t] EXCEPT !.requests = Left(@, i, a)], Storage(t), r, a))
  /\ UNCHANGED <<security, flash, ssid, radio, clicks>>

\* The timeout of the scanner: the next poll.
PollNetworkList(t) ==
  /\ tab[t].timer
  /\ tab' = [tab EXCEPT ![t] = Fetch([@ EXCEPT !.timer = FALSE], Storage(t), "list", None)]
  /\ UNCHANGED <<security, flash, ssid, radio, store, clicks>>

UserActs(t) ==
  \/ \E path \in Addresses : Open(t, path)
  \/ \E path \in Addresses : GoTo(t, path)
  \/ \E page \in Pages : Navigate(t, page)
  \/ SignOut(t)
  \/ \E username \in Names, password \in Passwords : SubmitSignIn(t, username, password)
  \/ Reset(t)
  \/ DeselectNetwork(t)
  \/ \E secret \in Secrets : ChangeSecret(t, secret)
  \/ \E user \in User : DoneEditingUser(t, user)
  \/ \E username \in Names : RemoveUser(t, username)
  \/ \E network \in Networks : ChangeNetwork(t, network) \/ SelectNetwork(t, network)
  \/ Save(t)
  \/ RequestNetworkScan(t)

DeviceHandles(t, i) ==
  \/ VerifyAuthorization(t, i)
  \/ HandleSignIn(t, i)
  \/ Refuse(t, i)
  \/ Serve(t, i)
  \/ Update(t, i)
  \/ PowerLoss(t, i)
  \/ HandleScan(t, i)
  \/ ListNetworks(t, i)

Network(t) == \E i \in DOMAIN tab[t].requests : DeviceHandles(t, i) \/ Deliver(t, i)

Next ==
  \/ \E t \in Tabs : UserActs(t) \/ Network(t) \/ PollNetworkList(t)
  \/ ScanCompletes
  \/ Restart

Spec == Init /\ [][Next]_vars

\* Every request is answered or given up, and every timeout fires. Neither
\* the users nor the radio have to do anything, and the device need not
\* restart.
FairSpec ==
  /\ Spec
  /\ \A t \in Tabs : WF_vars(Network(t)) /\ WF_vars(PollNetworkList(t))

---------------------------------------------------------------------------
(* Properties                                                                *)

Request ==
  [owner : Owners, kind : Kinds, at : Pages \cup {SignIn, None}, token : Token \cup {None},
   body : SecuritySettings \cup [ssid : Networks] \cup {None}
          \cup [username : Names, password : Passwords],
   answer : {None, Failed, Unauthorized} \cup [status : {"ok"}, content : SecuritySettings
             \cup [ssid : Networks] \cup {Listing, Reading, None} \cup Token]
             \cup {Answer("accepted", None)}]

\* The type invariant.
TypeOK ==
  /\ security \in SecuritySettings /\ flash \in SecuritySettings
  /\ ssid \in Networks
  /\ radio \in {"none", "scanning", "done"}
  /\ store \in [Browsers -> [token : Token \cup {None}, redirect : Pages \cup {None}]]
  /\ clicks \in 0..MaxClicks
  /\ \A t \in Tabs : LET v == tab[t] IN
       /\ v.initialized \in BOOLEAN /\ v.waiting \in BOOLEAN /\ v.timer \in BOOLEAN
       /\ v.user \in [username : Names, admin : BOOLEAN] \cup {None}
       /\ v.path \in Pages \cup {Root, None}
       /\ v.mounted \in Pages \cup {SignIn, None}
       /\ v.selected \in Networks \cup {None}
       /\ v.polls \in 0..(NumPolls - 1)
       /\ v.data \in SecuritySettings \cup [ssid : Networks] \cup {Listing, Reading, None}
       /\ \A i \in DOMAIN v.requests : v.requests[i] \in Request

\* The device always has an admin, and after any restart, whatever copies of
\* the users are edited and posted by several tabs, unless it lost its file:
\* the form of the users refuses to save without one, and the form of the
\* secret posts back the users it was given. After a file that was not written
\* whole there are no users at all.
AdminRemains == \A settings \in {security, flash} : settings = Broken \/ HasAdmin(settings.users)

\* Whoever replaces the security settings is an admin of the settings
\* replaced, by a token signed with their secret, however long ago the token
\* was issued and the page opened; otherwise only a restart does.
OnlyAdminsChange ==
  [][security' # security =>
       \/ security' = flash /\ UNCHANGED <<flash, tab>>
       \/ \E t \in Tabs : \E i \in DOMAIN tab[t].requests :
            LET r == tab[t].requests[i] IN
            /\ r.kind = "save" /\ r.answer = None /\ r.token # None
            /\ r.token.secret = security.jwt_secret
            /\ \E u \in security.users : u.admin /\ u.username = r.token.username]_vars

\* A component waits exactly as long as one request or timeout of its own is
\* outstanding: no form is shown that a late answer could change, and nothing
\* waits for an answer that nobody will bring.
WaitingIsAwaited ==
  \A t \in Tabs :
    LET v == tab[t]
        own == {i \in DOMAIN v.requests :
                  v.requests[i].owner = "mounted" /\ v.requests[i].kind # "verify"} IN
    /\ (v.mounted = None) = ~v.initialized
    /\ ~v.initialized /\ v.path # None => \E i \in DOMAIN v.requests : v.requests[i].kind = "verify"
    /\ Cardinality(own) + (IF v.timer THEN 1 ELSE 0) = IF v.waiting THEN 1 ELSE 0

\* The form of a selected network is about that network, whatever was loaded
\* before it was selected and whenever that answer arrives.
SelectedIsShown ==
  \A t \in Tabs : LET v == tab[t] IN
    v.mounted = "wifi" /\ v.selected # None => v.data = [ssid |-> v.selected]

\* No tab shows a progress bar for ever: the session is verified, a load,
\* save or sign-in ends, and a scan is given up after NUM_POLLS polls.
SpinnersEnd == \A t \in Tabs : []<>(tab[t].path = None \/ (tab[t].mounted # None /\ ~tab[t].waiting))
=============================================================================
