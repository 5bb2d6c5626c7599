# SmartPod: specifications and proofs

TLA+ specifications of SmartPod, TLC runs that check them on small instances, and
proofs that TLAPS checks for every value of their constants. They are kept beside
the code: a definition is named after the code it stands for, `PROJECT.json` gives
its lines, and a change of those lines is a reason to read the definition again.

## The system

SmartPod is a device that meters and switches an electrical load, and what is
built around it:

```
 browser ── interface/ (React) ──REST──> src/ firmware on an ESP8266 ── flash (SPIFFS)
   │                                         │ Wi-Fi station, access point, NTP, OTA
   └── SmartPodDemo, the simulated lab (no device)
 cmd/smartpod (CLI) ──HTTP──> gateway/ (Go) ── SQLite file (replayed readings)
 scripts/release.py, install.sh: publish and install the CLI
```

The firmware, the lab and the gateway share a vocabulary and no state: the lab
simulates a session in the browser, the gateway serves a deterministic replay.

### Inventory

**Gateway store** (`gateway/store.go`). State: one SQLite file with a schema
version, a port and a table of readings; a pool of one connection. Operations:
check and migrate at start, append a reading in a transaction, select the latest.
Shared state: the file may be open in several processes. Hard: two processes that
read the same MAX(sequence), two that migrate at once, a failing COMMIT, a kill
between two statements. Correct when the history is gap-free, never shrinks, and
nothing but an empty file is ever initialized.

**Gateway process** (`gateway/main.go`). State: the phase of `run`, a sampler
goroutine, `errorsCh`, a signal context, the listener. Operations: start, tick,
append, fail, select between signal and failure, stop the sampler, drain, close,
exit. Hard: who waits for whom at shutdown, a signal racing a failure, a drain
that times out, a kill. Correct when a signal or a failure ends the process, the
sampler is over before HTTP drains and SQLite closes, and the exit status tells
the truth.

**Gateway HTTP API** (`gateway/http.go`). State: none but the requests under way,
which compete with the sampler for the one connection. Correct when an answer is a
committed reading, no older than the request, and every request leaves the queue.

**Gateway CLI** (`gateway/cmd/smartpod`). One request with checks of the answer and
exit codes.

**Lab** (`interface/src/simulator`, `interface/src/containers/SmartPodDemo.js`). State:
a session, a meter, a tariff being edited and the tariff of the session, one
timeout. Operations: the buttons, the fields, a tick each second, the timeout, the
mounting of the page. Hard: timeouts of an earlier session, a tariff edited during
a session, buttons enabled in the wrong state, rounding. Correct when a timeout acts
only on its own session, no button raises an event the session does not know, a
shown total keeps its tariff, and a charge is rounded once per line.

**Firmware settings** (`src/SettingsPersistence.h`, `src/SettingsService.h`
and the `readFromJsonObject`/`writeToJsonObject` of the six
services). State, per service: fields in memory, a JSON file, the responses whose
destructor will call `onConfigUpdated`. Operations: begin, GET, POST. Hard: writes
that fail, are short or are cut off by a power loss; callbacks that run after a
later update; defaults for missing members. Correct when what is acknowledged is
what the next start reads, what is shown is what is stored, and an update takes
effect.

**Firmware connectivity** (`src/WiFiSettingsService.cpp`, `APSettingsService.cpp`,
`NTPSettingsService.cpp`, `OTASettingsService.cpp`, `main.cpp`). State: station and
access point of the radio, time of the last attempt, captive DNS, NTP's flag, the
OTA updater. Operations: the cooperative `loop`, Wi-Fi events delivered whenever the
code yields, callbacks of the settings. Hard: events between reading and using a
flag, a disconnect event of the old connection after the new one was begun, an
updater deleted while it is handling, a radio that something else has switched on.
Correct when what runs is never configured from an earlier update, and when the
device, left alone, comes to a connected station, the access point of its mode and
running services.

**Firmware authentication** (`src/SecurityManager.*`, `AuthenticationService.*`,
`ArduinoJsonJWT.*`, `SecuritySettingsService.*`). State: accounts, the secret. Operations:
sign in, verify, wrap a handler, replace the accounts. Correct when a token is
accepted exactly as long as its account and the secret are unchanged, and somebody
can always change the settings.

**Firmware JSON bodies** (`src/AsyncJsonWebHandler.h`, `AsyncArduinoJson6.h`): a body that
arrives in parts, its buffer, the size limits, the answer in chunks.

**Firmware scanner, sensor, status, log** (`src/WiFiScanner.cpp`, `SmartPodService.*`,
`*Status.cpp`, `StructuredLogger.h`): an asynchronous scan that is polled; a sensor read
into a field; read-only endpoints; formatting.

**Interface session** (`interface/src/authentication`, `App.js`, `AppRouting.js`,
`containers/SignInPage.js`). State: token and login redirect in `localStorage`, which
all tabs of a browser share; per tab, whether the session is known and who the user
is. Operations: verification at start and after a save, sign-in, sign-out, the routes,
the way back to "/" after an answer 401. Hard: verifications and sign-ins whose answers
come after the session has changed. Correct when the device does nothing for a session
that is over.

**Interface pages** (`components/RestComponent.js`, `containers/*`, `forms/*`, `sections/*`).
State: the data of the mounted page and whether it waits; the Wi-Fi scanner's poll
counter and timeout; the selected network; the users being edited. Operations: load,
edit, save, reset; scan and poll; select a network. Hard: answers that arrive late, out
of order, for a page that was left, or never; a form that shows one thing and saves
another; the last admin. Correct when a page waits exactly as long as somebody will
answer, a form is about the network it names, a form accepts what the firmware keeps,
and the device always has an admin.

**Release and installer** (`scripts/release.py`, `install.sh`): a tag and uploads that may
change between a check and the publication; a download that is staged, checked and
renamed, with failures and signals in between.

`PROJECT.json` lists these as components with what is modelled of each, and the
hazards of the code at their lines with the properties that would catch them.

## The modules

| Module | Models | State |
|---|---|---|
| `Replay` | the readings of the replay | none |
| `ReadingLog` | abstract: what the gateway promises about its history | durable history, last reading shown to each client |
| `Gateway` | `store.go`, `main.go`, `http.go` | file and locks, pooled connection and its transaction, `run`, sampler, `errorsCh`, requests |
| `GatewayInvariant`, `InterfaceInvariant` | the inductive invariants of `Gateway` and of a tab of `Interface` | |
| `EnergySession` | `energySession.js`, `gatewayContract.js` | none (functions) |
| `SmartPodDemo` | `SmartPodDemo.js` | session, meter, tariffs, timeouts, mounting |
| `DeviceSettings` | the six settings formats | none (functions) |
| `SettingsService` | `SettingsPersistence.h`, `SettingsService.h` | power, fields, file, responses, device configuration |
| `Accounts` | `SecurityManager`, `ArduinoJsonJWT`, the format of `SecuritySettingsService` | none (functions) |
| `Interface` | the interface's session and pages with the requests under way, and the device's answers to them | accounts, settings and radio of the device; storage of each browser; each tab with its page and requests |
| `Pages` | the forms' validation and the status pages, with the answers they show | none (functions) |
| `Release` | `publish` of `scripts/release.py` | each publication, its package, the tag and the release on GitHub |
| `Installer` | `install.sh` | each installer, its download and staged file, the destination |
| `Connectivity` | the loops, events and callbacks of `WiFi-`, `AP-`, `NTP-` and `OTASettingsService.cpp`, `SmartPod.cpp`, `WiFiScanner.cpp` | place of the loop, fields and responses per service, station, access point, NTP, updater, undelivered events, scan |
| `MC*` | instances for TLC; `MCFunctions` gathers the functions and the two scripts, which share nothing | |
| `*Proofs` | the theorems; `FunctionsProofs` has those of `MCFunctions` | |

### Gateway

`Gateway` has one action per step between which another goroutine, process or
client can come: a statement of a transaction, a send or receive on a channel, a
wait for the connection. The file locks of SQLite's rollback journal are modelled
(`CanShare`, `CanReserve`, `CanCommit`): a deferred transaction takes "shared" at its
first read, "reserved" at its first write, and its COMMIT needs every other
connection out of the file. Any database call may instead fail, which stands for
`busy_timeout`, the contexts' timeouts, cancellation and disk errors; a COMMIT that
reports an error may or may not be durable. `Crash` is a kill at any point; `Start`
runs the process again on whatever file is left. The initial file may be new, a
preview with some history, or one of five that startup has to refuse. `Outsiders` are
other programs that lock the file.

Startup is `QuickCheck`, `ReadVersion`, `Migrate` or `AcceptVersion`, `Validate`,
`CommitStartup`, `Listen`. An append is `Tick`, `BeginAppend`, `SelectMax`, `Insert`,
`CheckContext`, `CommitAppend`; `AppendFails`, `JudgeFailure`, `SendFailure` is its
failure. A request is `Request`, `TakeConnection`, `Query`, `CloseRows` or `ReadFails`,
`Respond`. Shutdown is `SelectDone` or `SelectError`, `BeginShutdown`, `Drained` or
`DrainTimeout`, `Exit`. A request may come on a connection that was accepted earlier, so
`Request` needs no open listener: requests still arrive while the sampler is stopped and
HTTP drains, until the drain has found every connection idle. `DrainTimeout` needs no
request under way, since a connection without one may also keep the drain waiting.

`ReadingLog` is the promise without processes, locks and crashes: a set of readings
that gets its seed and then one reading at a time, and clients that are shown
members of it that never go back. `Gateway` implements it with
`history <- IF Usable THEN rows ELSE {}`: committing the migration is `Seed`, committing an
append is `Append`, answering is `Show`, everything else is a stutter.

### Lab

A click handler runs to its end in the browser and `setState`'s updaters run in
order, so every handler is one action of `SmartPodDemo`. Timeouts are a set of
handles with the event each will raise, next to the one handle the component
remembers; `Rearm` is `clearTimeout` of the remembered handle and then a new timeout.
The load's sine is any value of `Loads`; text entries are numbers in tenths. The
chart and the ampere display are left out.

### Firmware settings

`DeviceSettings` translates how each service reads its settings from an object and
writes them to one, with ArduinoJson's treatment of missing members, `uint8_t`
conversion of the access point's mode, and addresses as strings that either parse or
do not. `fromString` drops leading zeros, and the broadcast address is the mark for no
address (`INADDR_NONE`). The password of the access point has two lengths, because
its form counts characters and the firmware counts the bytes of their UTF-8.
`SettingsService` takes such a pair as constant operators and models one service:
`updateConfig` reads the posted object into the fields first and writes the file
after that, so it is `updateUnopened` (the file cannot be opened, answer 500) or
`updateOpened` (the file is truncated) followed by `updateWritten` or `updateShort`.
`ResponseDestroyed` is the callback of `AsyncJsonCallbackResponse`. `PowerLoss` may come
between opening and closing. Two history variables say what was last acknowledged
(`kept`) and why the file may differ from memory (`gap`).

### Firmware connectivity

The firmware has one thread, so `Connectivity` has one variable `at` for the place of
the loop, and the part of the loop between two yields is never interrupted: `WifiLoop`,
`ApLoop` and `NtpLoop` follow one another directly. Handlers, the destructors of
responses and the radio's events run only when the loop yields (`Yielding`): in
`NTP.begin` (`at = "begun"`) and `now`, which wait for the time server, in the updater's
`handle` while it receives an image (`"handling"`), and in `delay(50)`. `NtpLoop` therefore
ends where `NTP.begin` yields, and `NtpBegun` goes on from whatever the others left.

The station is off, idle (switched on but not connecting), joining or up. `manageSTA`
connects only from off. The radio's own steps (`JoinSucceeds`, `JoinFails`, `LinkLost`)
change the station at once and queue an event that is delivered at a later yield;
`onStationModeGotIP` and `onStationModeDisconnected` stand for the handlers of all
services that registered for the event, in one step, since nothing runs between them.
`StopStation` is `WiFi.disconnect(true)`, which queues an event of its own if there was a
connection or an attempt. A handler of a queued event may meet a station that has gone
on since; that is what `StationSettles` is about.

`updateConfig` and `ResponseDestroyed` are those of `SettingsService`, reduced to what the
loop can tell apart: the fields are overwritten in any case, and a response either
waits for its destructor (`pending`) or the answer was 500 (`refused`), after which the
fields and the running service differ until the next callback. The file is not
modelled again: `Restart` starts from any settings. It also stands for the outcome of
the undefined behaviour at `src/OTASettingsService.cpp:46`, where an updater may be
deleted under its own `handle`; the other outcome is that the loop goes on. The time
of the two delays is abstracted to `attemptDue` and `manageDue`. The ESP32 alternatives
of the code are not modelled; `platformio.ini` builds for the ESP8266.

### Interface and accounts

JavaScript runs one callback at a time, so what a click, a timeout or an answer does,
with everything it renders, mounts and sends, is one action of `Interface`. A request is
a record in its tab: who sent it, what for, with which token. The device handles it in
one step (`Handle`), and another step delivers the answer or the news that there is
none (`Deliver`), so that requests overlap, overtake each other and get lost in every
way. The token that goes with a request is the one in storage when it is sent
(`Fetch`), which is the code's `authorizedFetch`.

`Render` is what React makes of a change: `AuthenticationWrapper` shows no route before
the session is known, `AuthenticatedRoute` (`Refused`) sends a visitor to the sign-in page
and stores the path, `UnauthenticatedRoute` (`Entering`) sends a user back there
(`fetchLoginRedirect`). If the page differs from the one mounted, the old one is
unmounted, with its timeout cleared and its requests disowned, and the new one is
mounted, which sends its first request (`Mount`). What an answer does depends on its
owner: a page that is still there (`"mounted"`), one that was left (`"left"`: no effect on
the page, but a save of the users still refreshes the session), one whose whole
`AuthenticationWrapper` was replaced (`"gone"`, after an answer 401) or whose document was
(`"dead"`). A save whose failure is delivered before the device has handled it also stays as
`"dead"` (`Overdue`, `Left`): the tab has given it up and may post again, and the device may
still handle it, before the later one or after. The pages of the Wi-Fi section are components made in `render`
(`sections/WiFiConnection.js:38-54`), so any change of the session or of the selected
network mounts them anew (`ContextChanged`).

One page stands for those that behave alike: `"status"` for the read-only pages
but the one of the Wi-Fi section, `"wifi"` for the settings of the services; the users and
the secret are two pages over one service. `"wifistatus"` is a page of its own, since
`WiFiConnection` stays mounted there and keeps the selected network. The user's dialog is
one step from opening to Done, because no other control can be reached meanwhile.
Signing out changes the user and the path in one event handler
(`AuthenticationWrapper.js:106-118`), for which React renders once, so `SignOut` renders once.

`flash` is what a start of the device would read from the file of the security
settings, so that an update can do what it does in `SettingsService`: be answered 500 with
the fields assigned and the file as it was, be stored as posted, or be stored short and
still be answered with the posted object (`Update`). A file that is not whole is `Broken`:
the default secret and no users (`SecuritySettingsService.cpp:5-18`). `Restart` may come at
any moment and `PowerLoss` while a file is written; the other settings, which nothing here
relies on after a restart, are then any.

In `Accounts` a token is its payload and the secret it was signed with, so that a token
verifies when its secret is the device's. Tokens have no expiry in the code.

### Pages

`Pages` puts the forms beside the formats of `DeviceSettings`: `...Fields` are the fields a
form shows for the data, `...Accepts` what it lets be saved, where fields that are not
shown are not validated. `MCFunctions` posts what is accepted, lets the firmware read
and answer it, and compares the fields shown. The typed addresses include one with
leading zeros, which is shown again without them, and the broadcast address; a password
has a number of characters and a number of bytes; a number may have a fraction,
which `isNumber` of the forms' library lets pass and the firmware cuts off. `Lost` lists
what a form accepts and the firmware does not keep, and `FormsAgree` is an equivalence: the
answer shows what was typed exactly when the data are not among those three cases.
The status pages are the sets of members they show, beside the sets of members the
answers have.

### Release and installer

`Release` has the steps of `publish`: `Verify`, `verify_remote_tag`, `Create`, `Upload` of one
file at a time, `Compare`, `verify_remote_tag` again, `Publish`. Every step may fail, any
number of publications may run, and the tag may move at any time. Two builds never have
the same bytes, and an uploaded asset may be damaged. `Installer` has one action per
command of `install.sh` after the first check of the destination; any command may fail, a signal
is handled by the trap after a command (`Fail`, `Cleanup`), and `Kill` runs no trap. `cp`
shows a part of the file before the whole.

## Runs

| Run | Instance | What it shows |
|---|---|---|
| `gateways` | 2 processes, 1 client, 1 foreign connection, `MaxSequence` 1 | types, `GapFree`, `HistoryPreserved`, refinement of `ReadingLog`, `ServesUsable`, `FreshAnswers`, `ConnectionReturnedClean`, `ShutdownOrder`, `CleanExitAnsweredAll` |
| `gateway_stops` | 1 process, 2 clients, fairness | `SignalStops`, `FailureStops`, `RequestSettles` |
| `exit_status` | 1 process, 1 client | violated: a write failure can end in status 0 |
| `lab` | 2 timeouts, 2 limits, 2 entries, 2 loads, 2 ticks | `OneTimer`, `ButtonsHaveTransitions`, `IdleMeter`, `TotalKeepsSnapshot`, `TransitionEnds` |
| `functions` | 4 seconds, tariffs with ties; every object and form over the sample values; 2 publications of one tag; 2 installers | `TotalIsNearest`, `StoredMeansSame`, `ShownIsSo`, `PublishedIsVerified`, `OldOrNew` |
| `settings_service` | Wi-Fi settings, 4 objects, 2 responses | `Agreement`, `FileHoldsKept`, `ShownIsStored`, `TakesEffect` |
| `short_write` | the same | violated: a full flash loses an acknowledged update |
| `sensor_settings` | as `functions` | violated: an update erases stored settings of the sensor |
| `updates` | 2 values of each setting, updates of all services, scans | types, `RadioRunsConfigured`, `ServicesRunConfigured` |
| `settles` | a network or none, each access point mode, updates of the station, fairness | `StationSettles`, `AccessPointSettles`, `ServicesSettle` |
| `scan` | one network, scans, fairness | violated: a scan can keep the station from ever connecting |
| `interface` | 1 tab, 2 users, 2 secrets, 2 networks, 2 polls, 5 tokens left over, 2 addresses, 3 clicks or restarts, fairness | types, `AdminRemains`, `OnlyAdminsChange`, `WaitingIsAwaited`, `SelectedIsShown`, `SpinnersEnd` |

### Bounds, and why they are enough

- `Gateways`: two is the least with races on the file; the properties relate a
  pair of lock holders at most. `Outsiders`: one foreign connection can already
  hold each lock at each moment; `OutsiderMeetsOne` lets it do so while at most one
  gateway runs. The proofs hold for any number of each.
- `MaxSequence` 1: an append to the seed and the exhausted replay (`maxSequence`) both
  happen, and the proofs hold for every bound. The code's value is far larger; it
  enters the code by one comparison.
- `Clients`: where it is about waiting, in `gateway_stops`, two compete for the connection
  with each other and with the sampler; elsewhere one, since answers do not depend on
  each other, and the proofs hold for any number.
- `TimerIds` 2: a component has at most one timeout, and a new handle must differ
  from the remembered one; `OneTimer` is what shows that a third is never needed.
- `MaxElapsed` 2: bounds the ticks of one session, not the sessions.
- `MaxPending` 2: a response of an earlier update outlives a later one.
- The four Wi-Fi objects are one that is stored as posted, one complete static
  configuration, one that loses its static addresses when read, and one whose name
  servers are swapped.
- `Connectivity`: two values of each setting tell an earlier one from a later one.
  `MaxPending` 1 is the number of callbacks a service may owe, and an update that finds
  one waiting may still be refused. `MaxEvents` 2 in `settles` lets an event of the old
  connection and one of the new be under way together; handlers and radio wait when
  the queue is full. `OneConcern` keeps the product of four independent histories of
  updates small in `updates`: either station and access point have updates under way,
  or NTP and updater, which share no state but the station and its events. The proofs
  need none of these bounds. `settles` posts the station's settings only, whose events
  are what the other services live on; no update of NTP or the updater is refused in it, and the
  exception that `ServicesSettle` makes for those is there for other instances.
- `functions` has tariffs and energies that make exact halves in each rounded line, and
  values on both sides of each bound the firmware or a form compares with. They are
  enumerated by the run; the theorems of `FunctionsProofs` hold for every value that the
  lab and the firmware can be given, see below. Two publications are the least that can take each
  other's draft, two commits the least for a tag to move, two files the least for a
  partial upload; two installers with two binaries the least to mix; the proofs hold
  for any number of each.
- `interface`: the user signs in, or is signed in by one of five tokens an earlier session may have
  left (none, one of either user, one of another secret, one of a user whose rights have
  changed since, `LeftTokens`), opens one of the `Addresses` and then does anything three times,
  while every answer may be late or lost: enough to edit, save and leave before the answer,
  to sign out between a request and its answer, or to select a network, leave its form and
  come back. `MaxClicks` counts restarts and power losses as well, since they compete
  with the user for the same three steps. Two different copies of the users are under way
  together when a save is given up by the browser, the form is edited and saved again
  (save, edit, save), and the device handles the older one last. Two secrets and two users are an old and a
  new one; `NumPolls` 2 has a poll that is repeated and one that is the last. Requests
  are not bounded: the pages send at most one at a time, besides the saves that were
  given up. With several tabs the state space outgrows the run, so copies that are
  edited in several tabs are left to the theorems, which hold for any number of tabs and
  browsers.

`CHECK_DEADLOCK FALSE` is set only where a run builds inputs step by step and ends.

### Fairness, and why the code justifies it

- `Gateway`: the Go scheduler runs every goroutine that can run, hence weak fairness
  of `run`, of the sampler and of a handler that holds the connection. A database
  call ends because `busy_timeout` and the contexts' timeouts make it fail, which is
  why the failing alternatives are part of the fair actions. `database/sql` hands a
  returned connection to waiting requests in their order, hence strong fairness of
  `TakeConnection`. Nothing is assumed of signals, new requests, crashes or
  restarts. The sampler's ticks are not assumed either: otherwise the exhausted replay, which ends
  the process, would be what settles a request.
- `SmartPodDemo`: the browser fires timeouts that are not cleared. Ticks and clicks
  need not come.
- `SettingsService`: a handler that has opened the file ends, and the web server
  destroys each response, because it is sent or because its client is gone. Strong
  fairness, because a handler that is writing disables it for a moment.
- `Connectivity`: the loop never stops (weak fairness of `Loop`) and time passes for its
  two delays. Minutes are long against events, so `MinutePasses` needs an empty queue;
  the ten seconds do not. Events, the end of an attempt to connect, and destructors of
  responses wait for one of many yields, hence strong fairness. Nothing is assumed of
  clients, of the link, or of the outcome of an attempt: the properties say what the
  device comes to if from some time on (`Calm`) nobody posts or scans, attempts
  succeed and the link holds. Before that anything may have happened.

- `Interface`: every request is answered or given up by the browser, and every timeout
  of the scanner fires (weak fairness of `Network` and `PollNetworkList`). Nothing is assumed of
  users, of the radio or of restarts: a scan that never completes ends by its polls. `Network` of a
  tab is one condition for all its requests, which suffices because a tab has finitely
  many and a page sends one at a time.

## What disagrees with the documentation

- `gateway/main.go:99`: `select` takes either ready channel. When a signal has
  cancelled the context and the sampler's error already waits in `errorsCh`, it may
  take the signal; the error is never read and the process exits with status 0.
  `docs/gateway.md:111` promises a nonzero exit after a write failure.
- `src/SettingsPersistence.h:44`: what `serializeJson` wrote is not compared with what
  it should have written. On a full flash the client gets 200 and the next start
  falls back to the defaults. `README.md:67` says that services persist their settings.
- `src/SmartPodService.cpp:242`: four of the members that the sensor's service reads
  are never written. An update of any kind removes them from the file.
- `src/WiFiSettingsService.cpp:99`: the comment says "Connect or reconnect as required",
  but the station is connected only when it is switched off. A scan for networks
  switches it on without connecting it; when it was off, no disconnect event follows,
  and it stays idle until settings are posted or the device restarts.

Some more were met while the formats and the forms were translated; no run is spent on
them. A blank NTP server is kept, although the comment at `src/NTPSettingsService.cpp:43`
says that the default replaces it: `!_server` is false of every `String` that was assigned
(`Invalid`). Without a file the OTA port is 0, not the "emergency default" 8266 of
`src/OTASettingsService.h:15`: a missing port reads as 0, and only negative ones are
replaced. And the firmware does not keep three kinds of data
that the forms accept; they are the cases of `Lost`, and `FormsAgree` says that there is no other:

- the forms accept 255.255.255.255 as an address, which
  `interface/src/validators/validators.test.js:9` expects of them, while `readIP` and
  `src/WiFiSettingsService.cpp:36-43` take it for no address: a name server is dropped, and
  a static configuration with it is switched off;
- `interface/src/forms/APSettingsForm.js:78` asks for 8 to 63 characters, while
  `src/APSettingsService.cpp:90` compares the length in bytes: a password of 40 accented
  letters is accepted and replaced by the default one;
- `isNumber` lets a fraction pass in an interval or a port, and reading an `int` cuts it off.

`Agreement` and `ShownIsStored` leave out the states after an update that was answered 500,
until the next one that is not: `src/SettingsService.h:67-71` reads the posted object into the
fields before it opens the file, so that memory, and what a `GET` answers, are then ahead of
the file. The properties say that fields and file differ in no other way; `FileHoldsKept`
says what the file holds in those states as well.

Two windows are documented by what the properties do not say. The answer to a
verification that was under way at a sign-out sets the user again in that tab, after
"You have signed out." (`AuthenticationWrapper.js:79` and `:114`); its next request carries
no token and ends the session, which is what `OnlyAdminsChange` relies on. And the tag may move
between the second check of `release.py:228` and the edit at `:229`: `PublishedIsVerified` is about
the bytes and the commit they were built from, not about the tag afterwards.

## What is proved

Each theorem holds for every value of the constants that satisfies the named
assumption of its module.

**Gateway** (`GatewayProofs`, from `GatewayAssumption`: names do not clash and
`MaxSequence` is a natural number; any number of gateways, foreign connections and
clients). `Invariance` proves `IInv` of `GatewayInvariant`. The checked invariants are
not inductive: that an append keeps the history gap-free depends on the row it read
still being the last one when it commits, which depends on locks. So `IInv` says who
owns the connection in which phase (`MainInv`, `WorkerInv`, `CallInv`), which locks
exclude which (`LocksCompatible`), and what a lock holder knows: with a shared lock or
more, `rows = Rows(previous[g])` from `SelectMax` on, because `CanCommit` of another process
needs that lock gone; a migration holds "reserved" on a file that is still empty.
There is one step per action. From `IInv` follow `TypeCorrect`, `HistoryGapFree`,
`OnlyUsableServed`, `AnswersAreDurable`, `ConnectionStaysClean`, `SamplerStopsFirst`, the
action property `HistoryNeverLost`, and `ImplementsLog`: every step of `Gateway` is a
step of `ReadingLog` or leaves it alone. The module begins with the lemmas about `Rows` and
`LastSequence`.

`CleanExits` (`CleanExitAnsweredAll`) needs more than `IInv`, which knows nothing of the
requests a closing process still has. `DrainInv` says what each phase of the shutdown has
settled: a drain that ends by itself has found no request, and no request comes to a process
that is closing, so one that closes without an error has none left. Every step of the other
processes and their clients leaves it alone (`DrainFrame`).

**Lab** (`EnergySessionProofs`, from `DemoAssumption`). `ChargeIsMonotone` is a fact of
arithmetic: more energy and time never cost less, for every tariff. With it
`TotalStaysHonest` (`TotalKeepsSnapshot`) holds for all entries, limits and loads.
`OneTimerOnly` and `MeterIdles` are inductive together with `TypeOK`. `ButtonsNeverThrow`
(`ButtonsHaveTransitions`) compares the conditions that enable the buttons with
`Transitions` in each of the six states.

**Settings** (`SettingsServiceProofs`, from `RoundTripAssumption`, `FileAssumption`,
`PendingAssumption`). For every format that reads back what it writes: types,
`AcknowledgedIsKept` (`FileHoldsKept`), `SettingsAgree` (`Agreement`) and `AnswersShowTheFile`
(`ShownIsStored`). The strengthening relates the three values while a write is open:
the file is `Broken` then, and the fields hold what will be acknowledged. That the round
trip holds is `FormatsRoundTrip` below for five of the six formats; it fails for the
sensor's, so the theorems do not apply to that service.

**Connectivity** (`ConnectivityProofs`, from `ConnectivityAssumption`: any settings, any
bounds, any set of services that are posted). `TypeOK`, `RadioRunsConfigured` and
`ServicesRunConfigured` are inductive together: a service that runs with other settings
than its fields hold owes a callback or was refused (`~Applied`), and an update of one
service leaves the others alone (`OthersUntouched`). `ServicesRunConfigured` names the
interval `None` while `NTP.begin` waits, which is the strengthening that the step
`NtpBegun` needs. The theorems are `ConnectivityTypeCorrect`, `RadioNeverStale` and
`ServicesNeverStale`.

**Interface** (`InterfaceProofs`, from `NoneAssumption`: `None` is no page and no
user; `SecretAssumption`: the default secret is a secret; `NumPollsAssumption`,
`AddressesAssumption` and `ClicksAssumption`; any tabs, browsers, accounts, networks and number of
polls). There are two invariants, one for each question.

*A tab.* `PageInv` of `InterfaceInvariant` is inductive and gives three theorems.
`TabsAreTyped` (`TypeOK`) needs to know which page sent a request and what it can be granted
(`Senders`, `Contents`), since the type of a page's data depends on the page, and an answer
arrives when the page may be another. `WaitersAreAnswered` (`WaitingIsAwaited`) follows
from `Awaits`: a page waits for one request of its own or for its timeout, never for both.
`SelectionIsShown` (`SelectedIsShown`) follows from `Chosen`: while the form of a selected
network is shown, the only request it can have is a save of what it shows, whose answer
brings back the same. `Routed` ties the mounted page to the path and the session, without
which a page could be mounted that its requests do not belong to. TLC checked `PageInv` on
the instance of the run before it was proved.

*The accounts.* `AnAdminRemains` (`AdminRemains`): the device has no guard of
its own, so the invariant `AdminInv` follows every copy of the users that exists: in the
form of a tab, in the body of a request, in an answer under way and on the flash. What the security pages post or
are answered is `Kept` (it has users with an admin among them), and so is what the form of the
secret shows, unless it is `Broken`; only the form of the users may hold other users without
one. That suffices, since `Save` in the form of the users is disabled without an admin, and the form
of the secret posts back the users it loaded. After a file that was lost there are no
users at all, and nobody can sign in to post any (`SecuritySettingsService.cpp:11-17`): the code has
no way back from there, and the property leaves that state out. The bulk of the proof is that nothing a tab does, from
mounting to the delivery of an answer to a page that was left, mixes the data of one
page into another (`GoodTab`). `OnlyAdminsChangeSettings` (`OnlyAdminsChange`) follows from what
`authenticateRequest` compares, and from the pages that need an admin; a restart is the only
other step that replaces users or secret.

**Functions** (`FunctionsProofs`, from `BillAssumption`: amounts, rates and steps are natural
numbers). The lemmas are about the functions themselves, on every input of their kind,
and the theorems about the behaviours of `MCFunctions`, which build such inputs.

- `TotalsAreNearest` (`TotalIsNearest`): `RoundDiv` is the nearest integer for each of the three
  divisors of the code (`QuotientIsNearest`), so a bill is rounded once per line and once
  for the tax, for every tariff and every natural amount (`ChargeIsNearest`).
- `WhatIsStoredIsReadBack` (`StoredMeansSame`): `Read(Write(Read(o))) = Read(o)` for every
  object `o`, whatever members it has, in five of the services (`NtpStored` to
  `SecurityStored`). `FormatsRoundTrip` says so at once: it is
  what `RoundTripAssumption` of `SettingsService` asks of a format. The long case is
  Wi-Fi's, where a missing address is not written, name servers change places and a static
  configuration that lacks an address is switched off.
- `WhatIsShownIsSo` (`ShownIsSo`): what a form accepts is answered with what was typed, except
  for the cases of `Lost` and in all of them, for all data with the form's members
  (`ApAgrees` to `WifiAgrees`); every member that a status page
  shows is in the answer, for any status; a port is reported available exactly when it can
  be started. Texts are those that the validators of `Pages` tell apart.
- `ScriptsPublishWhatTheyVerified` and `ScriptsInstallTheWhole` (`PublishedIsVerified`, `OldOrNew`)
  carry the two invariants below into the behaviours of `MCFunctions`, through instances of
  `ReleaseProofs` and `InstallerProofs`: every step of `MCFunctions` is a step of the script or
  leaves it alone.

**Release** (`ReleaseProofs`). `WhatIsPublishedIsVerified`: `ReleaseInv` says that at most
one publication works on the draft, the one that created it; so the assets that were
compared are still the ones that are published. It needs nothing of the tag.

**Installer** (`InstallerProofs`). `TheOldBinaryOrTheNew`: `InstallInv` says what an
installer's files hold at each step; from `Verify` on the download is a listed binary,
and from `Chmod` on the staged file is a whole, executable one.

### What is only model-checked

- Liveness: `SignalStops`, `FailureStops`, `RequestSettles`, `TransitionEnds`, `TakesEffect`,
  `StationSettles`, `AccessPointSettles`, `ServicesSettle`, `SpinnersEnd`.
  The prover has no rule for fairness and ENABLED. Every other property of a passing run
  is a theorem.
- That the code disagrees with a document is a TLC counterexample each.

### What is assumed of others

- SQLite: the locks of the rollback journal as above; a transaction that is rolled
  back, or whose process is killed, leaves no trace; a COMMIT that fails is either
  durable or rolled back before the connection is used again.
- `database/sql`: a pool of one; `Rollback`, `Commit` and `rows.Close` return it.
- ArduinoJson and Arduino's `String`: `|` gives the default for a missing or wrongly
  typed member; a `String` that was assigned converts to true, even when empty.
- The flash: a file opened for writing is empty until it is closed, and cut off
  power leaves it unreadable, not half old. The model's objects all fit the pool
  of 1024 bytes (`SettingsPersistence.h`, `SettingsService.h`): which of the larger ones are cut is not
  modelled, only that a file may come out short.
- The web server calls one handler at a time and destroys every response.
- The ESP8266 core delivers events, calls handlers and destroys responses only while
  the sketch yields. `WiFi.disconnect(true)` switches the station off and reports a
  disconnection if there was something to disconnect. `WiFi.scanNetworks` switches the
  station on and interrupts an attempt to connect. Automatic reconnection is off, as
  `connectToWiFi` asks. `NTP.begin` copies the server's name before it waits.

- The browser: one callback at a time; a request is handled at most once; a document
  that is replaced runs no more callbacks, though what it sent may still be handled.
- GitHub: a release of a tag exists or not, and of two creations one fails.
- The file system: a rename within a directory is atomic.

### What is left out

In the gateway, requests that are refused before they reach any state (Host, Origin,
authorization, path, method, size). Wording of answers and logs. Doubles: numbers of the lab are
integers without an upper limit. Time: a timeout may happen whenever what it
limits has not ended. In `SettingsService`, the effect of `onConfigUpdated` is that the
device runs with the fields as they are at that time; what the device then does is
`Connectivity`. There, the content of scans and of time answers, and the packets of the
captive portal.

## Plan

1. **Gateway** and **Lab**: done, see above, with all their safety proved.
2. **Settings**: done but for the memory pool, which decides whether an object is
   stored whole.
3. **`Connectivity`**: done, see above. To come: an abstract specification of the device
   as seen from outside (which radio is on, for which settings) that it implements,
   and its composition with `SettingsService`, so that `refused` and `pending` are those of
   the file.
4. **`Accounts`**, **`Interface`**, **`Pages`**: done, see above, with all their safety
   proved. `Interface` has the outcomes of an update of `SettingsService` and restarts; to come
   is a proof that they are the same.
5. **`Release`**, **`Installer`**: done.
6. Not modelled, and why: the JSON bodies (`AsyncJsonWebHandler.h`) are a buffer that the parts of one
   request fill in the order of their connection, and the CLI is one request with exit codes; neither
   keeps state or meets another actor. `assemble` of `release.py` and the reading of the sensor are
   sequential computations. Logging, layout, the unused `SimpleService.h`, build files and tests have
   no behaviour a model would tell apart.
