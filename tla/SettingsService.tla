------------------------- MODULE SettingsService -------------------------
(* One settings service of the firmware: its settings in memory, its file    *)
(* on the flash, and the requests that read and update them.                 *)
(*                                                                           *)
(* A handler runs to its end before the next one starts: the web server      *)
(* calls it from the system task. Power may be lost at any time, so the      *)
(* write, which truncates the file before it fills it, takes two steps. The  *)
(* device is reconfigured by a callback in the destructor of the response,   *)
(* when the client has read it or has gone, which is a step of its own.      *)
(* Requests that are answered 400, 401 or 413 change nothing and are left    *)
(* out.                                                                      *)
EXTENDS Naturals

CONSTANTS
  Documents,              \* the JSON objects that may be posted or flashed
  Empty,                  \* the JSON object without members
  readFromJsonObject(_),  \* the settings that a service reads from an object
  writeToJsonObject(_),   \* the object that it writes for its settings
  Absent,                 \* there is no file
  Broken,                 \* the file holds no JSON object, or is too large
  MaxPending              \* bound on the responses under way

Settings == {readFromJsonObject(d) : d \in Documents \cup {Empty}}
Stored == Documents \cup {writeToJsonObject(s) : s \in Settings}

ASSUME PendingAssumption == MaxPending \in Nat

\* What a service writes it reads back as the same settings.
ASSUME RoundTripAssumption ==
  \A s \in Settings : readFromJsonObject(writeToJsonObject(s)) = s

ASSUME FileAssumption == Absent \notin Stored /\ Broken \notin Stored

VARIABLES
  power,     \* "off", "up", or "writing" from truncating the file to closing it
  memory,    \* the settings in the service's fields
  file,      \* the settings file
  pending,   \* the number of 200 responses that are not yet destroyed
  applied,   \* the settings that the device was last configured with
  shown,     \* the object in the last 200 answer
  kept,      \* history: the settings last acknowledged, or read at start
  gap        \* history: why the file may differ from memory

vars == <<power, memory, file, pending, applied, shown, kept, gap>>

Gaps == {"none", "unopened", "short", "cut"}

---------------------------------------------------------------------------
(* SettingsPersistence                                                       *)

\* Mutant: the object is kept without reading it as settings.
RecoveredRaw(f) ==
  IF f \in {Absent, Broken} THEN readFromJsonObject(Empty) ELSE f

\* readFromFS: a missing or broken file gives the defaults.
Recovered(f) ==
  readFromJsonObject(IF f \in {Absent, Broken} THEN Empty ELSE f)

Init ==
  /\ power = "off"
  /\ file \in Documents \cup {Absent, Broken}
  /\ memory = Recovered(file)
  /\ applied = memory
  /\ kept = memory
  /\ shown = Empty
  /\ pending = 0
  /\ gap = "none"

\* Mutant: without a readable file the fields keep what they had.
beginWithoutDefaults ==
  /\ power = "off"
  /\ power' = "up"
  /\ memory' = IF file \in {Absent, Broken} THEN memory ELSE Recovered(file)
  /\ applied' = memory'
  /\ kept' = memory'
  /\ gap' = "none"
  /\ UNCHANGED <<file, pending, shown>>

\* begin reads the file and configures the device with it.
begin ==
  /\ power = "off"
  /\ power' = "up"
  /\ memory' = Recovered(file)
  /\ applied' = memory'
  /\ kept' = memory'
  /\ gap' = "none"
  /\ UNCHANGED <<file, pending, shown>>

---------------------------------------------------------------------------
(* SettingsService                                                           *)

\* fetchConfig
fetchConfig ==
  /\ power = "up"
  /\ shown' = writeToJsonObject(memory)
  /\ UNCHANGED <<power, memory, file, pending, applied, kept, gap>>

\* A file that was left short stays short.
Unopened == IF gap = "short" THEN "short" ELSE "unopened"

\* Mutant: the file is removed before it is opened.
updateTruncates(d) ==
  /\ power = "up"
  /\ memory' = readFromJsonObject(d)
  /\ file' = Broken
  /\ gap' = Unopened
  /\ UNCHANGED <<power, pending, applied, shown, kept>>

\* Mutant: the result of writeToFS is not looked at.
updateUnchecked(d) ==
  /\ power = "up"
  /\ pending < MaxPending
  /\ memory' = readFromJsonObject(d)
  /\ pending' = pending + 1
  /\ shown' = writeToJsonObject(memory')
  /\ UNCHANGED <<power, file, applied, kept, gap>>

\* updateConfig where the file cannot be opened: the answer is 500, but the
\* fields have been overwritten.
updateUnopened(d) ==
  /\ power = "up"
  /\ memory' = readFromJsonObject(d)
  /\ gap' = Unopened
  /\ UNCHANGED <<power, file, pending, applied, shown, kept>>

\* updateConfig up to the opening of the file, which truncates it.
updateOpened(d) ==
  /\ power = "up"
  /\ pending < MaxPending
  /\ memory' = readFromJsonObject(d)
  /\ file' = Broken
  /\ power' = "writing"
  /\ UNCHANGED <<pending, applied, shown, kept, gap>>

\* The answer of updateConfig.
Acknowledge ==
  /\ power = "writing"
  /\ power' = "up"
  /\ pending' = pending + 1
  /\ shown' = writeToJsonObject(memory)
  /\ kept' = memory
  /\ UNCHANGED <<memory, applied>>

\* updateConfig from there, where the flash takes the whole object.
updateWritten ==
  /\ Acknowledge
  /\ file' = writeToJsonObject(memory)
  /\ gap' = "none"

\* updateConfig from there, where the flash is full: nobody looks at what
\* serializeJson returns, and the answer is 200 all the same.
updateShort ==
  /\ Acknowledge
  /\ gap' = "short"
  /\ UNCHANGED file

\* Mutant: a client that has gone is forgotten.
ResponseForgotten ==
  /\ power = "up"
  /\ pending > 0
  /\ pending' = pending - 1
  /\ applied' \in {applied, memory}
  /\ UNCHANGED <<power, memory, file, shown, kept, gap>>

\* ~AsyncJsonCallbackResponse: onConfigUpdated uses the fields as they are now.
ResponseDestroyed ==
  /\ power = "up"
  /\ pending > 0
  /\ pending' = pending - 1
  /\ applied' = memory
  /\ UNCHANGED <<power, memory, file, shown, kept, gap>>

PowerLoss ==
  /\ power # "off"
  /\ power' = "off"
  /\ pending' = 0
  /\ gap' = IF power = "writing" THEN "cut" ELSE gap
  /\ UNCHANGED <<memory, file, applied, shown, kept>>

---------------------------------------------------------------------------

Next ==
  \/ begin
  \/ fetchConfig
  \/ \E d \in Documents : updateUnopened(d)
  \/ \E d \in Documents : updateOpened(d)
  \/ updateWritten
  \/ updateShort
  \/ ResponseDestroyed
  \/ PowerLoss

\* A handler ends, and the server destroys every response: it is sent, or
\* its client has gone. Nothing else has to happen.
Fairness ==
  /\ WF_vars(updateWritten \/ updateShort)
  /\ SF_vars(ResponseDestroyed)

Spec == Init /\ [][Next]_vars /\ Fairness

---------------------------------------------------------------------------
(* Properties                                                                *)

\* Every variable keeps its type: in particular the fields always hold
\* settings that the service has read from an object (readFromJsonObject).
TypeOK ==
  /\ power \in {"off", "up", "writing"}
  /\ memory \in Settings
  /\ file \in Stored \cup {Absent, Broken}
  /\ pending \in 0..MaxPending
  /\ applied \in Settings
  /\ shown \in Stored \cup {Empty}
  /\ kept \in Settings
  /\ gap \in Gaps

\* Unless a write has failed, the file that a restart reads holds the
\* settings in memory, and once every response has been destroyed these are
\* the settings the device runs with (updateConfig, onConfigUpdated).
Agreement ==
  power = "up" /\ gap = "none" =>
    /\ Recovered(file) = memory
    /\ pending = 0 => applied = memory

\* The next start reads the settings last acknowledged, unless power fails
\* during a write or the flash was full: an update that is answered 500 never
\* reaches the file (writeToFS, readFromFS).
FileHoldsKept ==
  power # "writing" /\ gap \notin {"cut", "short"} => Recovered(file) = kept

\* What an answer shows is what a restart would read, unless a write has
\* failed since the start (fetchConfig, updateConfig).
ShownIsStored ==
  [][shown' # shown /\ gap' = "none" => readFromJsonObject(shown') = Recovered(file')]_vars

\* Settings that were acknowledged take effect, unless power is lost or a
\* later update fails before they do (AsyncJsonCallbackResponse).
TakesEffect ==
  \A s \in Settings :
    (kept = s /\ pending > 0)
      ~> (applied = s \/ kept # s \/ gap # "none" \/ power = "off")

\* The settings in a 200 answer are the ones that the next start reads,
\* unless power fails during a write (updateConfig, begin).
AcknowledgedSurvives ==
  [][begin => gap = "cut" \/ memory' = kept]_vars
=============================================================================
