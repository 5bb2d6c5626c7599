---------------------- MODULE SettingsServiceProofs ----------------------
(* For every service that reads back what it writes: whatever is posted and  *)
(* whenever power or a write fails, the file, the fields, the answers and    *)
(* the device agree as SettingsService states.                               *)
EXTENDS SettingsService, TLAPS

\* What a step relies on between two handlers, and inside one.
Phases ==
  /\ power = "off" => pending = 0
  /\ power = "writing" => pending < MaxPending
  /\ gap = "cut" => power = "off"

IInv == TypeOK /\ Phases /\ FileHoldsKept /\ Agreement

---------------------------------------------------------------------------

\* Reading any object a file can hold gives settings, and reading what was
\* written gives the settings that were written (readFromFS, writeToFS).
LEMMA ReadBack ==
  /\ \A f \in Stored \cup {Absent, Broken} : Recovered(f) \in Settings
  /\ \A s \in Settings : Recovered(writeToJsonObject(s)) = s
  /\ \A d \in Documents \cup {Empty} : readFromJsonObject(d) \in Settings
  /\ \A s \in Settings : writeToJsonObject(s) \in Stored
<1>1. \A d \in Documents \cup {Empty} : readFromJsonObject(d) \in Settings
  BY DEF Settings
<1>2. \A s \in Settings : writeToJsonObject(s) \in Stored
  BY DEF Stored
<1>3. \A s \in Settings : Recovered(writeToJsonObject(s)) = s
  BY <1>2, RoundTripAssumption, FileAssumption DEF Recovered
<1>4. ASSUME NEW f \in Stored \cup {Absent, Broken}
      PROVE  Recovered(f) \in Settings
  <2>1. CASE f \in {Absent, Broken}
    BY <2>1, <1>1 DEF Recovered
  <2>2. CASE f \in Documents /\ f \notin {Absent, Broken}
    BY <2>2, <1>1 DEF Recovered
  <2>3. CASE \E s \in Settings : f = writeToJsonObject(s)
    BY <2>3, <1>3
  <2> QED
    BY <2>1, <2>2, <2>3 DEF Stored
<1> QED
  BY <1>1, <1>2, <1>3, <1>4

LEMMA Initial == Init => IInv
<1> SUFFICES ASSUME Init PROVE IInv
  OBVIOUS
<1>1. file \in Stored \cup {Absent, Broken}
  BY DEF Init, Stored
<1>2. memory \in Settings
  BY <1>1, ReadBack DEF Init
<1>3. TypeOK
  BY <1>1, <1>2, PendingAssumption DEF Init, TypeOK, Gaps
<1> QED
  BY <1>3 DEF Init, IInv, Phases, FileHoldsKept, Agreement

---------------------------------------------------------------------------
(* One lemma for each step                                                   *)

LEMMA BeginStep == IInv /\ begin => IInv'
<1> SUFFICES ASSUME IInv, begin PROVE IInv'
  OBVIOUS
<1> USE DEF IInv
<1>1. Recovered(file) \in Settings
  BY ReadBack DEF TypeOK
<1>2. TypeOK'
  BY <1>1 DEF begin, TypeOK, Gaps
<1>3. Phases'
  BY DEF begin, Phases
<1>4. FileHoldsKept' /\ Agreement'
  BY DEF begin, FileHoldsKept, Agreement, Recovered
<1> QED
  BY <1>2, <1>3, <1>4

LEMMA FetchStep == IInv /\ fetchConfig => IInv'
<1> SUFFICES ASSUME IInv, fetchConfig PROVE IInv'
  OBVIOUS
<1> USE DEF IInv
<1>1. TypeOK'
  BY ReadBack DEF fetchConfig, TypeOK
<1>2. Phases' /\ FileHoldsKept' /\ Agreement'
  BY DEF fetchConfig, Phases, FileHoldsKept, Agreement, Recovered
<1> QED
  BY <1>1, <1>2

LEMMA UnopenedStep ==
  ASSUME IInv, NEW d \in Documents, updateUnopened(d)
  PROVE  IInv'
<1> USE DEF IInv
<1>1. TypeOK'
  BY ReadBack DEF updateUnopened, Unopened, TypeOK, Gaps
<1>2. Phases'
  BY DEF updateUnopened, Unopened, Phases
<1>3. FileHoldsKept' /\ Agreement'
  BY DEF updateUnopened, Unopened, FileHoldsKept, Agreement, Phases, Recovered
<1> QED
  BY <1>1, <1>2, <1>3

LEMMA OpenedStep ==
  ASSUME IInv, NEW d \in Documents, updateOpened(d)
  PROVE  IInv'
<1> USE DEF IInv
<1>1. TypeOK'
  BY ReadBack DEF updateOpened, TypeOK
<1>2. Phases' /\ FileHoldsKept' /\ Agreement'
  BY DEF updateOpened, Phases, FileHoldsKept, Agreement
<1> QED
  BY <1>1, <1>2

LEMMA WriteStep == IInv /\ (updateWritten \/ updateShort) => IInv'
<1> SUFFICES ASSUME IInv, Acknowledge,
                    \/ file' = writeToJsonObject(memory) /\ gap' = "none"
                    \/ UNCHANGED file /\ gap' = "short"
             PROVE  IInv'
  BY DEF updateWritten, updateShort
<1> USE DEF IInv
<1>1. writeToJsonObject(memory) \in Stored
  BY ReadBack DEF TypeOK
<1>2. pending + 1 \in 0..MaxPending /\ pending + 1 # 0
  BY PendingAssumption DEF TypeOK, Phases, Acknowledge
<1>3. TypeOK'
  BY <1>1, <1>2 DEF Acknowledge, TypeOK, Gaps
<1>4. Phases'
  BY DEF Acknowledge, Phases
<1>5. gap' = "none" => Recovered(file') = memory
  BY ReadBack DEF TypeOK
<1>6. FileHoldsKept' /\ Agreement'
  BY <1>2, <1>5 DEF Acknowledge, FileHoldsKept, Agreement, Recovered
<1> QED
  BY <1>3, <1>4, <1>6

LEMMA DestroyedStep == IInv /\ ResponseDestroyed => IInv'
<1> SUFFICES ASSUME IInv, ResponseDestroyed PROVE IInv'
  OBVIOUS
<1> USE DEF IInv
<1>1. pending - 1 \in 0..MaxPending
  BY PendingAssumption DEF TypeOK, ResponseDestroyed
<1>2. TypeOK'
  BY <1>1 DEF ResponseDestroyed, TypeOK
<1>3. Phases' /\ FileHoldsKept' /\ Agreement'
  BY DEF ResponseDestroyed, Phases, FileHoldsKept, Agreement, Recovered
<1> QED
  BY <1>2, <1>3

LEMMA PowerLossStep == IInv /\ PowerLoss => IInv'
<1> SUFFICES ASSUME IInv, PowerLoss PROVE IInv'
  OBVIOUS
<1> USE DEF IInv
<1>1. TypeOK'
  BY PendingAssumption DEF PowerLoss, TypeOK, Gaps
<1>2. Phases' /\ FileHoldsKept' /\ Agreement'
  BY DEF PowerLoss, Phases, FileHoldsKept, Agreement, Recovered
<1> QED
  BY <1>1, <1>2

LEMMA StepKeeps == IInv /\ [Next]_vars => IInv'
<1> SUFFICES ASSUME IInv, [Next]_vars PROVE IInv'
  OBVIOUS
<1>1. CASE Next
  BY <1>1, BeginStep, FetchStep, UnopenedStep, OpenedStep, WriteStep,
     DestroyedStep, PowerLossStep DEF Next
<1>2. CASE UNCHANGED vars
  BY <1>2 DEF vars, IInv, TypeOK, Phases, FileHoldsKept, Agreement, Recovered
<1> QED
  BY <1>1, <1>2

---------------------------------------------------------------------------

\* The invariant that the theorems follow from: what the file holds, what was
\* acknowledged and what the fields hold, in every phase of a handler.
THEOREM SettingsInvariance == Spec => []IInv
<1>1. Init => IInv
  BY Initial
<1>2. IInv /\ [Next]_vars => IInv'
  BY StepKeeps
<1> QED
  BY <1>1, <1>2, PTL DEF Spec

\* The fields always hold settings that the service has read from an object,
\* also after a broken file or a failed write.
THEOREM SettingsTypeCorrect == Spec => []TypeOK
<1>1. IInv => TypeOK
  BY DEF IInv
<1> QED
  BY <1>1, SettingsInvariance, PTL

\* A start reads the settings last acknowledged, unless power failed during a
\* write or the flash was full.
THEOREM AcknowledgedIsKept == Spec => []FileHoldsKept
<1>1. IInv => FileHoldsKept
  BY DEF IInv
<1> QED
  BY <1>1, SettingsInvariance, PTL

\* While no write fails, file and fields agree, and with every response
\* destroyed the device runs with them.
THEOREM SettingsAgree == Spec => []Agreement
<1>1. IInv => Agreement
  BY DEF IInv
<1> QED
  BY <1>1, SettingsInvariance, PTL

\* While no write fails, every answer shows what a start would read.
THEOREM AnswersShowTheFile == Spec => ShownIsStored
<1>1. IInv /\ [Next]_vars
        => (shown' # shown /\ gap' = "none"
              => readFromJsonObject(shown') = Recovered(file'))
  <2> SUFFICES ASSUME IInv, Next, shown' # shown, gap' = "none"
               PROVE  readFromJsonObject(shown') = Recovered(file')
    BY DEF vars
  <2>1. readFromJsonObject(writeToJsonObject(memory)) = memory
    BY RoundTripAssumption DEF IInv, TypeOK
  <2>2. CASE fetchConfig
    BY <2>1, <2>2 DEF fetchConfig, IInv, Agreement
  <2>3. CASE updateWritten
    BY <2>1, <2>3, ReadBack DEF updateWritten, Acknowledge, IInv, TypeOK
  <2>4. CASE updateShort
    BY <2>4 DEF updateShort
  <2> QED
    BY <2>2, <2>3, <2>4
    DEF Next, begin, updateUnopened, updateOpened, ResponseDestroyed, PowerLoss
<1> QED
  BY <1>1, SettingsInvariance, PTL DEF Spec, ShownIsStored
=============================================================================
