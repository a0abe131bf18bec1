---------------------------- MODULE DeviceProofs ----------------------------
(***************************************************************************)
(* Safety of Device for every limit of connection attempts and of panics,  *)
(* every amount of data and either setting of the build switches.          *)
(*                                                                         *)
(* The invariant IInv says, for each part of the state, in which phases of *)
(* the main thread it may be what: where the two timers run, which task is *)
(* current, when there is a packet to send, where the panic counter may    *)
(* have passed its limit.                                                  *)
(***************************************************************************)
EXTENDS Device, TLAPS

\* The phases that only the console's task goes through, and those of them in which
\* both timers are stopped.
Stopped == {"ensemble", "monitor"}
Console == Stopped \cup
  {"menu", "setValid", "watch", "cliConnect", "cliConnecting", "mfgWater", "mfgConnect",
   "mfgConnecting", "mfgSync"}

\* The phases in which the water timer may be stopped.
Unwatched == Stopped \cup {"setup", "locked", "initTasks", "mfgWater", "sleep", "hibernate",
                           "timed", "off"}

\* A behavior that the flag vouches for, or is about to, was put by somebody.
BehaviorInv ==
  /\ (valid = TRUE \/ pc \in {"sleepValid", "setValid"}) => behavior \in {NORMAL, put}
  /\ ActsOnWhatWasPut

TaskInv ==
  /\ pc \in Console => task = "CLI"
  /\ pc \in {"reconnect", "reconnecting", "upload"} => Task = "UPLOAD" /\ data > 0
  /\ pc = "setup" => task = "UNMAPPED"

TimerInv ==
  /\ pc \notin Unwatched => water = TRUE
  /\ (Task = "CHARGE" /\ pc \in {"connect", "connecting", "run"}) => charger # "off"
  /\ (task = "CLI" /\ pc \in {"connect", "connecting", "initTasks", "initSensors"})
       => charger # "off"
  /\ pc \in Console \ Stopped => charger # "off"
  /\ pc = "setup" => charger = "off" /\ water = FALSE

\* The counter is past its limit only where nothing can panic.
PanicInv ==
  panics = MaxPanics + 1 => pc = "locked" \/ (pc = "setup" /\ reason # "panic")

IInv == TypeOK /\ BehaviorInv /\ TaskInv /\ TimerInv /\ PanicInv

-----------------------------------------------------------------------------

\* The names of the phases in which wait_connect() waits.
LEMMA WaitingNames ==
  /\ WaitingPcs = {"connecting", "reconnecting", "cliConnecting", "mfgConnecting"}
  /\ Waiting("connect") = "connecting" /\ Waiting("reconnect") = "reconnecting"
  /\ Waiting("cliConnect") = "cliConnecting" /\ Waiting("mfgConnect") = "mfgConnecting"
BY DEF WaitingPcs, ConnectPcs, Waiting

\* The device starts in the invariant.
LEMMA InitIInv == Init => IInv
PROOF
  <1> SUFFICES ASSUME Init PROVE IInv
    OBVIOUS
  <1>1. /\ hasCharger \in BOOLEAN /\ water \in BOOLEAN /\ reading \in BOOLEAN
        /\ status \in BOOLEAN /\ ready \in BOOLEAN /\ imu \in BOOLEAN
    BY Zenon DEF Init
  <1>2. TypeOK
    BY <1>1, WaitingNames, BoundAssumption
       DEF Init, TypeOK, Mapped, States, Behaviors, NORMAL, REATTEMPT, ConnectPcs
  <1> QED
   BY <1>2, BoundAssumption DEF Init, IInv, BehaviorInv, ActsOnWhatWasPut, TaskInv, TimerInv, PanicInv, Console,
       Stopped, Unwatched, Task, Mapped, States, Behaviors, NORMAL, REATTEMPT, ConnectPcs

\* A reset keeps the invariant, if the panic counter may still be counted up.
LEMMA ResetIInv ==
  ASSUME IInv, NEW why \in {"panic", "other"}, Reset(why),
         why = "panic" => panics # MaxPanics + 1
  PROVE  IInv'
BY WaitingNames, BoundAssumption
   DEF Reset, world, eeprom, IInv, TypeOK, BehaviorInv, ActsOnWhatWasPut, TaskInv, TimerInv,
       PanicInv, Console, Stopped, Unwatched, Task, Mapped, States, Behaviors, NORMAL,
       REATTEMPT, ConnectPcs

\* setup() and the start of the main thread preserve the invariant.
LEMMA BootIInv == ASSUME IInv, Boot PROVE IInv'
PROOF
  <1> USE WaitingNames, BoundAssumption, SwitchAssumption
      DEF IInv, TypeOK, BehaviorInv, ActsOnWhatWasPut, TaskInv, TimerInv, PanicInv, Console,
          Stopped, Unwatched, Task, Mapped, States, Behaviors, NORMAL, REATTEMPT, ConnectPcs,
          At, Goto, world, eeprom, retained, system, timers, sensed, history
  <1>1. CASE Setup
    BY <1>1 DEF Setup
  <1>2. CASE InitTasks
    <2>1. ready' \in BOOLEAN /\ imu' \in BOOLEAN /\ hasCharger' \in BOOLEAN /\ water' \in BOOLEAN
      BY <1>2, Zenon DEF InitTasks
    <2>2. TypeOK'
      BY <1>2, <2>1 DEF InitTasks
    <2>3. BehaviorInv' /\ TaskInv' /\ TimerInv' /\ PanicInv'
      BY <1>2 DEF InitTasks
    <2> QED BY <2>2, <2>3
  <1>3. CASE InitSensors
    BY <1>3 DEF InitSensors
  <1>4. CASE loadBootBehavior
    <2>1. valid' \in BOOLEAN
      BY <1>4, Zenon DEF loadBootBehavior
    <2>2. behavior' \in Behaviors
      BY <1>4, Zenon DEF loadBootBehavior
    <2>3. TypeOK'
      BY <1>4, <2>1, <2>2 DEF loadBootBehavior
    <2>4. BehaviorInv' /\ TaskInv' /\ TimerInv' /\ PanicInv'
      BY <1>4 DEF loadBootBehavior
    <2> QED BY <2>3, <2>4
  <1>5. CASE initalizeTaskObjects
    BY <1>5 DEF initalizeTaskObjects, StartState
  <1>6. CASE delayedInit
    BY <1>6 DEF delayedInit
  <1> QED BY <1>1, <1>2, <1>3, <1>4, <1>5, <1>6 DEF Boot

\* SleepTask preserves the invariant.
LEMMA SleepIInv == ASSUME IInv, Sleep PROVE IInv'
PROOF
  <1> USE WaitingNames, BoundAssumption, SwitchAssumption
      DEF IInv, TypeOK, BehaviorInv, ActsOnWhatWasPut, TaskInv, TimerInv, PanicInv, Console,
          Stopped, Unwatched, Task, Mapped, States, Behaviors, NORMAL, REATTEMPT, ConnectPcs,
          At, Goto, world, eeprom, retained, system, timers, sensed, history
  <1>1. CASE SleepRefused
    BY <1>1 DEF SleepRefused
  <1>2. CASE SleepPutBehavior
    BY <1>2 DEF SleepPutBehavior
  <1>3. CASE SleepPutValid
    BY <1>3 DEF SleepPutValid
  <1>4. CASE Deinit
    <2>1. CASE Panic
      <3>1. panics # MaxPanics + 1
        BY <1>4 DEF Deinit
      <3> QED BY ResetIInv, <2>1, <3>1 DEF Panic
    <2>2. CASE ~Panic
      <3>1. water' \in BOOLEAN
        BY <1>4, <2>2, Zenon DEF Deinit
      <3>2. TypeOK'
        BY <1>4, <2>2, <3>1 DEF Deinit
      <3>3. BehaviorInv' /\ TaskInv' /\ TimerInv' /\ PanicInv'
        BY <1>4, <2>2 DEF Deinit
      <3> QED BY <3>2, <3>3
    <2> QED BY <2>1, <2>2
  <1>5. CASE FallAsleep
    BY <1>5 DEF FallAsleep
  <1> QED BY <1>1, <1>2, <1>3, <1>4, <1>5 DEF Sleep

\* ChargeTask preserves the invariant.
LEMMA ChargeIInv == ASSUME IInv, Charge PROVE IInv'
PROOF
  <1> USE WaitingNames, BoundAssumption, SwitchAssumption
      DEF IInv, TypeOK, BehaviorInv, ActsOnWhatWasPut, TaskInv, TimerInv, PanicInv, Console,
          Stopped, Unwatched, Task, Mapped, States, Behaviors, NORMAL, REATTEMPT, ConnectPcs,
          At, Goto, world, eeprom, retained, system, timers, sensed, history
  <1>1. CASE ChargeInit
    BY <1>1 DEF ChargeInit
  <1>2. CASE ChargeRun
    BY <1>2 DEF ChargeRun, Leave
  <1> QED BY <1>1, <1>2 DEF Charge

\* RideTask preserves the invariant.
LEMMA RideIInv == ASSUME IInv, Ride PROVE IInv'
PROOF
  <1> USE WaitingNames, BoundAssumption, SwitchAssumption
      DEF IInv, TypeOK, BehaviorInv, ActsOnWhatWasPut, TaskInv, TimerInv, PanicInv, Console,
          Stopped, Unwatched, Task, Mapped, States, Behaviors, NORMAL, REATTEMPT, ConnectPcs,
          At, Goto, world, eeprom, retained, system, timers, sensed, history
  <1>1. CASE RideInit
    BY <1>1 DEF RideInit
  <1>2. CASE RideStart
    BY <1>2 DEF RideStart
  <1>3. CASE RideEnd
    BY <1>3 DEF RideEnd, Leave
  <1>4. CASE RideExit
    BY <1>4 DEF RideExit, Session, Switched
  <1> QED BY <1>1, <1>2, <1>3, <1>4 DEF Ride

\* DataUpload preserves the invariant.
LEMMA DataUploadIInv == ASSUME IInv, DataUpload PROVE IInv'
PROOF
  <1> USE WaitingNames, BoundAssumption, SwitchAssumption
      DEF IInv, TypeOK, BehaviorInv, ActsOnWhatWasPut, TaskInv, TimerInv, PanicInv, Console,
          Stopped, Unwatched, Task, Mapped, States, Behaviors, NORMAL, REATTEMPT, ConnectPcs,
          At, Goto, world, eeprom, retained, system, timers, sensed, history
  <1>1. CASE UploadInit
    BY <1>1 DEF UploadInit
  <1>2. CASE can_upload
    <2>1. UNCHANGED <<world, task, eeprom, retained, system, timers, sensed, radio, data, history>>
      BY <1>2, Zenon DEF can_upload
    <2>2. At("UPLOAD", "run")
      BY <1>2, Zenon DEF can_upload
    <2>3. \/ next' \in States /\ pc' = "exit"
          \/ pc' = "reconnect" /\ next' = next /\ data > 0
      BY <1>2, Zenon DEF can_upload, Leave
    <2>4. CASE pc' = "exit" /\ next' \in States
      <3>1. TypeOK'
        BY <2>1, <2>4
      <3>2. BehaviorInv' /\ TaskInv' /\ TimerInv' /\ PanicInv'
        BY <2>1, <2>2, <2>4
      <3> QED BY <3>1, <3>2
    <2>5. CASE pc' = "reconnect" /\ next' = next /\ data > 0
      BY <2>1, <2>2, <2>5
    <2> QED BY <2>3, <2>4, <2>5
  <1>3. CASE Upload
    BY <1>3 DEF Upload, Leave
  <1> QED BY <1>1, <1>2, <1>3 DEF DataUpload

\* The connection and the exit of the tasks that use it preserve the invariant.
LEMMA CloudIInv == 
  ASSUME IInv,
         CloudExit \/ wait_connect \/ Connected \/ ConnectTimeout \/ MfgSync \/ Network
  PROVE  IInv'
PROOF
  <1> USE WaitingNames, BoundAssumption, SwitchAssumption
      DEF IInv, TypeOK, BehaviorInv, ActsOnWhatWasPut, TaskInv, TimerInv, PanicInv, Console,
          Stopped, Unwatched, Task, Mapped, States, Behaviors, NORMAL, REATTEMPT, ConnectPcs,
          At, Goto, world, eeprom, retained, system, timers, sensed, history
  <1>1. CASE CloudExit
    BY <1>1 DEF CloudExit, Switched
  <1>2. CASE wait_connect
    <2>1. next' \in States /\ pc' \in {"upload", "exit", "menu", "run", "mfgSync"} \cup WaitingPcs
      BY <1>2 DEF wait_connect, Returned, Exceeded, Leave
    <2>2. \/ attempts' \in {attempts, 0}
          \/ ~(attempts > MaxAttempts) /\ attempts' = attempts + 1
      BY <1>2, Zenon DEF wait_connect
    <2>3. attempts' \in 0 .. MaxAttempts + 1
      BY <2>2
    <2>4. radio' \in {radio, "trying"}
      BY <1>2, Zenon DEF wait_connect
    <2>5. UNCHANGED <<world, task, valid, behavior, retained, system, timers, sensed, data, history>>
      BY <1>2, Zenon DEF wait_connect
    <2>6. TypeOK'
      BY <2>1, <2>3, <2>4, <2>5
    <2>7. BehaviorInv' /\ TaskInv' /\ TimerInv' /\ PanicInv'
      BY <1>2 DEF wait_connect, Returned, Exceeded, Leave
    <2> QED BY <2>6, <2>7
  <1>3. CASE Connected
    <2>1. next' \in States /\ pc' \in {"upload", "exit", "menu", "run", "mfgSync"} \cup WaitingPcs
      BY <1>3 DEF Connected, Returned, Leave
    <2>2. attempts' \in 0 .. MaxAttempts + 1
      BY <1>3 DEF Connected
    <2>3. TypeOK'
      BY <1>3, <2>1, <2>2 DEF Connected
    <2>4. BehaviorInv' /\ TaskInv' /\ TimerInv' /\ PanicInv'
      BY <1>3 DEF Connected, Returned, Leave
    <2> QED BY <2>3, <2>4
  <1>4. CASE ConnectTimeout
    <2>1. next' \in States /\ pc' \in {"upload", "exit", "menu", "run", "mfgSync"} \cup WaitingPcs
      BY <1>4 DEF ConnectTimeout, Returned, Leave
    <2>2. attempts' \in 0 .. MaxAttempts + 1
      BY <1>4 DEF ConnectTimeout
    <2>3. TypeOK'
      BY <1>4, <2>1, <2>2 DEF ConnectTimeout
    <2>4. BehaviorInv' /\ TaskInv' /\ TimerInv' /\ PanicInv'
      BY <1>4 DEF ConnectTimeout, Returned, Leave
    <2> QED BY <2>3, <2>4
  <1>5. CASE MfgSync
    BY <1>5 DEF MfgSync
  <1>6. CASE Network
    BY <1>6 DEF Network
  <1> QED BY <1>1, <1>2, <1>3, <1>4, <1>5, <1>6

\* What the console does without the user preserves the invariant.
LEMMA CliIInv == ASSUME IInv, Cli PROVE IInv'
PROOF
  <1> USE WaitingNames, BoundAssumption, SwitchAssumption
      DEF IInv, TypeOK, BehaviorInv, ActsOnWhatWasPut, TaskInv, TimerInv, PanicInv, Console,
          Stopped, Unwatched, Task, Mapped, States, Behaviors, NORMAL, REATTEMPT, ConnectPcs,
          At, Goto, world, eeprom, retained, system, timers, sensed, history
  <1>1. CASE CliInit
    BY <1>1 DEF CliInit
  <1>2. CASE CliHangUp
    BY <1>2 DEF CliHangUp, Leave
  <1>3. CASE MfgWaterEnds
    BY <1>3 DEF MfgWaterEnds
  <1>4. CASE \E b \in Behaviors : pc = "setValid" /\ setBootBehavior(b)
    BY <1>4 DEF setBootBehavior, Prompt
  <1>5. CASE EnsembleEnds
    BY <1>5 DEF EnsembleEnds, RestartTimers, Session
  <1> QED BY <1>1, <1>2, <1>3, <1>4, <1>5 DEF Cli

\* What the user does preserves the invariant.
LEMMA UserIInv == ASSUME IInv, User PROVE IInv'
PROOF
  <1> USE WaitingNames, BoundAssumption, SwitchAssumption
      DEF IInv, TypeOK, BehaviorInv, ActsOnWhatWasPut, TaskInv, TimerInv, PanicInv, Console,
          Stopped, Unwatched, Task, Mapped, States, Behaviors, NORMAL, REATTEMPT, ConnectPcs,
          At, Goto, world, eeprom, retained, system, timers, sensed, history
  <1>1. CASE ChargeConsole
    BY <1>1 DEF ChargeConsole, Leave
  <1>2. CASE CliQuit
    BY <1>2 DEF CliQuit, Prompt, Leave
  <1>3. CASE CliConnect
    BY <1>3 DEF CliConnect, Prompt
  <1>4. CASE CliDisconnect
    BY <1>4 DEF CliDisconnect, Prompt
  <1>5. CASE CliReinit
    BY <1>5 DEF CliReinit, Prompt
  <1>6. CASE initialize_counter
    BY <1>6 DEF initialize_counter, Prompt
  <1>7. CASE Watch
    BY <1>7 DEF Watch
  <1>8. CASE MfgTest
    <2>1. water' \in BOOLEAN
      BY <1>8, Zenon DEF MfgTest
    <2>2. TypeOK'
      BY <1>8, <2>1 DEF MfgTest, Prompt
    <2>3. BehaviorInv' /\ TaskInv' /\ TimerInv' /\ PanicInv'
      BY <1>8 DEF MfgTest, Prompt
    <2> QED BY <2>2, <2>3
  <1>9. CASE MonitorEnds
    BY <1>9 DEF MonitorEnds, RestartTimers, Session
  <1>10. CASE CliRecorder
    BY <1>10 DEF CliRecorder, Prompt
  <1>11. CASE CliRestart
    BY <1>11, ResetIInv DEF CliRestart
  <1>12. CASE \E b \in Behaviors : Prompt /\ setBootBehavior(b)
    BY <1>12 DEF setBootBehavior, Prompt
  <1>13. CASE \E c \in {"ensemble", "monitor"} : StopTimers(c)
    <2>1. water' \in BOOLEAN
      BY <1>13, Zenon DEF StopTimers
    <2>2. TypeOK'
      BY <1>13, <2>1 DEF StopTimers, Prompt
    <2>3. BehaviorInv' /\ TaskInv' /\ TimerInv' /\ PanicInv'
      BY <1>13 DEF StopTimers, Prompt
    <2> QED BY <2>2, <2>3
  <1> QED BY <1>1, <1>2, <1>3, <1>4, <1>5, <1>6, <1>7, <1>8, <1>9, <1>10, <1>11, <1>12, <1>13
      DEF User

\* The timers, resets and the surroundings preserve the invariant.
LEMMA WorldIInv ==
  ASSUME IInv, RideTimeout \/ Wake \/ ChargerTask \/ WaterTask \/ Surroundings \/ Crash
  PROVE  IInv'
PROOF
  <1> USE WaitingNames, BoundAssumption, SwitchAssumption
      DEF IInv, TypeOK, BehaviorInv, ActsOnWhatWasPut, TaskInv, TimerInv, PanicInv, Console,
          Stopped, Unwatched, Task, Mapped, States, Behaviors, NORMAL, REATTEMPT, ConnectPcs,
          At, Goto, world, eeprom, retained, system, timers, sensed, history
  <1>1. CASE RideTimeout
    BY <1>1 DEF RideTimeout, Leave
  <1>2. CASE Wake
    BY <1>2, ResetIInv DEF Wake
  <1>3. CASE ChargerTask
    <2>1. CASE Panic
      <3>1. panics # MaxPanics + 1
        BY <1>3 DEF ChargerTask, Running
      <3> QED BY ResetIInv, <2>1, <3>1 DEF Panic
    <2>2. CASE ~Panic
      BY <1>3, <2>2 DEF ChargerTask
    <2> QED BY <2>1, <2>2
  <1>4. CASE WaterTask
    <2>1. CASE Panic
      <3>1. panics # MaxPanics + 1
        BY <1>4 DEF WaterTask, Running
      <3> QED BY ResetIInv, <2>1, <3>1 DEF Panic
    <2>2. CASE ~Panic
      <3>1. reading' = wet /\ status' \in {status, wet}
        BY <1>4, <2>2, Zenon DEF WaterTask
      <3>2. UNCHANGED <<world, pc, task, next, eeprom, retained, system, timers, hasCharger,
                        radio, data, history>>
        BY <1>4, <2>2, Zenon DEF WaterTask
      <3> QED BY <3>1, <3>2
    <2> QED BY <2>1, <2>2
  <1>5. CASE Surroundings
    BY <1>5 DEF Surroundings
  <1>6. CASE Crash
    BY <1>6, ResetIInv DEF Crash
  <1> QED BY <1>1, <1>2, <1>3, <1>4, <1>5, <1>6

\* The invariant is inductive.
LEMMA NextIInv == IInv /\ [Next]_vars => IInv'
PROOF
  <1> SUFFICES ASSUME IInv, [Next]_vars PROVE IInv'
    OBVIOUS
  <1>1. CASE Main
    BY <1>1, BootIInv, SleepIInv, ChargeIInv, RideIInv, DataUploadIInv, CliIInv, CloudIInv
       DEF Main
  <1>2. CASE User
    BY <1>2, UserIInv
  <1>3. CASE ConnectTimeout \/ MfgSync \/ Network
    BY <1>3, CloudIInv
  <1>4. CASE RideTimeout \/ Wake \/ ChargerTask \/ WaterTask \/ Surroundings \/ Crash
    BY <1>4, WorldIInv
  <1>5. CASE UNCHANGED vars
    BY <1>5 DEF vars, IInv, TypeOK, BehaviorInv, ActsOnWhatWasPut, TaskInv, TimerInv, PanicInv,
       Task, world, eeprom, retained, system, timers, sensed, history
  <1> QED BY <1>1, <1>2, <1>3, <1>4, <1>5 DEF Next

-----------------------------------------------------------------------------

\* The invariant holds of the device, whatever resets, sleeps and commands it sees.
THEOREM Inductive == Spec => []IInv
BY InitIInv, NextIInv, PTL DEF Spec

\* Type correctness of the device: among it, the panic counter ends one past its limit,
\* and no packet is counted down that is not there.
THEOREM TypeCorrect == Spec => []TypeOK
PROOF
  <1>1. IInv => TypeOK
    BY DEF IInv
  <1> QED BY <1>1, Inductive, PTL

\* Boots act only on the boot behavior that was put for them.
THEOREM BehaviorTrusted == Spec => []ActsOnWhatWasPut
PROOF
  <1>1. IInv => ActsOnWhatWasPut
    BY DEF IInv, BehaviorInv
  <1> QED BY <1>1, Inductive, PTL

\* Whoever waits for the charger or the water has the timer that watches it.
THEOREM TimersRun == Spec => []WaitersWatched
PROOF
  <1>1. IInv => WaitersWatched
    BY DEF IInv, TimerInv, TaskInv, WaitersWatched, At, Console, Stopped, Unwatched
  <1> QED BY <1>1, Inductive, PTL

-----------------------------------------------------------------------------

\* No step of a task, a timer or a reset brings the device on-line, or forgives the
\* failed attempts, once their limit is reached.
LEMMA BarredStep ==
  ASSUME Barred, Next
  PROVE  Barred' \/ pc' \in {"cliConnect", "mfgWater"} \/ initialize_counter
PROOF
  <1> SUFFICES ASSUME pc' \notin {"cliConnect", "mfgWater"}, ~initialize_counter
               PROVE  attempts' = attempts /\ radio' = "off"
    BY DEF Barred
  <1> USE DEF eeprom, Barred
  <1>1. ASSUME NEW why, Reset(why) PROVE attempts' = attempts /\ radio' = "off"
    BY <1>1 DEF Reset
  <1>2. CASE Boot
    BY <1>2 DEF Boot, Setup, InitTasks, InitSensors, loadBootBehavior, initalizeTaskObjects,
                delayedInit
  <1>3. CASE Sleep
    BY <1>1, <1>3 DEF Sleep, SleepRefused, SleepPutBehavior, SleepPutValid, Deinit, FallAsleep,
                      Panic
  <1>4. CASE Charge \/ Ride \/ DataUpload
    BY <1>4 DEF Charge, Ride, DataUpload, ChargeInit, ChargeRun, RideInit, RideStart, RideEnd,
                RideExit, UploadInit, can_upload, Upload
  <1>5. CASE Cli
    BY <1>5 DEF Cli, CliInit, CliHangUp, MfgWaterEnds, setBootBehavior, EnsembleEnds
  <1>6. CASE wait_connect
    BY <1>6 DEF wait_connect, Exceeded
  <1>7. CASE CloudExit \/ Connected \/ ConnectTimeout \/ MfgSync \/ Network
    BY <1>7 DEF CloudExit, Connected, ConnectTimeout, MfgSync, Network
  <1>8. CASE User
    <2>1. CASE CliRestart
      BY <2>1, <1>1 DEF CliRestart
    <2>2. CASE CliConnect \/ MfgTest
      BY <2>2 DEF CliConnect, MfgTest, Goto
    <2>3. CASE ~(CliRestart \/ CliConnect \/ MfgTest)
      BY <1>8, <2>3
         DEF User, ChargeConsole, CliQuit, CliDisconnect, CliReinit, Watch, MonitorEnds,
             CliRecorder, setBootBehavior, StopTimers
    <2> QED BY <2>1, <2>2, <2>3
  <1>9. CASE RideTimeout \/ Wake \/ ChargerTask \/ WaterTask \/ Surroundings \/ Crash
    BY <1>9, <1>1 DEF RideTimeout, Wake, ChargerTask, WaterTask, Surroundings, Crash, Panic
  <1> QED BY <1>2, <1>3, <1>4, <1>5, <1>6, <1>7, <1>8, <1>9 DEF Next, Main

\* Once the limit is reached without a success, no task goes on-line any more until
\* the console does.
THEOREM BarredForGood == Spec => StaysBarred
PROOF
  <1>1. [Next]_vars =>
          [Barred => (Barred' \/ pc' \in {"cliConnect", "mfgWater"} \/ initialize_counter)]_vars
    BY BarredStep
  <1> QED BY <1>1, PTL DEF Spec, StaysBarred

=============================================================================
