------------------------------- MODULE Device -------------------------------
(***************************************************************************)
(* The device as a whole: setup() and the task state machine of            *)
(* smartfin-fw3.ino, the five tasks, the two software timers of system.cpp *)
(* that tell the tasks of the charger and of the water, the cells of       *)
(* EEPROM, the cloud connection, and the console commands that change any  *)
(* of it.                                                                  *)
(*                                                                         *)
(* The main thread is pc.  A reset can come at any time: it keeps EEPROM   *)
(* and retained memory.  Null pointers that are used may panic the board,  *)
(* which is a reset of its own kind, or be survived.                       *)
(*                                                                         *)
(* WaterSensor is what the water timer does here: a reading may move the   *)
(* status to itself.  batteryLow is never set by any code and left out.    *)
(*                                                                         *)
(* "Defect" marks a mutation of the definition after it.                   *)
(***************************************************************************)
EXTENDS Naturals

CONSTANTS
  CanUpload,    (* SF_CAN_UPLOAD                                            *)
  RecordSink,   (* ENABLE_RECORD_SINK                                       *)
  MaxAttempts,  (* SF_CLOUD_CONNECT_MAX_ATTEMPTS                            *)
  MaxPanics,    (* the panics in a row after which setup() stops the board   *)
  MaxData       (* the packets a session leaves                             *)

ASSUME SwitchAssumption == CanUpload \in BOOLEAN /\ RecordSink \in BOOLEAN
ASSUME BoundAssumption ==
  MaxAttempts \in Nat /\ MaxPanics \in Nat /\ MaxData \in Nat \ {0}

VARIABLES
  usb, wet,     (* the charger is plugged in, the fin is in the water       *)
  pc, task,     (* the main thread: where it is, and currentState           *)
  next,         (* what run() returns                                       *)
  valid,        (* NVRAM_VALID                                              *)
  behavior,     (* BOOT_BEHAVIOR                                            *)
  attempts,     (* CLOUD_CONNECT_COUNTER                                    *)
  panics,       (* panicCount[0]                                            *)
  reason,       (* System.resetReason(), until setup() has read it          *)
  ready,        (* systemDesc is filled in, but for the IMU                 *)
  imu,          (* pIMU is there and its reader thread runs                 *)
  hasCharger,   (* systemFlags.hasCharger                                   *)
  charger,      (* chargerTimer: "off", "started", or "ticked" since then   *)
  water,        (* waterTimer runs                                          *)
  reading,      (* getLastReading()                                         *)
  status,       (* getLastStatus()                                          *)
  radio,        (* "off", "trying" from Particle.connect(), "on" when       *)
                (* Particle.connected()                                     *)
  data,         (* the packets the recorder holds                           *)
  put,          (* what BOOT_BEHAVIOR was set to since loadBootBehavior()   *)
                (* last looked at it (history)                              *)
  granted       (* what it had been set to when it looked (history)         *)

world    == <<usb, wet>>
eeprom   == <<valid, behavior, attempts>>
retained == <<panics, reason>>
system   == <<ready, imu>>
timers   == <<charger, water>>
sensed   == <<hasCharger, reading, status>>
history  == <<put, granted>>
vars == <<world, pc, task, next, eeprom, retained, system, timers, sensed,
          radio, data, history>>

NORMAL    == "NORMAL"       \* BOOT_BEHAVIOR_NORMAL
REATTEMPT == "REATTEMPT"    \* BOOT_BEHAVIOR_UPLOAD_REATTEMPT
Behaviors == {NORMAL, REATTEMPT}

\* States with a task; the others have none.
Mapped == {"CLI", "SLEEP", "CHARGE", "UPLOAD", "DEPLOYED"}
States == Mapped \cup {"UNMAPPED"}

Goto(p) == pc' = p
Leave(s) == pc' = "exit" /\ next' = s

Asleep == pc \in {"hibernate", "timed", "off"}
Running == ~Asleep /\ pc # "locked"

-----------------------------------------------------------------------------
(***************************************************************************)
(* Resets, setup() and the start of the main thread.                       *)
(***************************************************************************)

\* EEPROM may never have been written: then every bit of it is set, which is a
\* valid boot behavior that no case names, and a counter beyond its limit.
Init ==
  /\ usb \in BOOLEAN /\ wet \in BOOLEAN
  /\ pc = "setup" /\ task = "UNMAPPED" /\ next = "UNMAPPED"
  /\ valid \in BOOLEAN /\ behavior = NORMAL /\ attempts \in {0, MaxAttempts + 1}
  /\ panics = 0 /\ reason = "other"
  /\ ready = FALSE /\ imu = FALSE
  /\ hasCharger = FALSE /\ charger = "off" /\ water = FALSE
  /\ reading = FALSE /\ status = FALSE
  /\ radio = "off" /\ data = 0
  /\ put = NORMAL /\ granted = NORMAL

\* Whatever is neither in EEPROM, in retained memory nor on flash is lost.
Reset(why) ==
  /\ pc' = "setup" /\ task' = "UNMAPPED" /\ next' = "UNMAPPED"
  /\ reason' = why
  /\ ready' = FALSE /\ imu' = FALSE
  /\ hasCharger' = FALSE /\ charger' = "off" /\ water' = FALSE
  /\ reading' = FALSE /\ status' = FALSE /\ radio' = "off"
  /\ granted' = NORMAL
  /\ UNCHANGED <<world, eeprom, panics, data, put>>

Panic == Reset("panic")

\* The battery runs down, the watchdog bites, the reset button is pressed.
Crash == Reset("other")

\* Defect: setup() does not stop after too many panics.
SetupNeverLocks ==
  /\ pc = "setup"
  /\ panics' = IF reason = "panic" THEN panics + 1 ELSE 0
  /\ reason' = "none"
  /\ Goto("initTasks")
  /\ UNCHANGED <<world, task, next, eeprom, system, timers, sensed, radio, data, history>>

\* setup(): the panic counter.
Setup ==
  /\ pc = "setup"
  /\ panics' = IF reason = "panic" THEN panics + 1 ELSE 0
  /\ reason' = "none"
  /\ Goto(IF panics' > MaxPanics THEN "locked" ELSE "initTasks")
  /\ UNCHANGED <<world, task, next, eeprom, system, timers, sensed, radio, data, history>>

\* SYS_initSys() up to SYS_initTasks(), which starts the water timer while
\* systemDesc holds no water sensor yet.  A console command runs it again.
InitTasks ==
  /\ pc = "initTasks"
  /\ ready' = FALSE /\ imu' = FALSE
  /\ hasCharger' = TRUE
  /\ water' = TRUE
  /\ Goto("initSensors")
  /\ UNCHANGED <<world, task, next, eeprom, retained, charger, reading, status,
                 radio, data, history>>

\* The rest of SYS_initSys(), to the first reading and the LEDs.
InitSensors ==
  /\ pc = "initSensors"
  /\ ready' = TRUE
  /\ reading' = wet
  /\ status' \in {status, wet}
  /\ Goto(IF task = "CLI" THEN "menu" ELSE "load")
  /\ UNCHANGED <<world, task, next, eeprom, retained, imu, timers, hasCharger,
                 radio, data, history>>

loadBootBehavior ==
  /\ pc = "load"
  /\ IF valid THEN valid' = FALSE /\ UNCHANGED behavior
     ELSE behavior' = NORMAL /\ UNCHANGED valid
  /\ granted' = put /\ put' = NORMAL
  /\ Goto("start")
  /\ UNCHANGED <<world, task, next, attempts, retained, system, timers, sensed,
                 radio, data>>

\* The choice of initalizeTaskObjects().
StartState ==
  LET upload == IF CanUpload THEN "UPLOAD" ELSE "CHARGE"
  IN  CASE behavior = REATTEMPT -> upload
        [] behavior # REATTEMPT /\ wet -> "DEPLOYED"
        [] behavior # REATTEMPT /\ ~wet /\ data > 0 -> upload
        [] behavior # REATTEMPT /\ ~wet /\ data = 0 -> IF hasCharger THEN "CHARGE" ELSE "SLEEP"

initalizeTaskObjects ==
  /\ pc = "start"
  /\ task' = StartState
  /\ granted' = NORMAL
  /\ Goto("delayedInit")
  /\ UNCHANGED <<world, next, eeprom, retained, system, timers, sensed, radio,
                 data, put>>

\* mainLoop() before its loop: SYS_initIMU().  When begin() fails, no reader
\* thread exists.
delayedInit ==
  /\ pc = "delayedInit"
  /\ imu' \in BOOLEAN
  /\ Goto("init")
  /\ UNCHANGED <<world, task, next, eeprom, retained, ready, timers, sensed, radio,
                 data, history>>

\* findState(), and SF_DEFAULT_STATE when it finds none.
Task == IF task \in Mapped THEN task ELSE "CHARGE"

At(state, p) == Task = state /\ pc = p

\* The end of mainFunc(): the next state.
Switched == task' = next /\ next' = "UNMAPPED" /\ Goto("init")

-----------------------------------------------------------------------------
(***************************************************************************)
(* sf_cloud.cpp.  wait_connect() is called at "connect" by the init() of   *)
(* three tasks, at "reconnect" by can_upload(), at "cliConnect" by the     *)
(* console without the limit, and at "mfgConnect" by the manufacturing     *)
(* test.  While it waits, pc is the same with "ing" behind it.             *)
(***************************************************************************)

ConnectPcs == {"connect", "reconnect", "cliConnect", "mfgConnect"}
Waiting(p) ==
  CASE p = "connect" -> "connecting"       [] p = "reconnect"  -> "reconnecting"
    [] p = "cliConnect" -> "cliConnecting" [] p = "mfgConnect" -> "mfgConnecting"
WaitingPcs == {Waiting(p) : p \in ConnectPcs}

\* Where the caller goes on.  A failure ends the upload task, whose run()
\* looks at initSuccess first; the others go on all the same.
Returned(p, success) ==
  CASE p \in {"cliConnect", "cliConnecting"} -> Goto("menu") /\ UNCHANGED next
    [] p \in {"mfgConnect", "mfgConnecting"} ->
         Goto(IF success THEN "mfgSync" ELSE "menu") /\ UNCHANGED next
    [] p \in {"reconnect", "reconnecting"} ->
         IF success THEN Goto("upload") /\ UNCHANGED next ELSE Leave("SLEEP")
    [] p \in {"connect", "connecting"} /\ Task = "UPLOAD" /\ ~success -> Leave("SLEEP")
    [] p \in {"connect", "connecting"} /\ ~(Task = "UPLOAD" /\ ~success) ->
         Goto(IF Task = "CLI" THEN "menu" ELSE "run") /\ UNCHANGED next

\* Defect: the limit is not looked at.
ExceededNever(p) == FALSE

Exceeded(p) == p # "cliConnect" /\ attempts > MaxAttempts

\* wait_connect() up to its loop.  The values of the counter above the limit are not
\* told apart, but the largest of its 16 bits, which memory that was never written
\* holds too, goes back to 0 when the console, which the limit does not stop, tries:
\* a failed attempt then gives all attempts back.
wait_connect ==
  /\ pc \in ConnectPcs
  /\ IF radio = "on" THEN Returned(pc, TRUE) /\ UNCHANGED <<attempts, radio>>
     ELSE IF Exceeded(pc) THEN Returned(pc, FALSE) /\ UNCHANGED <<attempts, radio>>
     ELSE /\ attempts' \in IF attempts > MaxAttempts THEN {attempts, 0} ELSE {attempts + 1}
          /\ radio' = "trying"
          /\ Goto(Waiting(pc)) /\ UNCHANGED next
  /\ UNCHANGED <<world, task, valid, behavior, retained, system, timers, sensed,
                 data, history>>

\* Its loop sees the connection, and the counter is cleared.
Connected ==
  /\ pc \in WaitingPcs /\ radio = "on"
  /\ attempts' = 0
  /\ Returned(pc, TRUE)
  /\ UNCHANGED <<world, task, valid, behavior, retained, system, timers, sensed,
                 radio, data, history>>

\* Cellular connections take seconds: a timer that runs has fired meanwhile.
Ticked == charger # "started"

\* Device OS goes on trying after the caller has given up.
ConnectTimeout ==
  /\ pc \in WaitingPcs /\ radio # "on" /\ Ticked
  /\ Returned(pc, FALSE)
  /\ UNCHANGED <<world, task, eeprom, retained, system, timers, sensed, radio,
                 data, history>>

\* The network comes and goes.
Network ==
  /\ \/ radio = "trying" /\ Ticked /\ radio' = "on"
     \/ radio = "on" /\ radio' = "trying"
  /\ UNCHANGED <<world, pc, task, next, eeprom, retained, system, timers, sensed,
                 data, history>>

-----------------------------------------------------------------------------
(***************************************************************************)
(* SleepTask.                                                              *)
(***************************************************************************)

\* init() with USB power, then run().
SleepRefused ==
  /\ At("SLEEP", "init") /\ usb
  /\ task' = IF status THEN "DEPLOYED" ELSE "CHARGE"
  /\ UNCHANGED <<world, pc, next, eeprom, retained, system, timers, sensed, radio,
                 data, history>>

\* init() up to the first put.
SleepPutBehavior ==
  /\ At("SLEEP", "init") /\ ~usb
  /\ put' = behavior
  /\ Goto("sleepValid")
  /\ UNCHANGED <<world, task, next, eeprom, retained, system, timers, sensed, radio,
                 data, granted>>

SleepPutValid ==
  /\ pc = "sleepValid"
  /\ valid' = TRUE
  /\ Goto("deinit")
  /\ UNCHANGED <<world, task, next, behavior, attempts, retained, system, timers, sensed,
                 radio, data, history>>

\* SYS_deinitSys(): IMU::end() joins a thread that may not exist.
Deinit ==
  /\ pc = "deinit"
  /\ \/ ~imu /\ Panic
     \/ /\ charger' = "off" /\ water' = FALSE
        /\ Goto("sleep")
        /\ UNCHANGED <<world, task, next, eeprom, retained, system, sensed, radio,
                       data, history>>

\* System.sleep(): until the water, for ten minutes, or for good.
FallAsleep ==
  /\ pc = "sleep"
  /\ Goto(IF behavior # REATTEMPT THEN "hibernate" ELSE IF wet THEN "off" ELSE "timed")
  /\ UNCHANGED <<world, task, next, eeprom, retained, system, timers, sensed, radio,
                 data, history>>

\* The end of sleep is a reset.
Wake ==
  /\ \/ pc = "hibernate" /\ wet
     \/ pc = "timed"
  /\ Reset("other")

-----------------------------------------------------------------------------
(***************************************************************************)
(* ChargeTask.  A state without a task is this one.                        *)
(***************************************************************************)

ChargeInit ==
  /\ At("CHARGE", "init")
  /\ charger' = "started"
  /\ Goto("connect")
  /\ UNCHANGED <<world, task, next, eeprom, retained, system, water, sensed, radio,
                 data, history>>

\* Defect: the test of hasCharger is the wrong way round.
ChargeRunInverted ==
  /\ At("CHARGE", "run")
  /\ \/ hasCharger /\ Leave("SLEEP")
     \/ ~hasCharger /\ reading /\ Leave("DEPLOYED")
  /\ UNCHANGED <<world, task, eeprom, retained, system, timers, sensed, radio,
                 data, history>>

ChargeRun ==
  /\ At("CHARGE", "run")
  /\ \/ ~hasCharger /\ Leave("SLEEP")
     \/ hasCharger /\ reading /\ Leave("DEPLOYED")
  /\ UNCHANGED <<world, task, eeprom, retained, system, timers, sensed, radio,
                 data, history>>

\* #CLI is typed.
ChargeConsole ==
  /\ At("CHARGE", "run") /\ usb
  /\ Leave("CLI")
  /\ UNCHANGED <<world, task, eeprom, retained, system, timers, sensed, radio,
                 data, history>>

\* The exit() of the tasks that used the cloud.  wait_disconnect() gives up
\* after five seconds, within which the timer fires.
CloudExit ==
  /\ pc = "exit" /\ Task \in {"CHARGE", "CLI", "UPLOAD"}
  /\ \/ radio' = "off"
     \/ radio # "off" /\ Ticked /\ UNCHANGED radio
  /\ IF Task = "UPLOAD" THEN UNCHANGED charger ELSE charger' = "off"
  /\ Switched
  /\ UNCHANGED <<world, eeprom, retained, system, water, sensed, data, history>>

-----------------------------------------------------------------------------
(***************************************************************************)
(* RideTask.                                                               *)
(***************************************************************************)

RideInit ==
  /\ At("DEPLOYED", "init")
  /\ charger' = "off"
  /\ Goto("run")
  /\ UNCHANGED <<world, task, next, eeprom, retained, system, water, sensed, radio,
                 data, history>>

\* run() waits for the water.
RideStart ==
  /\ At("DEPLOYED", "run") /\ status
  /\ Goto("ride")
  /\ UNCHANGED <<world, task, next, eeprom, retained, system, timers, sensed, radio,
                 data, history>>

RideTimeout ==
  /\ At("DEPLOYED", "run") /\ ~status
  /\ Leave("SLEEP")
  /\ UNCHANGED <<world, task, eeprom, retained, system, timers, sensed, radio,
                 data, history>>

\* And then until it is out of it.
RideEnd ==
  /\ pc = "ride" /\ ~status
  /\ Leave(IF CanUpload THEN "UPLOAD" ELSE "SLEEP")
  /\ UNCHANGED <<world, task, eeprom, retained, system, timers, sensed, radio,
                 data, history>>

\* What a session leaves when it is closed.
Session == data' \in IF RecordSink THEN {data, MaxData} ELSE {data}

\* exit(): the session is closed.
RideExit ==
  /\ At("DEPLOYED", "exit")
  /\ Session
  /\ charger' = "started"
  /\ Switched
  /\ UNCHANGED <<world, eeprom, retained, system, water, sensed, radio, history>>

-----------------------------------------------------------------------------
(***************************************************************************)
(* DataUpload.                                                             *)
(***************************************************************************)

UploadInit ==
  /\ At("UPLOAD", "init")
  /\ Goto("connect")
  /\ UNCHANGED <<world, task, next, eeprom, retained, system, timers, sensed, radio,
                 data, history>>

\* can_upload() up to wait_connect(); without SF_CAN_UPLOAD run() does nothing.
can_upload ==
  /\ At("UPLOAD", "run")
  /\ \/ ~CanUpload /\ Leave("SLEEP")
     \/ CanUpload /\ data = 0 /\ Leave(IF hasCharger THEN "CHARGE" ELSE "SLEEP")
     \/ CanUpload /\ data > 0 /\ Goto("reconnect") /\ UNCHANGED next
  /\ UNCHANGED <<world, task, eeprom, retained, system, timers, sensed, radio,
                 data, history>>

\* The rest of can_upload(), where the battery may be too low, and one packet:
\* it cannot be read, cannot be sent, or is sent and removed.
Upload ==
  /\ pc = "upload"
  /\ IF status THEN Leave("DEPLOYED") /\ UNCHANGED data
     ELSE \/ Leave("SLEEP") /\ UNCHANGED data
          \/ Leave("CLI") /\ UNCHANGED data
          \/ /\ radio = "on"
             /\ data' = data - 1
             /\ Goto("run") /\ UNCHANGED next
  /\ UNCHANGED <<world, task, eeprom, retained, system, timers, sensed, radio,
                 history>>

-----------------------------------------------------------------------------
(***************************************************************************)
(* The CLI.  getline() gives up when systemFlags says that the charger is  *)
(* gone, and only the charger timer makes it say so.                       *)
(***************************************************************************)

\* Defect: the timer that sees the terminal go is not started.
CliInitUnwatched ==
  /\ At("CLI", "init")
  /\ charger' = "off"
  /\ Goto("connect")
  /\ UNCHANGED <<world, task, next, eeprom, retained, system, water, sensed, radio,
                 data, history>>

CliInit ==
  /\ At("CLI", "init")
  /\ charger' = "started"
  /\ Goto("connect")
  /\ UNCHANGED <<world, task, next, eeprom, retained, system, water, sensed, radio,
                 data, history>>

\* executeMenu() sees that the terminal is gone.
CliHangUp ==
  /\ pc = "menu" /\ ~hasCharger
  /\ Leave("SLEEP")
  /\ UNCHANGED <<world, task, eeprom, retained, system, timers, sensed, radio,
                 data, history>>

\* A line is typed, which takes a terminal.
Prompt == pc = "menu" /\ usb

\* The way out, to the state that CLI_setState or CLI_doSleep left in
\* CLI_nextState, or to the CHARGE of init().  Nothing else reads it.
CliQuit ==
  /\ Prompt
  /\ \E s \in States : Leave(s)
  /\ UNCHANGED <<world, task, eeprom, retained, system, timers, sensed, radio,
                 data, history>>

\* Defect: the flag is set before the behavior it vouches for.
SetBootBehaviorFlagFirst(b) ==
  /\ Prompt \/ pc = "setValid"
  /\ IF Prompt THEN valid' = TRUE /\ Goto("setValid") /\ UNCHANGED <<behavior, put>>
     ELSE behavior' = b /\ put' = b /\ Goto("menu") /\ UNCHANGED valid
  /\ UNCHANGED <<world, task, next, attempts, retained, system, timers, sensed, radio,
                 data, granted>>

\* SleepTask::setBootBehavior: two cells, and a reset may come in between.
setBootBehavior(b) ==
  /\ Prompt \/ pc = "setValid"
  /\ IF Prompt THEN behavior' = b /\ put' = b /\ Goto("setValid") /\ UNCHANGED valid
     ELSE valid' = TRUE /\ Goto("menu") /\ UNCHANGED <<behavior, put>>
  /\ UNCHANGED <<world, task, next, attempts, retained, system, timers, sensed, radio,
                 data, granted>>

\* sf::cloud::initialize_counter().
initialize_counter ==
  /\ Prompt
  /\ attempts' = 0
  /\ UNCHANGED <<world, pc, task, next, valid, behavior, retained, system, timers, sensed,
                 radio, data, history>>

CliConnect ==
  /\ Prompt
  /\ Goto("cliConnect")
  /\ UNCHANGED <<world, task, next, eeprom, retained, system, timers, sensed, radio,
                 data, history>>

CliDisconnect ==
  /\ Prompt
  /\ radio' \in {"off", radio}
  /\ UNCHANGED <<world, pc, task, next, eeprom, retained, system, timers, sensed,
                 data, history>>

\* CLI_restart.
CliRestart == Prompt /\ Reset("other")

\* "reinitialize system" of the debug menu.
CliReinit ==
  /\ Prompt
  /\ Goto("initTasks")
  /\ UNCHANGED <<world, task, next, eeprom, retained, system, timers, sensed, radio,
                 data, history>>

\* Commands that stop both timers: an ensemble takes a moment, the monitor of
\* the sensors and the BLE test last until a key is pressed.
StopTimers(command) ==
  /\ Prompt
  /\ charger' = "off" /\ water' = FALSE
  /\ Goto(command)
  /\ UNCHANGED <<world, task, next, eeprom, retained, system, sensed, radio,
                 data, history>>

\* Defect: a command leaves the charger timer stopped.
RestartWaterOnly ==
  /\ charger' = charger /\ water' = TRUE

RestartTimers ==
  /\ charger' = "started" /\ water' = TRUE

\* The ensemble is a session whose last packet is shown and removed.
EnsembleEnds ==
  /\ pc = "ensemble"
  /\ RestartTimers
  /\ Session \/ (data > 0 /\ data' = data - 1)
  /\ Goto("menu")
  /\ UNCHANGED <<world, task, next, eeprom, retained, system, sensed, radio, history>>

\* 'x' or 'q' is typed; the BLE test had a session open.
MonitorEnds ==
  /\ pc = "monitor" /\ usb
  /\ RestartTimers
  /\ Session
  /\ Goto("menu")
  /\ UNCHANGED <<world, task, next, eeprom, retained, system, sensed, radio, history>>

\* The recorder's test menu opens, closes, pops and formats.
CliRecorder ==
  /\ Prompt
  /\ data' \in 0 .. MaxData
  /\ UNCHANGED <<world, pc, task, next, eeprom, retained, system, timers, sensed, radio,
                 history>>

\* The monitors of the debug menu last until a key is pressed.
Watch ==
  /\ usb /\ pc \in {"menu", "watch"}
  /\ Goto(IF pc = "menu" THEN "watch" ELSE "menu")
  /\ UNCHANGED <<world, task, next, eeprom, retained, system, timers, sensed, radio,
                 data, history>>

\* MfgTest: the water sensor without its timer, ending dry, then the cloud.
MfgTest ==
  /\ Prompt
  /\ water' = FALSE
  /\ Goto("mfgWater")
  /\ UNCHANGED <<world, task, next, eeprom, retained, system, charger, sensed, radio,
                 data, history>>

MfgWaterEnds ==
  /\ pc = "mfgWater"
  /\ reading' \in BOOLEAN /\ status' \in BOOLEAN
  /\ water' = TRUE
  /\ attempts' = 0
  /\ Goto("mfgConnect")
  /\ UNCHANGED <<world, task, next, valid, behavior, retained, system, charger, hasCharger,
                 radio, data, history>>

\* cellular_test() waits for three minutes and for the time of the cloud, then
\* disconnects.
MfgSync ==
  /\ pc = "mfgSync"
  /\ radio' \in {"off", radio}
  /\ Goto("menu")
  /\ UNCHANGED <<world, task, next, eeprom, retained, system, timers, sensed,
                 data, history>>

-----------------------------------------------------------------------------
(***************************************************************************)
(* The timer thread and the world.                                         *)
(***************************************************************************)

\* SYS_chargerTask.  While systemDesc is being filled in, the LED it switches
\* may be a null pointer.
ChargerTask ==
  /\ charger # "off" /\ Running
  /\ \/ ~ready /\ Panic
     \/ /\ hasCharger' = usb
        /\ charger' = "ticked"
        /\ UNCHANGED <<world, pc, task, next, eeprom, retained, system, water, reading,
                       status, radio, data, history>>

\* SYS_waterTask.  It uses pWaterSensor, which InitTasks leaves null.
WaterTask ==
  /\ water /\ Running
  /\ \/ ~ready /\ Panic
     \/ /\ ready
        /\ reading' = wet
        /\ status' \in {status, wet}
        /\ UNCHANGED <<world, pc, task, next, eeprom, retained, system, timers, hasCharger,
                       radio, data, history>>

\* A window full of the same readings.
WaterSettles == WaterTask /\ status' = wet

Surroundings ==
  /\ usb' \in BOOLEAN /\ wet' \in BOOLEAN
  /\ UNCHANGED <<pc, task, next, eeprom, retained, system, timers, sensed, radio,
                 data, history>>

-----------------------------------------------------------------------------
(***************************************************************************)
(* The specification.                                                      *)
(***************************************************************************)

Boot == Setup \/ InitTasks \/ InitSensors \/ loadBootBehavior \/ initalizeTaskObjects
        \/ delayedInit

Sleep == SleepRefused \/ SleepPutBehavior \/ SleepPutValid \/ Deinit \/ FallAsleep

Charge == ChargeInit \/ ChargeRun

Ride == RideInit \/ RideStart \/ RideEnd \/ RideExit

DataUpload == UploadInit \/ can_upload \/ Upload

\* What the CLI does without the user.
Cli ==
  \/ CliInit \/ CliHangUp \/ MfgWaterEnds
  \/ \E b \in Behaviors : pc = "setValid" /\ setBootBehavior(b)
  \/ EnsembleEnds

Main == Boot \/ Sleep \/ Charge \/ Ride \/ DataUpload \/ Cli \/ CloudExit
        \/ wait_connect \/ Connected

User ==
  \/ ChargeConsole \/ CliQuit \/ CliConnect \/ CliDisconnect \/ CliRestart \/ CliReinit
  \/ initialize_counter \/ Watch \/ MfgTest
  \/ MonitorEnds \/ CliRecorder
  \/ \E b \in Behaviors : Prompt /\ setBootBehavior(b)
  \/ \E c \in {"ensemble", "monitor"} : StopTimers(c)

Next ==
  \/ Main \/ User
  \/ ConnectTimeout \/ RideTimeout \/ MfgSync \/ Wake
  \/ Network \/ ChargerTask \/ WaterTask \/ Surroundings \/ Crash

Spec == Init /\ [][Next]_vars

\* The main thread runs: a wait for the network or for the water ends, be it by
\* its timeout.  Timers that keep running fire.
\* Nothing is asked of the user, of the network or of the surroundings.
FairSpec ==
  /\ Spec
  /\ WF_vars(Main \/ ConnectTimeout \/ RideTimeout)
  /\ WF_vars(ChargerTask) /\ WF_vars(WaterSettles)

-----------------------------------------------------------------------------
(***************************************************************************)
(* Properties.                                                             *)
(***************************************************************************)

\* The type invariant.
TypeOK ==
  /\ usb \in BOOLEAN /\ wet \in BOOLEAN
  /\ pc \in {"setup", "locked", "initTasks", "initSensors", "load", "start", "delayedInit",
             "init", "run", "exit", "sleepValid", "deinit", "sleep", "hibernate", "timed",
             "off", "ride", "upload", "menu", "setValid", "ensemble", "monitor", "watch",
             "mfgWater", "mfgSync"} \cup ConnectPcs \cup WaitingPcs
  /\ task \in States /\ next \in States
  /\ valid \in BOOLEAN /\ behavior \in Behaviors /\ attempts \in 0 .. MaxAttempts + 1
  /\ panics \in 0 .. MaxPanics + 1 /\ reason \in {"none", "other", "panic"}
  /\ ready \in BOOLEAN /\ imu \in BOOLEAN
  /\ hasCharger \in BOOLEAN /\ charger \in {"off", "started", "ticked"} /\ water \in BOOLEAN
  /\ reading \in BOOLEAN /\ status \in BOOLEAN
  /\ radio \in {"off", "trying", "on"} /\ data \in 0 .. MaxData
  /\ put \in Behaviors /\ granted \in Behaviors

\* The two cells of the boot behavior (sleepTask.cpp) against resets: a boot
\* acts on a behavior only when it was put there after the boot before had
\* looked; whatever was cut short or left over, it acts as NORMAL.
ActsOnWhatWasPut == pc = "start" => behavior \in {NORMAL, granted}

\* A task that waits for the charger to go away, or for the water, has the
\* timer running that would tell it (chargeTask.cpp:55, rideTask.cpp:97,
\* conio.cpp's getline()), whichever tasks and commands stopped it before.
WaitersWatched ==
  /\ (At("CHARGE", "run") \/ pc = "menu") => charger # "off"
  /\ ((Task \in {"CHARGE", "DEPLOYED"} /\ pc = "run") \/ pc \in {"ride", "menu"}) => water

\* When the limit of sf_cloud.cpp is reached without a success, no task goes
\* on-line any more, over boots and sleeps, until a console command does.
Barred == attempts > MaxAttempts /\ radio = "off"
                /\ pc \notin {"cliConnect", "mfgWater"}
StaysBarred ==
  [][Barred => (Barred' \/ pc' \in {"cliConnect", "mfgWater"} \/ initialize_counter)]_vars

\* A command that lasts until a key is pressed, or until the cloud tells the
\* time: whatever CLI_NO_INPUT_TIMEOUT_MS was for, nothing ends it.
Held == pc \in {"monitor", "watch", "mfgSync"}

\* No more resets from outside.
Undisturbed == <>[][~(Crash /\ ~Asleep)]_vars

\* Off the charger and dry, the device ends up asleep, or in the boot loop of
\* setup(), unless a command holds it.
Battery == ~usb /\ ~wet
SleepsOnBattery ==
  <>[]Battery /\ Undisturbed => []<>(Asleep \/ pc = "locked" \/ Held)

\* On the charger and dry, with nobody at the console, charging goes on: the
\* charger is seen, even when hasCharger is stale from before.  With the limit
\* of sf_cloud.cpp reached it need not: ChargeTask and SleepTask then take turns
\* so fast that the charger timer, started and stopped every time, never fires.
Docked == usb /\ ~wet /\ attempts <= MaxAttempts /\ pc \notin {"menu", "ride"} /\ ~Held
Charges ==
  <>[]Docked /\ Undisturbed => <>[]((Task = "CHARGE" /\ hasCharger) \/ Asleep \/ pc = "locked")

=============================================================================
