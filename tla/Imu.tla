-------------------------------- MODULE Imu --------------------------------
(***************************************************************************)
(* The inertial sensor: IMU (imu/newIMU.cpp) over the driver of the        *)
(* ICM-20948, the thread that reads the sensor's FIFO, the main thread     *)
(* that uses the same I2C bus, and the bus.                                *)
(*                                                                         *)
(* A transaction is open from beginTransmission() to the end of the        *)
(* transfer, and Wire holds one: a thread that begins another tears it.    *)
(* The users of the bus take Wire's lock, the mutex of the device, both or *)
(* neither.  The sensor has four banks of registers and the driver         *)
(* remembers the one it last asked for.                                    *)
(*                                                                         *)
(* A frame is a header, which says what follows, the fields it names in    *)
(* the order of FieldOrder (the second header is one of them) and a        *)
(* footer, each of a number of units.  The values are left out: a unit     *)
(* says which frame and part it is of.  The copy that readLoop() makes and *)
(* the getters of the DMP's values hold _data_mtx for all they do: the     *)
(* copy is one action, and the getters, which change nothing, are none.    *)
(*                                                                         *)
(* "Defect" marks a mutation of the definition after it.                   *)
(***************************************************************************)
EXTENDS Integers, Sequences

CONSTANTS
  FieldOrder,    (* the fields, in the order read_dmp_data() takes them       *)
  FieldSets,     (* the sets of fields a frame may have                       *)
  UnitsOf,       (* the units of a part of a frame                            *)
  Radix,         (* the counts that the low byte of the FIFO count can hold   *)
  FifoSize,      (* the units the FIFO of the sensor holds                    *)
  MaxFrames      (* bounds the frames                                         *)

Fields == {FieldOrder[i] : i \in DOMAIN FieldOrder}
Parts  == Fields \cup {"header", "footer"}
Banks  == {0, 2, 3}      (* bank 1 is used as bank 3 is: by dumpRegs() only     *)

\* A frame has a field at least, and no field is named as the header or the footer is.
ASSUME FrameAssumption ==
  /\ FieldOrder \in Seq(Fields) /\ Fields \cap {"header", "footer"} = {}
  /\ FieldSets \subseteq (SUBSET Fields) \ {{}}
  /\ UnitsOf \in [Parts -> Nat \ {0}]
  /\ Radix \in Nat \ {0} /\ FifoSize \in Nat \ {0} /\ MaxFrames \in Nat

VARIABLES
  fifo, sending, frames,   (* the sensor: its FIFO, the units of a frame that *)
                           (* are still to come, the frames begun             *)
  bank,                    (* the bank the sensor has selected                *)
  lastBank,                (* _last_bank                                      *)
  owner,                   (* the thread whose transaction Wire holds         *)
  deviceMtx, wireLock,     (* who holds them                                  *)
  readPc, want,            (* readLoop(): where it is, what it transfers      *)
  todo, got,               (* the parts of the frame to read, the units read  *)
  high, fifoCount,         (* the high byte of the count, and fifo_count      *)
  counted,                 (* the count has been read for this part           *)
  mainPc, mainOp,          (* the main thread                                 *)
  mainBanks,               (* the banks of the registers it has yet to read   *)
  readyFlag, errorFlag, stopFlag,
  fifoData,                (* fifo_data: the frame each field is of           *)
  framingLost,             (* the FIFO no longer begins with a header, or the *)
                           (* sensor is not in the bank asked for (history)   *)
  clashed                  (* a user without the lock has met another on the  *)
                           (* bus (history)                                   *)

imuSensor  == <<fifo, sending, frames>>
imuBus     == <<bank, lastBank, owner>>
imuLocks   == <<deviceMtx, wireLock>>
imuCall    == <<want, todo, got, high, fifoCount, counted>>
imuRead    == <<readPc, imuCall>>
imuMain    == <<mainPc, mainOp, mainBanks>>
imuFlags   == <<readyFlag, errorFlag, stopFlag>>
imuVars    == <<imuSensor, imuBus, imuLocks, imuRead, imuMain, imuFlags,
                fifoData, framingLost, clashed>>

Nobody == "nobody"
Other  == -1               \* no bank: the transfer is to the temperature sensor

Unit(n, fields, p) == [frame |-> n, fields |-> fields, part |-> p]

Garbage == Unit(0, {}, "header")

\* The sequences of s one after the other: Joined(s)[i] has the first i of them.
Joined(s) ==
  LET joined[i \in 0 .. Len(s)] == IF i = 0 THEN <<>> ELSE joined[i - 1] \o s[i]
  IN  joined

\* The parts of a frame after its header, all its parts, and their units.
Following(fields) ==
  LET named == [i \in 1 .. Len(FieldOrder) |->
                  IF FieldOrder[i] \in fields THEN <<FieldOrder[i]>> ELSE <<>>]
  IN  Append(Joined(named)[Len(FieldOrder)], "footer")

PartsOf(fields) == <<"header">> \o Following(fields)

UnitsIn(n, fields) ==
  [i \in 1 .. Len(PartsOf(fields)) |->
     [j \in 1 .. UnitsOf[PartsOf(fields)[i]] |-> Unit(n, fields, PartsOf(fields)[i])]]

FrameUnits(n, fields) == Joined(UnitsIn(n, fields))[Len(PartsOf(fields))]

InInit == readPc \in {"init", "initTransfer"}
InCall == readPc \in {"next", "open", "bank", "begin", "transfer"}
OnBus  == mainPc \in {"open", "bank", "begin", "transfer"}

\* The uses of the bus that nothing keeps apart: tmpSensor::init() and stop(), and
\* dumpRegs(), take no lock, and readLoop() initialises the DMP without Wire's.
Clash ==
  /\ OnBus
  /\ \/ mainOp \in {"tempInit", "dumpRegs"} /\ (InInit \/ InCall)
     \/ mainOp = "temp" /\ InInit

ImuInit ==
  /\ fifo = <<>> /\ sending = <<>> /\ frames = 0
  /\ bank = 0 /\ lastBank = 0 /\ owner = Nobody
  /\ deviceMtx = Nobody /\ wireLock = Nobody
  /\ readPc = "absent" /\ want = "high" /\ todo = <<>> /\ got = <<>>
  /\ high = 0 /\ fifoCount = 0 /\ counted = FALSE
  /\ mainPc = "start" /\ mainOp = "none" /\ mainBanks = <<>>
  /\ readyFlag = FALSE /\ errorFlag = FALSE /\ stopFlag = FALSE
  /\ fifoData = [f \in Fields |-> 0] /\ framingLost = FALSE /\ clashed = FALSE

-----------------------------------------------------------------------------
(***************************************************************************)
(* The sensor.                                                             *)
(***************************************************************************)

\* The DMP begins a frame.
FrameBegins ==
  /\ readyFlag /\ sending = <<>> /\ frames < MaxFrames
  /\ frames' = frames + 1
  /\ \E fields \in FieldSets : sending' = FrameUnits(frames', fields)
  /\ UNCHANGED <<fifo, imuBus, imuLocks, imuRead, imuMain, imuFlags, fifoData, framingLost>>

\* It writes a unit to the FIFO, which drops its oldest when it is full.
SensorWrites ==
  /\ sending # <<>>
  /\ sending' = Tail(sending)
  /\ IF Len(fifo) < FifoSize
     THEN fifo' = Append(fifo, Head(sending)) /\ UNCHANGED framingLost
     ELSE fifo' = Append(Tail(fifo), Head(sending)) /\ framingLost' = TRUE
  /\ UNCHANGED <<frames, imuBus, imuLocks, imuRead, imuMain, imuFlags, fifoData>>

-----------------------------------------------------------------------------
(***************************************************************************)
(* readLoop().                                                             *)
(***************************************************************************)

\* The mutex is taken, and initializeDMP() and what follows it configure the sensor
\* and load its firmware: many transactions, modelled as one.
InitLock ==
  /\ readPc = "initLock" /\ deviceMtx = Nobody
  /\ deviceMtx' = "reader" /\ readPc' = "init"
  /\ UNCHANGED <<imuSensor, imuBus, wireLock, imuCall, imuMain, imuFlags, fifoData, framingLost>>

InitBegin ==
  /\ readPc = "init"
  /\ owner' = "reader" /\ readPc' = "initTransfer"
  /\ UNCHANGED <<imuSensor, bank, lastBank, imuLocks, imuCall, imuMain, imuFlags, fifoData,
                 framingLost>>

\* It ends, and the thread with it if any part of it has failed.
InitEnd ==
  /\ readPc = "initTransfer"
  /\ owner' = Nobody /\ deviceMtx' = Nobody /\ bank' = 0 /\ lastBank' = 0
  /\ \/ readyFlag' = TRUE /\ readPc' = "loop" /\ UNCHANGED errorFlag
     \/ errorFlag' = TRUE /\ readPc' = "exited" /\ UNCHANGED readyFlag
  /\ UNCHANGED <<imuSensor, wireLock, imuCall, imuMain, stopFlag, fifoData, framingLost>>

Loop ==
  /\ readPc = "loop"
  /\ IF stopFlag
     THEN readPc' = "exited" /\ UNCHANGED deviceMtx
     ELSE deviceMtx = Nobody /\ deviceMtx' = "reader" /\ readPc' = "wire"
  /\ UNCHANGED <<imuSensor, imuBus, wireLock, imuCall, imuMain, imuFlags, fifoData, framingLost>>

\* WITH_LOCK(Wire): inv_icm20948_read_dmp_data() is called.
ReadCall ==
  /\ readPc = "wire" /\ wireLock = Nobody
  /\ wireLock' = "reader" /\ readPc' = "next"
  /\ todo' = <<"header">>
  /\ UNCHANGED <<imuSensor, imuBus, deviceMtx, want, got, high, fifoCount, counted, imuMain,
                 imuFlags, fifoData, framingLost>>

\* The call returns, its locals are gone, and dmpData has what it read.
ReadReturn(p) ==
  /\ readPc' = p /\ wireLock' = Nobody /\ deviceMtx' = Nobody
  /\ want' = "high" /\ todo' = <<>> /\ high' = 0 /\ fifoCount' = 0 /\ counted' = FALSE
  /\ got' = IF p = "copy" THEN got ELSE <<>>

\* The part that is next has arrived, as far as fifo_count says.
Enough == fifoCount >= UnitsOf[Head(todo)]

\* The next part: it is read, or the count is read (again), or there is not enough
\* and the call returns, with what it has read of the frame lost.
ReadNext ==
  /\ readPc = "next"
  /\ \/ /\ todo = <<>>
        /\ ReadReturn("copy") /\ UNCHANGED framingLost
     \/ /\ todo # <<>> /\ Enough
        /\ want' = "part" /\ readPc' = "open"
        /\ UNCHANGED <<imuLocks, todo, got, high, fifoCount, counted, framingLost>>
     \/ /\ todo # <<>> /\ ~Enough /\ ~counted
        /\ want' = "high" /\ counted' = TRUE /\ readPc' = "open"
        /\ UNCHANGED <<imuLocks, todo, got, high, fifoCount, framingLost>>
     \/ /\ todo # <<>> /\ ~Enough /\ counted
        /\ ReadReturn("loop")
        /\ framingLost' = (framingLost \/ got # <<>>)
  /\ UNCHANGED <<imuSensor, imuBus, imuMain, imuFlags, fifoData>>

\* ICM_20948_set_bank(0): the bank is remembered before it is written.
ReadOpen ==
  /\ readPc = "open"
  /\ IF lastBank = 0
     THEN readPc' = "transfer" /\ UNCHANGED lastBank
     ELSE readPc' = "bank" /\ lastBank' = 0
  /\ owner' = "reader"
  /\ UNCHANGED <<imuSensor, bank, imuLocks, imuCall, imuMain, imuFlags, fifoData, framingLost>>

\* The write ends.  Nobody looks at the result of endTransmission().
BankWritten(b) ==
  /\ owner' = Nobody
  /\ \/ bank' = b /\ UNCHANGED framingLost
     \/ bank # b /\ UNCHANGED bank /\ framingLost' = TRUE

ReadBank ==
  /\ readPc = "bank"
  /\ BankWritten(0) /\ readPc' = "begin"
  /\ UNCHANGED <<imuSensor, lastBank, imuLocks, imuCall, imuMain, imuFlags, fifoData>>

\* A transfer begins: the one after the write, and that of the count's low byte.
ReadBegin ==
  /\ readPc = "begin"
  /\ owner' = "reader" /\ readPc' = "transfer"
  /\ UNCHANGED <<imuSensor, bank, lastBank, imuLocks, imuCall, imuMain, imuFlags, fifoData,
                 framingLost>>

Torn == owner # "reader" \/ bank # 0

\* requestFrom() returns fewer bytes than were asked for: the call returns.
ReadFails ==
  /\ readPc = "transfer"
  /\ owner' = Nobody
  /\ ReadReturn("loop")
  /\ framingLost' = (framingLost \/ got # <<>> \/ want = "part")
  /\ UNCHANGED <<imuSensor, bank, lastBank, imuMain, imuFlags, fifoData>>

\* Defect: the low byte of the count is read before the high one.
CountLowFirst ==
  /\ \/ want = "high" /\ ~Torn /\ high' = Len(fifo) % Radix /\ UNCHANGED fifoCount
     \/ want = "low" /\ ~Torn
        /\ fifoCount' = (Len(fifo) \div Radix) * Radix + high /\ high' = 0
  /\ want' = "low" /\ readPc' = IF want = "high" THEN "begin" ELSE "next"
  /\ UNCHANGED <<imuSensor, todo, got, counted>>

\* ICM_20948_get_FIFO_count(): the two bytes of the count.
ReadCount ==
  /\ \/ want = "high" /\ ~Torn /\ high' = Len(fifo) \div Radix /\ UNCHANGED fifoCount
     \/ want = "high" /\ Torn /\ high' \in 0 .. FifoSize \div Radix /\ UNCHANGED fifoCount
     \/ want = "low" /\ ~Torn
        /\ fifoCount' = high * Radix + (Len(fifo) % Radix) /\ high' = 0
     \/ want = "low" /\ Torn
        /\ \E low \in 0 .. Radix - 1 : fifoCount' = high * Radix + low
        /\ high' = 0
  /\ want' = "low" /\ readPc' = IF want = "high" THEN "begin" ELSE "next"
  /\ UNCHANGED <<imuSensor, todo, got, counted>>

\* The fields that a unit read as a header names: any, when it is none.
NamedBy(u) ==
  IF u.part = "header" /\ u # Garbage THEN {u.fields} ELSE FieldSets

\* ICM_20948_read_FIFO(): the units of a part; past the end of the FIFO they are none.
ReadPart ==
  /\ want = "part"
  /\ LET n     == UnitsOf[Head(todo)]
         taken == IF Torn THEN 0 ELSE IF n < Len(fifo) THEN n ELSE Len(fifo)
         units == SubSeq(fifo, 1, taken) \o [i \in 1 .. n - taken |-> Garbage]
     IN  /\ fifo' = IF Torn THEN fifo ELSE SubSeq(fifo, taken + 1, Len(fifo))
         /\ got' = got \o units
         /\ fifoCount' = fifoCount - n
         /\ \/ Head(todo) # "header" /\ todo' = Tail(todo)
            \/ /\ Head(todo) = "header"
               /\ \E fields \in NamedBy(units[1]) : todo' = Following(fields)
  /\ counted' = FALSE /\ readPc' = "next"
  /\ UNCHANGED <<sending, frames, want, high>>

ReadTransfer ==
  /\ readPc = "transfer"
  /\ owner' = Nobody
  /\ ReadCount \/ ReadPart
  /\ UNCHANGED <<bank, lastBank, imuLocks, imuMain, imuFlags, fifoData, framingLost>>

\* The fields that the header names are copied, under _data_mtx.
Copy ==
  /\ readPc = "copy"
  /\ fifoData' = [f \in Fields |->
       LET read == {i \in 1 .. Len(got) : got[i].part = f}
       IN  IF f \in got[1].fields /\ read # {}
           THEN got[CHOOSE i \in read : \A j \in read : i <= j].frame
           ELSE fifoData[f]]
  /\ readPc' = "loop" /\ got' = <<>>
  /\ UNCHANGED <<imuSensor, imuBus, imuLocks, want, todo, high, fifoCount, counted, imuMain,
                 imuFlags, framingLost>>

-----------------------------------------------------------------------------
(***************************************************************************)
(* The main thread.                                                        *)
(***************************************************************************)

\* IMU::begin(): the sensor answers, and the thread is made; or it does not.
Begin ==
  /\ mainPc = "start" /\ mainPc' = "idle"
  /\ readPc' \in {"absent", "initLock"}
  /\ UNCHANGED <<imuSensor, imuBus, imuLocks, imuCall, mainOp, mainBanks, imuFlags, fifoData,
                 framingLost>>

\* Defect: tmpSensor::getTemp() does not take Wire's lock.
LockOfNoWire(op) == IF op = "agmt" THEN "device" ELSE "none"

\* The lock that an operation takes.
LockOf(op) ==
  CASE op = "temp" -> "wire" [] op = "agmt" -> "device" [] OTHER -> "none"

\* getTemp(), init() and stop() of the temperature sensor, the getters that read the
\* sensor itself, dumpRegs(): which registers each reads.
Calls ==
  {[op |-> "temp",     banks |-> <<Other>>],
   [op |-> "tempInit", banks |-> <<Other>>],
   [op |-> "agmt",     banks |-> <<0, 2>>],
   [op |-> "dumpRegs", banks |-> <<0, 2, 3>>]}

Call ==
  /\ mainPc = "idle"
  /\ \E c \in Calls :
       /\ c.op = "agmt" => ~errorFlag
       /\ mainOp' = c.op /\ mainBanks' = c.banks
  /\ mainPc' = "lock"
  /\ UNCHANGED <<imuSensor, imuBus, imuLocks, imuRead, imuFlags, fifoData, framingLost>>

MainLock ==
  /\ mainPc = "lock" /\ mainPc' = "open"
  /\ CASE LockOf(mainOp) = "wire"   -> /\ wireLock = Nobody /\ wireLock' = "main"
                                       /\ UNCHANGED deviceMtx
       [] LockOf(mainOp) = "device" -> /\ deviceMtx = Nobody /\ deviceMtx' = "main"
                                       /\ UNCHANGED wireLock
       [] LockOf(mainOp) = "none"   -> UNCHANGED imuLocks
  /\ UNCHANGED <<imuSensor, imuBus, imuRead, mainOp, mainBanks, imuFlags, fifoData, framingLost>>

MainOpen ==
  /\ mainPc = "open"
  /\ IF Head(mainBanks) \in {Other, lastBank}
     THEN mainPc' = "transfer" /\ UNCHANGED lastBank
     ELSE mainPc' = "bank" /\ lastBank' = Head(mainBanks)
  /\ owner' = "main"
  /\ UNCHANGED <<imuSensor, bank, imuLocks, imuRead, mainOp, mainBanks, imuFlags, fifoData,
                 framingLost>>

MainBank ==
  /\ mainPc = "bank"
  /\ BankWritten(Head(mainBanks)) /\ mainPc' = "begin"
  /\ UNCHANGED <<imuSensor, lastBank, imuLocks, imuRead, mainOp, mainBanks, imuFlags, fifoData>>

MainBegin ==
  /\ mainPc = "begin"
  /\ owner' = "main" /\ mainPc' = "transfer"
  /\ UNCHANGED <<imuSensor, bank, lastBank, imuLocks, imuRead, mainOp, mainBanks, imuFlags,
                 fifoData, framingLost>>

\* A register has been read, or not: getAGMT() goes on, dumpRegs() stops.
MainTransfer ==
  /\ mainPc = "transfer"
  /\ owner' = Nobody
  /\ \/ mainBanks' = Tail(mainBanks)
     \/ mainOp = "dumpRegs" /\ mainBanks' = <<>>
  /\ IF mainBanks' # <<>>
     THEN mainPc' = "open" /\ UNCHANGED <<imuLocks, mainOp>>
     ELSE /\ mainPc' = "idle" /\ mainOp' = "none"
          /\ deviceMtx' = IF deviceMtx = "main" THEN Nobody ELSE deviceMtx
          /\ wireLock' = IF wireLock = "main" THEN Nobody ELSE wireLock
  /\ UNCHANGED <<imuSensor, bank, lastBank, imuRead, imuFlags, fifoData, framingLost>>

\* IMU::end(): the thread is told to stop and joined.  Without one the join is of
\* a null pointer.
End ==
  /\ mainPc = "idle" /\ stopFlag' = TRUE
  /\ mainPc' = IF readPc = "absent" THEN "panicked" ELSE "join"
  /\ UNCHANGED <<imuSensor, imuBus, imuLocks, imuRead, mainOp, mainBanks, readyFlag, errorFlag,
                 fifoData, framingLost>>

Join ==
  /\ mainPc = "join" /\ readPc = "exited" /\ mainPc' = "asleep"
  /\ UNCHANGED <<imuSensor, imuBus, imuLocks, imuRead, mainOp, mainBanks, imuFlags, fifoData,
                 framingLost>>

-----------------------------------------------------------------------------

Sensor == FrameBegins \/ SensorWrites

Reader ==
  \/ InitLock \/ InitBegin \/ InitEnd \/ Loop \/ ReadCall \/ ReadNext \/ ReadOpen
  \/ ReadBank \/ ReadBegin \/ ReadFails \/ ReadTransfer \/ Copy

MainThread ==
  Begin \/ Call \/ MainLock \/ MainOpen \/ MainBank \/ MainBegin \/ MainTransfer \/ End \/ Join

\* A behavior ends when users of the bus have clashed: either may do anything then.
ImuNext ==
  /\ ~clashed
  /\ Sensor \/ Reader \/ MainThread
  /\ clashed' = (clashed \/ Clash')

ImuSpec == ImuInit /\ [][ImuNext]_imuVars

-----------------------------------------------------------------------------

Units == [frame : 0 .. MaxFrames, fields : SUBSET Fields, part : Parts]

ReadPcs == {"absent", "initLock", "init", "initTransfer", "loop", "wire", "next", "open",
            "bank", "begin", "transfer", "copy", "exited"}

MainPcs == {"start", "idle", "lock", "open", "bank", "begin", "transfer", "join", "asleep",
            "panicked"}

\* The type invariant.  The FIFO and fifo_count stay in their bounds.
ImuTypeOK ==
  /\ fifo \in Seq(Units) /\ Len(fifo) <= FifoSize /\ sending \in Seq(Units)
  /\ frames \in 0 .. MaxFrames
  /\ bank \in Banks /\ lastBank \in Banks /\ owner \in {"reader", "main", Nobody}
  /\ deviceMtx \in {"reader", "main", Nobody} /\ wireLock \in {"reader", "main", Nobody}
  /\ readPc \in ReadPcs /\ want \in {"high", "low", "part"}
  /\ todo \in Seq(Parts) /\ got \in Seq(Units)
  /\ high \in 0 .. FifoSize /\ fifoCount \in 0 .. FifoSize + Radix /\ counted \in BOOLEAN
  /\ mainPc \in MainPcs /\ mainOp \in {"none"} \cup {c.op : c \in Calls}
  /\ mainBanks \in Seq(Banks \cup {Other})
  /\ readyFlag \in BOOLEAN /\ errorFlag \in BOOLEAN /\ stopFlag \in BOOLEAN
  /\ fifoData \in [Fields -> 0 .. MaxFrames]
  /\ framingLost \in BOOLEAN /\ clashed \in BOOLEAN

\* What readLoop() copies to fifo_data (newIMU.cpp:176) is one frame, whole, and the
\* frame after the one it copied last, whatever the sensor adds meanwhile and the
\* main thread does on the bus.  Excused are the runs in which a frame was given up
\* in the middle, the FIFO ran over or a write was lost, after which nothing finds the
\* next header, and those in which a user without the lock met another on the bus.
FrameWhole ==
  [][(readPc = "copy" /\ readPc' # "copy" /\ ~framingLost /\ ~clashed)
       => \E n \in 1 .. MaxFrames, fields \in FieldSets :
            /\ got = FrameUnits(n, fields)
            /\ \E f \in Fields : fifoData[f] = n - 1
            /\ \A f \in Fields : fifoData[f] < n
            /\ fifoData' = [f \in Fields |-> IF f \in fields THEN n ELSE fifoData[f]]]_imuVars

=============================================================================
