# Verification of the Smartfin firmware

TLA+ models of `smartfin-fw3`, the firmware of a surfboard fin that measures
motion, temperature and position, streams ensembles over BLE, records them to
flash and uploads the recordings over a cellular link. The models are
translated from the source under `src/`; paths below are relative to the
repository.

Every module of the system carries, next to some definitions, a mutated one
whose name extends the original's and whose comment starts with `Defect`. They
are no part of the specification: each replaces the definition after it in a
copy of the module to show that the property named in `PROJECT.json`
("mutants") really depends on it.

## 1. The system

### Threads

Device OS runs with `SYSTEM_THREAD(ENABLED)`. What runs concurrently:

| Thread | Code | Shares |
|---|---|---|
| main (`SF_main`) | `setup`, `mainLoop` in `src/smartfin-fw3.ino`: `init`, `run`, `exit` of the current task | everything below |
| software timers | `SYS_waterTask` (1 s), `SYS_chargerTask` (0.5 s), `SFLed::doLEDs` | water sensor, `hasCharger`, LEDs |
| transport | `TransportService::transportLoop`, created by the first `init()`, never ends | four SPSC queues, packet builder, five atomic flags |
| IMU reader | `IMU::readLoop` | the I2C bus, the sensor's FIFO, the latest frame, two mutexes |
| BLE callbacks | connection and control events in `sf_ble.cpp` | atomic flags, the callback and its context, time synchronisation (mutex) |

A reset can come at any time: the battery empties, a panic resets the board, and
going to sleep ends in a reset.

### Components

| Component | State it keeps | Operations | Correct when | Module |
|---|---|---|---|---|
| SPSC queue (`ble/spsc_queue.hpp`) | buffer, `head_`, `tail_` | push, pop, empty | it is an atomic FIFO, slots never collide | `SpscQueue`, `BoundedFifo` |
| Transport service (`ble/high_rate_stream.*`, `ble/ble_packet_builder.*`) | four queues, the packet being built, flags | init, start, enqueue, stop, shutdown, service | order kept, nothing left behind, stop ends | `TransportService`, `StreamDelivery` |
| Recorder (`cellular/recorder.*`, `cellular/deploy.*`) | metadata header in memory and on flash, session files, packet buffer | openSession, putBytes, closeSession, setSessionTime, getLastPacket, popLastPacket, reformat | no record lost before it is published, whatever the crash | `Recorder` |
| Water sensor (`watersensor/*`) | ring of readings, rolling sum, status | takeReading, setWindowSize, resetArray, forceState | status follows the window, with hysteresis | `WaterSensor` |
| Scheduler (`deploy/scheduler.*`) | next time of each task | initializeScheduler, getNextTask | no priority inversion, no starvation | `Scheduler` |
| Main thread and task state machine (`smartfin-fw3.ino`) | current state, panic counter | setup, mainFunc, initalizeTaskObjects | always a task, no boot loop | `Device` |
| Ride, charge, sleep, upload tasks | start times, flags | init, run, exit | each is left when it should be, and waits only for what is watched | `Device`; ride also `TransportService`, `Scheduler` |
| Cloud connection (`cellular/sf_cloud.*`) | attempt counter in EEPROM | wait_connect, wait_disconnect | retries are bounded, across resets | `Device` |
| System and timers (`system.*`) | table of drivers, two timers, flags | initialise, deinitialise, timer callbacks | nothing is used before it is there | `Device`, `WaterSensor` |
| BLE link (`ble/sf_ble.*`) | connected, advertising, callback and context | startAdvertising, setConnectionCallback, events | no event reaches a frame that is gone, none is lost | `BleLink` |
| Time synchronisation (`ble/ble_live_stream.*`) | offset, sequence number, age | handleTimeSync, estimateUnixTime | dates are true, and given when they can be | `TimeSync` |
| Fault log (`cli/flog.*`) | ring of 64 entries in retained memory, counter and complement | AddError, DisplayLog, ClearLog | survives resets, entries not torn | `FaultLog` |
| IMU (`imu/newIMU.*`, its driver) | latest frame, flags, thread, selected bank | begin, end, getters, read_dmp_data | a frame is one frame, whatever else uses the bus | `Imu` |
| Temperature sensor (`temperature/*`) | – | getTemp | – | its use of the bus: `Imu` |
| NVRAM (`sys/NVRAM.*`) | EEPROM cells | get, put | size checked | three cells: `Device` |
| CLI, menus, manufacturing test, debug menus | input buffer | commands | – | the commands that change what others rely on are actions of the modules above |
| encodings, LEDs, other vendored drivers, PC build, host receiver | – | – | – | not modelled, section 6 |

The build switches of `product.hpp` matter: this build has `ENABLE_STREAM_SINK`
on, `ENABLE_RECORD_SINK` off and `SF_CAN_UPLOAD` off. The models keep the code
of both sinks and of the uploader, since the switches exist to be turned.

### How the components interact

    water timer -> WaterSensor status -> RideTask (starts and ends a session)
    RideTask -> Scheduler.getNextTask -> ensemble -> TransportService.enqueue...
    TransportService thread -> Recorder.putBytes, PacketBuilder -> SFBLE.notify
    DataUpload -> Recorder.getLastPacket -> publish -> Recorder.popLastPacket
    CLI -> WaterSensor.setWindowSize, Recorder (CLI_doEnsemble, recorder menu)
    charger timer -> hasCharger -> ChargeTask, CLI; water timer -> everyone who waits for it
    SleepTask -> BOOT_BEHAVIOR in EEPROM -> the next boot's start state
    BLE thread -> SFBLE callback -> BLE test of the CLI
    BLE thread -> TimeSync offset -> timestamps of ensembles
    IMU reader, temperature sensor, getters -> one I2C bus
    every thread -> fault log

Hard to test, and the reason for this project: two threads on the queues and on
the shutdown handshake; timer callbacks between two statements of the main
thread; a reset between two writes to flash, to EEPROM or to retained memory; a
scheduler whose choice is made from times that have moved by the end of the
measurement; a console command that stops the timers another task waits for; a
callback and its context loaded one after the other; two threads on one bus. `PROJECT.json`
("hazards") lists them line by line, with the properties that watch them.

## 2. The modules

### `BoundedFifo`, `SpscQueue`, `SpscQueueProofs`, `MCSpscQueue`

`BoundedFifo` is what a user of the queue may rely on: push appends unless the
queue is full, pop takes the oldest, each in one step. `SpscQueue` has one
action per access to a location the other thread writes: `PushTest` (load of
`tail_`), `PushWrite` (copy), `PushPublish` (store of `head_`), and likewise for
pop. The acquire/release pairs make each of these a step of an interleaving;
`NoSlotRace` states that the plain slot accesses are indeed ordered by them.
`ImplementsFifo` is the refinement, the queue being the published slots.

*Run `spsc_queue`*: four slots (so the indices wrap), three distinguishable
items, symmetric. Unbounded in time: indices are modulo the capacity, the state
space is finite without a bound. An element is copied in one step, since
`NoSlotRace` excludes a copy that overlaps another.

*Proved for every capacity and item set*: `TypeOK`, `NoSlotRace`, the inductive
invariant `IInv` and the refinement. `IInv` is needed because `NoSlotRace`
speaks of local copies of the indices: it adds that each thread's copy of its
own index is current, that the slot a push works on is free, and that published
slots hold items.

### `StreamDelivery`, `TransportService`, `TransportServiceProofs`, `MCTransportService`

The ride thread (`init`, `start`, `enqueue...`, `shutdown`, `stop`, and again)
against the transport thread (`transportLoop` around `serviceOnce`), at the
grain of their accesses to what they share. `init()` pops the queues and resets the builder
from the ride thread, while the transport thread, which is never joined, may still be inside
`serviceOnce()`: a queue proved for one consumer then has two. So the queues are here the
rings themselves, with buffer, head and tail; a pop is two steps of either thread (the load of
`tail_`, and the copy with the store of `tail_`), `finalize()` and `appendEnsemble()` are a
test and a store, and `reset()` is two steps. A push is one step, which `SpscQueue` justifies:
the thread that pushes is the one that may pop as well, but not at once. An item is its number
in its stream and its size; notifications succeed or fail at will, and `settled` counts an item
when it was sent, recorded or counted as dropped. The flush interval is a flag that may be
raised at any time. Left out: the drop counters, the bytes, and the low-rate flusher, which
nothing registers.

What happens when the two threads do meet is in the model: items are popped twice, `tail_` goes
back, a length is stored over a reset. `clash` remembers that they were in one queue, or in
the builder, at the same time. Merely being in `init()` and in `serviceOnce()` at once is no
clash, and most of the interleavings of the two are free of it. What holds of a clash is in
`TypeOK` and `CallsReturn`; what is excused by it is in the other properties by name.

*Run `transport`* (safety): up to 3 IMU records, 2 low-rate ensembles, 1 recorder payload
and 1 raw packet over any number of rides, queues of two, packets of five units, sizes such
that an item fits, fills a packet exactly or forces the previous one out, and a batch of
two, so that the batch limit bites. `TypeOK` holds through clashes: no index leaves its ring
and no packet its payload, whatever the two threads do to each other. `InOrder`, until there
is a clash: accepted items are partitioned into settled, in the packet or in hand, and in the
queue, in order and without duplicates. `NoDataMeansNoItem`, likewise: no flush
takes a packet with items for empty. `ImplementsDelivery`: the service is one of
`StreamDelivery`, which knows of no packets, batches, flushes or threads: items are accepted
in a ride and leave oldest first, but for those that `init()` takes out of the queues, even
while older ones are in a packet that the transport thread still works on. What is on its
way is, for the refinement, what is in the packet, what is in hand, and then what is in the
queue. `StreamDelivery` can only break in a reset, which is when the threads can
clash, and promises nothing after that. `InOrder`
alone does not exclude that an item of the queue is sent before the packet that older ones
wait in (`FitAlone`).

*Run `transport_live`*: `stop()` returns, and so does `init()`, although the queues that it
empties can fill up again under it when a clash moves `tail_` back; while the service runs
every accepted item is settled, unless there was a clash. Fairness: weak for the transport
thread (it is a thread that loops), for the passing of time and for the ride thread inside
`init`, `start` and `stop`; nothing makes it enqueue or end a ride. The poll of `stop()` gets
strong fairness: the flag it waits for may drop again in the next pass of the service, but the
service sleeps a millisecond after a pass that set it and the poll comes by every millisecond.

*Run `transport_drain`* (finding): the documented promise of `shutdown()`, "waits
until all work completes", fails. The last test of `serviceOnce` reads the
queues first and `stopRequested_` last; a record accepted and `stop()` called in
between make the service report idle with the record still queued.

*Proved for every capacity, payload size, batch and number of items*: `TypeOK`, `InOrder`,
`NoDataMeansNoItem`, and `ImplementsDelivery`, each at the grain of loads and stores and with
the exception of clashes that it states. The invariant (`IInv`) has two parts. One holds of
clashes too: a thread that is in a pop is where its program says, the builder's length is at
most the one that `appendEnsemble` has tested, so that what it stores fits, and two threads
in one place have been noted. The other holds until there is a clash: what a thread has
loaded of a queue or of the builder is still true when it stores (`Undisturbed`). The proof
that this is kept is where the second consumer matters: the other thread can only make it
false from inside the same queue or builder, and that is a clash. The refinement is proved
step by step from what each does to the line of items of a stream (`OnTheWay`): accepting
appends; a pop moves an item into the hand and an append into the packet, which leave the line
as it is; finalizing cuts off as many as the packet has; draining takes one out from behind
those.

### `Recorder`, `RecorderProofs`, `MCRecorder`

The recorder over its session files. An action ends at each call that reaches
the flash, so that `Crash` can come between any two. The metadata file is a
sequence of slots, the first the header; 32-bit offsets are modulo `Slots`, which is
the real 2^29. A record is a row of bytes that know to which record they belong,
so that splitting or mangling is visible. `recorded` and `published` are
history. Files are written when they are closed or synced. `reformat()` unlinks one
file at a time, in any order, and makes a new table at the end; `wiping` remembers
that one has begun and none has ended since. Opening a new data file may fail
(`OpenFails`), which leaves its entry in the table.
Of the recorder's test menu the pop of a packet that nobody published is left out: there the
operator gives data up on purpose.

*Run `recorder`*: two sessions, four records of one or two bytes in packets of
three, two crashes. That is enough for padded, full and partial last packets, for
a crash in each half of opening and of popping, and for a crash during the
recovery from a crash. No orphan file (`FilesListed`), no reuse of a session file
(`FreshSession`), whole records in every packet (`WholeRecords`), a packet on
flash stays until published (`KeptUntilPublished`), the counts agree
(`CountAgrees`), and a search for the last session ends (`SearchEnds`, under weak
fairness of the searching thread). `recorded` counts a packet when it is flushed;
what is still in the 768-byte buffer is lost in a crash by design. Deadlock is
not checked: a device whose `init()` failed, or that has used up the bounds,
really stops.

*Run `recorder_count`* (finding): `openLastSession` pops entries in a loop that
does not ask again whether any is left. When the only listed session has no file
or an empty one, `n_entries` is decremented below zero and saved.
`CountAgrees` excuses exactly those histories, with `underflow`. So do `FilesListed`
and `KeptUntilPublished`: three sessions later the count is back at one, and the next
pop truncates the table of all three, whose files and packets are then listed nowhere
(found with five sessions; with two, as in the run, it cannot happen).

*Proved for every packet size and any number of sessions, records, crashes and
reformats*: all five safety properties and `TypeOK`. The invariant of the table (`IInv`) relates
its three views: the count on flash is the number of entries, of which there are no
more than sessions (so that no 32-bit offset wraps); the header in memory is that on
flash while it is valid; the indices of all files are below the next one in both. That a
pop never cuts off a file's entry needs what a search remembers: its entry is the last
one, until that is popped, and by then its file is gone.

The invariant of the data files (`DataInv`, on top of the other) is what `WholeRecords`
and `KeptUntilPublished` need. An open session writes at the end of its file and at a
multiple of the packet size, so that every flush adds one packet and moves none; the buffer
holds whole records and no padding; all packets in the files were recorded; and what the
uploader holds is the last packet of the last entry's file until it is popped, so that the
pop removes a packet that was published. The lemmas about `Packets` say what
appending a packet, overwriting at the end and cutting the last one off do to the packets of a
file, for every length of file; they are stated without induction, by position.
`wiping` and `underflow` excuse in the proofs what they excuse in the properties.

Not modelled: other file-system calls that fail. What a write leaves that fails in the
middle is a matter of the file system, which the source does not describe.

### `WaterSensor`, `WaterSensorProofs`, `MCWaterSensor`

The ring, its rolling `uint8_t` sum and the hysteresis, with the timer thread
taking readings between any two statements of the main thread's window change
(CLI, timer running) or of the manufacturing test (timer stopped). A timer
callback is one step: the main thread does not preempt it.

*Run `water`*: a ring of five with windows 1, 4 and 6, of which the last is above the ring
and clamped, and the percentages of the code, so that truncation and both hysteresis bounds
are met and the window shrinks and grows; the state space is finite without further bounds.
*Run `water_sum`* (finding): a reading between two statements of the CLI's `resetArray`
leaves `array_sum` different from the sum of the window, and later it wraps to 255, which
counts as in water. `torn` marks that history; it is cleared by the next window change, and
the other properties hold outside it.

*Proved for every size of the ring, every set of windows and every pair of percentages*:
`TypeOK`, `SumUntorn`, `RingIsRecent`, `WindowDecides` and the action property
`ChangesWithCause`. `RingIsRecent` is not inductive as it stands, for two reasons. It says
nothing between two statements of the main thread: the invariant follows its program, and
knows what the statements already done have put to zero, as long as no reading came in
between (and that none can, in the test that stops the timer). And it speaks of the
samples counted only: the invariant adds that the rest of the window is dry, which the
rolling sum relies on when it takes a sample out that was never put in. `TypeOK`
needs none of this, and holds of torn histories too. `ChangesWithCause`
needs that comparing one truncated quotient with either percentage is exact enough (`Hysteresis`).

### `Scheduler`, `SchedulerProofs`, `MCScheduler`

`getNextTask()` in the loop of `RideTask::run`: pick, wait, measure. Before the loop,
`initializeScheduler()` gives each task the time at which its own `init()` is called, and the
rest of the start-up takes time; in the loop, `setSessionTime()` rewrites a file on flash once
the clock is valid, if it was not at the start (`SetSessionTime`, `SkipSessionTime`). How long
each takes is one of `Delays`, so that the first pick, and one later one, can find every task
overdue. A measurement takes any time from none to `maxDuration` and the wait overshoots by up
to `Slip`; the code bounds neither, so what the properties say of a ride holds of rides that
keep to their declared durations. Times are modulo `Word`.

*Run `scheduler`*: the table of `rideTask.cpp` (the firmware version once, the
IMU every 18 ms, the temperature every 100 ms), the first 0.6 seconds, one millisecond
of slip; start-up, each part of it, and the session time take nothing, 2 ms or 25 ms, of which
the last outlasts an interval of the IMU. The session time is set at any pick. 0.6 s is six
periods of the slowest task, in which delays and durations shift the two periodic tasks into
nearly all their phases. `NoInversion`,
`TasksOnTime`, `SearchSucceeds`, `Spaced`. The bounds of `TasksOnTime` (0, 1 and 3 ms) are the
least that hold: with one less of either of the last two TLC finds a task that is later. A task
counts as late from when start-up or the setting of the session time has ended, since nothing
can run in them. Deadlock is not checked: a ride ends, and nothing starts after the horizon.

*Proved for every table, every clock at boot, every delay and every slip, below the wrap of
the clock* (`TimeAssumption`): `NoTimeWraps`, `NoInversion`, `SearchSucceeds`, `Spaced`.
`TypeOK` is proved too, but says nothing of wraps, as times are taken modulo the word;
`NoTimeWraps` does: the completion time that tasks are compared by and the time a task is put
off to are the sums that arithmetic gives, and below UINT32_MAX. The invariant adds that every
time of the table is at most its interval ahead, which keeps the completion time from wrapping,
and that while a task is awaited the tasks of higher priority are due after its end; the
choice was made at the pick, and `NoInversion` speaks of the end of the
measurement.

*Proved for every table that carries a light load* (`LightLoad`): `TasksOnTime`. It is false
of a table that is too full, so it needs a condition on the numbers: an interval of a
periodic task holds its own measurement and the overshoot, and those of the periodic tasks above
another one hold the lateness of that one and what the tasks up to it take once; and `MaxLate`
allows the lateness that follows (`Lateness`). The table
of `rideTask.cpp` meets it (`LoadAssumption`, which TLC evaluates), so the condition is one
that the code's numbers satisfy and not one chosen for the proof; its bounds for that table
are 1, 3 and 8 ms, above the least ones that TLC finds. The argument: a task of
lower priority is never picked unless it is through before `i` is due, but for the
overshoot, so `i` can be held up only by the tasks above it; each of those, once it has run
while `i` waits, is due only after `i` must have been served, as its interval is long
enough; so each of them holds `i` up once, by the time until it is due itself and by its
measurement (`HeldUp`). The invariant (`Punctual`) allows a task that is behind one such delay
for every task above it that is out of its way by now. A backlog, in which all are due
together, needs no case of its own: whatever was due when start-up or the session time ended
counts from there (`Due`), so at that moment nothing is late and everything may be pending.

### `Device`, `DeviceProofs`, `MCDevice`

The whole device at the grain of its main thread: `pc` is where it is, `task` the current
state. `setup()` counts panics and stops the board after too many; `SYS_initSys` starts the
water timer before there is a water sensor (`InitTasks`, `InitSensors`); `loadBootBehavior` and
`initalizeTaskObjects` choose the first task; each task has its `init`, `run` and `exit`.
`SleepTask::init` writes the boot behaviour and its flag in two steps. `wait_connect` is the
phases `connect` and `connecting` of whoever called it. The values of its counter above the
limit are not told apart, but the 16 bits can turn over there, which gives all attempts back:
the console, which the limit does not stop, does that when it tries with the largest value. The
console's commands are actions when they stop timers, connect, wait, reset, or write EEPROM.
`ChargerTask` and `WaterTask` are the software timers, which fire between any two steps;
`Network`, `Surroundings` and `User` move at will, and `Crash` resets the device at any point,
keeping EEPROM and retained memory. The recorder is the number of packets it holds, the water
sensor a status that may follow a reading.

*Run `device`*: both build switches on, one attempt, one panic, one packet: each limit
is passed by one more step, and nothing else is counted. Resets, sleeps, dockings and
rides are not bounded. `ActsOnWhatWasPut` (no boot acts on a behaviour that was
interrupted or already acted on), `WaitersWatched` (the timer that ends a wait runs),
`StaysBarred` (past the limit of attempts nothing connects but a command, across
resets), and two liveness properties: `SleepsOnBattery` and `Charges`.

Fairness: the main thread makes progress, and a wait for the network or the water is
ended by its timeout; a timer that stays started fires; a water sensor that is read again
and again in the same surroundings reports them. Nothing is asked of the user, of the
network or of the surroundings; both properties are about surroundings that settle
(`<>[]`), and about a device whose resets from outside stop (`Undisturbed`), as one that
is reset for ever never gets anywhere. `Held` names the commands that only a
key ends: the device can stay awake in them until the battery is empty.

*Proved for all limits, amounts of data and switches*: `TypeOK`, `ActsOnWhatWasPut`,
`WaitersWatched`, `StaysBarred`. The invariant says in which phases of the main
thread each timer may be stopped and which task is current; that a behaviour the flag vouches
for, or is about to, was put by somebody; and that the panic counter is past its limit
only where nothing can panic.

### `BleLink`, `TimeSync`, `MCBle`, `BleProofs`

`BleLink` is `SFBLE` between the BLE thread and the main thread, one action per access to
a field they share. A BLE test of the console lends it a pointer into its own frame. A
store through the pointer of a test that has returned is harmless to the model unless
another test runs now, whose frame is then at the same place. `ContextCurrent`: the
callback of a connection does not run on the frame of a test that had returned before the
connection was reported. (A test that returns between the load and the call does leave it a
dead frame; nothing prevents that, and nothing promises that it cannot happen.)
`ShownAgrees`: no connection is lost on the way to the console.

`TimeSync` is the offset to the clock of the watch: messages are lost, late by up to
`Lag`, or numbered from one again by a watch that restarts; `millis()` is read, then the mutex
is taken, in the BLE thread and in the ride alike. `EstimateSound`: the date of an
ensemble is the time of the watch, late by no more than a message.
`DatedIffHeard`: there is a date exactly when the watch was heard in time. Their
exceptions are named in the comments, and are how the code behaves: after a wrap of
`millis()` the average mixes two turns for a while; a restarted watch is ignored until its
numbers pass the old ones; a message applied between the ride's reading of the clock and its
turn at the mutex makes the age negative, so the ensemble is not dated.

*Run `ble`*: three tests, six ticks to a turn of `millis()`, started at two phases so
that it wraps with and without a message before, an age limit of two, three
messages between restarts. The modules share no state; a behaviour is one of either.
Deadlock is not checked: the bounds end both.

*Proved*, of the composition by `BothSides` and `TypesHold` (a step of one is a stutter of
the other):

- `ContextCurrent` for any number of tests: the context is cleared before its test ends, and
  every event comes after the tests it counts.
- `ShownAgrees` for any number of tests and events. The invariant (`ReportInv`) says that
  a frame which is not stray either was reached by no call yet, and has shown nothing, or
  is reached by every event from then on, which is in the BLE thread, in the frame with its
  flag set, or shown; and that callback and context are set together but for
  the statements between the two stores.
- `EstimateSound` and `DatedIffHeard` for every clock, length of a turn, limit of age and
  delay: within a turn of `millis()` every offset is one constant less the delay of its
  message, so that the average is too; messages are applied in the order of the clock.
- `TypeOK`: an average of offsets stays between them.

### `FaultLog`, `Imu`, `MCImu`, `ImuProofs`

`FaultLog` is the ring in retained memory, one action per store or load of `FLOG_AddError` and
`FLOG_ClearLog`, the three fields of an entry included, in any number of threads and without a
lock, as in the code; a reset keeps the memory as it is at that point. `LogIsRecent`: a log
that is valid shows the last faults, whole and in order. Excused are logs that two threads have
written to at once (nothing protects them) and an oldest entry that was being overwritten when
the reset came.

`Imu` is `IMU::begin`, `readLoop` and `end`, the FIFO of the sensor, and the main thread
that uses the same bus for the temperature and for the sensor's registers. The driver's
bank selection, its cached bank, the two bytes of the FIFO count read apart, and the parts
of a DMP frame are steps. The values are left out: a unit in the FIFO says of
which frame and part it is, so that a mixture shows. `FrameWhole`: what is copied for the
getters is one whole frame, and the one after that copied last. Excused is what
follows a frame that was given up in the middle, since the code never looks for the next
header, and a clash on the bus of a user that takes no lock.

*Run `imu`*: a frame of two fields, the second optional and of two units; a FIFO of five
units, so that the next frame begins before one is read; a low byte of the count that
wraps at four; two threads, a log of two entries, four faults, so that the ring
wraps and a reset comes in each part of a call. Deadlock is not checked: the sensor
is put to sleep by `end()`, and the bounds end both.

*Proved of `FaultLog`, for every size of the ring and any number of threads*: `LogIsRecent`
and its types. While a log is not spoilt one thread at most is in `flog.cpp`, the console
apart that waits to clear it; from where that thread is follows what it has stored, that the
counter is one ahead of its complement only between the two stores, and that the entries
of the last faults are in the ring, but for the oldest while it is overwritten. A log
that is not valid is empty, and the main thread is about to initialise it: so a
boot that clears the log loses nothing that a reset had not. The types need another
argument, as they hold of overlapping calls too: each call adds at most one to the counter, so
the counter, and every value of it that a thread has read, is at most the calls begun less
those that have yet to add theirs.

*Proved of `Imu`, for every table of fields and every FIFO*: `TransfersUntorn`, which is what
`FrameWhole` asks of the bus. A thread in the middle of a transfer has Wire's transaction, and
the sensor has the bank selected that was asked for. The invariant (`BusInv`) says who holds
which lock; that no two users are on the bus (the locks give it for all but those
that `Clash` names); and that the bank the driver remembers is the one selected, but
while it is written.

*Proved of `Imu` on top of that*: its types, torn transfers and lost framing included, and
`FrameWhole`. The invariant (`FrameInv`) is about the stream of units that are read but not
yet copied, in the FIFO, or still to be written by the sensor: while framing is not lost it
is the rest of whole frames, one after the other, of consecutive numbers, the first of which
is the one after that copied last. What the reader has got is a prefix of the first frame
that ends where a part ends, and its list of parts to read is what follows; the count it has
read is never more than the FIFO holds, since it reads the high byte first and only it takes
units out. So a part that is there according to the count is there whole, and is of the
frame that the header was of. What a frame contains is an induction over the table of
fields, about `Joined`: the concatenation of parts grows part by part and has every unit of
every part. `BothSides` lifts the results to the composition that the run checks.

## 3. Findings

See `PROJECT.json` ("findings") for the lines: shutdown that does not drain
(`transport_drain`), the session count below zero (`recorder_count`) and the
torn reset of the water sensor (`water_sum`). Each is a run whose one property is
what a comment of the code says, and which TLC refutes.

Met on the way, without a run:

- The comment at `waterSensor.cpp:102-106` says a reset window of which 75 % are wet
  decides, but `> 75` needs one sample more.
- `newIMU.hpp:111-112` says that neither flag set means the sensor is still initialising; a
  `begin()` that failed leaves both unset too.
- `spsc_queue.hpp:24-26` says "safe only for one producer thread and one consumer thread".
  `init()` pops the queues while the transport thread may be in `serviceOnce()`, so there are
  two: `OneConsumer` states the sentence and is violated by a ride that ends with its item still
  queued, as in the first finding, and is followed by another ride. A stop that leaves work
  behind is what every `clash` begins with.
- EEPROM that was never written gives an attempt counter of 0xFFFF: such a device
  is barred from the cloud until the command that resets it, or until a connection that the
  console asks for counts it up to 0, whether it succeeds or not.
- With the attempts used up and the charger seen by an old `hasCharger`, `ChargeTask` and
  `SleepTask` take turns so fast that the charger timer, started and stopped each time,
  never fires (`Charges` excuses it with `Docked`).
- `isAdvertising()` ("true when advertising is active", `sf_ble.hpp:77`) is stored after
  the call that advertises, so a connection reported in between leaves it true; after a
  disconnection Device OS advertises again and it stays false.
- `tmpSensor::init()`, `stop()` and `IMU::dumpRegs()` use the bus without its lock (`Clash`).

## 4. What is proved and what is only checked

TLAPS checks every step of `SpscQueueProofs`, `TransportServiceProofs`, `SchedulerProofs`,
`RecorderProofs`, `WaterSensorProofs`, `DeviceProofs`, `BleProofs` and `ImuProofs`; the only
assumptions are the named `ASSUME`s on constants in the modules themselves and, for
`TasksOnTime`, `LightLoad`; TLC evaluates all in the runs. `PROJECT.json` ("theorems") lists
the results. Every inductive invariant was checked by TLC on the instance of its run before it
was proved, but for the part of `FrameInv` that says which frames the stream of units is made
of: it asks for the frames and their ends as functions, which TLC cannot enumerate.

Only model-checked:

- liveness (`CallsReturn`, `Settles`, `SearchEnds`, `SleepsOnBattery`, `Charges`), which is
  out of the prover's reach, as is ENABLED, on which fairness rests.

Every invariant, action property and refinement that a run checks of the code is also
proved. Two of them speak of recursive functions over a table, the time the first tasks take
(`Busy`) and the concatenation of the first parts (`Joined`). The library states
induction over an operator, which the provers cannot instantiate; these inductions are over
a set of numbers instead (`SetInduction`: a set that has zero and with each number the
next has all; it follows from the well-foundedness of `<`), and the set is the one of the
lengths for which the claim holds.

## 5. Plan

Done: `SpscQueue`, `TransportService`, `Recorder`, `WaterSensor`, `Scheduler`, `Device`,
`BleLink`, `TimeSync`, `FaultLog`, `Imu`, in this order, with the proofs above. What could
come next:

1. A bound on what is on its way in `StreamDelivery`, and the drop counters against it.
2. The wrap of the clock in `Scheduler`, which a board that never sleeps would reach.
3. File-system calls of the recorder that fail in the middle, given what the file system promises.

## 6. Not modelled

- File-system calls that fail, but for the open of a data file; contents of EEPROM other
  than the three cells of `Device`, and the check of sizes in `NVRAM::put`.
- The values of readings: conversions of the IMU, the temperature and the battery, the
  scaling of ensembles, all arithmetic on floats.
- Third-party code. The GPS libraries (`lib/gps-*`, `lib/tracker-edge`), a quarter of the
  implementation's lines, are switched off in this build (`SF_ENABLE_GPS` 0,
  `product.hpp:15`). Of the ICM-20948 driver only what `IMU` calls per frame is modelled;
  the rest is a table of register accesses, the image of the DMP and setters nobody calls.
  The codecs in `cellular/encoding` are pure functions of third parties.
- LEDs, whose state only shows; console commands that print or set a parameter of a
  sensor; the file browser, which can write and remove any file by hand.
- The PC build's stubs and the Python receiver, which keep no state of the protocol.

Together these are most of the repository's lines, which is why the map covers a minor
share of them although it covers nearly all control that the firmware itself decides.
