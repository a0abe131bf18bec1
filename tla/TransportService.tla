-------------------------- MODULE TransportService --------------------------
(***************************************************************************)
(* TransportService (ble/high_rate_stream.cpp), its queues                 *)
(* (ble/spsc_queue.hpp) and its PacketBuilder (ble/ble_packet_builder.cpp):*)
(* the ride thread queues ensembles, one persistent transport thread       *)
(* drains the queues into the recorder, into BLE packets and into BLE      *)
(* notifications.                                                          *)
(*                                                                         *)
(* Both threads are modelled at the grain of their accesses to what they   *)
(* share.  init() pops the queues and resets the builder from the ride     *)
(* thread, while the transport thread may be inside serviceOnce(): a pop,  *)
(* finalize and appendEnsemble are therefore two steps each, their test    *)
(* and their store, and reset is two.  A push is one step, which SpscQueue *)
(* justifies: its thread is the one that may pop beside the transport      *)
(* thread, and not at the same time.  A disjunction or conjunction of      *)
(* loads is one step where reading them one by one could not tell a        *)
(* difference (its last load is monotone until the thread itself acts);    *)
(* the test at the end of serviceOnce is not of this kind and is split.    *)
(*                                                                         *)
(* An item is its number in its stream.  Its bytes, the packet header and  *)
(* the drop counters are left out; "settled" counts the items that left    *)
(* the service, be it to the radio, to the recorder or as a counted drop.  *)
(* "Defect" marks a mutation of the definition after it.                   *)
(***************************************************************************)
EXTENDS Integers, Sequences

CONSTANTS
  Capacity,    (* Capacity[s]: slots of stream s's ring, one of them unused *)
  Sizes,       (* Sizes[s]: the sizes an item of stream s can have          *)
  Payload,     (* MAX_PAYLOAD_SIZE                                          *)
  MaxBatch,    (* MAX_RECORD_BATCH                                          *)
  MaxItems     (* bound of the model: MaxItems[s] items accepted on s       *)

\* recordQueue_, lowRateQueue_, recorderQueue_ and txQueue_.
Stream == {"imu", "low", "rec", "tx"}

\* The streams whose items are packed into BLE packets.
Packed == {"imu", "low"}

Thread == {"ride", "worker"}

ASSUME StreamAssumption ==
  /\ Capacity \in [Stream -> Nat \ {0, 1}]
  /\ Sizes \in [Stream -> SUBSET (Nat \ {0})]
ASSUME PayloadAssumption ==
  /\ Payload \in Nat \ {0}
  /\ \A s \in Packed : \A n \in Sizes[s] : n <= Payload
ASSUME BoundAssumption == MaxBatch \in Nat \ {0} /\ MaxItems \in [Stream -> Nat]

VARIABLES
  initialized, running, stopRequested, accepting, idle,   (* the flags      *)
  buffer, head, tail,   (* of each queue: buffer_, head_ and tail_          *)
  packet,      (* packetBuilder_: the items in it, by stream, and its size  *)
  flushDue,    (* millis() - lastFlushMs_ >= LOW_RATE_FLUSH_INTERVAL_MS     *)
  ride,        (* where the ride thread is                                  *)
  worker,      (* where the transport thread is, and its local variables    *)
  pop,         (* pop[t]: the pop that thread t is in, and its local tail   *)
  accepted,    (* accepted[s]: items queued so far (history)                *)
  settled,     (* settled[s]: items that left the service (history)         *)
  clash        (* the threads were in one queue or in the builder at a time *)
               (* (history)                                                 *)

flags   == <<initialized, running, stopRequested, accepting, idle>>
rings   == <<buffer, head, tail>>
data    == <<rings, packet, flushDue, accepted, settled>>
vars    == <<flags, data, ride, worker, pop, clash>>

-----------------------------------------------------------------------------
(***************************************************************************)
(* SpscQueue.  Slot contents, indices and what they mean are as in the     *)
(* module of that name; here either thread can be the one that pops.       *)
(***************************************************************************)

Slot(s) == 0 .. Capacity[s] - 1

increment(s, idx) == (idx + 1) % Capacity[s]

empty(s) == head[s] = tail[s]
full(s)  == increment(s, head[s]) = tail[s]

AllEmpty == \A s \in Stream : empty(s)

size(s) == IF head[s] >= tail[s] THEN head[s] - tail[s]
           ELSE Capacity[s] - (tail[s] - head[s])

\* The slot of the item of stream s that i others precede.
SlotAt(s, i) == IF tail[s] + i < Capacity[s] THEN tail[s] + i ELSE tail[s] + i - Capacity[s]

\* The items waiting on stream s, oldest first.
queue == [s \in Stream |-> [i \in 1 .. size(s) |-> buffer[s][SlotAt(s, i - 1)]]]

push(s, item) ==
  /\ ~full(s)
  /\ buffer' = [buffer EXCEPT ![s][head[s]] = item]
  /\ head' = [head EXCEPT ![s] = increment(s, @)]
  /\ UNCHANGED tail

NoPop == [on |-> "none", tail |-> 0]

\* pop(): the load of tail_ and the test of head_.
PopBegin(t, s) ==
  /\ pop[t] = NoPop
  /\ ~empty(s)
  /\ pop' = [pop EXCEPT ![t] = [on |-> s, tail |-> tail[s]]]
  /\ UNCHANGED rings

\* What pop() copies out.  The copy is made with the store after it: the slot can
\* only be written in between when the other thread has popped the same queue.
Popped(t) == buffer[pop[t].on][pop[t].tail]

\* pop(): the store of tail_, from the tail_ that was loaded.
PopEnd(t, s) ==
  /\ pop[t].on = s
  /\ tail' = [tail EXCEPT ![s] = increment(s, pop[t].tail)]
  /\ pop' = [pop EXCEPT ![t] = NoPop]
  /\ UNCHANGED <<buffer, head>>

-----------------------------------------------------------------------------
(***************************************************************************)
(* PacketBuilder.                                                          *)
(***************************************************************************)

NoIds == [s \in Stream |-> << >>]
EmptyPacket == [ids |-> NoIds, used |-> 0]

hasData == packet.used # 0

\* Defect: the segment is compared with the whole payload.
canAppendWhole(p, len) == len # 0 /\ len <= Payload

canAppend(p, len) == len # 0 /\ len <= Payload - p.used

\* Defect: payloadLen is not advanced.
appendWithoutLength(p, item, n) ==
  [ids |-> [p.ids EXCEPT ![item.on] = Append(@, item.id)], used |-> n]

\* The store of appendEnsemble; n is the payloadLen it adds to.
appendEnsemble(p, item, n) ==
  [ids |-> [p.ids EXCEPT ![item.on] = Append(@, item.id)], used |-> n + item.size]

\* Items of stream s that leave when the packet p is finalized.
Carried(p, s) == Len(p.ids[s])

\* n[s] items of each stream s leave the service.  After a clash they are no
\* longer counted.
Settle(n) == settled' = IF clash THEN settled ELSE [s \in Stream |-> settled[s] + n[s]]

OneOf(s) == [t \in Stream |-> IF t = s THEN 1 ELSE 0]
InPacket == [s \in Stream |-> Carried(packet, s)]

-----------------------------------------------------------------------------

NoItem == [on |-> "none", id |-> 0, size |-> 0]

Init ==
  /\ initialized = FALSE /\ running = FALSE /\ stopRequested = FALSE
  /\ accepting = FALSE
  /\ idle = TRUE
  /\ buffer = [s \in Stream |-> [i \in Slot(s) |-> [id |-> 0, size |-> 0]]]
  /\ head = [s \in Stream |-> 0] /\ tail = [s \in Stream |-> 0]
  /\ packet = EmptyPacket
  /\ flushDue = FALSE
  /\ ride = "off"
  /\ worker = [pc |-> "none", progress |-> FALSE, batch |-> 0,
               item |-> NoItem, len |-> 0, then |-> "loop"]
  /\ pop = [t \in Thread |-> NoPop]
  /\ accepted = [s \in Stream |-> 0]
  /\ settled  = [s \in Stream |-> 0]
  /\ clash = FALSE

\* Both threads are in a pop of one queue, or both in an operation of the builder.
TwoConsumers(s) == pop["ride"].on = s /\ pop["worker"].on = s
TwoBuilders == ride = "wiping" /\ worker.pc \in {"add", "closing"}

NoteClash == clash' = (clash \/ TwoBuilders' \/ \E s \in Stream : TwoConsumers(s)')

-----------------------------------------------------------------------------
(***************************************************************************)
(* The ride thread: RideTask::init calls init() and start(), the ensembles *)
(* call enqueue..., RideTask::exit calls shutdown().                       *)
(***************************************************************************)

RideGoes(from, to) == ride = from /\ ride' = to

\* init(): the worker thread is created once; then reset(), first payloadLen.
InitReset ==
  /\ RideGoes("off", "wiping")
  /\ ~running
  /\ worker' = IF worker.pc = "none" THEN [worker EXCEPT !.pc = "loop"] ELSE worker
  /\ packet' = EmptyPacket
  /\ Settle(InPacket)
  /\ UNCHANGED <<flags, rings, flushDue, accepted, pop>>

\* reset() clears the bytes, whatever has been copied there since, and init()
\* the flags.
InitWipe ==
  /\ RideGoes("wiping", "tx")
  /\ packet' = [packet EXCEPT !.ids = NoIds]
  /\ flushDue' = FALSE
  /\ stopRequested' = FALSE /\ accepting' = FALSE /\ idle' = TRUE
  /\ UNCHANGED <<initialized, running, rings, accepted, settled, worker, pop>>

\* init() pops its way through the queues, one after the other.
DrainedNext == [tx |-> "rec", rec |-> "low", low |-> "imu", imu |-> "drained"]

InitPop(s) ==
  /\ ride = s
  /\ PopBegin("ride", s)
  /\ UNCHANGED <<flags, data, ride, worker>>

InitDrop(s) ==
  /\ PopEnd("ride", s)
  /\ Settle(OneOf(s))
  /\ UNCHANGED <<flags, packet, flushDue, accepted, ride, worker>>

InitNext(s) ==
  /\ RideGoes(s, DrainedNext[s])
  /\ pop["ride"] = NoPop /\ empty(s)
  /\ UNCHANGED <<flags, data, worker, pop>>

InitDone ==
  /\ RideGoes("drained", "ready")
  /\ initialized' = TRUE
  /\ UNCHANGED <<running, stopRequested, accepting, idle, data, worker, pop>>

\* start(): four stores, idle_ the last of them.
StartRunning ==
  /\ RideGoes("ready", "starting")
  /\ running' = TRUE
  /\ UNCHANGED <<initialized, stopRequested, accepting, idle, data, worker, pop>>

StartAccepting ==
  /\ RideGoes("starting", "started")
  /\ stopRequested' = FALSE /\ accepting' = TRUE
  /\ UNCHANGED <<initialized, running, idle, data, worker, pop>>

StartBusy ==
  /\ RideGoes("started", "riding")
  /\ idle' = FALSE
  /\ UNCHANGED <<initialized, running, stopRequested, accepting, data, worker, pop>>

\* enqueueImuRecord, enqueueLowRateEnsemble, enqueueRecorderPayload and
\* enqueueTxPacket.  A full queue refuses the item: no change.
Enqueue(s, len) ==
  /\ ride = "riding"
  /\ initialized /\ running /\ accepting
  /\ accepted[s] < MaxItems[s]
  /\ push(s, [id |-> accepted[s] + 1, size |-> len])
  /\ accepted' = [accepted EXCEPT ![s] = @ + 1]
  /\ UNCHANGED <<flags, packet, flushDue, settled, ride, worker, pop>>

\* shutdown() closes the gate, then calls stop(); no flusher is registered.
ShutdownGate ==
  /\ RideGoes("riding", "closing")
  /\ accepting' = FALSE
  /\ UNCHANGED <<initialized, running, stopRequested, idle, data, worker, pop>>

StopRequest ==
  /\ RideGoes("closing", "stopping")
  /\ stopRequested' = TRUE
  /\ UNCHANGED <<initialized, running, accepting, idle, data, worker, pop>>

StopRunning ==
  /\ RideGoes("stopping", "waiting")
  /\ running' = FALSE /\ accepting' = FALSE
  /\ UNCHANGED <<initialized, stopRequested, idle, data, worker, pop>>

\* The polling loop of stop() sees idle_; a poll that does not changes nothing.
StopSeesIdle ==
  /\ RideGoes("waiting", "stopped")
  /\ idle
  /\ UNCHANGED <<flags, data, worker, pop>>

StopReturn ==
  /\ RideGoes("stopped", "off")
  /\ stopRequested' = FALSE /\ accepting' = FALSE
  /\ UNCHANGED <<initialized, running, idle, data, worker, pop>>

Ride ==
  /\ \/ InitReset \/ InitWipe
     \/ (\E s \in Stream : InitPop(s) \/ InitDrop(s) \/ InitNext(s)) \/ InitDone
     \/ StartRunning \/ StartAccepting \/ StartBusy
     \/ \E s \in Stream : \E len \in Sizes[s] : Enqueue(s, len)
     \/ ShutdownGate \/ StopRequest \/ StopRunning \/ StopSeesIdle \/ StopReturn
  /\ NoteClash

-----------------------------------------------------------------------------
(***************************************************************************)
(* The transport thread: transportLoop() around serviceOnce().             *)
(***************************************************************************)

WorkerAt(pc) == worker.pc = pc
WorkerGoes(to) == worker' = [worker EXCEPT !.pc = to]

LoopTest ==
  /\ WorkerAt("loop")
  /\ running \/ stopRequested \/ ~AllEmpty
  /\ WorkerGoes("enter")
  /\ UNCHANGED <<flags, data, ride, pop>>

Enter ==
  /\ WorkerAt("enter")
  /\ IF initialized
     THEN /\ idle' = FALSE
          /\ worker' = [worker EXCEPT !.pc = "imu", !.progress = FALSE, !.batch = 0]
     ELSE WorkerGoes("loop") /\ UNCHANGED idle
  /\ UNCHANGED <<initialized, running, stopRequested, accepting, data, ride, pop>>

(***************************************************************************)
(* The four queues are served in turn: at most MaxBatch IMU records, then  *)
(* at most one item of each other queue.  The recorder is there:           *)
(* SYS_initFS sets pRecorder, unconditionally and before any task runs.    *)
(***************************************************************************)
StageAfter == [imu |-> "low", low |-> "rec", rec |-> "tx", tx |-> "again"]

\* Where serviceOnce goes on when an item of a packed stream is packed.
PackedNext == [imu |-> "imu", low |-> "rec"]

Take(s) ==
  /\ WorkerAt(s)
  /\ s = "imu" => worker.batch < MaxBatch
  /\ PopBegin("worker", s)
  /\ UNCHANGED <<flags, data, ride, worker>>

TakeNone(s) ==
  /\ WorkerAt(s)
  /\ pop["worker"] = NoPop
  /\ empty(s) \/ (s = "imu" /\ worker.batch = MaxBatch)
  /\ worker' = [worker EXCEPT !.pc = StageAfter[s], !.batch = 0]
  /\ UNCHANGED <<flags, data, ride, pop>>

\* A packed item is in the thread's hands until appendEnsemble has it.
Taken(s) ==
  /\ s \in Packed
  /\ PopEnd("worker", s)
  /\ worker' = [worker EXCEPT !.pc = "fit", !.progress = TRUE,
                              !.batch = IF s = "imu" THEN @ + 1 ELSE @,
                              !.item = [on |-> s, id |-> Popped("worker").id,
                                        size |-> Popped("worker").size]]
  /\ UNCHANGED <<flags, packet, flushDue, accepted, settled, ride>>

\* A recorder payload goes to putBytes, a ready packet to notifyTelemetry.
Served(s) ==
  /\ s \notin Packed
  /\ PopEnd("worker", s)
  /\ worker' = [worker EXCEPT !.pc = StageAfter[s], !.progress = TRUE]
  /\ Settle(OneOf(s))
  /\ UNCHANGED <<flags, packet, flushDue, accepted, ride>>

\* Defect: an item that does not fit goes in a packet of its own, before the one
\* that is being filled.
FitAlone ==
  /\ WorkerAt("fit")
  /\ IF canAppend(packet, worker.item.size)
     THEN WorkerGoes("append") /\ UNCHANGED settled
     ELSE /\ worker' = [worker EXCEPT !.pc = PackedNext[worker.item.on], !.item = NoItem]
          /\ Settle(OneOf(worker.item.on))
  /\ UNCHANGED <<flags, rings, packet, flushDue, accepted, ride, pop>>

\* A packet the item does not fit in is finalized before.
Fit ==
  /\ WorkerAt("fit")
  /\ worker' = IF canAppend(packet, worker.item.size) \/ ~hasData
               THEN [worker EXCEPT !.pc = "append"]
               ELSE [worker EXCEPT !.pc = "closing", !.then = "append"]
  /\ UNCHANGED <<flags, data, ride, pop>>

\* appendEnsemble: its test; an item it refuses is counted as dropped.
AppendBegin ==
  /\ WorkerAt("append")
  /\ IF canAppend(packet, worker.item.size)
     THEN /\ worker' = [worker EXCEPT !.pc = "add", !.len = packet.used]
          /\ UNCHANGED settled
     ELSE /\ worker' = [worker EXCEPT !.pc = PackedNext[worker.item.on], !.item = NoItem]
          /\ Settle(OneOf(worker.item.on))
  /\ UNCHANGED <<flags, rings, packet, flushDue, accepted, ride, pop>>

\* appendEnsemble: the copy and the store of payloadLen, from the value of the test
\* or, as the compiler likes, from a new load.
AppendEnd ==
  /\ WorkerAt("add")
  /\ \E n \in {packet.used, worker.len} : packet' = appendEnsemble(packet, worker.item, n)
  /\ worker' = [worker EXCEPT !.pc = "full", !.item = NoItem, !.len = 0,
                              !.then = PackedNext[worker.item.on]]
  /\ UNCHANGED <<flags, rings, flushDue, accepted, settled, ride, pop>>

\* A packet that is full is finalized after.
Full ==
  /\ WorkerAt("full")
  /\ WorkerGoes(IF packet.used = Payload THEN "closing" ELSE worker.then)
  /\ UNCHANGED <<flags, data, ride, pop>>

\* Whether a finalized packet restarts the flush interval: always after an IMU
\* record filled it, and otherwise, except before an IMU record and in the last
\* flush of all, when its notification succeeds.
FlushDueAfter ==
  CASE worker.then = "imu" -> {FALSE}
    [] worker.then = "quiet" \/ worker.item.on = "imu" -> {flushDue}
    [] OTHER -> {flushDue, FALSE}

CloseNoReset ==   \* Defect: the builder is not reset.
  /\ WorkerAt("closing")
  /\ packet' = packet
  /\ Settle(InPacket)
  /\ flushDue' \in FlushDueAfter
  /\ worker' = [worker EXCEPT !.pc = worker.then, !.then = "loop"]
  /\ UNCHANGED <<flags, rings, accepted, ride, pop>>

\* finalize, after its test: the packet goes to notifyTelemetry or is counted as
\* dropped, and the builder is reset.
Close ==
  /\ WorkerAt("closing")
  /\ packet' = EmptyPacket
  /\ Settle(InPacket)
  /\ flushDue' \in FlushDueAfter
  /\ worker' = [worker EXCEPT !.pc = worker.then, !.then = "loop"]
  /\ UNCHANGED <<flags, rings, accepted, ride, pop>>

RoundTest ==
  /\ WorkerAt("again")
  /\ worker' = IF worker.progress /\ (stopRequested \/ ~AllEmpty)
               THEN [worker EXCEPT !.pc = "imu", !.progress = FALSE]
               ELSE [worker EXCEPT !.pc = "flush"]
  /\ UNCHANGED <<flags, data, ride, pop>>

\* The flush of a packet that waited for the flush interval.
\* Defect: the flush waits for a stop request.
PeriodicFlushAtStop ==
  /\ WorkerAt("flush")
  /\ worker' = IF hasData /\ flushDue /\ stopRequested
               THEN [worker EXCEPT !.pc = "closing", !.then = "final"]
               ELSE [worker EXCEPT !.pc = "final"]
  /\ UNCHANGED <<flags, data, ride, pop>>

PeriodicFlush ==
  /\ WorkerAt("flush")
  /\ worker' = IF hasData /\ flushDue
               THEN [worker EXCEPT !.pc = "closing", !.then = "final"]
               ELSE [worker EXCEPT !.pc = "final"]
  /\ UNCHANGED <<flags, data, ride, pop>>

FinalFlush ==
  /\ WorkerAt("final")
  /\ worker' = IF stopRequested /\ AllEmpty /\ hasData
               THEN [worker EXCEPT !.pc = "closing", !.then = "quiet"]
               ELSE [worker EXCEPT !.pc = "quiet"]
  /\ UNCHANGED <<flags, data, ride, pop>>

\* "all queues empty && no data && stopRequested": the queues are looked at
\* first, stop_requested_ last, and then idle_ is stored.
QuietTest ==
  /\ WorkerAt("quiet")
  /\ WorkerGoes(IF AllEmpty /\ ~hasData THEN "ask" ELSE "loop")
  /\ UNCHANGED <<flags, data, ride, pop>>

\* Defect: the worker rests only while the service is still running.
StopTestRunning ==
  /\ WorkerAt("ask")
  /\ WorkerGoes(IF stopRequested /\ running THEN "rest" ELSE "loop")
  /\ UNCHANGED <<flags, data, ride, pop>>

StopTest ==
  /\ WorkerAt("ask")
  /\ WorkerGoes(IF stopRequested THEN "rest" ELSE "loop")
  /\ UNCHANGED <<flags, data, ride, pop>>

Rest ==
  /\ WorkerAt("rest")
  /\ idle' = TRUE
  /\ WorkerGoes("loop")
  /\ UNCHANGED <<initialized, running, stopRequested, accepting, data, ride, pop>>

Worker ==
  /\ \/ LoopTest \/ Enter
     \/ \E s \in Stream : Take(s) \/ TakeNone(s) \/ Taken(s) \/ Served(s)
     \/ Fit \/ AppendBegin \/ AppendEnd \/ Full \/ Close
     \/ RoundTest \/ PeriodicFlush \/ FinalFlush \/ QuietTest \/ StopTest \/ Rest
  /\ NoteClash

\* The flush interval elapses.
Tick ==
  /\ ~flushDue
  /\ flushDue' = TRUE
  /\ UNCHANGED <<flags, rings, packet, accepted, settled, ride, worker, pop, clash>>

Next == Ride \/ Worker \/ Tick

Spec == Init /\ [][Next]_vars

(***************************************************************************)
(* Fairness.  The transport thread is scheduled again and again, time      *)
(* passes, and the ride thread, once in init(), start() or stop(), goes on *)
(* to its end.  Nothing forces it to enqueue or to end a ride.  The poll   *)
(* in stop() gets strong fairness: the worker sleeps a millisecond after   *)
(* every pass that ended with idle_ set, and the poll comes by every       *)
(* millisecond, so it cannot miss the flag for ever.                       *)
(***************************************************************************)
RideGoesOn ==
  /\ \/ InitWipe \/ (\E s \in Stream : InitPop(s) \/ InitDrop(s) \/ InitNext(s)) \/ InitDone
     \/ StartRunning \/ StartAccepting \/ StartBusy
     \/ StopRequest \/ StopRunning \/ StopReturn
  /\ NoteClash

FairSpec ==
  /\ Spec
  /\ WF_vars(Worker) /\ WF_vars(Tick) /\ WF_vars(RideGoesOn)
  /\ SF_vars(StopSeesIdle /\ NoteClash)

-----------------------------------------------------------------------------
(***************************************************************************)
(* Properties.                                                             *)
(***************************************************************************)

\* The type invariant.  It also holds after a clash: whatever the two consumers do
\* to each other, no index leaves its ring, and no packet exceeds MAX_PAYLOAD_SIZE,
\* although a reset may fall between the test of appendEnsemble and its store.
TypeOK ==
  /\ initialized \in BOOLEAN /\ running \in BOOLEAN /\ stopRequested \in BOOLEAN
  /\ accepting \in BOOLEAN /\ idle \in BOOLEAN /\ flushDue \in BOOLEAN
  /\ clash \in BOOLEAN
  /\ DOMAIN buffer = Stream
  /\ \A s \in Stream : buffer[s] \in [Slot(s) -> [id : Nat, size : Nat]]
  /\ head \in [Stream -> Nat] /\ tail \in [Stream -> Nat]
  /\ \A s \in Stream : head[s] \in Slot(s) /\ tail[s] \in Slot(s)
  /\ packet \in [ids : [Stream -> Seq(Nat)], used : 0 .. Payload]
  /\ ride \in {"off", "wiping", "drained", "ready", "starting", "started", "riding",
               "closing", "stopping", "waiting", "stopped"} \union Stream
  /\ worker \in [pc : {"none", "loop", "enter", "fit", "append", "add", "full", "closing",
                      "again", "flush", "final", "quiet", "ask", "rest"} \union Stream,
                progress : BOOLEAN, batch : 0 .. MaxBatch,
                item : [on : Stream \union {"none"}, id : Nat, size : Nat],
                len : 0 .. Payload,
                then : {"loop", "append", "imu", "rec", "final", "quiet"}]
  /\ pop \in [Thread -> [on : Stream \union {"none"}, tail : Nat]]
  /\ \A t \in Thread : pop[t].on # "none" => pop[t].tail \in Slot(pop[t].on)
  /\ accepted \in [Stream -> Nat]
  /\ settled \in [Stream -> Nat]

\* The items of stream s that the transport thread has: those in the packet and the
\* one in its hands.
Held(s) == IF worker.item.on = s THEN Append(packet.ids[s], worker.item.id) ELSE packet.ids[s]

\* On each stream none of the items accepted by enqueue... is duplicated or lost
\* track of, and those in the service stand in the order of their acceptance: the
\* queue holds the latest ones without a gap, the transport thread has earlier ones
\* in increasing order, and those plus the settled ones are all there are.  (There
\* can be a gap: init() may throw away what a previous ride left in a queue while
\* the transport thread is still working on it.)  All this as long as the two
\* threads were never in one queue, or in the builder, at the same time; that they
\* overlap in init() and serviceOnce() does no harm by itself.
Ordered(has, waiting, nAccepted, nSettled) ==
  LET taken == nAccepted - Len(waiting)
  IN  /\ nSettled + Len(has) = taken
      /\ \A i \in 1 .. Len(waiting) : waiting[i].id = taken + i
      /\ \A i \in 1 .. Len(has) : has[i] <= taken
      /\ \A i, k \in 1 .. Len(has) : i < k => has[i] < has[k]

InOrder ==
  ~clash => \A s \in Stream : Ordered(Held(s), queue[s], accepted[s], settled[s])

\* The builder says "no data" exactly when it carries no item, so that no item
\* can be left in a packet the flushes of serviceOnce take for empty.
NoDataMeansNoItem == ~clash => (hasData <=> \E s \in Packed : packet.ids[s] # << >>)

\* What the ride sees of the service: on each stream the packed items, the one in
\* hand and then the queued ones are on their way; items are accepted while the ride
\* enqueues, and leave oldest first but for those that init() drains from a queue.
\* It sees this until there is a clash.
Ids(q) == [i \in 1 .. Len(q) |-> q[i].id]

OnTheWay == [s \in Stream |-> Held(s) \o Ids(queue[s])]

Phase ==
  CASE ride \in {"wiping", "drained"} \union Stream -> "resetting"
    [] ride = "riding" -> "open"
    [] OTHER -> "closed"

Delivery == INSTANCE StreamDelivery WITH phase <- Phase, pending <- OnTheWay, broken <- clash
ImplementsDelivery == Delivery!Spec

\* stop() comes to its end, the ride thread does not hang in its polling loop; and so
\* does init(), although the queues it empties can fill up again under it when the
\* transport thread moves tail_ back.
CallsReturn == (ride = "closing" ~> ride = "off") /\ (ride = "wiping" ~> ride = "riding")

\* While the service runs, an accepted item does not stay: it is sent,
\* recorded or dropped, the low-rate ones at the latest by the periodic flush.
Settles ==
  \A s \in Stream : \A n \in 1 .. MaxItems[s] :
    accepted[s] >= n ~> settled[s] >= n \/ ~running \/ clash

\* What high_rate_stream.hpp:42 says of shutdown(): "Flush, drain, and stop
\* transport; waits until all work completes."  When stop() returns nothing is
\* left in a queue or in the packet.
ShutdownDrains == ride = "stopped" => AllEmpty /\ ~hasData

\* What spsc_queue.hpp:24-26 asks of its users: "safe only for one producer thread
\* and one consumer thread".  The two threads are never in a pop of the same queue.
OneConsumer == \A s \in Stream : ~TwoConsumers(s)

-----------------------------------------------------------------------------
(***************************************************************************)
(* The inductive invariant behind TypeOK, InOrder and NoDataMeansNoItem.   *)
(* TransportServiceProofs shows that every step keeps it.                  *)
(***************************************************************************)

\* A pop is where its thread is, and within the batch.
PopsMatch ==
  /\ \A s \in Stream : /\ pop["ride"].on = s => ride = s
                       /\ pop["worker"].on = s => worker.pc = s
  /\ pop["worker"].on = "imu" => worker.batch < MaxBatch

Carrying == \/ worker.pc \in {"fit", "append", "add"}
            \/ worker.pc = "closing" /\ worker.then = "append"

HandMatches ==
  /\ IF Carrying THEN worker.item.on \in Packed ELSE worker.item = NoItem
  /\ worker.pc = "full" => worker.then # "append"

\* What is packed fits in a packet, and what is being added fits behind the rest:
\* the length appendEnsemble has tested can be too large by now, never too small.
SizesFit ==
  /\ \A s \in Packed : \A i \in Slot(s) : buffer[s][i].size <= Payload
  /\ worker.item.size <= Payload
  /\ worker.pc = "add" => /\ packet.used <= worker.len
                          /\ worker.len + worker.item.size <= Payload

ClashNoted == TwoBuilders \/ (\E s \in Stream : TwoConsumers(s)) => clash

\* What a thread has read stays true while it has the queue or the builder to itself.
Undisturbed ==
  /\ worker.pc = "add" => worker.len = packet.used
  /\ worker.pc = "append" => packet.used + worker.item.size <= Payload
  /\ ride = "wiping" => packet = EmptyPacket
  /\ \A t \in Thread, s \in Stream : pop[t].on = s => pop[t].tail = tail[s] /\ ~empty(s)

\* Items have a size, and only packed streams have items in the packet.
SizesKept ==
  /\ \A s \in Stream : \A i \in 1 .. Len(queue[s]) : queue[s][i].size \in Sizes[s]
  /\ worker.item.on # "none" => worker.item.size # 0
  /\ \A s \in Stream \ Packed : packet.ids[s] = << >>

IInv ==
  /\ TypeOK /\ PopsMatch /\ HandMatches /\ SizesFit /\ ClashNoted
  /\ ~clash => Undisturbed /\ SizesKept
  /\ InOrder /\ NoDataMeansNoItem

=============================================================================
