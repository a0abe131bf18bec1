----------------------- MODULE TransportServiceProofs -----------------------
(***************************************************************************)
(* Proofs about TransportService, for every capacity, item size, payload   *)
(* and batch limit.                                                        *)
(***************************************************************************)
EXTENDS TransportService, TLAPS

LEMMA StreamFacts ==
  /\ "imu" \in Stream /\ "low" \in Stream /\ "rec" \in Stream /\ "tx" \in Stream
  /\ "imu" \in Packed /\ "low" \in Packed /\ "rec" \notin Packed /\ "tx" \notin Packed
  /\ Packed \subseteq Stream /\ "none" \notin Stream
BY DEF Stream, Packed

LEMMA CapacityFacts == \A s \in Stream : Capacity[s] \in Nat /\ Capacity[s] > 1
BY StreamAssumption

Item == [id : Nat, size : Nat]

LEMMA EmptyPacketFacts ==
  /\ EmptyPacket \in [ids : [Stream -> Seq(Nat)], used : 0 .. Payload]
  /\ EmptyPacket.used = 0
  /\ \A s \in Stream : EmptyPacket.ids[s] = << >>
BY PayloadAssumption DEF EmptyPacket, NoIds

-----------------------------------------------------------------------------
(***************************************************************************)
(* The rings: what is between tail_ and head_ is a sequence, to which push *)
(* and pop do what they should.                                            *)
(***************************************************************************)
LEMMA RingType ==
  ASSUME TypeOK, NEW s \in Stream
  PROVE  buffer[s] \in [Slot(s) -> Item] /\ head[s] \in Slot(s) /\ tail[s] \in Slot(s)
BY DEF TypeOK, Item

LEMMA IncrementWraps ==
  ASSUME NEW s \in Stream, NEW i \in Slot(s)
  PROVE  /\ increment(s, i) = IF i = Capacity[s] - 1 THEN 0 ELSE i + 1
         /\ increment(s, i) \in Slot(s)
<1>1. CASE i = Capacity[s] - 1
  BY <1>1, CapacityFacts DEF increment, Slot
<1>2. CASE i < Capacity[s] - 1
  BY <1>2, CapacityFacts DEF increment, Slot
<1>. QED  BY <1>1, <1>2, CapacityFacts DEF Slot

LEMMA RingSize ==
  ASSUME NEW s \in Stream, head[s] \in Slot(s), tail[s] \in Slot(s)
  PROVE  /\ size(s) \in 0 .. Capacity[s] - 1
         /\ size(s) = 0 <=> empty(s)
         /\ size(s) = Capacity[s] - 1 <=> full(s)
BY CapacityFacts, IncrementWraps DEF Slot, size, empty, full

LEMMA RingSlots ==
  ASSUME NEW s \in Stream, head[s] \in Slot(s), tail[s] \in Slot(s)
  PROVE  /\ \A i \in 0 .. Capacity[s] - 2 : SlotAt(s, i) \in Slot(s)
         /\ \A i \in 0 .. Capacity[s] - 2 : i < size(s) => SlotAt(s, i) # head[s]
         /\ SlotAt(s, 0) = tail[s] /\ SlotAt(s, size(s)) = head[s]
BY CapacityFacts DEF Slot, size, SlotAt

LEMMA RingGrows ==
  ASSUME NEW s \in Stream, head[s] \in Slot(s), tail[s] \in Slot(s), ~full(s),
         head'[s] = increment(s, head[s]), tail'[s] = tail[s]
  PROVE  /\ size(s)' = size(s) + 1
         /\ \A i \in 0 .. Capacity[s] - 2 : SlotAt(s, i)' = SlotAt(s, i)
BY CapacityFacts, IncrementWraps DEF Slot, size, full, SlotAt

LEMMA RingShrinks ==
  ASSUME NEW s \in Stream, head[s] \in Slot(s), tail[s] \in Slot(s), ~empty(s),
         tail'[s] = increment(s, tail[s]), head'[s] = head[s]
  PROVE  /\ size(s)' = size(s) - 1
         /\ \A i \in 0 .. Capacity[s] - 2 : i < size(s) - 1 => SlotAt(s, i)' = SlotAt(s, i + 1)
<1>1. size(s)' = size(s) - 1
  BY CapacityFacts, IncrementWraps DEF Slot, size, empty
<1>2. \A i \in 0 .. Capacity[s] - 2 : i < size(s) - 1 => SlotAt(s, i)' = SlotAt(s, i + 1)
  BY CapacityFacts, IncrementWraps, RingSize DEF Slot, SlotAt
<1>. QED  BY <1>1, <1>2

\* The queue of a stream is a sequence of items.
QueueOK(s) ==
  /\ queue[s] \in Seq(Item)
  /\ Len(queue[s]) = size(s)
  /\ \A i \in 1 .. size(s) : queue[s][i] = buffer[s][SlotAt(s, i - 1)]

LEMMA QueueSeq ==
  ASSUME TypeOK, NEW s \in Stream
  PROVE  QueueOK(s) /\ (queue[s] = << >> <=> empty(s))
<1>1. size(s) \in 0 .. Capacity[s] - 1 /\ Capacity[s] \in Nat
  BY RingType, RingSize, CapacityFacts
<1>2. ASSUME NEW i \in 1 .. size(s)  PROVE buffer[s][SlotAt(s, i - 1)] \in Item
  <2>1. i - 1 \in 0 .. Capacity[s] - 2
    BY <1>1
  <2>2. SlotAt(s, i - 1) \in Slot(s)
    BY <2>1, RingType, RingSlots
  <2>. QED  BY <2>2, RingType
<1>3. queue[s] = [i \in 1 .. size(s) |-> buffer[s][SlotAt(s, i - 1)]]
  BY DEF queue
<1>4. QueueOK(s)
  BY <1>1, <1>2, <1>3 DEF QueueOK
<1>5. queue[s] = << >> <=> size(s) = 0
  BY <1>4 DEF QueueOK
<1>. QED  BY <1>4, <1>5, RingType, RingSize

\* A queue whose ring nobody touches stays as it is.
LEMMA QueueStays ==
  ASSUME NEW s \in Stream, head'[s] = head[s], tail'[s] = tail[s], buffer'[s] = buffer[s]
  PROVE  queue'[s] = queue[s]
<1>1. size(s)' = size(s) /\ \A i \in 1 .. size(s) : SlotAt(s, i - 1)' = SlotAt(s, i - 1)
  BY DEF size, SlotAt
<1>. QED  BY <1>1 DEF queue

LEMMA QueuesStay == UNCHANGED rings => UNCHANGED queue
<1>. SUFFICES ASSUME UNCHANGED rings  PROVE UNCHANGED queue
  OBVIOUS
<1>1. \A s \in Stream : queue'[s] = queue[s]
  BY QueueStays DEF rings
<1>. QED  BY <1>1 DEF queue

LEMMA PushQueue ==
  ASSUME TypeOK, TypeOK', NEW s \in Stream, NEW item \in Item, push(s, item)
  PROVE  /\ queue'[s] = Append(queue[s], item)
         /\ \A t \in Stream : t # s => queue'[t] = queue[t]
         /\ queue' = [queue EXCEPT ![s] = Append(@, item)]
         /\ ~empty(s)'
<1>1. /\ head[s] \in Slot(s) /\ tail[s] \in Slot(s) /\ ~full(s)
      /\ head'[s] = increment(s, head[s]) /\ tail'[s] = tail[s] /\ tail' = tail
      /\ \A t \in Stream : t # s => head'[t] = head[t] /\ buffer'[t] = buffer[t]
      /\ buffer'[s][head[s]] = item
      /\ \A i \in Slot(s) : i # head[s] => buffer'[s][i] = buffer[s][i]
  BY RingType DEF push, TypeOK
<1>2. /\ size(s)' = size(s) + 1 /\ size(s) \in 0 .. Capacity[s] - 2
      /\ \A i \in 0 .. Capacity[s] - 2 : SlotAt(s, i)' = SlotAt(s, i)
      /\ Capacity[s] \in Nat
  BY <1>1, RingGrows, RingSize, CapacityFacts
<1>3. QueueOK(s) /\ QueueOK(s)'
  <2>1. QueueOK(s)
    BY QueueSeq
  <2>2. TypeOK' => QueueOK(s)'
    BY QueueSeq, PTL
  <2>. QED  BY <2>1, <2>2
<1>4. ASSUME NEW i \in 1 .. size(s)  PROVE queue'[s][i] = queue[s][i]
  <2>1. i - 1 \in 0 .. Capacity[s] - 2 /\ i - 1 < size(s)
    BY <1>2
  <2>2. SlotAt(s, i - 1) \in Slot(s) /\ SlotAt(s, i - 1) # head[s]
    BY <2>1, <1>1, RingSlots
  <2>3. queue'[s][i] = buffer'[s][SlotAt(s, i - 1)'] /\ SlotAt(s, i - 1)' = SlotAt(s, i - 1)
    BY <1>2, <1>3, <2>1 DEF QueueOK
  <2>. QED  BY <1>1, <1>3, <2>2, <2>3 DEF QueueOK
<1>5. queue'[s][size(s) + 1] = item
  <2>1. \A i \in 1 .. size(s) + 1 : queue'[s][i] = buffer'[s][SlotAt(s, i - 1)]
    <3>1. \A i \in 1 .. size(s) + 1 : i - 1 \in 0 .. Capacity[s] - 2
      BY <1>2
    <3>2. \A i \in 1 .. size(s) + 1 : queue'[s][i] = buffer'[s][SlotAt(s, i - 1)']
      BY <1>2, <1>3 DEF QueueOK
    <3>. QED  BY <1>2, <3>1, <3>2
  <2>2. SlotAt(s, size(s)) = head[s] /\ (size(s) + 1) - 1 = size(s)
    BY <1>1, <1>2, RingSlots
  <2>. QED  BY <1>1, <1>2, <2>1, <2>2
<1>6. queue'[s] = Append(queue[s], item)
  BY <1>2, <1>3, <1>4, <1>5 DEF QueueOK
<1>7. \A t \in Stream : t # s => queue'[t] = queue[t]
  BY <1>1, QueueStays
<1>8. queue' = [queue EXCEPT ![s] = Append(@, item)]
  BY <1>6, <1>7 DEF queue
<1>9. ~empty(s)'
  BY <1>1 DEF empty, full
<1>. QED  BY <1>6, <1>7, <1>8, <1>9

LEMMA TailIs ==
  ASSUME NEW q \in Seq(Item), NEW r \in Seq(Item), q # << >>, Len(r) = Len(q) - 1,
         \A i \in 1 .. Len(r) : r[i] = q[i + 1]
  PROVE  r = Tail(q)
OBVIOUS

LEMMA PopQueue ==
  ASSUME TypeOK, TypeOK', NEW t \in Thread, NEW s \in Stream, PopEnd(t, s),
         pop[t].tail = tail[s], ~empty(s)
  PROVE  /\ queue[s] # << >> /\ Popped(t) = Head(queue[s]) /\ queue'[s] = Tail(queue[s])
         /\ \A u \in Stream : u # s => queue'[u] = queue[u]
<1>1. /\ head[s] \in Slot(s) /\ tail[s] \in Slot(s) /\ pop[t].on = s
      /\ tail'[s] = increment(s, tail[s]) /\ head' = head /\ buffer' = buffer
      /\ \A u \in Stream : u # s => tail'[u] = tail[u]
  BY RingType DEF PopEnd, TypeOK
<1>2. /\ size(s)' = size(s) - 1 /\ size(s) \in 1 .. Capacity[s] - 1
      /\ \A i \in 0 .. Capacity[s] - 2 : i < size(s) - 1 => SlotAt(s, i)' = SlotAt(s, i + 1)
      /\ Capacity[s] \in Nat
  BY <1>1, RingShrinks, RingSize, CapacityFacts
<1>3. QueueOK(s) /\ QueueOK(s)'
  <2>1. QueueOK(s)
    BY QueueSeq
  <2>2. TypeOK' => QueueOK(s)'
    BY QueueSeq, PTL
  <2>. QED  BY <2>1, <2>2
<1>4. queue[s] # << >> /\ Popped(t) = Head(queue[s])
  <2>1. queue[s][1] = buffer[s][tail[s]]
    BY <1>1, <1>2, <1>3, RingSlots DEF QueueOK
  <2>. QED  BY <1>1, <1>2, <1>3, <2>1 DEF QueueOK, Popped
<1>5. ASSUME NEW i \in 1 .. size(s) - 1  PROVE queue'[s][i] = queue[s][i + 1]
  <2>1. queue'[s][i] = buffer[s][SlotAt(s, i - 1)']
    BY <1>1, <1>2, <1>3 DEF QueueOK
  <2>2. i - 1 \in 0 .. Capacity[s] - 2 /\ i - 1 < size(s) - 1 /\ (i - 1) + 1 = i
    BY <1>2
  <2>3. SlotAt(s, i - 1)' = SlotAt(s, (i - 1) + 1)
    BY <1>2, <2>2
  <2>4. queue[s][i + 1] = buffer[s][SlotAt(s, i)]
    <3>1. i + 1 \in 1 .. size(s) /\ (i + 1) - 1 = i
      BY <1>2
    <3>. QED  BY <3>1, <1>3 DEF QueueOK
  <2>. QED  BY <2>1, <2>2, <2>3, <2>4
<1>6. queue'[s] = Tail(queue[s])
  <2>1. /\ queue[s] \in Seq(Item) /\ queue'[s] \in Seq(Item)
        /\ Len(queue'[s]) = size(s) - 1 /\ Len(queue[s]) = size(s)
    BY <1>2, <1>3 DEF QueueOK
  <2>2. \A i \in 1 .. Len(queue'[s]) : queue'[s][i] = queue[s][i + 1]
    BY <1>5, <2>1
  <2>. QED  BY <1>2, <1>4, <2>1, <2>2, TailIs
<1>7. \A u \in Stream : u # s => queue'[u] = queue[u]
  BY <1>1, QueueStays
<1>. QED  BY <1>4, <1>6, <1>7

-----------------------------------------------------------------------------
(***************************************************************************)
(* The types, and where the threads are.  These hold whatever the two      *)
(* threads do to each other.                                               *)
(***************************************************************************)
FlagsType ==
  /\ initialized \in BOOLEAN /\ running \in BOOLEAN /\ stopRequested \in BOOLEAN
  /\ accepting \in BOOLEAN /\ idle \in BOOLEAN /\ flushDue \in BOOLEAN
  /\ clash \in BOOLEAN

RingsType ==
  /\ DOMAIN buffer = Stream
  /\ \A s \in Stream : buffer[s] \in [Slot(s) -> [id : Nat, size : Nat]]
  /\ head \in [Stream -> Nat] /\ tail \in [Stream -> Nat]
  /\ \A s \in Stream : head[s] \in Slot(s) /\ tail[s] \in Slot(s)

PacketType == packet \in [ids : [Stream -> Seq(Nat)], used : 0 .. Payload]

RideType ==
  ride \in {"off", "wiping", "drained", "ready", "starting", "started", "riding",
            "closing", "stopping", "waiting", "stopped"} \union Stream

HandType == [on : Stream \union {"none"}, id : Nat, size : Nat]

WorkerType ==
  worker \in [pc : {"none", "loop", "enter", "fit", "append", "add", "full", "closing",
                   "again", "flush", "final", "quiet", "ask", "rest"} \union Stream,
             progress : BOOLEAN, batch : 0 .. MaxBatch,
             item : HandType, len : 0 .. Payload,
             then : {"loop", "append", "imu", "rec", "final", "quiet"}]

PopType ==
  /\ pop \in [Thread -> [on : Stream \union {"none"}, tail : Nat]]
  /\ \A t \in Thread : pop[t].on # "none" => pop[t].tail \in Slot(pop[t].on)

CountsType == accepted \in [Stream -> Nat] /\ settled \in [Stream -> Nat]

LEMMA TypeParts ==
  TypeOK <=> /\ FlagsType /\ RingsType /\ PacketType /\ RideType /\ WorkerType
             /\ PopType /\ CountsType
BY DEF TypeOK, FlagsType, RingsType, PacketType, RideType, WorkerType, HandType,
       PopType, CountsType

LEMMA TypePrimed ==
  FlagsType' /\ RingsType' /\ PacketType' /\ RideType' /\ WorkerType' /\ PopType' /\ CountsType'
    => TypeOK'
BY TypeParts, PTL

\* The inductive invariant without what depends on there being no clash.
BufferFits == \A s \in Packed : \A i \in Slot(s) : buffer[s][i].size <= Payload

Control == TypeOK /\ PopsMatch /\ HandMatches /\ SizesFit

LEMMA SettleType ==
  ASSUME settled \in [Stream -> Nat], NEW n \in [Stream -> Nat], Settle(n)
  PROVE  settled' \in [Stream -> Nat]
BY DEF Settle

LEMMA InPacketType == PacketType => InPacket \in [Stream -> Nat]
BY DEF PacketType, InPacket, Carried

LEMMA OneOfType == \A s \in Stream : OneOf(s) \in [Stream -> Nat]
BY DEF OneOf

LEMMA NoPopFacts == NoPop.on = "none" /\ NoPop.tail = 0
BY DEF NoPop

LEMMA PopBeginType ==
  ASSUME RingsType, PopType, NEW t \in Thread, NEW s \in Stream, PopBegin(t, s)
  PROVE  /\ PopType' /\ UNCHANGED rings
         /\ pop'[t].on = s /\ pop'[t].tail = tail[s] /\ ~empty(s)
         /\ \A u \in Thread : u # t => pop'[u] = pop[u]
<1>1. /\ pop' = [pop EXCEPT ![t] = [on |-> s, tail |-> tail[s]]]
      /\ tail[s] \in Slot(s) /\ tail[s] \in Nat
      /\ UNCHANGED rings /\ ~empty(s)
  BY DEF PopBegin, RingsType
<1>2. /\ pop'[t] = [on |-> s, tail |-> tail[s]]
      /\ \A u \in Thread : u # t => pop'[u] = pop[u]
      /\ pop' \in [Thread -> [on : Stream \union {"none"}, tail : Nat]]
  BY <1>1 DEF PopType
<1>3. ASSUME NEW u \in Thread, pop'[u].on # "none"  PROVE pop'[u].tail \in Slot(pop'[u].on)
  <2>1. CASE u = t
    BY <2>1, <1>1, <1>2
  <2>2. CASE u # t
    BY <2>2, <1>2, <1>3 DEF PopType
  <2>. QED  BY <2>1, <2>2
<1>. QED  BY <1>1, <1>2, <1>3 DEF PopType, Slot

LEMMA PopEndType ==
  ASSUME RingsType, PopType, NEW t \in Thread, NEW s \in Stream, PopEnd(t, s)
  PROVE  /\ RingsType' /\ PopType' /\ UNCHANGED <<buffer, head>>
         /\ pop[t].on = s /\ pop'[t].on = "none"
         /\ \A u \in Thread : u # t => pop'[u] = pop[u]
         /\ \A u \in Stream : u # s => tail'[u] = tail[u]
         /\ Popped(t) \in Item
<1>1. /\ pop[t].on = s /\ pop[t].tail \in Slot(s)
      /\ tail' = [tail EXCEPT ![s] = increment(s, pop[t].tail)]
      /\ pop' = [pop EXCEPT ![t] = NoPop]
      /\ UNCHANGED <<buffer, head>>
  BY StreamFacts DEF PopEnd, PopType
<1>2. increment(s, pop[t].tail) \in Slot(s) /\ Slot(s) \subseteq Nat
  BY <1>1, IncrementWraps DEF Slot
<1>3. RingsType' /\ \A u \in Stream : u # s => tail'[u] = tail[u]
  <2>1. /\ tail' \in [Stream -> Nat] /\ tail'[s] \in Slot(s)
        /\ \A u \in Stream : u # s => tail'[u] = tail[u]
    BY <1>1, <1>2 DEF RingsType
  <2>. QED  BY <1>1, <2>1 DEF RingsType, Slot
<1>4. /\ pop'[t].on = "none" /\ pop' \in [Thread -> [on : Stream \union {"none"}, tail : Nat]]
      /\ \A u \in Thread : u # t => pop'[u] = pop[u]
  BY <1>1 DEF PopType, NoPop
<1>5. PopType'
  BY <1>4 DEF PopType, Slot
<1>6. Popped(t) \in Item
  BY <1>1 DEF Popped, RingsType, Item
<1>. QED  BY <1>1, <1>3, <1>4, <1>5, <1>6

LEMMA PushType ==
  ASSUME RingsType, BufferFits, NEW s \in Stream, NEW item \in Item, push(s, item),
         s \in Packed => item.size <= Payload
  PROVE  RingsType' /\ BufferFits' /\ tail' = tail
<1>1. /\ head[s] \in Slot(s) /\ buffer[s] \in [Slot(s) -> Item]
      /\ buffer' = [buffer EXCEPT ![s][head[s]] = item]
      /\ head' = [head EXCEPT ![s] = increment(s, @)] /\ tail' = tail
  BY DEF push, RingsType, Item
<1>2. increment(s, head[s]) \in Slot(s) /\ Slot(s) \subseteq Nat
  BY <1>1, IncrementWraps DEF Slot
<1>3. /\ DOMAIN buffer' = Stream
      /\ buffer'[s] = [buffer[s] EXCEPT ![head[s]] = item]
      /\ \A u \in Stream : u # s => buffer'[u] = buffer[u]
  BY <1>1 DEF RingsType
<1>4. buffer'[s] \in [Slot(s) -> Item]
  BY <1>1, <1>3
<1>5. head' \in [Stream -> Nat] /\ \A u \in Stream : head'[u] \in Slot(u)
  BY <1>1, <1>2 DEF RingsType
<1>6. RingsType'
  BY <1>1, <1>3, <1>4, <1>5 DEF RingsType, Slot, Item
<1>7. ASSUME NEW u \in Packed, NEW i \in Slot(u)  PROVE buffer'[u][i].size <= Payload
  <2>1. CASE u = s /\ i = head[s]
    BY <2>1, <1>1, <1>3
  <2>2. CASE u = s /\ i # head[s]
    BY <2>2, <1>1, <1>3 DEF BufferFits
  <2>3. CASE u # s
    BY <2>3, <1>3, StreamFacts DEF BufferFits
  <2>. QED  BY <2>1, <2>2, <2>3
<1>. QED  BY <1>1, <1>6, <1>7 DEF BufferFits, Slot

\* A step of the ride thread that touches only flags.
LEMMA RideMoves ==
  ASSUME Control, FlagsType', RideType', UNCHANGED <<rings, packet, accepted, settled>>,
         UNCHANGED <<worker, pop>>, ride \notin Stream \/ pop["ride"].on = "none"
  PROVE  Control'
<1>t. RingsType /\ PacketType /\ WorkerType /\ PopType /\ CountsType
  BY TypeParts DEF Control
<1>1. TypeOK'
  BY <1>t, TypePrimed
     DEF RingsType, PacketType, WorkerType, PopType, CountsType, rings, Slot
<1>2. PopsMatch'
  <2>1. pop["ride"].on \notin Stream
    BY StreamFacts DEF Control, PopsMatch
  <2>. QED  BY <2>1 DEF Control, PopsMatch
<1>3. HandMatches' /\ SizesFit'
  BY DEF Control, HandMatches, SizesFit, Carrying, rings, Slot
<1>. QED  BY <1>1, <1>2, <1>3 DEF Control

LEMMA RideControl == Control /\ clash' \in BOOLEAN /\ Ride => Control'
<1>. SUFFICES ASSUME Control, clash' \in BOOLEAN, Ride  PROVE Control'
  OBVIOUS
<1>t. /\ FlagsType /\ RingsType /\ PacketType /\ RideType /\ WorkerType /\ PopType
      /\ CountsType /\ BufferFits
  BY TypeParts DEF Control, SizesFit, BufferFits
<1>1. CASE InitReset
  <2>1. /\ ride = "off" /\ ride' = "wiping" /\ packet' = EmptyPacket /\ Settle(InPacket)
        /\ UNCHANGED <<flags, rings, flushDue, accepted, pop>>
        /\ worker' = IF worker.pc = "none" THEN [worker EXCEPT !.pc = "loop"] ELSE worker
    BY <1>1 DEF InitReset, RideGoes
  <2>2. /\ WorkerType' /\ worker'.item = worker.item /\ worker'.then = worker.then
        /\ worker'.len = worker.len
        /\ worker'.pc = worker.pc \/ (worker.pc = "none" /\ worker'.pc = "loop")
    <3>1. CASE worker.pc = "none"
      BY <1>t, <2>1, <3>1 DEF WorkerType
    <3>2. CASE worker.pc # "none"
      <4>1. worker' = worker
        BY <2>1, <3>2
      <4>. QED  BY <1>t, <4>1 DEF WorkerType, HandType
    <3>. QED  BY <3>1, <3>2
  <2>3. settled' \in [Stream -> Nat]
    BY <1>t, <2>1, SettleType, InPacketType DEF CountsType
  <2>4. TypeOK'
    BY <1>t, <2>1, <2>2, <2>3, EmptyPacketFacts, TypePrimed
       DEF FlagsType, RingsType, PacketType, RideType, PopType, CountsType, flags, rings, Slot
  <2>5. PopsMatch'
    BY <2>1, <2>2, StreamFacts DEF Control, PopsMatch, Stream
  <2>6. HandMatches'
    BY <2>2, StreamFacts DEF Control, HandMatches, Carrying
  <2>7. SizesFit'
    BY <1>t, <2>1, <2>2, EmptyPacketFacts DEF Control, SizesFit, rings, WorkerType, Slot
  <2>. QED  BY <2>4, <2>5, <2>6, <2>7 DEF Control
<1>2. CASE InitWipe
  <2>1. /\ ride = "wiping" /\ ride' = "tx" /\ packet' = [packet EXCEPT !.ids = NoIds]
        /\ flushDue' = FALSE /\ stopRequested' = FALSE /\ accepting' = FALSE /\ idle' = TRUE
        /\ UNCHANGED <<initialized, running, rings, accepted, settled, worker, pop>>
    BY <1>2 DEF InitWipe, RideGoes
  <2>2. PacketType' /\ packet'.used = packet.used
    <3>1. NoIds \in [Stream -> Seq(Nat)]
      BY DEF NoIds
    <3>2. packet' = [ids |-> NoIds, used |-> packet.used]
      BY <1>t, <2>1 DEF PacketType
    <3>. QED  BY <1>t, <3>1, <3>2 DEF PacketType
  <2>3. TypeOK'
    BY <1>t, <2>1, <2>2, StreamFacts, TypePrimed
       DEF FlagsType, RingsType, RideType, WorkerType, PopType, CountsType, rings, Slot
  <2>4. PopsMatch'
    BY <2>1, StreamFacts DEF Control, PopsMatch, Stream
  <2>5. HandMatches' /\ SizesFit'
    BY <2>1, <2>2 DEF Control, HandMatches, Carrying, SizesFit, rings, Slot
  <2>. QED  BY <2>3, <2>4, <2>5 DEF Control
<1>3. ASSUME NEW s \in Stream, InitPop(s)  PROVE Control'
  <2>1. /\ ride = s /\ PopBegin("ride", s)
        /\ UNCHANGED <<flags, packet, flushDue, accepted, settled, ride, worker>>
    BY <1>3 DEF InitPop, data
  <2>2. /\ PopType' /\ UNCHANGED rings
        /\ pop'["ride"].on = s /\ pop'["worker"] = pop["worker"]
    BY <1>t, <2>1, PopBeginType DEF Thread
  <2>3. TypeOK'
    BY <1>t, <2>1, <2>2, TypePrimed
       DEF FlagsType, RingsType, PacketType, RideType, WorkerType, CountsType, flags, rings, Slot
  <2>4. PopsMatch'
    BY <2>1, <2>2 DEF Control, PopsMatch
  <2>5. HandMatches' /\ SizesFit'
    BY <2>1, <2>2 DEF Control, HandMatches, Carrying, SizesFit, rings, Slot
  <2>. QED  BY <2>3, <2>4, <2>5 DEF Control
<1>4. ASSUME NEW s \in Stream, InitDrop(s)  PROVE Control'
  <2>1. /\ PopEnd("ride", s) /\ Settle(OneOf(s))
        /\ UNCHANGED <<flags, packet, flushDue, accepted, ride, worker>>
    BY <1>4 DEF InitDrop
  <2>2. /\ RingsType' /\ PopType' /\ UNCHANGED buffer
        /\ pop'["ride"].on = "none" /\ pop'["worker"] = pop["worker"]
    BY <1>t, <2>1, PopEndType DEF Thread
  <2>3. settled' \in [Stream -> Nat]
    BY <1>t, <2>1, SettleType, OneOfType DEF CountsType
  <2>4. TypeOK'
    BY <1>t, <2>1, <2>2, <2>3, TypePrimed
       DEF FlagsType, PacketType, RideType, WorkerType, CountsType, flags
  <2>5. PopsMatch'
    BY <2>1, <2>2, StreamFacts DEF Control, PopsMatch
  <2>6. HandMatches' /\ SizesFit'
    BY <2>1, <2>2 DEF Control, HandMatches, Carrying, SizesFit, Slot
  <2>. QED  BY <2>4, <2>5, <2>6 DEF Control
<1>5. ASSUME NEW s \in Stream, InitNext(s)  PROVE Control'
  <2>1. RideType'
    BY <1>5, StreamFacts DEF InitNext, RideGoes, DrainedNext, RideType, Stream
  <2>. QED
    BY <1>t, <1>5, <2>1, RideMoves, NoPopFacts DEF InitNext, data, FlagsType, flags
<1>6. CASE \/ InitDone \/ StartRunning \/ StartAccepting \/ StartBusy \/ ShutdownGate
           \/ StopRequest \/ StopRunning \/ StopSeesIdle \/ StopReturn
  <2>1. /\ UNCHANGED <<rings, packet, accepted, settled, worker, pop>>
        /\ FlagsType' /\ RideType' /\ ride \notin Stream
    BY <1>t, <1>6, StreamFacts
       DEF InitDone, StartRunning, StartAccepting, StartBusy, ShutdownGate, StopRequest,
           StopRunning, StopSeesIdle, StopReturn, RideGoes, data, flags, FlagsType, RideType,
           Stream
  <2>. QED  BY <2>1, RideMoves
<1>7. ASSUME NEW s \in Stream, NEW len \in Sizes[s], Enqueue(s, len)  PROVE Control'
  <2>. DEFINE item == [id |-> accepted[s] + 1, size |-> len]
  <2>1. /\ push(s, item) /\ accepted' = [accepted EXCEPT ![s] = @ + 1]
        /\ UNCHANGED <<flags, packet, flushDue, settled, ride, worker, pop>>
    BY <1>7 DEF Enqueue
  <2>2. item \in Item /\ (s \in Packed => item.size <= Payload)
    BY <1>t, StreamAssumption, PayloadAssumption DEF CountsType, Item
  <2>3. RingsType' /\ BufferFits'
    BY <1>t, <2>1, <2>2, PushType
  <2>4. CountsType'
    BY <1>t, <2>1 DEF CountsType
  <2>5. TypeOK'
    BY <1>t, <2>1, <2>3, <2>4, TypePrimed
       DEF FlagsType, PacketType, RideType, WorkerType, PopType, flags, Slot
  <2>6. PopsMatch' /\ HandMatches' /\ SizesFit'
    BY <2>1, <2>3 DEF Control, PopsMatch, HandMatches, Carrying, SizesFit, BufferFits
  <2>. QED  BY <2>5, <2>6 DEF Control
<1>. QED  BY <1>1, <1>2, <1>3, <1>4, <1>5, <1>6, <1>7 DEF Ride

\* A step of the transport thread that moves only itself, with nothing in hand.
LEMMA WorkerMoves ==
  ASSUME Control, FlagsType', WorkerType', UNCHANGED <<rings, packet, accepted, settled>>,
         UNCHANGED <<ride, pop>>, worker.item = NoItem, worker'.item = NoItem, ~Carrying',
         worker'.pc # "full", worker.pc \notin Stream \/ pop["worker"].on = "none"
  PROVE  Control'
<1>t. RingsType /\ PacketType /\ RideType /\ PopType /\ CountsType
  BY TypeParts DEF Control
<1>1. TypeOK'
  BY <1>t, TypePrimed
     DEF RingsType, PacketType, RideType, PopType, CountsType, rings, Slot
<1>2. PopsMatch'
  <2>1. pop["worker"].on \notin Stream
    BY StreamFacts DEF Control, PopsMatch
  <2>. QED  BY <2>1, StreamFacts DEF Control, PopsMatch
<1>3. HandMatches'
  BY DEF HandMatches
<1>4. SizesFit'
  BY DEF Control, SizesFit, Carrying, NoItem, rings, Slot
<1>. QED  BY <1>1, <1>2, <1>3, <1>4 DEF Control

LEMMA WorkerControl == Control /\ clash' \in BOOLEAN /\ Worker => Control'
<1>. SUFFICES ASSUME Control, clash' \in BOOLEAN, Worker  PROVE Control'
  OBVIOUS
<1>t. /\ FlagsType /\ RingsType /\ PacketType /\ RideType /\ WorkerType /\ PopType
      /\ CountsType /\ BufferFits
  BY TypeParts DEF Control, SizesFit, BufferFits
<1>h. /\ HandMatches
      /\ \A s \in Stream : pop["worker"].on = s => worker.pc = s
      /\ pop["worker"].on \in Stream \union {"none"}
  BY <1>t DEF Control, PopsMatch, PopType, Thread
<1>s. NoItem \in HandType /\ 0 \in 0 .. Payload /\ 0 \in 0 .. MaxBatch
  BY PayloadAssumption, BoundAssumption DEF NoItem, HandType
<1>1. CASE \/ LoopTest \/ Enter \/ RoundTest \/ PeriodicFlush \/ FinalFlush \/ QuietTest
           \/ StopTest \/ Rest
  <2>1. /\ UNCHANGED <<rings, packet, accepted, settled, ride, pop>>
        /\ worker.pc \in {"loop", "enter", "again", "flush", "final", "quiet", "ask", "rest"}
    BY <1>1 DEF LoopTest, Enter, RoundTest, PeriodicFlush, FinalFlush, QuietTest, StopTest,
                Rest, WorkerAt, data
  <2>2. FlagsType'
    BY <1>t, <1>1 DEF LoopTest, Enter, RoundTest, PeriodicFlush, FinalFlush, QuietTest,
       StopTest, Rest, FlagsType, flags, data
  <2>3. worker.item = NoItem /\ worker.pc \notin Stream
    BY <1>h, <2>1 DEF HandMatches, Carrying, Stream
  <2>4. /\ WorkerType' /\ worker'.item = worker.item /\ worker'.pc # "full"
        /\ worker'.pc \notin {"fit", "append", "add"}
        /\ worker'.pc = "closing" => worker'.then # "append"
    <3>1. CASE LoopTest
      BY <1>t, <3>1 DEF LoopTest, WorkerGoes, WorkerType
    <3>2. CASE Enter /\ initialized
      BY <1>t, <1>s, <3>2, StreamFacts DEF Enter, WorkerType
    <3>3. CASE Enter /\ ~initialized
      BY <1>t, <3>3 DEF Enter, WorkerGoes, WorkerType
    <3>4. CASE RoundTest
      BY <1>t, <3>4, StreamFacts DEF RoundTest, WorkerType
    <3>5. CASE PeriodicFlush
      BY <1>t, <3>5 DEF PeriodicFlush, WorkerType
    <3>6. CASE FinalFlush
      BY <1>t, <3>6 DEF FinalFlush, WorkerType
    <3>7. CASE QuietTest \/ StopTest \/ Rest
      BY <1>t, <3>7 DEF QuietTest, StopTest, Rest, WorkerGoes, WorkerType
    <3>. QED  BY <1>1, <3>1, <3>2, <3>3, <3>4, <3>5, <3>6, <3>7
  <2>. QED  BY <2>1, <2>2, <2>3, <2>4, WorkerMoves DEF Carrying
<1>2. ASSUME NEW s \in Stream, Take(s)  PROVE Control'
  <2>1. /\ worker.pc = s /\ PopBegin("worker", s)
        /\ s = "imu" => worker.batch < MaxBatch
        /\ UNCHANGED <<flags, packet, flushDue, accepted, settled, ride, worker>>
    BY <1>2 DEF Take, WorkerAt, data
  <2>2. /\ PopType' /\ UNCHANGED rings
        /\ pop'["worker"].on = s /\ pop'["ride"] = pop["ride"]
    BY <1>t, <2>1, PopBeginType DEF Thread
  <2>3. TypeOK'
    BY <1>t, <2>1, <2>2, TypePrimed
       DEF FlagsType, RingsType, PacketType, RideType, WorkerType, CountsType, flags, rings, Slot
  <2>4. PopsMatch'
    BY <2>1, <2>2 DEF Control, PopsMatch
  <2>5. HandMatches' /\ SizesFit'
    BY <2>1, <2>2 DEF Control, HandMatches, Carrying, SizesFit, rings, Slot
  <2>. QED  BY <2>3, <2>4, <2>5 DEF Control
<1>3. ASSUME NEW s \in Stream, TakeNone(s)  PROVE Control'
  <2>1. /\ worker.pc = s /\ pop["worker"] = NoPop
        /\ worker' = [worker EXCEPT !.pc = StageAfter[s], !.batch = 0]
        /\ UNCHANGED <<flags, data, ride, pop>>
    BY <1>3 DEF TakeNone, WorkerAt
  <2>2. StageAfter[s] \in {"low", "rec", "tx", "again"}
    BY DEF Stream, StageAfter
  <2>3. WorkerType' /\ worker'.item = worker.item /\ worker'.pc = StageAfter[s]
    BY <1>t, <1>s, <2>1, <2>2, StreamFacts DEF WorkerType
  <2>4. worker.item = NoItem
    BY <1>h, <2>1 DEF HandMatches, Carrying, Stream
  <2>5. FlagsType'
    BY <1>t, <2>1 DEF FlagsType, flags, data
  <2>. QED
    BY <2>1, <2>2, <2>3, <2>4, <2>5, NoPopFacts, WorkerMoves DEF Carrying, data
<1>4. ASSUME NEW s \in Stream, Taken(s)  PROVE Control'
  <2>. DEFINE item == [on |-> s, id |-> Popped("worker").id, size |-> Popped("worker").size]
  <2>1. /\ s \in Packed /\ PopEnd("worker", s)
        /\ worker' = [worker EXCEPT !.pc = "fit", !.progress = TRUE,
                              !.batch = IF s = "imu" THEN @ + 1 ELSE @, !.item = item]
        /\ UNCHANGED <<flags, packet, flushDue, accepted, settled, ride>>
    BY <1>4 DEF Taken
  <2>2. /\ RingsType' /\ PopType' /\ UNCHANGED buffer
        /\ pop'["worker"].on = "none" /\ pop'["ride"] = pop["ride"]
        /\ pop["worker"].on = s
        /\ Popped("worker") \in Item
    BY <1>t, <2>1, PopEndType DEF Thread
  <2>3. Popped("worker").size <= Payload
    BY <1>t, <2>1, <2>2, StreamFacts DEF BufferFits, Popped, PopType, Thread
  <2>4. item \in HandType /\ item.on = s /\ item.size <= Payload
    BY <2>2, <2>3 DEF HandType, Item
  <2>5. worker.batch \in 0 .. MaxBatch /\ (s = "imu" => worker.batch + 1 \in 0 .. MaxBatch)
    <3>1. s = "imu" => worker.batch < MaxBatch
      BY <2>2 DEF Control, PopsMatch
    <3>. QED  BY <1>t, <3>1, BoundAssumption DEF WorkerType
  <2>6. WorkerType' /\ worker'.pc = "fit" /\ worker'.item = item
    BY <1>t, <2>1, <2>4, <2>5 DEF WorkerType
  <2>7. TypeOK'
    BY <1>t, <2>1, <2>2, <2>6, TypePrimed
       DEF FlagsType, PacketType, RideType, CountsType, flags
  <2>8. PopsMatch'
    BY <2>1, <2>2, StreamFacts DEF Control, PopsMatch
  <2>9. HandMatches'
    BY <2>1, <2>4, <2>6 DEF HandMatches, Carrying
  <2>10. SizesFit'
    BY <1>t, <2>2, <2>4, <2>6 DEF SizesFit, BufferFits, Slot
  <2>. QED  BY <2>7, <2>8, <2>9, <2>10 DEF Control
<1>5. ASSUME NEW s \in Stream, Served(s)  PROVE Control'
  <2>1. /\ PopEnd("worker", s) /\ Settle(OneOf(s))
        /\ worker' = [worker EXCEPT !.pc = StageAfter[s], !.progress = TRUE]
        /\ UNCHANGED <<flags, packet, flushDue, accepted, ride>>
    BY <1>5 DEF Served
  <2>2. /\ RingsType' /\ PopType' /\ UNCHANGED buffer
        /\ pop'["worker"].on = "none" /\ pop'["ride"] = pop["ride"]
        /\ worker.pc = s
    BY <1>t, <1>h, <2>1, PopEndType DEF Thread
  <2>3. StageAfter[s] \in {"low", "rec", "tx", "again"}
    BY DEF Stream, StageAfter
  <2>4. WorkerType' /\ worker'.item = worker.item /\ worker'.pc = StageAfter[s]
    BY <1>t, <2>1, <2>3, StreamFacts DEF WorkerType
  <2>5. worker.item = NoItem
    BY <1>h, <2>2 DEF HandMatches, Carrying, Stream
  <2>6. settled' \in [Stream -> Nat]
    BY <1>t, <2>1, SettleType, OneOfType DEF CountsType
  <2>7. TypeOK'
    BY <1>t, <2>1, <2>2, <2>4, <2>6, TypePrimed
       DEF FlagsType, PacketType, RideType, CountsType, flags
  <2>8. PopsMatch'
    BY <2>1, <2>2, StreamFacts DEF Control, PopsMatch
  <2>9. HandMatches'
    BY <2>3, <2>4, <2>5 DEF HandMatches, Carrying
  <2>10. SizesFit'
    BY <1>t, <2>2, <2>3, <2>4, <2>5 DEF Control, SizesFit, BufferFits, Slot
  <2>. QED  BY <2>7, <2>8, <2>9, <2>10 DEF Control
<1>6. CASE Fit \/ AppendBegin
  <2>1. /\ UNCHANGED <<flags, rings, packet, flushDue, accepted, ride, pop>>
        /\ worker.pc \in {"fit", "append"} /\ worker.item.on \in Packed
        /\ pop["worker"].on = "none"
    BY <1>6, <1>h DEF Fit, AppendBegin, WorkerAt, HandMatches, Carrying, Stream, data
  <2>2. PackedNext[worker.item.on] \in {"imu", "rec"}
    BY <2>1 DEF Packed, PackedNext
  <2>3. /\ WorkerType'
        /\ \/ worker'.pc = "append" /\ worker'.item = worker.item
           \/ worker'.pc = "closing" /\ worker'.then = "append" /\ worker'.item = worker.item
           \/ worker'.pc = "add" /\ worker'.item = worker.item /\ worker'.len = packet.used
                /\ canAppend(packet, worker.item.size)
           \/ worker'.pc \in {"imu", "rec"} /\ worker'.item = NoItem
    <3>1. CASE Fit
      BY <1>t, <3>1 DEF Fit, WorkerType
    <3>2. CASE AppendBegin /\ canAppend(packet, worker.item.size)
      <4>1. worker' = [worker EXCEPT !.pc = "add", !.len = packet.used]
        BY <3>2 DEF AppendBegin
      <4>2. packet.used \in 0 .. Payload
        BY <1>t DEF PacketType
      <4>. QED  BY <1>t, <3>2, <4>1, <4>2 DEF WorkerType
    <3>3. CASE AppendBegin /\ ~canAppend(packet, worker.item.size)
      <4>1. worker' = [worker EXCEPT !.pc = PackedNext[worker.item.on], !.item = NoItem]
        BY <3>3 DEF AppendBegin
      <4>. QED  BY <1>t, <1>s, <2>2, <4>1, StreamFacts DEF WorkerType
    <3>. QED  BY <1>6, <3>1, <3>2, <3>3
  <2>4. settled' \in [Stream -> Nat]
    <3>1. CASE UNCHANGED settled
      BY <1>t, <3>1 DEF CountsType
    <3>2. CASE Settle(OneOf(worker.item.on))
      BY <1>t, <2>1, <3>2, SettleType, OneOfType, StreamFacts DEF CountsType
    <3>. QED  BY <1>6, <3>1, <3>2 DEF Fit, AppendBegin, data
  <2>5. TypeOK'
    BY <1>t, <2>1, <2>3, <2>4, TypePrimed
       DEF FlagsType, RingsType, PacketType, RideType, PopType, CountsType, flags, rings, Slot
  <2>6. PopsMatch'
    BY <2>1, StreamFacts DEF Control, PopsMatch
  <2>7. HandMatches'
    BY <2>1, <2>3 DEF HandMatches, Carrying
  <2>8. SizesFit'
    <3>1. worker.item.size \in Nat /\ packet.used \in 0 .. Payload /\ Payload \in Nat
      BY <1>t, PayloadAssumption DEF WorkerType, HandType, PacketType
    <3>2. worker'.item.size <= Payload
      BY <2>3, <3>1 DEF Control, SizesFit, NoItem
    <3>3. worker'.pc = "add" => /\ packet'.used <= worker'.len
                                /\ worker'.len + worker'.item.size <= Payload
      BY <2>1, <2>3, <3>1 DEF canAppend
    <3>. QED  BY <1>t, <2>1, <3>2, <3>3 DEF SizesFit, BufferFits, rings, Slot
  <2>. QED  BY <2>5, <2>6, <2>7, <2>8 DEF Control
<1>7. CASE AppendEnd
  <2>1. /\ worker.pc = "add" /\ worker.item.on \in Packed /\ pop["worker"].on = "none"
        /\ UNCHANGED <<flags, rings, flushDue, accepted, settled, ride, pop>>
    BY <1>7, <1>h DEF AppendEnd, WorkerAt, HandMatches, Carrying, Stream
  <2>2. PICK n \in {packet.used, worker.len} : packet' = appendEnsemble(packet, worker.item, n)
    BY <1>7 DEF AppendEnd
  <2>3. /\ packet.used \in Nat /\ worker.len \in Nat /\ worker.item.size \in Nat
        /\ worker.item.id \in Nat
        /\ packet.used <= worker.len /\ worker.len + worker.item.size <= Payload
        /\ Payload \in Nat
    BY <1>t, <2>1, PayloadAssumption
       DEF Control, SizesFit, PacketType, WorkerType, HandType
  <2>4. n + worker.item.size \in 0 .. Payload
    BY <2>2, <2>3
  <2>5. PacketType'
    <3>1. packet.ids \in [Stream -> Seq(Nat)]
      BY <1>t DEF PacketType
    <3>2. [packet.ids EXCEPT ![worker.item.on] = Append(@, worker.item.id)]
             \in [Stream -> Seq(Nat)]
      BY <2>1, <2>3, <3>1, StreamFacts
    <3>. QED  BY <2>2, <2>4, <3>2 DEF PacketType, appendEnsemble
  <2>6. PackedNext[worker.item.on] \in {"imu", "rec"}
    BY <2>1 DEF Packed, PackedNext
  <2>7. /\ WorkerType' /\ worker'.pc = "full" /\ worker'.item = NoItem
        /\ worker'.then \in {"imu", "rec"}
    <3>1. worker' = [worker EXCEPT !.pc = "full", !.item = NoItem, !.len = 0,
                                   !.then = PackedNext[worker.item.on]]
      BY <1>7 DEF AppendEnd
    <3>. QED  BY <1>t, <1>s, <2>6, <3>1 DEF WorkerType
  <2>8. TypeOK'
    BY <1>t, <2>1, <2>5, <2>7, TypePrimed
       DEF FlagsType, RingsType, RideType, PopType, CountsType, flags, rings, Slot
  <2>9. PopsMatch'
    BY <2>1, StreamFacts DEF Control, PopsMatch
  <2>10. HandMatches'
    BY <2>7 DEF HandMatches, Carrying
  <2>11. SizesFit'
    BY <1>t, <2>1, <2>3, <2>7 DEF SizesFit, BufferFits, rings, Slot, NoItem
  <2>. QED  BY <2>8, <2>9, <2>10, <2>11 DEF Control
<1>8. CASE Full
  <2>1. /\ worker.pc = "full" /\ worker.item = NoItem /\ worker.then # "append"
        /\ worker.pc \notin Stream
    BY <1>8, <1>h DEF Full, WorkerAt, HandMatches, Carrying, Stream
  <2>2. /\ WorkerType' /\ worker'.item = NoItem /\ worker'.then = worker.then
        /\ worker'.pc \in {"closing", worker.then}
    BY <1>t, <1>8, <2>1, StreamFacts DEF Full, WorkerGoes, WorkerType
  <2>3. /\ worker'.pc # "full" /\ ~Carrying'
    BY <1>t, <2>1, <2>2 DEF Carrying, WorkerType
  <2>4. FlagsType' /\ UNCHANGED <<rings, packet, accepted, settled, ride, pop>>
    BY <1>t, <1>8 DEF Full, FlagsType, flags, data
  <2>. QED  BY <2>1, <2>2, <2>3, <2>4, WorkerMoves
<1>9. CASE Close
  <2>1. /\ worker.pc = "closing" /\ packet' = EmptyPacket /\ Settle(InPacket)
        /\ worker' = [worker EXCEPT !.pc = worker.then, !.then = "loop"]
        /\ UNCHANGED <<flags, rings, accepted, ride, pop>>
    BY <1>9 DEF Close, WorkerAt
  <2>2. flushDue' \in BOOLEAN
    BY <1>t, <1>9 DEF Close, FlushDueAfter, FlagsType
  <2>3. /\ WorkerType' /\ worker'.item = worker.item /\ worker'.pc = worker.then
        /\ worker.then \in {"loop", "append", "imu", "rec", "final", "quiet"}
    BY <1>t, <2>1, StreamFacts DEF WorkerType
  <2>4. settled' \in [Stream -> Nat]
    BY <1>t, <2>1, SettleType, InPacketType DEF CountsType
  <2>5. TypeOK'
    BY <1>t, <2>1, <2>2, <2>3, <2>4, EmptyPacketFacts, TypePrimed
       DEF FlagsType, RingsType, PacketType, RideType, PopType, CountsType, flags, rings, Slot
  <2>6. PopsMatch'
    <3>1. pop["worker"].on = "none"
      BY <1>h, <2>1 DEF Stream
    <3>. QED  BY <2>1, <3>1, StreamFacts DEF Control, PopsMatch
  <2>7. HandMatches'
    BY <1>h, <2>1, <2>3 DEF HandMatches, Carrying
  <2>8. SizesFit'
    BY <1>t, <2>1, <2>3 DEF Control, SizesFit, rings, Slot
  <2>. QED  BY <2>5, <2>6, <2>7, <2>8 DEF Control
<1>. QED
  BY <1>1, <1>2, <1>3, <1>4, <1>5, <1>6, <1>7, <1>8, <1>9 DEF Worker

LEMMA TickControl == Control /\ Tick => Control'
<1>. SUFFICES ASSUME Control, Tick  PROVE Control'
  OBVIOUS
<1>1. /\ flushDue' = TRUE
      /\ UNCHANGED <<flags, rings, packet, accepted, settled, ride, worker, pop, clash>>
  BY DEF Tick
<1>t. /\ FlagsType /\ RingsType /\ PacketType /\ RideType /\ WorkerType /\ PopType
      /\ CountsType
  BY TypeParts DEF Control
<1>2. TypeOK'
  BY <1>1, <1>t, TypePrimed
     DEF FlagsType, RingsType, PacketType, RideType, WorkerType, HandType, PopType,
         CountsType, flags, rings, Slot
<1>3. PopsMatch' /\ HandMatches' /\ SizesFit'
  BY <1>1 DEF Control, PopsMatch, HandMatches, Carrying, SizesFit, rings, Slot
<1>. QED  BY <1>2, <1>3 DEF Control

LEMMA StutterControl == Control /\ UNCHANGED vars => Control'
<1>. SUFFICES ASSUME Control, UNCHANGED vars  PROVE Control'
  OBVIOUS
<1>1. UNCHANGED <<flags, rings, packet, flushDue, accepted, settled, ride, worker, pop, clash>>
  BY DEF vars, data
<1>t. /\ FlagsType /\ RingsType /\ PacketType /\ RideType /\ WorkerType /\ PopType
      /\ CountsType
  BY TypeParts DEF Control
<1>2. TypeOK'
  BY <1>1, <1>t, TypePrimed
     DEF FlagsType, RingsType, PacketType, RideType, WorkerType, HandType, PopType,
         CountsType, flags, rings, Slot
<1>3. PopsMatch' /\ HandMatches' /\ SizesFit'
  BY <1>1 DEF Control, PopsMatch, HandMatches, Carrying, SizesFit, rings, Slot
<1>. QED  BY <1>2, <1>3 DEF Control

-----------------------------------------------------------------------------
(***************************************************************************)
(* As long as the threads do not clash, what each has read stays true.     *)
(***************************************************************************)
PopsCurrent ==
  \A t \in Thread, s \in Stream : pop[t].on = s => pop[t].tail = tail[s] /\ ~empty(s)

LEMMA PopsStay == PopsCurrent /\ UNCHANGED <<rings, pop>> => PopsCurrent'
BY DEF PopsCurrent, rings, empty

LEMMA PopBeginCurrent ==
  ASSUME TypeOK, PopsCurrent, NEW t \in Thread, NEW s \in Stream, PopBegin(t, s)
  PROVE  PopsCurrent'
<1>1. /\ UNCHANGED rings /\ pop'[t].on = s /\ pop'[t].tail = tail[s] /\ ~empty(s)
      /\ \A u \in Thread : u # t => pop'[u] = pop[u]
  BY PopBeginType, TypeParts
<1>. QED  BY <1>1 DEF PopsCurrent, rings, empty

LEMMA PopEndCurrent ==
  ASSUME TypeOK, PopsCurrent, NEW t \in Thread, NEW s \in Stream, PopEnd(t, s),
         ~TwoConsumers(s)
  PROVE  PopsCurrent'
<1>1. /\ UNCHANGED <<buffer, head>> /\ pop[t].on = s /\ pop'[t].on = "none"
      /\ \A u \in Thread : u # t => pop'[u] = pop[u]
      /\ \A u \in Stream : u # s => tail'[u] = tail[u]
  BY PopEndType, TypeParts
<1>2. ASSUME NEW u \in Thread, NEW v \in Stream, pop'[u].on = v
      PROVE  pop'[u].tail = tail'[v] /\ ~empty(v)'
  <2>1. u # t /\ pop'[u] = pop[u] /\ pop[u].on = v
    BY <1>1, <1>2, StreamFacts
  <2>2. v # s
    BY <1>1, <2>1 DEF TwoConsumers, Thread
  <2>. QED  BY <1>1, <2>1, <2>2 DEF PopsCurrent, empty
<1>. QED  BY <1>2 DEF PopsCurrent

LEMMA RideCalm ==
  ASSUME Control, Control', Undisturbed, Ride, ClashNoted, ~clash, ClashNoted', ~clash'
  PROVE  Undisturbed'
<1>t. TypeOK /\ RingsType /\ PacketType /\ WorkerType /\ PopType
  BY TypeParts DEF Control
<1>c. PopsCurrent
  BY DEF Undisturbed, PopsCurrent
<1>1. CASE InitReset
  <2>1. /\ ride' = "wiping" /\ packet' = EmptyPacket /\ UNCHANGED <<rings, pop>>
        /\ worker'.item = worker.item
    BY <1>1, <1>t DEF InitReset, RideGoes, WorkerType
  <2>2. worker'.pc # "add"
    BY <2>1 DEF ClashNoted, TwoBuilders
  <2>3. packet'.used = 0 /\ packet'.used + worker'.item.size <= Payload
    BY <1>t, <2>1, EmptyPacketFacts, PayloadAssumption
       DEF Control, SizesFit, WorkerType, HandType
  <2>. QED  BY <1>c, <2>1, <2>2, <2>3, PopsStay DEF Undisturbed, PopsCurrent
<1>2. CASE InitWipe
  <2>1. /\ ride' = "tx" /\ packet'.used = packet.used /\ UNCHANGED <<rings, worker, pop>>
    BY <1>2, <1>t DEF InitWipe, RideGoes, PacketType
  <2>. QED  BY <1>c, <2>1, PopsStay DEF Undisturbed, PopsCurrent
<1>3. ASSUME NEW s \in Stream, InitPop(s)  PROVE Undisturbed'
  <2>1. PopBegin("ride", s) /\ UNCHANGED <<packet, ride, worker>>
    BY <1>3 DEF InitPop, data
  <2>2. PopsCurrent'
    BY <1>c, <1>t, <2>1, PopBeginCurrent DEF Thread
  <2>. QED  BY <2>1, <2>2 DEF Undisturbed, PopsCurrent
<1>4. ASSUME NEW s \in Stream, InitDrop(s)  PROVE Undisturbed'
  <2>1. PopEnd("ride", s) /\ UNCHANGED <<packet, ride, worker>>
    BY <1>4 DEF InitDrop
  <2>2. PopsCurrent'
    BY <1>c, <1>t, <2>1, PopEndCurrent DEF Thread, ClashNoted
  <2>. QED  BY <2>1, <2>2 DEF Undisturbed, PopsCurrent
<1>5. CASE \/ \E s \in Stream : InitNext(s)
           \/ InitDone \/ StartRunning \/ StartAccepting \/ StartBusy \/ ShutdownGate
           \/ StopRequest \/ StopRunning \/ StopSeesIdle \/ StopReturn
  <2>1. UNCHANGED <<rings, packet, worker, pop>> /\ ride' # "wiping"
    BY <1>5 DEF InitNext, InitDone, StartRunning, StartAccepting, StartBusy, ShutdownGate,
       StopRequest, StopRunning, StopSeesIdle, StopReturn, RideGoes, DrainedNext, data,
       Stream
  <2>. QED  BY <1>c, <2>1, PopsStay DEF Undisturbed, PopsCurrent
<1>6. ASSUME NEW s \in Stream, NEW len \in Sizes[s], Enqueue(s, len)  PROVE Undisturbed'
  <2>. DEFINE item == [id |-> accepted[s] + 1, size |-> len]
  <2>1. push(s, item) /\ UNCHANGED <<tail, packet, ride, worker, pop>>
    BY <1>6 DEF Enqueue, push
  <2>2. head[s] \in Slot(s) /\ tail[s] \in Slot(s) /\ ~full(s)
        /\ head' = [head EXCEPT ![s] = increment(s, @)]
    BY <1>t, <2>1 DEF push, RingsType
  <2>3. \A u \in Stream : ~empty(u) => ~empty(u)'
    BY <1>t, <2>1, <2>2 DEF empty, full, RingsType
  <2>. QED  BY <2>1, <2>3 DEF Undisturbed
<1>. QED  BY <1>1, <1>2, <1>3, <1>4, <1>5, <1>6 DEF Ride

LEMMA WorkerCalm ==
  ASSUME Control, Control', Undisturbed, Worker, ClashNoted, ~clash, ClashNoted', ~clash'
  PROVE  Undisturbed'
<1>t. TypeOK /\ RingsType /\ PacketType /\ WorkerType /\ PopType
  BY TypeParts DEF Control
<1>c. PopsCurrent
  BY DEF Undisturbed, PopsCurrent
<1>h. HandMatches
  BY DEF Control
<1>1. CASE \/ LoopTest \/ Enter \/ RoundTest \/ PeriodicFlush \/ FinalFlush \/ QuietTest
           \/ StopTest \/ Rest \/ Full \/ \E s \in Stream : TakeNone(s)
  <2>1. UNCHANGED <<rings, packet, ride, pop>>
    BY <1>1 DEF LoopTest, Enter, RoundTest, PeriodicFlush, FinalFlush, QuietTest, StopTest,
       Rest, Full, TakeNone, data
  <2>2. worker'.pc \notin {"add", "append"}
    <3>1. CASE LoopTest \/ Enter \/ RoundTest
      BY <1>t, <3>1 DEF LoopTest, Enter, RoundTest, WorkerGoes, WorkerType
    <3>2. CASE PeriodicFlush \/ FinalFlush \/ QuietTest \/ StopTest \/ Rest
      BY <1>t, <3>2
         DEF PeriodicFlush, FinalFlush, QuietTest, StopTest, Rest, WorkerGoes, WorkerType
    <3>3. CASE Full
      BY <1>t, <1>h, <3>3 DEF Full, WorkerAt, WorkerGoes, WorkerType, HandMatches
    <3>4. ASSUME NEW s \in Stream, TakeNone(s)  PROVE worker'.pc \notin {"add", "append"}
      BY <1>t, <3>4 DEF TakeNone, WorkerType, StageAfter, Stream
    <3>. QED  BY <1>1, <3>1, <3>2, <3>3, <3>4
  <2>. QED  BY <1>c, <2>1, <2>2, PopsStay DEF Undisturbed, PopsCurrent
<1>2. ASSUME NEW s \in Stream, Take(s)  PROVE Undisturbed'
  <2>1. PopBegin("worker", s) /\ UNCHANGED <<packet, ride, worker>>
    BY <1>2 DEF Take, data
  <2>2. PopsCurrent'
    BY <1>c, <1>t, <2>1, PopBeginCurrent DEF Thread
  <2>. QED  BY <2>1, <2>2 DEF Undisturbed, PopsCurrent
<1>3. ASSUME NEW s \in Stream, Taken(s) \/ Served(s)  PROVE Undisturbed'
  <2>1. PopEnd("worker", s) /\ UNCHANGED <<packet, ride>>
    BY <1>3 DEF Taken, Served
  <2>2. worker'.pc \notin {"add", "append"}
    <3>1. CASE Taken(s)
      BY <1>t, <3>1 DEF Taken, WorkerType
    <3>2. CASE Served(s)
      BY <1>t, <3>2 DEF Served, WorkerType, StageAfter, Stream
    <3>. QED  BY <1>3, <3>1, <3>2
  <2>3. PopsCurrent'
    BY <1>c, <1>t, <2>1, PopEndCurrent DEF Thread, ClashNoted
  <2>. QED  BY <2>1, <2>2, <2>3 DEF Undisturbed, PopsCurrent
<1>4. CASE Fit
  <2>1. UNCHANGED <<rings, packet, ride, pop>> /\ worker'.item = worker.item
    BY <1>4, <1>t DEF Fit, data, WorkerType
  <2>2. worker'.pc # "add"
    BY <1>4, <1>t DEF Fit, WorkerType
  <2>3. worker'.pc = "append" => packet.used + worker.item.size <= Payload
    <3>1. worker.item.size \in Nat /\ worker.item.size <= Payload /\ packet.used \in Nat
          /\ Payload \in Nat
      BY <1>t, PayloadAssumption DEF Control, SizesFit, WorkerType, HandType, PacketType
    <3>2. worker'.pc = "append" => canAppend(packet, worker.item.size) \/ ~hasData
      BY <1>4, <1>t DEF Fit, WorkerType
    <3>. QED  BY <3>1, <3>2 DEF canAppend, hasData
  <2>. QED  BY <1>c, <2>1, <2>2, <2>3, PopsStay DEF Undisturbed, PopsCurrent
<1>5. CASE AppendBegin
  <2>1. UNCHANGED <<rings, packet, ride, pop>>
    BY <1>5 DEF AppendBegin
  <2>2. worker'.pc # "append" /\ (worker'.pc = "add" => worker'.len = packet.used)
    <3>1. CASE canAppend(packet, worker.item.size)
      BY <1>5, <1>t, <3>1 DEF AppendBegin, WorkerType
    <3>2. CASE ~canAppend(packet, worker.item.size)
      <4>1. worker.item.on \in Packed
        BY <1>5, <1>h DEF AppendBegin, WorkerAt, HandMatches, Carrying
      <4>2. PackedNext[worker.item.on] \in {"imu", "rec"}
        BY <4>1 DEF Packed, PackedNext
      <4>3. worker'.pc = PackedNext[worker.item.on]
        BY <1>5, <1>t, <3>2 DEF AppendBegin, WorkerType
      <4>. QED  BY <4>2, <4>3
    <3>. QED  BY <3>1, <3>2
  <2>. QED  BY <1>c, <2>1, <2>2, PopsStay DEF Undisturbed, PopsCurrent
<1>6. CASE AppendEnd
  <2>1. UNCHANGED <<rings, ride, pop>> /\ worker.pc = "add" /\ worker'.pc = "full"
    BY <1>6, <1>t DEF AppendEnd, WorkerAt, WorkerType
  <2>2. ride # "wiping"
    BY <2>1 DEF ClashNoted, TwoBuilders
  <2>. QED  BY <1>c, <2>1, <2>2, PopsStay DEF Undisturbed, PopsCurrent
<1>7. CASE Close
  <2>1. /\ UNCHANGED <<rings, ride, pop>> /\ packet' = EmptyPacket
        /\ worker'.pc = worker.then /\ worker'.item = worker.item
    BY <1>7, <1>t DEF Close, WorkerType
  <2>2. packet'.used = 0 /\ packet'.used + worker'.item.size <= Payload
    BY <1>t, <2>1, EmptyPacketFacts, PayloadAssumption
       DEF Control, SizesFit, WorkerType, HandType
  <2>3. worker'.pc # "add"
    BY <1>t, <2>1 DEF WorkerType
  <2>. QED  BY <1>c, <2>1, <2>2, <2>3, PopsStay DEF Undisturbed, PopsCurrent
<1>. QED
  BY <1>1, <1>2, <1>3, <1>4, <1>5, <1>6, <1>7 DEF Worker

-----------------------------------------------------------------------------
(***************************************************************************)
(* One stream: p are the ids the transport thread has, q is the queue, a   *)
(* and d are the numbers of accepted and settled items.                    *)
(***************************************************************************)

\* The first k of the ids leave.
LEMMA OrderedSend ==
  ASSUME NEW p \in Seq(Nat), NEW q \in Seq(Item), NEW a \in Nat, NEW d \in Nat,
         Ordered(p, q, a, d), NEW k \in 0 .. Len(p), NEW r \in Seq(Nat),
         Len(r) = Len(p) - k, \A i \in 1 .. Len(r) : r[i] = p[i + k]
  PROVE  Ordered(r, q, a, d + k)
<1>1. \A i \in 1 .. Len(r) : i + k \in 1 .. Len(p) /\ r[i] = p[i + k]
  OBVIOUS
<1>2. (d + k) + Len(r) = d + Len(p)
  OBVIOUS
<1>3. \A i \in 1 .. Len(r) : r[i] <= a - Len(q)
  BY <1>1 DEF Ordered
<1>4. ASSUME NEW i \in 1 .. Len(r), NEW j \in 1 .. Len(r), i < j
      PROVE  r[i] < r[j]
  <2>1. i + k \in 1 .. Len(p) /\ j + k \in 1 .. Len(p) /\ i + k < j + k
    BY <1>1, <1>4
  <2>2. p[i + k] < p[j + k]
    BY <2>1 DEF Ordered
  <2>. QED  BY <1>1, <2>2
<1>. QED  BY <1>2, <1>3, <1>4 DEF Ordered

\* Accepting an item.
LEMMA OrderedEnqueue ==
  ASSUME NEW p \in Seq(Nat), NEW q \in Seq(Item), NEW a \in Nat, NEW d \in Nat,
         Ordered(p, q, a, d), NEW len \in Nat
  PROVE  Ordered(p, Append(q, [id |-> a + 1, size |-> len]), a + 1, d)
<1>. DEFINE r == Append(q, [id |-> a + 1, size |-> len])
<1>1. r \in Seq(Item) /\ Len(r) = Len(q) + 1
  BY DEF Item
<1>2. \A i \in 1 .. Len(r) : r[i].id = IF i = Len(q) + 1 THEN a + 1 ELSE q[i].id
  BY DEF Item
<1>. HIDE DEF r
<1>3. /\ \A i \in 1 .. Len(r) : r[i].id = (a - Len(q)) + i
      /\ (a + 1) - Len(r) = a - Len(q)
      /\ d + Len(p) = (a + 1) - Len(r)
  <2>1. Len(q) \in Nat /\ (a + 1) - Len(r) = a - Len(q)
    BY <1>1
  <2>2. /\ \A i \in 1 .. Len(q) : q[i].id = (a - Len(q)) + i
        /\ d + Len(p) = a - Len(q)
    BY DEF Ordered
  <2>3. ASSUME NEW i \in 1 .. Len(r)  PROVE r[i].id = (a - Len(q)) + i
    <3>1. i = Len(q) + 1 \/ i \in 1 .. Len(q)
      BY <1>1, <2>1
    <3>2. CASE i = Len(q) + 1
      <4>1. r[i].id = a + 1
        BY <1>2, <3>2
      <4>. QED  BY <2>1, <3>2, <4>1
    <3>3. CASE i \in 1 .. Len(q)
      <4>1. r[i].id = q[i].id
        BY <1>2, <2>1, <3>3
      <4>. QED  BY <2>2, <3>3, <4>1
    <3>. QED  BY <3>1, <3>2, <3>3
  <2>. QED  BY <2>1, <2>2, <2>3
<1>4. \A i \in 1 .. Len(p) : p[i] <= (a + 1) - Len(r)
  BY <1>3 DEF Ordered
<1>5. Ordered(p, r, a + 1, d)
  BY <1>3, <1>4 DEF Ordered
<1>. QED  BY <1>5 DEF r

\* The parts of a non-empty queue.
LEMMA QueueParts ==
  ASSUME NEW q \in Seq(Item), q # << >>
  PROVE  /\ Len(q) \in Nat \ {0}
         /\ Head(q) = q[1] /\ Head(q) \in Item
         /\ Head(q).id \in Nat /\ Head(q).size \in Nat
         /\ Tail(q) \in Seq(Item)
         /\ Len(Tail(q)) = Len(q) - 1
         /\ \A i \in 1 .. Len(Tail(q)) : Tail(q)[i] = q[i + 1]
<1>1. Len(q) \in Nat \ {0} /\ Head(q) = q[1] /\ q[1] \in Item
  OBVIOUS
<1>2. Head(q).id \in Nat /\ Head(q).size \in Nat
  BY <1>1 DEF Item
<1>. QED  BY <1>1, <1>2

\* Taking an item off the queue and settling it at once.
LEMMA OrderedDiscard ==
  ASSUME NEW p \in Seq(Nat), NEW q \in Seq(Item), NEW a \in Nat, NEW d \in Nat,
         Ordered(p, q, a, d), q # << >>
  PROVE  Ordered(p, Tail(q), a, d + 1)
<1>0. a - Len(Tail(q)) = (a - Len(q)) + 1 /\ Len(q) \in Nat
  BY QueueParts
<1>1. \A i \in 1 .. Len(Tail(q)) : Tail(q)[i].id = (a - Len(q)) + (i + 1)
  BY QueueParts DEF Ordered
<1>2. \A i \in 1 .. Len(p) : p[i] \in Nat /\ p[i] <= a - Len(Tail(q))
  BY <1>0 DEF Ordered
<1>3. (d + 1) + Len(p) = a - Len(Tail(q))
  <2>1. d + Len(p) = a - Len(q) /\ Len(p) \in Nat
    BY DEF Ordered
  <2>. QED  BY <2>1, <1>0
<1>4. \A i \in 1 .. Len(Tail(q)) : Tail(q)[i].id = (a - Len(Tail(q))) + i
  BY <1>0, <1>1
<1>. QED  BY <1>2, <1>3, <1>4 DEF Ordered

\* Taking an item off the queue into the hand.
LEMMA OrderedPack ==
  ASSUME NEW p \in Seq(Nat), NEW q \in Seq(Item), NEW a \in Nat, NEW d \in Nat,
         Ordered(p, q, a, d), q # << >>
  PROVE  /\ Ordered(Append(p, Head(q).id), Tail(q), a, d)
         /\ Append(p, Head(q).id) \in Seq(Nat)
<1>. DEFINE r == Append(p, Head(q).id)
            taken == a - Len(Tail(q))
<1>1. r \in Seq(Nat) /\ Len(r) = Len(p) + 1
  BY QueueParts
<1>2. taken = a - Len(q) + 1 /\ taken \in Int
  BY QueueParts
<1>3. Head(q).id = taken
  BY QueueParts DEF Ordered
<1>4. \A i \in 1 .. Len(Tail(q)) : Tail(q)[i].id = taken + i
  BY QueueParts DEF Ordered
<1>5. \A i \in 1 .. Len(r) : r[i] = (IF i = Len(p) + 1 THEN Head(q).id ELSE p[i]) /\ r[i] \in Nat
  BY QueueParts
<1>6. d + Len(r) = taken
  BY <1>1, <1>2 DEF Ordered
<1>7. \A i \in 1 .. Len(p) : p[i] \in Nat /\ p[i] < taken
  BY <1>2 DEF Ordered
<1>8. ASSUME NEW i \in 1 .. Len(r), NEW k \in 1 .. Len(r), i < k
      PROVE  r[i] < r[k]
  <2>1. i \in 1 .. Len(p)
    BY <1>1, <1>8
  <2>2. CASE k = Len(p) + 1
    BY <1>3, <1>5, <1>7, <2>1, <2>2
  <2>3. CASE k \in 1 .. Len(p)
    BY <1>5, <1>8, <2>1, <2>3 DEF Ordered
  <2>. QED  BY <1>1, <2>2, <2>3
<1>9. \A i \in 1 .. Len(r) : r[i] <= taken
  BY <1>1, <1>2, <1>3, <1>5, <1>7
<1>. QED  BY <1>1, <1>4, <1>6, <1>8, <1>9 DEF Ordered

-----------------------------------------------------------------------------
(***************************************************************************)
(* What each kind of step does to the items, as long as there is no clash. *)
(***************************************************************************)
AllOrdered == \A s \in Stream : Ordered(Held(s), queue[s], accepted[s], settled[s])
SizeTells == hasData <=> \E s \in Packed : packet.ids[s] # << >>

Sound == SizesKept /\ AllOrdered /\ SizeTells

LEMMA Parts ==
  IInv <=> Control /\ ClashNoted /\ (~clash => Undisturbed /\ Sound)
BY DEF IInv, Control, Sound, InOrder, NoDataMeansNoItem, AllOrdered, SizeTells

\* The types of one stream's part of the data.
LEMMA StreamTypes ==
  ASSUME TypeOK, NEW s \in Stream
  PROVE  /\ packet.ids[s] \in Seq(Nat) /\ worker.item.id \in Nat
         /\ Held(s) \in Seq(Nat) /\ queue[s] \in Seq(Item)
         /\ accepted[s] \in Nat /\ settled[s] \in Nat
<1>1. packet.ids[s] \in Seq(Nat) /\ worker.item.id \in Nat
  BY TypeParts DEF PacketType, WorkerType, HandType
<1>2. Held(s) \in Seq(Nat)
  BY <1>1 DEF Held
<1>. QED  BY <1>1, <1>2, QueueSeq, TypeParts DEF QueueOK, CountsType

LEMMA SoundStays ==
  ASSUME Sound, UNCHANGED <<rings, packet, accepted, settled>>, worker'.item = worker.item
  PROVE  Sound'
<1>1. queue' = queue
  BY QueuesStay
<1>2. SizesKept' /\ SizeTells'
  BY <1>1 DEF Sound, SizesKept, SizeTells, hasData
<1>3. AllOrdered'
  BY <1>1 DEF Sound, AllOrdered, Held
<1>. QED  BY <1>2, <1>3 DEF Sound

\* A packet leaves: the ids in it go, the one in hand stays.
LEMMA SendSplit ==
  ASSUME TypeOK, NEW s \in Stream, packet' = EmptyPacket, worker'.item = worker.item
  PROVE  /\ InPacket[s] = Len(packet.ids[s])
         /\ InPacket[s] \in 0 .. Len(Held(s))
         /\ Held(s)' \in Seq(Nat) /\ Len(Held(s)') = Len(Held(s)) - InPacket[s]
         /\ \A i \in 1 .. Len(Held(s)') : Held(s)'[i] = Held(s)[i + InPacket[s]]
<1>. DEFINE p == packet.ids[s]
            x == worker.item.id
<1>1. InPacket[s] = Len(p) /\ p \in Seq(Nat) /\ x \in Nat /\ packet'.ids[s] = << >>
  BY StreamTypes, EmptyPacketFacts DEF InPacket, Carried
<1>2. CASE worker.item.on = s
  <2>1. Held(s) = Append(p, x) /\ Held(s)' = Append(<< >>, x)
    BY <1>1, <1>2 DEF Held
  <2>. QED  BY <1>1, <2>1
<1>3. CASE worker.item.on # s
  <2>1. Held(s) = p /\ Held(s)' = << >>
    BY <1>1, <1>3 DEF Held
  <2>. QED  BY <1>1, <2>1
<1>. QED  BY <1>2, <1>3

LEMMA SoundSend ==
  ASSUME TypeOK, Sound, ~clash, packet' = EmptyPacket, Settle(InPacket),
         UNCHANGED <<rings, accepted>>, worker'.item = worker.item
  PROVE  Sound'
<1>1. queue' = queue
  BY QueuesStay
<1>2. ASSUME NEW s \in Stream
      PROVE  Ordered(Held(s)', queue'[s], accepted'[s], settled'[s])
  <2>1. settled'[s] = settled[s] + InPacket[s]
    BY DEF Settle
  <2>2. Ordered(Held(s), queue[s], accepted[s], settled[s])
    BY DEF Sound, AllOrdered
  <2>3. /\ InPacket[s] \in 0 .. Len(Held(s)) /\ Held(s)' \in Seq(Nat)
        /\ Len(Held(s)') = Len(Held(s)) - InPacket[s]
        /\ \A i \in 1 .. Len(Held(s)') : Held(s)'[i] = Held(s)[i + InPacket[s]]
    BY SendSplit
  <2>4. Ordered(Held(s)', queue[s], accepted[s], settled[s] + InPacket[s])
    BY <2>2, <2>3, StreamTypes, OrderedSend
  <2>. QED  BY <1>1, <2>1, <2>4
<1>3. SizesKept'
  BY <1>1, EmptyPacketFacts DEF Sound, SizesKept
<1>4. SizeTells'
  BY EmptyPacketFacts, StreamFacts DEF SizeTells, hasData
<1>. QED  BY <1>2, <1>3, <1>4 DEF Sound, AllOrdered

\* The sizes of what is queued, when the first item of a queue has gone.
LEMMA QueueShrinks ==
  ASSUME TypeOK, Sound, NEW s \in Stream, queue[s] # << >>, queue'[s] = Tail(queue[s]),
         \A u \in Stream : u # s => queue'[u] = queue[u]
  PROVE  /\ \A u \in Stream : \A i \in 1 .. Len(queue'[u]) : queue'[u][i].size \in Sizes[u]
         /\ Head(queue[s]).size \in Nat \ {0}
<1>1. queue[s] \in Seq(Item)
  BY StreamTypes
<1>2. ASSUME NEW u \in Stream, NEW i \in 1 .. Len(queue'[u])
      PROVE  queue'[u][i].size \in Sizes[u]
  <2>1. CASE u = s
    <3>1. /\ Len(queue[s]) \in Nat \ {0} /\ Len(queue'[s]) = Len(queue[s]) - 1
          /\ \A j \in 1 .. Len(queue'[s]) : queue'[s][j] = queue[s][j + 1]
      BY <1>1, QueueParts
    <3>2. i \in 1 .. Len(queue'[s])
      BY <2>1
    <3>3. queue'[s][i] = queue[s][i + 1]
      BY <3>1, <3>2
    <3>4. i + 1 \in 1 .. Len(queue[s])
      BY <3>1, <3>2
    <3>. QED  BY <3>3, <3>4, <2>1 DEF Sound, SizesKept
  <2>2. CASE u # s
    BY <2>2 DEF Sound, SizesKept
  <2>. QED  BY <2>1, <2>2
<1>3. Head(queue[s]).size \in Sizes[s]
  <2>1. 1 \in 1 .. Len(queue[s]) /\ Head(queue[s]) = queue[s][1]
    BY <1>1, QueueParts
  <2>. QED  BY <2>1 DEF Sound, SizesKept
<1>. QED  BY <1>2, <1>3, StreamAssumption

\* An item is popped and settled at once.
LEMMA SoundDrop ==
  ASSUME TypeOK, TypeOK', Sound, ~clash, PopsCurrent, NEW t \in Thread, NEW s \in Stream,
         PopEnd(t, s), Settle(OneOf(s)), UNCHANGED <<packet, accepted>>,
         worker'.item = worker.item
  PROVE  Sound'
<1>1. /\ queue[s] # << >> /\ queue'[s] = Tail(queue[s])
      /\ \A u \in Stream : u # s => queue'[u] = queue[u]
  <2>1. pop[t].tail = tail[s] /\ ~empty(s)
    BY DEF PopsCurrent, PopEnd
  <2>. QED  BY <2>1, PopQueue
<1>2. \A u \in Stream : /\ settled'[u] = settled[u] + (IF u = s THEN 1 ELSE 0)
                        /\ Held(u)' = Held(u)
  BY DEF Settle, OneOf, Held
<1>3. ASSUME NEW u \in Stream
      PROVE  Ordered(Held(u)', queue'[u], accepted'[u], settled'[u])
  <2>0. Ordered(Held(u), queue[u], accepted[u], settled[u])
    BY DEF Sound, AllOrdered
  <2>1. CASE u = s
    BY <2>0, <2>1, <1>1, <1>2, StreamTypes, OrderedDiscard
  <2>2. CASE u # s
    <3>1. settled'[u] = settled[u]
      BY <2>2, <1>2, StreamTypes
    <3>. QED  BY <2>0, <2>2, <3>1, <1>1, <1>2
  <2>. QED  BY <2>1, <2>2
<1>4. SizesKept'
  BY <1>1, QueueShrinks DEF Sound, SizesKept
<1>5. SizeTells'
  BY DEF Sound, SizeTells, hasData
<1>. QED  BY <1>3, <1>4, <1>5 DEF Sound, AllOrdered

\* An item is popped into the hand of the transport thread.
LEMMA TakeHeld ==
  ASSUME TypeOK, TypeOK', PopsCurrent, HandMatches, PopsMatch, NEW s \in Stream, Taken(s)
  PROVE  /\ queue[s] # << >> /\ queue'[s] = Tail(queue[s])
         /\ \A u \in Stream : u # s => queue'[u] = queue[u]
         /\ Held(s)' = Append(Held(s), Head(queue[s]).id)
         /\ \A u \in Stream : u # s => Held(u)' = Held(u)
         /\ worker'.item.size = Head(queue[s]).size
<1>1. /\ queue[s] # << >> /\ queue'[s] = Tail(queue[s])
      /\ \A u \in Stream : u # s => queue'[u] = queue[u]
      /\ Popped("worker") = Head(queue[s])
  <2>1. pop["worker"].tail = tail[s] /\ ~empty(s) /\ PopEnd("worker", s)
    BY DEF PopsCurrent, PopEnd, Taken, Thread
  <2>. QED  BY <2>1, PopQueue DEF Thread
<1>2. worker.item = NoItem
  <2>1. worker.pc = s
    BY DEF PopsMatch, PopEnd, Taken
  <2>. QED  BY <2>1 DEF HandMatches, Carrying, Stream
<1>3. worker'.item = [on |-> s, id |-> Head(queue[s]).id, size |-> Head(queue[s]).size]
  BY <1>1, TypeParts DEF Taken, WorkerType
<1>4. worker.item.on = "none" /\ packet' = packet
  BY <1>2 DEF NoItem, Taken
<1>. QED  BY <1>1, <1>3, <1>4, StreamFacts DEF Held

LEMMA SoundTake ==
  ASSUME TypeOK, TypeOK', Sound, PopsCurrent, HandMatches, PopsMatch, NEW s \in Stream,
         Taken(s)
  PROVE  Sound'
<1>1. UNCHANGED <<packet, accepted, settled>>
  BY DEF Taken
<1>2. ASSUME NEW u \in Stream
      PROVE  Ordered(Held(u)', queue'[u], accepted'[u], settled'[u])
  <2>0. Ordered(Held(u), queue[u], accepted[u], settled[u])
    BY DEF Sound, AllOrdered
  <2>1. CASE u = s
    BY <2>0, <2>1, <1>1, TakeHeld, StreamTypes, OrderedPack
  <2>2. CASE u # s
    BY <2>0, <2>2, <1>1, TakeHeld
  <2>. QED  BY <2>1, <2>2
<1>3. SizesKept'
  <2>1. worker'.item.size # 0
    BY TakeHeld, QueueShrinks
  <2>. QED  BY <1>1, <2>1, TakeHeld, QueueShrinks DEF Sound, SizesKept
<1>4. SizeTells'
  BY <1>1 DEF Sound, SizeTells, hasData
<1>. QED  BY <1>2, <1>3, <1>4 DEF Sound, AllOrdered

\* The item in hand is put into the packet.
LEMMA AppendHeld ==
  ASSUME TypeOK, HandMatches, worker.pc = "add", AppendEnd, NEW s \in Stream
  PROVE  Held(s)' = Held(s)
<1>1. /\ worker.item.on \in Packed /\ worker'.item = NoItem
      /\ packet'.ids = [packet.ids EXCEPT ![worker.item.on] = Append(@, worker.item.id)]
  BY TypeParts DEF HandMatches, Carrying, AppendEnd, WorkerType, appendEnsemble
<1>2. packet.ids \in [Stream -> Seq(Nat)]
  BY TypeParts DEF PacketType
<1>. QED  BY <1>1, <1>2, StreamFacts DEF Held, NoItem

LEMMA SoundAppend ==
  ASSUME TypeOK, TypeOK', Sound, HandMatches, Undisturbed, AppendEnd
  PROVE  Sound'
<1>1. /\ worker.pc = "add" /\ worker.item.on \in Packed /\ worker'.item = NoItem
      /\ worker.len = packet.used
      /\ UNCHANGED <<rings, accepted, settled>>
  BY TypeParts DEF AppendEnd, WorkerAt, HandMatches, Carrying, Undisturbed, WorkerType
<1>2. /\ packet'.ids = [packet.ids EXCEPT ![worker.item.on] = Append(@, worker.item.id)]
      /\ packet'.used = packet.used + worker.item.size
  BY <1>1 DEF AppendEnd, appendEnsemble
<1>3. queue' = queue
  BY <1>1, QueuesStay
<1>4. AllOrdered'
  BY <1>1, <1>3, AppendHeld DEF Sound, AllOrdered
<1>5. /\ packet.ids \in [Stream -> Seq(Nat)] /\ packet.used \in Nat
      /\ worker.item.size \in Nat /\ worker.item.id \in Nat
  BY TypeParts DEF PacketType, WorkerType, HandType
<1>6. worker.item.size # 0
  BY <1>1, StreamFacts DEF Sound, SizesKept
<1>7. SizesKept'
  BY <1>1, <1>2, <1>3, <1>5, StreamFacts DEF Sound, SizesKept, NoItem
<1>8. SizeTells'
  <2>1. packet'.used # 0
    BY <1>2, <1>5, <1>6
  <2>2. packet'.ids[worker.item.on] = Append(packet.ids[worker.item.on], worker.item.id)
    BY <1>1, <1>2, <1>5, StreamFacts
  <2>3. packet'.ids[worker.item.on] # << >>
    <3>1. packet.ids[worker.item.on] \in Seq(Nat)
      BY <1>1, <1>5, StreamFacts
    <3>2. \A q \in Seq(Nat), x \in Nat : Append(q, x) # << >>
      OBVIOUS
    <3>. QED  BY <2>2, <1>5, <3>1, <3>2
  <2>. QED  BY <1>1, <2>1, <2>3 DEF SizeTells, hasData
<1>. QED  BY <1>4, <1>7, <1>8 DEF Sound

\* An item is accepted.
LEMMA SoundEnqueue ==
  ASSUME TypeOK, TypeOK', Sound, NEW s \in Stream, NEW len \in Sizes[s], Enqueue(s, len)
  PROVE  Sound'
<1>. DEFINE item == [id |-> accepted[s] + 1, size |-> len]
<1>1. /\ push(s, item) /\ accepted' = [accepted EXCEPT ![s] = @ + 1]
      /\ UNCHANGED <<packet, settled, worker>>
  BY DEF Enqueue
<1>2. len \in Nat /\ item \in Item
  BY StreamAssumption, StreamTypes DEF Item
<1>3. /\ queue'[s] = Append(queue[s], item)
      /\ \A u \in Stream : u # s => queue'[u] = queue[u]
  BY <1>1, <1>2, PushQueue
<1>4. accepted'[s] = accepted[s] + 1 /\ \A u \in Stream : u # s => accepted'[u] = accepted[u]
  BY <1>1, TypeParts DEF CountsType
<1>5. ASSUME NEW u \in Stream
      PROVE  Ordered(Held(u)', queue'[u], accepted'[u], settled'[u])
  <2>0. Ordered(Held(u), queue[u], accepted[u], settled[u]) /\ Held(u)' = Held(u)
    BY <1>1 DEF Sound, AllOrdered, Held
  <2>1. CASE u = s
    BY <2>0, <2>1, <1>1, <1>2, <1>3, <1>4, StreamTypes, OrderedEnqueue
  <2>2. CASE u # s
    BY <2>0, <2>2, <1>1, <1>3, <1>4
  <2>. QED  BY <2>1, <2>2
<1>6. ASSUME NEW u \in Stream, NEW i \in 1 .. Len(queue'[u])
      PROVE  queue'[u][i].size \in Sizes[u]
  <2>1. queue[s] \in Seq(Item)
    BY StreamTypes
  <2>2. CASE u = s /\ i = Len(queue[s]) + 1
    <3>1. queue'[s][i] = item
      BY <2>1, <2>2, <1>2, <1>3
    <3>. QED  BY <2>2, <3>1
  <2>3. CASE u = s /\ i # Len(queue[s]) + 1
    <3>1. i \in 1 .. Len(queue[s]) /\ queue'[s][i] = queue[s][i]
      BY <2>1, <2>3, <1>2, <1>3
    <3>. QED  BY <3>1, <2>3 DEF Sound, SizesKept
  <2>4. CASE u # s
    BY <2>4, <1>3 DEF Sound, SizesKept
  <2>. QED  BY <2>2, <2>3, <2>4
<1>7. SizesKept' /\ SizeTells'
  BY <1>1, <1>6 DEF Sound, SizesKept, SizeTells, hasData
<1>. QED  BY <1>5, <1>7 DEF Sound, AllOrdered

-----------------------------------------------------------------------------
(***************************************************************************)
(* The steps of the specification.                                         *)
(***************************************************************************)
LEMMA RideSound ==
  ASSUME Control, Control', Undisturbed, Sound, Ride, ~clash, ~clash'
  PROVE  Sound'
<1>t. TypeOK /\ TypeOK' /\ PopsCurrent /\ WorkerType
  BY TypeParts DEF Control, Undisturbed, PopsCurrent
<1>1. CASE InitReset
  <2>1. worker'.item = worker.item
    BY <1>1, <1>t DEF InitReset, WorkerType
  <2>. QED  BY <1>1, <1>t, <2>1, SoundSend DEF InitReset
<1>2. CASE InitWipe
  <2>1. packet' = packet
    BY <1>2 DEF InitWipe, RideGoes, Undisturbed, EmptyPacket
  <2>. QED  BY <1>2, <2>1, SoundStays DEF InitWipe
<1>3. ASSUME NEW s \in Stream, InitDrop(s)  PROVE Sound'
  BY <1>3, <1>t, SoundDrop DEF InitDrop, Thread
<1>4. CASE \/ \E s \in Stream : InitPop(s) \/ InitNext(s)
           \/ InitDone \/ StartRunning \/ StartAccepting \/ StartBusy \/ ShutdownGate
           \/ StopRequest \/ StopRunning \/ StopSeesIdle \/ StopReturn
  <2>1. UNCHANGED <<rings, packet, accepted, settled, worker>>
    BY <1>4 DEF InitPop, InitNext, InitDone, StartRunning, StartAccepting, StartBusy,
       ShutdownGate, StopRequest, StopRunning, StopSeesIdle, StopReturn, data
  <2>. QED  BY <2>1, SoundStays
<1>5. ASSUME NEW s \in Stream, NEW len \in Sizes[s], Enqueue(s, len)  PROVE Sound'
  BY <1>5, <1>t, SoundEnqueue
<1>. QED  BY <1>1, <1>2, <1>3, <1>4, <1>5 DEF Ride

\* An item that has been found to fit, or has the packet to itself, is not refused.
LEMMA NotRefused ==
  ASSUME Control, Undisturbed, Sound, AppendBegin
  PROVE  canAppend(packet, worker.item.size)
<1>1. worker.pc = "append" /\ worker.item.on \in Packed
  BY DEF AppendBegin, WorkerAt, Control, HandMatches, Carrying
<1>2. packet.used \in Nat /\ worker.item.size \in Nat /\ Payload \in Nat
  BY TypeParts, PayloadAssumption DEF Control, PacketType, WorkerType, HandType
<1>3. packet.used + worker.item.size <= Payload /\ worker.item.size # 0
  BY <1>1, StreamFacts DEF Undisturbed, Sound, SizesKept
<1>. QED  BY <1>2, <1>3 DEF canAppend

\* Steps of the transport thread that move no item.
LEMMA WorkerKeepsItems ==
  ASSUME Control, Undisturbed, Sound,
         \/ LoopTest \/ Enter \/ RoundTest \/ PeriodicFlush \/ FinalFlush \/ QuietTest
         \/ StopTest \/ Rest \/ Fit \/ AppendBegin \/ Full
         \/ \E s \in Stream : Take(s) \/ TakeNone(s)
  PROVE  /\ UNCHANGED <<rings, packet, accepted, settled, ride>>
         /\ worker'.item = worker.item
<1>t. WorkerType
  BY TypeParts DEF Control
<1>1. CASE AppendBegin
  BY <1>1, <1>t, NotRefused DEF AppendBegin, WorkerType
<1>2. CASE \/ LoopTest \/ Enter \/ RoundTest \/ PeriodicFlush \/ FinalFlush \/ QuietTest
           \/ StopTest \/ Rest \/ Fit \/ Full \/ \E s \in Stream : Take(s) \/ TakeNone(s)
  <2>1. UNCHANGED <<rings, packet, accepted, settled, ride>>
    BY <1>2 DEF LoopTest, Enter, RoundTest, PeriodicFlush, FinalFlush, QuietTest, StopTest,
       Rest, Fit, Full, Take, TakeNone, data
  <2>2. worker'.item = worker.item
    BY <1>2, <1>t DEF LoopTest, Enter, RoundTest, PeriodicFlush, FinalFlush, QuietTest,
       StopTest, Rest, Fit, Full, Take, TakeNone, WorkerGoes, WorkerType
  <2>. QED  BY <2>1, <2>2
<1>. QED  BY <1>1, <1>2

LEMMA WorkerSound ==
  ASSUME Control, Control', Undisturbed, Sound, Worker, ~clash, ~clash'
  PROVE  Sound'
<1>t. TypeOK /\ TypeOK' /\ PopsCurrent /\ WorkerType /\ HandMatches /\ PopsMatch
  BY TypeParts DEF Control, Undisturbed, PopsCurrent
<1>1. CASE \/ LoopTest \/ Enter \/ RoundTest \/ PeriodicFlush \/ FinalFlush \/ QuietTest
           \/ StopTest \/ Rest \/ Fit \/ AppendBegin \/ Full
           \/ \E s \in Stream : Take(s) \/ TakeNone(s)
  BY <1>1, WorkerKeepsItems, SoundStays
<1>2. ASSUME NEW s \in Stream, Taken(s)  PROVE Sound'
  BY <1>2, <1>t, SoundTake
<1>3. ASSUME NEW s \in Stream, Served(s)  PROVE Sound'
  <2>1. worker'.item = worker.item
    BY <1>3, <1>t DEF Served, WorkerType
  <2>. QED  BY <1>3, <1>t, <2>1, SoundDrop DEF Served, Thread
<1>4. CASE AppendEnd
  BY <1>4, <1>t, SoundAppend
<1>5. CASE Close
  <2>1. worker'.item = worker.item
    BY <1>5, <1>t DEF Close, WorkerType
  <2>. QED  BY <1>5, <1>t, <2>1, SoundSend DEF Close
<1>. QED  BY <1>1, <1>2, <1>3, <1>4, <1>5 DEF Worker

LEMMA InitInv == Init => IInv
<1>. SUFFICES ASSUME Init  PROVE Control /\ ClashNoted /\ Undisturbed /\ Sound
  BY Parts
<1>1. /\ packet = EmptyPacket /\ settled = [s \in Stream |-> 0]
      /\ accepted = [s \in Stream |-> 0] /\ ride = "off"
      /\ head = [s \in Stream |-> 0] /\ tail = [s \in Stream |-> 0]
      /\ buffer = [s \in Stream |-> [i \in Slot(s) |-> [id |-> 0, size |-> 0]]]
      /\ pop = [t \in Thread |-> NoPop]
      /\ worker = [pc |-> "none", progress |-> FALSE, batch |-> 0,
                   item |-> NoItem, len |-> 0, then |-> "loop"]
  BY DEF Init
<1>2. \A s \in Stream : 0 \in Slot(s)
  BY CapacityFacts DEF Slot
<1>3. RingsType
  <2>1. [id |-> 0, size |-> 0] \in [id : Nat, size : Nat]
    OBVIOUS
  <2>2. \A s \in Stream : buffer[s] = [i \in Slot(s) |-> [id |-> 0, size |-> 0]]
    BY <1>1
  <2>3. ASSUME NEW s \in Stream  PROVE buffer[s] \in [Slot(s) -> [id : Nat, size : Nat]]
    <3>1. [i \in Slot(s) |-> [id |-> 0, size |-> 0]] \in [Slot(s) -> [id : Nat, size : Nat]]
      BY <2>1, Zenon
    <3>. QED  BY <2>2, <3>1
  <2>. QED  BY <1>1, <1>2, <2>3 DEF RingsType
<1>4. WorkerType /\ worker.pc = "none" /\ worker.item = NoItem
  <2>1. NoItem \in HandType /\ 0 \in 0 .. Payload /\ 0 \in 0 .. MaxBatch
    BY PayloadAssumption, BoundAssumption DEF NoItem, HandType
  <2>. QED  BY <1>1, <2>1 DEF WorkerType
<1>5. PopType /\ \A t \in Thread : pop[t].on = "none"
  BY <1>1 DEF PopType, NoPop
<1>6. TypeOK
  <2>1. FlagsType /\ RideType
    BY DEF Init, FlagsType, RideType
  <2>2. PacketType /\ CountsType
    BY <1>1, EmptyPacketFacts DEF PacketType, CountsType
  <2>. QED  BY <1>3, <1>4, <1>5, <2>1, <2>2, TypeParts
<1>7. PopsMatch /\ HandMatches
  BY <1>4, <1>5, StreamFacts DEF PopsMatch, HandMatches, Carrying, Thread, Stream
<1>8. SizesFit
  <2>1. \A s \in Packed : \A i \in Slot(s) : buffer[s][i].size = 0
    BY <1>1, StreamFacts
  <2>. QED  BY <1>4, <2>1, PayloadAssumption DEF SizesFit, NoItem
<1>9. ClashNoted
  BY <1>1, <1>4, <1>5, StreamFacts DEF ClashNoted, TwoBuilders, TwoConsumers, Thread
<1>10. Undisturbed
  BY <1>1, <1>4, <1>5, StreamFacts DEF Undisturbed
<1>11. \A s \in Stream : queue[s] = << >> /\ Held(s) = << >> /\ packet.ids[s] = << >>
  <2>1. \A s \in Stream : empty(s)
    BY <1>1 DEF empty
  <2>2. \A s \in Stream : Held(s) = packet.ids[s]
    BY <1>4, StreamFacts DEF Held, NoItem
  <2>. QED  BY <1>1, <1>6, <2>1, <2>2, QueueSeq, EmptyPacketFacts
<1>12. SizesKept /\ SizeTells
  <2>1. \A s \in Stream : Len(queue[s]) = 0
    BY <1>11
  <2>. QED
    BY <1>1, <1>4, <1>11, <2>1, EmptyPacketFacts, StreamFacts
       DEF SizesKept, SizeTells, hasData, NoItem
<1>13. AllOrdered
  <2>1. ASSUME NEW has, NEW waiting, Len(has) = 0, Len(waiting) = 0
        PROVE  Ordered(has, waiting, 0, 0)
    BY <2>1 DEF Ordered
  <2>2. Len(<< >>) = 0
    OBVIOUS
  <2>3. Ordered(<< >>, << >>, 0, 0)
    BY <2>1, <2>2, Zenon
  <2>. QED  BY <1>1, <1>11, <2>3 DEF AllOrdered
<1>. QED
  BY <1>6, <1>7, <1>8, <1>9, <1>10, <1>12, <1>13 DEF Control, Sound

LEMMA StepInv == IInv /\ [Next]_vars => IInv'
<1>. SUFFICES ASSUME IInv, [Next]_vars  PROVE IInv'
  OBVIOUS
<1>p. /\ Control /\ ClashNoted /\ (~clash => Undisturbed /\ Sound)
      /\ (Control' /\ ClashNoted' /\ (~clash' => Undisturbed' /\ Sound') => IInv')
  <2>1. Control' /\ ClashNoted' /\ (~clash' => Undisturbed' /\ Sound') => IInv'
    BY Parts, PTL
  <2>. QED  BY <2>1, Parts
<1>t. clash \in BOOLEAN
  BY <1>p DEF Control, TypeOK
<1>1. CASE Ride \/ Worker
  <2>1. NoteClash
    BY <1>1 DEF Ride, Worker
  <2>2. clash' \in BOOLEAN /\ ClashNoted' /\ (clash => clash')
    BY <1>t, <2>1 DEF NoteClash, ClashNoted
  <2>3. Control'
    BY <1>1, <1>p, <2>2, RideControl, WorkerControl
  <2>4. ASSUME ~clash'  PROVE Undisturbed' /\ Sound'
    <3>1. ~clash /\ Undisturbed /\ Sound
      BY <1>p, <2>2, <2>4
    <3>2. CASE Ride
      BY <1>p, <2>2, <2>3, <2>4, <3>1, <3>2, RideCalm, RideSound
    <3>3. CASE Worker
      BY <1>p, <2>2, <2>3, <2>4, <3>1, <3>3, WorkerCalm, WorkerSound
    <3>. QED  BY <1>1, <3>2, <3>3
  <2>. QED  BY <1>p, <2>2, <2>3, <2>4
<1>2. CASE Tick \/ UNCHANGED vars
  <2>1. UNCHANGED <<rings, packet, accepted, settled, ride, worker, pop, clash>>
    BY <1>2 DEF Tick, vars, data
  <2>2. Control'
    BY <1>2, <1>p, TickControl, StutterControl
  <2>3. ClashNoted'
    BY <1>p, <2>1 DEF ClashNoted, TwoBuilders, TwoConsumers
  <2>4. Undisturbed => Undisturbed'
    BY <2>1, PopsStay DEF Undisturbed, PopsCurrent
  <2>5. Sound => Sound'
    BY <2>1, SoundStays
  <2>. QED  BY <1>p, <2>1, <2>2, <2>3, <2>4, <2>5
<1>. QED  BY <1>1, <1>2 DEF Next

\* The inductive invariant holds in every reachable state, at the grain of the loads
\* and stores of the two threads.
THEOREM Inductive == Spec => []IInv
BY InitInv, StepInv, PTL DEF Spec

\* The flags, rings, packet and counts keep their types, also when both threads pop
\* one queue or work on the builder at a time (high_rate_stream.cpp:70-91 beside
\* serviceOnce): no index leaves its ring and no packet exceeds MAX_PAYLOAD_SIZE.
THEOREM TypeCorrect == Spec => []TypeOK
<1>1. IInv => TypeOK
  BY DEF IInv
<1>. QED  BY <1>1, Inductive, PTL

\* No accepted item is duplicated or lost track of on its way from enqueue... to
\* the radio or the recorder, and those in queue, hand and packet stay in order, until
\* the two threads have been in one queue or in the builder at the same time.
THEOREM OrderKept == Spec => []InOrder
<1>1. IInv => InOrder
  BY DEF IInv
<1>. QED  BY <1>1, Inductive, PTL

\* The flushes of serviceOnce, which ask the builder for its length, cannot
\* overlook an item in it, until there is a clash.
THEOREM FlushSeesItems == Spec => []NoDataMeansNoItem
<1>1. IInv => NoDataMeansNoItem
  BY DEF IInv
<1>. QED  BY <1>1, Inductive, PTL

-----------------------------------------------------------------------------
(***************************************************************************)
(* The service implements StreamDelivery.  What is on its way on a stream  *)
(* is a line: the ids p the transport thread has, and then those of the    *)
(* queue q.                                                                *)
(***************************************************************************)
Line(p, q) == p \o Ids(q)

\* What is left of a line when its first k have gone.
Behind(l, k) == SubSeq(l, k + 1, Len(l))

LEMMA SeqEqual ==
  ASSUME NEW a \in Seq(Nat), NEW b \in Seq(Nat), Len(a) = Len(b),
         \A i \in 1 .. Len(a) : a[i] = b[i]
  PROVE  a = b
OBVIOUS

LEMMA IdsFacts ==
  ASSUME NEW q \in Seq(Item)
  PROVE  /\ Ids(q) \in Seq(Nat) /\ Len(Ids(q)) = Len(q)
         /\ \A i \in 1 .. Len(q) : Ids(q)[i] = q[i].id
<1>1. ASSUME NEW i \in 1 .. Len(q)  PROVE q[i].id \in Nat
  <2>1. q[i] \in Item
    OBVIOUS
  <2>. QED  BY <2>1 DEF Item
<1>. QED  BY <1>1 DEF Ids

LEMMA IdsAppend ==
  ASSUME NEW q \in Seq(Item), NEW item \in Item
  PROVE  /\ Append(q, item) \in Seq(Item) /\ item.id \in Nat
         /\ Ids(Append(q, item)) = Append(Ids(q), item.id)
<1>. DEFINE r == Append(q, item)
            b == Ids(q)
            c == Ids(r)
            d == Append(b, item.id)
<1>1. /\ r \in Seq(Item) /\ Len(r) = Len(q) + 1
      /\ \A i \in 1 .. Len(q) + 1 : r[i] = IF i = Len(q) + 1 THEN item ELSE q[i]
  OBVIOUS
<1>2. item.id \in Nat
  BY DEF Item
<1>3. b \in Seq(Nat) /\ Len(b) = Len(q) /\ \A i \in 1 .. Len(q) : b[i] = q[i].id
  BY IdsFacts
<1>. HIDE DEF r
<1>4. c \in Seq(Nat) /\ Len(c) = Len(r) /\ \A i \in 1 .. Len(r) : c[i] = r[i].id
  BY <1>1, IdsFacts
<1>. HIDE DEF b, c
<1>5. /\ d \in Seq(Nat) /\ Len(d) = Len(q) + 1
      /\ \A i \in 1 .. Len(q) + 1 : d[i] = IF i = Len(q) + 1 THEN item.id ELSE b[i]
  BY <1>2, <1>3
<1>. HIDE DEF d
<1>6. ASSUME NEW i \in 1 .. Len(c)  PROVE c[i] = d[i]
  <2>1. CASE i = Len(q) + 1
    BY <2>1, <1>1, <1>4, <1>5
  <2>2. CASE i # Len(q) + 1
    <3>1. i \in 1 .. Len(q) /\ r[i] = q[i]
      BY <2>2, <1>1, <1>4
    <3>. QED  BY <3>1, <2>2, <1>1, <1>3, <1>4, <1>5
  <2>. QED  BY <2>1, <2>2
<1>7. c = d
  BY <1>1, <1>4, <1>5, <1>6, SeqEqual
<1>. QED  BY <1>1, <1>2, <1>7 DEF b, c, d, r

LEMMA IdsTail ==
  ASSUME NEW q \in Seq(Item), q # << >>
  PROVE  /\ Tail(q) \in Seq(Item) /\ Head(q).id \in Nat
         /\ Ids(q) = << Head(q).id >> \o Ids(Tail(q))
<1>. DEFINE t == Tail(q)
            x == Head(q).id
            b == Ids(t)
            c == Ids(q)
            d == << x >> \o b
<1>1. /\ t \in Seq(Item) /\ Len(q) \in Nat \ {0} /\ Len(t) = Len(q) - 1 /\ x \in Nat /\ x = q[1].id
      /\ \A i \in 1 .. Len(t) : t[i] = q[i + 1]
  BY QueueParts
<1>. HIDE DEF t, x
<1>2. b \in Seq(Nat) /\ Len(b) = Len(t) /\ \A i \in 1 .. Len(t) : b[i] = t[i].id
  BY <1>1, IdsFacts
<1>3. c \in Seq(Nat) /\ Len(c) = Len(q) /\ \A i \in 1 .. Len(q) : c[i] = q[i].id
  BY IdsFacts
<1>. HIDE DEF b, c
<1>4. /\ d \in Seq(Nat) /\ Len(d) = 1 + Len(b)
      /\ \A i \in 1 .. 1 + Len(b) : d[i] = IF i = 1 THEN x ELSE b[i - 1]
  BY <1>1, <1>2
<1>. HIDE DEF d
<1>5. ASSUME NEW i \in 1 .. Len(c)  PROVE c[i] = d[i]
  <2>1. CASE i = 1
    BY <2>1, <1>1, <1>2, <1>3, <1>4
  <2>2. CASE i # 1
    <3>1. i - 1 \in 1 .. Len(t) /\ i \in 1 .. 1 + Len(b) /\ (i - 1) + 1 = i
      BY <2>2, <1>1, <1>2, <1>3
    <3>2. b[i - 1] = q[i].id
      BY <3>1, <1>1, <1>2
    <3>. QED  BY <3>1, <3>2, <2>2, <1>3, <1>4
  <2>. QED  BY <2>1, <2>2
<1>6. c = d
  BY <1>1, <1>2, <1>3, <1>4, <1>5, SeqEqual
<1>. QED  BY <1>1, <1>6 DEF b, c, d, t, x

LEMMA LineType ==
  ASSUME NEW p \in Seq(Nat), NEW q \in Seq(Item)
  PROVE  Line(p, q) \in Seq(Nat) /\ Len(Line(p, q)) = Len(p) + Len(q)
<1>. DEFINE b == Ids(q)
<1>1. b \in Seq(Nat) /\ Len(b) = Len(q)
  BY IdsFacts
<1>. HIDE DEF b
<1>2. p \o b \in Seq(Nat) /\ Len(p \o b) = Len(p) + Len(b)
  <2>1. \A c \in Seq(Nat) : p \o c \in Seq(Nat) /\ Len(p \o c) = Len(p) + Len(c)
    OBVIOUS
  <2>. QED  BY <1>1, <2>1, Zenon
<1>. QED  BY <1>1, <1>2 DEF Line, b

\* The same of the sequences of numbers that a line is made of.
LEMMA ConcatAppend ==
  ASSUME NEW p \in Seq(Nat), NEW b \in Seq(Nat), NEW x \in Nat
  PROVE  p \o Append(b, x) = Append(p \o b, x)
OBVIOUS

LEMMA AppendConcat ==
  ASSUME NEW p \in Seq(Nat), NEW b \in Seq(Nat), NEW x \in Nat
  PROVE  Append(p, x) \o b = p \o (<< x >> \o b)
OBVIOUS

LEMMA ConcatBehind ==
  ASSUME NEW p \in Seq(Nat), NEW b \in Seq(Nat)
  PROVE  /\ Len(p) \in 0 .. Len(p \o b) /\ Behind(p \o b, Len(p)) = b
         /\ << >> \o b = b
BY DEF Behind

LEMMA ConcatWithout ==
  ASSUME NEW p \in Seq(Nat), NEW b \in Seq(Nat), NEW x \in Nat
  PROVE  /\ Len(p) + 1 \in 1 .. Len(p \o (<< x >> \o b))
         /\ Delivery!Without(p \o (<< x >> \o b), Len(p) + 1) = p \o b
<1>. DEFINE l == p \o (<< x >> \o b)
            c == p \o b
<1>1. /\ l \in Seq(Nat) /\ Len(l) = Len(p) + 1 + Len(b)
      /\ \A i \in 1 .. Len(p) : l[i] = p[i]
      /\ \A i \in 1 .. Len(b) : l[i + (Len(p) + 1)] = b[i]
  OBVIOUS
<1>2. /\ c \in Seq(Nat) /\ Len(c) = Len(p) + Len(b)
      /\ \A i \in 1 .. Len(p) + Len(b) : c[i] = IF i <= Len(p) THEN p[i] ELSE b[i - Len(p)]
  OBVIOUS
<1>. HIDE DEF l, c
<1>. DEFINE w == Delivery!Without(l, Len(p) + 1)
<1>3. w = [k \in 1 .. Len(c) |-> IF k < Len(p) + 1 THEN l[k] ELSE l[k + 1]]
  BY <1>1, <1>2 DEF Delivery!Without
<1>. HIDE DEF w
<1>4. ASSUME NEW k \in 1 .. Len(c)  PROVE w[k] = c[k]
  <2>1. CASE k <= Len(p)
    <3>1. k \in 1 .. Len(p) /\ k < Len(p) + 1
      BY <2>1
    <3>2. l[k] = p[k] /\ c[k] = p[k]
      BY <3>1, <2>1, <1>1, <1>2
    <3>3. w[k] = l[k]
      BY <3>1, <1>3
    <3>. QED  BY <3>2, <3>3
  <2>2. CASE k > Len(p)
    <3>1. k - Len(p) \in 1 .. Len(b) /\ (k - Len(p)) + (Len(p) + 1) = k + 1
      BY <2>2, <1>2
    <3>2. l[k + 1] = b[k - Len(p)]
      BY <3>1, <1>1
    <3>. QED  BY <3>2, <2>2, <1>2, <1>3
  <2>. QED  BY <2>1, <2>2, <1>2
<1>5. w = c
  <2>1. w \in Seq(Nat) /\ Len(w) = Len(c)
    <3>1. \A k \in 1 .. Len(c) : w[k] \in Nat
      BY <1>2, <1>4
    <3>. QED  BY <3>1, <1>2, <1>3
  <2>. QED  BY <2>1, <1>2, <1>4, SeqEqual
<1>6. Len(p) + 1 \in 1 .. Len(l)
  BY <1>1
<1>. QED  BY <1>5, <1>6 DEF w, c, l

LEMMA BehindFacts ==
  ASSUME NEW l \in Seq(Nat), NEW k \in 0 .. Len(l)
  PROVE  /\ Behind(l, k) \in Seq(Nat)
         /\ Len(Behind(l, k)) = Len(l) - k
         /\ \A i \in 1 .. Len(l) - k : Behind(l, k)[i] = l[i + k]
BY DEF Behind

LEMMA BehindNone ==
  ASSUME NEW l \in Seq(Nat)  PROVE Behind(l, 0) = l
<1>1. 0 \in 0 .. Len(l) /\ Len(l) \in Nat
  OBVIOUS
<1>. QED  BY <1>1, BehindFacts, SeqEqual

\* An item that is accepted goes to the end of the line.
LEMMA LineAccept ==
  ASSUME NEW p \in Seq(Nat), NEW q \in Seq(Item), NEW item \in Item
  PROVE  Line(p, Append(q, item)) = Append(Line(p, q), item.id)
<1>1. Ids(q) \in Seq(Nat) /\ item.id \in Nat /\ Ids(Append(q, item)) = Append(Ids(q), item.id)
  BY IdsFacts, IdsAppend
<1>. QED  BY <1>1, ConcatAppend DEF Line

\* An item that is packed keeps its place in the line.
LEMMA LinePack ==
  ASSUME NEW p \in Seq(Nat), NEW q \in Seq(Item), q # << >>
  PROVE  Line(Append(p, Head(q).id), Tail(q)) = Line(p, q)
<1>1. Tail(q) \in Seq(Item) /\ Head(q).id \in Nat /\ Ids(q) = << Head(q).id >> \o Ids(Tail(q))
  BY IdsTail
<1>2. Ids(Tail(q)) \in Seq(Nat)
  BY <1>1, IdsFacts
<1>. QED  BY <1>1, <1>2, AppendConcat DEF Line

LEMMA ConcatParts ==
  ASSUME NEW p \in Seq(Nat), NEW b \in Seq(Nat)
  PROVE  /\ p \o b \in Seq(Nat) /\ Len(p \o b) = Len(p) + Len(b)
         /\ \A i \in 1 .. Len(p) + Len(b) :
              (p \o b)[i] = IF i <= Len(p) THEN p[i] ELSE b[i - Len(p)]
OBVIOUS

\* When the first k of the ids leave, the rest of the line stays.
LEMMA LineSend ==
  ASSUME NEW p \in Seq(Nat), NEW q \in Seq(Item), NEW k \in 0 .. Len(p),
         NEW r \in Seq(Nat), Len(r) = Len(p) - k, \A i \in 1 .. Len(r) : r[i] = p[i + k]
  PROVE  /\ k \in 0 .. Len(Line(p, q))
         /\ Line(r, q) = Behind(Line(p, q), k)
<1>. DEFINE b == Ids(q)
            l == p \o b
            c == r \o b
            w == Behind(l, k)
<1>1. b \in Seq(Nat)
  BY IdsFacts
<1>. HIDE DEF b
<1>2. /\ l \in Seq(Nat) /\ Len(l) = Len(p) + Len(b)
      /\ \A i \in 1 .. Len(p) + Len(b) : l[i] = IF i <= Len(p) THEN p[i] ELSE b[i - Len(p)]
  BY <1>1, ConcatParts, Zenon
<1>3. /\ c \in Seq(Nat) /\ Len(c) = Len(r) + Len(b)
      /\ \A i \in 1 .. Len(r) + Len(b) : c[i] = IF i <= Len(r) THEN r[i] ELSE b[i - Len(r)]
  BY <1>1, ConcatParts, Zenon
<1>. HIDE DEF l, c
<1>4. k \in 0 .. Len(l) /\ Len(b) \in Nat /\ Len(p) \in Nat /\ Len(r) \in Nat
  BY <1>1, <1>2
<1>5. w \in Seq(Nat) /\ Len(w) = Len(l) - k /\ \A i \in 1 .. Len(l) - k : w[i] = l[i + k]
  BY <1>2, <1>4, BehindFacts
<1>. HIDE DEF w
<1>6. ASSUME NEW i \in 1 .. Len(c)  PROVE c[i] = w[i]
  <2>0. w[i] = l[i + k] /\ i + k \in 1 .. Len(p) + Len(b) /\ i \in 1 .. Len(r) + Len(b)
    BY <1>2, <1>3, <1>4, <1>5
  <2>1. CASE i <= Len(r)
    <3>1. i \in 1 .. Len(r) /\ i + k <= Len(p)
      BY <2>0, <2>1, <1>4
    <3>. QED  BY <2>0, <2>1, <3>1, <1>2, <1>3
  <2>2. CASE i > Len(r)
    <3>1. ~(i <= Len(r)) /\ ~(i + k <= Len(p)) /\ (i + k) - Len(p) = i - Len(r)
      BY <2>0, <2>2, <1>4
    <3>. QED  BY <2>0, <3>1, <1>2, <1>3
  <2>. QED  BY <2>0, <2>1, <2>2, <1>4
<1>7. c = w
  <2>1. Len(c) = Len(w)
    BY <1>2, <1>3, <1>4, <1>5
  <2>. QED  BY <1>3, <1>5, <1>6, <2>1, SeqEqual, Zenon
<1>. QED  BY <1>4, <1>7 DEF Line, w, c, l, b

\* An item taken off the queue is missing from the line.
LEMMA LineDiscard ==
  ASSUME NEW p \in Seq(Nat), NEW q \in Seq(Item), q # << >>
  PROVE  /\ Len(p) + 1 \in 1 .. Len(Line(p, q))
         /\ Line(p, Tail(q)) = Delivery!Without(Line(p, q), Len(p) + 1)
<1>1. Tail(q) \in Seq(Item) /\ Head(q).id \in Nat /\ Ids(q) = << Head(q).id >> \o Ids(Tail(q))
  BY IdsTail
<1>2. Ids(Tail(q)) \in Seq(Nat)
  BY <1>1, IdsFacts
<1>. QED  BY <1>1, <1>2, ConcatWithout DEF Line

\* It is the first of the line when the transport thread has none.
LEMMA LineServe ==
  ASSUME NEW p \in Seq(Nat), NEW q \in Seq(Item), p = << >>, q # << >>
  PROVE  /\ 1 \in 0 .. Len(Line(p, q))
         /\ Line(p, Tail(q)) = Behind(Line(p, q), 1)
<1>. DEFINE r == Append(p, Head(q).id)
<1>1. Tail(q) \in Seq(Item) /\ Head(q).id \in Nat
  BY QueueParts
<1>2. r \in Seq(Nat) /\ Len(r) = 1 /\ Len(p) = 0
  BY <1>1
<1>3. Line(r, Tail(q)) = Line(p, q)
  BY <1>1, LinePack
<1>. HIDE DEF r
<1>4. 1 \in 0 .. Len(r) /\ Len(p) = Len(r) - 1 /\ \A i \in 1 .. Len(p) : p[i] = r[i + 1]
  BY <1>2
<1>5. /\ 1 \in 0 .. Len(Line(r, Tail(q)))
      /\ Line(p, Tail(q)) = Behind(Line(r, Tail(q)), 1)
  BY <1>1, <1>2, <1>4, LineSend, Zenon
<1>. QED  BY <1>3, <1>5, Zenon

-----------------------------------------------------------------------------
(***************************************************************************)
(* The steps of the service are steps of StreamDelivery.                   *)
(***************************************************************************)
LEMMA WayFacts ==
  ASSUME NEW s \in Stream
  PROVE  /\ OnTheWay[s] = Line(Held(s), queue[s])
         /\ OnTheWay'[s] = Line(Held(s)', queue'[s])
BY DEF OnTheWay, Line

LEMMA WayType ==
  ASSUME TypeOK, NEW s \in Stream
  PROVE  OnTheWay[s] \in Seq(Nat) /\ Len(OnTheWay[s]) \in Nat
<1>1. OnTheWay[s] \in Seq(Nat)
  BY StreamTypes, LineType, WayFacts
<1>. QED  BY <1>1

\* Nothing moves.
LEMMA StandStill ==
  ASSUME UNCHANGED <<rings, packet, accepted, settled>>, worker'.item = worker.item
  PROVE  UNCHANGED <<OnTheWay, accepted, settled>>
BY QueuesStay DEF OnTheWay, Held

\* The first n[s] items of every stream s leave.
LEMMA LeaveStep ==
  ASSUME TypeOK, NEW n, UNCHANGED accepted, settled' \in [Stream -> Nat],
         \A s \in Stream :
           /\ n[s] \in 0 .. Len(OnTheWay[s])
           /\ settled'[s] = settled[s] + n[s]
           /\ OnTheWay'[s] = Behind(OnTheWay[s], n[s])
  PROVE  Delivery!Leave(Delivery!Left)
<1>1. ASSUME NEW s \in Stream
      PROVE  /\ Len(OnTheWay[s]) \in Nat /\ settled[s] \in Nat
             /\ Delivery!Left[s] = n[s]
  <2>1. settled[s] \in Nat /\ Len(OnTheWay[s]) \in Nat
    BY StreamTypes, WayType
  <2>2. Delivery!Left[s] = settled'[s] - settled[s]
    BY DEF Delivery!Left
  <2>. QED  BY <2>1, <2>2
<1>. DEFINE left == Delivery!Left
<1>2. \A s \in Stream : left[s] = n[s]
  BY <1>1
<1>. HIDE DEF left
<1>3. \A s \in Stream : left[s] \in 0 .. Len(OnTheWay[s])
  BY <1>2
<1>4. OnTheWay' = [s \in Stream |-> SubSeq(OnTheWay[s], left[s] + 1, Len(OnTheWay[s]))]
  <2>1. \A s \in Stream :
          OnTheWay'[s] = SubSeq(OnTheWay[s], left[s] + 1, Len(OnTheWay[s]))
    BY <1>2 DEF Behind
  <2>2. OnTheWay' = [s \in Stream |-> OnTheWay'[s]]
    BY DEF OnTheWay
  <2>. QED  BY <2>1, <2>2, Zenon
<1>5. settled' = [s \in Stream |-> settled[s] + left[s]]
  <2>1. \A s \in Stream : settled'[s] = settled[s] + left[s]
    BY <1>2
  <2>. QED  BY <2>1
<1>6. Delivery!Leave(left)
  BY <1>3, <1>4, <1>5 DEF Delivery!Leave
<1>. QED  BY <1>6 DEF left

\* The packet is finalized: what is in it leaves.
LEMMA SendWay ==
  ASSUME TypeOK, TypeOK', ~clash, packet' = EmptyPacket, Settle(InPacket),
         UNCHANGED <<rings, accepted>>, worker'.item = worker.item
  PROVE  Delivery!Leave(Delivery!Left)
<1>1. ASSUME NEW s \in Stream
      PROVE  /\ InPacket[s] \in 0 .. Len(OnTheWay[s])
             /\ settled'[s] = settled[s] + InPacket[s]
             /\ OnTheWay'[s] = Behind(OnTheWay[s], InPacket[s])
  <2>1. Held(s) \in Seq(Nat) /\ queue[s] \in Seq(Item) /\ queue'[s] = queue[s]
    BY StreamTypes, QueuesStay
  <2>2. settled'[s] = settled[s] + InPacket[s]
    BY DEF Settle
  <2>3. /\ InPacket[s] \in 0 .. Len(Held(s)) /\ Held(s)' \in Seq(Nat)
        /\ Len(Held(s)') = Len(Held(s)) - InPacket[s]
        /\ \A i \in 1 .. Len(Held(s)') : Held(s)'[i] = Held(s)[i + InPacket[s]]
    BY SendSplit
  <2>4. /\ InPacket[s] \in 0 .. Len(Line(Held(s), queue[s]))
        /\ Line(Held(s)', queue[s]) = Behind(Line(Held(s), queue[s]), InPacket[s])
    BY <2>1, <2>3, LineSend, Zenon
  <2>5. /\ OnTheWay[s] = Line(Held(s), queue[s])
        /\ OnTheWay'[s] = Line(Held(s)', queue'[s])
    BY WayFacts
  <2>. QED  BY <2>1, <2>2, <2>4, <2>5, Zenon
<1>2. settled' \in [Stream -> Nat]
  BY DEF TypeOK
<1>. HIDE DEF InPacket
<1>. QED  BY <1>1, <1>2, LeaveStep

\* An item is popped that is not packed.
LEMMA ServeWay ==
  ASSUME Control, Control', Undisturbed, Sound, ~clash, NEW s \in Stream, Served(s)
  PROVE  Delivery!Leave(Delivery!Left)
<1>. DEFINE n == OneOf(s)
<1>1. /\ TypeOK /\ TypeOK' /\ WorkerType /\ worker.item = NoItem /\ s \notin Packed
      /\ PopEnd("worker", s) /\ worker'.item = worker.item
      /\ UNCHANGED <<packet, accepted>>
  <2>1. /\ TypeOK /\ TypeOK' /\ WorkerType /\ PopEnd("worker", s) /\ s \notin Packed
        /\ UNCHANGED <<packet, accepted>>
    BY TypeParts DEF Control, Served
  <2>2. worker.pc = s
    BY <2>1 DEF Control, PopsMatch, PopEnd
  <2>3. worker.item = NoItem
    BY <2>2 DEF Control, HandMatches, Carrying, Stream
  <2>4. worker'.item = worker.item
    BY <2>1 DEF Served, WorkerType
  <2>. QED  BY <2>1, <2>3, <2>4
<1>2. /\ queue[s] # << >> /\ queue'[s] = Tail(queue[s])
      /\ \A t \in Stream : t # s => queue'[t] = queue[t]
  <2>1. pop["worker"].tail = tail[s] /\ ~empty(s)
    BY <1>1 DEF Undisturbed, PopEnd, Thread
  <2>. QED  BY <1>1, <2>1, PopQueue DEF Thread
<1>3. \A t \in Stream : Held(t) = packet.ids[t] /\ Held(t)' = Held(t)
  BY <1>1, StreamFacts DEF Held, NoItem
<1>4. Held(s) = << >>
  BY <1>1, <1>3 DEF Sound, SizesKept
<1>5. \A t \in Stream : settled'[t] = settled[t] + n[t] /\ n[t] = IF t = s THEN 1 ELSE 0
  BY DEF Served, Settle, OneOf
<1>. HIDE DEF n
<1>6. ASSUME NEW t \in Stream
      PROVE  /\ n[t] \in 0 .. Len(OnTheWay[t])
             /\ settled'[t] = settled[t] + n[t]
             /\ OnTheWay'[t] = Behind(OnTheWay[t], n[t])
  <2>1. Held(t) \in Seq(Nat) /\ queue[t] \in Seq(Item)
    BY <1>1, StreamTypes
  <2>2. CASE t = s
    <3>1. n[t] = 1 /\ Held(t) = << >> /\ queue[t] # << >> /\ queue'[t] = Tail(queue[t])
      BY <2>2, <1>2, <1>4, <1>5
    <3>. QED  BY <1>3, <1>5, <2>1, <3>1, WayFacts, LineServe
  <2>3. CASE t # s
    <3>1. queue'[t] = queue[t] /\ n[t] = 0
      BY <2>3, <1>2, <1>5
    <3>2. OnTheWay'[t] = OnTheWay[t]
      BY <1>3, <3>1, WayFacts
    <3>. QED  BY <1>1, <1>5, <3>1, <3>2, WayType, BehindNone
  <2>. QED  BY <2>2, <2>3
<1>7. settled' \in [Stream -> Nat] /\ UNCHANGED accepted
  BY <1>1 DEF TypeOK
<1>. QED  BY <1>1, <1>6, <1>7, LeaveStep

\* An item that is popped into the hand keeps its place in the line.
LEMMA TakeWay ==
  ASSUME Control, Control', Undisturbed, NEW s \in Stream, Taken(s)
  PROVE  UNCHANGED <<OnTheWay, accepted, settled>>
<1>1. TypeOK /\ TypeOK' /\ PopsCurrent /\ HandMatches /\ PopsMatch
  BY DEF Control, Undisturbed, PopsCurrent
<1>2. ASSUME NEW t \in Stream  PROVE OnTheWay'[t] = OnTheWay[t]
  <2>1. Held(t) \in Seq(Nat) /\ queue[t] \in Seq(Item)
    BY <1>1, StreamTypes
  <2>2. CASE t = s
    BY <1>1, <2>1, <2>2, TakeHeld, WayFacts, LinePack
  <2>3. CASE t # s
    BY <1>1, <2>3, TakeHeld, WayFacts
  <2>. QED  BY <2>2, <2>3
<1>3. OnTheWay' = OnTheWay
  BY <1>2 DEF OnTheWay
<1>. QED  BY <1>3 DEF Taken

\* So does an item that is put into the packet.
LEMMA AppendWay ==
  ASSUME Control, AppendEnd
  PROVE  UNCHANGED <<OnTheWay, accepted, settled>>
<1>1. worker.pc = "add" /\ TypeOK /\ HandMatches
  BY DEF Control, AppendEnd, WorkerAt
<1>2. \A s \in Stream : Held(s)' = Held(s)
  BY <1>1, AppendHeld
<1>3. UNCHANGED queue
  BY QueuesStay DEF AppendEnd
<1>. QED  BY <1>2, <1>3 DEF OnTheWay, AppendEnd

\* The reset before a ride: the first packet leaves, then the queues are drained.
LEMMA ResetWay ==
  ASSUME Control, Control', ~clash, InitReset
  PROVE  Delivery!Reset
<1>1. Phase = "closed" /\ Phase' = "resetting"
  BY DEF InitReset, RideGoes, Phase, Stream
<1>2. TypeOK /\ TypeOK' /\ worker'.item = worker.item
  BY TypeParts DEF Control, InitReset, WorkerType
<1>3. Delivery!Leave(Delivery!Left)
  BY <1>2, SendWay DEF InitReset
<1>. QED  BY <1>1, <1>3 DEF Delivery!Reset

LEMMA DiscardWay ==
  ASSUME Control, Control', Undisturbed, ~clash, NEW s \in Stream, InitDrop(s)
  PROVE  Delivery!Discard(s)
<1>1. /\ TypeOK /\ TypeOK' /\ PopEnd("ride", s) /\ ride = s
      /\ UNCHANGED <<packet, accepted, ride, worker>>
      /\ settled' = [t \in Stream |-> settled[t] + (IF t = s THEN 1 ELSE 0)]
  BY DEF Control, PopsMatch, InitDrop, PopEnd, Settle, OneOf
<1>2. Phase = "resetting" /\ Phase' = Phase
  <2>1. ride \in Stream
    BY <1>1
  <2>2. Phase = "resetting"
    BY <2>1 DEF Phase, Stream
  <2>3. Phase' = Phase
    BY <1>1 DEF Phase
  <2>. QED  BY <2>2, <2>3
<1>3. /\ queue[s] # << >> /\ queue'[s] = Tail(queue[s])
      /\ \A t \in Stream : t # s => queue'[t] = queue[t]
  <2>1. pop["ride"].tail = tail[s] /\ ~empty(s)
    BY <1>1 DEF Undisturbed, PopEnd, Thread
  <2>. QED  BY <1>1, <2>1, PopQueue DEF Thread
<1>4. \A t \in Stream : Held(t)' = Held(t)
  BY <1>1 DEF Held
<1>5. /\ Len(Held(s)) + 1 \in 1 .. Len(OnTheWay[s])
      /\ OnTheWay'[s] = Delivery!Without(OnTheWay[s], Len(Held(s)) + 1)
  <2>1. /\ OnTheWay[s] = Line(Held(s), queue[s])
        /\ OnTheWay'[s] = Line(Held(s), Tail(queue[s]))
        /\ Held(s) \in Seq(Nat) /\ queue[s] \in Seq(Item)
    BY <1>1, <1>3, <1>4, WayFacts, StreamTypes
  <2>. QED  BY <1>3, <2>1, LineDiscard
<1>6. \A t \in Stream : t # s => OnTheWay'[t] = OnTheWay[t]
  BY <1>3, <1>4, WayFacts
<1>7. OnTheWay' = [OnTheWay EXCEPT ![s] = Delivery!Without(@, Len(Held(s)) + 1)]
  <2>1. OnTheWay = [t \in Stream |-> OnTheWay[t]] /\ OnTheWay' = [t \in Stream |-> OnTheWay'[t]]
    BY DEF OnTheWay
  <2>. QED  BY <1>5, <1>6, <2>1
<1>8. settled' = [settled EXCEPT ![s] = @ + 1]
  <2>1. settled \in [Stream -> Nat]
    BY <1>1 DEF TypeOK
  <2>2. \A t \in Stream : settled'[t] = IF t = s THEN settled[s] + 1 ELSE settled[t]
    BY <1>1, <2>1
  <2>3. settled' = [t \in Stream |-> settled'[t]]
    BY <1>1
  <2>. QED  BY <2>1, <2>2, <2>3
<1>. QED  BY <1>1, <1>2, <1>5, <1>7, <1>8 DEF Delivery!Discard

LEMMA AcceptWay ==
  ASSUME Control, Control', NEW s \in Stream, NEW len \in Sizes[s], Enqueue(s, len)
  PROVE  Delivery!Accept(s)
<1>. DEFINE item == [id |-> accepted[s] + 1, size |-> len]
<1>1. /\ TypeOK /\ TypeOK' /\ push(s, item)
      /\ accepted' = [accepted EXCEPT ![s] = @ + 1]
      /\ UNCHANGED <<packet, settled, ride, worker>> /\ ride = "riding"
  BY DEF Control, Enqueue
<1>2. item \in Item /\ item.id = accepted[s] + 1
  BY <1>1, StreamAssumption, StreamTypes DEF Item
<1>. HIDE DEF item
<1>3. /\ Held(s) \in Seq(Nat) /\ queue[s] \in Seq(Item)
      /\ queue'[s] = Append(queue[s], item)
      /\ \A t \in Stream : t # s => queue'[t] = queue[t]
      /\ \A t \in Stream : Held(t)' = Held(t)
  BY <1>1, <1>2, StreamTypes, PushQueue DEF Held
<1>4. OnTheWay'[s] = Append(OnTheWay[s], accepted[s] + 1)
  BY <1>2, <1>3, WayFacts, LineAccept
<1>5. \A t \in Stream : t # s => OnTheWay'[t] = OnTheWay[t]
  BY <1>3, WayFacts
<1>6. OnTheWay' = [OnTheWay EXCEPT ![s] = Append(@, accepted[s] + 1)]
  <2>1. OnTheWay = [t \in Stream |-> OnTheWay[t]] /\ OnTheWay' = [t \in Stream |-> OnTheWay'[t]]
    BY DEF OnTheWay
  <2>. QED  BY <1>4, <1>5, <2>1
<1>7. Phase = "open" /\ Phase' = Phase
  BY <1>1 DEF Phase, Stream
<1>. QED  BY <1>1, <1>6, <1>7 DEF Delivery!Accept

\* The other steps of the ride thread only turn the phase, if that.
LEMMA TurnWay ==
  ASSUME \/ \E s \in Stream : InitPop(s) \/ InitNext(s)
         \/ InitDone \/ StartRunning \/ StartAccepting \/ StartBusy \/ ShutdownGate
         \/ StopRequest \/ StopRunning \/ StopSeesIdle \/ StopReturn
  PROVE  /\ UNCHANGED <<OnTheWay, accepted, settled>>
         /\ Phase' = Phase \/ Delivery!Turn
<1>1. UNCHANGED <<rings, packet, accepted, settled, worker>>
  BY DEF InitPop, InitNext, InitDone, StartRunning, StartAccepting, StartBusy,
     ShutdownGate, StopRequest, StopRunning, StopSeesIdle, StopReturn, data
<1>2. UNCHANGED <<OnTheWay, accepted, settled>>
  BY <1>1, StandStill
<1>3. \/ Phase' = Phase
      \/ <<Phase, Phase'>> \in {<<"resetting", "closed">>, <<"closed", "open">>,
                                <<"open", "closed">>}
  <2>1. CASE \E s \in Stream : InitPop(s)
    BY <2>1 DEF InitPop, Phase
  <2>2. CASE \E s \in Stream : InitNext(s)
    BY <2>2 DEF InitNext, RideGoes, DrainedNext, Phase, Stream
  <2>3. CASE \/ InitDone \/ StartRunning \/ StartAccepting \/ StartBusy \/ ShutdownGate
             \/ StopRequest \/ StopRunning \/ StopSeesIdle \/ StopReturn
    BY <2>3 DEF InitDone, StartRunning, StartAccepting, StartBusy, ShutdownGate,
       StopRequest, StopRunning, StopSeesIdle, StopReturn, RideGoes, Phase, Stream
  <2>. QED  BY <2>1, <2>2, <2>3
<1>. QED  BY <1>2, <1>3 DEF Delivery!Turn

LEMMA RideWay ==
  ASSUME Control, Control', Undisturbed, ~clash, UNCHANGED clash, Ride
  PROVE  [Delivery!Whole]_(Delivery!vars)
<1>1. CASE InitReset
  BY <1>1, ResetWay DEF Delivery!Whole
<1>2. CASE InitWipe
  <2>1. packet' = packet
    BY <1>2 DEF InitWipe, RideGoes, Undisturbed, EmptyPacket
  <2>2. UNCHANGED <<OnTheWay, accepted, settled>>
    BY <1>2, <2>1, StandStill DEF InitWipe
  <2>3. Phase' = Phase
    BY <1>2 DEF InitWipe, RideGoes, Phase, Stream
  <2>. QED  BY <2>2, <2>3 DEF Delivery!vars
<1>3. ASSUME NEW s \in Stream, InitDrop(s)  PROVE Delivery!Whole
  BY <1>3, DiscardWay DEF Delivery!Whole
<1>4. ASSUME NEW s \in Stream, NEW len \in Sizes[s], Enqueue(s, len)  PROVE Delivery!Whole
  BY <1>4, AcceptWay DEF Delivery!Whole
<1>5. CASE \/ \E s \in Stream : InitPop(s) \/ InitNext(s)
           \/ InitDone \/ StartRunning \/ StartAccepting \/ StartBusy \/ ShutdownGate
           \/ StopRequest \/ StopRunning \/ StopSeesIdle \/ StopReturn
  BY <1>5, TurnWay DEF Delivery!Whole, Delivery!vars
<1>. QED  BY <1>1, <1>2, <1>3, <1>4, <1>5 DEF Ride

LEMMA WorkerWay ==
  ASSUME Control, Control', Undisturbed, Sound, ~clash, UNCHANGED clash, Worker
  PROVE  [Delivery!Whole]_(Delivery!vars)
<1>. SUFFICES /\ UNCHANGED ride
              /\ \/ Delivery!Leave(Delivery!Left)
                 \/ UNCHANGED <<OnTheWay, accepted, settled>>
  BY DEF Phase, Delivery!Whole, Delivery!Deliver, Delivery!vars
<1>1. CASE \/ LoopTest \/ Enter \/ RoundTest \/ PeriodicFlush \/ FinalFlush \/ QuietTest
           \/ StopTest \/ Rest \/ Fit \/ AppendBegin \/ Full
           \/ \E s \in Stream : Take(s) \/ TakeNone(s)
  BY <1>1, WorkerKeepsItems, StandStill
<1>2. ASSUME NEW s \in Stream, Taken(s)
      PROVE  UNCHANGED ride /\ UNCHANGED <<OnTheWay, accepted, settled>>
  BY <1>2, TakeWay DEF Taken
<1>3. ASSUME NEW s \in Stream, Served(s)
      PROVE  UNCHANGED ride /\ Delivery!Leave(Delivery!Left)
  BY <1>3, ServeWay DEF Served
<1>4. CASE AppendEnd
  BY <1>4, AppendWay DEF AppendEnd
<1>5. CASE Close
  <2>1. TypeOK /\ TypeOK' /\ worker'.item = worker.item
    BY <1>5, TypeParts DEF Control, Close, WorkerType
  <2>. QED  BY <1>5, <2>1, SendWay DEF Close
<1>. QED  BY <1>1, <1>2, <1>3, <1>4, <1>5 DEF Worker

LEMMA StepWay == IInv /\ IInv' /\ [Next]_vars => [Delivery!Next]_(Delivery!vars)
<1>. SUFFICES ASSUME IInv, IInv', [Next]_vars  PROVE [Delivery!Next]_(Delivery!vars)
  OBVIOUS
<1>1. CASE clash' = TRUE
  <2>1. CASE clash
    BY <1>1, <2>1 DEF Delivery!Next, Delivery!Break
  <2>2. CASE ~clash /\ ~UNCHANGED vars
    <3>1. TwoBuilders' \/ \E s \in Stream : TwoConsumers(s)'
      BY <1>1, <2>2 DEF Next, Ride, Worker, NoteClash, Tick
    <3>2. ride' \in {"wiping"} \union Stream
      BY <3>1 DEF IInv, PopsMatch, TwoBuilders, TwoConsumers
    <3>3. Phase' = "resetting"
      BY <3>2 DEF Phase, Stream
    <3>. QED  BY <1>1, <3>3 DEF Delivery!Next, Delivery!Break
  <2>3. CASE ~clash /\ UNCHANGED vars
    BY <1>1, <2>3 DEF vars
  <2>. QED  BY <2>1, <2>2, <2>3
<1>2. CASE clash' # TRUE
  <2>1. clash \in BOOLEAN /\ clash' \in BOOLEAN
    BY DEF IInv, TypeOK
  <2>2. clash' = FALSE /\ clash = FALSE
    BY <1>2, <2>1 DEF Next, Ride, Worker, NoteClash, Tick, vars
  <2>3. Control /\ Undisturbed /\ Sound
    BY <2>2, Parts
  <2>4. Control'
    BY DEF IInv, Control
  <2>5. CASE Ride
    BY <2>2, <2>3, <2>4, <2>5, RideWay DEF Delivery!Next
  <2>6. CASE Worker
    BY <2>2, <2>3, <2>4, <2>6, WorkerWay DEF Delivery!Next
  <2>7. CASE Tick \/ UNCHANGED vars
    <3>1. UNCHANGED <<OnTheWay, accepted, settled>>
      BY <2>7, StandStill DEF Tick, vars, data
    <3>. QED  BY <2>2, <2>7, <3>1 DEF Tick, vars, Phase, Delivery!vars
  <2>. QED  BY <2>5, <2>6, <2>7 DEF Next
<1>. QED  BY <1>1, <1>2

LEMMA InitWay == Init => Delivery!Init
<1>. SUFFICES ASSUME Init  PROVE Delivery!Init
  OBVIOUS
<1>1. Phase = "closed"
  BY DEF Init, Phase, Stream
<1>2. TypeOK
  BY InitInv DEF IInv
<1>3. ASSUME NEW s \in Stream  PROVE OnTheWay[s] = << >>
  <2>1. empty(s) /\ worker.item = NoItem /\ packet = EmptyPacket
    BY DEF Init, empty
  <2>2. Held(s) = << >> /\ queue[s] = << >>
    BY <1>2, <2>1, QueueSeq, EmptyPacketFacts, StreamFacts DEF Held, NoItem
  <2>3. /\ Held(s) \in Seq(Nat) /\ queue[s] \in Seq(Item)
        /\ Len(Held(s)) = 0 /\ Len(queue[s]) = 0
    BY <1>2, <2>2, StreamTypes
  <2>4. OnTheWay[s] \in Seq(Nat) /\ Len(OnTheWay[s]) = 0
    BY <2>3, LineType, WayFacts
  <2>5. << >> \in Seq(Nat) /\ Len(<< >>) = 0
    OBVIOUS
  <2>. QED  BY <2>4, <2>5, SeqEqual
<1>4. OnTheWay = [s \in Stream |-> << >>]
  BY <1>3 DEF OnTheWay
<1>. QED  BY <1>1, <1>4 DEF Init, Delivery!Init

\* The service delivers each stream in order: whatever the two threads do, an item
\* that is accepted leaves after all those before it, on every stream, and only
\* init() between two rides ever takes one out of turn; until the two threads have
\* been in one queue or in the builder at the same time.
THEOREM Implementation == Spec => ImplementsDelivery
<1>. QED  BY Inductive, InitWay, StepWay, PTL DEF Spec, ImplementsDelivery, Delivery!Spec

=============================================================================
