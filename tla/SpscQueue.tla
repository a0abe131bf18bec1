----------------------------- MODULE SpscQueue -----------------------------
(***************************************************************************)
(* sf::util::SpscQueue<T, Capacity> (ble/spsc_queue.hpp): the lock-free    *)
(* ring between the ride thread (producer) and the transport thread        *)
(* (consumer).  One slot stays unused so that head = tail means "empty".   *)
(*                                                                         *)
(* Each step below contains at most one access to a location the other     *)
(* thread writes, so the interleavings are those of the code.  Every       *)
(* shared index has a single writer, stores it with release and the other  *)
(* side loads it with acquire: the slot accesses are ordered by those, and *)
(* NoSlotRace states that they really are.                                 *)
(*                                                                         *)
(* A definition marked "Defect" is no part of the specification: it is the *)
(* next definition with a plausible bug, and some property fails with it.  *)
(***************************************************************************)
EXTENDS Naturals, Sequences

CONSTANTS
  Item,      (* the element type T                              *)
  NoItem,    (* content of a slot that was never written        *)
  Capacity   (* slots of the ring, the unused one included      *)

\* static_assert(Capacity > 1)
ASSUME CapacityAssumption == Capacity \in Nat /\ Capacity > 1
ASSUME ItemAssumption == NoItem \notin Item

VARIABLES
  buffer,    (* buffer_                                                  *)
  head,      (* head_, written by the producer                           *)
  tail,      (* tail_, written by the consumer                           *)
  push,      (* the producer's call: pc, its local head and its argument *)
  pop,       (* the consumer's call: pc, its local tail and *out         *)
  pushAns,   (* what the last push returned                              *)
  popAns     (* what the consumer's last call returned                   *)

vars == <<buffer, head, tail, push, pop, pushAns, popAns>>

Index == 0 .. Capacity - 1

increment(idx) == (idx + 1) % Capacity

-----------------------------------------------------------------------------

Init ==
  /\ buffer = [i \in Index |-> NoItem]
  /\ head = 0
  /\ tail = 0
  /\ push = [pc |-> "idle", head |-> 0, item |-> NoItem]
  /\ pop  = [pc |-> "idle", tail |-> 0, item |-> NoItem]
  /\ pushAns = TRUE
  /\ popAns = [call |-> "pop", ok |-> FALSE, item |-> NoItem]

(***************************************************************************)
(* push(item): the test of tail_, the copy into the slot, and the store    *)
(* that publishes it.                                                      *)
(***************************************************************************)
\* Defect: the ring is not tested for being full.
PushUntested(item) ==
  /\ push.pc = "idle"
  /\ push' = [pc |-> "write", head |-> head, item |-> item]
  /\ UNCHANGED <<buffer, head, tail, pop, pushAns, popAns>>

PushTest(item) ==
  /\ push.pc = "idle"
  /\ IF increment(head) = tail
     THEN pushAns' = FALSE /\ UNCHANGED push
     ELSE /\ push' = [pc |-> "write", head |-> head, item |-> item]
          /\ UNCHANGED pushAns
  /\ UNCHANGED <<buffer, head, tail, pop, popAns>>

\* Defect: the item is copied into the slot the new head_ designates.
PushWriteAhead ==
  /\ push.pc = "write"
  /\ buffer' = [buffer EXCEPT ![increment(push.head)] = push.item]
  /\ push' = [push EXCEPT !.pc = "publish"]
  /\ UNCHANGED <<head, tail, pop, pushAns, popAns>>

PushWrite ==
  /\ push.pc = "write"
  /\ buffer' = [buffer EXCEPT ![push.head] = push.item]
  /\ push' = [push EXCEPT !.pc = "publish"]
  /\ UNCHANGED <<head, tail, pop, pushAns, popAns>>

PushPublish ==
  /\ push.pc = "publish"
  /\ head' = increment(push.head)
  /\ push' = [push EXCEPT !.pc = "idle"]
  /\ pushAns' = TRUE
  /\ UNCHANGED <<buffer, tail, pop, popAns>>

(***************************************************************************)
(* pop(out): the test of head_, the copy out of the slot, and the store    *)
(* that frees it.                                                          *)
(***************************************************************************)
PopTest ==
  /\ pop.pc = "idle"
  /\ IF head = tail
     THEN /\ popAns' = [call |-> "pop", ok |-> FALSE, item |-> NoItem]
          /\ UNCHANGED pop
     ELSE /\ pop' = [pop EXCEPT !.pc = "read", !.tail = tail]
          /\ UNCHANGED popAns
  /\ UNCHANGED <<buffer, head, tail, push, pushAns>>

PopRead ==
  /\ pop.pc = "read"
  /\ pop' = [pop EXCEPT !.pc = "free", !.item = buffer[pop.tail]]
  /\ UNCHANGED <<buffer, head, tail, push, pushAns, popAns>>

\* Defect: tail_ catches up with head_ instead of moving one slot.
PopFreeAll ==
  /\ pop.pc = "free"
  /\ tail' = head
  /\ pop' = [pop EXCEPT !.pc = "idle"]
  /\ popAns' = [call |-> "pop", ok |-> TRUE, item |-> pop.item]
  /\ UNCHANGED <<buffer, head, push, pushAns>>

PopFree ==
  /\ pop.pc = "free"
  /\ tail' = increment(pop.tail)
  /\ pop' = [pop EXCEPT !.pc = "idle"]
  /\ popAns' = [call |-> "pop", ok |-> TRUE, item |-> pop.item]
  /\ UNCHANGED <<buffer, head, push, pushAns>>

\* empty(), as the transport thread calls it between its pops.
Empty ==
  /\ pop.pc = "idle"
  /\ popAns' = [call |-> "empty", ok |-> head = tail, item |-> NoItem]
  /\ UNCHANGED <<buffer, head, tail, push, pop, pushAns>>

Producer == (\E item \in Item : PushTest(item)) \/ PushWrite \/ PushPublish
Consumer == PopTest \/ PopRead \/ PopFree \/ Empty

Next == Producer \/ Consumer

Spec == Init /\ [][Next]_vars

-----------------------------------------------------------------------------
(***************************************************************************)
(* Properties.                                                             *)
(***************************************************************************)

\* The number of published items: size().
size == IF head >= tail THEN head - tail ELSE Capacity - (tail - head)

\* The slot of the item that i others precede.
Slot(i) == IF tail + i < Capacity THEN tail + i ELSE tail + i - Capacity

\* The published items, oldest first.
Contents == [i \in 1 .. size |-> buffer[Slot(i - 1)]]

\* The type invariant of the ring, its indices and the two calls in progress.
TypeOK ==
  /\ buffer \in [Index -> Item \union {NoItem}]
  /\ head \in Index
  /\ tail \in Index
  /\ push \in [pc : {"idle", "write", "publish"}, head : Index,
               item : Item \union {NoItem}]
  /\ pop  \in [pc : {"idle", "read", "free"}, tail : Index,
               item : Item \union {NoItem}]
  /\ pushAns \in BOOLEAN
  /\ popAns \in [call : {"pop", "empty"}, ok : BOOLEAN,
                 item : Item \union {NoItem}]

\* While push is copying into a slot (spsc_queue.hpp:55) and pop is copying
\* out of one (line 91), they are not at the same slot: the two copies of a
\* multi-word element never overlap, in any order of the two threads.
NoSlotRace ==
  push.pc \in {"write", "publish"} /\ pop.pc \in {"read", "free"}
    => push.head # pop.tail

\* The ring is a FIFO of Capacity - 1 places whose calls take effect in one
\* step: push returns false only when all places are taken, pop and empty
\* report "empty" only when nothing is waiting, and what pop delivers is the
\* oldest item, once.
Fifo == INSTANCE BoundedFifo WITH queue <- Contents, Bound <- Capacity - 1
ImplementsFifo == Fifo!Spec

(***************************************************************************)
(* The inductive invariant behind NoSlotRace and ImplementsFifo: a call in *)
(* progress has an up-to-date copy of its own index, the slot it works on  *)
(* is free (push) or published (pop), and published slots hold items.      *)
(***************************************************************************)
PushInv ==
  /\ push.pc # "idle" => /\ push.head = head
                         /\ push.item \in Item
                         /\ increment(head) # tail
  /\ push.pc = "publish" => buffer[head] = push.item

PopInv ==
  /\ pop.pc # "idle" => pop.tail = tail /\ head # tail
  /\ pop.pc = "free" => pop.item = buffer[tail]

SlotsInv == \A i \in 0 .. Capacity - 2 : i < size => buffer[Slot(i)] \in Item

IInv == TypeOK /\ PushInv /\ PopInv /\ SlotsInv

=============================================================================
