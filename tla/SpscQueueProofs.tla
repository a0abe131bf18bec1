-------------------------- MODULE SpscQueueProofs --------------------------
(***************************************************************************)
(* Proofs about SpscQueue, for every Capacity > 1 and every set of items:  *)
(* type correctness, absence of slot races, and the refinement of          *)
(* BoundedFifo.                                                            *)
(***************************************************************************)
EXTENDS SpscQueue, TLAPS

\* The wrap-around of increment, without the modulo.
LEMMA IncrementWraps ==
  ASSUME NEW i \in Index
  PROVE  /\ increment(i) = IF i = Capacity - 1 THEN 0 ELSE i + 1
         /\ increment(i) \in Index
<1>1. CASE i = Capacity - 1
  BY <1>1, CapacityAssumption DEF increment, Index
<1>2. CASE i < Capacity - 1
  BY <1>2, CapacityAssumption DEF increment, Index
<1>. QED  BY <1>1, <1>2, CapacityAssumption DEF Index

\* size() lies between 0 and Capacity - 1, and is 0 exactly when head = tail.
LEMMA SizeRange ==
  ASSUME head \in Index, tail \in Index
  PROVE  /\ size \in 0 .. Capacity - 1
         /\ size = 0 <=> head = tail
         /\ size = Capacity - 1 <=> increment(head) = tail
BY CapacityAssumption, IncrementWraps DEF Index, size

\* The slots of the published items are slots of the ring, each of another
\* item; the one after them is the slot head designates.
LEMMA SlotRange ==
  ASSUME head \in Index, tail \in Index
  PROVE  /\ \A i \in 0 .. Capacity - 2 : Slot(i) \in Index
         /\ \A i \in 0 .. Capacity - 2 : i < size => Slot(i) # head
         /\ Slot(0) = tail
         /\ Slot(size) = head
BY CapacityAssumption DEF Index, size, Slot

-----------------------------------------------------------------------------
(***************************************************************************)
(* The inductive invariant.                                                *)
(***************************************************************************)

LEMMA InitIInv == Init => IInv
<1>. SUFFICES ASSUME Init  PROVE IInv
  OBVIOUS
<1>. USE DEF Init
<1>1. TypeOK
  BY CapacityAssumption DEF TypeOK, Index
<1>2. PushInv /\ PopInv
  BY DEF PushInv, PopInv
<1>3. SlotsInv
  BY DEF SlotsInv, size
<1>. QED  BY <1>1, <1>2, <1>3 DEF IInv

\* A successful push makes the ring longer by the slot at head.
LEMMA Grow ==
  ASSUME head \in Index, tail \in Index, increment(head) # tail,
         head' = increment(head), tail' = tail
  PROVE  /\ size' = size + 1
         /\ \A i \in 0 .. Capacity - 2 : Slot(i)' = Slot(i)
<1>. USE CapacityAssumption DEF Index
<1>1. size' = size + 1
  BY IncrementWraps DEF size
<1>2. \A i \in 0 .. Capacity - 2 : Slot(i)' = Slot(i)
  BY DEF Slot
<1>. QED  BY <1>1, <1>2

\* A successful pop makes it shorter by the slot at tail.
LEMMA Shrink ==
  ASSUME head \in Index, tail \in Index, head # tail,
         tail' = increment(tail), head' = head
  PROVE  /\ size' = size - 1
         /\ \A i \in 0 .. Capacity - 2 : i < size - 1 => Slot(i)' = Slot(i + 1)
<1>. USE CapacityAssumption DEF Index
<1>1. size' = size - 1
  BY IncrementWraps DEF size
<1>2. \A i \in 0 .. Capacity - 2 : i < size - 1 => Slot(i)' = Slot(i + 1)
  BY IncrementWraps, SizeRange DEF Slot
<1>. QED  BY <1>1, <1>2

LEMMA StepIInv == IInv /\ [Next]_vars => IInv'
<1>. SUFFICES ASSUME IInv, [Next]_vars  PROVE IInv'
  OBVIOUS
<1>. USE DEF IInv
<1>h. head \in Index /\ tail \in Index
  BY DEF TypeOK
<1>1. ASSUME NEW item \in Item, PushTest(item)  PROVE IInv'
  <2>1. TypeOK' /\ PushInv'
    <3>1. CASE increment(head) = tail
      BY <1>1, <3>1 DEF PushTest, TypeOK, PushInv
    <3>2. CASE increment(head) # tail
      BY <1>1, <3>2 DEF PushTest, TypeOK, PushInv
    <3>. QED  BY <3>1, <3>2
  <2>2. PopInv' /\ SlotsInv'
    BY <1>1 DEF PushTest, PopInv, SlotsInv, size, Slot
  <2>. QED  BY <2>1, <2>2
<1>2. CASE PushWrite
  <2>1. TypeOK' /\ PushInv'
    BY <1>2 DEF PushWrite, TypeOK, PushInv
  <2>2. PopInv'
    BY <1>2 DEF PushWrite, PopInv, PushInv, TypeOK
  <2>3. SlotsInv'
    <3>1. /\ size' = size
          /\ \A i \in 0 .. Capacity - 2 : Slot(i)' = Slot(i)
      BY <1>2 DEF PushWrite, size, Slot
    <3>2. \A i \in Index : i # head => buffer'[i] = buffer[i]
      BY <1>2 DEF PushWrite, PushInv, TypeOK
    <3>. QED  BY <3>1, <3>2, <1>h, SlotRange DEF SlotsInv
  <2>. QED  BY <2>1, <2>2, <2>3
<1>3. CASE PushPublish
  <2>1. /\ head' = increment(head) /\ tail' = tail /\ buffer' = buffer
        /\ increment(head) # tail /\ buffer[head] \in Item
    BY <1>3 DEF PushPublish, PushInv
  <2>2. TypeOK' /\ PushInv'
    BY <1>3, <2>1, IncrementWraps DEF PushPublish, TypeOK, PushInv
  <2>3. PopInv'
    BY <1>3, <2>1, <1>h, SizeRange DEF PushPublish, PopInv
  <2>4. SlotsInv'
    <3>. SUFFICES ASSUME NEW i \in 0 .. Capacity - 2, i < size'
                  PROVE  buffer'[Slot(i)'] \in Item
      BY DEF SlotsInv
    <3>1. size' = size + 1 /\ Slot(i)' = Slot(i)
      BY <2>1, <1>h, Grow
    <3>2. CASE i = size
      BY <3>2, <3>1, <2>1, <1>h, SlotRange
    <3>3. CASE i < size
      BY <3>3, <3>1, <2>1 DEF SlotsInv
    <3>. QED  BY <3>1, <3>2, <3>3, <1>h, SizeRange, CapacityAssumption
  <2>. QED  BY <2>2, <2>3, <2>4
<1>4. CASE PopTest
  <2>1. TypeOK' /\ PopInv'
    <3>1. CASE head = tail
      <4>1. popAns' = [call |-> "pop", ok |-> FALSE, item |-> NoItem]
        BY <1>4, <3>1 DEF PopTest
      <4>2. UNCHANGED <<buffer, head, tail, push, pop, pushAns>>
        BY <1>4, <3>1 DEF PopTest
      <4>. QED  BY <4>1, <4>2 DEF TypeOK, PopInv
    <3>2. CASE head # tail
      BY <1>4, <3>2 DEF PopTest, TypeOK, PopInv
    <3>. QED  BY <3>1, <3>2
  <2>2. PushInv' /\ SlotsInv'
    BY <1>4 DEF PopTest, PushInv, SlotsInv, size, Slot
  <2>. QED  BY <2>1, <2>2
<1>5. CASE PopRead
  <2>1. TypeOK' /\ PopInv'
    BY <1>5 DEF PopRead, TypeOK, PopInv
  <2>2. PushInv' /\ SlotsInv'
    BY <1>5 DEF PopRead, PushInv, SlotsInv, size, Slot
  <2>. QED  BY <2>1, <2>2
<1>6. CASE PopFree
  <2>1. /\ tail' = increment(tail) /\ head' = head /\ buffer' = buffer
        /\ head # tail
    BY <1>6 DEF PopFree, PopInv
  <2>2. TypeOK' /\ PopInv'
    BY <1>6, <2>1, IncrementWraps DEF PopFree, TypeOK, PopInv
  <2>3. PushInv'
    <3>1. head \in Index /\ increment(head) # tail => increment(head) # increment(tail)
      BY <2>1, <1>h, IncrementWraps, CapacityAssumption DEF Index
    <3>. QED  BY <1>6, <2>1, <3>1, <1>h DEF PopFree, PushInv
  <2>4. SlotsInv'
    <3>. SUFFICES ASSUME NEW i \in 0 .. Capacity - 2, i < size'
                  PROVE  buffer'[Slot(i)'] \in Item
      BY DEF SlotsInv
    <3>1. size' = size - 1 /\ i < size - 1 /\ Slot(i)' = Slot(i + 1)
      BY <2>1, <1>h, Shrink
    <3>2. i + 1 \in 0 .. Capacity - 2 /\ i + 1 < size
      BY <3>1, <1>h, SizeRange, CapacityAssumption
    <3>. QED  BY <3>1, <3>2, <2>1 DEF SlotsInv
  <2>. QED  BY <2>2, <2>3, <2>4
<1>7. CASE Empty
  <2>1. TypeOK'
    BY <1>7 DEF Empty, TypeOK
  <2>2. PushInv' /\ PopInv' /\ SlotsInv'
    BY <1>7 DEF Empty, PushInv, PopInv, SlotsInv, size, Slot
  <2>. QED  BY <2>1, <2>2
<1>8. CASE UNCHANGED vars
  BY <1>8 DEF vars, TypeOK, PushInv, PopInv, SlotsInv, size, Slot
<1>. QED
  BY <1>1, <1>2, <1>3, <1>4, <1>5, <1>6, <1>7, <1>8 DEF Next, Producer, Consumer

\* Every reachable state of the ring satisfies the inductive invariant: the
\* bookkeeping of push and pop (spsc_queue.hpp:46-94) is consistent at each
\* intermediate point of both calls.
THEOREM Inductive == Spec => []IInv
BY InitIInv, StepIInv, PTL DEF Spec

\* The variables keep their types: in particular head_ and tail_ stay valid
\* indices of buffer_.
THEOREM TypeCorrect == Spec => []TypeOK
<1>1. IInv => TypeOK
  BY DEF IInv
<1>. QED  BY <1>1, Inductive, PTL

\* The producer's copy into a slot and the consumer's copy out of one never
\* meet at the same slot, whatever the capacity.
THEOREM SlotRaceFree == Spec => []NoSlotRace
<1>1. IInv => NoSlotRace
  BY DEF IInv, PushInv, PopInv, NoSlotRace
<1>. QED  BY <1>1, Inductive, PTL

-----------------------------------------------------------------------------
(***************************************************************************)
(* The refinement of BoundedFifo.                                          *)
(***************************************************************************)

\* The abstract queue is a sequence of size items.
ContentsOK ==
  /\ Contents \in Seq(Item)
  /\ Len(Contents) = size
  /\ \A i \in 1 .. size : Contents[i] = buffer[Slot(i - 1)]

LEMMA ContentsSeq == IInv => ContentsOK
<1>. SUFFICES ASSUME IInv  PROVE ContentsOK
  OBVIOUS
<1>1. size \in 0 .. Capacity - 1
  BY SizeRange DEF IInv, TypeOK
<1>2. \A i \in 1 .. size : buffer[Slot(i - 1)] \in Item
  BY <1>1, CapacityAssumption DEF IInv, SlotsInv
<1>. QED  BY <1>1, <1>2, CapacityAssumption DEF ContentsOK, Contents

LEMMA InitFifo == Init => Fifo!Init
BY CapacityAssumption DEF Init, Fifo!Init, Contents, size

LEMMA StepFifo == IInv /\ [Next]_vars => [Fifo!Next]_Fifo!vars
<1>. SUFFICES ASSUME IInv, [Next]_vars  PROVE [Fifo!Next]_Fifo!vars
  OBVIOUS
<1>h. head \in Index /\ tail \in Index
  BY DEF IInv, TypeOK
<1>c. ContentsOK /\ ContentsOK'
  <2>1. IInv'
    BY StepIInv
  <2>. QED  BY <2>1, ContentsSeq, PTL
<1>1. ASSUME NEW item \in Item, PushTest(item)
      PROVE  [Fifo!Next]_Fifo!vars
  <2>0. Contents' = Contents
    BY <1>1 DEF PushTest, Contents, size, Slot
  <2>1. CASE increment(head) = tail
    <3>1. Len(Contents) = Capacity - 1
      BY <1>c, <2>1, <1>h, SizeRange DEF ContentsOK
    <3>. QED  BY <1>1, <2>0, <2>1, <3>1 DEF PushTest, Fifo!Next, Fifo!PushRefused
  <2>2. CASE increment(head) # tail
    BY <1>1, <2>0, <2>2 DEF PushTest, Fifo!vars
  <2>. QED  BY <2>1, <2>2
<1>2. CASE PushWrite
  <2>1. Contents' = Contents
    <3>1. size' = size /\ \A i \in 0 .. Capacity - 2 : Slot(i)' = Slot(i)
      BY <1>2 DEF PushWrite, size, Slot
    <3>2. \A i \in Index : i # head => buffer'[i] = buffer[i]
      BY <1>2 DEF PushWrite, IInv, PushInv, TypeOK
    <3>3. \A i \in 1 .. size : buffer'[Slot(i - 1)'] = buffer[Slot(i - 1)]
      BY <3>1, <3>2, <1>h, SizeRange, SlotRange, CapacityAssumption
    <3>. QED  BY <3>1, <3>3 DEF Contents
  <2>. QED  BY <1>2, <2>1 DEF PushWrite, Fifo!vars
<1>3. CASE PushPublish
  <2>1. /\ head' = increment(head) /\ tail' = tail /\ buffer' = buffer
        /\ increment(head) # tail /\ buffer[head] = push.item
        /\ push.item \in Item
    BY <1>3 DEF PushPublish, IInv, PushInv
  <2>2. /\ size' = size + 1 /\ size < Capacity - 1
        /\ size \in Nat
        /\ \A i \in 0 .. Capacity - 2 : Slot(i)' = Slot(i)
        /\ Slot(size) = head
    BY <2>1, <1>h, Grow, SizeRange, SlotRange, CapacityAssumption
  <2>3. Contents' = Append(Contents, push.item)
    <3>1. Len(Contents') = size + 1 /\ Contents' \in Seq(Item)
      BY <1>c, <2>2 DEF ContentsOK
    <3>2. \A i \in 1 .. size : Contents'[i] = Contents[i]
      BY <1>c, <2>1, <2>2, CapacityAssumption DEF ContentsOK
    <3>3. Contents'[size + 1] = push.item
      BY <1>c, <2>1, <2>2, CapacityAssumption DEF ContentsOK
    <3>. QED  BY <1>c, <2>1, <2>2, <3>1, <3>2, <3>3 DEF ContentsOK
  <2>4. Fifo!Push(push.item)
    BY <1>c, <1>3, <2>2, <2>3 DEF ContentsOK, PushPublish, Fifo!Push
  <2>. QED  BY <2>1, <2>4 DEF Fifo!Next
<1>4. CASE PopTest
  <2>0. Contents' = Contents
    BY <1>4 DEF PopTest, Contents, size, Slot
  <2>1. CASE head = tail
    <3>1. Contents = << >>
      BY <1>c, <2>1, <1>h, SizeRange DEF ContentsOK
    <3>. QED  BY <1>4, <2>0, <2>1, <3>1 DEF PopTest, Fifo!Next, Fifo!PopRefused
  <2>2. CASE head # tail
    BY <1>4, <2>0, <2>2 DEF PopTest, Fifo!vars
  <2>. QED  BY <2>1, <2>2
<1>5. CASE PopRead
  BY <1>5 DEF PopRead, Fifo!vars, Contents, size, Slot
<1>6. CASE PopFree
  <2>1. /\ tail' = increment(tail) /\ head' = head /\ buffer' = buffer
        /\ head # tail /\ pop.item = buffer[tail]
    BY <1>6 DEF PopFree, IInv, PopInv
  <2>2. /\ size' = size - 1 /\ size > 0 /\ size \in 0 .. Capacity - 1
        /\ \A i \in 0 .. Capacity - 2 : i < size - 1 => Slot(i)' = Slot(i + 1)
        /\ Slot(0) = tail
    BY <2>1, <1>h, Shrink, SizeRange, SlotRange, CapacityAssumption
  <2>3. Contents # << >> /\ Head(Contents) = pop.item
    BY <1>c, <2>1, <2>2, CapacityAssumption DEF ContentsOK
  <2>4. Contents' = Tail(Contents)
    <3>1. Len(Contents') = size - 1 /\ Contents' \in Seq(Item)
      BY <1>c, <2>2 DEF ContentsOK
    <3>2. ASSUME NEW i \in 1 .. size - 1
          PROVE  Contents'[i] = Contents[i + 1]
      <4>1. Contents'[i] = buffer[Slot(i - 1)'] /\ Slot(i - 1)' = Slot(i)
        BY <1>c, <2>1, <2>2, CapacityAssumption DEF ContentsOK
      <4>2. Contents[i + 1] = buffer[Slot(i)]
        BY <1>c, <2>2 DEF ContentsOK
      <4>. QED  BY <4>1, <4>2
    <3>. QED  BY <1>c, <2>2, <2>3, <3>1, <3>2 DEF ContentsOK
  <2>5. Fifo!Pop
    BY <1>6, <2>3, <2>4 DEF PopFree, Fifo!Pop
  <2>. QED  BY <2>5 DEF Fifo!Next
<1>7. CASE Empty
  <2>0. Contents' = Contents
    BY <1>7 DEF Empty, Contents, size, Slot
  <2>1. (head = tail) <=> (Contents = << >>)
    BY <1>c, <1>h, SizeRange DEF ContentsOK
  <2>2. Fifo!Empty
    BY <1>7, <2>0, <2>1 DEF Empty, Fifo!Empty
  <2>. QED  BY <2>2 DEF Fifo!Next
<1>8. CASE UNCHANGED vars
  BY <1>8 DEF vars, Fifo!vars, Contents, size, Slot
<1>. QED
  BY <1>1, <1>2, <1>3, <1>4, <1>5, <1>6, <1>7, <1>8 DEF Next, Producer, Consumer

\* SpscQueue implements BoundedFifo: with any capacity and any interleaving of
\* the two threads, push, pop and empty behave like the operations of a queue
\* of Capacity - 1 places that each take effect in one step.
THEOREM Refinement == Spec => ImplementsFifo
BY InitFifo, StepFifo, Inductive, PTL DEF Spec, ImplementsFifo, Fifo!Spec

=============================================================================
