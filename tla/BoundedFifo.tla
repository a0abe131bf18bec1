---------------------------- MODULE BoundedFifo ----------------------------
(***************************************************************************)
(* What a bounded queue between one producer and one consumer promises:    *)
(* each call takes effect in one step, an item that was accepted comes out *)
(* once and in order, a push is refused exactly when Bound items are       *)
(* waiting, a pop or an emptiness test says "empty" exactly when none is.  *)
(*                                                                         *)
(* SpscQueue is shown to implement this module, and TransportService uses  *)
(* queues of this kind.                                                    *)
(***************************************************************************)
EXTENDS Naturals, Sequences

CONSTANTS
  Item,     (* the values that can be queued                           *)
  NoItem,   (* what a consumer's answer holds when it delivers no item *)
  Bound     (* how many items can wait                                 *)

VARIABLES
  queue,    (* the waiting items, the oldest first      *)
  pushAns,  (* the answer of the last push              *)
  popAns    (* the answer of the consumer's last call   *)

vars == <<queue, pushAns, popAns>>

Init ==
  /\ queue = << >>
  /\ pushAns = TRUE
  /\ popAns = [call |-> "pop", ok |-> FALSE, item |-> NoItem]

Push(item) ==
  /\ Len(queue) < Bound
  /\ queue' = Append(queue, item)
  /\ pushAns' = TRUE
  /\ UNCHANGED popAns

PushRefused ==
  /\ Len(queue) = Bound
  /\ pushAns' = FALSE
  /\ UNCHANGED <<queue, popAns>>

Pop ==
  /\ queue # << >>
  /\ queue' = Tail(queue)
  /\ popAns' = [call |-> "pop", ok |-> TRUE, item |-> Head(queue)]
  /\ UNCHANGED pushAns

PopRefused ==
  /\ queue = << >>
  /\ popAns' = [call |-> "pop", ok |-> FALSE, item |-> NoItem]
  /\ UNCHANGED <<queue, pushAns>>

Empty ==
  /\ popAns' = [call |-> "empty", ok |-> queue = << >>, item |-> NoItem]
  /\ UNCHANGED <<queue, pushAns>>

Next ==
  \/ \E item \in Item : Push(item)
  \/ PushRefused
  \/ Pop
  \/ PopRefused
  \/ Empty

Spec == Init /\ [][Next]_vars

=============================================================================
