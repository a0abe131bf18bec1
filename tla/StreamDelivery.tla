--------------------------- MODULE StreamDelivery ---------------------------
(***************************************************************************)
(* What the transport service promises the ride, of several streams at a   *)
(* time: items are accepted only in a ride, one by one, and leave oldest   *)
(* first.  Packing, batches, flushes and the two threads do not show.      *)
(*                                                                         *)
(* The one exception is the reset between two rides: what is left of the   *)
(* ride before is thrown away item by item, in any order, while older ones *)
(* may still be on their way.                                              *)
(*                                                                         *)
(* Nothing is promised once the reset has run into a delivery: after that  *)
(* anything may happen.                                                    *)
(*                                                                         *)
(* TransportService is shown to implement this module.                     *)
(***************************************************************************)
EXTENDS Integers, Sequences

CONSTANT Stream

VARIABLES
  phase,      (* closed, resetting or open                                  *)
  pending,    (* pending[s]: the items on their way, the oldest first       *)
  accepted,   (* accepted[s]: how many items there have been                *)
  settled,    (* settled[s]: how many have left                             *)
  broken      (* the reset has run into a delivery                          *)

vars == <<phase, pending, accepted, settled, broken>>

Init ==
  /\ phase = "closed"
  /\ pending = [s \in Stream |-> << >>]
  /\ accepted = [s \in Stream |-> 0]
  /\ settled = [s \in Stream |-> 0]
  /\ broken = FALSE

\* An item is accepted; it is known by its number.
Accept(s) ==
  /\ phase = "open"
  /\ pending' = [pending EXCEPT ![s] = Append(@, accepted[s] + 1)]
  /\ accepted' = [accepted EXCEPT ![s] = @ + 1]
  /\ UNCHANGED <<phase, settled>>

\* The oldest items leave: the first n[s] of every stream s.
Leave(n) ==
  /\ \A s \in Stream : n[s] \in 0 .. Len(pending[s])
  /\ pending' = [s \in Stream |-> SubSeq(pending[s], n[s] + 1, Len(pending[s]))]
  /\ settled' = [s \in Stream |-> settled[s] + n[s]]
  /\ UNCHANGED accepted

Left == [s \in Stream |-> settled'[s] - settled[s]]

Deliver == Leave(Left) /\ UNCHANGED phase

\* A reset begins; the items it finds packed leave at once.
Reset == phase = "closed" /\ phase' = "resetting" /\ Leave(Left)

Without(t, i) == [k \in 1 .. Len(t) - 1 |-> IF k < i THEN t[k] ELSE t[k + 1]]

\* A reset throws an item away.
Discard(s) ==
  /\ phase = "resetting"
  /\ \E i \in 1 .. Len(pending[s]) : pending' = [pending EXCEPT ![s] = Without(@, i)]
  /\ settled' = [settled EXCEPT ![s] = @ + 1]
  /\ UNCHANGED <<phase, accepted>>

\* The reset ends, a ride begins, a ride ends.
Turn ==
  /\ <<phase, phase'>> \in {<<"resetting", "closed">>, <<"closed", "open">>,
                           <<"open", "closed">>}
  /\ UNCHANGED <<pending, accepted, settled>>

Whole ==
  /\ \/ \E s \in Stream : Accept(s) \/ Discard(s)
     \/ Deliver \/ Reset \/ Turn
  /\ UNCHANGED broken

\* A reset runs into a delivery, or has.
Break == broken' = TRUE /\ (broken \/ phase' = "resetting")

Next == Break \/ Whole

Spec == Init /\ [][Next]_vars

=============================================================================
