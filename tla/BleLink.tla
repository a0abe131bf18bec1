------------------------------ MODULE BleLink ------------------------------
(***************************************************************************)
(* SFBLE (ble/sf_ble.cpp) between the BLE thread of Device OS, which       *)
(* reports connections, and the main thread, which advertises for rides    *)
(* and for the BLE test of the console (CLI_doBleTest).  The test lends    *)
(* SFBLE a context on its stack, takes it back, and returns.               *)
(*                                                                         *)
(* An action ends at each access to what the other thread shares.  The     *)
(* contexts are numbered, 0 is the null pointer.  A store through the      *)
(* context of a test that has returned lands nowhere that matters, or in   *)
(* the frame of the test that runs now.  The control callback is set to    *)
(* the same pair by every init() and left to TimeSync; initialized is      *)
(* true from the first advertisement on.                                   *)
(*                                                                         *)
(* "Defect" marks a mutation of the definition after it.                   *)
(***************************************************************************)
EXTENDS Naturals

CONSTANT MaxTests     (* bounds the BLE tests *)

ASSUME TestsAssumption == MaxTests \in Nat

VARIABLES
  onAir,              (* the radio advertises                               *)
  peer,               (* a central is connected                             *)
  connected,          (* SFBLE::connected                                   *)
  advertising,        (* SFBLE::advertising                                 *)
  context, callback,  (* connectionContext, and connectionCallback is set   *)
  mainPc,             (* the main thread                                    *)
  test,               (* the tests begun                                    *)
  bleStatus,          (* the status in the frame of the current test        *)
  shown,              (* what the test has shown last                       *)
  blePc,              (* the BLE thread                                     *)
  event,              (* isConnected                                        *)
  held,               (* the context it has loaded                          *)
  since,              (* the tests that had ended when the event came       *)
                      (* (history)                                          *)
  stray               (* the frame was written for an event that came while *)
                      (* an earlier test was running (history)              *)

linkRadio == <<onAir, peer>>
linkFlags == <<connected, advertising>>
linkPair  == <<context, callback>>
linkMain  == <<mainPc, test, shown>>
linkFrame == <<bleStatus, stray>>
linkBle   == <<blePc, event, held, since>>
linkVars  == <<linkRadio, linkFlags, linkPair, linkMain, linkFrame, linkBle>>

NewStatus == [connected |-> FALSE, changed |-> FALSE]

TestPcs == {"advertiseTest", "setContext", "setCallback", "loop", "load",
            "clearContext", "clearCallback"}

InTest == mainPc \in TestPcs \/ mainPc = "advertisedTest"

Ended == IF InTest THEN test - 1 ELSE test

LinkInit ==
  /\ onAir = FALSE /\ peer = FALSE
  /\ connected = FALSE /\ advertising = FALSE
  /\ context = 0 /\ callback = FALSE
  /\ mainPc = "idle" /\ test = 0
  /\ bleStatus = NewStatus /\ shown = "nothing" /\ stray = FALSE
  /\ blePc = "idle" /\ event = FALSE /\ held = 0 /\ since = 0

MainGoto(p) == mainPc' = p /\ UNCHANGED <<test, shown>>
BleGoto(p)  == blePc' = p /\ UNCHANGED <<event, held, since>>

-----------------------------------------------------------------------------
(* The main thread. *)

RideBegins ==
  /\ mainPc = "idle"
  /\ MainGoto("advertiseRide")
  /\ UNCHANGED <<linkRadio, linkFlags, linkPair, linkFrame, linkBle>>

RideEnds ==
  /\ mainPc = "ride"
  /\ MainGoto("idle")
  /\ UNCHANGED <<linkRadio, linkFlags, linkPair, linkFrame, linkBle>>

\* CLI_doBleTest() is called: its frame is built.
TestBegins ==
  /\ mainPc = "idle" /\ test < MaxTests
  /\ mainPc' = "advertiseTest" /\ test' = test + 1
  /\ bleStatus' = NewStatus /\ shown' = "nothing" /\ stray' = FALSE
  /\ UNCHANGED <<linkRadio, linkFlags, linkPair, linkBle>>

\* startAdvertising() up to BLE.advertise().
Advertise ==
  /\ mainPc \in {"advertiseRide", "advertiseTest"}
  /\ onAir' = ~peer
  /\ MainGoto(IF mainPc = "advertiseRide" THEN "advertisedRide" ELSE "advertisedTest")
  /\ UNCHANGED <<peer, linkFlags, linkPair, linkFrame, linkBle>>

\* Its store.
Advertised ==
  /\ mainPc \in {"advertisedRide", "advertisedTest"}
  /\ advertising' = TRUE
  /\ MainGoto(IF mainPc = "advertisedRide" THEN "ride" ELSE "setContext")
  /\ UNCHANGED <<linkRadio, connected, linkPair, linkFrame, linkBle>>

\* setConnectionCallback(): the context, then the callback.
SetContext ==
  /\ mainPc \in {"setContext", "clearContext"}
  /\ context' = IF mainPc = "setContext" THEN test ELSE 0
  /\ MainGoto(IF mainPc = "setContext" THEN "setCallback" ELSE "clearCallback")
  /\ UNCHANGED <<linkRadio, linkFlags, callback, linkFrame, linkBle>>

SetCallback ==
  /\ mainPc \in {"setCallback", "clearCallback"}
  /\ callback' = (mainPc = "setCallback")
  /\ MainGoto(IF mainPc = "setCallback" THEN "loop" ELSE "idle")
  /\ UNCHANGED <<linkRadio, linkFlags, context, linkFrame, linkBle>>

\* changed.exchange(), and the load of connected.
Poll ==
  /\ mainPc = "loop" /\ bleStatus.changed
  /\ bleStatus' = [bleStatus EXCEPT !.changed = FALSE]
  /\ MainGoto("load")
  /\ UNCHANGED <<linkRadio, linkFlags, linkPair, stray, linkBle>>

Show ==
  /\ mainPc = "load"
  /\ shown' = IF bleStatus.connected THEN "CONNECTED" ELSE "DISCONNECTED"
  /\ mainPc' = "loop"
  /\ UNCHANGED <<linkRadio, linkFlags, linkPair, test, linkFrame, linkBle>>

\* Defect: the test returns with its context still registered.
QuitRegistered ==
  /\ mainPc = "loop"
  /\ MainGoto("idle")
  /\ UNCHANGED <<linkRadio, linkFlags, linkPair, linkFrame, linkBle>>

\* 'q' is typed.
Quit ==
  /\ mainPc = "loop"
  /\ MainGoto("clearContext")
  /\ UNCHANGED <<linkRadio, linkFlags, linkPair, linkFrame, linkBle>>

-----------------------------------------------------------------------------
(* The BLE thread. *)

\* A central connects or leaves; Device OS advertises again when it has left.
Event ==
  /\ blePc = "idle"
  /\ peer \/ onAir
  /\ peer' = ~peer /\ onAir' = peer
  /\ event' = ~peer /\ since' = Ended /\ held' = 0
  /\ blePc' = "connected"
  /\ UNCHANGED <<linkFlags, linkPair, linkMain, linkFrame>>

StoreConnected ==
  /\ blePc = "connected"
  /\ connected' = event
  /\ BleGoto(IF event THEN "advertising" ELSE "callback")
  /\ UNCHANGED <<linkRadio, advertising, linkPair, linkMain, linkFrame>>

StoreAdvertising ==
  /\ blePc = "advertising"
  /\ advertising' = FALSE
  /\ BleGoto("callback")
  /\ UNCHANGED <<linkRadio, connected, linkPair, linkMain, linkFrame>>

LoadCallback ==
  /\ blePc = "callback"
  /\ BleGoto(IF callback THEN "context" ELSE "idle")
  /\ UNCHANGED <<linkRadio, linkFlags, linkPair, linkMain, linkFrame>>

LoadContext ==
  /\ blePc = "context"
  /\ held' = context
  /\ blePc' = "call"
  /\ UNCHANGED <<event, since, linkRadio, linkFlags, linkPair, linkMain, linkFrame>>

\* A store of the callback through the context it holds.
Through(status) ==
  \/ /\ InTest
     /\ bleStatus' = status
     /\ stray' = (stray \/ since + 1 < test)
  \/ /\ ~(InTest /\ held = test)
     /\ UNCHANGED linkFrame

\* Defect: the callback stores changed first.
StoredSwapped == IF blePc = "call" THEN [bleStatus EXCEPT !.changed = TRUE]
                 ELSE [bleStatus EXCEPT !.connected = event]

\* What the callback stores, one after the other.
Stored == IF blePc = "call" THEN [bleStatus EXCEPT !.connected = event]
          ELSE [bleStatus EXCEPT !.changed = TRUE]

\* The callback, which returns at once from the null pointer, up to its first store.
Call ==
  /\ blePc = "call"
  /\ IF held = 0 THEN BleGoto("idle") /\ UNCHANGED linkFrame
     ELSE BleGoto("changed") /\ Through(Stored)
  /\ UNCHANGED <<linkRadio, linkFlags, linkPair, linkMain>>

\* Its second store.
CallChanged ==
  /\ blePc = "changed"
  /\ Through(Stored)
  /\ BleGoto("idle")
  /\ UNCHANGED <<linkRadio, linkFlags, linkPair, linkMain>>

-----------------------------------------------------------------------------

LinkNext ==
  \/ RideBegins \/ RideEnds \/ TestBegins \/ Advertise \/ Advertised
  \/ SetContext \/ SetCallback \/ Poll \/ Show \/ Quit
  \/ Event \/ StoreConnected \/ StoreAdvertising
  \/ LoadCallback \/ LoadContext \/ Call \/ CallChanged

LinkSpec == LinkInit /\ [][LinkNext]_linkVars

\* The type invariant.
LinkTypeOK ==
  /\ onAir \in BOOLEAN /\ peer \in BOOLEAN
  /\ connected \in BOOLEAN /\ advertising \in BOOLEAN
  /\ context \in 0 .. MaxTests /\ callback \in BOOLEAN
  /\ mainPc \in TestPcs \cup {"advertisedTest", "idle", "advertiseRide", "advertisedRide", "ride"}
  /\ test \in 0 .. MaxTests
  /\ bleStatus \in [connected : BOOLEAN, changed : BOOLEAN]
  /\ shown \in {"nothing", "CONNECTED", "DISCONNECTED"}
  /\ blePc \in {"idle", "connected", "advertising", "callback", "context", "call", "changed"}
  /\ stray \in BOOLEAN
  /\ event \in BOOLEAN /\ held \in 0 .. MaxTests /\ since \in 0 .. MaxTests

\* Neither store of the pair is atomic with the other: still, the callback of a
\* connection is never run on the frame of a test that had returned before the
\* connection was reported (sf_ble.cpp:168, cli.cpp:921).  A test that returns
\* between the load of its context and the call does leave it a dead frame.
ContextCurrent == blePc \in {"call", "changed"} /\ held # 0 => held > since

\* No connection is lost on the way to the console: when both threads are done
\* with it, what the BLE test has shown last is how things are.  Excused is a test
\* whose frame was written for an event that came under the test before: such a
\* call may take the new context before the callback is set, and what follows it
\* is then not reported (sf_ble.cpp:348).
ShownAgrees ==
  (mainPc = "loop" /\ ~bleStatus.changed /\ blePc = "idle" /\ shown # "nothing"
     /\ ~stray)
    => (shown = "CONNECTED" <=> peer)

=============================================================================
