------------------------------ MODULE BleProofs ------------------------------
(***************************************************************************)
(* The BLE link and the time synchronisation, for any number of tests, any *)
(* clock, period of millis(), limit of age and delay.                      *)
(*                                                                         *)
(* The link: SFBLE's two fields are stored and loaded one at a time, so    *)
(* what holds its properties up is an order of events.  The context is     *)
(* cleared before its test ends, every event comes after the end of the    *)
(* tests it counts, and a frame that one event of its own test has reached *)
(* is reached by all that follow.                                          *)
(*                                                                         *)
(* The synchronisation: as long as millis() has not wrapped since the      *)
(* first message, every offset is one constant less the delay of its       *)
(* message, and so is their average, rounded down.                         *)
(***************************************************************************)
EXTENDS MCBle, TLAPS

(***************************************************************************)
(* The link.                                                               *)
(***************************************************************************)

\* The types that ContextCurrent rests on.
NumbersOK == {test, context, held, since} \subseteq Nat

\* A context is registered only from setConnectionCallback() to the one that clears
\* it, and is that of the test under way.
Registered == context # 0 => context = test /\ InTest

\* The first steps of a test have registered nothing.
NotYet == mainPc \in {"advertiseTest", "advertisedTest", "setContext", "clearCallback"}
            => context = 0

\* No test is under way before the first; no event counts a test that has not ended.
TestsCounted == (InTest => test > 0) /\ since <= Ended

LinkInv == NumbersOK /\ Registered /\ NotYet /\ TestsCounted /\ ContextCurrent

\* The link starts in the invariant.
LEMMA InitLink == LinkInit => LinkInv
BY DEF LinkInit, LinkInv, NumbersOK, Registered, NotYet, TestsCounted, ContextCurrent, InTest, TestPcs,
       Ended

\* Every step preserves it.
LEMMA NextLink == LinkInv /\ [LinkNext]_linkVars => LinkInv'
PROOF
  <1> SUFFICES ASSUME LinkInv, [LinkNext]_linkVars PROVE LinkInv'
    OBVIOUS
  <1> USE DEF LinkInv, NumbersOK, Registered, NotYet, TestsCounted, ContextCurrent, InTest, TestPcs,
              Ended, linkRadio, linkFlags, linkPair, linkFrame, linkBle, linkMain, MainGoto, BleGoto
  <1>1. CASE RideBegins \/ RideEnds
    BY <1>1 DEF RideBegins, RideEnds
  <1>2. CASE TestBegins
    BY <1>2 DEF TestBegins
  <1>3. CASE Advertise \/ Advertised
    BY <1>3 DEF Advertise, Advertised
  <1>4. CASE SetContext
    BY <1>4 DEF SetContext
  <1>5. CASE SetCallback
    BY <1>5 DEF SetCallback
  <1>6. CASE Poll \/ Show \/ Quit
    BY <1>6 DEF Poll, Show, Quit
  <1>7. CASE Event
    BY <1>7 DEF Event
  <1>8. CASE StoreConnected \/ StoreAdvertising \/ LoadCallback
    BY <1>8 DEF StoreConnected, StoreAdvertising, LoadCallback
  <1>9. CASE LoadContext
    BY <1>9 DEF LoadContext
  <1>10. CASE Call \/ CallChanged
    BY <1>10 DEF Call, CallChanged
  <1>11. CASE UNCHANGED linkVars
    BY <1>11 DEF linkVars
  <1> QED BY <1>1, <1>2, <1>3, <1>4, <1>5, <1>6, <1>7, <1>8, <1>9, <1>10, <1>11 DEF LinkNext

\* The invariant holds however events and tests overlap.
THEOREM LinkInductive == LinkSpec => []LinkInv
BY InitLink, NextLink, PTL DEF LinkSpec

\* The callback of a connection is never run on the frame of a test that had returned
\* before the connection was reported.
THEOREM NoStaleContext == LinkSpec => []ContextCurrent
PROOF
  <1>1. LinkInv => ContextCurrent
    BY DEF LinkInv
  <1> QED BY <1>1, LinkInductive, PTL

\* Between setConnectionCallback() and the one that clears it, the callback is set; the
\* context is there a step earlier, and gone a step earlier.
SetPcs == {"loop", "load", "clearContext", "clearCallback"}

PairSet ==
  /\ callback = TRUE <=> mainPc \in SetPcs
  /\ mainPc \in {"setCallback", "loop", "load", "clearContext"} => context = test

\* An event is at most one change of the peer behind.
EventIsPeer == blePc # "idle" => event = peer

\* A call for an event of the test under way was made with its context.
CallOfTest ==
  since = Ended =>
    /\ blePc \in {"context", "call", "changed"} => mainPc \in SetPcs
    /\ blePc \in {"call", "changed"} /\ mainPc \in {"loop", "load", "clearContext"} => held = test

HeldKnown == held <= test /\ (blePc = "changed" => held # 0)

\* No call has reached the frame.
Untouched == bleStatus = NewStatus /\ shown = "nothing" /\ mainPc # "load"

\* A call has: from then on each event reaches it, and is shown or marked as changed.
Touched ==
  /\ since = Ended /\ mainPc \in SetPcs
  /\ blePc = "changed" => bleStatus.connected = event
  /\ mainPc \in {"loop", "load"} =>
       /\ blePc = "idle" => bleStatus.connected = peer
       /\ blePc # "changed" /\ bleStatus.changed = FALSE /\ mainPc = "loop" =>
            (shown = "CONNECTED" <=> bleStatus.connected = TRUE)

FrameInv ==
  InTest /\ stray = FALSE =>
     \/ Untouched /\ ~(blePc = "changed" /\ since = Ended)
     \/ Touched

StatusOK ==
  /\ bleStatus \in [connected : BOOLEAN, changed : BOOLEAN]
  /\ stray \in BOOLEAN /\ peer \in BOOLEAN /\ callback \in BOOLEAN

ReportInv == StatusOK /\ PairSet /\ EventIsPeer /\ CallOfTest /\ HeldKnown /\ FrameInv

\* Nothing has been reported at first.
LEMMA InitReport == LinkInit => ReportInv
PROOF
  <1> SUFFICES ASSUME LinkInit PROVE ReportInv
    OBVIOUS
  <1>1. /\ context = 0 /\ mainPc = "idle" /\ test = 0 /\ shown = "nothing" /\ blePc = "idle"
        /\ held = 0 /\ since = 0 /\ bleStatus = NewStatus
    BY DEF LinkInit
  <1>2. callback = FALSE /\ stray = FALSE /\ peer = FALSE
    BY Zenon DEF LinkInit
  <1>3. NewStatus \in [connected : BOOLEAN, changed : BOOLEAN]
    BY DEF NewStatus
  <1>4. StatusOK
    BY <1>1, <1>2, <1>3, Zenon DEF StatusOK
  <1>5. PairSet /\ EventIsPeer /\ CallOfTest /\ HeldKnown
    BY <1>1, <1>2 DEF PairSet, EventIsPeer, CallOfTest, HeldKnown, SetPcs
  <1>6. FrameInv
    BY <1>1 DEF FrameInv, InTest, TestPcs
  <1> QED BY <1>4, <1>5, <1>6 DEF ReportInv

\* The steps of the main thread around a test.
LEMMA MainReport ==
  ASSUME LinkInv, ReportInv,
         \/ RideBegins \/ RideEnds \/ Advertise \/ Advertised \/ SetContext \/ SetCallback
         \/ Quit
  PROVE  ReportInv'
PROOF
  <1> USE DEF ReportInv
  <1>1. /\ UNCHANGED <<bleStatus, test, shown, blePc, held, since>>
    BY DEF RideBegins, RideEnds, Advertise, Advertised, SetContext, SetCallback, Quit, MainGoto,
           linkFrame, linkBle
  <1>2. UNCHANGED <<stray, event, peer>>
    BY Zenon DEF RideBegins, RideEnds, Advertise, Advertised, SetContext, SetCallback, Quit,
                 linkFrame, linkBle, linkRadio
  <1>3. callback' \in BOOLEAN
    BY Zenon DEF RideBegins, RideEnds, Advertise, Advertised, SetContext, SetCallback, Quit,
                 linkPair, StatusOK
  <1>4. StatusOK'
    BY <1>1, <1>2, <1>3, Zenon DEF StatusOK
  <1>5. EventIsPeer' /\ HeldKnown'
    BY <1>1, <1>2 DEF EventIsPeer, HeldKnown
  <1>6. CASE RideBegins \/ RideEnds \/ Advertise \/ Advertised \/ Quit
    <2>1. UNCHANGED <<context, callback>>
      BY <1>6, Zenon DEF RideBegins, RideEnds, Advertise, Advertised, Quit, linkPair
    <2>2. \/ /\ mainPc \in {"idle", "ride", "advertiseRide", "advertisedRide"}
             /\ mainPc' \in {"idle", "ride", "advertiseRide", "advertisedRide"}
          \/ mainPc = "advertiseTest" /\ mainPc' = "advertisedTest"
          \/ mainPc = "advertisedTest" /\ mainPc' = "setContext"
          \/ mainPc = "loop" /\ mainPc' = "clearContext"
      BY <1>6 DEF RideBegins, RideEnds, Advertise, Advertised, Quit, MainGoto
    <2>3. PairSet' /\ CallOfTest'
      BY <1>1, <2>1, <2>2 DEF PairSet, CallOfTest, SetPcs, Ended, InTest, TestPcs
    <2>4. FrameInv'
      BY <1>1, <1>2, <2>2 DEF FrameInv, Untouched, Touched, SetPcs, Ended, InTest, TestPcs
    <2> QED BY <1>4, <1>5, <2>3, <2>4
  <1>7. CASE SetContext
    <2>1. \/ mainPc = "setContext" /\ mainPc' = "setCallback" /\ context' = test
          \/ mainPc = "clearContext" /\ mainPc' = "clearCallback" /\ context' = 0
      BY <1>7 DEF SetContext, MainGoto
    <2>2. callback' = callback
      BY <1>7, Zenon DEF SetContext
    <2>3. PairSet' /\ CallOfTest'
      BY <1>1, <2>1, <2>2 DEF PairSet, CallOfTest, SetPcs, Ended, InTest, TestPcs
    <2>4. FrameInv'
      BY <1>1, <1>2, <2>1 DEF FrameInv, Untouched, Touched, SetPcs, Ended, InTest, TestPcs
    <2> QED BY <1>4, <1>5, <2>3, <2>4
  <1>8. CASE SetCallback
    <2>1. /\ context' = context
          /\ \/ mainPc = "setCallback" /\ mainPc' = "loop"
             \/ mainPc = "clearCallback" /\ mainPc' = "idle"
      BY <1>8 DEF SetCallback, MainGoto
    <2>2. callback' = TRUE <=> mainPc = "setCallback"
      BY <1>8, Zenon DEF SetCallback
    <2>3. test \in Nat /\ since \in Nat /\ since <= Ended /\ (InTest => test > 0)
      BY DEF LinkInv, NumbersOK, TestsCounted
    <2>4. PairSet' /\ CallOfTest'
      BY <1>1, <2>1, <2>2, <2>3 DEF PairSet, CallOfTest, SetPcs, Ended, InTest, TestPcs
    <2>5. FrameInv'
      BY <1>1, <1>2, <2>1 DEF FrameInv, Untouched, Touched, SetPcs, Ended, InTest, TestPcs
    <2> QED BY <1>4, <1>5, <2>4, <2>5
  <1> QED BY <1>6, <1>7, <1>8

\* The steps of the test.
LEMMA TestReport == ASSUME LinkInv, ReportInv, TestBegins \/ Poll \/ Show PROVE ReportInv'
PROOF
  <1> USE DEF ReportInv
  <1>1. UNCHANGED <<context, blePc, held, since>>
    BY DEF TestBegins, Poll, Show, linkPair, linkBle
  <1>2. UNCHANGED <<callback, event, peer>>
    BY Zenon DEF TestBegins, Poll, Show, linkPair, linkBle, linkRadio
  <1>3. EventIsPeer'
    BY <1>1, <1>2 DEF EventIsPeer
  <1>4. test \in Nat /\ since \in Nat /\ held \in Nat
    BY DEF LinkInv, NumbersOK
  <1>5. CASE TestBegins
    <2>1. /\ mainPc = "idle" /\ mainPc' = "advertiseTest" /\ test' = test + 1
          /\ bleStatus' = NewStatus /\ shown' = "nothing"
      BY <1>5 DEF TestBegins
    <2>2. StatusOK'
      <3>1. stray' \in BOOLEAN
        BY <1>5, Zenon DEF TestBegins
      <3>2. NewStatus \in [connected : BOOLEAN, changed : BOOLEAN]
        BY DEF NewStatus
      <3> QED BY <1>2, <2>1, <3>1, <3>2, Zenon DEF StatusOK
    <2>3. PairSet' /\ CallOfTest' /\ HeldKnown'
      BY <1>1, <1>2, <1>4, <2>1
         DEF PairSet, CallOfTest, HeldKnown, SetPcs, Ended, InTest, TestPcs
    <2>4. FrameInv'
      BY <1>1, <1>4, <2>1 DEF FrameInv, Untouched, CallOfTest, SetPcs, Ended, InTest, TestPcs
    <2> QED BY <1>3, <2>2, <2>3, <2>4
  <1>6. CASE Poll
    <2>1. /\ mainPc = "loop" /\ mainPc' = "load" /\ test' = test /\ shown' = shown
          /\ bleStatus' = [bleStatus EXCEPT !.changed = FALSE]
      BY <1>6 DEF Poll, MainGoto
    <2>2. stray' = stray /\ bleStatus.changed
      BY <1>6, Zenon DEF Poll
    <2>3. bleStatus \in [connected : BOOLEAN, changed : BOOLEAN]
      BY DEF StatusOK
    <2>4. /\ bleStatus' \in [connected : BOOLEAN, changed : BOOLEAN]
          /\ bleStatus'.connected = bleStatus.connected
      BY <2>1, <2>3
    <2>5. StatusOK'
      BY <1>2, <2>2, <2>4, Zenon DEF StatusOK
    <2>6. PairSet' /\ CallOfTest' /\ HeldKnown'
      BY <1>1, <1>2, <2>1 DEF PairSet, CallOfTest, HeldKnown, SetPcs, Ended, InTest, TestPcs
    <2>7. bleStatus # NewStatus
      <3>1. NewStatus.changed = FALSE
        BY DEF NewStatus
      <3> QED BY <2>2, <3>1, Zenon
    <2>8. FrameInv'
      BY <1>1, <1>2, <2>1, <2>2, <2>4, <2>7
         DEF FrameInv, Untouched, Touched, SetPcs, Ended, InTest, TestPcs
    <2> QED BY <1>3, <2>5, <2>6, <2>8
  <1>7. CASE Show
    <2>1. mainPc = "load" /\ mainPc' = "loop" /\ test' = test /\ bleStatus' = bleStatus
      BY <1>7 DEF Show, linkFrame
    <2>2. shown' = "CONNECTED" <=> bleStatus.connected = TRUE
      <3>1. bleStatus.connected \in BOOLEAN
        BY DEF StatusOK
      <3>2. shown' = IF bleStatus.connected = TRUE THEN "CONNECTED" ELSE "DISCONNECTED"
        BY <1>7, <3>1, Zenon DEF Show
      <3> QED BY <3>2
    <2>3. stray' = stray
      BY <1>7, Zenon DEF Show, linkFrame
    <2>4. StatusOK'
      BY <1>2, <2>1, <2>3, Zenon DEF StatusOK
    <2>5. PairSet' /\ CallOfTest' /\ HeldKnown'
      BY <1>1, <1>2, <2>1 DEF PairSet, CallOfTest, HeldKnown, SetPcs, Ended, InTest, TestPcs
    <2>6. FrameInv'
      BY <1>1, <1>2, <2>1, <2>2, <2>3
         DEF FrameInv, Untouched, Touched, SetPcs, Ended, InTest, TestPcs
    <2> QED BY <1>3, <2>4, <2>5, <2>6
  <1> QED BY <1>5, <1>6, <1>7

\* The steps of the BLE thread up to the call.
LEMMA EventReport ==
  ASSUME LinkInv, ReportInv,
         Event \/ StoreConnected \/ StoreAdvertising \/ LoadCallback \/ LoadContext
  PROVE  ReportInv'
PROOF
  <1> USE DEF ReportInv
  <1>1. UNCHANGED <<context, mainPc, test, shown, bleStatus>>
    BY DEF Event, StoreConnected, StoreAdvertising, LoadCallback, LoadContext, linkPair, linkMain,
           linkFrame
  <1>2. UNCHANGED <<callback, stray>>
    BY Zenon DEF Event, StoreConnected, StoreAdvertising, LoadCallback, LoadContext, linkPair,
                 linkFrame
  <1>3. PairSet'
    BY <1>1, <1>2 DEF PairSet
  <1>4. test \in Nat /\ since \in Nat /\ held \in Nat /\ context \in Nat /\ Ended \in Nat
    BY DEF LinkInv, NumbersOK, TestsCounted, Ended
  <1>5. CASE Event
    <2>1. blePc = "idle" /\ blePc' = "connected" /\ held' = 0 /\ since' = Ended
      BY <1>5 DEF Event
    <2>2. event' = peer' /\ peer' \in BOOLEAN
      BY <1>5, Zenon DEF Event
    <2>3. StatusOK'
      BY <1>1, <1>2, <2>2, Zenon DEF StatusOK
    <2>4. EventIsPeer' /\ CallOfTest' /\ HeldKnown'
      BY <1>1, <1>4, <2>1, <2>2 DEF EventIsPeer, CallOfTest, HeldKnown
    <2>5. FrameInv'
      BY <1>1, <1>2, <2>1 DEF FrameInv, Untouched, Touched, Ended, InTest
    <2> QED BY <1>3, <2>3, <2>4, <2>5
  <1>6. CASE StoreConnected \/ StoreAdvertising
    <2>1. /\ UNCHANGED <<held, since>>
          /\ blePc \in {"connected", "advertising"} /\ blePc' \in {"advertising", "callback"}
      BY <1>6 DEF StoreConnected, StoreAdvertising, BleGoto
    <2>2. UNCHANGED <<event, peer>>
      BY <1>6, Zenon DEF StoreConnected, StoreAdvertising, BleGoto, linkRadio
    <2>3. StatusOK'
      BY <1>1, <1>2, <2>2, Zenon DEF StatusOK
    <2>4. EventIsPeer' /\ CallOfTest' /\ HeldKnown'
      BY <1>1, <2>1, <2>2 DEF EventIsPeer, CallOfTest, HeldKnown, Ended, InTest
    <2>5. FrameInv'
      BY <1>1, <1>2, <2>1, <2>2 DEF FrameInv, Untouched, Touched, Ended, InTest
    <2> QED BY <1>3, <2>3, <2>4, <2>5
  <1>7. CASE LoadCallback
    <2>1. UNCHANGED <<held, since>> /\ blePc = "callback"
      BY <1>7 DEF LoadCallback, BleGoto
    <2>2. UNCHANGED <<event, peer>>
      BY <1>7, Zenon DEF LoadCallback, BleGoto, linkRadio
    <2>3. \/ callback = TRUE /\ blePc' = "context"
          \/ callback = FALSE /\ blePc' = "idle"
      BY <1>7, Zenon DEF LoadCallback, BleGoto, StatusOK
    <2>4. StatusOK'
      BY <1>1, <1>2, <2>2, Zenon DEF StatusOK
    <2>5. EventIsPeer' /\ CallOfTest' /\ HeldKnown'
      BY <1>1, <2>1, <2>2, <2>3 DEF EventIsPeer, CallOfTest, HeldKnown, PairSet, Ended, InTest
    <2>6. FrameInv'
      BY <1>1, <1>2, <2>1, <2>2, <2>3 DEF FrameInv, Untouched, Touched, PairSet, Ended, InTest
    <2> QED BY <1>3, <2>4, <2>5, <2>6
  <1>8. CASE LoadContext
    <2>1. UNCHANGED since /\ blePc = "context" /\ blePc' = "call" /\ held' = context
      BY <1>8 DEF LoadContext
    <2>2. UNCHANGED <<event, peer>>
      BY <1>8, Zenon DEF LoadContext, linkRadio
    <2>3. StatusOK'
      BY <1>1, <1>2, <2>2, Zenon DEF StatusOK
    <2>4. context <= test
      BY <1>4 DEF LinkInv, Registered
    <2>5. EventIsPeer' /\ CallOfTest' /\ HeldKnown'
      BY <1>1, <2>1, <2>2, <2>4 DEF EventIsPeer, CallOfTest, HeldKnown, PairSet, Ended, InTest
    <2>6. FrameInv'
      BY <1>1, <1>2, <2>1, <2>2 DEF FrameInv, Untouched, Touched, Ended, InTest
    <2> QED BY <1>3, <2>3, <2>5, <2>6
  <1> QED BY <1>5, <1>6, <1>7, <1>8

\* The callback.
LEMMA CallReport == ASSUME LinkInv, ReportInv, Call \/ CallChanged PROVE ReportInv'
PROOF
  <1> USE DEF ReportInv
  <1>1. UNCHANGED <<context, mainPc, test, shown, held, since>>
    BY DEF Call, CallChanged, linkPair, linkMain, BleGoto
  <1>2. UNCHANGED <<callback, event, peer>>
    BY Zenon DEF Call, CallChanged, linkPair, BleGoto, linkRadio
  <1>3. PairSet'
    BY <1>1, <1>2 DEF PairSet
  <1>4. /\ test \in Nat /\ since \in Nat /\ held \in Nat /\ since <= Ended /\ (InTest => test > 0)
        /\ blePc \in {"call", "changed"} /\ held # 0 => held > since
    BY DEF LinkInv, NumbersOK, TestsCounted, ContextCurrent
  <1>5. \/ blePc = "call" /\ held = 0 /\ blePc' = "idle"
        \/ blePc = "call" /\ held # 0 /\ blePc' = "changed"
        \/ blePc = "changed" /\ blePc' = "idle"
    BY DEF Call, CallChanged, BleGoto
  <1>6. \/ blePc = "call" /\ held = 0 /\ UNCHANGED linkFrame
        \/ held # 0 /\ Through(Stored)
    BY DEF Call, CallChanged, HeldKnown
  <1>7. \/ InTest /\ held # 0 /\ bleStatus' = Stored /\ stray' = (stray \/ since + 1 < test)
        \/ (~(InTest /\ held = test) \/ (blePc = "call" /\ held = 0)) /\ bleStatus' = bleStatus
             /\ stray' = stray
    BY <1>6, Zenon DEF Through, linkFrame
  <1>8. EventIsPeer' /\ CallOfTest' /\ HeldKnown'
    BY <1>1, <1>2, <1>5 DEF EventIsPeer, CallOfTest, HeldKnown, Ended, InTest
  <1>9. bleStatus \in [connected : BOOLEAN, changed : BOOLEAN] /\ stray \in BOOLEAN
    BY Zenon DEF StatusOK
  <1>10. CASE InTest /\ held # 0 /\ bleStatus' = Stored /\ stray' = (stray \/ since + 1 < test)
    <2>1. stray' = FALSE => stray = FALSE /\ ~(since + 1 < test)
      BY <1>9, <1>10, Zenon
    <2>2. stray' \in BOOLEAN
      BY <1>10, Zenon
    <2>3. event \in BOOLEAN
      <3>1. event = peer
        BY <1>5 DEF EventIsPeer
      <3> QED BY <3>1, Zenon DEF StatusOK
    <2>4. /\ bleStatus' \in [connected : BOOLEAN, changed : BOOLEAN]
          /\ blePc = "call" => bleStatus'.connected = event
          /\ blePc # "call" => bleStatus'.connected = bleStatus.connected /\ bleStatus'.changed = TRUE
      BY <1>9, <1>10, <2>3 DEF Stored
    <2>5. StatusOK'
      BY <1>2, <2>2, <2>4, Zenon DEF StatusOK
    <2>6. ASSUME stray' = FALSE
          PROVE  since = Ended /\ mainPc \in SetPcs /\ stray = FALSE /\ InTest
      <3>1. since = test - 1 /\ stray = FALSE
        BY <1>4, <1>10, <2>1, <2>6 DEF Ended
      <3>2. since = Ended /\ InTest
        BY <1>10, <3>1 DEF Ended
      <3>3. mainPc \in SetPcs
        BY <1>5, <3>2 DEF CallOfTest
      <3> QED BY <3>1, <3>2, <3>3
    <2>7. bleStatus'.changed = TRUE => bleStatus'.changed # FALSE
      BY Zenon
    <2>8. FrameInv'
      <3> SUFFICES ASSUME stray' = FALSE PROVE Touched'
        BY DEF FrameInv
      <3>1. since = Ended /\ mainPc \in SetPcs /\ stray = FALSE /\ InTest /\ Ended' = Ended
        BY <1>1, <2>6 DEF Ended, InTest
      <3>2. CASE blePc = "call"
        <4>1. blePc' = "changed" /\ bleStatus'.connected = event
          BY <1>5, <1>10, <2>4, <3>2
        <4> QED BY <1>1, <1>2, <3>1, <4>1 DEF Touched
      <3>3. CASE blePc = "changed"
        <4>1. Touched
          BY <3>1, <3>3 DEF FrameInv
        <4>2. /\ blePc' = "idle" /\ bleStatus'.connected = event /\ bleStatus'.changed # FALSE
              /\ event = peer
          BY <1>5, <2>4, <2>7, <3>3, <4>1 DEF Touched, EventIsPeer
        <4> QED BY <1>1, <1>2, <3>1, <4>2 DEF Touched
      <3> QED BY <1>5, <3>2, <3>3
    <2> QED BY <1>3, <1>8, <2>5, <2>8
  <1>11. CASE (~(InTest /\ held = test) \/ (blePc = "call" /\ held = 0)) /\ bleStatus' = bleStatus
              /\ stray' = stray
    <2>1. StatusOK'
      BY <1>2, <1>11, Zenon DEF StatusOK
    <2>2. FrameInv'
      <3> SUFFICES ASSUME InTest, stray = FALSE
                   PROVE  \/ Untouched' /\ ~(blePc' = "changed" /\ since' = Ended')
                          \/ Touched'
        BY <1>1, <1>11 DEF FrameInv, InTest
      <3>1. Ended' = Ended /\ Ended = test - 1 /\ held <= test
        BY <1>1 DEF Ended, InTest, HeldKnown
      <3>2. CASE since = Ended
        <4>1. held = 0 /\ blePc = "call" /\ blePc' = "idle"
          <5>1. held # 0 => held = test
            BY <1>4, <1>5, <3>1, <3>2
          <5>2. held = 0
            BY <1>11, <5>1
          <5> QED BY <1>5, <5>2 DEF HeldKnown
        <4>2. mainPc = "clearCallback"
          BY <1>4, <3>2, <4>1 DEF CallOfTest, SetPcs
        <4> QED BY <1>1, <1>11, <3>1, <3>2, <4>1, <4>2 DEF FrameInv, Untouched, Touched, SetPcs
      <3>3. CASE since # Ended
        BY <1>1, <1>11, <3>1, <3>3 DEF FrameInv, Untouched, Touched
      <3> QED BY <3>2, <3>3
    <2> QED BY <1>3, <1>8, <2>1, <2>2
  <1> QED BY <1>7, <1>10, <1>11

\* Every step preserves it.
LEMMA NextReport == LinkInv /\ ReportInv /\ [LinkNext]_linkVars => ReportInv'
PROOF
  <1> SUFFICES ASSUME LinkInv, ReportInv, [LinkNext]_linkVars PROVE ReportInv'
    OBVIOUS
  <1>1. CASE UNCHANGED linkVars
    <2>1. UNCHANGED <<context, mainPc, test, shown, bleStatus, blePc, held, since>>
      BY <1>1 DEF linkVars, linkPair, linkMain, linkFrame, linkBle
    <2>2. UNCHANGED <<callback, event, peer, stray>>
      BY <1>1, Zenon DEF linkVars, linkRadio, linkPair, linkFrame, linkBle
    <2>3. StatusOK'
      BY <2>1, <2>2, Zenon DEF ReportInv, StatusOK
    <2>4. PairSet' /\ EventIsPeer' /\ CallOfTest' /\ HeldKnown'
      BY <2>1, <2>2 DEF ReportInv, PairSet, EventIsPeer, CallOfTest, HeldKnown, Ended, InTest
    <2>5. FrameInv'
      BY <2>1, <2>2 DEF ReportInv, FrameInv, Untouched, Touched, Ended, InTest
    <2> QED BY <2>3, <2>4, <2>5 DEF ReportInv
  <1>2. CASE \/ RideBegins \/ RideEnds \/ Advertise \/ Advertised \/ SetContext \/ SetCallback
             \/ Quit
    BY <1>2, MainReport
  <1>3. CASE TestBegins \/ Poll \/ Show
    BY <1>3, TestReport
  <1>4. CASE Event \/ StoreConnected \/ StoreAdvertising \/ LoadCallback \/ LoadContext
    BY <1>4, EventReport
  <1>5. CASE Call \/ CallChanged
    BY <1>5, CallReport
  <1> QED BY <1>1, <1>2, <1>3, <1>4, <1>5 DEF LinkNext

\* No connection is lost on the way to the console, for any number of tests: but for a
\* frame that was written for an event of an earlier test, what the test has shown last
\* is how things are once both threads are done with it.
THEOREM NoConnectionLost == LinkSpec => []ShownAgrees
PROOF
  <1>1. LinkInv /\ ReportInv => ShownAgrees
    <2> SUFFICES ASSUME ReportInv, mainPc = "loop", ~bleStatus.changed, blePc = "idle",
                        shown # "nothing", ~stray
                 PROVE  shown = "CONNECTED" <=> peer
      BY DEF ShownAgrees
    <2>1. stray = FALSE /\ bleStatus.changed = FALSE /\ bleStatus.connected \in BOOLEAN
      <3>1. bleStatus.changed \in BOOLEAN /\ bleStatus.connected \in BOOLEAN
        BY DEF ReportInv, StatusOK
      <3> QED BY <3>1, Zenon DEF ReportInv, StatusOK
    <2>2. /\ bleStatus.connected = peer
          /\ shown = "CONNECTED" <=> bleStatus.connected = TRUE
      BY <2>1 DEF ReportInv, FrameInv, Untouched, Touched, InTest, TestPcs
    <2> QED BY <2>1, <2>2, Zenon
  <1> QED BY <1>1, InitReport, NextReport, LinkInductive, PTL DEF LinkSpec

-----------------------------------------------------------------------------
(***************************************************************************)
(* The synchronisation.                                                    *)
(***************************************************************************)

\* What the offset of a message without delay is in the turn of time t.
Offset(t) == Epoch - phase + Word * Turn(t)

ClockInv == time \in Nat /\ phase \in 0 .. Word - 1

\* No message is older than Lag when it is received.
AirInv == \A m \in air : m.unix \in Int /\ Epoch + time - m.unix \in 0 .. Lag

MsgInv ==
  syncPc = "lock" =>
    /\ nowAt \in 0 .. time
    /\ msg.unix \in Epoch + nowAt - Lag .. Epoch + nowAt

\* Messages are applied in the order of the clock.
OrderInv ==
  valid = TRUE =>
    /\ firstAt \in Nat /\ appliedAt \in Nat /\ firstAt <= appliedAt
    /\ appliedAt <= time
    /\ syncPc = "lock" => appliedAt <= nowAt

OffsetInv ==
  valid = TRUE =>
    /\ offsetEmaMs \in Int
    /\ Turn(appliedAt) = Turn(firstAt)
         => offsetEmaMs \in Offset(firstAt) - Lag .. Offset(firstAt)

RideInv == ridePc = "lock" => readAt \in 0 .. time

SyncInv ==
  /\ ClockInv /\ AirInv /\ MsgInv /\ OrderInv /\ OffsetInv /\ RideInv
  /\ valid \in BOOLEAN

-----------------------------------------------------------------------------

\* millis() and its turn make up the time.
LEMMA Clock ==
  ASSUME phase \in 0 .. Word - 1, NEW t \in Nat
  PROVE  /\ Turn(t) \in Nat /\ Millis(t) \in 0 .. Word - 1
         /\ t + phase = Word * Turn(t) + Millis(t)
BY SyncAssumption, SMTT(30) DEF Turn, Millis

\* A later time is not in an earlier turn.
LEMMA TurnMonotone ==
  ASSUME phase \in 0 .. Word - 1, NEW s \in Nat, NEW t \in Nat, s <= t
  PROVE  Turn(s) <= Turn(t)
PROOF
  <1> SUFFICES ASSUME Turn(t) < Turn(s) PROVE FALSE
    BY Clock
  <1>1. \A a, b \in Nat : a < b => Word * a + Word <= Word * b
    BY SyncAssumption, SMTT(30)
  <1>2. Word * Turn(t) + Word <= Word * Turn(s)
    BY <1>1, Clock
  <1>3. Word * Turn(t) \in Nat /\ Word * Turn(s) \in Nat
    BY Clock, SyncAssumption, SMTT(30)
  <1> QED BY <1>2, <1>3, Clock, SyncAssumption

\* In the turn of the first message every offset is the constant less a delay, and the
\* constant is more than any delay.
LEMMA OffsetOfMessage ==
  ASSUME ClockInv, MsgInv, syncPc = "lock", NEW t \in Nat, Turn(t) = Turn(nowAt)
  PROVE  OffsetMs \in Offset(t) - Lag .. Offset(t) /\ Offset(t) \in Int /\ Offset(t) > Lag
PROOF
  <1>1. nowAt \in Nat
    BY DEF ClockInv, MsgInv
  <1>2. nowAt + phase = Word * Turn(nowAt) + Millis(nowAt) /\ Millis(nowAt) \in 0 .. Word - 1
    BY <1>1, Clock DEF ClockInv
  <1>3. Word * Turn(nowAt) \in Nat
    BY <1>1, Clock, SyncAssumption, SMTT(30) DEF ClockInv
  <1>4. Offset(t) = Epoch - phase + Word * Turn(nowAt)
    BY DEF Offset
  <1>5. Word \in Nat /\ Epoch \in Nat /\ Epoch > Word + Lag /\ Lag \in Nat
    BY SyncAssumption
  <1> QED BY <1>2, <1>3, <1>4, <1>5 DEF OffsetMs, MsgInv, ClockInv

\* The average of what lies between two natural numbers does, rounded as it is.
LEMMA AverageBetween ==
  ASSUME NEW lo \in Nat, NEW hi \in Nat, NEW a \in lo .. hi, NEW b \in lo .. hi
  PROVE  Truncated(3 * a + b) \in lo .. hi
BY DEF Truncated

-----------------------------------------------------------------------------

\* Nothing has been heard at first.
LEMMA InitSync == SyncInit => SyncInv
PROOF
  <1> SUFFICES ASSUME SyncInit PROVE SyncInv
    OBVIOUS
  <1>1. valid = FALSE /\ valid \in BOOLEAN
    BY Zenon DEF SyncInit
  <1>2. ClockInv /\ AirInv /\ MsgInv /\ RideInv
    BY SyncAssumption DEF SyncInit, ClockInv, AirInv, MsgInv, RideInv
  <1> QED BY <1>1, <1>2 DEF SyncInv, OrderInv, OffsetInv

\* A message keeps the average what it is.
LEMMA ApplySync == ASSUME SyncInv, Apply PROVE SyncInv'
PROOF
  <1> USE DEF SyncInv
  <1>1. UNCHANGED <<time, phase, syncWatch, syncRide>> /\ syncPc' = "idle" /\ syncPc = "lock"
    BY Zenon DEF Apply
  <1>2. ClockInv' /\ AirInv' /\ MsgInv' /\ RideInv'
    BY <1>1 DEF ClockInv, AirInv, MsgInv, RideInv, syncWatch, syncRide
  <1>3. CASE UNCHANGED <<valid, syncSeq, offsetEmaMs, appliedAt, firstAt>>
    BY <1>1, <1>2, <1>3 DEF OrderInv, OffsetInv, Offset, Turn
  <1>4. CASE /\ offsetEmaMs' = Smoothed /\ appliedAt' = nowAt /\ valid' = TRUE
             /\ firstAt' = IF valid THEN firstAt ELSE nowAt
    <2>1. nowAt \in Nat /\ nowAt <= time /\ phase' = phase /\ time' = time
      BY <1>1 DEF MsgInv, ClockInv
    <2>2. CASE valid = FALSE
      <3>1. offsetEmaMs' = OffsetMs /\ firstAt' = nowAt
        BY <1>4, <2>2 DEF Smoothed
      <3>2. OffsetMs \in Offset(nowAt) - Lag .. Offset(nowAt) /\ Offset(nowAt) \in Int
        BY <1>1, <2>1, OffsetOfMessage
      <3>3. OrderInv'
        BY <1>1, <1>4, <2>1, <3>1 DEF OrderInv
      <3>4. Offset(firstAt)' = Offset(nowAt)
        BY <2>1, <3>1 DEF Offset, Turn
      <3>5. OffsetInv'
        BY <3>1, <3>2, <3>4, SyncAssumption DEF OffsetInv
      <3> QED BY <1>2, <1>4, <3>3, <3>5
    <2>3. CASE valid = TRUE
      <3>1. /\ offsetEmaMs' = Truncated(3 * offsetEmaMs + OffsetMs) /\ firstAt' = firstAt
            /\ firstAt \in Nat /\ appliedAt \in Nat /\ firstAt <= appliedAt /\ appliedAt <= nowAt
            /\ offsetEmaMs \in Int
        BY <1>1, <1>4, <2>3 DEF Smoothed, OrderInv, OffsetInv
      <3>2. OrderInv'
        BY <1>1, <1>4, <2>1, <3>1 DEF OrderInv
      <3>3. OffsetMs \in Int
        BY <1>1, <2>1, OffsetOfMessage, SyncAssumption
      <3>4. offsetEmaMs' \in Int
        BY <3>1, <3>3 DEF Truncated
      <3>5. ASSUME Turn(nowAt) = Turn(firstAt)
            PROVE  offsetEmaMs' \in Offset(firstAt) - Lag .. Offset(firstAt)
        <4>1. Turn(firstAt) \in Nat /\ Turn(appliedAt) \in Nat /\ Turn(nowAt) \in Nat
          BY <2>1, <3>1, Clock DEF ClockInv
        <4>2. Turn(firstAt) <= Turn(appliedAt) /\ Turn(appliedAt) <= Turn(nowAt)
          BY <2>1, <3>1, TurnMonotone DEF ClockInv
        <4>3. offsetEmaMs \in Offset(firstAt) - Lag .. Offset(firstAt)
          BY <2>3, <3>5, <4>1, <4>2 DEF OffsetInv
        <4>4. /\ OffsetMs \in Offset(firstAt) - Lag .. Offset(firstAt)
              /\ Offset(firstAt) \in Int /\ Offset(firstAt) > Lag
          BY <1>1, <3>1, <3>5, OffsetOfMessage
        <4>5. Offset(firstAt) - Lag \in Nat /\ Offset(firstAt) \in Nat
          BY <4>4, SyncAssumption
        <4> QED BY <3>1, <4>3, <4>4, <4>5, AverageBetween
      <3>6. Offset(firstAt)' = Offset(firstAt) /\ Turn(appliedAt)' = Turn(nowAt)
            /\ Turn(firstAt)' = Turn(firstAt)
        BY <1>4, <2>1, <3>1 DEF Offset, Turn
      <3>7. OffsetInv'
        BY <3>4, <3>5, <3>6 DEF OffsetInv
      <3> QED BY <1>2, <1>4, <3>2, <3>7
    <2> QED BY <2>2, <2>3
  <1> QED BY <1>3, <1>4, Zenon DEF Apply

\* The invariant is inductive.
LEMMA NextSync == SyncInv /\ [SyncNext]_syncVars => SyncInv'
PROOF
  <1> SUFFICES ASSUME SyncInv, [SyncNext]_syncVars PROVE SyncInv'
    OBVIOUS
  <1> USE SyncAssumption
      DEF SyncInv, ClockInv, AirInv, MsgInv, OrderInv, OffsetInv, RideInv, Offset, Turn,
          syncWatch, syncBle, timeSync, syncRide
  <1>1. CASE Tick
    BY <1>1 DEF Tick
  <1>2. CASE Send
    BY <1>2 DEF Send
  <1>3. CASE Lose
    BY <1>3 DEF Lose
  <1>4. CASE Restart
    BY <1>4 DEF Restart
  <1>5. CASE Receive
    BY <1>5 DEF Receive
  <1>6. CASE Apply
    BY <1>6, ApplySync
  <1>7. CASE ReadMillis
    BY <1>7 DEF ReadMillis
  <1>8. CASE Estimate
    BY <1>8 DEF Estimate
  <1>9. CASE UNCHANGED syncVars
    BY <1>9 DEF syncVars
  <1> QED BY <1>1, <1>2, <1>3, <1>4, <1>5, <1>6, <1>7, <1>8, <1>9 DEF SyncNext

\* The invariant holds whatever messages are lost and however the watch restarts.
THEOREM SyncInductive == SyncSpec => []SyncInv
BY InitSync, NextSync, PTL DEF SyncSpec

\* An answer is the watch's time, late by at most the delay of a message.
LEMMA AnswerSound ==
  ASSUME SyncInv, Estimate, estimate' # 0, Turn(readAt) = Turn(firstAt), appliedAt <= readAt
  PROVE  estimate' \in Epoch + readAt - Lag .. Epoch + readAt
PROOF
  <1>1. valid = TRUE /\ estimate' = Millis(readAt) + offsetEmaMs
    BY DEF Estimate, SyncInv
  <1>2. readAt \in Nat /\ firstAt \in Nat /\ appliedAt \in Nat /\ firstAt <= appliedAt
    BY <1>1 DEF SyncInv, OrderInv, RideInv, Estimate, ClockInv
  <1>3. phase \in 0 .. Word - 1
    BY DEF SyncInv, ClockInv
  <1>4. Turn(firstAt) <= Turn(appliedAt) /\ Turn(appliedAt) <= Turn(readAt)
    BY <1>2, <1>3, TurnMonotone
  <1>5. Turn(firstAt) \in Nat /\ Turn(appliedAt) \in Nat /\ Turn(readAt) \in Nat
    BY <1>2, <1>3, Clock
  <1>6. offsetEmaMs \in Offset(firstAt) - Lag .. Offset(firstAt)
    BY <1>1, <1>4, <1>5 DEF SyncInv, OffsetInv
  <1>7. readAt + phase = Word * Turn(firstAt) + Millis(readAt) /\ Millis(readAt) \in Nat
    BY <1>2, <1>3, Clock, SyncAssumption
  <1>8. Word * Turn(firstAt) \in Nat
    BY <1>5, SyncAssumption, SMTT(30)
  <1> QED BY <1>1, <1>2, <1>3, <1>6, <1>7, <1>8, SyncAssumption DEF Offset

\* Every time given to an ensemble is the watch's at that moment, but for the delay of a
\* message, until millis() wraps.
THEOREM DatesTrue == SyncSpec => EstimateSound
PROOF
  <1>1. SyncInv /\ [SyncNext]_syncVars =>
          [ (Answers /\ estimate' # 0 /\ Turn(readAt) = Turn(firstAt) /\ appliedAt <= readAt)
              => estimate' \in Epoch + readAt - Lag .. Epoch + readAt ]_syncVars
    <2> SUFFICES ASSUME SyncInv, SyncNext, Answers, estimate' # 0, Turn(readAt) = Turn(firstAt),
                        appliedAt <= readAt
                 PROVE  estimate' \in Epoch + readAt - Lag .. Epoch + readAt
      OBVIOUS
    <2>1. Estimate
      BY DEF SyncNext, Answers, Tick, Send, Lose, Restart, Receive, Apply, ReadMillis, syncRide
    <2> QED BY <2>1, AnswerSound
  <1> QED BY <1>1, SyncInductive, PTL DEF SyncSpec, EstimateSound

-----------------------------------------------------------------------------
(***************************************************************************)
(* When an answer is given at all.                                         *)
(***************************************************************************)

\* Until the watch counts from 1 again, its numbers rise along the way of a message: so
\* none is dropped.
SeqInv ==
  restarted = FALSE =>
    /\ watchSeq \in Nat
    /\ \A m \in air : m.seq \in Nat /\ m.seq < watchSeq
         /\ (syncPc = "lock" => msg.seq < m.seq) /\ (valid = TRUE => syncSeq < m.seq)
    /\ syncPc = "lock" => msg.seq \in Nat /\ msg.seq < watchSeq
                            /\ (valid = TRUE => syncSeq < msg.seq)
    /\ valid = TRUE => syncSeq \in Nat /\ syncSeq < watchSeq /\ heardAt = appliedAt
    /\ valid = FALSE => heardAt = Never

\* No time that could be answered is taken for none: Epoch is later than a wrap.
PositiveInv == valid = TRUE => offsetEmaMs \in Nat \ {0}

HeardInv == SyncInv /\ SeqInv /\ PositiveInv

\* The age is the true one, but for whole turns of millis().
LEMMA AgeTurns ==
  ASSUME ClockInv, readAt \in Nat, appliedAt \in Nat
  PROVE  AgeMs \in 0 .. Word - 1 /\ \E k \in Int : AgeMs = readAt - appliedAt + Word * k
PROOF
  <1>1. PICK a \in Int : a = Millis(readAt) - Millis(appliedAt)
                         /\ a = readAt - appliedAt + Word * (Turn(appliedAt) - Turn(readAt))
    <2>1. Millis(readAt) \in Int /\ Millis(appliedAt) \in Int /\ Turn(readAt) \in Int
          /\ Turn(appliedAt) \in Int
      BY Clock, SyncAssumption DEF ClockInv
    <2>2. Word * (Turn(appliedAt) - Turn(readAt)) = Word * Turn(appliedAt) - Word * Turn(readAt)
      BY <2>1, SyncAssumption, SMTT(30)
    <2> QED BY <2>1, <2>2, Clock, SyncAssumption DEF ClockInv
  <1>2. AgeMs = a % Word
    BY <1>1 DEF AgeMs
  <1>3. a \in -Word + 1 .. Word - 1
    BY <1>1, Clock, SyncAssumption DEF ClockInv
  <1>4. PICK j \in {0, 1} : a % Word = a + Word * j /\ a % Word \in 0 .. Word - 1
    <2>1. CASE a >= 0
      BY <1>3, <2>1, SyncAssumption, SMTT(30)
    <2>2. CASE a < 0
      BY <1>3, <2>2, SyncAssumption, SMTT(30)
    <2> QED BY <1>3, <2>1, <2>2
  <1>5. Turn(appliedAt) \in Nat /\ Turn(readAt) \in Nat
    BY Clock DEF ClockInv
  <1> DEFINE k == Turn(appliedAt) - Turn(readAt) + j
  <1>6. Word * k = Word * (Turn(appliedAt) - Turn(readAt)) + Word * j
    BY <1>5, SyncAssumption, SMTT(30)
  <1>7. k \in Int /\ AgeMs = readAt - appliedAt + Word * k
    <2>1. Word * (Turn(appliedAt) - Turn(readAt)) \in Int /\ Word * j \in Int
      BY <1>5, SyncAssumption, SMTT(30)
    <2> QED BY <1>1, <1>2, <1>4, <1>5, <1>6, <2>1
  <1> QED BY <1>2, <1>4, <1>7

\* A multiple of Word other than none is at least Word away from zero.
LEMMA WholeTurns ==
  ASSUME NEW k \in Int
  PROVE  /\ k = 0 => Word * k = 0
         /\ k >= 1 => Word * k >= Word
         /\ k <= -1 => Word * k <= -Word
BY SyncAssumption, SMTT(30)

\* Nothing has been heard at first.
LEMMA InitHeard == SyncInit => HeardInv
PROOF
  <1> SUFFICES ASSUME SyncInit PROVE HeardInv
    OBVIOUS
  <1>1. valid = FALSE
    BY Zenon DEF SyncInit
  <1>2. SyncInv
    BY InitSync
  <1> QED BY <1>1, <1>2 DEF HeardInv, SyncInit, SeqInv, PositiveInv

\* A message is counted as heard when it is applied, and its offset is positive.
LEMMA ApplyHeard == ASSUME HeardInv, Apply PROVE SeqInv' /\ PositiveInv'
PROOF
  <1>1. /\ UNCHANGED <<time, phase, syncWatch, syncRide>> /\ syncPc' = "idle"
        /\ syncPc = "lock" /\ heardAt' = nowAt /\ valid \in BOOLEAN
    BY Zenon DEF Apply, HeardInv, SyncInv
  <1>2. CASE valid = TRUE /\ msg.seq <= syncSeq
            /\ UNCHANGED <<valid, syncSeq, offsetEmaMs, appliedAt, firstAt>>
    BY <1>1, <1>2 DEF HeardInv, SeqInv, PositiveInv, syncWatch
  <1>3. CASE /\ offsetEmaMs' = Smoothed /\ appliedAt' = nowAt /\ syncSeq' = msg.seq
             /\ valid' = TRUE
    <2>1. SeqInv'
      BY <1>1, <1>3 DEF HeardInv, SeqInv, syncWatch
    <2>2. OffsetMs \in Nat \ {0}
      <3>1. Millis(nowAt) \in 0 .. Word - 1 /\ nowAt \in Nat
        BY <1>1, Clock DEF HeardInv, SyncInv, ClockInv, MsgInv
      <3> QED BY <1>1, <3>1, SyncAssumption DEF HeardInv, SyncInv, MsgInv, OffsetMs
    <2>3. Smoothed \in Nat \ {0}
      <3>1. CASE valid = TRUE
        BY <2>2, <3>1 DEF Smoothed, Truncated, HeardInv, PositiveInv
      <3>2. CASE valid = FALSE
        BY <2>2, <3>2 DEF Smoothed
      <3> QED BY <1>1, <3>1, <3>2
    <2> QED BY <1>3, <2>1, <2>3 DEF PositiveInv
  <1> QED BY <1>1, <1>2, <1>3, Zenon DEF Apply

\* The invariant, with the numbers of the messages, is inductive.
LEMMA NextHeard == HeardInv /\ [SyncNext]_syncVars => HeardInv'
PROOF
  <1> SUFFICES ASSUME HeardInv, [SyncNext]_syncVars PROVE SeqInv' /\ PositiveInv'
    BY NextSync DEF HeardInv
  <1> USE DEF HeardInv, SeqInv, PositiveInv, syncWatch, syncBle, timeSync, syncRide
  <1>1. CASE Tick
    BY <1>1 DEF Tick
  <1>2. CASE Send
    BY <1>2 DEF Send
  <1>3. CASE Lose
    BY <1>3 DEF Lose
  <1>4. CASE Restart
    BY <1>4 DEF Restart
  <1>5. CASE Receive
    BY <1>5 DEF Receive
  <1>6. CASE Apply
    BY <1>6, ApplyHeard
  <1>7. CASE ReadMillis
    BY <1>7 DEF ReadMillis
  <1>8. CASE Estimate
    BY <1>8 DEF Estimate
  <1>9. CASE UNCHANGED syncVars
    BY <1>9 DEF syncVars
  <1> QED BY <1>1, <1>2, <1>3, <1>4, <1>5, <1>6, <1>7, <1>8, <1>9 DEF SyncNext

\* What DatedIffHeard asks of an answer.
LEMMA AnswerDated ==
  ASSUME HeardInv, Estimate
  PROVE  /\ (Within(heardAt) /\ ~restarted => estimate' # 0)
         /\ (estimate' # 0 => Within(appliedAt) \/ AWholeTurn(readAt - appliedAt))
PROOF
  <1>1. /\ readAt \in Nat /\ phase \in 0 .. Word - 1 /\ valid \in BOOLEAN
        /\ (valid = TRUE => appliedAt \in Nat)
    BY DEF HeardInv, SyncInv, RideInv, OrderInv, Estimate, ClockInv
  <1>2. ASSUME valid = TRUE
        PROVE  /\ AgeMs \in 0 .. Word - 1
               /\ \E k \in Int : AgeMs = readAt - appliedAt + Word * k
    BY <1>1, <1>2, AgeTurns DEF HeardInv, SyncInv
  <1>3. ASSUME Within(heardAt), ~restarted PROVE estimate' # 0
    <2>1. valid = TRUE /\ heardAt = appliedAt
      BY <1>1, <1>3 DEF HeardInv, SeqInv, Within
    <2>2. Fresh
      <3>1. PICK k \in Int : AgeMs = readAt - appliedAt + Word * k
        BY <1>2, <2>1
      <3>2. Word * k \in Int /\ (k = 0 \/ k >= 1 \/ k <= -1)
        BY SyncAssumption, SMTT(30)
      <3> QED BY <1>1, <1>2, <1>3, <2>1, <3>1, <3>2, WholeTurns, SyncAssumption DEF Fresh, Within
    <2>3. Millis(readAt) + offsetEmaMs > 0 /\ Millis(readAt) + offsetEmaMs # 0
      BY <1>1, <2>1, Clock, SyncAssumption DEF HeardInv, PositiveInv
    <2> QED BY <2>1, <2>2, <2>3 DEF Estimate
  <1>4. ASSUME estimate' # 0 PROVE Within(appliedAt) \/ AWholeTurn(readAt - appliedAt)
    <2>1. valid = TRUE /\ Fresh
      BY <1>4 DEF Estimate
    <2>2. PICK k \in Int : AgeMs = readAt - appliedAt + Word * k
      BY <1>2, <2>1
    <2>3. Word * k \in Int /\ (k = 0 \/ k >= 1 \/ k <= -1)
      BY SyncAssumption, SMTT(30)
    <2> QED BY <1>1, <1>2, <2>1, <2>2, <2>3, WholeTurns, SyncAssumption
            DEF Fresh, Within, AWholeTurn, Never
  <1> QED BY <1>3, <1>4

\* An ensemble is dated when the watch has been heard of late, and not when it has not.
THEOREM DatedWhenHeard == SyncSpec => DatedIffHeard
PROOF
  <1>1. HeardInv /\ [SyncNext]_syncVars =>
          [ Answers =>
              /\ (Within(heardAt) /\ ~restarted => estimate' # 0)
              /\ (estimate' # 0 => Within(appliedAt) \/ AWholeTurn(readAt - appliedAt)) ]_syncVars
    <2> SUFFICES ASSUME HeardInv, SyncNext, Answers
                 PROVE  /\ (Within(heardAt) /\ ~restarted => estimate' # 0)
                        /\ (estimate' # 0 => Within(appliedAt) \/ AWholeTurn(readAt - appliedAt))
      OBVIOUS
    <2>1. Estimate
      BY DEF SyncNext, Answers, Tick, Send, Lose, Restart, Receive, Apply, ReadMillis, syncRide
    <2> QED BY <2>1, AnswerDated
  <1> QED BY <1>1, InitHeard, NextHeard, PTL DEF SyncSpec, DatedIffHeard

-----------------------------------------------------------------------------
(***************************************************************************)
(* Both, as they run beside each other.                                    *)
(***************************************************************************)

\* The link's own share of a behavior of both is a behavior of the link, and the
\* synchronisation's one of the synchronisation.
THEOREM BothSides == Spec => LinkSpec /\ SyncSpec
PROOF
  <1>1. Init => LinkInit /\ SyncInit
    BY DEF Init
  <1>2. [Next]_<<side, linkVars, syncVars>> => [LinkNext]_linkVars /\ [SyncNext]_syncVars
    BY Zenon DEF Next
  <1> QED BY <1>1, <1>2, PTL DEF Spec, LinkSpec, SyncSpec

\* The numbers and program counters of the link.
LinkNumbers ==
  /\ context \in 0 .. MaxTests /\ test \in 0 .. MaxTests
  /\ held \in 0 .. MaxTests /\ since \in 0 .. MaxTests
  /\ mainPc \in TestPcs \cup {"advertisedTest", "idle", "advertiseRide", "advertisedRide", "ride"}
  /\ shown \in {"nothing", "CONNECTED", "DISCONNECTED"}
  /\ blePc \in {"idle", "connected", "advertising", "callback", "context", "call", "changed"}

\* Its flags.
LinkFlags ==
  /\ onAir \in BOOLEAN /\ connected \in BOOLEAN /\ advertising \in BOOLEAN /\ event \in BOOLEAN

LinkTypes == LinkNumbers /\ LinkFlags

\* Every step of the link keeps the types.
LEMMA NextTypes == LinkInv /\ ReportInv /\ LinkTypes /\ [LinkNext]_linkVars => LinkTypes'
PROOF
  <1> SUFFICES ASSUME LinkInv, ReportInv, LinkTypes, [LinkNext]_linkVars PROVE LinkTypes'
    OBVIOUS
  <1> USE DEF LinkTypes
  <1>0. Ended \in 0 .. MaxTests
    BY TestsAssumption DEF LinkInv, TestsCounted, LinkNumbers, Ended
  <1>1. CASE UNCHANGED linkVars
    <2>1. LinkNumbers'
      BY <1>1 DEF linkVars, linkPair, linkMain, linkBle, LinkNumbers
    <2>2. LinkFlags'
      BY <1>1, Zenon DEF linkVars, linkRadio, linkFlags, linkBle, LinkFlags
    <2> QED BY <2>1, <2>2
  <1>2. CASE RideBegins \/ RideEnds \/ Advertise \/ Advertised
    <2>1. LinkNumbers'
      BY <1>2 DEF RideBegins, RideEnds, Advertise, Advertised, MainGoto, linkPair, linkBle,
                  LinkNumbers, TestPcs
    <2>2. LinkFlags'
      BY <1>2, Zenon DEF RideBegins, RideEnds, Advertise, Advertised, linkRadio, linkFlags, linkBle,
                         LinkFlags, ReportInv, StatusOK
    <2> QED BY <2>1, <2>2
  <1>3. CASE SetContext \/ SetCallback \/ Quit
    <2>1. LinkNumbers'
      BY <1>3, TestsAssumption DEF SetContext, SetCallback, Quit, MainGoto, linkPair, linkBle,
                                   LinkNumbers, TestPcs
    <2>2. LinkFlags'
      BY <1>3, Zenon DEF SetContext, SetCallback, Quit, linkRadio, linkFlags, linkBle, LinkFlags
    <2> QED BY <2>1, <2>2
  <1>4. CASE TestBegins \/ Poll \/ Show
    <2>1. LinkNumbers'
      <3>1. CASE TestBegins
        BY <3>1, TestsAssumption DEF TestBegins, linkPair, linkBle, LinkNumbers, TestPcs
      <3>2. CASE Poll
        <4>1. UNCHANGED <<context, test, held, since, shown, blePc>> /\ mainPc' = "load"
          BY <3>2 DEF Poll, MainGoto, linkPair, linkBle
        <4> QED BY <4>1 DEF LinkNumbers, TestPcs
      <3>3. CASE Show
        <4>1. UNCHANGED <<context, test, held, since, blePc>> /\ mainPc' = "loop"
          BY <3>3 DEF Show, linkPair, linkBle
        <4>2. shown' \in {"CONNECTED", "DISCONNECTED"}
          BY <3>3, Zenon DEF Show
        <4> QED BY <4>1, <4>2 DEF LinkNumbers, TestPcs
      <3> QED BY <1>4, <3>1, <3>2, <3>3
    <2>2. LinkFlags'
      BY <1>4, Zenon DEF TestBegins, Poll, Show, linkRadio, linkFlags, linkBle, LinkFlags
    <2> QED BY <2>1, <2>2
  <1>5. CASE Event
    <2>1. LinkNumbers'
      BY <1>0, <1>5, TestsAssumption DEF Event, linkPair, linkMain, LinkNumbers
    <2>2. LinkFlags'
      BY <1>5, Zenon DEF Event, linkFlags, LinkFlags, ReportInv, StatusOK
    <2> QED BY <2>1, <2>2
  <1>6. CASE StoreConnected \/ StoreAdvertising
    <2>1. LinkNumbers'
      BY <1>6 DEF StoreConnected, StoreAdvertising, BleGoto, linkPair, linkMain, LinkNumbers
    <2>2. LinkFlags'
      BY <1>6, Zenon DEF StoreConnected, StoreAdvertising, BleGoto, linkRadio, LinkFlags
    <2> QED BY <2>1, <2>2
  <1>7. CASE LoadCallback \/ LoadContext
    <2>1. LinkNumbers'
      BY <1>7 DEF LoadCallback, LoadContext, BleGoto, linkPair, linkMain, LinkNumbers
    <2>2. LinkFlags'
      BY <1>7, Zenon DEF LoadCallback, LoadContext, BleGoto, linkRadio, linkFlags, LinkFlags
    <2> QED BY <2>1, <2>2
  <1>8. CASE Call \/ CallChanged
    <2>1. LinkNumbers'
      BY <1>8 DEF Call, CallChanged, BleGoto, linkPair, linkMain, LinkNumbers
    <2>2. LinkFlags'
      BY <1>8, Zenon DEF Call, CallChanged, BleGoto, linkRadio, linkFlags, LinkFlags
    <2> QED BY <2>1, <2>2
  <1> QED BY <1>1, <1>2, <1>3, <1>4, <1>5, <1>6, <1>7, <1>8 DEF LinkNext

\* The types of the link.
LEMMA LinkTyped == LinkSpec => []LinkTypeOK
PROOF
  <1>1. LinkInit => LinkTypes
    <2> SUFFICES ASSUME LinkInit PROVE LinkTypes
      OBVIOUS
    <2>1. LinkNumbers
      BY TestsAssumption DEF LinkInit, LinkNumbers, TestPcs
    <2>2. LinkFlags
      BY Zenon DEF LinkInit, LinkFlags
    <2> QED BY <2>1, <2>2 DEF LinkTypes
  <1>2. ReportInv /\ LinkTypes => LinkTypeOK
    BY Zenon DEF ReportInv, StatusOK, LinkTypes, LinkNumbers, LinkFlags, LinkTypeOK
  <1> QED BY <1>1, <1>2, InitReport, NextReport, NextTypes, LinkInductive, PTL DEF LinkSpec

\* The types of the synchronisation, but for what its invariant says of them.
SyncTypes ==
  /\ time \in 0 .. Horizon /\ phase \in Phases
  /\ watchSeq \in 1 .. MaxSeq + 1
  /\ air \subseteq [seq : 1 .. MaxSeq, unix : Epoch .. Epoch + Horizon]
  /\ syncPc \in {"idle", "lock"} /\ nowAt \in 0 .. Horizon
  /\ msg \in [seq : 0 .. MaxSeq, unix : {0} \cup Epoch .. Epoch + Horizon]
  /\ syncSeq \in 0 .. MaxSeq
  /\ offsetEmaMs \in 0 .. Epoch + Horizon
  /\ appliedAt \in Stamps /\ firstAt \in Stamps /\ heardAt \in Stamps
  /\ ridePc \in {"idle", "lock"} /\ readAt \in 0 .. Horizon /\ estimate \in Nat

\* A message leaves an average of offsets, each a time of the watch less millis().
LEMMA ApplyTypes == ASSUME SyncInv, SyncTypes, Apply PROVE SyncTypes'
PROOF
  <1>1. /\ UNCHANGED <<time, phase, syncWatch, syncRide>> /\ syncPc = "lock" /\ syncPc' = "idle"
        /\ nowAt' = 0 /\ msg' = NoMsg /\ heardAt' = nowAt
    BY DEF Apply
  <1>2. /\ nowAt \in 0 .. Horizon /\ nowAt \in Stamps /\ 0 \in 0 .. Horizon
        /\ NoMsg \in [seq : 0 .. MaxSeq, unix : {0} \cup Epoch .. Epoch + Horizon]
    BY SyncAssumption DEF SyncTypes, Stamps, Never, NoMsg
  <1>3. OffsetMs \in 0 .. Epoch + Horizon
    <2>1. Millis(nowAt) \in 0 .. Word - 1
      BY <1>1, <1>2, Clock DEF SyncInv, ClockInv
    <2> QED BY <1>1, <1>2, <2>1, SyncAssumption DEF SyncInv, MsgInv, OffsetMs
  <1>4. Smoothed \in 0 .. Epoch + Horizon
    <2>1. CASE valid = TRUE
      <3>1. Smoothed = Truncated(3 * offsetEmaMs + OffsetMs)
        BY <2>1 DEF Smoothed
      <3>2. offsetEmaMs \in 0 .. Epoch + Horizon /\ 0 \in Nat /\ Epoch + Horizon \in Nat
        BY SyncAssumption DEF SyncTypes
      <3> QED BY <1>3, <3>1, <3>2, AverageBetween
    <2>2. CASE valid = FALSE
      BY <1>3, <2>2 DEF Smoothed
    <2> QED BY <2>1, <2>2 DEF SyncInv
  <1>5. \/ UNCHANGED <<syncSeq, offsetEmaMs, appliedAt, firstAt>>
        \/ offsetEmaMs' = Smoothed /\ appliedAt' = nowAt /\ firstAt' \in {firstAt, nowAt}
             /\ syncSeq' = msg.seq
    BY Zenon DEF Apply
  <1>6. /\ syncSeq' \in 0 .. MaxSeq /\ offsetEmaMs' \in 0 .. Epoch + Horizon
        /\ appliedAt' \in Stamps /\ firstAt' \in Stamps
    BY <1>2, <1>4, <1>5 DEF SyncTypes
  <1> QED BY <1>1, <1>2, <1>6 DEF SyncTypes, syncWatch, syncRide

\* Every step of the synchronisation keeps the types.
LEMMA NextSyncTypes == SyncInv /\ SyncTypes /\ [SyncNext]_syncVars => SyncTypes'
PROOF
  <1> SUFFICES ASSUME SyncInv, SyncTypes, [SyncNext]_syncVars PROVE SyncTypes'
    OBVIOUS
  <1> USE SyncAssumption DEF SyncTypes, Stamps, Never, syncWatch, syncBle, timeSync, syncRide
  <1>1. CASE Tick
    BY <1>1 DEF Tick
  <1>2. CASE Send
    BY <1>2 DEF Send
  <1>3. CASE Lose
    BY <1>3 DEF Lose
  <1>4. CASE Restart
    BY <1>4 DEF Restart
  <1>5. CASE Receive
    BY <1>5 DEF Receive
  <1>6. CASE Apply
    BY <1>6, ApplyTypes
  <1>7. CASE ReadMillis
    BY <1>7 DEF ReadMillis
  <1>8. CASE Estimate
    <2>1. /\ UNCHANGED <<time, phase, watchSeq, air, syncPc, msg, nowAt, syncSeq, offsetEmaMs,
                         appliedAt, firstAt, heardAt>>
          /\ ridePc' = "idle" /\ readAt' = 0
      BY <1>8 DEF Estimate
    <2>2. estimate' \in Nat
      <3>1. Millis(readAt) \in Nat
        BY Clock DEF SyncInv, ClockInv
      <3>2. Millis(readAt) + offsetEmaMs \in Nat /\ 0 \in Nat
        BY <3>1
      <3>3. estimate' \in {Millis(readAt) + offsetEmaMs, 0}
        BY <1>8, Zenon DEF Estimate
      <3> QED BY <3>2, <3>3
    <2> QED BY <2>1, <2>2
  <1>9. CASE UNCHANGED syncVars
    BY <1>9 DEF syncVars
  <1> QED BY <1>1, <1>2, <1>3, <1>4, <1>5, <1>6, <1>7, <1>8, <1>9 DEF SyncNext

\* The flag of a restart, apart: it is a Boolean.
RestartTyped == restarted \in BOOLEAN

\* The types of the synchronisation.
LEMMA SyncTyped == SyncSpec => []SyncTypeOK
PROOF
  <1>1. SyncInit => SyncTypes
    BY SyncAssumption DEF SyncInit, SyncTypes, Stamps, Never, NoMsg
  <1>2. SyncInit => RestartTyped
    BY Zenon DEF SyncInit, RestartTyped
  <1>3. RestartTyped /\ [SyncNext]_syncVars => RestartTyped'
    BY Zenon DEF RestartTyped, SyncNext, Tick, Send, Lose, Restart, Receive, Apply, ReadMillis,
                 Estimate, syncVars, syncWatch
  <1>4. SyncInv /\ SyncTypes /\ RestartTyped => SyncTypeOK
    BY Zenon DEF SyncInv, SyncTypes, SyncTypeOK, RestartTyped
  <1>5. SyncSpec => []RestartTyped
    BY <1>2, <1>3, PTL DEF SyncSpec
  <1>6. SyncSpec => []SyncInv
    BY InitSync, NextSync, PTL DEF SyncSpec
  <1>7. SyncSpec => []SyncTypes
    BY <1>1, <1>6, NextSyncTypes, PTL DEF SyncSpec
  <1> QED BY <1>4, <1>5, <1>6, <1>7, PTL

\* The variables of both stay within their types, for every bound: a smoothed offset
\* never leaves the range of the clocks it was made of.
THEOREM TypesHold == Spec => []TypeOK
PROOF
  <1>1. LinkTypeOK /\ SyncTypeOK => TypeOK
    BY DEF TypeOK
  <1> QED BY <1>1, BothSides, LinkTyped, SyncTyped, PTL

=============================================================================
