------------------------------ MODULE TimeSync ------------------------------
(***************************************************************************)
(* The time synchronisation of BleLiveStream (ble/ble_live_stream.cpp):    *)
(* the watch sends its clock, numbered; the BLE thread smooths the offset  *)
(* to millis(); the ride dates its ensembles with it (ensembles.cpp).      *)
(*                                                                         *)
(* Time is counted in ticks of the board's clock, and the watch's clock is *)
(* taken not to drift: it reads Epoch + time.  millis() wraps at Word.     *)
(* The quality of the synchronisation and the snapshot of the last pair of *)
(* clocks are read by nobody and left out.  Each side holds timeSyncMutex_ *)
(* for all it does with timeSync_: one action.  A message of another type  *)
(* or length is ignored and not modelled.  Locals are reset when their     *)
(* function returns.                                                       *)
(*                                                                         *)
(* "Defect" marks a mutation of the definition after it.                   *)
(***************************************************************************)
EXTENDS Integers

CONSTANTS
  Word,          (* millis() is taken modulo this                             *)
  MaxAge,        (* MAX_SYNC_AGE_MS                                           *)
  Epoch,         (* the watch's clock when the board starts                   *)
  Lag,           (* the longest a message is under way                        *)
  Phases,        (* values of millis() when the model starts                  *)
  Horizon,       (* bounds the time                                           *)
  MaxSeq         (* bounds the messages of the watch between two restarts     *)

ASSUME SyncAssumption ==
  /\ Word \in Nat \ {0} /\ MaxAge \in 0 .. Word - 1 /\ Lag \in Nat
  /\ Epoch \in Nat /\ Epoch > Word + Lag
  /\ Phases \subseteq 0 .. Word - 1
  /\ Horizon \in Nat /\ MaxSeq \in Nat

VARIABLES
  time, phase,   (* the true time, and millis() at time 0                     *)
  watchSeq,      (* the number the watch gives next                           *)
  restarted,     (* the watch has begun to count again (history)              *)
  air,           (* the message under way, if any                             *)
  syncPc,        (* the BLE thread: "idle", or "lock" in handleTimeSync()     *)
  msg, nowAt,    (* what it has received, and when it read millis()           *)
  valid, syncSeq, offsetEmaMs,                (* timeSync_                    *)
  appliedAt,     (* when millis() was lastUpdateMs                            *)
  firstAt,       (* when it was that of the first message (history)           *)
  heardAt,       (* when millis() was read for the last message, dropped ones *)
                 (* included (history)                                        *)
  ridePc,        (* the ride: "idle", or "lock" in estimateUnixTime()         *)
  readAt,        (* when it read the argument                                 *)
  estimate       (* what it got, in ticks                                     *)

syncWatch == <<watchSeq, restarted, air>>
syncBle   == <<syncPc, msg, nowAt>>
timeSync  == <<valid, syncSeq, offsetEmaMs, appliedAt, firstAt, heardAt>>
syncRide  == <<ridePc, readAt, estimate>>
syncVars  == <<time, phase, syncWatch, syncBle, timeSync, syncRide>>

Never == -1

NoMsg == [seq |-> 0, unix |-> 0]

Millis(t) == (t + phase) % Word

SyncInit ==
  /\ time = 0 /\ phase \in Phases
  /\ watchSeq = 1 /\ restarted = FALSE /\ air = {}
  /\ syncPc = "idle" /\ msg = NoMsg /\ nowAt = 0
  /\ valid = FALSE /\ syncSeq = 0 /\ offsetEmaMs = 0
  /\ appliedAt = Never /\ firstAt = Never /\ heardAt = Never
  /\ ridePc = "idle" /\ readAt = 0 /\ estimate = 0

-----------------------------------------------------------------------------

\* Time passes; a message is not under way for longer than Lag.
Tick ==
  /\ time < Horizon
  /\ \A m \in air : Epoch + time - m.unix < Lag
  /\ time' = time + 1
  /\ UNCHANGED <<phase, syncWatch, syncBle, timeSync, syncRide>>

\* The watch sends its clock.
Send ==
  /\ air = {} /\ watchSeq <= MaxSeq
  /\ air' = {[seq |-> watchSeq, unix |-> Epoch + time]}
  /\ watchSeq' = watchSeq + 1
  /\ UNCHANGED <<time, phase, restarted, syncBle, timeSync, syncRide>>

\* The link drops a message.
Lose ==
  /\ air # {}
  /\ air' = {}
  /\ UNCHANGED <<time, phase, watchSeq, restarted, syncBle, timeSync, syncRide>>

\* The watch, or its app, is started again and counts from 1.
Restart ==
  /\ ~restarted
  /\ watchSeq' = 1 /\ restarted' = TRUE
  /\ UNCHANGED <<time, phase, air, syncBle, timeSync, syncRide>>

\* handleTimeSync() reads millis(), and is yet to get the lock.
Receive ==
  /\ syncPc = "idle"
  /\ \E m \in air : msg' = m
  /\ air' = {}
  /\ nowAt' = time /\ syncPc' = "lock"
  /\ UNCHANGED <<time, phase, watchSeq, restarted, timeSync, syncRide>>

\* The new average of the offset (int64_t, divided towards zero).  Once millis()
\* has wrapped the average is of offsets that differ by 2^32.
\*
\* Defect: the offset has the wrong sign.
OffsetSwapped == Millis(nowAt) - msg.unix

OffsetMs == msg.unix - Millis(nowAt)
Truncated(n) == IF n >= 0 THEN n \div 4 ELSE -((-n) \div 4)

\* Defect: the first offset is smoothed like the others.
SmoothedAlways == Truncated(3 * offsetEmaMs + OffsetMs)

Smoothed == IF valid THEN Truncated(3 * offsetEmaMs + OffsetMs) ELSE OffsetMs

\* The rest of it, under the lock.
Apply ==
  /\ syncPc = "lock"
  /\ syncPc' = "idle" /\ nowAt' = 0 /\ msg' = NoMsg
  /\ heardAt' = nowAt
  /\ \/ /\ valid /\ msg.seq <= syncSeq
        /\ UNCHANGED <<valid, syncSeq, offsetEmaMs, appliedAt, firstAt>>
     \/ /\ ~(valid /\ msg.seq <= syncSeq)
        /\ offsetEmaMs' = Smoothed
        /\ appliedAt' = nowAt /\ firstAt' = IF valid THEN firstAt ELSE nowAt
        /\ syncSeq' = msg.seq /\ valid' = TRUE
  /\ UNCHANGED <<time, phase, syncWatch, syncRide>>

\* logEnsembles(): millis() is read for the argument of estimateUnixTime().
ReadMillis ==
  /\ ridePc = "idle"
  /\ readAt' = time /\ ridePc' = "lock" /\ estimate' = 0
  /\ UNCHANGED <<time, phase, syncWatch, syncBle, timeSync>>

AgeMs == (Millis(readAt) - Millis(appliedAt)) % Word

\* Defect: the age is compared as if millis() never wrapped.
FreshSigned == Millis(readAt) - Millis(appliedAt) \in 0 .. MaxAge

Fresh == AgeMs <= MaxAge

\* estimateUnixTime(): the offset, the age and the answer; 0 is "no time".
Estimate ==
  /\ ridePc = "lock"
  /\ estimate' = LET e == Millis(readAt) + offsetEmaMs
                 IN  IF valid /\ Fresh /\ e > 0 THEN e ELSE 0
  /\ ridePc' = "idle" /\ readAt' = 0
  /\ UNCHANGED <<time, phase, syncWatch, syncBle, timeSync>>

SyncNext ==
  \/ Tick \/ Send \/ Lose \/ Restart
  \/ Receive \/ Apply \/ ReadMillis \/ Estimate

SyncSpec == SyncInit /\ [][SyncNext]_syncVars

-----------------------------------------------------------------------------

Stamps == Never .. Horizon

\* The type invariant.
SyncTypeOK ==
  /\ time \in 0 .. Horizon /\ phase \in Phases
  /\ watchSeq \in 1 .. MaxSeq + 1 /\ restarted \in BOOLEAN
  /\ air \subseteq [seq : 1 .. MaxSeq, unix : Epoch .. Epoch + Horizon]
  /\ syncPc \in {"idle", "lock"} /\ nowAt \in 0 .. Horizon
  /\ msg \in [seq : 0 .. MaxSeq, unix : {0} \cup Epoch .. Epoch + Horizon]
  /\ valid \in BOOLEAN /\ syncSeq \in 0 .. MaxSeq
  /\ offsetEmaMs \in 0 .. Epoch + Horizon
  /\ appliedAt \in Stamps /\ firstAt \in Stamps /\ heardAt \in Stamps
  /\ ridePc \in {"idle", "lock"} /\ readAt \in 0 .. Horizon /\ estimate \in Nat

\* The turns of millis() at time t.
Turn(t) == (t + phase) \div Word

Answers == ridePc = "lock" /\ ridePc' = "idle"

\* A time given to an ensemble is the time of the watch when millis() was read for
\* it, late by no more than a message is (ble_live_stream.cpp:148: no round trip is
\* measured): lost messages, restarts of the watch and the smoothing do not make it
\* worse.  Excused are the readings after millis() has wrapped, if it has since the
\* first message: the average then mixes the turns.
EstimateSound ==
  [][ (Answers /\ estimate' # 0 /\ Turn(readAt) = Turn(firstAt) /\ appliedAt <= readAt)
        => estimate' \in Epoch + readAt - Lag .. Epoch + readAt ]_syncVars

AWholeTurn(age) == age >= Word \/ age <= MaxAge - Word

Within(t) == t # Never /\ readAt - t \in 0 .. MaxAge

\* An ensemble is dated exactly when the watch has been heard in the last 60 s
\* (ble_live_stream.cpp:196).  Excused are a watch that has counted from 1 again, which is
\* dropped until it passes its old number (:152); a message that overtakes the
\* reading, which makes its age wrap and leaves the ensemble undated
\* (ensembles.cpp:378); an age of a whole turn of millis(), which looks fresh.
DatedIffHeard ==
  [][ Answers =>
        /\ (Within(heardAt) /\ ~restarted => estimate' # 0)
        /\ (estimate' # 0 => Within(appliedAt) \/ AWholeTurn(readAt - appliedAt)) ]_syncVars

=============================================================================
