---------------------------- MODULE WaterSensor ----------------------------
(***************************************************************************)
(* WaterSensor (watersensor/waterSensor.cpp): a ring of wet/dry samples,   *)
(* its rolling sum, and the in/out-of-water status with hysteresis.        *)
(*                                                                         *)
(* The water timer takes a reading every second.  The main thread changes  *)
(* the window, from the CLI with the timer running and from the            *)
(* manufacturing test with the timer stopped; it works statement by        *)
(* statement and the timer comes in between.  A timer callback itself is   *)
(* one step: the main thread does not preempt it.                          *)
(*                                                                         *)
(* The comparison with High is of a truncated quotient and is kept as it   *)
(* is; truncation cannot change the other one.  The prompt of the CLI sets *)
(* a window that it has called too large; one of zero is left out.         *)
(*                                                                         *)
(* "Defect" marks a mutation of the definition after it.                   *)
(***************************************************************************)
EXTENDS Integers, Sequences, FiniteSets

CONSTANTS
  ArraySize,    (* WATER_DETECT_ARRAY_SIZE                                  *)
  Windows,      (* the windows that are asked for                           *)
  Low, High     (* low_detect_percentage, high_detect_percentage            *)

ASSUME WindowAssumption ==
  /\ ArraySize \in 1 .. 255
  /\ Windows \subseteq 1 .. 255 /\ Windows # {}
ASSUME PercentAssumption == Low \in 0 .. 100 /\ High \in Low .. 99

VARIABLES
  array,        (* water_detect_array                                       *)
  location,     (* array_location                                           *)
  sum,          (* array_sum, a uint8_t                                     *)
  samples,      (* samples_taken_since_reset                                *)
  window,       (* moving_window_size                                       *)
  status,       (* last_water_detect                                        *)
  timer,        (* the water timer runs                                     *)
  main,         (* the statements the main thread has left, their arguments *)
  readings,     (* the latest readings since the last reset (history)       *)
  torn          (* a reading came between the statements of the CLI's last  *)
                (* window change (history)                                  *)

ring    == <<array, location, sum, samples>>
vars    == <<ring, window, status, timer, main, readings, torn>>

Idle == main.todo = << >>

-----------------------------------------------------------------------------
\* Defect: the sum is wide enough to go below zero.
Unbounded(n) == n

Uint8(n) == n % 256

\* waterDetectArrayLocation.
ArrayLocation(loc, offset) ==
  CASE loc + offset < 0        -> window + loc + offset
    [] loc + offset >= window  -> loc + offset - window
    [] OTHER                   -> loc + offset

Clamped(w) == IF w > ArraySize THEN ArraySize ELSE w

Init ==
  /\ array = [i \in 0 .. ArraySize - 1 |-> 0]
  /\ location = 0 /\ sum = 0 /\ samples = 0
  /\ window \in {Clamped(w) : w \in Windows}
  /\ status = 0
  /\ timer = TRUE
  /\ main = [todo |-> << >>, window |-> window, i |-> 0]
  /\ readings = << >>
  /\ torn = FALSE

\* Defect: the sample that leaves the window is subtracted after it was
\* overwritten.
TakeSampleLate(reading) ==
  LET loc == (location + 1) % window
      new == [array EXCEPT ![loc] = reading]
  IN  /\ location' = loc
      /\ array' = new
      /\ sum' = Uint8(sum + reading - new[ArrayLocation(loc, -window)])
      /\ samples' = IF samples < window THEN samples + 1 ELSE samples

\* Defect: the location runs through the whole array.
TakeSampleArray(reading) ==
  LET loc == (location + 1) % ArraySize
  IN  /\ location' = loc
      /\ array' = [array EXCEPT ![loc] = reading]
      /\ sum' = Uint8(sum - array[loc] + reading)
      /\ samples' = IF samples < window THEN samples + 1 ELSE samples

\* The first half of takeReading(): the ring and its sum.
TakeSample(reading) ==
  LET loc == (location + 1) % window
  IN  /\ location' = loc
      /\ array' = [array EXCEPT ![loc] = reading]
      /\ sum' = Uint8(sum - array[ArrayLocation(loc, -window)] + reading)
      /\ samples' = IF samples < window THEN samples + 1 ELSE samples

Enough(n) == 100 * n >= window * High

\* Defect: the hysteresis is left out: between the bounds the status is dry.
DetectNoHysteresis(total, n, old) ==
  CASE ~Enough(n)                    -> old
    [] total * 100 > window * High   -> 1
    [] OTHER                         -> 0

\* Defect: the percentage is one of the whole array.
DetectOfArray(total, n, old) ==
  CASE ~Enough(n)                                     -> old
    [] Enough(n) /\ total * 100 < ArraySize * Low     -> 0
    [] Enough(n) /\ total * 100 > ArraySize * High    -> 1
    [] OTHER                                          -> old

\* The second half of takeReading(): the status.
Detect(total, n, old) ==
  CASE ~Enough(n)                                     -> old
    [] Enough(n) /\ total * 100 < window * Low        -> 0
    [] Enough(n) /\ (total * 100) \div window > High  -> 1
    [] OTHER                                          -> old

\* The last window readings and no more.
Latest(s) == IF Len(s) > ArraySize THEN Tail(s) ELSE s

takeReading(reading) ==
  /\ TakeSample(reading)
  /\ status' = Detect(sum', samples', status)
  /\ readings' = Latest(Append(readings, reading))

\* SYS_waterTask, on the timer thread.
WaterTask(reading) ==
  /\ timer
  /\ takeReading(reading)
  /\ torn' = (torn \/ ~Idle)
  /\ UNCHANGED <<window, timer, main>>

-----------------------------------------------------------------------------
(***************************************************************************)
(* The main thread.                                                        *)
(***************************************************************************)

setWindowSize == <<"setWindow", "clearSum", "addSamples", "trimSamples">>
resetArray    == <<"clearArray", "resetSum", "resetLocation", "resetSamples">>

\* CLI_setWaterSensorWindow: the timer goes on.
CliSetWindow(w) ==
  /\ Idle /\ timer
  /\ main' = [todo |-> setWindowSize \o resetArray, window |-> w, i |-> 0]
  /\ torn' = FALSE
  /\ UNCHANGED <<ring, window, status, timer, readings>>

\* wet_dry_sensor_test: the timer is stopped while readings are taken here.
MfgTestStart(w) ==
  /\ Idle /\ timer
  /\ timer' = FALSE
  /\ main' = [todo |-> resetArray \o setWindowSize \o <<"forceState">>, window |-> w, i |-> 0]
  /\ torn' = FALSE
  /\ UNCHANGED <<ring, window, status, readings>>

MfgTestReading(reading) ==
  /\ Idle /\ ~timer
  /\ takeReading(reading)
  /\ UNCHANGED <<window, timer, main, torn>>

MfgTestEnd ==
  /\ Idle /\ ~timer
  /\ timer' = TRUE
  /\ UNCHANGED <<ring, window, status, main, readings, torn>>

Do(statement) ==
  /\ ~Idle /\ Head(main.todo) = statement
  /\ main' = [main EXCEPT !.todo = Tail(@)]

SetWindow ==
  /\ Do("setWindow")
  /\ window' = Clamped(main.window)
  /\ UNCHANGED <<ring, status, timer, readings, torn>>

ClearSum ==
  /\ Do("clearSum") \/ Do("resetSum")
  /\ sum' = 0
  /\ UNCHANGED <<array, location, samples, window, status, timer, readings, torn>>

\* The loop that sums the samples of the new window.
AddSample ==
  /\ ~Idle /\ Head(main.todo) = "addSamples"
  /\ IF main.i < window /\ main.i < samples
     THEN /\ sum' = Uint8(sum + array[ArrayLocation(location, -main.i)])
          /\ main' = [main EXCEPT !.i = @ + 1]
     ELSE /\ main' = [main EXCEPT !.todo = Tail(@), !.i = 0]
          /\ UNCHANGED sum
  /\ UNCHANGED <<array, location, samples, window, status, timer, readings, torn>>

TrimSamples ==
  /\ Do("trimSamples")
  /\ samples' = IF samples > window THEN window ELSE samples
  /\ UNCHANGED <<array, location, sum, window, status, timer, readings, torn>>

ClearArray ==
  /\ Do("clearArray")
  /\ array' = [i \in 0 .. ArraySize - 1 |-> 0]
  /\ readings' = << >>
  /\ UNCHANGED <<location, sum, samples, window, status, timer, torn>>

ResetLocation ==
  /\ Do("resetLocation")
  /\ location' = 0
  /\ UNCHANGED <<array, sum, samples, window, status, timer, readings, torn>>

ResetSamples ==
  /\ Do("resetSamples")
  /\ samples' = 0
  /\ UNCHANGED <<array, location, sum, window, status, timer, readings, torn>>

ForceState ==
  /\ Do("forceState")
  /\ status' = 0
  /\ UNCHANGED <<ring, window, timer, readings, torn>>

MainStep ==
  \/ SetWindow \/ ClearSum \/ AddSample \/ TrimSamples
  \/ ClearArray \/ ResetLocation \/ ResetSamples \/ ForceState

Next ==
  \/ \E reading \in {0, 1} : WaterTask(reading) \/ MfgTestReading(reading)
  \/ \E w \in Windows : CliSetWindow(w) \/ MfgTestStart(w)
  \/ MfgTestEnd
  \/ MainStep

Spec == Init /\ [][Next]_vars

-----------------------------------------------------------------------------
(***************************************************************************)
(* Properties.                                                             *)
(***************************************************************************)

\* The type invariant.  The location may lie beyond a window just made smaller.
TypeOK ==
  /\ array \in [0 .. ArraySize - 1 -> {0, 1}]
  /\ location \in 0 .. ArraySize - 1
  /\ sum \in 0 .. 255
  /\ window \in 1 .. ArraySize
  /\ samples \in 0 .. ArraySize /\ (Idle => samples <= window)
  /\ status \in {0, 1} /\ timer \in BOOLEAN /\ torn \in BOOLEAN
  /\ main.i \in 0 .. ArraySize
  /\ readings \in Seq({0, 1})

Wet == {i \in 0 .. window - 1 : array[i] = 1}

\* waterSensor.hpp:70-72 calls array_sum the "Sum of the current samples in the
\* window".  Between two operations the rolling sum is the number of wet
\* samples in the ring.
SumOfWindow == Idle => sum = Cardinality(Wet)

\* ... which holds unless a reading came in the middle of the CLI's last window
\* change.
SumUntorn == ~torn => SumOfWindow

\* The last k readings.
Last(k) == SubSeq(readings, Len(readings) - k + 1, Len(readings))
WetIn(s) == Cardinality({i \in 1 .. Len(s) : s[i] = 1})

\* The ring is the recent past: going back from the location one finds the
\* readings since the reset, latest first, for as many as have been counted.
RingIsRecent ==
  Idle /\ ~torn =>
    /\ samples = IF Len(readings) < window THEN Len(readings) ELSE window
    /\ \A k \in 0 .. samples - 1 :
         array[(location - k + window) % window] = readings[Len(readings) - k]

\* The hysteresis.  A reading changes the status to "in water" only when more
\* than High percent of the window was wet, to "out of water" only when less
\* than Low percent was; samples not yet taken count as dry.
ChangesWithCause ==
  [][ ~torn' /\ readings' # readings /\ readings' # << >> /\ status' # status =>
        LET latest == SubSeq(readings', IF Len(readings') > window
                                        THEN Len(readings') - window + 1 ELSE 1,
                             Len(readings'))
        IN  IF status' = 1 THEN 100 * WetIn(latest) > High * window
            ELSE 100 * WetIn(latest) < Low * window ]_vars

\* A window of wet readings means "in water", a window of dry ones "out of
\* water": the hysteresis cannot keep a status the whole window contradicts.
WindowDecides ==
  Idle /\ ~torn /\ Len(readings) >= window =>
    /\ WetIn(Last(window)) = window => status = 1
    /\ WetIn(Last(window)) = 0 /\ Low > 0 => status = 0

=============================================================================
