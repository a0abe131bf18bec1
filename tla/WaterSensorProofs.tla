------------------------- MODULE WaterSensorProofs -------------------------
(***************************************************************************)
(* Safety of WaterSensor for every size of the array, every set of windows *)
(* and every pair of percentages.                                          *)
(*                                                                         *)
(* The invariant IInv follows the main thread: it knows which statements   *)
(* may be left, what those already done have put to zero, and, between two *)
(* operations that no reading has torn, that the ring is a picture of the  *)
(* latest readings.                                                        *)
(***************************************************************************)
EXTENDS WaterSensor, FiniteSetTheorems, TLAPS

(***************************************************************************)
(* The inductive invariant.                                                *)
(***************************************************************************)

\* The two programs of the main thread, and how many statements are left.  The CLI
\* leaves the timer on; the test has it stopped, so that no reading can tear its
\* reset.
Statement ==
  {"setWindow", "clearSum", "addSamples", "trimSamples",
   "clearArray", "resetSum", "resetLocation", "resetSamples", "forceState"}
Cli     == setWindowSize \o resetArray
Mfg     == resetArray \o setWindowSize \o <<"forceState">>
Program == IF timer = TRUE THEN Cli ELSE Mfg
Left    == Len(main.todo)

\* The main thread has an end of its program left ...
ProgramInv ==
  /\ main = [todo |-> main.todo, window |-> main.window, i |-> main.i]
  /\ main.todo \in Seq(Statement)
  /\ Left <= Len(Program)
  /\ \A n \in 1 .. Left : main.todo[n] = Program[Len(Program) - Left + n]
  /\ main.window \in 1 .. 255

\* ... is not disturbed with the timer stopped ...
Undisturbed == timer # TRUE => torn # TRUE

\* ... and counts more samples than the window has only until the CLI has trimmed the
\* count.
Trimmed == samples > window => timer = TRUE /\ Left >= 5

MainInv == ProgramInv /\ Undisturbed /\ Trimmed

\* What the reset has put to zero when no reading came in between.  The statement
\* after which a count of statements is left is its last one.
Cleared == (\A i \in 0 .. ArraySize - 1 : array[i] = 0) /\ readings = << >>
Done == IF timer = TRUE THEN 4 - Left ELSE 9 - Left
ZeroInv ==
  torn # TRUE /\ Left > 0 =>
    /\ Done >= 1 => Cleared
    /\ Done >= 2 => sum = 0
    /\ Done >= 3 => location = 0
    /\ Done >= 4 => samples = 0

\* The place of the sample taken k readings ago.
Place(k) == IF k <= location THEN location - k ELSE location - k + window

\* The ring holds the counted readings and nothing else, its sum is right, and a
\* full window of equal samples has decided the status.
Shape ==
  /\ location < window
  /\ Len(readings) <= ArraySize
  /\ samples = IF Len(readings) < window THEN Len(readings) ELSE window
Recent ==
  \A k \in 0 .. window - 1 :
    array[Place(k)] = IF k < samples THEN readings[Len(readings) - k] ELSE 0
Counted == sum = Cardinality(Wet)
Decided ==
  samples = window => /\ sum = window => status = 1
                      /\ sum = 0 /\ Low > 0 => status = 0
Picture == Shape /\ Recent /\ Counted /\ Decided
RingInv == Idle /\ torn # TRUE => Picture

IInv == TypeOK /\ MainInv /\ ZeroInv /\ RingInv
-----------------------------------------------------------------------------
(***************************************************************************)
(* Lemmas.                                                                 *)
(***************************************************************************)

\* A concatenation, element by element.
LEMMA Concatenation ==
  ASSUME NEW s \in Seq(Statement), NEW t \in Seq(Statement), NEW c, c = s \o t
  PROVE  /\ c \in Seq(Statement) /\ Len(c) = Len(s) + Len(t)
         /\ \A n \in 1 .. Len(s) : c[n] = s[n]
         /\ \A n \in 1 .. Len(t) : c[Len(s) + n] = t[n]
OBVIOUS

\* The statements of the two programs.
LEMMA Programs ==
  /\ Cli \in Seq(Statement) /\ Len(Cli) = 8
  /\ Cli[1] = "setWindow"  /\ Cli[2] = "clearSum" 
  /\ Cli[3] = "addSamples" /\ Cli[4] = "trimSamples"
  /\ Cli[5] = "clearArray" /\ Cli[6] = "resetSum" 
  /\ Cli[7] = "resetLocation" /\ Cli[8] = "resetSamples"
  /\ Mfg \in Seq(Statement) /\ Len(Mfg) = 9
  /\ Mfg[1] = "clearArray" /\ Mfg[2] = "resetSum"
  /\ Mfg[3] = "resetLocation" /\ Mfg[4] = "resetSamples"
  /\ Mfg[5] = "setWindow"  /\ Mfg[6] = "clearSum"
  /\ Mfg[7] = "addSamples" /\ Mfg[8] = "trimSamples" /\ Mfg[9] = "forceState"
PROOF
  <1>1. /\ setWindowSize \in Seq(Statement) /\ Len(setWindowSize) = 4
        /\ setWindowSize[1] = "setWindow"  /\ setWindowSize[2] = "clearSum" 
        /\ setWindowSize[3] = "addSamples" /\ setWindowSize[4] = "trimSamples"
    BY DEF setWindowSize, Statement
  <1>2. /\ resetArray \in Seq(Statement) /\ Len(resetArray) = 4
        /\ resetArray[1] = "clearArray" /\ resetArray[2] = "resetSum" 
        /\ resetArray[3] = "resetLocation" /\ resetArray[4] = "resetSamples"
    BY DEF resetArray, Statement
  <1>3. <<"forceState">> \in Seq(Statement) /\ Len(<<"forceState">>) = 1
        /\ <<"forceState">>[1] = "forceState"
    BY DEF Statement
  <1>4. /\ Cli \in Seq(Statement) /\ Len(Cli) = Len(setWindowSize) + Len(resetArray)
        /\ \A n \in 1 .. Len(setWindowSize) : Cli[n] = setWindowSize[n]
        /\ \A n \in 1 .. Len(resetArray) : Cli[Len(setWindowSize) + n] = resetArray[n]
    BY <1>1, <1>2, Concatenation, Zenon DEF Cli
  <1>5. PICK reset : reset = resetArray \o setWindowSize
    OBVIOUS
  <1>6. /\ reset \in Seq(Statement) /\ Len(reset) = Len(resetArray) + Len(setWindowSize)
        /\ \A n \in 1 .. Len(resetArray) : reset[n] = resetArray[n]
        /\ \A n \in 1 .. Len(setWindowSize) : reset[Len(resetArray) + n] = setWindowSize[n]
    BY <1>1, <1>2, <1>5, Concatenation, Zenon
  <1>7. PICK force : force = <<"forceState">>
    OBVIOUS
  <1>8. /\ Mfg \in Seq(Statement) /\ Len(Mfg) = Len(reset) + Len(force)
        /\ \A n \in 1 .. Len(reset) : Mfg[n] = reset[n]
        /\ \A n \in 1 .. Len(force) : Mfg[Len(reset) + n] = force[n]
    <2>1. Mfg = reset \o force
      BY <1>5, <1>7, Zenon DEF Mfg
    <2>2. force \in Seq(Statement)
      BY <1>3, <1>7, Zenon
    <2>3. reset \in Seq(Statement)
      BY <1>6, Zenon
    <2>4. ASSUME NEW s \in Seq(Statement), NEW t \in Seq(Statement), Mfg = s \o t
          PROVE  /\ Mfg \in Seq(Statement) /\ Len(Mfg) = Len(s) + Len(t)
                 /\ \A n \in 1 .. Len(s) : Mfg[n] = s[n]
                 /\ \A n \in 1 .. Len(t) : Mfg[Len(s) + n] = t[n]
      <3> HIDE DEF Mfg
      <3> QED BY <2>4, Concatenation
    <2> QED BY <2>1, <2>2, <2>3, <2>4, Zenon
  <1>9. Len(force) = 1 /\ force[1] = "forceState"
    BY <1>3, <1>7, Zenon
  <1>10. /\ Cli[1] = setWindowSize[1] /\ Cli[2] = setWindowSize[2]
         /\ Cli[3] = setWindowSize[3] /\ Cli[4] = setWindowSize[4]
         /\ Cli[5] = resetArray[1] /\ Cli[6] = resetArray[2]
         /\ Cli[7] = resetArray[3] /\ Cli[8] = resetArray[4] /\ Len(Cli) = 8
    BY <1>1, <1>2, <1>4
  <1>11. /\ Len(reset) = 8
         /\ reset[1] = resetArray[1] /\ reset[2] = resetArray[2]
         /\ reset[3] = resetArray[3] /\ reset[4] = resetArray[4]
         /\ reset[5] = setWindowSize[1] /\ reset[6] = setWindowSize[2]
         /\ reset[7] = setWindowSize[3] /\ reset[8] = setWindowSize[4]
    <2> HIDE <1>5
    <2> QED BY <1>1, <1>2, <1>6
  <1>12. /\ Len(Mfg) = 9
         /\ Mfg[1] = reset[1] /\ Mfg[2] = reset[2] /\ Mfg[3] = reset[3]
         /\ Mfg[4] = reset[4] /\ Mfg[5] = reset[5] /\ Mfg[6] = reset[6]
         /\ Mfg[7] = reset[7] /\ Mfg[8] = reset[8] /\ Mfg[9] = force[1]
    BY <1>8, <1>9, <1>11
  <1> QED BY <1>1, <1>2, <1>4, <1>8, <1>9, <1>10, <1>11, <1>12

\* A remainder of a sum of two places of the window.
LEMMA Remainder ==
  /\ \A w \in Nat \ {0} : \A n \in Nat : n % w \in 0 .. w - 1
  /\ \A w \in Nat \ {0} : \A n \in 0 .. w - 1 : n % w = n
  /\ \A w \in Nat \ {0} : \A n \in w .. 2 * w - 1 : n % w = n - w
PROOF
  <1>1. ASSUME NEW w \in Nat \ {0}, NEW n \in Nat PROVE n % w \in 0 .. w - 1
    BY SMTT(30)
  <1>2. ASSUME NEW w \in Nat \ {0}, NEW n \in 0 .. w - 1 PROVE n % w = n
    BY SMTT(30)
  <1>3. ASSUME NEW w \in Nat \ {0}, NEW n \in w .. 2 * w - 1 PROVE n % w = n - w
    BY SMTT(30)
  <1> QED BY <1>1, <1>2, <1>3

\* The places of a window.
LEMMA Places ==
  \A w \in Nat : IsFiniteSet(0 .. w - 1) /\ Cardinality(0 .. w - 1) = w
BY FS_Interval

\* How many samples of the window are wet after one of them is replaced.
LEMMA WetCount ==
  ASSUME window \in Nat \ {0}, window' = window, location' \in 0 .. window - 1,
         NEW reading \in {0, 1},
         \A i \in 0 .. window - 1 : array[i] \in {0, 1},
         \A i \in 0 .. window - 1 : array'[i] = IF i = location' THEN reading ELSE array[i]
  PROVE  /\ Cardinality(Wet') = Cardinality(Wet) - array[location'] + reading
         /\ Cardinality(Wet) \in 0 .. window /\ Cardinality(Wet') \in 0 .. window
PROOF
  <1> DEFINE C == Wet \ {location'}
  <1>1. IsFiniteSet(0 .. window - 1) /\ Cardinality(0 .. window - 1) = window
    BY Places
  <1>2. /\ \A i : i \in Wet <=> i \in 0 .. window - 1 /\ array[i] = 1
        /\ \A i : i \in Wet' <=> i \in 0 .. window - 1 /\ array'[i] = 1
    BY DEF Wet
  <1>3. /\ IsFiniteSet(Wet) /\ Cardinality(Wet) \in Nat /\ Cardinality(Wet) <= window
        /\ IsFiniteSet(Wet') /\ Cardinality(Wet') \in Nat /\ Cardinality(Wet') <= window
    BY <1>1, <1>2, FS_Subset, FS_CardinalityType
  <1>4. IsFiniteSet(C) /\ Cardinality(C) = Cardinality(Wet) - array[location']
    <2>1. /\ IsFiniteSet(C)
          /\ Cardinality(C) =
               IF location' \in Wet THEN Cardinality(Wet) - 1 ELSE Cardinality(Wet)
      BY <1>3, FS_RemoveElement
    <2>2. array[location'] = IF location' \in Wet THEN 1 ELSE 0
      BY <1>2
    <2> HIDE DEF C
    <2> QED BY <1>3, <2>1, <2>2
  <1>5. Cardinality(Wet') = Cardinality(C) + reading
    <2>1. CASE reading = 1
      <3>1. Wet' = C \cup {location'}
        BY <1>2, <2>1
      <3>2. location' \notin C
        OBVIOUS
      <3> HIDE DEF C
      <3> QED BY <1>4, <2>1, <3>1, <3>2, FS_AddElement
    <2>2. CASE reading = 0
      <3>1. Wet' = C
        BY <1>2, <2>2
      <3>2. Cardinality(C) \in Nat
        BY <1>4, FS_CardinalityType
      <3> HIDE DEF C
      <3> QED BY <2>2, <3>1, <3>2
    <2> QED BY <2>1, <2>2
  <1>6. array[location'] \in {0, 1}
    OBVIOUS
  <1> HIDE DEF C
  <1> QED BY <1>3, <1>4, <1>5, <1>6

\* A window is all wet or all dry as its count says.
LEMMA WetExtremes ==
  ASSUME NEW w \in Nat, NEW a
  PROVE  LET A == {i \in 0 .. w - 1 : a[i] = 1}
         IN  /\ Cardinality(A) = w <=> \A i \in 0 .. w - 1 : a[i] = 1
             /\ Cardinality(A) = 0 <=> \A i \in 0 .. w - 1 : a[i] # 1
PROOF
  <1> DEFINE A == {i \in 0 .. w - 1 : a[i] = 1}
  <1>1. IsFiniteSet(0 .. w - 1) /\ Cardinality(0 .. w - 1) = w
    BY Places
  <1>2. IsFiniteSet(A) /\ (Cardinality(0 .. w - 1) = Cardinality(A) => 0 .. w - 1 = A)
    BY <1>1, FS_Subset
  <1>3. Cardinality(A) = 0 <=> A = {}
    BY <1>2, FS_EmptySet
  <1>4. Cardinality(A) = w <=> A = 0 .. w - 1
    <2> HIDE DEF A
    <2> QED BY <1>1, <1>2
  <1>5. A = 0 .. w - 1 <=> \A i \in 0 .. w - 1 : a[i] = 1
    OBVIOUS
  <1>6. A = {} <=> \A i \in 0 .. w - 1 : a[i] # 1
    OBVIOUS
  <1> QED BY <1>3, <1>4, <1>5, <1>6

\* A ring just reset is a picture of no readings at all.
LEMMA ZeroPicture ==
  TypeOK /\ Cleared /\ sum = 0 /\ location = 0 /\ samples = 0 => Picture
PROOF
  <1> SUFFICES ASSUME TypeOK, Cleared, sum = 0, location = 0, samples = 0 PROVE Picture
    OBVIOUS
  <1>1. /\ window \in 1 .. ArraySize /\ ArraySize \in 1 .. 255
        /\ Len(readings) = 0 /\ \A i \in 0 .. ArraySize - 1 : array[i] = 0
    BY WindowAssumption DEF TypeOK, Cleared
  <1>2. Shape
    BY <1>1 DEF Shape
  <1>3. Recent
    BY <1>1 DEF Recent, Place
  <1>4. Counted
    <2>1. Wet = {}
      BY <1>1 DEF Wet
    <2>2. Cardinality({}) = 0
      BY FS_EmptySet
    <2> QED BY <2>1, <2>2 DEF Counted
  <1>5. Decided
    BY <1>1 DEF Decided
  <1> QED BY <1>2, <1>3, <1>4, <1>5 DEF Picture

-----------------------------------------------------------------------------
(***************************************************************************)
(* A reading.                                                              *)
(***************************************************************************)

\* takeReading() replaces the oldest sample of the window and keeps the types.
LEMMA ReadingStep ==
  ASSUME TypeOK, NEW reading \in {0, 1}, takeReading(reading), window' = window
  PROVE  /\ location' = (location + 1) % window /\ location' \in 0 .. window - 1
         /\ array' = [array EXCEPT ![location'] = reading]
         /\ sum' = (sum - array[location'] + reading) % 256
         /\ samples' = IF samples < window THEN samples + 1 ELSE samples
         /\ array' \in [0 .. ArraySize - 1 -> {0, 1}]
         /\ sum' \in 0 .. 255 /\ samples' \in 0 .. ArraySize
         /\ status' \in {0, 1} /\ readings' \in Seq({0, 1})
PROOF
  <1>1. location' = (location + 1) % window
    BY DEF takeReading, TakeSample
  <1>2. location' \in 0 .. window - 1
    BY <1>1, Remainder, WindowAssumption DEF TypeOK
  <1>3. ArrayLocation(location', -window) = location'
    BY <1>2, WindowAssumption DEF ArrayLocation, TypeOK
  <1>4. /\ array' = [array EXCEPT ![location'] = reading]
        /\ sum' = (sum - array[location'] + reading) % 256
        /\ samples' = IF samples < window THEN samples + 1 ELSE samples
    BY <1>1, <1>3 DEF takeReading, TakeSample, Uint8
  <1>5. array' \in [0 .. ArraySize - 1 -> {0, 1}]
    BY <1>4 DEF TypeOK
  <1>6. array[location'] \in {0, 1}
    BY <1>2, WindowAssumption DEF TypeOK
  <1>7. sum' \in 0 .. 255
    <2>1. \A n \in Int : n % 256 \in 0 .. 255
      OBVIOUS
    <2>2. sum - array[location'] + reading \in Int
      BY <1>6 DEF TypeOK
    <2> QED BY <1>4, <2>1, <2>2
  <1>8. samples' \in 0 .. ArraySize
    BY <1>4, WindowAssumption DEF TypeOK
  <1>9. status' \in {0, 1}
    BY DEF takeReading, Detect, TypeOK
  <1>10. readings' \in Seq({0, 1})
    BY DEF takeReading, Latest, TypeOK
  <1> QED BY <1>1, <1>2, <1>4, <1>5, <1>7, <1>8, <1>9, <1>10

\* The new status, if the whole window agrees.
LEMMA Decision ==
  ASSUME window \in Nat \ {0}, NEW total, NEW old
  PROVE  /\ total = window => Detect(total, window, old) = 1
         /\ total = 0 /\ Low > 0 => Detect(total, window, old) = 0
PROOF
  <1>1. \A w \in Nat \ {0} : /\ (w * 100) \div w = 100
                           /\ \A p \in 0 .. 100 : 100 * w >= w * p
                           /\ \A q \in 1 .. 100 : 0 < w * q
    <2> SUFFICES ASSUME NEW w \in Nat \ {0}
                 PROVE  /\ (w * 100) \div w = 100
                        /\ \A p \in 0 .. 100 : 100 * w >= w * p
                        /\ \A q \in 1 .. 100 : 0 < w * q
      OBVIOUS
    <2>1. (w * 100) \div w = 100
      BY SMTT(30)
    <2>2. ASSUME NEW p \in 0 .. 100 PROVE 100 * w >= w * p
      BY SMTT(30)
    <2>3. ASSUME NEW q \in 1 .. 100 PROVE 0 < w * q
      BY SMTT(30)
    <2> QED BY <2>1, <2>2, <2>3
  <1>2. Enough(window)
    BY <1>1, PercentAssumption DEF Enough
  <1>3. ASSUME total = window PROVE Detect(total, window, old) = 1
    <2>1. ~(total * 100 < window * Low)
      BY <1>1, <1>3, PercentAssumption
    <2>2. (total * 100) \div window > High
      BY <1>1, <1>3, PercentAssumption
    <2> QED BY <1>2, <2>1, <2>2 DEF Detect
  <1>4. ASSUME total = 0, Low > 0 PROVE Detect(total, window, old) = 0
    <2>1. total * 100 < window * Low
      BY <1>1, <1>4, PercentAssumption
    <2>2. ~((total * 100) \div window > High)
      <3>1. \A w \in Nat \ {0} : 0 \div w = 0
        BY SMTT(30)
      <3> QED BY <1>4, <3>1, PercentAssumption
    <2> QED BY <1>2, <2>1, <2>2 DEF Detect
  <1> QED BY <1>3, <1>4

\* A reading between two operations keeps the ring a picture of the recent past.
LEMMA ReadingPicture ==
  ASSUME TypeOK, Picture, NEW reading \in {0, 1}, takeReading(reading), window' = window
  PROVE  Picture'
PROOF
  <1>1. /\ window \in 1 .. ArraySize /\ ArraySize \in 1 .. 255
        /\ location \in 0 .. window - 1
        /\ array \in [0 .. ArraySize - 1 -> {0, 1}]
        /\ readings \in Seq({0, 1})
    BY WindowAssumption DEF TypeOK, Picture, Shape
  <1>2. location' = IF location + 1 = window THEN 0 ELSE location + 1
    <2>1. location' = (location + 1) % window
      BY ReadingStep
    <2>2. location + 1 < window => (location + 1) % window = location + 1
      <3>1. window \in Nat \ {0} /\ location + 1 \in Nat
        BY <1>1
      <3>2. ASSUME location + 1 < window PROVE location + 1 \in 0 .. window - 1
        BY <3>1, <3>2
      <3> QED BY <3>1, <3>2, Remainder
    <2>3. location + 1 = window => (location + 1) % window = 0
      <3>1. window \in Nat \ {0} /\ window \in window .. 2 * window - 1
        BY <1>1
      <3>2. window % window = window - window
        BY <3>1, Remainder
      <3> QED BY <1>1, <3>2
    <2> QED BY <1>1, <2>1, <2>2, <2>3
  <1>3. array' = [array EXCEPT ![location'] = reading]
    BY ReadingStep
  <1>4. /\ Len(readings') <= ArraySize
        /\ Len(readings') = IF Len(readings) < ArraySize THEN Len(readings) + 1 ELSE ArraySize
        /\ readings'[Len(readings')] = reading
        /\ \A k \in 1 .. Len(readings') - 1 :
             readings'[Len(readings') - k] = readings[Len(readings) - (k - 1)]
    <2>1. readings' = Latest(Append(readings, reading))
      BY DEF takeReading
    <2>2. CASE Len(readings) < ArraySize
      BY <1>1, <2>1, <2>2 DEF Latest
    <2>3. CASE Len(readings) = ArraySize
      BY <1>1, <2>1, <2>3 DEF Latest
    <2> QED BY <1>1, <2>2, <2>3 DEF Picture, Shape, Recent, Counted
  <1>5. samples' = IF Len(readings') < window THEN Len(readings') ELSE window
    <2>1. samples' = IF samples < window THEN samples + 1 ELSE samples
      BY ReadingStep
    <2> QED BY <1>1, <1>4, <2>1 DEF Picture, Shape, Recent, Counted
  <1>6. ASSUME NEW k \in 0 .. window - 1
        PROVE  array'[Place(k)'] =
                 IF k < samples' THEN readings'[Len(readings') - k] ELSE 0
    <2>1. CASE k = 0
      <3>1. Place(k)' = location'
        BY <1>1, <1>2, <2>1 DEF Place
      <3>2. samples' > 0
        BY <1>1, <1>4, <1>5
      <3> QED BY <1>1, <1>2, <1>3, <1>4, <2>1, <3>1, <3>2
    <2>2. CASE k > 0
      <3>1. Place(k)' = Place(k - 1)
        BY <1>1, <1>2, <2>2 DEF Place
      <3>2. Place(k - 1) # location' /\ Place(k - 1) \in 0 .. window - 1
        BY <1>1, <1>2, <2>2 DEF Place
      <3>3. array'[Place(k)'] = array[Place(k - 1)]
        BY <1>1, <1>3, <3>1, <3>2
      <3>4. array[Place(k - 1)] =
              IF k - 1 < samples THEN readings[Len(readings) - (k - 1)] ELSE 0
        BY <1>1, <2>2 DEF Picture, Shape, Recent, Counted
      <3>5. k - 1 < samples <=> k < samples'
        BY <1>1, <1>4, <1>5, <2>2 DEF Picture, Shape, Recent, Counted
      <3>6. k < samples' => k \in 1 .. Len(readings') - 1
        BY <1>1, <1>4, <1>5, <2>2
      <3> QED BY <1>4, <3>3, <3>4, <3>5, <3>6
    <2> QED BY <1>1, <2>1, <2>2
  <1>7. sum' = Cardinality(Wet') /\ sum' \in 0 .. window
    <2>1. location' \in 0 .. window - 1 /\ window \in Nat \ {0} /\ window <= 255
      BY <1>1, <1>2
    <2>2. /\ \A i \in 0 .. window - 1 : array[i] \in {0, 1}
          /\ \A i \in 0 .. window - 1 : array'[i] = IF i = location' THEN reading ELSE array[i]
      BY <1>1, <1>3
    <2>4. /\ Cardinality(Wet') = Cardinality(Wet) - array[location'] + reading
          /\ Cardinality(Wet) \in 0 .. window /\ Cardinality(Wet') \in 0 .. window
      BY <2>1, <2>2, WetCount
    <2>5. sum' = (sum - array[location'] + reading) % 256
      BY ReadingStep
    <2>6. sum' = Cardinality(Wet') % 256
      BY <2>4, <2>5 DEF Picture, Shape, Recent, Counted
    <2>7. Cardinality(Wet') \in 0 .. 255
      BY <2>1, <2>4
    <2> QED BY <2>4, <2>6, <2>7
  <1>8. samples' = window => /\ sum' = window => status' = 1
                             /\ sum' = 0 /\ Low > 0 => status' = 0
    <2>1. status' = Detect(sum', samples', status)
      BY DEF takeReading
    <2> QED BY <1>1, <2>1, Decision
  <1>9. Shape'
    BY <1>1, <1>2, <1>4, <1>5 DEF Shape
  <1>10. Recent'
    BY <1>6 DEF Recent
  <1>11. Counted'
    BY <1>7 DEF Counted
  <1>12. Decided'
    BY <1>8 DEF Decided
  <1> QED BY <1>9, <1>10, <1>11, <1>12 DEF Picture
-----------------------------------------------------------------------------
(***************************************************************************)
(* The statements of the main thread.                                      *)
(***************************************************************************)

\* A program without statements is over.
LEMMA EmptyProgram ==
  \A s \in Seq(Statement) : Len(s) \in Nat /\ (s = << >> <=> Len(s) = 0)
OBVIOUS

\* Nothing is left of the program exactly when the main thread is idle.
LEMMA IdleIsDone ==
  ASSUME ProgramInv
  PROVE  /\ Left \in Nat /\ (Idle <=> Left = 0) /\ Len(Program) = (IF timer = TRUE THEN 8 ELSE 9)
         /\ Program \in Seq(Statement)
PROOF
  <1>1. main.todo \in Seq(Statement)
    BY DEF ProgramInv
  <1>2. Left \in Nat /\ (Idle <=> Left = 0)
    BY <1>1, EmptyProgram DEF Left, Idle
  <1>3. Len(Program) = (IF timer = TRUE THEN 8 ELSE 9) /\ Program \in Seq(Statement)
    BY Programs DEF Program
  <1> QED BY <1>2, <1>3

\* Which statement comes next tells how many are left.
LEMMA NextStatement ==
  ASSUME ProgramInv, ~Idle
  PROVE  /\ Head(main.todo) = "setWindow" => Left = IF timer = TRUE THEN 8 ELSE 5
         /\ Head(main.todo) = "clearSum" => Left = IF timer = TRUE THEN 7 ELSE 4
         /\ Head(main.todo) = "addSamples" => Left = IF timer = TRUE THEN 6 ELSE 3
         /\ Head(main.todo) = "trimSamples" => Left = IF timer = TRUE THEN 5 ELSE 2
         /\ Head(main.todo) = "clearArray" => Left = IF timer = TRUE THEN 4 ELSE 9
         /\ Head(main.todo) = "resetSum" => Left = IF timer = TRUE THEN 3 ELSE 8
         /\ Head(main.todo) = "resetLocation" => Left = IF timer = TRUE THEN 2 ELSE 7
         /\ Head(main.todo) = "resetSamples" => Left = IF timer = TRUE THEN 1 ELSE 6
         /\ Head(main.todo) = "forceState" => timer # TRUE /\ Left = 1
PROOF
  <1>1. Left \in Nat \ {0} /\ main.todo \in Seq(Statement)
    BY IdleIsDone DEF ProgramInv
  <1>2. Head(main.todo) = Program[Len(Program) - Left + 1] /\ Left <= Len(Program)
    <2>1. Head(main.todo) = main.todo[1] /\ 1 \in 1 .. Left
      BY <1>1 DEF Left
    <2> QED BY <2>1 DEF ProgramInv
  <1>3. CASE timer = TRUE
    <2>1. Left \in 1 .. 8 /\ Head(main.todo) = Cli[9 - Left]
      <3>1. Program = Cli /\ Len(Program) = 8 /\ 8 - Left + 1 = 9 - Left
        BY <1>1, <1>3, Programs DEF Program
      <3> QED BY <1>1, <1>2, <3>1
    <2>2. \/ Left = 1 \/ Left = 2 \/ Left = 3 \/ Left = 4
          \/ Left = 5 \/ Left = 6 \/ Left = 7 \/ Left = 8
      BY <2>1
    <2> QED BY <1>3, <2>1, <2>2, Programs
  <1>4. CASE timer # TRUE
    <2>1. Left \in 1 .. 9 /\ Head(main.todo) = Mfg[10 - Left]
      <3>1. Program = Mfg
        BY <1>4, Zenon DEF Program
      <3>2. Len(Program) = 9 /\ 9 - Left + 1 = 10 - Left
        BY <1>1, <3>1, Programs
      <3> QED BY <1>1, <1>2, <3>1, <3>2
    <2>2. \/ Left = 1 \/ Left = 2 \/ Left = 3 \/ Left = 4
          \/ Left = 5 \/ Left = 6 \/ Left = 7 \/ Left = 8 \/ Left = 9
      BY <2>1
    <2>3. /\ Head(main.todo) = "setWindow" => Left = 5
          /\ Head(main.todo) = "clearSum" => Left = 4
          /\ Head(main.todo) = "addSamples" => Left = 3
          /\ Head(main.todo) = "trimSamples" => Left = 2
          /\ Head(main.todo) = "clearArray" => Left = 9
          /\ Head(main.todo) = "resetSum" => Left = 8
          /\ Head(main.todo) = "resetLocation" => Left = 7
          /\ Head(main.todo) = "resetSamples" => Left = 6
          /\ Head(main.todo) = "forceState" => Left = 1
      BY <2>1, <2>2, Programs
    <2> QED BY <1>4, <2>3, Zenon
  <1> QED BY <1>3, <1>4

\* A statement done leaves the rest of the program.
LEMMA Progress ==
  ASSUME ProgramInv, ~Idle, timer' = timer,
         main' = [todo |-> Tail(main.todo), window |-> main.window, i |-> main'.i]
  PROVE  ProgramInv' /\ Left' = Left - 1 /\ (Idle' <=> Left' = 0)
PROOF
  <1>1. main'.todo = Tail(main.todo) /\ main'.window = main.window
    OBVIOUS
  <1>2. Left \in Nat \ {0} /\ main.todo \in Seq(Statement) /\ main.todo # << >>
    BY IdleIsDone DEF ProgramInv, Left, Idle
  <1>3. /\ main'.todo \in Seq(Statement) /\ Left' = Left - 1
        /\ \A n \in 1 .. Left - 1 : main'.todo[n] = main.todo[n + 1]
    BY <1>1, <1>2 DEF Left
  <1>4. Program' = Program
    BY DEF Program
  <1>5. Len(Program) \in Nat
    BY IdleIsDone
  <1>6. ASSUME NEW n \in 1 .. Left'
        PROVE  main'.todo[n] = Program[Len(Program) - Left' + n]
    <2>1. n \in 1 .. Left - 1 /\ n + 1 \in 1 .. Left
      BY <1>2, <1>3
    <2>2. main.todo[n + 1] = Program[Len(Program) - Left + (n + 1)]
      BY <2>1 DEF ProgramInv
    <2>3. Len(Program) - Left + (n + 1) = Len(Program) - Left' + n
      BY <1>2, <1>3, <1>5, <2>1
    <2> QED BY <1>3, <2>1, <2>2, <2>3
  <1>7. main' = [todo |-> main'.todo, window |-> main'.window, i |-> main'.i]
    BY <1>1
  <1>8. main'.window \in 1 .. 255 /\ Left <= Len(Program)
    BY <1>1 DEF ProgramInv
  <1>9. Left' <= Len(Program')
    BY <1>2, <1>3, <1>4, <1>5, <1>8
  <1>10. ProgramInv'
    BY <1>3, <1>4, <1>6, <1>7, <1>8, <1>9 DEF ProgramInv
  <1>11. Idle' <=> Left' = 0
    BY <1>3, EmptyProgram DEF Idle, Left
  <1> QED BY <1>3, <1>10, <1>11

\* What every statement of the main thread has in common.
LEMMA StatementStep ==
  ASSUME IInv, ~Idle, timer' = timer, torn' = torn,
         main' = [todo |-> Tail(main.todo), window |-> main.window, i |-> main'.i],
         main'.i \in 0 .. ArraySize
  PROVE  /\ ProgramInv' /\ Left' = Left - 1 /\ (Idle' <=> Left' = 0) /\ Left \in Nat \ {0}
         /\ timer' \in BOOLEAN /\ torn' \in BOOLEAN /\ Undisturbed'
         /\ main'.i \in 0 .. ArraySize
PROOF
  <1>1. ProgramInv
    BY DEF IInv, MainInv
  <1>2. ProgramInv' /\ Left' = Left - 1 /\ (Idle' <=> Left' = 0) /\ Left \in Nat \ {0}
    BY <1>1, Progress, IdleIsDone
  <1>3. timer' \in BOOLEAN /\ torn' \in BOOLEAN
    BY Zenon DEF IInv, TypeOK
  <1>4. Undisturbed'
    BY Zenon DEF IInv, MainInv, Undisturbed
  <1> QED BY <1>2, <1>3, <1>4

\* The ranges of the numbers.
LEMMA Numbers ==
  ASSUME IInv
  PROVE  /\ ArraySize \in 1 .. 255 /\ window \in 1 .. ArraySize
         /\ location \in 0 .. ArraySize - 1 /\ samples \in 0 .. ArraySize
         /\ sum \in 0 .. 255 /\ main.i \in 0 .. ArraySize
BY WindowAssumption DEF IInv, TypeOK

\* The statement that a step of the main thread does.
LEMMA DoneStatement ==
  ASSUME IInv, NEW statement, Do(statement)
  PROVE  /\ ~Idle /\ Head(main.todo) = statement
         /\ main' = [todo |-> Tail(main.todo), window |-> main.window, i |-> main'.i]
         /\ main'.i \in 0 .. ArraySize
PROOF
  <1>1. main = [todo |-> main.todo, window |-> main.window, i |-> main.i]
    BY DEF IInv, MainInv, ProgramInv
  <1>2. main' = [main EXCEPT !.todo = Tail(@)] /\ ~Idle /\ Head(main.todo) = statement
    BY DEF Do
  <1>3. main' = [todo |-> Tail(main.todo), window |-> main.window, i |-> main.i]
    BY <1>1, <1>2
  <1>4. main.i \in 0 .. ArraySize
    BY DEF IInv, TypeOK
  <1> QED BY <1>2, <1>3, <1>4

\* The statement that sets the window keeps the invariant.
LEMMA SetWindowIInv == ASSUME IInv, SetWindow PROVE IInv'
PROOF
  <1>1. Do("setWindow") /\ timer' = timer /\ torn' = torn
    BY DEF SetWindow
  <1>2. /\ ProgramInv' /\ Left' = Left - 1 /\ (Idle' <=> Left' = 0) /\ Left \in Nat \ {0}
        /\ timer' \in BOOLEAN /\ torn' \in BOOLEAN /\ Undisturbed'
        /\ main'.i \in 0 .. ArraySize
    BY <1>1, DoneStatement, StatementStep
  <1>3. Left = IF timer = TRUE THEN 8 ELSE 5
    BY <1>1, DoneStatement, NextStatement DEF IInv, MainInv
  <1>4. /\ array' = array /\ location' = location /\ sum' = sum /\ samples' = samples
        /\ readings' = readings /\ status' = status
    BY DEF SetWindow, ring
  <1>5. window' \in 1 .. ArraySize
    <2>1. main.window \in 1 .. 255 /\ window' = Clamped(main.window)
      BY DEF SetWindow, IInv, MainInv, ProgramInv
    <2> QED BY <2>1, WindowAssumption DEF Clamped
  <1>6. ASSUME timer # TRUE PROVE samples = 0
    <2>1. torn # TRUE
      BY <1>6 DEF IInv, MainInv, Undisturbed
    <2>2. Left = 5
      BY <1>3, <1>6, Zenon
    <2>3. Done = 4
      <3>1. Done = 9 - Left
        BY <1>6, Zenon DEF Done
      <3> QED BY <2>2, <3>1
    <2> QED BY <2>1, <2>2, <2>3 DEF IInv, ZeroInv
  <1>7. Trimmed'
    <2>1. CASE timer = TRUE
      <3>1. timer' = TRUE /\ Left = 8
        BY <1>1, <1>3, <2>1, Zenon
      <3> QED BY <1>2, <3>1 DEF Trimmed
    <2>2. CASE timer # TRUE
      <3>1. ~(samples' > window')
        BY <1>4, <1>5, <1>6, <2>2
      <3> QED BY <3>1 DEF Trimmed
    <2> QED BY <2>1, <2>2
  <1>8. TypeOK'
    BY <1>2, <1>3, <1>4, <1>5 DEF IInv, TypeOK
  <1>9. ZeroInv'
    BY <1>1, <1>2, <1>3, <1>4 DEF IInv, MainInv, Undisturbed, ZeroInv, Done, Cleared
  <1>10. RingInv'
    BY <1>1, <1>2, <1>3 DEF RingInv
  <1> QED BY <1>2, <1>7, <1>8, <1>9, <1>10 DEF IInv, MainInv

\* So does the one that trims the count.
LEMMA TrimSamplesIInv == ASSUME IInv, TrimSamples PROVE IInv'
PROOF
  <1>1. Do("trimSamples") /\ timer' = timer /\ torn' = torn
    BY DEF TrimSamples
  <1>2. /\ ProgramInv' /\ Left' = Left - 1 /\ (Idle' <=> Left' = 0) /\ Left \in Nat \ {0}
        /\ timer' \in BOOLEAN /\ torn' \in BOOLEAN /\ Undisturbed'
        /\ main'.i \in 0 .. ArraySize
    BY <1>1, DoneStatement, StatementStep
  <1>3. Left = IF timer = TRUE THEN 5 ELSE 2
    BY <1>1, DoneStatement, NextStatement DEF IInv, MainInv
  <1>4. Trimmed'
    BY <1>1, <1>2, <1>3 DEF TrimSamples, IInv, TypeOK, MainInv, Undisturbed, Trimmed, ZeroInv
  <1>5. TypeOK'
    BY <1>1, <1>2, <1>3, <1>4, WindowAssumption DEF TrimSamples, IInv, TypeOK, Trimmed
  <1>6. ZeroInv'
    BY <1>1, <1>2, <1>3 DEF TrimSamples, IInv, TypeOK, MainInv, Undisturbed, ZeroInv, Done, Cleared
  <1>7. RingInv'
    BY <1>1, <1>2, <1>3 DEF RingInv
  <1> QED BY <1>2, <1>4, <1>5, <1>6, <1>7 DEF IInv, MainInv

\* ... the one that clears the array.
LEMMA ClearArrayIInv == ASSUME IInv, ClearArray PROVE IInv'
PROOF
  <1>1. Do("clearArray") /\ timer' = timer /\ torn' = torn
    BY DEF ClearArray
  <1>2. /\ ProgramInv' /\ Left' = Left - 1 /\ (Idle' <=> Left' = 0) /\ Left \in Nat \ {0}
        /\ timer' \in BOOLEAN /\ torn' \in BOOLEAN /\ Undisturbed'
        /\ main'.i \in 0 .. ArraySize
    BY <1>1, DoneStatement, StatementStep
  <1>3. Left = IF timer = TRUE THEN 4 ELSE 9
    BY <1>1, DoneStatement, NextStatement DEF IInv, MainInv
  <1>4. Trimmed'
    BY <1>1, <1>2, <1>3 DEF ClearArray, IInv, TypeOK, MainInv, Undisturbed, Trimmed, ZeroInv
  <1>5. TypeOK'
    BY <1>1, <1>2, <1>3, <1>4, WindowAssumption DEF ClearArray, IInv, TypeOK, Trimmed
  <1>6. ZeroInv'
    BY <1>1, <1>2, <1>3 DEF ClearArray, IInv, TypeOK, MainInv, Undisturbed, ZeroInv, Done, Cleared
  <1>7. RingInv'
    BY <1>1, <1>2, <1>3 DEF RingInv
  <1> QED BY <1>2, <1>4, <1>5, <1>6, <1>7 DEF IInv, MainInv

\* ... the one that resets the location.
LEMMA ResetLocationIInv == ASSUME IInv, ResetLocation PROVE IInv'
PROOF
  <1>1. Do("resetLocation") /\ timer' = timer /\ torn' = torn
    BY DEF ResetLocation
  <1>2. /\ ProgramInv' /\ Left' = Left - 1 /\ (Idle' <=> Left' = 0) /\ Left \in Nat \ {0}
        /\ timer' \in BOOLEAN /\ torn' \in BOOLEAN /\ Undisturbed'
        /\ main'.i \in 0 .. ArraySize
    BY <1>1, DoneStatement, StatementStep
  <1>3. Left = IF timer = TRUE THEN 2 ELSE 7
    BY <1>1, DoneStatement, NextStatement DEF IInv, MainInv
  <1>4. Trimmed'
    BY <1>1, <1>2, <1>3 DEF ResetLocation, IInv, TypeOK, MainInv, Undisturbed, Trimmed, ZeroInv
  <1>5. TypeOK'
    BY <1>1, <1>2, <1>3, <1>4, WindowAssumption DEF ResetLocation, IInv, TypeOK, Trimmed
  <1>6. ZeroInv'
    BY <1>1, <1>2, <1>3 DEF ResetLocation, IInv, TypeOK, MainInv, Undisturbed, ZeroInv, Done, Cleared
  <1>7. RingInv'
    BY <1>1, <1>2, <1>3 DEF RingInv
  <1> QED BY <1>2, <1>4, <1>5, <1>6, <1>7 DEF IInv, MainInv

\* ... the one that resets the count: the last one of the CLI.
LEMMA ResetSamplesIInv == ASSUME IInv, ResetSamples PROVE IInv'
PROOF
  <1>1. Do("resetSamples") /\ timer' = timer /\ torn' = torn
    BY DEF ResetSamples
  <1>2. /\ ProgramInv' /\ Left' = Left - 1 /\ (Idle' <=> Left' = 0) /\ Left \in Nat \ {0}
        /\ timer' \in BOOLEAN /\ torn' \in BOOLEAN /\ Undisturbed'
        /\ main'.i \in 0 .. ArraySize
    BY <1>1, DoneStatement, StatementStep
  <1>3. Left = IF timer = TRUE THEN 1 ELSE 6
    BY <1>1, DoneStatement, NextStatement DEF IInv, MainInv
  <1>4. Trimmed'
    BY <1>1, <1>2, <1>3 DEF ResetSamples, IInv, TypeOK, MainInv, Undisturbed, Trimmed, ZeroInv
  <1>5. TypeOK'
    BY <1>1, <1>2, <1>3, <1>4, WindowAssumption DEF ResetSamples, IInv, TypeOK, Trimmed
  <1>6. ZeroInv'
    BY <1>1, <1>2, <1>3 DEF ResetSamples, IInv, TypeOK, MainInv, Undisturbed, ZeroInv, Done, Cleared
  <1>7. RingInv'
    <2> SUFFICES ASSUME Idle', torn' # TRUE PROVE Picture'
      BY DEF RingInv
    <2>1. Left = 1 /\ timer = TRUE /\ torn # TRUE
      <3>1. Left = 1
        BY <1>2
      <3>2. torn # TRUE
        BY <1>1, Zenon
      <3>3. timer = TRUE
        <4> SUFFICES ASSUME timer # TRUE PROVE FALSE
          BY Zenon
        <4>1. Left = 6
          BY <1>3, Zenon
        <4> QED BY <3>1, <4>1
      <3> QED BY <3>1, <3>2, <3>3
    <2>2. Done = 3
      BY <2>1 DEF Done
    <2>3. Cleared /\ sum = 0 /\ location = 0
      BY <2>1, <2>2 DEF IInv, ZeroInv
    <2>4. Cleared' /\ sum' = 0 /\ location' = 0 /\ samples' = 0
      BY <2>3 DEF ResetSamples, Cleared
    <2>5. (TypeOK /\ Cleared /\ sum = 0 /\ location = 0 /\ samples = 0 => Picture)'
      BY ZeroPicture, PTL
    <2> QED BY <1>5, <2>4, <2>5
  <1> QED BY <1>2, <1>4, <1>5, <1>6, <1>7 DEF IInv, MainInv

\* ... and the one that sets the status, the last one of the test.
LEMMA ForceStateIInv == ASSUME IInv, ForceState PROVE IInv'
PROOF
  <1>1. Do("forceState") /\ timer' = timer /\ torn' = torn
    BY DEF ForceState
  <1>2. /\ ProgramInv' /\ Left' = Left - 1 /\ (Idle' <=> Left' = 0) /\ Left \in Nat \ {0}
        /\ timer' \in BOOLEAN /\ torn' \in BOOLEAN /\ Undisturbed'
        /\ main'.i \in 0 .. ArraySize
    BY <1>1, DoneStatement, StatementStep
  <1>3. timer # TRUE /\ Left = 1
    BY <1>1, DoneStatement, NextStatement DEF IInv, MainInv
  <1>4. Trimmed'
    BY <1>1, <1>2, <1>3 DEF ForceState, ring, IInv, TypeOK, MainInv, Undisturbed, Trimmed, ZeroInv
  <1>5. TypeOK'
    BY <1>1, <1>2, <1>3, <1>4, WindowAssumption DEF ForceState, ring, IInv, TypeOK, Trimmed
  <1>6. ZeroInv'
    BY <1>1, <1>2, <1>3 DEF ForceState, ring, IInv, TypeOK, MainInv, Undisturbed, ZeroInv, Done, Cleared
  <1>7. RingInv'
    <2> SUFFICES ASSUME Idle', torn' # TRUE PROVE Picture'
      BY DEF RingInv
    <2>1. Left = 1 /\ timer # TRUE /\ torn # TRUE
      BY <1>1, <1>3
    <2>2. Done = 8
      <3>1. Done = 9 - Left
        BY <2>1, Zenon DEF Done
      <3> QED BY <2>1, <3>1
    <2>3. Cleared /\ sum = 0 /\ location = 0 /\ samples = 0
      BY <2>1, <2>2 DEF IInv, ZeroInv
    <2>4. Cleared' /\ sum' = 0 /\ location' = 0 /\ samples' = 0
      BY <2>3 DEF ForceState, Cleared, ring
    <2>5. (TypeOK /\ Cleared /\ sum = 0 /\ location = 0 /\ samples = 0 => Picture)'
      BY ZeroPicture, PTL
    <2> QED BY <1>5, <2>4, <2>5
  <1> QED BY <1>2, <1>4, <1>5, <1>6, <1>7 DEF IInv, MainInv

\* ... the two that clear the sum.
LEMMA ClearSumIInv == ASSUME IInv, ClearSum PROVE IInv'
PROOF
  <1>1. (Do("clearSum") \/ Do("resetSum")) /\ timer' = timer /\ torn' = torn
    BY DEF ClearSum
  <1>2. /\ ProgramInv' /\ Left' = Left - 1 /\ (Idle' <=> Left' = 0) /\ Left \in Nat \ {0}
        /\ timer' \in BOOLEAN /\ torn' \in BOOLEAN /\ Undisturbed'
        /\ main'.i \in 0 .. ArraySize
    BY <1>1, DoneStatement, StatementStep
  <1>3. \/ Left = IF timer = TRUE THEN 7 ELSE 4
        \/ Left = IF timer = TRUE THEN 3 ELSE 8
    BY <1>1, DoneStatement, NextStatement DEF IInv, MainInv
  <1>4. Trimmed'
    BY <1>1, <1>2, <1>3 DEF ClearSum, IInv, TypeOK, MainInv, Undisturbed, Trimmed, ZeroInv
  <1>5. TypeOK'
    BY <1>1, <1>2, <1>3, <1>4, WindowAssumption DEF ClearSum, IInv, TypeOK, Trimmed
  <1>6. ZeroInv'
    <2>1. Done' = Done + 1 /\ (Done = -3 \/ Done = 5 \/ Done = 1)
      <3>1. CASE timer = TRUE
        <4>1. Done = 4 - Left /\ Done' = 4 - Left'
          BY <1>1, <3>1, Zenon DEF Done
        <4>2. Left = 7 \/ Left = 3
          BY <1>3, <3>1, Zenon
        <4> QED BY <1>2, <4>1, <4>2
      <3>2. CASE timer # TRUE
        <4>1. Done = 9 - Left /\ Done' = 9 - Left'
          BY <1>1, <3>2, Zenon DEF Done
        <4>2. Left = 4 \/ Left = 8
          BY <1>3, <3>2, Zenon
        <4> QED BY <1>2, <4>1, <4>2
      <3> QED BY <3>1, <3>2
    <2>2. torn # TRUE => /\ Done >= 1 => Cleared
                         /\ Done >= 3 => location = 0
                         /\ Done >= 4 => samples = 0
      <3>1. ZeroInv
        BY DEF IInv
      <3>2. Left > 0
        BY <1>2
      <3> QED BY <3>1, <3>2, Zenon DEF ZeroInv
    <2>3. torn' # TRUE => torn # TRUE
      BY <1>1, Zenon
    <2>4. /\ array' = array /\ location' = location /\ samples' = samples
          /\ readings' = readings /\ sum' = 0
      BY DEF ClearSum
    <2> QED BY <2>1, <2>2, <2>3, <2>4 DEF ZeroInv, Cleared
  <1>7. RingInv'
    BY <1>1, <1>2, <1>3 DEF RingInv
  <1> QED BY <1>2, <1>4, <1>5, <1>6, <1>7 DEF IInv, MainInv

\* ... and the loop that adds up the samples of the new window, which finds none in
\* the test.
LEMMA AddSampleIInv == ASSUME IInv, AddSample PROVE IInv'
PROOF
  <1>1. /\ ~Idle /\ Head(main.todo) = "addSamples" /\ timer' = timer /\ torn' = torn
        /\ array' = array /\ location' = location /\ samples' = samples
        /\ window' = window /\ status' = status /\ readings' = readings
    BY DEF AddSample
  <1>2. /\ ProgramInv /\ Left \in Nat \ {0} /\ main.i \in 0 .. ArraySize
        /\ main = [todo |-> main.todo, window |-> main.window, i |-> main.i]
    BY <1>1, IdleIsDone DEF IInv, TypeOK, MainInv, ProgramInv
  <1>3. CASE main.i < window /\ main.i < samples
    <2>1. main' = [main EXCEPT !.i = @ + 1]
      BY <1>3 DEF AddSample
    <2>2. main' = [todo |-> main.todo, window |-> main.window, i |-> main.i + 1]
      BY <1>2, <2>1
    <2>3. main'.todo = main.todo /\ main'.window = main.window /\ main'.i = main.i + 1
      BY <2>2
    <2>4. Left' = Left /\ Idle' = Idle /\ Program' = Program /\ Done' = Done
      BY <1>1, <2>3 DEF Left, Idle, Program, Done
    <2>5. ProgramInv'
      <3>1. main' = [todo |-> main'.todo, window |-> main'.window, i |-> main'.i]
        BY <2>2, <2>3
      <3> QED BY <1>2, <2>3, <2>4, <3>1 DEF ProgramInv
    <2>6. samples # 0
      BY <1>2, <1>3 DEF IInv, TypeOK
    <2>7. timer = TRUE /\ Left = 6 /\ Done = -2
      <3>1. CASE timer # TRUE
        <4>1. Done = 6
          <5>1. Done = 9 - Left
            BY <3>1, Zenon DEF Done
          <5>2. Left = 3
            <6>1. Left = IF timer = TRUE THEN 6 ELSE 3
              BY <1>1, <1>2, NextStatement
            <6> QED BY <3>1, <6>1, Zenon
          <5> QED BY <5>1, <5>2
        <4>2. torn # TRUE
          BY <3>1, Zenon DEF IInv, MainInv, Undisturbed
        <4>3. ZeroInv
          BY DEF IInv
        <4>4. Left > 0
          BY <1>2
        <4>5. Done >= 4 => samples = 0
          BY <4>2, <4>3, <4>4, Zenon DEF ZeroInv
        <4> QED BY <2>6, <4>1, <4>5
      <3>2. CASE timer = TRUE
        BY <1>1, <1>2, <3>2, NextStatement DEF Done
      <3> QED BY <3>1, <3>2
    <2>8. sum' \in 0 .. 255
      <3>1. sum' = Uint8(sum + array[ArrayLocation(location, -main.i)])
        BY <1>3 DEF AddSample
      <3>2. ArrayLocation(location, -main.i) \in 0 .. ArraySize - 1
        BY <1>2, <1>3, Numbers DEF ArrayLocation
      <3>3. sum + array[ArrayLocation(location, -main.i)] \in Int
        BY <3>2 DEF IInv, TypeOK
      <3>4. \A n \in Int : n % 256 \in 0 .. 255
        OBVIOUS
      <3> QED BY <3>1, <3>3, <3>4 DEF Uint8
    <2>9. timer' \in BOOLEAN /\ torn' \in BOOLEAN /\ Undisturbed'
      BY <1>1, Zenon DEF IInv, TypeOK, MainInv, Undisturbed
    <2>10. main'.i \in 0 .. ArraySize
      BY <1>2, <1>3, <2>3, Numbers
    <2>11. TypeOK'
      BY <1>1, <2>4, <2>8, <2>9, <2>10 DEF IInv, TypeOK
    <2>12. Trimmed'
      BY <1>1, <2>4, <2>7 DEF Trimmed
    <2>13. ZeroInv'
      BY <2>4, <2>7 DEF ZeroInv
    <2>14. RingInv'
      BY <1>1, <2>4 DEF RingInv
    <2> QED BY <2>5, <2>9, <2>11, <2>12, <2>13, <2>14 DEF IInv, MainInv
  <1>4. CASE ~(main.i < window /\ main.i < samples)
    <2>1. main' = [main EXCEPT !.todo = Tail(@), !.i = 0] /\ sum' = sum
      BY <1>4 DEF AddSample
    <2>2. main' = [todo |-> Tail(main.todo), window |-> main.window, i |-> 0]
      BY <1>2, <2>1
    <2>3. main'.i = 0
      BY <2>2
    <2>4. main' = [todo |-> Tail(main.todo), window |-> main.window, i |-> main'.i]
      BY <2>2, <2>3
    <2>5. main'.i \in 0 .. ArraySize
      BY <2>3, WindowAssumption
    <2>6. /\ ProgramInv' /\ Left' = Left - 1 /\ (Idle' <=> Left' = 0) /\ Left \in Nat \ {0}
          /\ timer' \in BOOLEAN /\ torn' \in BOOLEAN /\ Undisturbed'
      BY <1>1, <2>4, <2>5, StatementStep
    <2>7. Left = IF timer = TRUE THEN 6 ELSE 3
      BY <1>1, <1>2, NextStatement
    <2>8. Trimmed'
      BY <1>1, <2>6, <2>7 DEF IInv, TypeOK, MainInv, Undisturbed, Trimmed
    <2>9. TypeOK'
      BY <1>1, <2>1, <2>5, <2>6, <2>7, <2>8 DEF IInv, TypeOK, Trimmed
    <2>10. ZeroInv'
      BY <1>1, <2>1, <2>6, <2>7 DEF IInv, MainInv, Undisturbed, ZeroInv, Done, Cleared
    <2>11. RingInv'
      BY <2>6, <2>7 DEF RingInv
    <2> QED BY <2>6, <2>8, <2>9, <2>10, <2>11 DEF IInv, MainInv
  <1> QED BY <1>3, <1>4
-----------------------------------------------------------------------------
(***************************************************************************)
(* The other steps.                                                        *)
(***************************************************************************)

\* The sensor starts in the invariant.
LEMMA InitIInv == Init => IInv
PROOF
  <1> SUFFICES ASSUME Init PROVE IInv
    OBVIOUS
  <1>1. timer = TRUE /\ torn # TRUE /\ timer \in BOOLEAN /\ torn \in BOOLEAN
    BY Zenon DEF Init
  <1>2. /\ array = [i \in 0 .. ArraySize - 1 |-> 0]
        /\ location = 0 /\ sum = 0 /\ samples = 0 /\ status = 0 /\ readings = << >>
        /\ main = [todo |-> << >>, window |-> window, i |-> 0]
    BY DEF Init
  <1>3. window \in 1 .. ArraySize
    <2>1. PICK w \in Windows : window = Clamped(w)
      BY DEF Init
    <2> QED BY <2>1, WindowAssumption DEF Clamped
  <1>4. main.todo = << >> /\ main.window = window /\ main.i = 0
    BY <1>2
  <1>5. TypeOK
    BY <1>1, <1>2, <1>3, <1>4, WindowAssumption DEF TypeOK
  <1>6. ProgramInv
    <2>1. main = [todo |-> main.todo, window |-> main.window, i |-> main.i]
      BY <1>2, <1>4
    <2>2. main.todo \in Seq(Statement) /\ Left = 0
      BY <1>4 DEF Left
    <2>3. Len(Program) \in Nat
      BY Programs DEF Program
    <2>4. main.window \in 1 .. 255
      <3>1. window \in 1 .. 255
        BY <1>3, WindowAssumption
      <3> QED BY <1>4, <3>1
    <2> QED BY <2>1, <2>2, <2>3, <2>4 DEF ProgramInv
  <1>7. MainInv
    BY <1>1, <1>2, <1>3, <1>6 DEF MainInv, Undisturbed, Trimmed
  <1>8. ZeroInv
    <2>1. ~(Left > 0)
      BY <1>4 DEF Left
    <2> QED BY <2>1, Zenon DEF ZeroInv
  <1>9. RingInv
    <2>1. Cleared
      BY <1>2, WindowAssumption DEF Cleared
    <2> QED BY <1>2, <1>5, <2>1, ZeroPicture DEF RingInv
  <1> QED BY <1>5, <1>7, <1>8, <1>9 DEF IInv

\* A reading of the timer keeps the invariant: between two operations the ring stays
\* the picture it is, in the middle of one the window change is torn.
LEMMA WaterTaskIInv ==
  ASSUME IInv, NEW reading \in {0, 1}, WaterTask(reading)
  PROVE  IInv'
PROOF
  <1>1. /\ takeReading(reading) /\ torn' = (torn \/ ~Idle)
        /\ window' = window /\ timer' = timer /\ main' = main
    BY DEF WaterTask
  <1>2. timer = TRUE /\ timer' \in BOOLEAN /\ torn' \in BOOLEAN
    BY Zenon DEF WaterTask, IInv, TypeOK
  <1>3. torn' # TRUE => torn # TRUE /\ Idle
    BY <1>1, Zenon
  <1>4. Left' = Left /\ (Idle' <=> Idle) /\ Program' = Program
    BY <1>1 DEF Left, Idle, Program
  <1>5. TypeOK
    BY DEF IInv
  <1>6. /\ array' \in [0 .. ArraySize - 1 -> {0, 1}]
        /\ location' \in 0 .. window - 1
        /\ sum' \in 0 .. 255 /\ samples' \in 0 .. ArraySize
        /\ status' \in {0, 1} /\ readings' \in Seq({0, 1})
        /\ samples' = IF samples < window THEN samples + 1 ELSE samples
    BY <1>1, <1>5, ReadingStep
  <1>7. MainInv'
    <2>1. ProgramInv'
      BY <1>1, <1>4 DEF IInv, MainInv, ProgramInv
    <2>2. Trimmed'
      <3>1. samples' > window => samples > window
        BY <1>6, Numbers
      <3>2. Trimmed
        BY DEF IInv, MainInv
      <3> QED BY <1>1, <1>4, <3>1, <3>2 DEF Trimmed
    <2>3. Undisturbed'
      BY <1>1, <1>2, Zenon DEF Undisturbed
    <2> QED BY <2>1, <2>2, <2>3 DEF MainInv
  <1>8. TypeOK'
    <2>1. Idle' => samples' <= window'
      <3>1. ASSUME Idle PROVE samples' <= window
        BY <1>6, <3>1, Numbers DEF IInv, TypeOK
      <3> QED BY <1>1, <1>4, <3>1
    <2>2. /\ location' \in 0 .. ArraySize - 1 /\ window' \in 1 .. ArraySize
          /\ main'.i \in 0 .. ArraySize
      <3>1. window' = window /\ main' = main
        BY <1>1, Zenon
      <3>2. main'.i = main.i
        BY <3>1, Zenon
      <3>3. window \in 1 .. ArraySize /\ ArraySize \in 1 .. 255 /\ main.i \in 0 .. ArraySize
        BY Numbers
      <3>4. location' \in 0 .. window - 1
        BY <1>6
      <3>5. location' \in 0 .. ArraySize - 1
        BY <3>3, <3>4
      <3> QED BY <3>1, <3>2, <3>3, <3>5
    <2> QED BY <1>2, <1>6, <2>1, <2>2 DEF TypeOK
  <1>9. ZeroInv'
    <2>1. Left' > 0 => torn' = TRUE
      <3>1. Left > 0 => ~Idle
        BY IdleIsDone DEF IInv, MainInv
      <3> QED BY <1>2, <1>3, <1>4, <3>1, Zenon
    <2> QED BY <2>1, Zenon DEF ZeroInv
  <1>10. RingInv'
    <2> SUFFICES ASSUME Idle', torn' # TRUE PROVE Picture'
      BY DEF RingInv
    <2>1. Picture
      BY <1>3, Zenon DEF IInv, RingInv
    <2> QED BY <1>1, <1>5, <2>1, ReadingPicture
  <1> QED BY <1>7, <1>8, <1>9, <1>10 DEF IInv

\* So does a reading of the test.
LEMMA MfgTestReadingIInv ==
  ASSUME IInv, NEW reading \in {0, 1}, MfgTestReading(reading)
  PROVE  IInv'
PROOF
  <1>1. /\ takeReading(reading) /\ Idle
        /\ window' = window /\ timer' = timer /\ main' = main /\ torn' = torn
    BY DEF MfgTestReading
  <1>2. timer' \in BOOLEAN /\ torn' \in BOOLEAN /\ torn' # TRUE /\ torn # TRUE /\ Undisturbed'
    BY Zenon DEF MfgTestReading, IInv, TypeOK, MainInv, Undisturbed
  <1>3. Left' = Left /\ Idle' /\ Program' = Program
    BY <1>1 DEF Left, Idle, Program
  <1>4. TypeOK
    BY DEF IInv
  <1>5. /\ array' \in [0 .. ArraySize - 1 -> {0, 1}]
        /\ location' \in 0 .. window - 1
        /\ sum' \in 0 .. 255 /\ samples' \in 0 .. ArraySize
        /\ status' \in {0, 1} /\ readings' \in Seq({0, 1})
        /\ samples' = IF samples < window THEN samples + 1 ELSE samples
    BY <1>1, <1>4, ReadingStep
  <1>6. samples' <= window'
    BY <1>1, <1>5, Numbers DEF IInv, TypeOK
  <1>7. TypeOK'
    <2>1. /\ location' \in 0 .. ArraySize - 1 /\ window' \in 1 .. ArraySize
          /\ main'.i \in 0 .. ArraySize
      <3>1. window' = window /\ main' = main
        BY <1>1, Zenon
      <3>2. main'.i = main.i
        BY <3>1, Zenon
      <3>3. window \in 1 .. ArraySize /\ ArraySize \in 1 .. 255 /\ main.i \in 0 .. ArraySize
        BY Numbers
      <3>4. location' \in 0 .. window - 1
        BY <1>5
      <3>5. location' \in 0 .. ArraySize - 1
        BY <3>3, <3>4
      <3> QED BY <3>1, <3>2, <3>3, <3>5
    <2> QED BY <1>2, <1>5, <1>6, <2>1 DEF TypeOK
  <1>8. MainInv'
    <2>1. ProgramInv'
      BY <1>1, <1>3 DEF IInv, MainInv, ProgramInv
    <2>2. Trimmed'
      BY <1>6, <1>7 DEF Trimmed, TypeOK
    <2> QED BY <1>2, <2>1, <2>2 DEF MainInv
  <1>9. ZeroInv'
    <2>1. Left = 0
      BY <1>1, IdleIsDone DEF IInv, MainInv
    <2>2. ~(Left' > 0)
      BY <1>3, <2>1
    <2> QED BY <2>2, Zenon DEF ZeroInv
  <1>10. RingInv'
    <2>1. Picture
      BY <1>1, <1>2, Zenon DEF IInv, RingInv
    <2>2. Picture'
      BY <1>1, <1>4, <2>1, ReadingPicture
    <2> QED BY <2>2 DEF RingInv
  <1> QED BY <1>7, <1>8, <1>9, <1>10 DEF IInv

\* The start of a program of the main thread.
LEMMA ProgramStart ==
  ASSUME IInv, Idle, NEW todo, NEW w \in Windows, Program' = todo,
         todo \in Seq(Statement), Len(todo) # 0,
         main' = [todo |-> todo, window |-> w, i |-> 0]
  PROVE  /\ ProgramInv' /\ Left' = Len(todo) /\ ~Idle'
         /\ main'.i = 0 /\ samples <= window
PROOF
  <1>1. main'.todo = todo /\ main'.window = w /\ main'.i = 0
    OBVIOUS
  <1>2. main' = [todo |-> main'.todo, window |-> main'.window, i |-> main'.i]
    BY <1>1
  <1>3. Left' = Len(todo)
    BY <1>1 DEF Left
  <1>4. ~Idle'
    <2>1. todo # << >>
      BY EmptyProgram
    <2> QED BY <1>1, <2>1 DEF Idle
  <1>5. w \in 1 .. 255
    BY WindowAssumption
  <1>6. \A n \in 1 .. Left' : main'.todo[n] = Program'[Len(Program') - Left' + n]
    BY <1>1, <1>3
  <1>7. ProgramInv'
    BY <1>1, <1>2, <1>3, <1>5, <1>6 DEF ProgramInv
  <1>8. samples <= window
    BY DEF IInv, TypeOK
  <1> QED BY <1>1, <1>3, <1>4, <1>7, <1>8

\* The CLI's change of the window starts in the invariant.
LEMMA CliSetWindowIInv == ASSUME IInv, NEW w \in Windows, CliSetWindow(w) PROVE IInv'
PROOF
  <1>1. /\ Idle /\ timer' = timer /\ main' = [todo |-> Cli, window |-> w, i |-> 0]
        /\ array' = array /\ location' = location /\ sum' = sum /\ samples' = samples
        /\ window' = window /\ status' = status /\ readings' = readings
    BY DEF CliSetWindow, ring, Cli
  <1>2. timer' = TRUE /\ timer' \in BOOLEAN /\ torn' \in BOOLEAN /\ Undisturbed'
    BY Zenon DEF CliSetWindow, IInv, TypeOK, Undisturbed
  <1>3. Program' = Cli
    BY <1>2, Zenon DEF Program
  <1>4. ProgramInv' /\ Left' = 8 /\ ~Idle' /\ main'.i = 0 /\ samples <= window
    <2>1. Cli \in Seq(Statement) /\ Len(Cli) = 8 /\ Len(Cli) # 0
      BY Programs
    <2> HIDE DEF Cli
    <2> QED BY <1>1, <1>3, <2>1, ProgramStart
  <1>5. main'.i \in 0 .. ArraySize
    BY <1>4, WindowAssumption
  <1>6. TypeOK'
    BY <1>1, <1>2, <1>4, <1>5 DEF IInv, TypeOK
  <1>7. Trimmed'
    BY <1>1, <1>2, <1>4 DEF Trimmed
  <1>8. ZeroInv'
    <2>1. Done' = -4
      <3>1. Done' = 4 - Left'
        BY <1>2, Zenon DEF Done
      <3> QED BY <1>4, <3>1
    <2> QED BY <2>1 DEF ZeroInv
  <1>9. RingInv'
    BY <1>4 DEF RingInv
  <1> QED BY <1>2, <1>4, <1>6, <1>7, <1>8, <1>9 DEF IInv, MainInv

\* ... and so does the test's.
LEMMA MfgTestStartIInv == ASSUME IInv, NEW w \in Windows, MfgTestStart(w) PROVE IInv'
PROOF
  <1>1. /\ Idle /\ main' = [todo |-> Mfg, window |-> w, i |-> 0]
        /\ array' = array /\ location' = location /\ sum' = sum /\ samples' = samples
        /\ window' = window /\ status' = status /\ readings' = readings
    BY DEF MfgTestStart, ring, Mfg
  <1>2. timer' # TRUE /\ timer' \in BOOLEAN /\ torn' \in BOOLEAN /\ torn' # TRUE /\ Undisturbed'
    BY Zenon DEF MfgTestStart, IInv, TypeOK, Undisturbed
  <1>3. Program' = Mfg
    BY <1>2, Zenon DEF Program
  <1>4. ProgramInv' /\ Left' = 9 /\ ~Idle' /\ main'.i = 0 /\ samples <= window
    <2>1. Mfg \in Seq(Statement) /\ Len(Mfg) = 9 /\ Len(Mfg) # 0
      BY Programs
    <2> HIDE DEF Mfg
    <2> QED BY <1>1, <1>3, <2>1, ProgramStart
  <1>5. main'.i \in 0 .. ArraySize
    BY <1>4, WindowAssumption
  <1>6. TypeOK'
    BY <1>1, <1>2, <1>4, <1>5 DEF IInv, TypeOK
  <1>7. Trimmed'
    <2>1. ~(samples' > window')
      BY <1>1, <1>4, Numbers
    <2> QED BY <2>1 DEF Trimmed
  <1>8. ZeroInv'
    <2>1. Done' = 0
      <3>1. Done' = 9 - Left'
        BY <1>2, Zenon DEF Done
      <3> QED BY <1>4, <3>1
    <2> QED BY <2>1 DEF ZeroInv
  <1>9. RingInv'
    BY <1>4 DEF RingInv
  <1> QED BY <1>2, <1>4, <1>6, <1>7, <1>8, <1>9 DEF IInv, MainInv

\* The timer starts again after the test.
LEMMA MfgTestEndIInv == ASSUME IInv, MfgTestEnd PROVE IInv'
PROOF
  <1>1. /\ Idle /\ main' = main /\ torn' = torn
        /\ array' = array /\ location' = location /\ sum' = sum /\ samples' = samples
        /\ window' = window /\ status' = status /\ readings' = readings
    BY DEF MfgTestEnd, ring
  <1>2. timer' = TRUE /\ timer' \in BOOLEAN /\ torn' \in BOOLEAN /\ Undisturbed'
    BY Zenon DEF MfgTestEnd, IInv, TypeOK, Undisturbed
  <1>3. Left' = 0 /\ Idle'
    <2>1. Left = 0
      BY <1>1, IdleIsDone DEF IInv, MainInv
    <2> QED BY <1>1, <2>1 DEF Left, Idle
  <1>4. ProgramInv'
    <2>1. Len(Program') = 8
      <3>1. Program' = Cli
        BY <1>2, Zenon DEF Program
      <3> QED BY <3>1, Programs
    <2>2. /\ main' = [todo |-> main'.todo, window |-> main'.window, i |-> main'.i]
          /\ main'.todo \in Seq(Statement) /\ main'.window \in 1 .. 255
      BY <1>1 DEF IInv, MainInv, ProgramInv
    <2> QED BY <1>3, <2>1, <2>2 DEF ProgramInv
  <1>5. TypeOK'
    BY <1>1, <1>2, <1>3 DEF IInv, TypeOK
  <1>6. Trimmed'
    <2>1. ~(samples' > window')
      BY <1>1, Numbers DEF IInv, TypeOK
    <2> QED BY <2>1 DEF Trimmed
  <1>7. ZeroInv'
    <2>1. ~(Left' > 0)
      BY <1>3
    <2> QED BY <2>1, Zenon DEF ZeroInv
  <1>8. RingInv'
    BY <1>1, <1>3 DEF IInv, RingInv, Picture, Shape, Recent, Counted, Decided, Wet, Place
  <1> QED BY <1>2, <1>4, <1>5, <1>6, <1>7, <1>8 DEF IInv, MainInv

\* Every step keeps the invariant.
LEMMA NextIInv == IInv /\ [Next]_vars => IInv'
PROOF
  <1> SUFFICES ASSUME IInv, [Next]_vars PROVE IInv'
    OBVIOUS
  <1>1. ASSUME NEW reading \in {0, 1}, WaterTask(reading) PROVE IInv'
    BY <1>1, WaterTaskIInv
  <1>2. ASSUME NEW reading \in {0, 1}, MfgTestReading(reading) PROVE IInv'
    BY <1>2, MfgTestReadingIInv
  <1>3. ASSUME NEW w \in Windows, CliSetWindow(w) PROVE IInv'
    BY <1>3, CliSetWindowIInv
  <1>4. ASSUME NEW w \in Windows, MfgTestStart(w) PROVE IInv'
    BY <1>4, MfgTestStartIInv
  <1>5. CASE MfgTestEnd
    BY <1>5, MfgTestEndIInv
  <1>6. CASE MainStep
    BY <1>6, SetWindowIInv, ClearSumIInv, AddSampleIInv, TrimSamplesIInv, ClearArrayIInv,
       ResetLocationIInv, ResetSamplesIInv, ForceStateIInv DEF MainStep
  <1>7. CASE UNCHANGED vars
    BY <1>7 DEF vars, ring, IInv, TypeOK, Idle, MainInv, ProgramInv, Left, Program, Undisturbed,
       Trimmed, ZeroInv, Done, Cleared, RingInv, Picture, Shape, Recent, Counted, Decided, Wet, Place
  <1> QED BY <1>1, <1>2, <1>3, <1>4, <1>5, <1>6, <1>7 DEF Next
-----------------------------------------------------------------------------
(***************************************************************************)
(* The theorems.                                                           *)
(***************************************************************************)

\* The invariant holds whatever the size of the array, the windows that are asked for
\* and the percentages, and wherever the timer interrupts the main thread.
LEMMA InvariantHolds == Spec => []IInv
PROOF
  <1>1. Init => IInv
    BY InitIInv
  <1>2. IInv /\ [Next]_vars => IInv'
    BY NextIInv
  <1> QED BY <1>1, <1>2, PTL DEF Spec

\* The type invariant: in particular the sum fits its byte, the location stays in the
\* array though the window shrinks under it, and the count of samples is trimmed to
\* the window by the end of every change.
THEOREM TypesHold == Spec => []TypeOK
PROOF
  <1>1. IInv => TypeOK
    BY DEF IInv
  <1> QED BY <1>1, InvariantHolds, PTL

\* The rolling sum is the number of wet samples in the ring (takeReading), unless a
\* reading came in the middle of the CLI's last change of the window.
THEOREM SumHolds == Spec => []SumUntorn
PROOF
  <1>1. IInv => SumUntorn
    <2> SUFFICES ASSUME IInv, ~torn, Idle PROVE sum = Cardinality(Wet)
      BY DEF SumUntorn, SumOfWindow
    <2>1. torn # TRUE
      BY Zenon
    <2> QED BY <2>1 DEF IInv, RingInv, Picture, Counted
  <1> QED BY <1>1, InvariantHolds, PTL

\* The ring is the recent past: going back from the location, one finds the readings
\* since the reset, latest first.
THEOREM RingHolds == Spec => []RingIsRecent
PROOF
  <1>1. IInv => RingIsRecent
    <2> SUFFICES ASSUME IInv, Idle, ~torn
                 PROVE  /\ samples = IF Len(readings) < window THEN Len(readings) ELSE window
                        /\ \A k \in 0 .. samples - 1 :
                             array[(location - k + window) % window] = readings[Len(readings) - k]
      BY DEF RingIsRecent
    <2>1. torn # TRUE
      BY Zenon
    <2>2. Shape /\ Recent
      BY <2>1 DEF IInv, RingInv, Picture
    <2>3. window \in Nat \ {0} /\ location \in 0 .. window - 1 /\ samples \in 0 .. window
      BY <2>2, Numbers DEF IInv, TypeOK, Shape
    <2>4. ASSUME NEW k \in 0 .. samples - 1, NEW n, n = location - k + window
          PROVE  array[n % window] = readings[Len(readings) - k]
      <3>1. n % window = Place(k)
        <4>1. CASE k <= location
          <5>1. n \in window .. 2 * window - 1 /\ n - window = Place(k)
            BY <2>3, <2>4, <4>1 DEF Place
          <5> HIDE <2>4
          <5> QED BY <2>3, <5>1, Remainder
        <4>2. CASE k > location
          <5>1. n \in 0 .. window - 1 /\ n = Place(k)
            BY <2>3, <2>4, <4>2 DEF Place
          <5> HIDE <2>4
          <5> QED BY <2>3, <5>1, Remainder
        <4> QED BY <2>3, <4>1, <4>2
      <3>2. array[Place(k)] = readings[Len(readings) - k]
        BY <2>2, <2>3 DEF Recent
      <3> QED BY <3>1, <3>2
    <2>5. \A k \in 0 .. samples - 1 :
            array[(location - k + window) % window] = readings[Len(readings) - k]
      BY <2>4, Zenon
    <2> QED BY <2>2, <2>5 DEF Shape
  <1> QED BY <1>1, InvariantHolds, PTL

\* The sum counts the wet ones of the latest readings, as many as are counted.
LEMMA SumOfReadings ==
  TypeOK /\ Picture =>
    WetIn(SubSeq(readings, Len(readings) - samples + 1, Len(readings))) = sum
PROOF
  <1> DEFINE s == SubSeq(readings, Len(readings) - samples + 1, Len(readings))
             S == {i \in 1 .. samples : s[i] = 1}
             f == [i \in S |-> Place(samples - i)]
  <1> SUFFICES ASSUME TypeOK, Picture PROVE WetIn(s) = sum
    OBVIOUS
  <1>1. /\ window \in Nat \ {0} /\ location \in 0 .. window - 1 /\ samples \in 0 .. window
        /\ samples <= Len(readings) /\ Len(readings) \in Nat /\ readings \in Seq({0, 1})
    BY WindowAssumption DEF TypeOK, Picture, Shape
  <1>2. /\ Len(s) = samples
        /\ \A i \in 1 .. samples : s[i] = readings[Len(readings) - (samples - i)]
    <2>1. Len(s) = samples /\ \A i \in 1 .. samples : s[i] = readings[Len(readings) - samples + 1 + i - 1]
      <3> HIDE DEF S, f
      <3>1. ASSUME NEW a \in 1 .. Len(readings) + 1
            PROVE  /\ Len(SubSeq(readings, a, Len(readings))) = Len(readings) - a + 1
                   /\ \A i \in 1 .. Len(readings) - a + 1 :
                        SubSeq(readings, a, Len(readings))[i] = readings[a + i - 1]
        BY <1>1
      <3>2. /\ Len(readings) - samples + 1 \in 1 .. Len(readings) + 1
            /\ Len(readings) - (Len(readings) - samples + 1) + 1 = samples
        BY <1>1
      <3> QED BY <3>1, <3>2, Zenon
    <2>2. \A i \in 1 .. samples :
            Len(readings) - samples + 1 + i - 1 = Len(readings) - (samples - i)
      BY <1>1
    <2> QED BY <2>1, <2>2, Zenon
  <1> HIDE DEF s
  <1>3. \A k \in 0 .. window - 1 :
          /\ Place(k) \in 0 .. window - 1
          /\ array[Place(k)] = IF k < samples THEN readings[Len(readings) - k] ELSE 0
    BY <1>1 DEF Place, Picture, Recent
  <1>4. ASSUME NEW i \in S
        PROVE  Place(samples - i) \in Wet
    <2>1. samples - i \in 0 .. window - 1 /\ samples - i < samples
      BY <1>1
    <2>2. array[Place(samples - i)] = 1
      BY <1>2, <1>3, <2>1
    <2> QED BY <1>3, <2>1, <2>2 DEF Wet
  <1>5. ASSUME NEW i \in S, NEW j \in S, Place(samples - i) = Place(samples - j)
        PROVE  i = j
    BY <1>1, <1>5 DEF Place
  <1>6. ASSUME NEW p \in Wet
        PROVE  \E i \in S : Place(samples - i) = p
    <2> DEFINE k == IF p <= location THEN location - p ELSE location - p + window
    <2>1. p \in 0 .. window - 1 /\ array[p] = 1
      BY DEF Wet
    <2>2. k \in 0 .. window - 1 /\ Place(k) = p
      BY <1>1, <2>1 DEF Place
    <2> HIDE DEF k
    <2>3. k < samples /\ readings[Len(readings) - k] = 1
      BY <1>3, <2>1, <2>2
    <2>4. samples - k \in 1 .. samples /\ samples - (samples - k) = k
      BY <1>1, <2>2, <2>3
    <2>5. samples - k \in S
      BY <1>2, <2>3, <2>4
    <2> QED BY <2>2, <2>4, <2>5
  <1>7. IsFiniteSet(S)
    <2>1. IsFiniteSet(1 .. samples)
      BY <1>1, FS_Interval
    <2> QED BY <2>1, FS_Subset
  <1>8. f \in Bijection(S, Wet)
    <2> HIDE DEF S
    <2>1. f \in Injection(S, Wet)
      BY <1>4, <1>5 DEF Injection, IsInjective
    <2>2. f \in Surjection(S, Wet)
      BY <1>4, <1>6 DEF Surjection
    <2> QED BY <2>1, <2>2 DEF Bijection
  <1>9. Cardinality(Wet) = Cardinality(S)
    BY <1>7, <1>8, FS_Bijection DEF ExistsBijection
  <1>10. WetIn(s) = Cardinality(S)
    BY <1>2 DEF WetIn
  <1> QED BY <1>9, <1>10 DEF Picture, Counted

\* The bounds of the hysteresis: what a reading that changes the status has seen.
LEMMA Hysteresis ==
  ASSUME window \in Nat \ {0}, NEW total \in Nat, NEW n, NEW old,
         Detect(total, n, old) # old
  PROVE  \/ Detect(total, n, old) = 1 /\ 100 * total > High * window
         \/ Detect(total, n, old) = 0 /\ 100 * total < Low * window
PROOF
  <1>1. \A w \in Nat \ {0} : \A t \in Nat : \A p \in 0 .. 100 :
          (t * 100) \div w > p => 100 * t > p * w
    <2> SUFFICES ASSUME NEW w \in Nat \ {0}, NEW t \in Nat, NEW p \in 0 .. 100,
                        (t * 100) \div w > p
                 PROVE  100 * t > p * w
      OBVIOUS
    <2> DEFINE q == (t * 100) \div w
    <2>1. q \in Nat /\ t * 100 >= q * w /\ q >= p + 1
      BY SMTT(30)
    <2> HIDE DEF q
    <2>2. q * w >= (p + 1) * w
      BY <2>1, SMTT(30)
    <2>3. (p + 1) * w > p * w
      BY SMTT(30)
    <2> QED BY <2>1, <2>2, <2>3
  <1>2. Low \in 0 .. 100 /\ High \in 0 .. 100
    BY PercentAssumption
  <1>3. \/ Detect(total, n, old) = 0 /\ total * 100 < window * Low
        \/ Detect(total, n, old) = 1 /\ (total * 100) \div window > High
    BY DEF Detect
  <1>4. total * 100 < window * Low => 100 * total < Low * window
    BY <1>2
  <1> QED BY <1>1, <1>2, <1>3, <1>4

\* The hysteresis is right: a reading changes the status to "in water" only when more
\* than High percent of the window was wet and to "out of water" only when less than
\* Low percent was, for every window and every pair of percentages, though the code
\* compares one truncated quotient (update_water_detect).
THEOREM StatusHasCause == Spec => ChangesWithCause
PROOF
  <1> DEFINE latest == SubSeq(readings', IF Len(readings') > window
                                         THEN Len(readings') - window + 1 ELSE 1,
                              Len(readings'))
  <1>1. ASSUME IInv, IInv', [Next]_vars, ~torn', readings' # readings, readings' # << >>,
               status' # status
        PROVE  IF status' = 1 THEN 100 * WetIn(latest) > High * window
               ELSE 100 * WetIn(latest) < Low * window
    <2>1. PICK reading \in {0, 1} : WaterTask(reading) \/ MfgTestReading(reading)
      BY <1>1 DEF Next, CliSetWindow, MfgTestStart, MfgTestEnd, MainStep, SetWindow, ClearSum,
         AddSample, TrimSamples, ClearArray, ResetLocation, ResetSamples, ForceState, vars
    <2>2. takeReading(reading) /\ window' = window
      BY <2>1 DEF WaterTask, MfgTestReading
    <2>3. Idle' /\ torn' # TRUE
      <3>1. CASE WaterTask(reading)
        <4>1. Idle /\ main' = main
          BY <1>1, <3>1, Zenon DEF WaterTask
        <4> QED BY <1>1, <4>1, Zenon DEF Idle
      <3>2. CASE MfgTestReading(reading)
        <4>1. Idle /\ main' = main
          BY <3>2 DEF MfgTestReading
        <4> QED BY <1>1, <4>1, Zenon DEF Idle
      <3> QED BY <2>1, <3>1, <3>2
    <2>4. TypeOK' /\ Picture'
      BY <1>1, <2>3 DEF IInv, RingInv
    <2>5. status' = Detect(sum', samples', status)
      BY <2>2 DEF takeReading
    <2>6. (TypeOK /\ Picture =>
             WetIn(SubSeq(readings, Len(readings) - samples + 1, Len(readings))) = sum)'
      BY SumOfReadings, PTL
    <2>7. /\ window \in Nat \ {0} /\ sum' \in Nat /\ readings' \in Seq({0, 1})
          /\ samples' = IF Len(readings') < window THEN Len(readings') ELSE window
      <3>1. window' \in Nat \ {0} /\ sum' \in Nat /\ readings' \in Seq({0, 1})
        BY <2>4, WindowAssumption DEF TypeOK
      <3>2. samples' = IF Len(readings') < window' THEN Len(readings') ELSE window'
        BY <2>4 DEF Picture, Shape
      <3> QED BY <2>2, <3>1, <3>2
    <2>8. WetIn(latest) = sum'
      <3>1. (IF Len(readings') > window THEN Len(readings') - window + 1 ELSE 1)
              = Len(readings') - samples' + 1
        <4>1. Len(readings') \in Nat
          BY <2>7
        <4>2. \A n \in Nat : \A w \in Nat : \A c : c = (IF n < w THEN n ELSE w) =>
                (IF n > w THEN n - w + 1 ELSE 1) = n - c + 1
          OBVIOUS
        <4>3. window \in Nat /\ samples' = IF Len(readings') < window THEN Len(readings') ELSE window
          BY <2>7
        <4> QED BY <4>1, <4>2, <4>3
      <3> QED BY <2>4, <2>6, <3>1
    <2> HIDE DEF latest
    <2>9. \/ status' = 1 /\ 100 * sum' > High * window
          \/ status' = 0 /\ 100 * sum' < Low * window
      BY <1>1, <2>5, <2>7, Hysteresis
    <2> QED BY <2>8, <2>9
  <1>2. IInv /\ IInv' /\ [Next]_vars =>
          [~torn' /\ readings' # readings /\ readings' # << >> /\ status' # status =>
             IF status' = 1 THEN 100 * WetIn(latest) > High * window
             ELSE 100 * WetIn(latest) < Low * window]_vars
    BY <1>1
  <1> QED BY <1>2, InvariantHolds, PTL DEF Spec, ChangesWithCause

\* The status cannot contradict the whole window: a window of wet readings means "in
\* water" and a window of dry ones "out of water", for every window and percentages.
THEOREM WindowHolds == Spec => []WindowDecides
PROOF
  <1>1. IInv => WindowDecides
    <2> SUFFICES ASSUME IInv, Idle, ~torn, Len(readings) >= window
                 PROVE  /\ WetIn(Last(window)) = window => status = 1
                        /\ WetIn(Last(window)) = 0 /\ Low > 0 => status = 0
      BY DEF WindowDecides
    <2>1. torn # TRUE
      BY Zenon
    <2>2. Picture /\ TypeOK
      BY <2>1 DEF IInv, RingInv
    <2>3. samples = window
      BY <2>2, Numbers DEF Picture, Shape
    <2>4. WetIn(Last(window)) = sum
      BY <2>2, <2>3, SumOfReadings DEF Last
    <2> QED BY <2>2, <2>3, <2>4 DEF Picture, Decided
  <1> QED BY <1>1, InvariantHolds, PTL

=============================================================================
