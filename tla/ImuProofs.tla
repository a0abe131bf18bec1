------------------------------ MODULE ImuProofs ------------------------------
(***************************************************************************)
(* What is proved of Imu and of FaultLog, and of both side by side.        *)
(*                                                                         *)
(* Imu: the users of the bus take Wire's lock, the mutex of the device,    *)
(* both or neither.  Those that the locks do not keep apart are the ones   *)
(* that Clash names; but for these, no transfer is torn, whatever the      *)
(* frames are made of.  What the reader has read, the FIFO and what the    *)
(* sensor is about to write are then a stream of whole frames, and of its  *)
(* first the reader has the parts it believes it has: what it copies is a  *)
(* frame.  What a frame is made of is recursive, and the facts about it    *)
(* are proved by induction.                                                *)
(*                                                                         *)
(* FaultLog, for every number of threads, size of the ring and bound on    *)
(* the calls: types and bounds hold however the calls overlap.  The rest   *)
(* holds of a log that is not spoilt: one thread at most is in flog.cpp,   *)
(* the console waiting to clear the log apart, and what it has done so far *)
(* is known from where it is.                                              *)
(***************************************************************************)
EXTENDS MCImu, FiniteSetTheorems, TLAPS, WellFoundedInduction

-----------------------------------------------------------------------------
(***************************************************************************)
(* The bus of the sensor.                                                  *)
(***************************************************************************)

\* Whoever reads a register has Wire's transaction, and the sensor has the bank selected
\* that the driver asked for: no byte of a frame, of the count or of a register is
\* another's, until users of the bus have clashed or a write was lost.
TransfersUntorn ==
  ~clashed /\ ~framingLost =>
    /\ readPc = "transfer" => ~Torn
    /\ mainPc = "transfer" => owner = "main" /\ Head(mainBanks) \in {Other, bank}

\* The reader has the mutex from the loop to the return of the call, and Wire's lock
\* for the call; the main thread has the one its operation takes.
InDevice == readPc \in {"init", "initTransfer", "wire"} \/ InCall

Locks ==
  /\ deviceMtx = "reader" <=> InDevice
  /\ wireLock = "reader" <=> InCall
  /\ deviceMtx = "main" <=> OnBus /\ mainOp = "agmt"
  /\ wireLock = "main" <=> OnBus /\ mainOp = "temp"

\* An operation of the main thread reads a register, in the bank last asked for.
MainAsks ==
  /\ mainPc = "lock" \/ OnBus =>
       mainBanks # <<>> /\ mainOp \in {"temp", "tempInit", "agmt", "dumpRegs"}
  /\ mainPc \in {"bank", "begin"} => Head(mainBanks) = lastBank
  /\ mainPc = "transfer" => Head(mainBanks) \in {Other, lastBank}

ReaderAsks ==
  /\ mainPc = "start" => readPc = "absent"
  /\ readPc \in {"bank", "begin", "transfer"} => lastBank = 0

Apart == ~(OnBus /\ (InInit \/ InCall))

Owned ==
  /\ readPc \in {"initTransfer", "bank", "transfer"} => owner = "reader"
  /\ mainPc \in {"bank", "transfer"} => owner = "main"

\* The bank remembered is the sensor's, but while it is written.
Cached == mainPc # "bank" /\ readPc # "bank" => framingLost = TRUE \/ bank = lastBank

BusState == Locks /\ MainAsks /\ ReaderAsks /\ Apart /\ Owned /\ Cached
BusInv   == ~clashed => BusState

\* What the locks keep apart stays apart, unless a user without one clashes.
LEMMA LocksSuffice ==
  ASSUME Locks, MainAsks, ~Clash
  PROVE  Apart
PROOF
  BY DEF Locks, MainAsks, Clash, Apart, InDevice, InInit, InCall, OnBus

\* At first nobody uses the bus.
LEMMA InitBus == ImuInit => BusInv
PROOF
  <1> SUFFICES ASSUME ImuInit PROVE BusState
    BY Zenon DEF BusInv
  <1>1. /\ readPc = "absent" /\ mainPc = "start" /\ deviceMtx = Nobody /\ wireLock = Nobody
        /\ bank = 0 /\ lastBank = 0
    BY Zenon DEF ImuInit
  <1> QED BY <1>1 DEF BusState, Locks, MainAsks, ReaderAsks, Apart, Owned, Cached, InDevice, InInit,
                      InCall, OnBus, Nobody

\* What the bus is made of.
busView == <<imuBus, imuLocks, readPc, imuMain, framingLost>>

\* The sensor does not use the bus.
LEMMA SensorBus ==
  ASSUME BusState, Sensor
  PROVE  BusState'
PROOF
  <1>1. UNCHANGED <<imuBus, imuLocks, readPc, imuMain>> /\ (framingLost' = TRUE \/ UNCHANGED framingLost)
    BY Zenon DEF Sensor, FrameBegins, SensorWrites, imuRead
  <1> QED BY <1>1 DEF BusState, Locks, MainAsks, ReaderAsks, Apart, Owned, Cached, InDevice, InInit,
                      InCall, OnBus, imuBus, imuLocks, imuMain

\* The steps of the reader.
LEMMA ReaderBus ==
  ASSUME BusState, Reader, ~Clash'
  PROVE  BusState'
PROOF
  <1> USE DEF BusState, Locks, MainAsks, ReaderAsks, Apart, Owned, Cached, InDevice, InInit, InCall, OnBus,
              imuBus, imuLocks, imuMain, Nobody
  <1> SUFFICES Locks' /\ MainAsks' /\ ReaderAsks' /\ Owned' /\ Cached'
    <2>1. MainAsks' /\ Locks' => Apart'
      BY DEF Clash
    <2> QED BY <2>1
  <1>1. CASE InitLock
    BY <1>1 DEF InitLock
  <1>2. CASE InitBegin
    BY <1>2 DEF InitBegin
  <1>3. CASE InitEnd
    <2>1. /\ readPc = "initTransfer" /\ owner' = Nobody /\ deviceMtx' = Nobody /\ bank' = 0
          /\ lastBank' = 0 /\ readPc' \in {"loop", "exited"} /\ UNCHANGED <<wireLock, imuMain>>
      BY <1>3, Zenon DEF InitEnd
    <2> QED BY <2>1
  <1>4. CASE Loop
    <2>1. /\ readPc = "loop" /\ UNCHANGED <<imuBus, wireLock, imuMain, framingLost>>
          /\ \/ readPc' = "exited" /\ UNCHANGED deviceMtx
             \/ deviceMtx = Nobody /\ deviceMtx' = "reader" /\ readPc' = "wire"
      BY <1>4, Zenon DEF Loop
    <2> QED BY <2>1
  <1>5. CASE ReadCall
    BY <1>5 DEF ReadCall
  <1>6. CASE ReadNext
    <2>1. /\ readPc = "next" /\ UNCHANGED <<imuBus, imuMain>>
          /\ \/ readPc' \in {"copy", "loop"} /\ wireLock' = Nobody /\ deviceMtx' = Nobody
             \/ readPc' = "open" /\ UNCHANGED imuLocks
      BY <1>6, Zenon DEF ReadNext, ReadReturn
    <2>2. framingLost = TRUE => framingLost' = TRUE
      BY <1>6, Zenon DEF ReadNext
    <2> QED BY <2>1, <2>2
  <1>7. CASE ReadOpen
    BY <1>7 DEF ReadOpen
  <1>8. CASE ReadBank
    <2>1. /\ readPc = "bank" /\ readPc' = "begin" /\ owner' = Nobody
          /\ bank' = 0 \/ framingLost' = TRUE
          /\ UNCHANGED <<lastBank, imuLocks, imuMain>>
      BY <1>8, Zenon DEF ReadBank, BankWritten
    <2> QED BY <2>1
  <1>9. CASE ReadBegin
    BY <1>9 DEF ReadBegin
  <1>10. CASE ReadFails
    <2>1. /\ readPc = "transfer" /\ readPc' = "loop" /\ owner' = Nobody
          /\ wireLock' = Nobody /\ deviceMtx' = Nobody /\ UNCHANGED <<bank, lastBank, imuMain>>
      BY <1>10, Zenon DEF ReadFails, ReadReturn
    <2>2. framingLost = TRUE => framingLost' = TRUE
      BY <1>10, Zenon DEF ReadFails
    <2> QED BY <2>1, <2>2
  <1>11. CASE ReadTransfer
    <2>1. /\ readPc = "transfer" /\ readPc' \in {"begin", "next"} /\ owner' = Nobody
          /\ UNCHANGED <<bank, lastBank, imuLocks, imuMain, framingLost>>
      BY <1>11 DEF ReadTransfer, ReadCount, ReadPart
    <2> QED BY <2>1
  <1>12. CASE Copy
    <2>1. readPc = "copy" /\ readPc' = "loop" /\ UNCHANGED <<imuBus, imuLocks, imuMain, framingLost>>
      BY <1>12, Zenon DEF Copy
    <2> QED BY <2>1
  <1> QED BY <1>1, <1>2, <1>3, <1>4, <1>5, <1>6, <1>7, <1>8, <1>9, <1>10, <1>11, <1>12, Zenon DEF Reader

\* The steps of the main thread.
LEMMA MainBus ==
  ASSUME BusState, MainThread, ~Clash'
  PROVE  BusState'
PROOF
  <1> USE DEF BusState, Locks, MainAsks, ReaderAsks, Apart, Owned, Cached, InDevice, InInit, InCall, OnBus,
              imuBus, imuLocks, imuMain, imuRead, imuCall, Nobody
  <1> SUFFICES Locks' /\ MainAsks' /\ ReaderAsks' /\ Owned' /\ Cached'
    <2>1. MainAsks' /\ Locks' => Apart'
      BY DEF Clash
    <2> QED BY <2>1
  <1>1. CASE Begin
    BY <1>1 DEF Begin
  <1>2. CASE Call
    <2>1. /\ mainPc = "idle" /\ mainPc' = "lock"
          /\ UNCHANGED <<imuBus, imuLocks, readPc, framingLost>>
          /\ \E c \in Calls : mainOp' = c.op /\ mainBanks' = c.banks
      BY <1>2, Zenon DEF Call, imuRead
    <2>2. mainBanks' # <<>> /\ mainOp' \in {"temp", "tempInit", "agmt", "dumpRegs"}
      <3>1. \A c \in Calls : c.banks # <<>> /\ c.op \in {"temp", "tempInit", "agmt", "dumpRegs"}
        <4>1. <<Other>> # <<>> /\ <<0, 2>> # <<>> /\ <<0, 2, 3>> # <<>>
          BY DEF Other
        <4>2. PICK one, two, three : /\ one = <<Other>> /\ two = <<0, 2>> /\ three = <<0, 2, 3>>
          OBVIOUS
        <4>3. Calls = {[op |-> "temp",     banks |-> one], [op |-> "tempInit", banks |-> one],
                       [op |-> "agmt",     banks |-> two], [op |-> "dumpRegs", banks |-> three]}
          BY <4>2 DEF Calls
        <4>4. one # <<>> /\ two # <<>> /\ three # <<>>
          BY <4>1, <4>2, Zenon
        <4> QED BY <4>3, <4>4
      <3> QED BY <2>1, <3>1
    <2> QED BY <2>1, <2>2
  <1>3. CASE MainLock
    BY <1>3 DEF MainLock, LockOf
  <1>4. CASE MainOpen
    BY <1>4 DEF MainOpen
  <1>5. CASE MainBank
    <2>1. /\ mainPc = "bank" /\ mainPc' = "begin" /\ owner' = Nobody
          /\ bank' = Head(mainBanks) \/ framingLost' = TRUE
          /\ UNCHANGED <<lastBank, imuLocks, readPc, mainOp, mainBanks>>
      BY <1>5, Zenon DEF MainBank, BankWritten
    <2> QED BY <2>1
  <1>6. CASE MainBegin
    BY <1>6 DEF MainBegin
  <1>7. CASE MainTransfer
    BY <1>7 DEF MainTransfer
  <1>8. CASE End
    <2>1. /\ mainPc = "idle" /\ mainPc' \in {"panicked", "join"}
          /\ UNCHANGED <<imuBus, imuLocks, readPc, mainOp, mainBanks, framingLost>>
      BY <1>8, Zenon DEF End
    <2> QED BY <2>1
  <1>9. CASE Join
    BY <1>9 DEF Join
  <1> QED BY <1>1, <1>2, <1>3, <1>4, <1>5, <1>6, <1>7, <1>8, <1>9, Zenon DEF MainThread

\* Every step keeps the bus in order, until users of it clash.
LEMMA NextBus == BusInv /\ [ImuNext]_imuVars => BusInv'
PROOF
  <1> SUFFICES ASSUME BusInv, [ImuNext]_imuVars, ~clashed' PROVE BusState'
    BY Zenon DEF BusInv
  <1>1. CASE ImuNext
    <2>1. ~clashed /\ ~Clash'
      BY <1>1, Zenon DEF ImuNext
    <2> QED BY <1>1, <2>1, SensorBus, ReaderBus, MainBus, Zenon DEF ImuNext, BusInv
  <1>2. CASE UNCHANGED imuVars
    <2>1. BusState
      BY <1>2, Zenon DEF BusInv, imuVars
    <2>2. UNCHANGED <<imuBus, imuLocks, readPc, imuMain, framingLost>>
      BY <1>2, Zenon DEF imuVars, imuRead
    <2> QED BY <2>1, <2>2 DEF BusState, Locks, MainAsks, ReaderAsks, Apart, Owned, Cached, InDevice,
                              InInit, InCall, OnBus, imuBus, imuLocks, imuMain
  <1> QED BY <1>1, <1>2

\* The inductive invariant of the bus.
THEOREM BusInductive == ImuSpec => []BusInv
PROOF
  BY InitBus, NextBus, PTL DEF ImuSpec

\* In order, the bus tears no transfer.
LEMMA Untorn == BusInv => TransfersUntorn
PROOF
  <1> SUFFICES ASSUME BusInv, ~clashed, ~framingLost
               PROVE  /\ readPc = "transfer" => ~Torn
                      /\ mainPc = "transfer" => owner = "main" /\ Head(mainBanks) \in {Other, bank}
    BY Zenon DEF TransfersUntorn
  <1>1. BusState
    BY Zenon DEF BusInv
  <1>2. mainPc # "bank" /\ readPc # "bank" => bank = lastBank
    BY <1>1, Zenon DEF BusState, Cached
  <1>3. readPc = "transfer" => mainPc # "bank"
    BY <1>1 DEF BusState, Apart, OnBus, InCall
  <1>4. mainPc = "transfer" => readPc # "bank"
    BY <1>1 DEF BusState, Apart, OnBus, InCall
  <1> QED BY <1>1, <1>2, <1>3, <1>4 DEF BusState, Owned, ReaderAsks, MainAsks, Torn

\* The locks suffice for what they are taken for.
THEOREM NothingTorn == ImuSpec => []TransfersUntorn
PROOF
  BY Untorn, BusInductive, PTL

-----------------------------------------------------------------------------
(***************************************************************************)
(* Induction over data.  The library's theorems take an operator; stated   *)
(* for sets, induction follows from the fact that a set of natural numbers *)
(* that is not empty has a least element.                                  *)
(***************************************************************************)

\* The least element of a set of natural numbers.
LEMMA Least ==
  ASSUME NEW S, S \subseteq Nat, S # {}
  PROVE  \E n \in S : \A m \in S : n <= m
PROOF
  <1>1. PICK n \in S : \A m \in S : ~(<<m, n>> \in OpToRel(<, Nat))
    BY NatLessThanWellFounded, WFMin
  <1>2. ASSUME NEW m \in S PROVE n <= m
    <2>1. m < n => <<m, n>> \in OpToRel(<, Nat)
      BY DEF OpToRel
    <2>2. ~(m < n)
      BY <1>1, <2>1
    <2> QED BY <2>2
  <1> QED BY <1>2

\* Induction: a set that has 0 and the successor of each of its elements.
LEMMA SetInduction ==
  ASSUME NEW S, S \subseteq Nat, 0 \in S, \A n \in S : n + 1 \in S
  PROVE  S = Nat
PROOF
  <1> SUFFICES ASSUME Nat \ S # {} PROVE FALSE
    OBVIOUS
  <1>1. PICK n \in Nat \ S : \A m \in Nat \ S : n <= m
    BY Least
  <1>2. n # 0 /\ n - 1 \in S
    BY <1>1
  <1>3. n = (n - 1) + 1
    OBVIOUS
  <1> QED BY <1>2, <1>3

\* The sequences joined satisfy the equation they are defined by.
LEMMA JoinedDef ==
  ASSUME NEW s, Len(s) \in Nat
  PROVE  Joined(s) = [i \in 0 .. Len(s) |-> IF i = 0 THEN <<>> ELSE Joined(s)[i - 1] \o s[i]]
PROOF
  <1> DEFINE Step(w, i) == IF i = 0 THEN <<>> ELSE w[i - 1] \o s[i]
             Good == {m \in Nat : \E w : w = [i \in 0 .. m |-> Step(w, i)]}
  <1>1. 0 \in Good
    <2>1. [i \in 0 .. 0 |-> <<>>] = [i \in 0 .. 0 |-> Step([k \in 0 .. 0 |-> <<>>], i)]
      OBVIOUS
    <2> QED BY <2>1
  <1>2. ASSUME NEW m \in Good PROVE m + 1 \in Good
    <2>1. PICK w : w = [i \in 0 .. m |-> Step(w, i)]
      OBVIOUS
    <2>2. m \in Nat /\ m + 1 \in Nat
      OBVIOUS
    <2> DEFINE x == [i \in 0 .. m + 1 |-> IF i = m + 1 THEN Step(w, m + 1) ELSE w[i]]
    <2>3. x = [i \in 0 .. m + 1 |-> Step(x, i)]
      <3>1. ASSUME NEW i \in 0 .. m + 1 PROVE x[i] = Step(x, i)
        <4>1. CASE i = m + 1
          BY <2>2, <4>1
        <4>2. CASE i # m + 1
          <5>1. i \in 0 .. m /\ x[i] = w[i]
            BY <2>2, <4>2
          <5>2. w[i] = Step(w, i)
            BY <2>1, <5>1
          <5>3. i # 0 => x[i - 1] = w[i - 1]
            BY <2>2, <5>1
          <5> QED BY <5>1, <5>2, <5>3
        <4> QED BY <4>1, <4>2
      <3> QED BY <3>1
    <2> HIDE DEF x
    <2> QED BY <2>2, <2>3
  <1>3. Len(s) \in Good
    <2> HIDE DEF Good
    <2>1. Good \subseteq Nat
      BY DEF Good
    <2>2. Good = Nat
      BY <1>1, <1>2, <2>1, SetInduction
    <2> QED BY <2>2
  <1>4. Joined(s) = CHOOSE w : w = [i \in 0 .. Len(s) |-> Step(w, i)]
    BY DEF Joined
  <1> QED BY <1>3, <1>4

\* Two sequences one after the other.
LEMMA Concat ==
  ASSUME NEW S, NEW s \in Seq(S), NEW t \in Seq(S), NEW c, c = s \o t
  PROVE  /\ c \in Seq(S) /\ Len(c) = Len(s) + Len(t)
         /\ \A i \in 1 .. Len(s) : c[i] = s[i]
         /\ \A i \in 1 .. Len(t) : c[Len(s) + i] = t[i]
PROOF
  OBVIOUS

\* What is joined, of sequences over S.
LEMMA JoinedSeq ==
  ASSUME NEW S, NEW s \in Seq(Seq(S))
  PROVE  /\ Joined(s)[0] = <<>>
         /\ \A i \in 1 .. Len(s) : Joined(s)[i] = Joined(s)[i - 1] \o s[i]
         /\ \A i \in 0 .. Len(s) : Joined(s)[i] \in Seq(S)
PROOF
  <1> DEFINE J == Joined(s)
  <1>0. Len(s) \in Nat /\ <<>> \in Seq(S) /\ \A i \in 1 .. Len(s) : s[i] \in Seq(S)
    OBVIOUS
  <1>1. J[0] = <<>> /\ \A i \in 1 .. Len(s) : J[i] = J[i - 1] \o s[i]
    <2> DEFINE L == Len(s)
    <2>1. Joined(s) = [i \in 0 .. L |-> IF i = 0 THEN <<>> ELSE Joined(s)[i - 1] \o s[i]]
      BY <1>0, JoinedDef
    <2>2. L \in Nat
      BY <1>0
    <2> HIDE DEF L
    <2>3. J[0] = <<>>
      BY <2>1, <2>2
    <2>4. ASSUME NEW i \in 1 .. L PROVE J[i] = J[i - 1] \o s[i]
      <3>1. i \in 0 .. L /\ i # 0
        BY <2>2
      <3> QED BY <2>1, <3>1
    <2> QED BY <2>3, <2>4 DEF L
  <1> HIDE DEF J
  <1> DEFINE Good == {i \in Nat : i <= Len(s) => J[i] \in Seq(S)}
  <1>2. 0 \in Good
    BY <1>0, <1>1
  <1>3. ASSUME NEW i \in Good PROVE i + 1 \in Good
    <2> SUFFICES ASSUME i + 1 <= Len(s) PROVE J[i + 1] \in Seq(S)
      OBVIOUS
    <2>1. i \in Nat /\ i + 1 \in 1 .. Len(s) /\ (i + 1) - 1 = i /\ J[i] \in Seq(S)
      OBVIOUS
    <2>2. J[i + 1] = J[i] \o s[i + 1] /\ s[i + 1] \in Seq(S)
      BY <1>0, <1>1, <2>1
    <2> QED BY <2>1, <2>2, Concat
  <1>4. Good = Nat
    <2> HIDE DEF Good
    <2>1. Good \subseteq Nat
      BY DEF Good
    <2> QED BY <1>2, <1>3, <2>1, SetInduction
  <1>5. \A i \in 0 .. Len(s) : J[i] \in Seq(S)
    BY <1>4
  <1> QED BY <1>1, <1>5 DEF J

\* What a sequence begins with, a longer one does.
LEMMA PrefixGrows ==
  ASSUME NEW S, NEW a \in Seq(S), NEW b \in Seq(S), NEW t \in Seq(S), NEW c, c = b \o t,
         Len(a) <= Len(b), \A j \in 1 .. Len(a) : b[j] = a[j]
  PROVE  Len(a) <= Len(c) /\ \A j \in 1 .. Len(a) : c[j] = a[j]
PROOF
  <1>1. Len(c) = Len(b) + Len(t) /\ \A j \in 1 .. Len(b) : c[j] = b[j]
    BY Concat
  <1>2. Len(a) \in Nat /\ Len(b) \in Nat /\ Len(t) \in Nat
    OBVIOUS
  <1>3. \A j \in 1 .. Len(a) : j \in 1 .. Len(b)
    BY <1>2
  <1> QED BY <1>1, <1>2, <1>3

\* Less of it is a prefix of more of it.
LEMMA JoinedPrefix ==
  ASSUME NEW S, NEW s \in Seq(Seq(S)), NEW i \in 0 .. Len(s), NEW k \in 0 .. Len(s), i <= k
  PROVE  /\ Len(Joined(s)[i]) <= Len(Joined(s)[k])
         /\ \A j \in 1 .. Len(Joined(s)[i]) : Joined(s)[k][j] = Joined(s)[i][j]
PROOF
  <1> DEFINE J == Joined(s)
             Has(n) == /\ Len(J[i]) <= Len(J[n])
                       /\ \A j \in 1 .. Len(J[i]) : J[n][j] = J[i][j]
             Good == {n \in Nat : i <= n /\ n <= Len(s) => Has(n)}
  <1>0. Len(s) \in Nat /\ \A n \in 1 .. Len(s) : s[n] \in Seq(S)
    OBVIOUS
  <1>1. /\ \A n \in 1 .. Len(s) : J[n] = J[n - 1] \o s[n] /\ s[n] \in Seq(S)
        /\ \A n \in 0 .. Len(s) : J[n] \in Seq(S)
    BY <1>0, JoinedSeq, Zenon
  <1>2. Has(i)
    <2>1. Len(J[i]) \in Nat
      BY <1>1
    <2> QED BY <2>1
  <1> HIDE DEF J
  <1>3. 0 \in Good
    <2> SUFFICES ASSUME i <= 0 PROVE Has(0)
      OBVIOUS
    <2>1. i = 0
      BY <1>0
    <2> QED BY <1>2, <2>1
  <1>4. ASSUME NEW n \in Good PROVE n + 1 \in Good
    <2> HIDE DEF Has
    <2>1. n \in Nat /\ (i <= n /\ n <= Len(s) => Has(n))
      OBVIOUS
    <2> SUFFICES ASSUME i <= n + 1, n + 1 <= Len(s) PROVE Has(n + 1)
      BY <2>1
    <2> HIDE DEF Good
    <2>2. CASE i = n + 1
      BY <1>2, <2>2
    <2>3. CASE i # n + 1
      <3>1. /\ i <= n /\ n <= Len(s) /\ n + 1 \in 1 .. Len(s) /\ (n + 1) - 1 = n
            /\ n \in 0 .. Len(s) /\ i \in 0 .. Len(s)
        BY <1>0, <2>1, <2>3
      <3>2. Has(n)
        BY <2>1, <3>1
      <3>3. J[n + 1] = J[n] \o s[n + 1] /\ s[n + 1] \in Seq(S)
        BY <1>1, <3>1
      <3>4. J[n] \in Seq(S) /\ J[i] \in Seq(S)
        BY <1>1, <3>1
      <3>5. Len(J[i]) <= Len(J[n]) /\ \A j \in 1 .. Len(J[i]) : J[n][j] = J[i][j]
        BY <3>2, Zenon DEF Has
      <3> DEFINE a == J[i]
                 b == J[n]
                 t == s[n + 1]
                 c == J[n + 1]
      <3>6. /\ a \in Seq(S) /\ b \in Seq(S) /\ t \in Seq(S) /\ c = b \o t
            /\ Len(a) <= Len(b) /\ \A j \in 1 .. Len(a) : b[j] = a[j]
        BY <3>3, <3>4, <3>5
      <3> HIDE DEF a, b, t, c
      <3>7. Len(a) <= Len(c) /\ \A j \in 1 .. Len(a) : c[j] = a[j]
        BY <3>6, PrefixGrows
      <3> QED BY <3>7, Zenon DEF Has, a, c
    <2> QED BY <2>2, <2>3
  <1>5. Good = Nat
    <2> HIDE DEF Good
    <2>1. Good \subseteq Nat
      BY DEF Good
    <2> QED BY <1>3, <1>4, <2>1, SetInduction
  <1>6. Has(k)
    <2> HIDE DEF Has
    <2>1. k \in Nat /\ k <= Len(s) /\ i <= k
      BY <1>0
    <2>2. k \in Good
      BY <1>5, <2>1
    <2> QED BY <2>1, <2>2
  <1> QED BY <1>6 DEF J

\* What is in one of the sequences is in what is joined of them.
LEMMA JoinedHas ==
  ASSUME NEW S, NEW s \in Seq(Seq(S)), NEW i \in 1 .. Len(s), NEW j \in 1 .. Len(s[i])
  PROVE  \E m \in 1 .. Len(Joined(s)[Len(s)]) : Joined(s)[Len(s)][m] = s[i][j]
PROOF
  <1> DEFINE a == Joined(s)[i - 1]
             b == Joined(s)[i]
             c == Joined(s)[Len(s)]
             t == s[i]
  <1>1. /\ Len(s) \in Nat /\ t \in Seq(S) /\ i - 1 \in 0 .. Len(s) /\ i \in 0 .. Len(s)
        /\ i <= Len(s) /\ Len(s) \in 0 .. Len(s)
    OBVIOUS
  <1>2. b = a \o t /\ a \in Seq(S) /\ b \in Seq(S) /\ c \in Seq(S)
    BY <1>1, JoinedSeq, Zenon
  <1>3. Len(b) <= Len(c) /\ \A m \in 1 .. Len(b) : c[m] = b[m]
    BY <1>1, JoinedPrefix, Zenon
  <1>4. j \in 1 .. Len(t)
    OBVIOUS
  <1> SUFFICES \E m \in 1 .. Len(c) : c[m] = t[j]
    OBVIOUS
  <1> HIDE DEF a, b, c, t
  <1>5. Len(b) = Len(a) + Len(t) /\ b[Len(a) + j] = t[j]
    BY <1>1, <1>2, <1>4, Concat
  <1>6. Len(a) \in Nat /\ Len(b) \in Nat /\ Len(c) \in Nat /\ Len(t) \in Nat
    BY <1>1, <1>2
  <1>7. Len(a) + j \in 1 .. Len(b) /\ Len(a) + j \in 1 .. Len(c)
    BY <1>3, <1>4, <1>5, <1>6
  <1> QED BY <1>3, <1>5, <1>7

-----------------------------------------------------------------------------
(***************************************************************************)
(* The parts of a frame.                                                   *)
(***************************************************************************)

\* After the header come the fields it names, each at least once, and the footer.
LEMMA FollowingParts ==
  ASSUME NEW fields \in SUBSET Fields
  PROVE  /\ Following(fields) \in Seq(fields \cup {"footer"})
         /\ \A f \in fields : \E i \in 1 .. Len(Following(fields)) : Following(fields)[i] = f
PROOF
  <1> DEFINE L     == Len(FieldOrder)
             named == [i \in 1 .. L |-> IF FieldOrder[i] \in fields THEN <<FieldOrder[i]>> ELSE <<>>]
             all   == Joined(named)[L]
  <1>1. L \in Nat /\ DOMAIN FieldOrder = 1 .. L
    BY FrameAssumption
  <1>2. \A i \in 1 .. L : named[i] \in Seq(fields)
    OBVIOUS
  <1>3. named \in Seq(Seq(fields)) /\ Len(named) = L
    <2> HIDE DEF L
    <2>1. named \in [1 .. L -> Seq(fields)]
      BY <1>2, Zenon
    <2> HIDE DEF named
    <2> QED BY <1>1, <2>1
  <1>4. Following(fields) = Append(all, "footer")
    BY Zenon DEF Following
  <1>5. all \in Seq(fields)
    <2> HIDE DEF named, L
    <2>1. L \in 0 .. Len(named)
      BY <1>1, <1>3
    <2> QED BY <1>3, <2>1, JoinedSeq, Zenon
  <1>6. ASSUME NEW f \in fields PROVE \E i \in 1 .. Len(all) : all[i] = f
    <2>1. PICK i \in 1 .. L : FieldOrder[i] = f
      BY <1>1 DEF Fields
    <2>2. named[i] = <<f>>
      BY <2>1
    <2> HIDE DEF named, L
    <2>3. 1 \in 1 .. Len(named[i]) /\ named[i][1] = f /\ i \in 1 .. Len(named)
      BY <1>3, <2>2
    <2>4. \E m \in 1 .. Len(Joined(named)[Len(named)]) : Joined(named)[Len(named)][m] = named[i][1]
      BY <1>3, <2>3, JoinedHas, Zenon
    <2> QED BY <1>3, <2>3, <2>4
  <1> HIDE DEF all
  <1>7. Append(all, "footer") \in Seq(fields \cup {"footer"})
    BY <1>5
  <1>8. Len(Append(all, "footer")) = Len(all) + 1 /\ Len(all) \in Nat
    BY <1>5
  <1>9. \A i \in 1 .. Len(all) : Append(all, "footer")[i] = all[i]
    BY <1>5
  <1>10. ASSUME NEW f \in fields
         PROVE  \E i \in 1 .. Len(Append(all, "footer")) : Append(all, "footer")[i] = f
    <2>1. PICK i \in 1 .. Len(all) : all[i] = f
      BY <1>6
    <2>2. i \in 1 .. Len(Append(all, "footer"))
      BY <1>8
    <2> QED BY <1>9, <2>1, <2>2
  <1> QED BY <1>4, <1>7, <1>10, Zenon

\* All of its parts: the header is the first, and no other is one.
LEMMA AllParts ==
  ASSUME NEW fields \in SUBSET Fields
  PROVE  /\ PartsOf(fields) \in Seq(Parts) /\ Following(fields) \in Seq(Parts)
         /\ Len(PartsOf(fields)) = Len(Following(fields)) + 1
         /\ Len(Following(fields)) \in Nat
         /\ PartsOf(fields)[1] = "header"
         /\ \A i \in 1 .. Len(Following(fields)) :
              PartsOf(fields)[i + 1] = Following(fields)[i] /\ Following(fields)[i] # "header"
         /\ \A f \in fields : \E i \in 1 .. Len(PartsOf(fields)) : PartsOf(fields)[i] = f
PROOF
  <1> DEFINE F == Following(fields)
             P == PartsOf(fields)
  <1>1. /\ F \in Seq(fields \cup {"footer"})
        /\ \A f \in fields : \E i \in 1 .. Len(F) : F[i] = f
    BY FollowingParts, Zenon
  <1>2. P = <<"header">> \o F
    BY Zenon DEF PartsOf
  <1> HIDE DEF F, P
  <1>3. fields \cup {"footer"} \subseteq Parts /\ "header" \in Parts
    BY DEF Parts
  <1>4. F \in Seq(Parts)
    BY <1>1, <1>3
  <1>5. P \in Seq(Parts) /\ Len(P) = Len(F) + 1 /\ P[1] = "header" /\ Len(F) \in Nat
    BY <1>2, <1>3, <1>4
  <1>6. \A i \in 1 .. Len(F) : P[i + 1] = F[i]
    BY <1>2, <1>4
  <1>7. ASSUME NEW i \in 1 .. Len(F) PROVE F[i] # "header"
    <2>1. F[i] \in fields \cup {"footer"}
      BY <1>1
    <2> QED BY <2>1, FrameAssumption
  <1>8. ASSUME NEW f \in fields PROVE \E i \in 1 .. Len(P) : P[i] = f
    <2>1. PICK i \in 1 .. Len(F) : F[i] = f
      BY <1>1
    <2>2. i + 1 \in 1 .. Len(P)
      BY <1>5
    <2> QED BY <1>6, <2>1, <2>2
  <1> QED BY <1>4, <1>5, <1>6, <1>7, <1>8 DEF F, P

\* The units a frame is made of.
FrameSet(n, fields) == {Unit(n, fields, p) : p \in Parts}

\* The first q parts of a frame, and how many units they are.
Passed(n, fields, q) == Joined(UnitsIn(n, fields))[q]

\* The units of the parts: each of its own frame and part.
LEMMA PartUnits ==
  ASSUME NEW n \in 0 .. MaxFrames, NEW fields \in SUBSET Fields
  PROVE  /\ UnitsIn(n, fields) \in Seq(Seq(FrameSet(n, fields)))
         /\ Len(UnitsIn(n, fields)) = Len(PartsOf(fields))
         /\ \A i \in 1 .. Len(PartsOf(fields)) :
              /\ PartsOf(fields)[i] \in Parts
              /\ UnitsIn(n, fields)[i] \in Seq(FrameSet(n, fields))
              /\ Len(UnitsIn(n, fields)[i]) = UnitsOf[PartsOf(fields)[i]]
              /\ UnitsOf[PartsOf(fields)[i]] \in Nat \ {0}
              /\ UnitsIn(n, fields)[i][1] = Unit(n, fields, PartsOf(fields)[i])
PROOF
  <1> DEFINE P == PartsOf(fields)
             U == UnitsIn(n, fields)
             S == FrameSet(n, fields)
             of(i) == [j \in 1 .. UnitsOf[P[i]] |-> Unit(n, fields, P[i])]
  <1>1. P \in Seq(Parts) /\ Len(P) \in Nat
    <2>1. P \in Seq(Parts)
      BY AllParts, Zenon
    <2> HIDE DEF P
    <2> QED BY <2>1
  <1>2. U = [i \in 1 .. Len(P) |-> of(i)]
    BY Zenon DEF UnitsIn
  <1> HIDE DEF P, U
  <1>3. ASSUME NEW i \in 1 .. Len(P)
        PROVE  /\ P[i] \in Parts /\ UnitsOf[P[i]] \in Nat \ {0}
               /\ of(i) \in Seq(S) /\ Len(of(i)) = UnitsOf[P[i]]
               /\ of(i)[1] = Unit(n, fields, P[i])
    <2>1. P[i] \in Parts
      BY <1>1
    <2>2. UnitsOf[P[i]] \in Nat \ {0}
      BY <2>1, FrameAssumption
    <2>3. Unit(n, fields, P[i]) \in S
      BY <2>1, Zenon DEF FrameSet
    <2> DEFINE k == UnitsOf[P[i]]
               u == Unit(n, fields, P[i])
    <2> HIDE DEF k, u, S
    <2>4. k \in Nat \ {0} /\ u \in S
      BY <2>2, <2>3 DEF k, u
    <2>5. /\ [j \in 1 .. k |-> u] \in Seq(S) /\ Len([j \in 1 .. k |-> u]) = k
          /\ [j \in 1 .. k |-> u][1] = u
      BY <2>4
    <2> QED BY <2>1, <2>2, <2>5, Zenon DEF k, u
  <1> HIDE DEF of, S
  <1>4. \A i \in 1 .. Len(P) : U[i] = of(i)
    BY <1>2
  <1>5. U \in Seq(Seq(S)) /\ Len(U) = Len(P)
    <2>1. U \in [1 .. Len(P) -> Seq(S)]
      BY <1>2, <1>3, Zenon
    <2> QED BY <1>1, <2>1
  <1> QED BY <1>3, <1>4, <1>5, Zenon DEF P, U, S

\* Units are of the type.
LEMMA FrameSetUnits ==
  ASSUME NEW n \in 0 .. MaxFrames, NEW fields \in SUBSET Fields
  PROVE  /\ FrameSet(n, fields) \subseteq Units
         /\ \A u \in FrameSet(n, fields) : u.frame = n /\ u.fields = fields
PROOF
  BY DEF FrameSet, Unit, Units

\* A frame: its units are its own, its header is the first, and each of its fields is there.
LEMMA FrameFacts ==
  ASSUME NEW n \in 0 .. MaxFrames, NEW fields \in SUBSET Fields
  PROVE  /\ FrameUnits(n, fields) \in Seq(Units)
         /\ Len(FrameUnits(n, fields)) \in Nat \ {0}
         /\ FrameUnits(n, fields)[1] = Unit(n, fields, "header")
         /\ \A i \in 1 .. Len(FrameUnits(n, fields)) :
              FrameUnits(n, fields)[i].frame = n /\ FrameUnits(n, fields)[i].fields = fields
         /\ \A f \in fields : \E i \in 1 .. Len(FrameUnits(n, fields)) :
              FrameUnits(n, fields)[i].part = f
PROOF
  <1> DEFINE P == PartsOf(fields)
             U == UnitsIn(n, fields)
             S == FrameSet(n, fields)
             W == FrameUnits(n, fields)
  <1>1. /\ P[1] = "header" /\ \A f \in fields : \E i \in 1 .. Len(P) : P[i] = f
        /\ Len(P) = Len(Following(fields)) + 1 /\ Len(Following(fields)) \in Nat
    BY AllParts, Zenon
  <1>2. /\ U \in Seq(Seq(S)) /\ Len(U) = Len(P)
        /\ \A i \in 1 .. Len(P) :
             /\ P[i] \in Parts
             /\ U[i] \in Seq(S)
             /\ Len(U[i]) = UnitsOf[P[i]]
             /\ UnitsOf[P[i]] \in Nat \ {0}
             /\ U[i][1] = Unit(n, fields, P[i])
    BY PartUnits, Zenon
  <1>3. W = Joined(U)[Len(U)]
    BY <1>2, Zenon DEF FrameUnits
  <1> HIDE DEF P, U, W, S
  <1>4. Len(P) \in Nat /\ 1 \in 1 .. Len(P) /\ Len(P) \in 0 .. Len(P) /\ 1 \in 0 .. Len(P)
        /\ 0 \in 0 .. Len(P) /\ 1 <= Len(P)
    BY <1>1
  <1>5. W \in Seq(S)
    BY <1>2, <1>3, <1>4, JoinedSeq, Zenon
  <1>6. Len(U[1]) <= Len(W) /\ \A j \in 1 .. Len(U[1]) : W[j] = U[1][j]
    <2>1. Joined(U)[1] = U[1]
      <3>1. Joined(U)[0] = <<>> /\ Joined(U)[1] = Joined(U)[1 - 1] \o U[1]
        BY <1>2, <1>4, JoinedSeq, Zenon
      <3>2. 1 - 1 = 0
        OBVIOUS
      <3>3. U[1] \in Seq(S)
        BY <1>2, <1>4, Zenon
      <3> DEFINE t == U[1]
      <3> HIDE DEF t
      <3>4. <<>> \o t = t
        BY <3>3 DEF t
      <3> QED BY <3>1, <3>2, <3>4 DEF t
    <2>2. U \in Seq(Seq(S)) /\ 1 \in 0 .. Len(U) /\ Len(U) \in 0 .. Len(U) /\ 1 <= Len(U)
      BY <1>2, <1>4
    <2>3. /\ Len(Joined(U)[1]) <= Len(Joined(U)[Len(U)])
          /\ \A j \in 1 .. Len(Joined(U)[1]) : Joined(U)[Len(U)][j] = Joined(U)[1][j]
      BY <2>2, JoinedPrefix, Zenon
    <2> QED BY <1>3, <2>1, <2>3
  <1>7. Len(W) \in Nat \ {0} /\ W[1] = Unit(n, fields, "header")
    <2>1. Len(U[1]) \in Nat \ {0} /\ U[1][1] = Unit(n, fields, "header")
      BY <1>1, <1>2, <1>4
    <2>2. Len(W) \in Nat
      BY <1>5
    <2> QED BY <1>6, <2>1, <2>2
  <1>8. S \subseteq Units /\ \A u \in S : u.frame = n /\ u.fields = fields
    BY FrameSetUnits, Zenon DEF S
  <1>9. W \in Seq(Units) /\ \A i \in 1 .. Len(W) : W[i] \in S
    BY <1>5, <1>8
  <1>10. ASSUME NEW f \in fields PROVE \E i \in 1 .. Len(W) : W[i].part = f
    <2>1. PICK i \in 1 .. Len(P) : P[i] = f
      BY <1>1
    <2>2. Len(U[i]) \in Nat \ {0} /\ U[i][1] = Unit(n, fields, f) /\ i \in 1 .. Len(U)
      <3>1. Len(U[i]) = UnitsOf[P[i]] /\ UnitsOf[P[i]] \in Nat \ {0}
        BY <1>2, Zenon
      <3> QED BY <1>2, <2>1, <3>1
    <2>3. 1 \in 1 .. Len(U[i])
      BY <2>2
    <2>4. \E m \in 1 .. Len(Joined(U)[Len(U)]) : Joined(U)[Len(U)][m] = U[i][1]
      <3>1. U \in Seq(Seq(S)) /\ i \in 1 .. Len(U)
        BY <1>2, <2>2, Zenon
      <3> QED BY <3>1, <2>3, JoinedHas, Zenon
    <2>5. \E m \in 1 .. Len(W) : W[m] = U[i][1]
      BY <1>3, <2>4, Zenon
    <2>6. Unit(n, fields, f).part = f
      BY DEF Unit
    <2> QED BY <2>2, <2>5, <2>6
  <1> QED BY <1>7, <1>8, <1>9, <1>10 DEF W

\* What has been read of a frame part by part begins it, and in the end is all of it.
LEMMA PassedFacts ==
  ASSUME NEW n \in 0 .. MaxFrames, NEW fields \in SUBSET Fields, NEW q \in 1 .. Len(PartsOf(fields))
  PROVE  /\ Passed(n, fields, q) \in Seq(Units)
         /\ Len(Passed(n, fields, q)) <= Len(FrameUnits(n, fields))
         /\ \A j \in 1 .. Len(Passed(n, fields, q)) :
              Passed(n, fields, q)[j] = FrameUnits(n, fields)[j]
         /\ q = 1 => Len(Passed(n, fields, q)) = UnitsOf["header"]
         /\ q # 1 => Len(Passed(n, fields, q))
                       = Len(Passed(n, fields, q - 1)) + UnitsOf[PartsOf(fields)[q]]
         /\ q = Len(PartsOf(fields)) => Passed(n, fields, q) = FrameUnits(n, fields)
PROOF
  <1> DEFINE P == PartsOf(fields)
             U == UnitsIn(n, fields)
             S == FrameSet(n, fields)
             W == FrameUnits(n, fields)
             J(i) == Joined(U)[i]
  <1>1. P[1] = "header" /\ Len(P) \in Nat
    <2>1. P[1] = "header" /\ Len(P) = Len(Following(fields)) + 1 /\ Len(Following(fields)) \in Nat
      BY AllParts, Zenon
    <2> QED BY <2>1
  <1>2. /\ U \in Seq(Seq(S)) /\ Len(U) = Len(P)
        /\ \A i \in 1 .. Len(P) :
             U[i] \in Seq(S) /\ Len(U[i]) = UnitsOf[P[i]] /\ UnitsOf[P[i]] \in Nat \ {0}
    <2>1. /\ U \in Seq(Seq(S)) /\ Len(U) = Len(P)
          /\ \A i \in 1 .. Len(P) :
               /\ P[i] \in Parts
               /\ U[i] \in Seq(S)
               /\ Len(U[i]) = UnitsOf[P[i]]
               /\ UnitsOf[P[i]] \in Nat \ {0}
               /\ U[i][1] = Unit(n, fields, P[i])
      BY PartUnits, Zenon
    <2> QED BY <2>1, Zenon
  <1>3. W = Joined(U)[Len(U)]
    BY <1>2, Zenon DEF FrameUnits
  <1>4. \A i \in 1 .. Len(P) : Passed(n, fields, i) = Joined(U)[i]
    BY Zenon DEF Passed
  <1>5. q \in 1 .. Len(P)
    OBVIOUS
  <1> HIDE DEF P, U, W, S
  <1>6. /\ q \in 0 .. Len(U) /\ q - 1 \in 0 .. Len(U) /\ Len(U) \in 0 .. Len(U) /\ q <= Len(U)
        /\ q \in 1 .. Len(U)
    BY <1>1, <1>2, <1>5
  <1>7. /\ Joined(U)[0] = <<>> /\ Joined(U)[q] = Joined(U)[q - 1] \o U[q]
        /\ Joined(U)[q] \in Seq(S) /\ Joined(U)[q - 1] \in Seq(S)
    BY <1>2, <1>6, JoinedSeq, Zenon
  <1>8. /\ Len(Joined(U)[q]) <= Len(Joined(U)[Len(U)])
        /\ \A j \in 1 .. Len(Joined(U)[q]) : Joined(U)[Len(U)][j] = Joined(U)[q][j]
    <2>1. U \in Seq(Seq(S)) /\ q \in 0 .. Len(U) /\ Len(U) \in 0 .. Len(U) /\ q <= Len(U)
      BY <1>2, <1>6, Zenon
    <2> QED BY <2>1, JoinedPrefix, Zenon
  <1>9. Len(Joined(U)[q]) = Len(Joined(U)[q - 1]) + UnitsOf[P[q]]
    <2>1. U[q] \in Seq(S) /\ Len(U[q]) = UnitsOf[P[q]]
      BY <1>2, <1>5, Zenon
    <2> DEFINE a == Joined(U)[q - 1]
               c == Joined(U)[q]
               t == U[q]
    <2>2. a \in Seq(S) /\ t \in Seq(S) /\ c = a \o t
      BY <1>7, <2>1, Zenon
    <2> HIDE DEF a, c, t
    <2>3. Len(c) = Len(a) + Len(t)
      BY <2>2, Concat
    <2> QED BY <2>1, <2>3, Zenon DEF a, c, t
  <1>10. q = 1 => Len(Joined(U)[q]) = UnitsOf["header"]
    <2> SUFFICES ASSUME q = 1 PROVE Len(Joined(U)[q]) = UnitsOf["header"]
      OBVIOUS
    <2>1. Len(Joined(U)[q - 1]) = 0 /\ UnitsOf[P[q]] = UnitsOf["header"]
      BY <1>1, <1>7
    <2>2. UnitsOf[P[q]] \in Nat
      BY <1>2, <1>5
    <2> QED BY <1>9, <2>1, <2>2
  <1>11. S \subseteq Units
    BY FrameSetUnits, Zenon DEF S
  <1>12. Joined(U)[q] \in Seq(Units)
    BY <1>7, <1>11
  <1>13. Passed(n, fields, q) = Joined(U)[q] /\ (q # 1 => Passed(n, fields, q - 1) = Joined(U)[q - 1])
    BY <1>4, <1>5
  <1>14. q = Len(P) => Joined(U)[q] = W
    BY <1>2, <1>3
  <1> QED BY <1>3, <1>8, <1>9, <1>10, <1>12, <1>13, <1>14 DEF P, W

-----------------------------------------------------------------------------
(***************************************************************************)
(* The stream of frames.                                                   *)
(***************************************************************************)

\* The units u are those of the frames k + 1 to n one after the other, frame i with the
\* fields sets[i]; ends[i] is where frame i ends in the stream of them all.
Stream(u, n, k, sets, ends) ==
  /\ sets \in [1 .. n -> FieldSets] /\ ends \in [0 .. n -> Nat]
  /\ \A i, m \in 0 .. n : i <= m => ends[i] <= ends[m]
  /\ Len(u) = ends[n] - ends[k]
  /\ \A i \in k + 1 .. n :
       /\ ends[i] = ends[i - 1] + Len(FrameUnits(i, sets[i]))
       /\ \A j \in 1 .. Len(FrameUnits(i, sets[i])) :
            u[ends[i - 1] - ends[k] + j] = FrameUnits(i, sets[i])[j]

\* With another frame it is a stream of one more.
LEMMA StreamGrows ==
  ASSUME NEW n \in Nat, n < MaxFrames, NEW k \in 0 .. n, NEW u \in Seq(Units), NEW sets, NEW ends,
         Stream(u, n, k, sets, ends), NEW fields \in FieldSets
  PROVE  \E more, longer :
           /\ Stream(u \o FrameUnits(n + 1, fields), n + 1, k, more, longer)
           /\ \A i \in 1 .. n : more[i] = sets[i]
PROOF
  <1>0. PICK W, v : W = FrameUnits(n + 1, fields) /\ v = u \o W
    OBVIOUS
  <1> DEFINE more   == [i \in 1 .. n + 1 |-> IF i = n + 1 THEN fields ELSE sets[i]]
             longer == [i \in 0 .. n + 1 |-> IF i = n + 1 THEN ends[n] + Len(W) ELSE ends[i]]
  <1>1. W \in Seq(Units) /\ Len(W) \in Nat
    <2>1. n + 1 \in 0 .. MaxFrames /\ fields \in SUBSET Fields
      BY FrameAssumption
    <2>2. W \in Seq(Units)
      BY <1>0, <2>1, FrameFacts, Zenon
    <2> QED BY <2>2
  <1>2. /\ sets \in [1 .. n -> FieldSets] /\ ends \in [0 .. n -> Nat]
        /\ \A i, m \in 0 .. n : i <= m => ends[i] <= ends[m]
        /\ Len(u) = ends[n] - ends[k]
        /\ \A i \in k + 1 .. n :
             /\ ends[i] = ends[i - 1] + Len(FrameUnits(i, sets[i]))
             /\ \A j \in 1 .. Len(FrameUnits(i, sets[i])) :
                  u[ends[i - 1] - ends[k] + j] = FrameUnits(i, sets[i])[j]
    BY Zenon DEF Stream
  <1>3. /\ v \in Seq(Units) /\ Len(v) = Len(u) + Len(W)
        /\ \A j \in 1 .. Len(u) : v[j] = u[j]
        /\ \A j \in 1 .. Len(W) : v[Len(u) + j] = W[j]
    <2>1. v = u \o W
      BY <1>0
    <2> QED BY <1>1, <2>1, Concat
  <1>4. /\ more[n + 1] = fields /\ longer[n + 1] = ends[n] + Len(W)
        /\ \A i \in 1 .. n : more[i] = sets[i]
        /\ \A i \in 0 .. n : longer[i] = ends[i]
    OBVIOUS
  <1>5. \A i \in 0 .. n : ends[i] \in Nat /\ ends[i] <= ends[n]
    <2>1. n \in 0 .. n /\ \A i \in 0 .. n : i <= n
      OBVIOUS
    <2>2. ends \in [0 .. n -> Nat]
      BY <1>2, Zenon
    <2>3. \A i \in 0 .. n : ends[i] <= ends[n]
      BY <1>2, <2>1, Zenon
    <2> QED BY <2>2, <2>3
  <1>6. more \in [1 .. n + 1 -> FieldSets] /\ longer \in [0 .. n + 1 -> Nat]
    BY <1>1, <1>2, <1>5
  <1> HIDE DEF more, longer
  <1>7. \A i, m \in 0 .. n + 1 : i <= m => longer[i] <= longer[m]
    <2> SUFFICES ASSUME NEW i \in 0 .. n + 1, NEW m \in 0 .. n + 1, i <= m
                 PROVE  longer[i] <= longer[m]
      OBVIOUS
    <2>1. CASE m # n + 1
      <3>1. i \in 0 .. n /\ m \in 0 .. n
        BY <2>1
      <3> QED BY <1>2, <1>4, <3>1
    <2>2. CASE m = n + 1 /\ i # n + 1
      <3>1. i \in 0 .. n
        BY <2>2
      <3>2. longer[i] = ends[i] /\ longer[m] = ends[n] + Len(W) /\ ends[i] \in Nat
            /\ ends[n] \in Nat /\ ends[i] <= ends[n]
        BY <1>4, <1>5, <2>2, <3>1
      <3> QED BY <1>1, <3>2
    <2>3. CASE m = n + 1 /\ i = n + 1
      BY <1>1, <1>4, <1>5, <2>3
    <2> QED BY <2>1, <2>2, <2>3
  <1>8. Len(v) = longer[n + 1] - longer[k]
    <2>1. longer[k] = ends[k] /\ ends[k] \in Nat /\ ends[n] \in Nat
      BY <1>4, <1>5
    <2> QED BY <1>1, <1>2, <1>3, <1>4, <2>1
  <1>9. ASSUME NEW i \in k + 1 .. n + 1
        PROVE  /\ longer[i] = longer[i - 1] + Len(FrameUnits(i, more[i]))
               /\ \A j \in 1 .. Len(FrameUnits(i, more[i])) :
                    v[longer[i - 1] - longer[k] + j] = FrameUnits(i, more[i])[j]
    <2>0. longer[k] = ends[k] /\ ends[k] \in Nat /\ ends[n] \in Nat
      BY <1>4, <1>5
    <2>1. CASE i = n + 1
      <3>1. i - 1 = n /\ n \in 0 .. n
        BY <2>1
      <3>2. longer[i - 1] = ends[n] /\ longer[i] = ends[n] + Len(W) /\ FrameUnits(i, more[i]) = W
        BY <1>0, <1>4, <2>1, <3>1, Zenon
      <3>3. Len(u) = ends[n] - ends[k]
        BY <1>2, Zenon
      <3> QED BY <1>3, <2>0, <3>2, <3>3
    <2>2. CASE i # n + 1
      <3>1. i \in k + 1 .. n /\ i - 1 \in 0 .. n /\ i \in 1 .. n /\ i \in 0 .. n
        BY <2>2
      <3> DEFINE X == FrameUnits(i, sets[i])
      <3>2. /\ longer[i - 1] = ends[i - 1] /\ longer[i] = ends[i] /\ FrameUnits(i, more[i]) = X
            /\ ends[i] \in Nat /\ ends[i - 1] \in Nat /\ ends[i] <= ends[n]
        BY <1>4, <1>5, <3>1
      <3>3. ends[i] = ends[i - 1] + Len(X)
        BY <1>2, <3>1
      <3>4. \A j \in 1 .. Len(X) : u[ends[i - 1] - ends[k] + j] = X[j]
        BY <1>2, <3>1
      <3>5. ends[k] <= ends[i - 1]
        BY <1>2, <3>1
      <3> HIDE DEF X
      <3>6. Len(X) = ends[i] - ends[i - 1]
        <4>1. X \in Seq(Units)
          <5>1. i \in 0 .. MaxFrames
            BY <3>1, FrameAssumption
          <5>2. sets[i] \in FieldSets
            BY <1>2, <3>1
          <5>3. sets[i] \in SUBSET Fields
            BY <5>2, FrameAssumption
          <5> QED BY <5>1, <5>3, FrameFacts, Zenon DEF X
        <4>2. Len(X) \in Nat
          BY <4>1
        <4> QED BY <3>2, <3>3, <4>2
      <3>7. ASSUME NEW j \in 1 .. Len(X)
            PROVE  v[ends[i - 1] - ends[k] + j] = X[j]
        <4>1. ends[i - 1] - ends[k] + j \in 1 .. Len(u)
          <5>1. Len(u) = ends[n] - ends[k]
            BY <1>2, Zenon
          <5> QED BY <2>0, <3>2, <3>5, <3>6, <5>1
        <4> QED BY <1>3, <3>4, <4>1
      <3> QED BY <2>0, <3>2, <3>3, <3>7
    <2> QED BY <2>1, <2>2
  <1>10. Stream(v, n + 1, k, more, longer)
    BY <1>6, <1>7, <1>8, <1>9, Zenon DEF Stream
  <1> QED BY <1>0, <1>4, <1>10, Zenon

\* What comes first in it.
LEMMA StreamHead ==
  ASSUME NEW n \in 0 .. MaxFrames, NEW k \in 0 .. n, NEW u, NEW sets, NEW ends,
         Stream(u, n, k, sets, ends)
  PROVE  /\ k = n => Len(u) = 0
         /\ k # n => /\ k + 1 \in 0 .. MaxFrames /\ sets[k + 1] \in FieldSets
                     /\ sets[k + 1] \in SUBSET Fields
                     /\ Len(FrameUnits(k + 1, sets[k + 1])) <= Len(u)
                     /\ \A j \in 1 .. Len(FrameUnits(k + 1, sets[k + 1])) :
                          u[j] = FrameUnits(k + 1, sets[k + 1])[j]
PROOF
  <1>1. /\ sets \in [1 .. n -> FieldSets] /\ ends \in [0 .. n -> Nat]
        /\ \A i, m \in 0 .. n : i <= m => ends[i] <= ends[m]
        /\ Len(u) = ends[n] - ends[k]
        /\ \A i \in k + 1 .. n :
             /\ ends[i] = ends[i - 1] + Len(FrameUnits(i, sets[i]))
             /\ \A j \in 1 .. Len(FrameUnits(i, sets[i])) :
                  u[ends[i - 1] - ends[k] + j] = FrameUnits(i, sets[i])[j]
    BY Zenon DEF Stream
  <1>2. ends[k] \in Nat /\ ends[n] \in Nat /\ k \in 0 .. n /\ n \in 0 .. n
    BY <1>1
  <1>3. k = n => Len(u) = 0
    BY <1>1, <1>2
  <1>4. ASSUME k # n
        PROVE  /\ k + 1 \in 0 .. MaxFrames /\ sets[k + 1] \in FieldSets
               /\ sets[k + 1] \in SUBSET Fields
               /\ Len(FrameUnits(k + 1, sets[k + 1])) <= Len(u)
               /\ \A j \in 1 .. Len(FrameUnits(k + 1, sets[k + 1])) :
                    u[j] = FrameUnits(k + 1, sets[k + 1])[j]
    <2>1. k + 1 \in k + 1 .. n /\ (k + 1) - 1 = k /\ k + 1 \in 0 .. n /\ k + 1 <= n
          /\ k + 1 \in 1 .. n /\ k + 1 \in 0 .. MaxFrames
      BY <1>4, FrameAssumption
    <2>2. sets[k + 1] \in FieldSets /\ sets[k + 1] \in SUBSET Fields
      BY <1>1, <2>1, FrameAssumption
    <2> DEFINE W == FrameUnits(k + 1, sets[k + 1])
    <2>3. W \in Seq(Units)
      <3>1. k + 1 \in 0 .. MaxFrames /\ sets[k + 1] \in SUBSET Fields
        BY <2>1, <2>2, Zenon
      <3> QED BY <3>1, FrameFacts, Zenon
    <2>4. /\ ends[k + 1] = ends[k] + Len(W)
          /\ \A j \in 1 .. Len(W) : u[ends[k] - ends[k] + j] = W[j]
      BY <1>1, <2>1
    <2> HIDE DEF W
    <2>5. ends[k + 1] \in Nat /\ ends[k + 1] <= ends[n] /\ Len(W) \in Nat
      BY <1>1, <1>2, <2>1, <2>3
    <2>6. Len(W) <= Len(u)
      BY <1>1, <1>2, <2>4, <2>5
    <2>7. \A j \in 1 .. Len(W) : u[j] = W[j]
      BY <1>2, <2>4
    <2> QED BY <2>1, <2>2, <2>6, <2>7 DEF W
  <1> QED BY <1>3, <1>4

\* Without its first frame it is a stream of one less.
LEMMA StreamShrinks ==
  ASSUME NEW n \in 0 .. MaxFrames, NEW k \in 0 .. n, k # n, NEW v \in Seq(Units), NEW sets, NEW ends,
         NEW W, W = FrameUnits(k + 1, sets[k + 1]), NEW u, u = W \o v, Stream(u, n, k, sets, ends)
  PROVE  Stream(v, n, k + 1, sets, ends)
PROOF
  <1>1. /\ sets \in [1 .. n -> FieldSets] /\ ends \in [0 .. n -> Nat]
        /\ \A i, m \in 0 .. n : i <= m => ends[i] <= ends[m]
        /\ Len(u) = ends[n] - ends[k]
        /\ \A i \in k + 1 .. n :
             /\ ends[i] = ends[i - 1] + Len(FrameUnits(i, sets[i]))
             /\ \A j \in 1 .. Len(FrameUnits(i, sets[i])) :
                  u[ends[i - 1] - ends[k] + j] = FrameUnits(i, sets[i])[j]
    BY Zenon DEF Stream
  <1>2. k + 1 \in k + 1 .. n /\ (k + 1) - 1 = k /\ k + 1 \in 0 .. MaxFrames /\ k + 1 \in 1 .. n
        /\ k + 1 \in 0 .. n
    BY FrameAssumption
  <1>3. sets[k + 1] \in SUBSET Fields
    BY <1>1, <1>2, FrameAssumption
  <1>4. W \in Seq(Units)
    BY <1>2, <1>3, FrameFacts, Zenon
  <1>5. ends[k + 1] = ends[k] + Len(W)
    BY <1>1, <1>2
  <1>6. Len(u) = Len(W) + Len(v) /\ \A j \in 1 .. Len(v) : u[Len(W) + j] = v[j]
    BY <1>4, Concat
  <1>7. /\ Len(W) \in Nat /\ Len(v) \in Nat /\ ends[k] \in Nat /\ ends[n] \in Nat
        /\ ends[k + 1] \in Nat
    BY <1>1, <1>2, <1>4
  <1>8. Len(v) = ends[n] - ends[k + 1]
    BY <1>1, <1>5, <1>6, <1>7
  <1>9. ASSUME NEW i \in (k + 1) + 1 .. n
        PROVE  /\ ends[i] = ends[i - 1] + Len(FrameUnits(i, sets[i]))
               /\ \A j \in 1 .. Len(FrameUnits(i, sets[i])) :
                    v[ends[i - 1] - ends[k + 1] + j] = FrameUnits(i, sets[i])[j]
    <2>1. i \in k + 1 .. n /\ i - 1 \in 0 .. n /\ i \in 0 .. n /\ k + 1 <= i - 1 /\ i <= n
          /\ i \in 1 .. n /\ i \in 0 .. MaxFrames
      BY FrameAssumption
    <2> DEFINE X == FrameUnits(i, sets[i])
    <2>2. /\ ends[i] = ends[i - 1] + Len(X)
          /\ \A j \in 1 .. Len(X) : u[ends[i - 1] - ends[k] + j] = X[j]
      BY <1>1, <2>1
    <2>3. X \in Seq(Units)
      <3>1. sets[i] \in SUBSET Fields
        BY <1>1, <2>1, FrameAssumption
      <3> QED BY <2>1, <3>1, FrameFacts, Zenon
    <2> HIDE DEF X
    <2>4. /\ ends[k + 1] <= ends[i - 1] /\ ends[i] <= ends[n]
          /\ ends[i] \in Nat /\ ends[i - 1] \in Nat /\ Len(X) \in Nat
      BY <1>1, <1>2, <2>1, <2>3
    <2>5. ASSUME NEW j \in 1 .. Len(X) PROVE v[ends[i - 1] - ends[k + 1] + j] = X[j]
      <3> DEFINE p == ends[i - 1] - ends[k + 1] + j
      <3>1. p \in 1 .. Len(v) /\ Len(W) + p = ends[i - 1] - ends[k] + j
        <4>1. ends[i] = ends[i - 1] + Len(X)
          BY <2>2, Zenon
        <4>2. ends[k + 1] = ends[k] + Len(W)
          BY <1>5, Zenon
        <4> DEFINE e == ends[i]
                   d == ends[i - 1]
                   b == ends[k + 1]
                   a == ends[k]
                   z == ends[n]
                   x == Len(X)
        <4>3. /\ e = d + x /\ b = a + Len(W) /\ b <= d /\ e <= z /\ Len(v) = z - b /\ j \in 1 .. x
              /\ e \in Nat /\ d \in Nat /\ b \in Nat /\ a \in Nat /\ z \in Nat /\ x \in Nat
              /\ Len(W) \in Nat
          BY <1>7, <1>8, <2>4, <4>1, <4>2
        <4> HIDE DEF e, d, b, a, z, x
        <4>4. d - b + j \in 1 .. Len(v) /\ Len(W) + (d - b + j) = d - a + j
          BY <4>3
        <4> QED BY <4>4 DEF d, b, a
      <3>2. u[Len(W) + p] = X[j]
        BY <2>2, <3>1
      <3> HIDE DEF p
      <3>3. v[p] = X[j]
        BY <1>6, <3>1, <3>2
      <3> QED BY <3>3 DEF p
    <2> QED BY <2>2, <2>5 DEF X
  <1> QED BY <1>1, <1>8, <1>9, Zenon DEF Stream

-----------------------------------------------------------------------------
(***************************************************************************)
(* Types.                                                                  *)
(***************************************************************************)

SensorTyped ==
  /\ fifo \in Seq(Units) /\ Len(fifo) <= FifoSize /\ sending \in Seq(Units)
  /\ frames \in 0 .. MaxFrames

BusTyped ==
  /\ bank \in Banks /\ lastBank \in Banks /\ owner \in {"reader", "main", Nobody}
  /\ deviceMtx \in {"reader", "main", Nobody} /\ wireLock \in {"reader", "main", Nobody}

ReadTyped ==
  /\ readPc \in ReadPcs /\ want \in {"high", "low", "part"}
  /\ todo \in Seq(Parts) /\ got \in Seq(Units)

MainTyped ==
  /\ mainPc \in MainPcs /\ mainOp \in {"none"} \cup {c.op : c \in Calls}
  /\ mainBanks \in Seq(Banks \cup {Other})

FlagsTyped ==
  /\ counted \in BOOLEAN /\ readyFlag \in BOOLEAN /\ errorFlag \in BOOLEAN
  /\ stopFlag \in BOOLEAN /\ framingLost \in BOOLEAN /\ clashed \in BOOLEAN

DataTyped == fifoData \in [Fields -> 0 .. MaxFrames]

\* A part is asked for when fifo_count has it; the high byte of the count is kept until
\* the low one is read, and is no more than that of a full FIFO.
Asked ==
  readPc \in {"open", "bank", "begin", "transfer"} /\ want = "part" => todo # <<>> /\ Enough

CountTyped ==
  /\ high \in 0 .. FifoSize \div Radix /\ fifoCount \in 0 .. FifoSize + Radix
  /\ high # 0 => want = "low" /\ readPc \in {"begin", "transfer"}
  /\ Asked

TypeInv ==
  SensorTyped /\ BusTyped /\ ReadTyped /\ MainTyped /\ FlagsTyped /\ DataTyped /\ CountTyped

\* The bytes of a count.
LEMMA Bytes ==
  ASSUME NEW a \in Nat, NEW b \in Nat, a <= b, NEW r \in Nat \ {0}
  PROVE  /\ a \div r \in 0 .. b \div r /\ a % r \in 0 .. r - 1
         /\ \A h \in 0 .. a \div r : h * r + (a % r) \in 0 .. a
         /\ \A h \in 0 .. a \div r : \A l \in 0 .. r - 1 : h * r + l \in 0 .. a + r
PROOF
  <1> DEFINE p == a \div r
             q == b \div r
             m == a % r
             l == b % r
  <1>1. /\ p \in Int /\ q \in Int /\ m \in 0 .. r - 1 /\ l \in 0 .. r - 1
        /\ a = r * p + m /\ b = r * q + l
    OBVIOUS
  <1> HIDE DEF p, q, m, l
  <1>2. p >= 0
    <2> SUFFICES ASSUME p <= -1 PROVE FALSE
      BY <1>1
    <2>1. r * p <= r * (-1)
      BY <1>1
    <2> QED BY <1>1, <2>1
  <1>3. p <= q
    <2> SUFFICES ASSUME q + 1 <= p PROVE FALSE
      BY <1>1
    <2>1. r * (q + 1) <= r * p
      BY <1>1
    <2>2. r * (q + 1) = r * q + r
      BY <1>1
    <2> QED BY <1>1, <2>1, <2>2
  <1>4. ASSUME NEW h \in 0 .. p PROVE h * r \in Nat /\ h * r <= r * p
    BY <1>1, <1>2
  <1>5. \A h \in 0 .. p : h * r + m \in 0 .. a
    BY <1>1, <1>2, <1>4
  <1>6. \A h \in 0 .. p : \A x \in 0 .. r - 1 : h * r + x \in 0 .. a + r
    BY <1>1, <1>2, <1>4
  <1>7. p \in 0 .. q
    BY <1>1, <1>2, <1>3
  <1> QED BY <1>1, <1>5, <1>6, <1>7, Zenon DEF p, q, m

\* The steps leave alone what they are not about.
LEMMA LeftAlone ==
  /\ Sensor => UNCHANGED <<imuBus, imuLocks, imuRead, imuMain, imuFlags, fifoData>>
  /\ Reader => /\ ReadTransfer \/ UNCHANGED imuSensor
               /\ Copy \/ UNCHANGED fifoData
               /\ UNCHANGED imuMain
  /\ MainThread => UNCHANGED <<imuSensor, imuCall, fifoData>> /\ (Begin \/ UNCHANGED readPc)
PROOF
  <1>1. Sensor => UNCHANGED <<imuBus, imuLocks, imuRead, imuMain, imuFlags, fifoData>>
    BY Zenon DEF Sensor, FrameBegins, SensorWrites
  <1>2. Reader => ReadTransfer \/ UNCHANGED imuSensor
    BY Zenon DEF Reader, InitLock, InitBegin, InitEnd, Loop, ReadCall, ReadNext, ReadOpen, ReadBank,
                 ReadBegin, ReadFails, Copy
  <1>3. Reader => Copy \/ UNCHANGED fifoData
    BY Zenon DEF Reader, InitLock, InitBegin, InitEnd, Loop, ReadCall, ReadNext, ReadOpen, ReadBank,
                 ReadBegin, ReadFails, ReadTransfer
  <1>4. Reader => UNCHANGED imuMain
    BY Zenon DEF Reader, InitLock, InitBegin, InitEnd, Loop, ReadCall, ReadNext, ReadOpen, ReadBank,
                 ReadBegin, ReadFails, ReadTransfer, Copy
  <1>5. MainThread => UNCHANGED <<imuSensor, imuCall, fifoData>> /\ (Begin \/ UNCHANGED readPc)
    BY Zenon DEF MainThread, Begin, Call, MainLock, MainOpen, MainBank, MainBegin, MainTransfer,
                 End, Join, imuRead
  <1> QED BY <1>1, <1>2, <1>3, <1>4, <1>5

\* The flags.
LEMMA NextFlags ==
  ASSUME FlagsTyped, ImuNext
  PROVE  FlagsTyped'
PROOF
  <1>1. clashed' \in BOOLEAN
    BY Zenon DEF ImuNext, FlagsTyped
  <1>2. framingLost' \in BOOLEAN
    BY Zenon DEF ImuNext, FlagsTyped, Sensor, FrameBegins, SensorWrites, Reader, InitLock,
                 InitBegin, InitEnd, Loop, ReadCall, ReadNext, ReadOpen, ReadBank, BankWritten,
                 ReadBegin, ReadFails, ReadTransfer, Copy, MainThread, Begin, Call, MainLock,
                 MainOpen, MainBank, MainBegin, MainTransfer, End, Join
  <1>3. stopFlag' \in BOOLEAN /\ readyFlag' \in BOOLEAN /\ errorFlag' \in BOOLEAN
    BY Zenon DEF ImuNext, FlagsTyped, Sensor, FrameBegins, SensorWrites, Reader, InitLock,
                 InitBegin, InitEnd, Loop, ReadCall, ReadNext, ReadOpen, ReadBank, BankWritten,
                 ReadBegin, ReadFails, ReadTransfer, Copy, MainThread, Begin, Call, MainLock,
                 MainOpen, MainBank, MainBegin, MainTransfer, End, Join, imuFlags
  <1>4. counted' \in BOOLEAN
    BY Zenon DEF ImuNext, FlagsTyped, Sensor, FrameBegins, SensorWrites, Reader, InitLock,
                 InitBegin, InitEnd, Loop, ReadCall, ReadNext, ReadReturn, ReadOpen, ReadBank,
                 ReadBegin, ReadFails, ReadTransfer, ReadCount, ReadPart, Copy, MainThread, Begin,
                 Call, MainLock, MainOpen, MainBank, MainBegin, MainTransfer, End, Join, imuRead,
                 imuCall
  <1> QED BY <1>1, <1>2, <1>3, <1>4, Zenon DEF FlagsTyped

\* What the sensor holds.
LEMMA NextSensor ==
  ASSUME SensorTyped, ReadTyped, CountTyped, ImuNext
  PROVE  SensorTyped'
PROOF
  <1>0. FifoSize \in Nat \ {0} /\ MaxFrames \in Nat
    BY FrameAssumption
  <1>1. CASE FrameBegins
    <2>1. /\ frames < MaxFrames /\ frames' = frames + 1 /\ fifo' = fifo
          /\ \E fields \in FieldSets : sending' = FrameUnits(frames', fields)
      BY <1>1, Zenon DEF FrameBegins
    <2>2. PICK fields \in FieldSets : sending' = FrameUnits(frames', fields)
      BY <2>1
    <2>3. frames' \in 0 .. MaxFrames /\ fields \in SUBSET Fields
      BY <1>0, <2>1, FrameAssumption DEF SensorTyped
    <2>4. sending' \in Seq(Units)
      BY <2>2, <2>3, FrameFacts, Zenon
    <2> QED BY <2>1, <2>3, <2>4 DEF SensorTyped
  <1>2. CASE SensorWrites
    <2>1. /\ sending # <<>> /\ sending' = Tail(sending) /\ frames' = frames
          /\ \/ Len(fifo) < FifoSize /\ fifo' = Append(fifo, Head(sending))
             \/ ~(Len(fifo) < FifoSize) /\ fifo' = Append(Tail(fifo), Head(sending))
      BY <1>2, Zenon DEF SensorWrites
    <2>2. sending' \in Seq(Units) /\ Head(sending) \in Units
      BY <2>1 DEF SensorTyped
    <2>3. CASE Len(fifo) < FifoSize /\ fifo' = Append(fifo, Head(sending))
      BY <1>0, <2>1, <2>2, <2>3 DEF SensorTyped
    <2>4. CASE ~(Len(fifo) < FifoSize) /\ fifo' = Append(Tail(fifo), Head(sending))
      <3>1. Len(fifo) = FifoSize /\ fifo \in Seq(Units) /\ fifo # <<>>
        BY <1>0, <2>4 DEF SensorTyped
      <3>2. Tail(fifo) \in Seq(Units) /\ Len(Tail(fifo)) = FifoSize - 1
        BY <3>1
      <3> QED BY <1>0, <2>1, <2>2, <2>4, <3>2 DEF SensorTyped
    <2> QED BY <2>1, <2>3, <2>4
  <1>3. CASE ReadTransfer /\ ReadCount
    BY <1>3 DEF SensorTyped, ReadCount, imuSensor
  <1>4. CASE ReadTransfer /\ ReadPart
    <2> DEFINE n     == UnitsOf[Head(todo)]
               taken == IF Torn THEN 0 ELSE IF n < Len(fifo) THEN n ELSE Len(fifo)
    <2>1. /\ frames' = frames /\ sending' = sending
          /\ fifo' = IF Torn THEN fifo ELSE SubSeq(fifo, taken + 1, Len(fifo))
          /\ want = "part" /\ readPc = "transfer"
      BY <1>4, Zenon DEF ReadPart, ReadTransfer
    <2>2. n \in Nat
      <3>1. todo \in Seq(Parts) /\ todo # <<>>
        BY <2>1 DEF ReadTyped, CountTyped, Asked
      <3>2. Head(todo) \in Parts
        BY <3>1
      <3> QED BY <3>2, FrameAssumption
    <2>3. fifo \in Seq(Units) /\ Len(fifo) <= FifoSize /\ Len(fifo) \in Nat
      BY DEF SensorTyped
    <2> HIDE DEF n
    <2>4. taken \in 0 .. Len(fifo)
      BY <2>2, <2>3
    <2> HIDE DEF taken
    <2>5. /\ SubSeq(fifo, taken + 1, Len(fifo)) \in Seq(Units)
          /\ Len(SubSeq(fifo, taken + 1, Len(fifo))) = Len(fifo) - taken
      BY <2>3, <2>4
    <2>6. fifo' \in Seq(Units) /\ Len(fifo') <= FifoSize
      BY <1>0, <2>1, <2>3, <2>4, <2>5
    <2> QED BY <2>1, <2>6 DEF SensorTyped
  <1>5. CASE UNCHANGED imuSensor
    BY <1>5 DEF SensorTyped, imuSensor
  <1>6. FrameBegins \/ SensorWrites \/ ReadTransfer \/ UNCHANGED imuSensor
    BY LeftAlone, Zenon DEF ImuNext, Sensor
  <1>7. ReadTransfer => ReadCount \/ ReadPart
    BY Zenon DEF ReadTransfer
  <1> QED BY <1>1, <1>2, <1>3, <1>4, <1>5, <1>6, <1>7

\* The locks, the banks and Wire's transaction.
LEMMA NextBusTyped ==
  ASSUME BusTyped, MainTyped, MainAsks, ImuNext
  PROVE  BusTyped'
PROOF
  <1>1. CASE Sensor
    <2>1. UNCHANGED <<imuBus, imuLocks>>
      BY <1>1, LeftAlone, Zenon
    <2> QED BY <2>1 DEF BusTyped, imuBus, imuLocks
  <1>2. CASE Reader
    <2>1. owner' \in {owner, "reader", Nobody} /\ deviceMtx' \in {deviceMtx, "reader", Nobody}
          /\ wireLock' \in {wireLock, "reader", Nobody}
      BY <1>2 DEF Reader, InitLock, InitBegin, InitEnd, Loop, ReadCall, ReadNext, ReadReturn,
                  ReadOpen, ReadBank, BankWritten, ReadBegin, ReadFails, ReadTransfer, Copy,
                  imuBus, imuLocks
    <2>2. bank' \in {bank, 0} /\ lastBank' \in {lastBank, 0}
      BY <1>2 DEF Reader, InitLock, InitBegin, InitEnd, Loop, ReadCall, ReadNext, ReadReturn,
                  ReadOpen, ReadBank, BankWritten, ReadBegin, ReadFails, ReadTransfer, Copy,
                  imuBus, imuLocks
    <2> QED BY <2>1, <2>2 DEF BusTyped, Banks
  <1>3. CASE MainThread
    <2>1. owner' \in {owner, "main", Nobody} /\ deviceMtx' \in {deviceMtx, "main", Nobody}
          /\ wireLock' \in {wireLock, "main", Nobody}
      <3>1. CASE MainLock
        BY <3>1 DEF MainLock, MainAsks, LockOf, imuBus, imuLocks
      <3>2. CASE MainThread /\ ~MainLock
        BY <3>2 DEF MainThread, Begin, Call, MainOpen, MainBank, BankWritten, MainBegin,
                    MainTransfer, End, Join, imuBus, imuLocks
      <3> QED BY <1>3, <3>1, <3>2
    <2>2. \/ bank' = bank /\ lastBank' = lastBank
          \/ MainOpen /\ bank' = bank /\ lastBank' = Head(mainBanks) /\ lastBank' # Other
          \/ MainBank /\ bank' = Head(mainBanks) /\ lastBank' = lastBank
      BY <1>3 DEF MainThread, Begin, Call, MainLock, MainOpen, MainBank, BankWritten, MainBegin,
                  MainTransfer, End, Join, imuBus, imuLocks
    <2>3. ASSUME MainOpen, lastBank' = Head(mainBanks), lastBank' # Other PROVE lastBank' \in Banks
      <3>1. mainBanks # <<>>
        BY <2>3 DEF MainAsks, OnBus, MainOpen
      <3>2. Head(mainBanks) \in Banks \cup {Other}
        BY <3>1 DEF MainTyped
      <3> QED BY <2>3, <3>2
    <2>4. ASSUME MainBank, bank' = Head(mainBanks) PROVE bank' = lastBank
      BY <2>4 DEF MainAsks, MainBank
    <2> QED BY <2>1, <2>2, <2>3, <2>4 DEF BusTyped
  <1> QED BY <1>1, <1>2, <1>3, Zenon DEF ImuNext

\* The main thread.
LEMMA NextMainTyped ==
  ASSUME MainTyped, MainAsks, ImuNext
  PROVE  MainTyped'
PROOF
  <1>1. CASE Sensor \/ Reader
    <2>1. UNCHANGED imuMain
      BY <1>1, LeftAlone, Zenon
    <2> QED BY <2>1 DEF MainTyped, imuMain
  <1>2. CASE Call
    <2>1. PICK c \in Calls : mainOp' = c.op /\ mainBanks' = c.banks
      BY <1>2, Zenon DEF Call
    <2>2. mainPc' = "lock"
      BY <1>2, Zenon DEF Call
    <2>3. \A d \in Calls : d.banks \in Seq(Banks \cup {Other})
      <3>1. PICK one, two, three : one = <<Other>> /\ two = <<0, 2>> /\ three = <<0, 2, 3>>
        OBVIOUS
      <3>2. Calls = {[op |-> "temp",     banks |-> one], [op |-> "tempInit", banks |-> one],
                     [op |-> "agmt",     banks |-> two], [op |-> "dumpRegs", banks |-> three]}
        BY <3>1 DEF Calls
      <3>3. one \in Seq(Banks \cup {Other})
        BY <3>1 DEF Banks
      <3>4. two \in Seq(Banks \cup {Other})
        BY <3>1 DEF Banks
      <3>5. three \in Seq(Banks \cup {Other})
        BY <3>1 DEF Banks
      <3> QED BY <3>2, <3>3, <3>4, <3>5
    <2>4. mainOp' \in {d.op : d \in Calls}
      BY <2>1, Zenon
    <2> QED BY <2>1, <2>2, <2>3, <2>4 DEF MainTyped, MainPcs
  <1>3. CASE MainTransfer
    <2>1. /\ mainPc = "transfer"
          /\ mainBanks' = Tail(mainBanks) \/ mainBanks' = <<>>
          /\ \/ mainPc' = "open" /\ mainOp' = mainOp
             \/ mainPc' = "idle" /\ mainOp' = "none"
      BY <1>3, Zenon DEF MainTransfer
    <2>2. mainBanks # <<>>
      BY <2>1 DEF MainAsks, OnBus
    <2>3. mainBanks' \in Seq(Banks \cup {Other})
      <3>1. mainBanks \in Seq(Banks \cup {Other})
        BY Zenon DEF MainTyped
      <3> DEFINE S == Banks \cup {Other}
      <3> HIDE DEF S
      <3>2. mainBanks \in Seq(S)
        BY <3>1 DEF S
      <3>3. Tail(mainBanks) \in Seq(S) /\ <<>> \in Seq(S)
        BY <2>2, <3>2
      <3> QED BY <2>1, <3>3 DEF S
    <2> QED BY <2>1, <2>3 DEF MainTyped, MainPcs
  <1>4. CASE Begin \/ MainLock \/ MainOpen \/ MainBank \/ MainBegin \/ End \/ Join
    <2>1. UNCHANGED <<mainOp, mainBanks>> /\ mainPc' \in {"idle", "open", "transfer", "bank",
                                                          "begin", "panicked", "join", "asleep"}
      BY <1>4 DEF Begin, MainLock, MainOpen, MainBank, MainBegin, End, Join
    <2> QED BY <2>1 DEF MainTyped, MainPcs
  <1> QED BY <1>1, <1>2, <1>3, <1>4, Zenon DEF ImuNext, MainThread

\* What the reader takes for a header names fields.
LEMMA NamedFields ==
  ASSUME NEW u \in Units
  PROVE  NamedBy(u) \subseteq SUBSET Fields
PROOF
  BY FrameAssumption DEF NamedBy, Units

\* A part is read: as many units as it has, though they be garbage.
LEMMA PartTyped ==
  ASSUME SensorTyped, ReadTyped, CountTyped, ReadTransfer, ReadPart
  PROVE  todo' \in Seq(Parts) /\ got' \in Seq(Units) /\ fifoCount' \in 0 .. FifoSize + Radix
PROOF
  <1> DEFINE n     == UnitsOf[Head(todo)]
             taken == IF Torn THEN 0 ELSE IF n < Len(fifo) THEN n ELSE Len(fifo)
             first == SubSeq(fifo, 1, taken)
             rest  == [i \in 1 .. n - taken |-> Garbage]
             units == first \o rest
  <1>1. /\ want = "part" /\ readPc = "transfer"
        /\ got' = got \o units /\ fifoCount' = fifoCount - n
        /\ \/ todo' = Tail(todo)
           \/ \E fields \in NamedBy(units[1]) : todo' = Following(fields)
    BY Zenon DEF ReadPart, ReadTransfer
  <1>2. todo \in Seq(Parts) /\ todo # <<>> /\ fifoCount >= n
    BY <1>1 DEF ReadTyped, CountTyped, Asked, Enough
  <1>3. n \in Nat \ {0}
    <2>1. Head(todo) \in Parts
      BY <1>2
    <2> QED BY <2>1, FrameAssumption
  <1>4. fifo \in Seq(Units) /\ Len(fifo) \in Nat
    BY DEF SensorTyped
  <1> HIDE DEF n
  <1>5. taken \in 0 .. Len(fifo) /\ taken <= n
    BY <1>3, <1>4
  <1> HIDE DEF taken
  <1>6. first \in Seq(Units) /\ Len(first) = taken
    BY <1>4, <1>5
  <1>7. rest \in Seq(Units) /\ Len(rest) = n - taken
    <2>1. Garbage \in Units
      <3>1. MaxFrames \in Nat
        BY FrameAssumption
      <3> QED BY <3>1 DEF Garbage, Unit, Units, Parts
    <2> QED BY <1>3, <1>5, <2>1
  <1> HIDE DEF first, rest
  <1>8. units \in Seq(Units) /\ Len(units) = n
    BY <1>3, <1>5, <1>6, <1>7
  <1> HIDE DEF units
  <1>9. got' \in Seq(Units)
    BY <1>1, <1>8 DEF ReadTyped
  <1>10. todo' \in Seq(Parts)
    <2>1. CASE todo' = Tail(todo)
      BY <1>2, <2>1
    <2>2. CASE \E fields \in NamedBy(units[1]) : todo' = Following(fields)
      <3>1. units[1] \in Units
        BY <1>3, <1>8
      <3>2. PICK fields \in SUBSET Fields : todo' = Following(fields)
        BY <2>2, <3>1, NamedFields
      <3> QED BY <3>2, AllParts, Zenon
    <2> QED BY <1>1, <2>1, <2>2
  <1>11. fifoCount' \in 0 .. FifoSize + Radix
    BY <1>1, <1>2, <1>3, FrameAssumption DEF CountTyped
  <1> QED BY <1>9, <1>10, <1>11

\* The call, but for the count.
LEMMA NextRead ==
  ASSUME SensorTyped, ReadTyped, CountTyped, ReaderAsks, ImuNext
  PROVE  ReadTyped'
PROOF
  <1>1. CASE Sensor \/ (MainThread /\ ~Begin)
    <2>1. UNCHANGED <<readPc, imuCall>>
      BY <1>1, LeftAlone, Zenon DEF imuRead
    <2> QED BY <2>1 DEF ReadTyped, imuCall
  <1>2. CASE Begin
    <2>1. UNCHANGED imuCall /\ readPc' \in {"absent", "initLock"}
      BY <1>2, Zenon DEF Begin
    <2> QED BY <2>1 DEF ReadTyped, ReadPcs, imuCall
  <1>3. CASE ReadTransfer /\ ReadPart
    <2>1. readPc' = "next" /\ want' = want
      BY <1>3, Zenon DEF ReadPart
    <2> QED BY <1>3, <2>1, PartTyped DEF ReadTyped, ReadPcs
  <1>4. CASE (Reader /\ ~ReadTransfer) \/ (ReadTransfer /\ ReadCount)
    <2>1. readPc' \in ReadPcs /\ want' \in {"high", "low", "part"}
      BY <1>4 DEF Reader, InitLock, InitBegin, InitEnd, Loop, ReadCall, ReadNext, ReadReturn,
                  ReadOpen, ReadBank, ReadBegin, ReadFails, ReadCount, Copy, imuCall,
                  ReadTyped, ReadPcs
    <2>2. todo' \in {todo, <<>>, <<"header">>} /\ got' \in {got, <<>>}
      BY <1>4, Zenon DEF Reader, InitLock, InitBegin, InitEnd, Loop, ReadCall, ReadNext, ReadReturn,
                  ReadOpen, ReadBank, ReadBegin, ReadFails, ReadCount, Copy, imuCall
    <2>3. "header" \in Parts
      BY DEF Parts
    <2>4. <<>> \in Seq(Parts) /\ <<"header">> \in Seq(Parts) /\ <<>> \in Seq(Units)
      BY <2>3
    <2>5. todo' \in Seq(Parts) /\ got' \in Seq(Units)
      BY <2>2, <2>4, Zenon DEF ReadTyped
    <2> QED BY <2>1, <2>5, Zenon DEF ReadTyped
  <1>5. Reader => ReadTransfer \/ (Reader /\ ~ReadTransfer)
    BY Zenon
  <1>6. ReadTransfer => (ReadTransfer /\ ReadPart) \/ (ReadTransfer /\ ReadCount)
    BY Zenon DEF ReadTransfer
  <1> QED BY <1>1, <1>2, <1>3, <1>4, <1>5, <1>6, Zenon DEF ImuNext

\* The count: its bytes, and what is asked for with it.
LEMMA NextCount ==
  ASSUME SensorTyped, ReadTyped, CountTyped, ReaderAsks, ImuNext
  PROVE  CountTyped'
PROOF
  <1>0. /\ FifoSize \in Nat \ {0} /\ Radix \in Nat \ {0} /\ 0 \in 0 .. FifoSize \div Radix
        /\ 0 \in 0 .. FifoSize + Radix
    <2>1. FifoSize \in Nat \ {0} /\ Radix \in Nat \ {0}
      BY FrameAssumption
    <2>2. FifoSize \div Radix \in 0 .. FifoSize \div Radix
      BY <2>1, Bytes
    <2> QED BY <2>1, <2>2
  <1> USE DEF CountTyped, Asked, Enough
  <1>1. CASE Sensor \/ (MainThread /\ ~Begin)
    <2>1. UNCHANGED <<readPc, imuCall>>
      BY <1>1, LeftAlone, Zenon DEF imuRead
    <2> QED BY <2>1 DEF imuCall
  <1>2. CASE Begin
    <2>1. readPc = "absent" /\ UNCHANGED imuCall /\ readPc' \in {"absent", "initLock"}
      BY <1>2 DEF Begin, ReaderAsks
    <2> QED BY <2>1 DEF imuCall
  <1>3. CASE ReadTransfer /\ ReadPart
    <2>1. readPc = "transfer" /\ want = "part" /\ high' = high /\ readPc' = "next"
      BY <1>3, Zenon DEF ReadPart, ReadTransfer
    <2>2. fifoCount' \in 0 .. FifoSize + Radix
      BY <1>3, PartTyped
    <2> QED BY <2>1, <2>2
  <1>4. CASE ReadTransfer /\ ReadCount
    <2>1. /\ readPc = "transfer" /\ want' = "low" /\ readPc' \in {"begin", "next"}
          /\ want = "high" => readPc' = "begin"
          /\ want = "low" => readPc' = "next"
      BY <1>4, Zenon DEF ReadCount, ReadTransfer
    <2>2. /\ Len(fifo) \in Nat /\ Len(fifo) <= FifoSize
      BY DEF SensorTyped
    <2>3. /\ Len(fifo) \div Radix \in 0 .. FifoSize \div Radix /\ Len(fifo) % Radix \in 0 .. Radix - 1
          /\ \A h \in 0 .. FifoSize \div Radix : \A l \in 0 .. Radix - 1 :
               h * Radix + l \in 0 .. FifoSize + Radix
      <3>1. /\ Len(fifo) \div Radix \in 0 .. FifoSize \div Radix
            /\ Len(fifo) % Radix \in 0 .. Radix - 1
        BY <1>0, <2>2, Bytes
      <3>2. FifoSize \in Nat /\ FifoSize <= FifoSize
        BY <1>0
      <3>3. \A h \in 0 .. FifoSize \div Radix : \A l \in 0 .. Radix - 1 :
               h * Radix + l \in 0 .. FifoSize + Radix
        BY <1>0, <3>2, Bytes, Zenon
      <3> QED BY <3>1, <3>3
    <2>4. CASE want = "high"
      <3>1. /\ high' = Len(fifo) \div Radix \/ high' \in 0 .. FifoSize \div Radix
            /\ fifoCount' = fifoCount
        BY <1>4, <2>4 DEF ReadCount
      <3> QED BY <2>1, <2>3, <2>4, <3>1
    <2>5. CASE want = "low"
      <3>1. /\ high' = 0
            /\ \E l \in 0 .. Radix - 1 : fifoCount' = high * Radix + l
        BY <1>4, <2>3, <2>5 DEF ReadCount
      <3> QED BY <1>0, <2>1, <2>3, <2>5, <3>1
    <2> QED BY <1>4, <2>4, <2>5, Zenon DEF ReadCount
  <1>5. CASE ReadNext
    <2>0. readPc = "next" /\ high = 0
      BY <1>5 DEF ReadNext
    <2>1. \/ readPc' \in {"copy", "loop"} /\ high' = 0 /\ fifoCount' = 0
          \/ readPc' = "open" /\ want' \in {"part", "high"} /\ UNCHANGED <<high, fifoCount, todo>>
             /\ (want' = "part" => todo # <<>> /\ Enough)
      BY <1>5 DEF ReadNext, ReadReturn
    <2> QED BY <1>0, <2>0, <2>1
  <1>6. CASE ReadCall
    <2>1. readPc = "wire" /\ readPc' = "next" /\ UNCHANGED <<want, high, fifoCount>>
      BY <1>6, Zenon DEF ReadCall
    <2> QED BY <2>1
  <1>7. CASE ReadFails
    <2>1. readPc' = "loop" /\ high' = 0 /\ fifoCount' = 0
      BY <1>7, Zenon DEF ReadFails, ReadReturn
    <2> QED BY <1>0, <2>1
  <1>8. CASE ReadOpen \/ ReadBank \/ ReadBegin
    <2>1. /\ UNCHANGED imuCall
          /\ \/ readPc = "open" /\ readPc' \in {"transfer", "bank"}
             \/ readPc = "bank" /\ readPc' = "begin"
             \/ readPc = "begin" /\ readPc' = "transfer"
      BY <1>8, Zenon DEF ReadOpen, ReadBank, ReadBegin
    <2> QED BY <2>1 DEF imuCall
  <1>9. CASE InitLock \/ InitBegin \/ InitEnd \/ Loop \/ Copy
    <2>1. /\ UNCHANGED <<want, todo, high, fifoCount>>
          /\ readPc \in {"initLock", "init", "initTransfer", "loop", "copy"}
          /\ readPc' \in {"init", "initTransfer", "loop", "exited", "wire"}
      BY <1>9 DEF InitLock, InitBegin, InitEnd, Loop, Copy, imuCall
    <2> QED BY <2>1
  <1>10. ReadTransfer => (ReadTransfer /\ ReadPart) \/ (ReadTransfer /\ ReadCount)
    BY Zenon DEF ReadTransfer
  <1> QED BY <1>1, <1>2, <1>3, <1>4, <1>5, <1>6, <1>7, <1>8, <1>9, <1>10, Zenon DEF ImuNext, Reader

\* What is copied is of frames there have been.
LEMMA NextData ==
  ASSUME DataTyped, ReadTyped, ImuNext
  PROVE  DataTyped'
PROOF
  <1>1. CASE Copy
    <2> DEFINE S(f) == {i \in 1 .. Len(got) : got[i].part = f}
    <2>1. fifoData' = [f \in Fields |->
            IF f \in got[1].fields /\ S(f) # {}
            THEN got[CHOOSE i \in S(f) : \A j \in S(f) : i <= j].frame ELSE fifoData[f]]
      BY <1>1, Zenon DEF Copy
    <2>2. ASSUME NEW f \in Fields, S(f) # {}
          PROVE  got[CHOOSE i \in S(f) : \A j \in S(f) : i <= j].frame \in 0 .. MaxFrames
      <3>0. S(f) \subseteq Nat
        OBVIOUS
      <3> HIDE DEF S
      <3>1. PICK i \in S(f) : \A j \in S(f) : i <= j
        BY <2>2, <3>0, Least
      <3>2. (CHOOSE m \in S(f) : \A j \in S(f) : m <= j) \in S(f)
        BY <3>1
      <3> DEFINE m == CHOOSE x \in S(f) : \A j \in S(f) : x <= j
      <3>3. m \in S(f)
        BY <3>2
      <3> HIDE DEF m
      <3>4. m \in 1 .. Len(got)
        BY <3>3 DEF S
      <3>5. got[m] \in Units
        BY <3>4 DEF ReadTyped
      <3>6. got[m].frame \in 0 .. MaxFrames
        BY <3>5 DEF Units
      <3> QED BY <3>6 DEF m
    <2> HIDE DEF S
    <2>3. \A f \in Fields : fifoData[f] \in 0 .. MaxFrames
      BY DEF DataTyped
    <2> QED BY <2>1, <2>2, <2>3 DEF DataTyped
  <1>2. CASE UNCHANGED fifoData
    BY <1>2 DEF DataTyped
  <1> QED BY <1>1, <1>2, LeftAlone, Zenon DEF ImuNext

\* At first.
LEMMA InitTyped == ImuInit => TypeInv
PROOF
  <1> SUFFICES ASSUME ImuInit PROVE TypeInv
    OBVIOUS
  <1>0. /\ FifoSize \in Nat \ {0} /\ Radix \in Nat \ {0} /\ MaxFrames \in Nat
        /\ FifoSize \div Radix \in 0 .. FifoSize \div Radix
    <2>1. FifoSize \in Nat \ {0} /\ Radix \in Nat \ {0} /\ MaxFrames \in Nat
      BY FrameAssumption
    <2> QED BY <2>1, Bytes
  <1>1. SensorTyped
    BY <1>0 DEF ImuInit, SensorTyped
  <1>2. BusTyped
    BY DEF ImuInit, BusTyped, Banks
  <1>3. ReadTyped
    BY DEF ImuInit, ReadTyped, ReadPcs
  <1>4. MainTyped
    BY DEF ImuInit, MainTyped, MainPcs
  <1>5. FlagsTyped
    BY Zenon DEF ImuInit, FlagsTyped
  <1>6. DataTyped
    BY <1>0 DEF ImuInit, DataTyped
  <1>7. CountTyped
    <2>1. high = 0 /\ fifoCount = 0 /\ readPc = "absent"
      BY Zenon DEF ImuInit
    <2> QED BY <1>0, <2>1 DEF CountTyped, Asked
  <1> QED BY <1>1, <1>2, <1>3, <1>4, <1>5, <1>6, <1>7 DEF TypeInv

\* Every step keeps the types, given the order of the bus.
LEMMA NextTyped == TypeInv /\ BusInv /\ [ImuNext]_imuVars => TypeInv'
PROOF
  <1> SUFFICES ASSUME TypeInv, BusInv, [ImuNext]_imuVars PROVE TypeInv'
    OBVIOUS
  <1>1. CASE ImuNext
    <2>1. MainAsks /\ ReaderAsks
      BY <1>1, Zenon DEF ImuNext, BusInv, BusState
    <2> QED BY <1>1, <2>1, NextFlags, NextSensor, NextBusTyped, NextMainTyped, NextRead, NextCount,
               NextData, Zenon DEF TypeInv
  <1>2. CASE UNCHANGED imuVars
    <2>1. /\ UNCHANGED <<fifo, sending, frames>> /\ UNCHANGED <<bank, lastBank, owner>>
          /\ UNCHANGED <<deviceMtx, wireLock>> /\ UNCHANGED <<readPc, imuCall>>
          /\ UNCHANGED <<mainPc, mainOp, mainBanks>> /\ UNCHANGED <<readyFlag, errorFlag, stopFlag>>
          /\ UNCHANGED <<fifoData, framingLost, clashed>>
      BY <1>2, Zenon DEF imuVars, imuSensor, imuBus, imuLocks, imuRead, imuMain, imuFlags
    <2>2. UNCHANGED <<want, todo, got, high, fifoCount, counted>>
      BY <2>1, Zenon DEF imuCall
    <2>3. SensorTyped' /\ BusTyped' /\ ReadTyped' /\ MainTyped' /\ DataTyped' /\ CountTyped'
      BY <2>1, <2>2 DEF TypeInv, SensorTyped, BusTyped, ReadTyped, MainTyped, DataTyped, CountTyped,
                        Asked, Enough
    <2>4. FlagsTyped'
      BY <2>1, <2>2, Zenon DEF TypeInv, FlagsTyped
    <2> QED BY <2>3, <2>4 DEF TypeInv
  <1> QED BY <1>1, <1>2

\* The inductive invariant is about the bus as well.
LEMMA TypesInductive == ImuSpec => [](TypeInv /\ BusInv)
PROOF
  <1>1. ImuInit => TypeInv /\ BusInv
    BY InitTyped, InitBus
  <1>2. (TypeInv /\ BusInv) /\ [ImuNext]_imuVars => (TypeInv /\ BusInv)'
    BY NextTyped, NextBus
  <1> QED BY <1>1, <1>2, PTL DEF ImuSpec

\* The types of the inertial sensor: the FIFO and the count of it stay in their bounds.
THEOREM ImuTyped == ImuSpec => []ImuTypeOK
PROOF
  <1>1. TypeInv => ImuTypeOK
    <2> SUFFICES ASSUME TypeInv PROVE ImuTypeOK
      OBVIOUS
    <2>1. high \in 0 .. FifoSize
      <3>1. FifoSize \in Nat \ {0} /\ Radix \in Nat \ {0}
        BY FrameAssumption
      <3>2. FifoSize \div Radix <= FifoSize /\ FifoSize \div Radix \in Nat
        <4> DEFINE q == FifoSize \div Radix
                   m == FifoSize % Radix
        <4>1. q \in 0 .. q
          BY <3>1, Bytes
        <4>2. FifoSize = Radix * q + m /\ m \in Nat
          BY <3>1
        <4> HIDE DEF q, m
        <4>3. q <= Radix * q
          BY <3>1, <4>1
        <4> QED BY <3>1, <4>1, <4>2, <4>3 DEF q
      <3>3. high \in 0 .. FifoSize \div Radix
        BY Zenon DEF TypeInv, CountTyped
      <3> QED BY <3>1, <3>2, <3>3
    <2>2. fifoCount \in 0 .. FifoSize + Radix
      BY Zenon DEF TypeInv, CountTyped
    <2> QED BY <2>1, <2>2, Zenon DEF TypeInv, SensorTyped, BusTyped, ReadTyped, MainTyped, FlagsTyped,
               DataTyped, ImuTypeOK
  <1> QED BY <1>1, TypesInductive, PTL

-----------------------------------------------------------------------------
(***************************************************************************)
(* Frames are read whole.                                                  *)
(***************************************************************************)

\* The units that have been read of the frame under way, those in the FIFO and those
\* still to come.
Unread == got \o fifo \o sending

\* After k frames have been copied, what the reader has of the next: nothing out of the
\* call, the whole frame when it is to be copied, and in the call the parts read so far,
\* those that follow being the parts it is yet to read.
Place(k, sets) ==
  /\ ~InCall /\ readPc # "copy" => got = <<>>
  /\ readPc = "copy" => k < frames /\ got = FrameUnits(k + 1, sets[k + 1])
  /\ InCall =>
       \/ todo = <<"header">> /\ got = <<>>
       \/ /\ k < frames
          /\ \E q \in 1 .. Len(PartsOf(sets[k + 1])) :
               /\ todo = SubSeq(PartsOf(sets[k + 1]), q + 1, Len(PartsOf(sets[k + 1])))
               /\ got = Passed(k + 1, sets[k + 1], q)

\* The last frame copied, by the fields.
Copied(k) ==
  /\ \A f \in Fields : fifoData[f] <= k
  /\ Fields # {} => \E f \in Fields : fifoData[f] = k

\* The count is no more than what is in the FIFO, whatever the sensor has added.
CountOK == fifoCount <= Len(fifo) /\ high <= Len(fifo) \div Radix

Stands ==
  \E k \in 0 .. frames : \E sets, ends :
    Stream(Unread, frames, k, sets, ends) /\ Place(k, sets) /\ Copied(k)

\* The inductive invariant.
FrameInv == ~framingLost /\ ~clashed => CountOK /\ Stands

\* Two sequences are the same when their elements are.
LEMMA SameSeq ==
  ASSUME NEW S, NEW s \in Seq(S), NEW t \in Seq(S), Len(s) = Len(t),
         \A i \in 1 .. Len(s) : s[i] = t[i]
  PROVE  s = t
PROOF
  OBVIOUS

\* Units that move from the one sequence to the next stay where they are in the whole.
LEMMA UnitsMove ==
  ASSUME NEW S, NEW g \in Seq(S), NEW f \in Seq(S), NEW n \in 0 .. Len(f)
  PROVE  (g \o SubSeq(f, 1, n)) \o SubSeq(f, n + 1, Len(f)) = g \o f
PROOF
  <1>1. PICK a, b : a = SubSeq(f, 1, n) /\ b = SubSeq(f, n + 1, Len(f))
    OBVIOUS
  <1>2. /\ a \in Seq(S) /\ Len(a) = n /\ \A i \in 1 .. n : a[i] = f[i]
    BY <1>1
  <1>3. /\ b \in Seq(S) /\ Len(b) = Len(f) - n /\ \A i \in 1 .. Len(f) - n : b[i] = f[n + i]
    BY <1>1
  <1>4. PICK c, d, e : c = g \o a /\ d = c \o b /\ e = g \o f
    OBVIOUS
  <1>5. /\ c \in Seq(S) /\ Len(c) = Len(g) + n
        /\ \A i \in 1 .. Len(g) : c[i] = g[i]
        /\ \A i \in 1 .. n : c[Len(g) + i] = a[i]
    <2>1. g \in Seq(S) /\ a \in Seq(S)
      BY <1>2
    <2>2. c = g \o a
      BY <1>4
    <2>3. /\ c \in Seq(S) /\ Len(c) = Len(g) + Len(a)
          /\ \A i \in 1 .. Len(g) : c[i] = g[i]
          /\ \A i \in 1 .. Len(a) : c[Len(g) + i] = a[i]
      BY <2>1, <2>2, Concat
    <2> QED BY <1>2, <2>3
  <1>6. /\ d \in Seq(S) /\ Len(d) = Len(c) + Len(b)
        /\ \A i \in 1 .. Len(c) : d[i] = c[i]
        /\ \A i \in 1 .. Len(b) : d[Len(c) + i] = b[i]
    <2>1. c \in Seq(S) /\ b \in Seq(S)
      BY <1>3, <1>5
    <2>2. d = c \o b
      BY <1>4
    <2> QED BY <2>1, <2>2, Concat
  <1>7. /\ e \in Seq(S) /\ Len(e) = Len(g) + Len(f)
        /\ \A i \in 1 .. Len(g) : e[i] = g[i]
        /\ \A i \in 1 .. Len(f) : e[Len(g) + i] = f[i]
    BY <1>4, Concat
  <1>8. Len(g) \in Nat /\ Len(f) \in Nat
    OBVIOUS
  <1>9. Len(d) = Len(e)
    BY <1>3, <1>5, <1>6, <1>7, <1>8
  <1>10. ASSUME NEW i \in 1 .. Len(d) PROVE d[i] = e[i]
    <2>1. CASE i <= Len(g)
      BY <1>5, <1>6, <1>7, <1>8, <2>1
    <2>2. CASE i > Len(g) /\ i <= Len(g) + n
      <3>1. i - Len(g) \in 1 .. n /\ i - Len(g) \in 1 .. Len(f) /\ i = Len(g) + (i - Len(g))
        BY <1>8, <2>2
      <3>2. c[i] = a[i - Len(g)] /\ e[i] = f[i - Len(g)] /\ a[i - Len(g)] = f[i - Len(g)]
        BY <1>2, <1>5, <1>7, <3>1
      <3>3. i \in 1 .. Len(c)
        BY <1>5, <1>8, <2>2
      <3> QED BY <1>6, <3>2, <3>3
    <2>3. CASE i > Len(g) + n
      <3> DEFINE m == i - (Len(g) + n)
      <3>1. /\ m \in 1 .. Len(b) /\ m \in 1 .. Len(f) - n /\ n + m \in 1 .. Len(f)
            /\ i = Len(c) + m /\ i = Len(g) + (n + m)
        BY <1>3, <1>5, <1>6, <1>8, <2>3
      <3> HIDE DEF m
      <3>2. d[i] = b[m] /\ b[m] = f[n + m] /\ e[i] = f[n + m]
        BY <1>3, <1>6, <1>7, <3>1
      <3> QED BY <3>2
    <2> QED BY <1>8, <2>1, <2>2, <2>3
  <1>11. d = e
    BY <1>6, <1>7, <1>9, <1>10, SameSeq
  <1> QED BY <1>1, <1>4, <1>11

\* So does one that the sensor writes.
LEMMA UnitWritten ==
  ASSUME NEW S, NEW f \in Seq(S), NEW s \in Seq(S), s # <<>>
  PROVE  Append(f, Head(s)) \o Tail(s) = f \o s
PROOF
  <1>1. PICK a, b : a = Append(f, Head(s)) /\ b = Tail(s)
    OBVIOUS
  <1>2. /\ a \in Seq(S) /\ Len(a) = Len(f) + 1 /\ a[Len(f) + 1] = s[1]
        /\ \A i \in 1 .. Len(f) : a[i] = f[i]
    BY <1>1
  <1>3. b \in Seq(S) /\ Len(b) = Len(s) - 1 /\ \A i \in 1 .. Len(s) - 1 : b[i] = s[i + 1]
    BY <1>1
  <1>4. PICK d, e : d = a \o b /\ e = f \o s
    OBVIOUS
  <1>5. /\ d \in Seq(S) /\ Len(d) = Len(a) + Len(b)
        /\ \A i \in 1 .. Len(a) : d[i] = a[i]
        /\ \A i \in 1 .. Len(b) : d[Len(a) + i] = b[i]
    <2>1. a \in Seq(S) /\ b \in Seq(S)
      BY <1>2, <1>3
    <2>2. d = a \o b
      BY <1>4
    <2> QED BY <2>1, <2>2, Concat
  <1>6. /\ e \in Seq(S) /\ Len(e) = Len(f) + Len(s)
        /\ \A i \in 1 .. Len(f) : e[i] = f[i]
        /\ \A i \in 1 .. Len(s) : e[Len(f) + i] = s[i]
    BY <1>4, Concat
  <1>7. Len(f) \in Nat /\ Len(s) \in Nat /\ Len(s) # 0
    OBVIOUS
  <1>8. Len(d) = Len(e)
    BY <1>2, <1>3, <1>5, <1>6, <1>7
  <1>9. ASSUME NEW i \in 1 .. Len(d) PROVE d[i] = e[i]
    <2>1. CASE i <= Len(f)
      BY <1>2, <1>5, <1>6, <1>7, <2>1
    <2>2. CASE i = Len(f) + 1
      BY <1>2, <1>5, <1>6, <1>7, <2>2
    <2>3. CASE i > Len(f) + 1
      <3> DEFINE m == i - (Len(f) + 1)
      <3>1. /\ m \in 1 .. Len(b) /\ m \in 1 .. Len(s) - 1 /\ m + 1 \in 1 .. Len(s)
            /\ i = Len(a) + m /\ i = Len(f) + (m + 1)
        BY <1>2, <1>3, <1>5, <1>7, <2>3
      <3> HIDE DEF m
      <3> QED BY <1>3, <1>5, <1>6, <3>1
    <2> QED BY <1>7, <2>1, <2>2, <2>3
  <1>10. d = e
    BY <1>5, <1>6, <1>8, <1>9, SameSeq
  <1> QED BY <1>1, <1>4, <1>10

\* Concatenation is associative.
LEMMA Assoc ==
  ASSUME NEW S, NEW a \in Seq(S), NEW b \in Seq(S), NEW c \in Seq(S)
  PROVE  (a \o b) \o c = a \o (b \o c)
PROOF
  <1>1. PICK p, q, d, e : p = a \o b /\ d = p \o c /\ q = b \o c /\ e = a \o q
    OBVIOUS
  <1>2. /\ p \in Seq(S) /\ Len(p) = Len(a) + Len(b)
        /\ \A i \in 1 .. Len(a) : p[i] = a[i]
        /\ \A i \in 1 .. Len(b) : p[Len(a) + i] = b[i]
    BY <1>1, Concat
  <1>3. /\ q \in Seq(S) /\ Len(q) = Len(b) + Len(c)
        /\ \A i \in 1 .. Len(b) : q[i] = b[i]
        /\ \A i \in 1 .. Len(c) : q[Len(b) + i] = c[i]
    BY <1>1, Concat
  <1>4. /\ d \in Seq(S) /\ Len(d) = Len(p) + Len(c)
        /\ \A i \in 1 .. Len(p) : d[i] = p[i]
        /\ \A i \in 1 .. Len(c) : d[Len(p) + i] = c[i]
    BY <1>1, <1>2, Concat
  <1>5. /\ e \in Seq(S) /\ Len(e) = Len(a) + Len(q)
        /\ \A i \in 1 .. Len(a) : e[i] = a[i]
        /\ \A i \in 1 .. Len(q) : e[Len(a) + i] = q[i]
    BY <1>1, <1>3, Concat
  <1>6. Len(a) \in Nat /\ Len(b) \in Nat /\ Len(c) \in Nat
    OBVIOUS
  <1>7. Len(d) = Len(e)
    BY <1>2, <1>3, <1>4, <1>5, <1>6
  <1>8. ASSUME NEW i \in 1 .. Len(d) PROVE d[i] = e[i]
    <2>1. CASE i <= Len(a)
      BY <1>2, <1>4, <1>5, <1>6, <2>1
    <2>2. CASE i > Len(a) /\ i <= Len(a) + Len(b)
      <3> DEFINE m == i - Len(a)
      <3>1. m \in 1 .. Len(b) /\ m \in 1 .. Len(q) /\ i = Len(a) + m /\ i \in 1 .. Len(p)
        BY <1>2, <1>3, <1>6, <2>2
      <3> HIDE DEF m
      <3> QED BY <1>2, <1>3, <1>4, <1>5, <3>1
    <2>3. CASE i > Len(a) + Len(b)
      <3> DEFINE m == i - (Len(a) + Len(b))
      <3>1. /\ m \in 1 .. Len(c) /\ Len(b) + m \in 1 .. Len(q) /\ i = Len(p) + m
            /\ i = Len(a) + (Len(b) + m)
        BY <1>2, <1>3, <1>4, <1>6, <2>3
      <3> HIDE DEF m
      <3> QED BY <1>3, <1>4, <1>5, <3>1
    <2> QED BY <1>6, <2>1, <2>2, <2>3
  <1>9. d = e
    BY <1>4, <1>5, <1>7, <1>8, SameSeq
  <1> QED BY <1>1, <1>9

\* Two sequences of a length that begin the same one are the same.
LEMMA SamePrefix ==
  ASSUME NEW S, NEW a \in Seq(S), NEW b \in Seq(S), NEW c \in Seq(S), NEW w \in Seq(S),
         Len(a) = Len(b), Len(b) <= Len(w),
         \A j \in 1 .. Len(a) : c[j] = a[j],
         \A j \in 1 .. Len(b) : b[j] = w[j],
         \A j \in 1 .. Len(w) : c[j] = w[j]
  PROVE  a = b
PROOF
  <1>1. Len(a) \in Nat /\ Len(b) \in Nat /\ Len(w) \in Nat
    OBVIOUS
  <1>2. \A j \in 1 .. Len(a) : a[j] = b[j]
    BY <1>1
  <1> QED BY <1>2, SameSeq

\* A part that is read when nothing is torn and the count is right: its units leave the
\* FIFO, from the head of it.
LEMMA PartTaken ==
  ASSUME SensorTyped, ReadTyped, CountTyped, CountOK, ~Torn, ReadTransfer, ReadPart
  PROVE  LET n == UnitsOf[Head(todo)] IN
         /\ n \in Nat \ {0} /\ n <= Len(fifo) /\ todo # <<>> /\ todo \in Seq(Parts)
         /\ fifo' = SubSeq(fifo, n + 1, Len(fifo)) /\ got' = got \o SubSeq(fifo, 1, n)
         /\ fifoCount' = fifoCount - n /\ high' = 0 /\ readPc' = "next"
         /\ UNCHANGED <<sending, frames, fifoData>>
         /\ \/ Head(todo) # "header" /\ todo' = Tail(todo)
            \/ Head(todo) = "header" /\ \E fields \in NamedBy(fifo[1]) : todo' = Following(fields)
PROOF
  <1> DEFINE n     == UnitsOf[Head(todo)]
             taken == IF Torn THEN 0 ELSE IF n < Len(fifo) THEN n ELSE Len(fifo)
             first == SubSeq(fifo, 1, taken)
             rest  == [i \in 1 .. n - taken |-> Garbage]
             units == first \o rest
  <1>1. /\ want = "part" /\ readPc = "transfer" /\ high' = high /\ readPc' = "next"
        /\ fifo' = IF Torn THEN fifo ELSE SubSeq(fifo, taken + 1, Len(fifo))
        /\ got' = got \o units /\ fifoCount' = fifoCount - n
        /\ UNCHANGED <<sending, frames, fifoData>>
        /\ \/ Head(todo) # "header" /\ todo' = Tail(todo)
           \/ Head(todo) = "header" /\ \E fields \in NamedBy(units[1]) : todo' = Following(fields)
    BY Zenon DEF ReadPart, ReadTransfer
  <1>2. todo \in Seq(Parts) /\ todo # <<>> /\ fifoCount >= n /\ high = 0
    BY <1>1 DEF ReadTyped, CountTyped, Asked, Enough
  <1>3. n \in Nat \ {0}
    <2>1. Head(todo) \in Parts
      BY <1>2
    <2> QED BY <2>1, FrameAssumption
  <1>4. fifo \in Seq(Units) /\ Len(fifo) \in Nat
    BY DEF SensorTyped
  <1> HIDE DEF n
  <1>5. n <= Len(fifo)
    BY <1>2, <1>3, <1>4 DEF CountOK, CountTyped
  <1>6. taken = n
    BY <1>3, <1>4, <1>5
  <1> HIDE DEF taken
  <1>7. first = SubSeq(fifo, 1, n) /\ rest = <<>>
    <2>1. n - taken = 0
      BY <1>3, <1>6
    <2>2. rest = [i \in 1 .. 0 |-> Garbage]
      BY <2>1, Zenon
    <2>3. 1 .. 0 = {}
      OBVIOUS
    <2>4. rest = <<>>
      BY <2>2, <2>3
    <2> QED BY <1>6, <2>4
  <1> HIDE DEF first, rest
  <1>8. units = SubSeq(fifo, 1, n) /\ SubSeq(fifo, 1, n)[1] = fifo[1]
    <2>1. SubSeq(fifo, 1, n) \in Seq(Units) /\ SubSeq(fifo, 1, n)[1] = fifo[1]
      BY <1>3, <1>4, <1>5
    <2> DEFINE x == SubSeq(fifo, 1, n)
    <2> HIDE DEF x
    <2>2. x \o <<>> = x
      BY <2>1 DEF x
    <2> QED BY <1>7, <2>1, <2>2 DEF x
  <1> HIDE DEF units
  <1>9. fifo' = SubSeq(fifo, n + 1, Len(fifo))
    BY <1>1, <1>6
  <1>10. got' = got \o SubSeq(fifo, 1, n)
    BY <1>1, <1>8, Zenon
  <1>11. \/ Head(todo) # "header" /\ todo' = Tail(todo)
         \/ Head(todo) = "header" /\ \E fields \in NamedBy(fifo[1]) : todo' = Following(fields)
    BY <1>1, <1>8, Zenon
  <1>12. high' = 0
    BY <1>1, <1>2, Zenon
  <1> QED BY <1>1, <1>2, <1>3, <1>5, <1>9, <1>10, <1>11, <1>12, Zenon DEF n

\* Between two steps nothing is known of the count but that it is no more than what there is.
LEMMA CountStays ==
  ASSUME SensorTyped, ReadTyped, CountTyped, CountOK, ImuNext, ReaderAsks,
         ~framingLost', readPc = "transfer" => ~Torn
  PROVE  CountOK'
PROOF
  <1>0. /\ Radix \in Nat \ {0} /\ FifoSize \in Nat \ {0} /\ Len(fifo) \in Nat /\ high \in Nat
        /\ fifoCount \in Nat /\ fifo \in Seq(Units)
    <2>1. Radix \in Nat \ {0} /\ FifoSize \in Nat \ {0}
      BY FrameAssumption
    <2>2. fifo \in Seq(Units)
      BY DEF SensorTyped
    <2>3. high \in Nat /\ fifoCount \in Nat
      BY <2>1 DEF CountTyped
    <2> QED BY <2>1, <2>2, <2>3
  <1>1. \A l \in Nat : l \div Radix \in Nat
    <2> SUFFICES ASSUME NEW l \in Nat PROVE l \div Radix \in Nat
      OBVIOUS
    <2>0. l <= l
      OBVIOUS
    <2>1. l \div Radix \in 0 .. l \div Radix
      BY <1>0, <2>0, Bytes, Zenon
    <2> QED BY <2>1
  <1>2. CASE FrameBegins \/ (MainThread /\ UNCHANGED <<fifo, high, fifoCount>>)
    <2>1. UNCHANGED <<fifo, high, fifoCount>>
      BY <1>2, Zenon DEF FrameBegins, imuRead, imuCall
    <2> QED BY <2>1 DEF CountOK
  <1>3. CASE SensorWrites
    <2>1. sending # <<>> /\ UNCHANGED imuRead /\ fifo' = Append(fifo, Head(sending))
      BY <1>3, Zenon DEF SensorWrites
    <2>2. Len(fifo') = Len(fifo) + 1
      BY <1>0, <2>1
    <2>3. Len(fifo) \div Radix <= Len(fifo') \div Radix
      <3> DEFINE a == Len(fifo)
                 b == Len(fifo')
      <3>1. a \in Nat /\ b \in Nat /\ a <= b
        BY <1>0, <2>2
      <3> HIDE DEF a, b
      <3>2. a \div Radix \in 0 .. b \div Radix
        BY <1>0, <3>1, Bytes
      <3> QED BY <3>2 DEF a, b
    <2>4. UNCHANGED <<high, fifoCount>>
      BY <2>1 DEF imuRead, imuCall
    <2>5. Len(fifo) \div Radix \in Nat /\ Len(fifo') \div Radix \in Nat
      BY <1>0, <1>1, <2>2
    <2> QED BY <1>0, <2>2, <2>3, <2>4, <2>5 DEF CountOK
  <1>4. CASE ReadTransfer /\ ReadPart
    <2> DEFINE n == UnitsOf[Head(todo)]
    <2>1. ~Torn
      BY <1>4, Zenon DEF ReadTransfer
    <2>2. /\ n \in Nat \ {0} /\ n <= Len(fifo) /\ fifo' = SubSeq(fifo, n + 1, Len(fifo))
          /\ fifoCount' = fifoCount - n /\ high' = 0
      BY <1>4, <2>1, PartTaken, Zenon
    <2> HIDE DEF n
    <2>3. Len(fifo') = Len(fifo) - n
      BY <1>0, <2>2
    <2>4. Len(fifo') \in Nat /\ n <= Len(fifo)
      BY <1>0, <2>2, <2>3
    <2>5. Len(fifo') \div Radix \in Nat
      BY <1>1, <2>4, Zenon
    <2>6. fifoCount' <= Len(fifo')
      BY <1>0, <2>2, <2>3, <2>4 DEF CountOK
    <2>7. high' = 0
      BY <2>2, Zenon
    <2> QED BY <2>5, <2>6, <2>7 DEF CountOK
  <1>5. CASE ReadTransfer /\ ReadCount
    <2>1. ~Torn /\ UNCHANGED fifo
      BY <1>5, Zenon DEF ReadTransfer, ReadCount, imuSensor
    <2>2. \/ high' = Len(fifo) \div Radix /\ fifoCount' = fifoCount
          \/ fifoCount' = high * Radix + (Len(fifo) % Radix) /\ high' = 0
      BY <1>5, <2>1, Zenon DEF ReadCount
    <2>3. CASE high' = Len(fifo) \div Radix /\ fifoCount' = fifoCount
      BY <1>0, <1>1, <2>1, <2>3 DEF CountOK
    <2>4. CASE fifoCount' = high * Radix + (Len(fifo) % Radix) /\ high' = 0
      <3>1. high \in 0 .. Len(fifo) \div Radix
        BY <1>0, <1>1 DEF CountOK
      <3>2. \A h \in 0 .. Len(fifo) \div Radix : h * Radix + (Len(fifo) % Radix) \in 0 .. Len(fifo)
        <4>1. Len(fifo) <= Len(fifo)
          BY <1>0
        <4> QED BY <1>0, <4>1, Bytes, Zenon
      <3>3. fifoCount' \in 0 .. Len(fifo)
        BY <2>4, <3>1, <3>2
      <3>4. Len(fifo) \div Radix \in Nat
        BY <1>0, <1>1
      <3> QED BY <1>0, <2>1, <2>4, <3>3, <3>4 DEF CountOK
    <2> QED BY <2>2, <2>3, <2>4
  <1>6. CASE Reader /\ ~ReadTransfer
    <2>1. UNCHANGED fifo
      BY <1>6, LeftAlone, Zenon DEF imuSensor
    <2>2. UNCHANGED <<high, fifoCount>> \/ (high' = 0 /\ fifoCount' = 0)
      BY <1>6, Zenon DEF Reader, InitLock, InitBegin, InitEnd, Loop, ReadCall, ReadNext, ReadReturn,
                         ReadOpen, ReadBank, ReadBegin, ReadFails, Copy, imuCall
    <2>3. Len(fifo) \div Radix \in Nat
      BY <1>0, <1>1
    <2> QED BY <1>0, <2>1, <2>2, <2>3 DEF CountOK
  <1>7. MainThread => UNCHANGED <<fifo, high, fifoCount>>
    BY LeftAlone, Zenon DEF imuSensor, imuCall
  <1>8. ReadTransfer => (ReadTransfer /\ ReadPart) \/ (ReadTransfer /\ ReadCount)
    BY Zenon DEF ReadTransfer
  <1>9. Reader => ReadTransfer \/ (Reader /\ ~ReadTransfer)
    BY Zenon
  <1> QED BY <1>2, <1>3, <1>4, <1>5, <1>6, <1>7, <1>8, <1>9, Zenon DEF ImuNext, Sensor

\* The whole of what is unread is of units.
LEMMA UnreadUnits ==
  ASSUME SensorTyped, ReadTyped
  PROVE  /\ got \in Seq(Units) /\ fifo \in Seq(Units) /\ sending \in Seq(Units)
         /\ Unread \in Seq(Units) /\ Len(Unread) = Len(got) + Len(fifo) + Len(sending)
         /\ \A j \in 1 .. Len(got) : Unread[j] = got[j]
         /\ got = <<>> => \A j \in 1 .. Len(fifo) : Unread[j] = fifo[j]
PROOF
  <1>1. got \in Seq(Units) /\ fifo \in Seq(Units) /\ sending \in Seq(Units)
    BY DEF SensorTyped, ReadTyped
  <1>2. PICK a : a = got \o fifo
    OBVIOUS
  <1>3. Unread = a \o sending
    BY <1>2, Zenon DEF Unread
  <1>4. /\ a \in Seq(Units) /\ Len(a) = Len(got) + Len(fifo) /\ \A j \in 1 .. Len(got) : a[j] = got[j]
        /\ \A j \in 1 .. Len(fifo) : a[Len(got) + j] = fifo[j]
    BY <1>1, <1>2, Concat
  <1>5. /\ Unread \in Seq(Units) /\ Len(Unread) = Len(a) + Len(sending)
        /\ \A j \in 1 .. Len(a) : Unread[j] = a[j]
    <2>1. a \in Seq(Units) /\ sending \in Seq(Units)
      BY <1>1, <1>4, Zenon
    <2> QED BY <1>3, <2>1, Concat
  <1>6. Len(got) \in Nat /\ Len(fifo) \in Nat /\ Len(sending) \in Nat
    BY <1>1
  <1>7. \A j \in 1 .. Len(got) : Unread[j] = got[j]
    <2>1. \A j \in 1 .. Len(got) : j \in 1 .. Len(a)
      BY <1>4, <1>6
    <2> QED BY <1>4, <1>5, <2>1
  <1>8. ASSUME got = <<>> PROVE \A j \in 1 .. Len(fifo) : Unread[j] = fifo[j]
    <2>1. Len(got) = 0
      BY <1>8
    <2>2. \A j \in 1 .. Len(fifo) : 0 + j = j /\ j \in 1 .. Len(a)
      BY <1>4, <1>6, <2>1
    <2> QED BY <1>4, <1>5, <2>1, <2>2
  <1> QED BY <1>1, <1>4, <1>5, <1>6, <1>7, <1>8

\* A step that leaves the units and what has been copied where they are.
LEMMA SteadyStands ==
  ASSUME Stands, UNCHANGED <<got, fifo, sending, frames, fifoData>>,
         \A k \in 0 .. frames : \A sets, ends :
           Stream(Unread, frames, k, sets, ends) /\ Place(k, sets) => Place(k, sets)'
  PROVE  Stands'
PROOF
  <1>1. PICK k \in 0 .. frames : \E sets, ends :
          Stream(Unread, frames, k, sets, ends) /\ Place(k, sets) /\ Copied(k)
    BY Zenon DEF Stands
  <1>2. PICK sets, ends : Stream(Unread, frames, k, sets, ends) /\ Place(k, sets) /\ Copied(k)
    BY <1>1
  <1>3. Place(k, sets)'
    BY <1>1, <1>2
  <1>4. Unread' = Unread /\ frames' = frames
    BY DEF Unread
  <1>5. Copied(k)'
    BY <1>2 DEF Copied
  <1>6. Stream(Unread', frames', k, sets, ends)
    BY <1>2, <1>4
  <1>7. k \in 0 .. frames'
    BY <1>1, <1>4
  <1> QED BY <1>3, <1>5, <1>6, <1>7, Zenon DEF Stands

\* The steps within the call, and those out of it, that read no unit.
LEMMA SameCall ==
  ASSUME Stands, UNCHANGED <<got, todo, fifo, sending, frames, fifoData>>,
         \/ InCall /\ InCall'
         \/ ~InCall /\ ~InCall' /\ readPc # "copy" /\ readPc' # "copy"
         \/ UNCHANGED readPc
  PROVE  Stands'
PROOF
  <1>1. ASSUME NEW k \in 0 .. frames, NEW sets, Place(k, sets) PROVE Place(k, sets)'
    BY <1>1 DEF Place, InCall
  <1> QED BY <1>1, SteadyStands

\* The sensor begins a frame.
LEMMA BeginsStands ==
  ASSUME SensorTyped, ReadTyped, Stands, FrameBegins
  PROVE  Stands'
PROOF
  <1>0. MaxFrames \in Nat
    BY FrameAssumption
  <1>1. /\ sending = <<>> /\ frames < MaxFrames /\ frames' = frames + 1
        /\ UNCHANGED <<fifo, got, todo, readPc, fifoData>>
    BY Zenon DEF FrameBegins, imuRead, imuCall
  <1>2. PICK fields \in FieldSets : sending' = FrameUnits(frames', fields)
    BY Zenon DEF FrameBegins
  <1>3. PICK k \in 0 .. frames : \E sets, ends :
          Stream(Unread, frames, k, sets, ends) /\ Place(k, sets) /\ Copied(k)
    BY Zenon DEF Stands
  <1>4. PICK sets, ends : Stream(Unread, frames, k, sets, ends) /\ Place(k, sets) /\ Copied(k)
    BY <1>3
  <1>5. frames \in Nat /\ frames \in 0 .. MaxFrames
    BY <1>0 DEF SensorTyped
  <1>6. Unread' = Unread \o sending'
    <2>1. got \in Seq(Units) /\ fifo \in Seq(Units)
      BY DEF SensorTyped, ReadTyped
    <2>2. PICK a : a = got \o fifo
      OBVIOUS
    <2>3. a \in Seq(Units)
      BY <2>1, <2>2
    <2>4. a \o <<>> = a
      BY <2>3
    <2>5. Unread = a \o <<>> /\ Unread' = a \o sending'
      BY <1>1, <2>2, Zenon DEF Unread
    <2> QED BY <2>4, <2>5
  <1>7. Unread \in Seq(Units)
    BY UnreadUnits
  <1>8. PICK more, longer :
          Stream(Unread', frames', k, more, longer) /\ \A i \in 1 .. frames : more[i] = sets[i]
    <2> DEFINE u == Unread
               N == frames
    <2>1. /\ N \in Nat /\ N < MaxFrames /\ k \in 0 .. N /\ Stream(u, N, k, sets, ends)
          /\ u \in Seq(Units) /\ fields \in FieldSets
      BY <1>1, <1>3, <1>4, <1>5, <1>7, Zenon
    <2>2. Unread' = u \o FrameUnits(N + 1, fields) /\ frames' = N + 1
      BY <1>1, <1>2, <1>6, Zenon
    <2> HIDE DEF u, N
    <2>3. \E more, longer :
            /\ Stream(u \o FrameUnits(N + 1, fields), N + 1, k, more, longer)
            /\ \A i \in 1 .. N : more[i] = sets[i]
      BY <2>1, StreamGrows
    <2> QED BY <2>2, <2>3, Zenon DEF N
  <1>9. Place(k, more)'
    <2>1. k < frames => more[k + 1] = sets[k + 1] /\ k < frames'
      BY <1>1, <1>3, <1>5, <1>8
    <2>2. InCall' = InCall
      BY <1>1 DEF InCall
    <2> DEFINE p == PartsOf(sets[k + 1])
               w == FrameUnits(k + 1, sets[k + 1])
               g(q) == Passed(k + 1, sets[k + 1], q)
    <2>3. /\ ~InCall /\ readPc # "copy" => got = <<>>
          /\ readPc = "copy" => k < frames /\ got = w
          /\ InCall => \/ todo = <<"header">> /\ got = <<>>
                       \/ /\ k < frames
                          /\ \E q \in 1 .. Len(p) :
                               todo = SubSeq(p, q + 1, Len(p)) /\ got = g(q)
      BY <1>4, Zenon DEF Place
    <2>4. readPc = "copy" => k < frames' /\ got = FrameUnits(k + 1, more[k + 1])
      BY <2>1, <2>3, Zenon
    <2>5. InCall => \/ todo = <<"header">> /\ got = <<>>
                    \/ /\ k < frames'
                       /\ \E q \in 1 .. Len(PartsOf(more[k + 1])) :
                            /\ todo = SubSeq(PartsOf(more[k + 1]), q + 1, Len(PartsOf(more[k + 1])))
                            /\ got = Passed(k + 1, more[k + 1], q)
      BY <2>1, <2>3, Zenon
    <2> QED BY <1>1, <2>2, <2>3, <2>4, <2>5, Zenon DEF Place
  <1>10. Copied(k)'
    BY <1>1, <1>4 DEF Copied
  <1>11. k \in 0 .. frames'
    BY <1>1, <1>3, <1>5
  <1> QED BY <1>8, <1>9, <1>10, <1>11, Zenon DEF Stands

\* It writes a unit, to a FIFO that has room.
LEMMA WritesStands ==
  ASSUME SensorTyped, ReadTyped, Stands, SensorWrites, ~framingLost'
  PROVE  Stands'
PROOF
  <1>1. /\ sending # <<>> /\ sending' = Tail(sending) /\ fifo' = Append(fifo, Head(sending))
        /\ UNCHANGED <<frames, got, todo, readPc, fifoData>>
    BY Zenon DEF SensorWrites, imuRead, imuCall
  <1>2. got \in Seq(Units) /\ fifo \in Seq(Units) /\ sending \in Seq(Units)
    BY DEF SensorTyped, ReadTyped
  <1>3. Unread' = Unread
    <2>1. fifo' \in Seq(Units) /\ sending' \in Seq(Units)
      BY <1>1, <1>2
    <2>2. fifo' \o sending' = fifo \o sending
      BY <1>1, <1>2, UnitWritten
    <2>3. Unread = got \o (fifo \o sending)
      BY <1>2, Assoc DEF Unread
    <2>4. (got \o fifo') \o sending' = got \o (fifo' \o sending')
      <3> DEFINE g == got
                 f == fifo'
                 s == sending'
      <3>1. g \in Seq(Units) /\ f \in Seq(Units) /\ s \in Seq(Units)
        BY <1>2, <2>1, Zenon
      <3> HIDE DEF g, f, s
      <3>2. (g \o f) \o s = g \o (f \o s)
        BY <3>1, Assoc
      <3> QED BY <3>2, Zenon DEF g, f, s
    <2>5. Unread' = got \o (fifo' \o sending')
      BY <1>1, <2>4, Zenon DEF Unread
    <2> QED BY <2>2, <2>3, <2>5, Zenon
  <1>4. PICK k \in 0 .. frames : \E sets, ends :
          Stream(Unread, frames, k, sets, ends) /\ Place(k, sets) /\ Copied(k)
    BY Zenon DEF Stands
  <1>5. PICK sets, ends : Stream(Unread, frames, k, sets, ends) /\ Place(k, sets) /\ Copied(k)
    BY <1>4
  <1>6. Place(k, sets)' /\ Copied(k)'
    BY <1>1, <1>5 DEF Place, Copied, InCall
  <1>7. Stream(Unread', frames', k, sets, ends) /\ k \in 0 .. frames'
    BY <1>1, <1>3, <1>4, <1>5
  <1> QED BY <1>6, <1>7, Zenon DEF Stands

\* The reader reads a part: the one that is next, of the frame under way.
LEMMA PartStands ==
  ASSUME SensorTyped, ReadTyped, CountTyped, CountOK, Stands, ~Torn, ReadTransfer, ReadPart
  PROVE  Stands'
PROOF
  <1> DEFINE n == UnitsOf[Head(todo)]
  <1>1. /\ n \in Nat \ {0} /\ n <= Len(fifo) /\ todo # <<>> /\ todo \in Seq(Parts)
        /\ fifo' = SubSeq(fifo, n + 1, Len(fifo)) /\ got' = got \o SubSeq(fifo, 1, n)
        /\ readPc' = "next" /\ UNCHANGED <<sending, frames, fifoData>>
        /\ \/ Head(todo) # "header" /\ todo' = Tail(todo)
           \/ Head(todo) = "header" /\ \E fields \in NamedBy(fifo[1]) : todo' = Following(fields)
    BY PartTaken, Zenon
  <1>2. /\ got \in Seq(Units) /\ fifo \in Seq(Units) /\ sending \in Seq(Units)
        /\ Unread \in Seq(Units) /\ Len(Unread) = Len(got) + Len(fifo) + Len(sending)
        /\ \A j \in 1 .. Len(got) : Unread[j] = got[j]
        /\ got = <<>> => \A j \in 1 .. Len(fifo) : Unread[j] = fifo[j]
    BY UnreadUnits
  <1>3. readPc = "transfer" /\ InCall /\ InCall' /\ Len(fifo) \in Nat
    BY <1>1, <1>2 DEF ReadTransfer, InCall
  <1> HIDE DEF n
  <1>4. Unread' = Unread
    <2>1. n \in 0 .. Len(fifo)
      BY <1>1, <1>3
    <2>2. (got \o SubSeq(fifo, 1, n)) \o SubSeq(fifo, n + 1, Len(fifo)) = got \o fifo
      BY <1>2, <2>1, UnitsMove, Zenon
    <2>3. got' \o fifo' = got \o fifo
      BY <1>1, <2>2, Zenon
    <2> QED BY <1>1, <2>3, Zenon DEF Unread
  <1>5. got' \in Seq(Units) /\ Len(got') = Len(got) + n /\ \A j \in 1 .. Len(got') : Unread[j] = got'[j]
    <2>1. PICK a : a = SubSeq(fifo, 1, n)
      OBVIOUS
    <2>2. a \in Seq(Units) /\ Len(a) = n
      BY <1>1, <1>2, <1>3, <2>1
    <2>3. got' = got \o a
      BY <1>1, <2>1, Zenon
    <2>4. got' \in Seq(Units) /\ Len(got') = Len(got) + Len(a)
      <3>1. got \in Seq(Units) /\ a \in Seq(Units)
        BY <1>2, <2>2, Zenon
      <3> QED BY <2>3, <3>1, Concat
    <2>5. fifo' \in Seq(Units)
      BY <1>1, <1>2, <1>3
    <2> DEFINE g == got'
               f == fifo'
               b == g \o f
    <2>6. g \in Seq(Units) /\ f \in Seq(Units) /\ Unread = b \o sending
      BY <1>1, <1>4, <2>4, <2>5, Zenon DEF Unread
    <2> HIDE DEF g, f
    <2>7. /\ b \in Seq(Units) /\ Len(b) = Len(g) + Len(f) /\ \A j \in 1 .. Len(g) : b[j] = g[j]
      BY <2>6, Concat
    <2> HIDE DEF b
    <2>8. \A j \in 1 .. Len(b) : Unread[j] = b[j]
      BY <1>2, <2>6, <2>7, Concat
    <2>9. \A j \in 1 .. Len(g) : j \in 1 .. Len(b)
      <3>1. Len(g) \in Nat /\ Len(f) \in Nat
        BY <2>6
      <3> QED BY <2>7, <3>1
    <2> QED BY <2>2, <2>4, <2>7, <2>8, <2>9 DEF g
  <1>6. PICK k \in 0 .. frames : \E sets, ends :
          Stream(Unread, frames, k, sets, ends) /\ Place(k, sets) /\ Copied(k)
    BY Zenon DEF Stands
  <1>7. PICK sets, ends : Stream(Unread, frames, k, sets, ends) /\ Place(k, sets) /\ Copied(k)
    BY <1>6
  <1>8. frames \in 0 .. MaxFrames /\ frames \in Nat /\ k \in 0 .. frames
    BY <1>6, FrameAssumption DEF SensorTyped
  <1>9. k # frames
    <2>1. Len(Unread) # 0
      <3>1. Len(got) \in Nat /\ Len(sending) \in Nat
        BY <1>2
      <3> QED BY <1>1, <1>2, <1>3, <3>1
    <2> QED BY <1>7, <1>8, <2>1, StreamHead
  <1> DEFINE fields == sets[k + 1]
             P      == PartsOf(fields)
             W      == FrameUnits(k + 1, fields)
             G(q)   == Passed(k + 1, fields, q)
  <1>10. /\ k + 1 \in 0 .. MaxFrames /\ fields \in SUBSET Fields
         /\ Len(W) <= Len(Unread) /\ \A j \in 1 .. Len(W) : Unread[j] = W[j]
    BY <1>7, <1>8, <1>9, StreamHead
  <1>11. /\ P \in Seq(Parts) /\ Following(fields) \in Seq(Parts)
         /\ Len(P) = Len(Following(fields)) + 1 /\ Len(Following(fields)) \in Nat
         /\ P[1] = "header"
         /\ \A i \in 1 .. Len(Following(fields)) :
              P[i + 1] = Following(fields)[i] /\ Following(fields)[i] # "header"
    BY <1>10, AllParts, Zenon
  <1>12. /\ W \in Seq(Units) /\ Len(W) \in Nat \ {0} /\ W[1] = Unit(k + 1, fields, "header")
    BY <1>10, FrameFacts, Zenon
  <1>13. ASSUME NEW q \in 1 .. Len(P), Len(got') = Len(G(q)) PROVE got' = G(q)
    <2>1. /\ G(q) \in Seq(Units) /\ Len(G(q)) <= Len(W)
          /\ \A j \in 1 .. Len(G(q)) : G(q)[j] = W[j]
      BY <1>10, PassedFacts, Zenon
    <2> DEFINE g == got'
               b == G(q)
               c == Unread
    <2>2. /\ g \in Seq(Units) /\ b \in Seq(Units) /\ c \in Seq(Units) /\ W \in Seq(Units)
          /\ Len(g) = Len(b) /\ Len(b) <= Len(W)
          /\ \A j \in 1 .. Len(g) : c[j] = g[j]
          /\ \A j \in 1 .. Len(b) : b[j] = W[j]
          /\ \A j \in 1 .. Len(W) : c[j] = W[j]
      BY <1>2, <1>5, <1>10, <1>12, <1>13, <2>1, Zenon
    <2> HIDE DEF g, b, c, W
    <2>3. g = b
      BY <2>2, SamePrefix
    <2> QED BY <2>3 DEF g, b
  <1>14. CASE todo = <<"header">> /\ got = <<>>
    <2>1. Head(todo) = "header" /\ n = UnitsOf["header"]
      BY <1>14 DEF n
    <2>2. fifo[1] = Unit(k + 1, fields, "header")
      <3>1. 1 \in 1 .. Len(fifo) /\ 1 \in 1 .. Len(W)
        BY <1>1, <1>3, <1>12
      <3>2. Unread[1] = fifo[1] /\ Unread[1] = W[1]
        BY <1>2, <1>10, <1>14, <3>1, Zenon
      <3> QED BY <1>12, <3>2, Zenon
    <2>3. NamedBy(fifo[1]) = {fields}
      <3>1. Unit(k + 1, fields, "header") # Garbage
        <4>1. Unit(k + 1, fields, "header").frame = k + 1 /\ Garbage.frame = 0
          BY DEF Unit, Garbage
        <4>2. k + 1 # 0
          BY <1>8
        <4> QED BY <4>1, <4>2
      <3>2. fifo[1].part = "header" /\ fifo[1].fields = fields /\ fifo[1] # Garbage
        BY <2>2, <3>1 DEF Unit
      <3> QED BY <3>2, Zenon DEF NamedBy
    <2>4. todo' = Following(fields)
      BY <1>1, <2>1, <2>3, Zenon
    <2>5. Following(fields) = SubSeq(P, 2, Len(P))
      <3> DEFINE F == Following(fields)
      <3> HIDE DEF P, F
      <3>1. /\ SubSeq(P, 2, Len(P)) \in Seq(Parts) /\ Len(SubSeq(P, 2, Len(P))) = Len(F)
            /\ \A i \in 1 .. Len(F) : SubSeq(P, 2, Len(P))[i] = P[i + 1]
        BY <1>11 DEF F
      <3>2. \A i \in 1 .. Len(F) : SubSeq(P, 2, Len(P))[i] = F[i]
        BY <1>11, <3>1 DEF F
      <3>3. F \in Seq(Parts)
        BY <1>11 DEF F
      <3> DEFINE z == SubSeq(P, 2, Len(P))
      <3>4. z \in Seq(Parts) /\ Len(F) = Len(z) /\ \A i \in 1 .. Len(F) : F[i] = z[i]
        BY <3>1, <3>2
      <3> HIDE DEF z
      <3>5. F = z
        BY <3>3, <3>4, SameSeq
      <3> QED BY <3>5 DEF F, z
    <2>6. 1 \in 1 .. Len(P) /\ 1 + 1 = 2
      BY <1>11
    <2>7. got' = G(1)
      <3>1. Len(G(1)) = UnitsOf["header"]
        BY <1>10, <2>6, PassedFacts, Zenon
      <3>2. Len(got) = 0
        BY <1>14
      <3>3. Len(got') = Len(G(1))
        BY <1>1, <1>5, <2>1, <3>1, <3>2
      <3> QED BY <1>13, <2>6, <3>3
    <2>8. k < frames'
      BY <1>1, <1>8, <1>9
    <2>9. Place(k, sets)'
      <3>1. ~(~InCall' /\ readPc' # "copy") /\ readPc' # "copy"
        BY <1>1, <1>3
      <3>2. todo' = SubSeq(P, 1 + 1, Len(P))
        BY <2>4, <2>5, <2>6
      <3> HIDE DEF P, W
      <3>3. \E q \in 1 .. Len(P) : todo' = SubSeq(P, q + 1, Len(P)) /\ got' = G(q)
        BY <2>6, <2>7, <3>2
      <3> QED BY <2>8, <3>1, <3>3, Zenon DEF Place, P
    <2>10. Copied(k)'
      BY <1>1, <1>7 DEF Copied
    <2>11. Stream(Unread', frames', k, sets, ends) /\ k \in 0 .. frames'
      BY <1>1, <1>4, <1>7, <1>8
    <2> QED BY <2>9, <2>10, <2>11, Zenon DEF Stands
  <1>15. ASSUME NEW q \in 1 .. Len(P), todo = SubSeq(P, q + 1, Len(P)), got = G(q)
         PROVE  Stands'
    <2>1. /\ q + 1 \in 1 .. Len(P) /\ Head(todo) = P[q + 1] /\ P[q + 1] # "header"
          /\ Tail(todo) = SubSeq(P, (q + 1) + 1, Len(P)) /\ (q + 1) - 1 = q
      <3> HIDE DEF P, W
      <3>0. P \in Seq(Parts) /\ Len(P) \in Nat /\ q \in 1 .. Len(P)
        BY <1>11
      <3>1. q # Len(P)
        <4> SUFFICES ASSUME q = Len(P) PROVE FALSE
          OBVIOUS
        <4>1. SubSeq(P, q + 1, Len(P)) = <<>>
          BY <3>0
        <4> QED BY <1>1, <1>15, <4>1
      <3>2. q + 1 \in 1 .. Len(P) /\ (q + 1) - 1 = q /\ q \in 1 .. Len(P) - 1
        BY <3>0, <3>1
      <3>3. Head(SubSeq(P, q + 1, Len(P))) = P[q + 1]
        BY <3>0, <3>2
      <3>4. Tail(SubSeq(P, q + 1, Len(P))) = SubSeq(P, (q + 1) + 1, Len(P))
        <4>1. PICK s, t, z : /\ s = SubSeq(P, q + 1, Len(P)) /\ t = Tail(s)
                             /\ z = SubSeq(P, (q + 1) + 1, Len(P))
          OBVIOUS
        <4>2. /\ s \in Seq(Parts) /\ Len(s) = Len(P) - q
              /\ \A i \in 1 .. Len(P) - q : s[i] = P[q + i]
          BY <3>0, <3>2, <4>1
        <4>3. /\ z \in Seq(Parts) /\ Len(z) = Len(P) - (q + 1)
              /\ \A i \in 1 .. Len(P) - (q + 1) : z[i] = P[(q + 1) + i]
          BY <3>0, <3>2, <4>1
        <4>4. s # <<>>
          BY <3>2, <4>2
        <4>5. t = Tail(s)
          BY <4>1
        <4>6. /\ t \in Seq(Parts) /\ Len(t) = Len(s) - 1
              /\ \A i \in 1 .. Len(s) - 1 : t[i] = s[i + 1]
          BY <4>2, <4>4, <4>5
        <4>7. Len(t) = Len(z)
          BY <3>0, <4>2, <4>3, <4>6
        <4>8. \A i \in 1 .. Len(t) : t[i] = z[i]
          <5> SUFFICES ASSUME NEW i \in 1 .. Len(t) PROVE t[i] = z[i]
            OBVIOUS
          <5>1. /\ i \in 1 .. Len(s) - 1 /\ i + 1 \in 1 .. Len(P) - q /\ i \in 1 .. Len(P) - (q + 1)
                /\ q + (i + 1) = (q + 1) + i
            BY <3>0, <4>2, <4>3, <4>6
          <5> QED BY <4>2, <4>3, <4>6, <5>1
        <4>9. t = z
          BY <4>3, <4>6, <4>7, <4>8, SameSeq
        <4> QED BY <4>1, <4>9
      <3>5. P[q + 1] # "header"
        <4>1. q \in 1 .. Len(Following(fields))
          BY <1>11, <3>2 DEF P
        <4> QED BY <1>11, <4>1
      <3> QED BY <1>15, <3>2, <3>3, <3>4, <3>5
    <2>2. todo' = SubSeq(P, (q + 1) + 1, Len(P)) /\ n = UnitsOf[P[q + 1]]
      BY <1>1, <2>1, Zenon DEF n
    <2>3. got' = G(q + 1)
      <3>1. Len(G(q + 1)) = Len(G(q)) + UnitsOf[P[q + 1]]
        <4>1. q + 1 # 1
          OBVIOUS
        <4>2. Len(G(q + 1)) = Len(G((q + 1) - 1)) + UnitsOf[P[q + 1]]
          BY <1>10, <2>1, <4>1, PassedFacts, Zenon
        <4> QED BY <2>1, <4>2, Zenon
      <3>2. Len(got') = Len(G(q + 1))
        BY <1>5, <1>15, <2>2, <3>1, Zenon
      <3> QED BY <1>13, <2>1, <3>2
    <2>4. k < frames'
      BY <1>1, <1>8, <1>9
    <2>5. Place(k, sets)'
      <3>1. ~(~InCall' /\ readPc' # "copy") /\ readPc' # "copy"
        BY <1>1, <1>3
      <3>2. \E x \in 1 .. Len(P) : todo' = SubSeq(P, x + 1, Len(P)) /\ got' = G(x)
        BY <2>1, <2>2, <2>3, Zenon
      <3> QED BY <2>4, <3>1, <3>2, Zenon DEF Place
    <2>6. Copied(k)'
      BY <1>1, <1>7 DEF Copied
    <2>7. Stream(Unread', frames', k, sets, ends) /\ k \in 0 .. frames'
      BY <1>1, <1>4, <1>7, <1>8
    <2> QED BY <2>5, <2>6, <2>7, Zenon DEF Stands
  <1>16. \/ todo = <<"header">> /\ got = <<>>
         \/ \E q \in 1 .. Len(P) : todo = SubSeq(P, q + 1, Len(P)) /\ got = G(q)
    BY <1>3, <1>7, Zenon DEF Place
  <1> QED BY <1>14, <1>15, <1>16, Zenon

\* What is copied of a whole frame: its fields, and no others.
LEMMA CopyEffect ==
  ASSUME NEW n \in 0 .. MaxFrames, NEW fields \in SUBSET Fields, got = FrameUnits(n, fields), Copy
  PROVE  fifoData' = [f \in Fields |-> IF f \in fields THEN n ELSE fifoData[f]]
PROOF
  <1> DEFINE S(f) == {i \in 1 .. Len(got) : got[i].part = f}
             m(f) == CHOOSE i \in S(f) : \A j \in S(f) : i <= j
  <1>1. fifoData' = [f \in Fields |->
          IF f \in got[1].fields /\ S(f) # {} THEN got[m(f)].frame ELSE fifoData[f]]
    BY Zenon DEF Copy
  <1>2. /\ Len(got) \in Nat \ {0} /\ got[1] = Unit(n, fields, "header")
        /\ \A i \in 1 .. Len(got) : got[i].frame = n /\ got[i].fields = fields
        /\ \A f \in fields : \E i \in 1 .. Len(got) : got[i].part = f
    <2> DEFINE W == FrameUnits(n, fields)
    <2>1. /\ Len(W) \in Nat \ {0} /\ W[1] = Unit(n, fields, "header")
          /\ \A i \in 1 .. Len(W) : W[i].frame = n /\ W[i].fields = fields
          /\ \A f \in fields : \E i \in 1 .. Len(W) : W[i].part = f
      BY FrameFacts, Zenon
    <2>2. got = W
      OBVIOUS
    <2> HIDE DEF W
    <2> QED BY <2>1, <2>2
  <1>3. got[1].fields = fields
    BY <1>2 DEF Unit
  <1>4. ASSUME NEW f \in fields PROVE S(f) # {} /\ got[m(f)].frame = n
    <2>1. S(f) # {} /\ S(f) \subseteq Nat
      BY <1>2
    <2> HIDE DEF S
    <2>2. PICK i \in S(f) : \A j \in S(f) : i <= j
      BY <2>1, Least
    <2>3. m(f) \in S(f)
      BY <2>2
    <2> HIDE DEF m
    <2>4. m(f) \in 1 .. Len(got)
      BY <2>3 DEF S
    <2> QED BY <1>2, <2>1, <2>4
  <1> HIDE DEF S, m
  <1>5. \A f \in Fields :
          (IF f \in got[1].fields /\ S(f) # {} THEN got[m(f)].frame ELSE fifoData[f])
            = (IF f \in fields THEN n ELSE fifoData[f])
    BY <1>3, <1>4
  <1> QED BY <1>1, <1>5

\* The frame is copied: the stream goes on after it.
LEMMA CopyStands ==
  ASSUME SensorTyped, ReadTyped, DataTyped, Stands, Copy
  PROVE  Stands'
PROOF
  <1>1. /\ readPc = "copy" /\ readPc' = "loop" /\ got' = <<>> /\ UNCHANGED <<fifo, sending, frames>>
    BY Zenon DEF Copy, imuSensor
  <1>2. PICK k \in 0 .. frames : \E sets, ends :
          Stream(Unread, frames, k, sets, ends) /\ Place(k, sets) /\ Copied(k)
    BY Zenon DEF Stands
  <1>3. PICK sets, ends : Stream(Unread, frames, k, sets, ends) /\ Place(k, sets) /\ Copied(k)
    BY <1>2
  <1>4. k < frames /\ got = FrameUnits(k + 1, sets[k + 1])
    BY <1>1, <1>3, Zenon DEF Place
  <1>5. frames \in 0 .. MaxFrames /\ frames \in Nat /\ k # frames /\ k + 1 \in 0 .. frames
        /\ k \in Nat
    BY <1>2, <1>4, FrameAssumption DEF SensorTyped
  <1>6. /\ k + 1 \in 0 .. MaxFrames /\ sets[k + 1] \in FieldSets /\ sets[k + 1] \in SUBSET Fields
    BY <1>2, <1>3, <1>5, StreamHead
  <1>7. fifoData' = [f \in Fields |-> IF f \in sets[k + 1] THEN k + 1 ELSE fifoData[f]]
    BY <1>4, <1>6, CopyEffect, Zenon
  <1>8. Copied(k + 1)'
    <2>1. \A f \in Fields : fifoData'[f] <= k + 1
      <3>1. \A f \in Fields : fifoData[f] \in Nat /\ fifoData[f] <= k
        BY <1>3, FrameAssumption DEF Copied, DataTyped
      <3> QED BY <1>5, <1>7, <3>1
    <2>2. PICK f \in Fields : f \in sets[k + 1]
      <3>1. sets[k + 1] # {} /\ sets[k + 1] \subseteq Fields
        BY <1>6, FrameAssumption
      <3> QED BY <3>1
    <2>3. fifoData'[f] = k + 1
      BY <1>7, <2>2
    <2> QED BY <2>1, <2>2, <2>3 DEF Copied
  <1>9. Place(k + 1, sets)'
    BY <1>1 DEF Place, InCall
  <1>10. Stream(Unread', frames', k + 1, sets, ends)
    <2>1. got \in Seq(Units) /\ fifo \in Seq(Units) /\ sending \in Seq(Units)
      BY UnreadUnits
    <2>2. PICK v : v = fifo \o sending
      OBVIOUS
    <2>3. v \in Seq(Units)
      BY <2>1, <2>2
    <2>4. Unread = got \o v
      <3>1. (got \o fifo) \o sending = got \o (fifo \o sending)
        BY <2>1, Assoc
      <3> QED BY <2>2, <3>1, Zenon DEF Unread
    <2>5. Unread' = v
      <3>1. <<>> \o fifo = fifo
        BY <2>1
      <3> QED BY <1>1, <2>2, <3>1, Zenon DEF Unread
    <2> DEFINE u == Unread
               W == got
               N == frames
    <2>6. /\ N \in 0 .. MaxFrames /\ k \in 0 .. N /\ k # N /\ W = FrameUnits(k + 1, sets[k + 1])
          /\ u = W \o v /\ Stream(u, N, k, sets, ends)
      BY <1>2, <1>3, <1>4, <1>5, <2>4, Zenon
    <2> HIDE DEF u, W, N
    <2>7. Stream(v, N, k + 1, sets, ends)
      BY <2>3, <2>6, StreamShrinks
    <2> QED BY <1>1, <2>5, <2>7, Zenon DEF N
  <1>11. k + 1 \in 0 .. frames'
    BY <1>1, <1>5
  <1> QED BY <1>8, <1>9, <1>10, <1>11, Zenon DEF Stands

\* The call goes on, or returns: with all of the frame, or before it has read any of it.
LEMMA NextStands ==
  ASSUME SensorTyped, ReadTyped, Stands, ReadNext, ~framingLost'
  PROVE  Stands'
PROOF
  <1>1. readPc = "next" /\ InCall /\ UNCHANGED <<fifo, sending, frames, fifoData>>
    <2>1. readPc = "next" /\ UNCHANGED <<fifo, sending, frames, fifoData>>
      BY Zenon DEF ReadNext, imuSensor
    <2> QED BY <2>1 DEF InCall
  <1>2. \/ todo = <<>> /\ readPc' = "copy" /\ got' = got
        \/ readPc' = "open" /\ UNCHANGED <<todo, got>>
        \/ todo # <<>> /\ readPc' = "loop" /\ got = <<>> /\ got' = <<>>
    <2>1. "loop" # "copy"
      OBVIOUS
    <2> QED BY <2>1, Zenon DEF ReadNext, ReadReturn
  <1>3. CASE todo = <<>> /\ readPc' = "copy" /\ got' = got
    <2>1. ASSUME NEW k \in 0 .. frames, NEW sets, NEW ends, Stream(Unread, frames, k, sets, ends),
                 Place(k, sets)
          PROVE  Place(k, sets)'
      <3> DEFINE P == PartsOf(sets[k + 1])
      <3>1. <<"header">> # <<>>
        OBVIOUS
      <3>2. PICK q \in 1 .. Len(P) :
              /\ k < frames /\ todo = SubSeq(P, q + 1, Len(P)) /\ got = Passed(k + 1, sets[k + 1], q)
        BY <1>1, <1>3, <2>1, <3>1, Zenon DEF Place
      <3>3. frames \in 0 .. MaxFrames /\ k # frames
        BY <3>2, FrameAssumption DEF SensorTyped
      <3>4. k + 1 \in 0 .. MaxFrames /\ sets[k + 1] \in SUBSET Fields
        BY <2>1, <3>3, StreamHead
      <3>5. P \in Seq(Parts)
        BY <3>4, AllParts, Zenon
      <3> HIDE DEF P
      <3>6. q = Len(P)
        <4>1. Len(SubSeq(P, q + 1, Len(P))) = Len(P) - q
          BY <3>5
        <4>2. Len(todo) = 0 /\ Len(P) \in Nat
          BY <1>3, <3>5
        <4> QED BY <3>2, <4>1, <4>2
      <3>7. got = FrameUnits(k + 1, sets[k + 1])
        BY <3>2, <3>4, <3>6, PassedFacts, Zenon DEF P
      <3>8. ~InCall'
        BY <1>3 DEF InCall
      <3> QED BY <1>1, <1>3, <3>2, <3>7, <3>8, Zenon DEF Place
    <2> QED BY <1>1, <1>3, <2>1, SteadyStands
  <1>4. CASE readPc' = "open" /\ UNCHANGED <<todo, got>>
    <2>1. InCall'
      BY <1>4 DEF InCall
    <2> QED BY <1>1, <1>4, <2>1, SameCall
  <1>5. CASE todo # <<>> /\ readPc' = "loop" /\ got = <<>> /\ got' = <<>>
    <2>1. ~InCall' /\ readPc' # "copy"
      BY <1>5 DEF InCall
    <2>2. ASSUME NEW k, NEW sets PROVE Place(k, sets)'
      BY <1>5, <2>1, Zenon DEF Place
    <2> QED BY <1>1, <1>5, <2>2, SteadyStands
  <1> QED BY <1>2, <1>3, <1>4, <1>5

\* The steps that read no unit.
LEMMA OtherStands ==
  ASSUME SensorTyped, ReadTyped, ReaderAsks, Stands, ~framingLost', ImuNext,
         ~Sensor, ~Copy, ~ReadNext, ~(ReadTransfer /\ ReadPart)
  PROVE  Stands'
PROOF
  <1>1. CASE ReadCall
    <2>1. /\ readPc = "wire" /\ readPc' = "next" /\ todo' = <<"header">>
          /\ UNCHANGED <<got, fifo, sending, frames, fifoData>>
      BY <1>1, Zenon DEF ReadCall, imuSensor
    <2>2. ASSUME NEW k, NEW sets, Place(k, sets) PROVE Place(k, sets)'
      BY <2>1, <2>2 DEF Place, InCall
    <2> QED BY <2>1, <2>2, SteadyStands
  <1>2. CASE ReadFails
    <2>1. /\ readPc' = "loop" /\ got = <<>> /\ got' = <<>>
          /\ UNCHANGED <<fifo, sending, frames, fifoData>>
      <3>1. "loop" # "copy"
        OBVIOUS
      <3> QED BY <1>2, <3>1, Zenon DEF ReadFails, ReadReturn, imuSensor
    <2>2. ~InCall' /\ readPc' # "copy"
      BY <2>1 DEF InCall
    <2>3. ASSUME NEW k, NEW sets PROVE Place(k, sets)'
      BY <2>1, <2>2, Zenon DEF Place
    <2> QED BY <2>1, <2>3, SteadyStands
  <1>3. CASE ReadTransfer /\ ReadCount
    <2>1. /\ readPc = "transfer" /\ readPc' \in {"begin", "next"}
          /\ UNCHANGED <<got, todo, fifo, sending, frames, fifoData>>
      <3>1. /\ readPc = "transfer" /\ UNCHANGED <<got, todo, fifo, sending, frames, fifoData>>
        BY <1>3, Zenon DEF ReadTransfer, ReadCount, imuSensor
      <3>2. readPc' \in {"begin", "next"}
        BY <1>3 DEF ReadCount
      <3> QED BY <3>1, <3>2
    <2>2. InCall /\ InCall'
      BY <2>1 DEF InCall
    <2> QED BY <2>1, <2>2, SameCall
  <1>4. CASE ReadOpen \/ ReadBank \/ ReadBegin
    <2>1. UNCHANGED <<got, todo, fifo, sending, frames, fifoData>>
      BY <1>4, Zenon DEF ReadOpen, ReadBank, ReadBegin, imuSensor, imuCall
    <2>2. InCall /\ InCall'
      BY <1>4 DEF ReadOpen, ReadBank, ReadBegin, InCall
    <2> QED BY <2>1, <2>2, SameCall
  <1>5. CASE InitLock \/ InitBegin \/ InitEnd \/ Loop
    <2>1. UNCHANGED <<got, todo, fifo, sending, frames, fifoData>>
      BY <1>5, Zenon DEF InitLock, InitBegin, InitEnd, Loop, imuSensor, imuCall
    <2>2. ~InCall /\ ~InCall' /\ readPc # "copy" /\ readPc' # "copy"
      <3>1. /\ readPc \in {"initLock", "init", "initTransfer", "loop"}
            /\ readPc' \in {"init", "initTransfer", "loop", "exited", "wire"}
        BY <1>5 DEF InitLock, InitBegin, InitEnd, Loop
      <3> QED BY <3>1 DEF InCall
    <2> QED BY <2>1, <2>2, SameCall
  <1>6. CASE MainThread
    <2>1. UNCHANGED <<got, todo, fifo, sending, frames, fifoData>>
      BY <1>6, LeftAlone, Zenon DEF imuSensor, imuCall
    <2>2. CASE Begin
      <3>1. readPc = "absent" /\ readPc' \in {"absent", "initLock"}
        BY <2>2 DEF Begin, ReaderAsks
      <3>2. ~InCall /\ ~InCall' /\ readPc # "copy" /\ readPc' # "copy"
        BY <3>1 DEF InCall
      <3> QED BY <2>1, <3>2, SameCall
    <2>3. CASE UNCHANGED readPc
      BY <2>1, <2>3, SameCall
    <2> QED BY <1>6, <2>2, <2>3, LeftAlone, Zenon
  <1>7. ReadTransfer => (ReadTransfer /\ ReadPart) \/ (ReadTransfer /\ ReadCount)
    BY Zenon DEF ReadTransfer
  <1> QED BY <1>1, <1>2, <1>3, <1>4, <1>5, <1>6, <1>7, Zenon DEF ImuNext, Reader

\* What has been lost stays lost.
LEMMA LostStays == ASSUME ImuNext, ~framingLost' PROVE ~framingLost
PROOF
  BY Zenon DEF ImuNext, Sensor, FrameBegins, SensorWrites, Reader, InitLock, InitBegin, InitEnd, Loop,
               ReadCall, ReadNext, ReadOpen, ReadBank, BankWritten, ReadBegin, ReadFails,
               ReadTransfer, Copy, MainThread, Begin, Call, MainLock, MainOpen, MainBank, MainBegin,
               MainTransfer, End, Join

\* At first there is no frame.
LEMMA InitFrames == ImuInit => FrameInv
PROOF
  <1> SUFFICES ASSUME ImuInit PROVE CountOK /\ Stands
    BY Zenon DEF FrameInv
  <1>1. /\ fifo = <<>> /\ sending = <<>> /\ frames = 0 /\ readPc = "absent" /\ got = <<>>
        /\ high = 0 /\ fifoCount = 0 /\ fifoData = [f \in Fields |-> 0]
    BY Zenon DEF ImuInit
  <1>2. CountOK
    <2>1. Radix \in Nat \ {0}
      BY FrameAssumption
    <2>2. 0 \div Radix \in 0 .. 0 \div Radix
      <3>1. 0 \in Nat /\ 0 <= 0
        OBVIOUS
      <3> QED BY <2>1, <3>1, Bytes, Zenon
    <2>3. Len(fifo) = 0
      BY <1>1
    <2> QED BY <1>1, <2>2, <2>3 DEF CountOK
  <1>3. Unread = <<>>
    <2>1. <<>> \o <<>> \o <<>> = <<>>
      OBVIOUS
    <2> QED BY <1>1, <2>1, Zenon DEF Unread
  <1> DEFINE sets == [i \in 1 .. 0 |-> {}]
             ends == [i \in 0 .. 0 |-> 0]
  <1>4. Stream(<<>>, 0, 0, sets, ends)
    BY DEF Stream
  <1>5. Place(0, sets)
    BY <1>1 DEF Place, InCall
  <1>6. Copied(0)
    BY <1>1 DEF Copied
  <1>7. 0 \in 0 .. frames
    BY <1>1
  <1> HIDE DEF sets, ends
  <1>8. Stream(Unread, frames, 0, sets, ends)
    BY <1>1, <1>3, <1>4, Zenon
  <1> QED BY <1>2, <1>5, <1>6, <1>7, <1>8, Zenon DEF Stands

\* Every step keeps the frames in order, until one is lost.
LEMMA NextFrames == TypeInv /\ BusInv /\ FrameInv /\ [ImuNext]_imuVars => FrameInv'
PROOF
  <1> SUFFICES ASSUME TypeInv, BusInv, FrameInv, [ImuNext]_imuVars, ~framingLost', ~clashed'
               PROVE  CountOK' /\ Stands'
    BY Zenon DEF FrameInv
  <1>1. CASE ImuNext
    <2>1. ~framingLost /\ ~clashed
      BY <1>1, LostStays, Zenon DEF ImuNext
    <2>2. CountOK /\ Stands /\ ReaderAsks
      BY <2>1, Zenon DEF FrameInv, BusInv, BusState
    <2>3. SensorTyped /\ ReadTyped /\ CountTyped /\ DataTyped
      BY Zenon DEF TypeInv
    <2>4. readPc = "transfer" => ~Torn
      BY <2>1, Untorn, Zenon DEF TransfersUntorn
    <2>5. CountOK'
      BY <1>1, <2>2, <2>3, <2>4, CountStays, Zenon
    <2>6. CASE Sensor
      BY <2>2, <2>3, <2>5, <2>6, BeginsStands, WritesStands, Zenon DEF Sensor
    <2>7. CASE Copy
      BY <2>2, <2>3, <2>5, <2>7, CopyStands, Zenon
    <2>8. CASE ReadNext
      BY <2>2, <2>3, <2>5, <2>8, NextStands, Zenon
    <2>9. CASE ReadTransfer /\ ReadPart
      <3>1. readPc = "transfer"
        BY <2>9, Zenon DEF ReadTransfer
      <3> QED BY <2>2, <2>3, <2>4, <2>5, <2>9, <3>1, PartStands, Zenon
    <2>10. CASE ~Sensor /\ ~Copy /\ ~ReadNext /\ ~(ReadTransfer /\ ReadPart)
      BY <1>1, <2>2, <2>3, <2>5, <2>10, OtherStands, Zenon
    <2> QED BY <2>5, <2>6, <2>7, <2>8, <2>9, <2>10, Zenon
  <1>2. CASE UNCHANGED imuVars
    <2>1. UNCHANGED <<framingLost, clashed>> /\ UNCHANGED <<fifo, sending, frames>>
          /\ UNCHANGED <<readPc, imuCall>> /\ UNCHANGED fifoData
      BY <1>2, Zenon DEF imuVars, imuSensor, imuRead
    <2>2. UNCHANGED <<want, todo, got, high, fifoCount, counted>>
      BY <2>1, Zenon DEF imuCall
    <2>3. CountOK /\ Stands
      BY <2>1, Zenon DEF FrameInv
    <2>4. CountOK'
      BY <2>1, <2>2, <2>3 DEF CountOK
    <2>5. Stands'
      BY <2>1, <2>2, <2>3, SameCall
    <2> QED BY <2>4, <2>5
  <1> QED BY <1>1, <1>2

\* The inductive invariant, with the types and the order of the bus.
THEOREM FramesInductive == ImuSpec => [](TypeInv /\ BusInv /\ FrameInv)
PROOF
  <1>1. ImuInit => TypeInv /\ BusInv /\ FrameInv
    BY InitTyped, InitBus, InitFrames
  <1>2. (TypeInv /\ BusInv /\ FrameInv) /\ [ImuNext]_imuVars => (TypeInv /\ BusInv /\ FrameInv)'
    BY NextTyped, NextBus, NextFrames
  <1> QED BY <1>1, <1>2, PTL DEF ImuSpec

\* A step out of the copy is the copy of a whole frame, the one after the last.
LEMMA CopyWhole ==
  ASSUME TypeInv, BusInv, FrameInv, ImuNext, readPc = "copy", readPc' # "copy", ~framingLost, ~clashed
  PROVE  \E n \in 1 .. MaxFrames, fields \in FieldSets :
            /\ got = FrameUnits(n, fields)
            /\ \E f \in Fields : fifoData[f] = n - 1
            /\ \A f \in Fields : fifoData[f] < n
            /\ fifoData' = [f \in Fields |-> IF f \in fields THEN n ELSE fifoData[f]]
PROOF
  <1>1. SensorTyped /\ DataTyped /\ Stands /\ ReaderAsks
    BY Zenon DEF TypeInv, FrameInv, BusInv, BusState
  <1>2. Copy
    <2>1. ~Sensor /\ ~MainThread
      <3>1. ~Begin
        BY <1>1 DEF Begin, ReaderAsks
      <3>2. ~MainThread
        BY <3>1, LeftAlone, Zenon
      <3>3. ~Sensor
        BY LeftAlone, Zenon DEF imuRead
      <3> QED BY <3>2, <3>3
    <2>2. Reader
      BY <2>1, Zenon DEF ImuNext
    <2> QED BY <2>2 DEF Reader, InitLock, InitBegin, InitEnd, Loop, ReadCall, ReadNext, ReadOpen,
                        ReadBank, ReadBegin, ReadFails, ReadTransfer
  <1>3. PICK k \in 0 .. frames : \E sets, ends :
          Stream(Unread, frames, k, sets, ends) /\ Place(k, sets) /\ Copied(k)
    BY <1>1, Zenon DEF Stands
  <1>4. PICK sets, ends : Stream(Unread, frames, k, sets, ends) /\ Place(k, sets) /\ Copied(k)
    BY <1>3
  <1>5. k < frames /\ got = FrameUnits(k + 1, sets[k + 1])
    BY <1>4, Zenon DEF Place
  <1>6. frames \in 0 .. MaxFrames /\ k # frames /\ k \in Nat
    BY <1>1, <1>3, <1>5, FrameAssumption DEF SensorTyped
  <1>7. k + 1 \in 0 .. MaxFrames /\ sets[k + 1] \in FieldSets /\ sets[k + 1] \in SUBSET Fields
    BY <1>3, <1>4, <1>6, StreamHead
  <1>8. fifoData' = [f \in Fields |-> IF f \in sets[k + 1] THEN k + 1 ELSE fifoData[f]]
    BY <1>2, <1>5, <1>7, CopyEffect, Zenon
  <1>9. Fields # {}
    BY <1>7, FrameAssumption
  <1>10. \E f \in Fields : fifoData[f] = (k + 1) - 1
    <2>1. (k + 1) - 1 = k
      BY <1>6
    <2> QED BY <1>4, <1>9, <2>1, Zenon DEF Copied
  <1>11. \A f \in Fields : fifoData[f] < k + 1
    <2>1. \A f \in Fields : fifoData[f] \in Nat /\ fifoData[f] <= k
      BY <1>1, <1>4, FrameAssumption DEF Copied, DataTyped
    <2> QED BY <1>6, <2>1
  <1>12. k + 1 \in 1 .. MaxFrames
    BY <1>6, <1>7
  <1> QED BY <1>5, <1>7, <1>8, <1>10, <1>11, <1>12

\* What readLoop() copies is one frame, whole, and the frame after the one it copied last:
\* for any order of the fields, any sets of them a frame may have, any size of the FIFO and
\* of the parts, and whatever the sensor and the main thread do meanwhile.
THEOREM FramesWhole == ImuSpec => FrameWhole
PROOF
  <1>1. TypeInv /\ BusInv /\ FrameInv /\ [ImuNext]_imuVars =>
          [(readPc = "copy" /\ readPc' # "copy" /\ ~framingLost /\ ~clashed)
             => \E n \in 1 .. MaxFrames, fields \in FieldSets :
                  /\ got = FrameUnits(n, fields)
                  /\ \E f \in Fields : fifoData[f] = n - 1
                  /\ \A f \in Fields : fifoData[f] < n
                  /\ fifoData' = [f \in Fields |-> IF f \in fields THEN n ELSE fifoData[f]]]_imuVars
    BY CopyWhole
  <1> QED BY <1>1, FramesInductive, PTL DEF ImuSpec, FrameWhole

-----------------------------------------------------------------------------
(***************************************************************************)
(* The fault log.                                                          *)
(***************************************************************************)

Quiet      == {"idle", "clear"}
MainOnly    == {"boot", "bootClear", "clear", "clearCount"}
PendingPcs == {"check", "addClear", "addClearCount", "slot", "time", "code", "param", "load",
               "store"}
CountPcs   == {"loadCount", "storeCount"}
WritingPcs == {"code", "param", "load", "store"} \cup CountPcs

\* The types, but for the flag.
LogTypes ==
  /\ numEntries \in 0 .. MaxFaults /\ nNumEntries \in 0 .. MaxFaults \cup {NoCount}
  /\ flogEntries \in [Slots -> Entry]
  /\ logPc \in [LogThreads -> LogPcs]
  /\ fault \in [LogThreads -> 0 .. MaxFaults] /\ slot \in [LogThreads -> Slots]
  /\ counter \in [LogThreads -> 0 .. MaxFaults] /\ calls \in 0 .. MaxFaults
  /\ recent \in Seq(1 .. MaxFaults)

\* The calls that have yet to add one to the counter.
Pending == {t \in LogThreads : logPc[t] \in PendingPcs}

\* Each call adds one, once: an increment that was lost never makes the counter larger.
Counts ==
  /\ IsFiniteSet(Pending)
  /\ numEntries + Cardinality(Pending) <= calls
  /\ \A t \in LogThreads : counter[t] + Cardinality(Pending) <= calls

\* Only the main thread initialises and clears the log; a call has a fault.
Roles ==
  /\ \A t \in LogThreads : logPc[t] \in MainOnly => t = LogMain
  /\ \A t \in LogThreads : InAdd(t) => fault[t] # 0

Solo ==
  \A t, u \in LogThreads : t # u /\ logPc[t] \notin Quiet => logPc[u] \in Quiet

\* The counter counts the faults, and is one ahead between the counters.  A log that
\* is not valid is empty, and the main thread is about to initialise it.
Counted ==
  /\ \A t \in LogThreads :
       logPc[t] \in CountPcs => numEntries = Len(recent) + 1 /\ nNumEntries = Len(recent)
  /\ (\A t \in LogThreads : logPc[t] \notin CountPcs) =>
       \/ nNumEntries = numEntries /\ numEntries = Len(recent)
       \/ nNumEntries # numEntries /\ recent = <<>>
            /\ logPc[LogMain] \in {"boot", "bootClear", "clearCount"}
  /\ logPc[LogMain] \in {"bootClear", "clearCount"} => recent = <<>>
  /\ logPc[LogMain] = "clearCount" => numEntries = 0
  /\ \A t \in LogThreads : logPc[t] \notin {"addClear", "addClearCount"}

\* The entries of the last faults are in the ring, but for the oldest while it is
\* overwritten.
Held ==
  \A i \in 1 .. Len(recent) :
    (\/ i - 1 > Len(recent) - LogSize
     \/ i - 1 = Len(recent) - LogSize /\ \A t \in LogThreads : logPc[t] \notin WritingPcs)
      => flogEntries[(i - 1) % LogSize] = Whole(recent[i])

\* What a call has done of its entry.
Written ==
  \A t \in LogThreads :
    /\ logPc[t] \in WritingPcs \cup {"time"} => slot[t] = Len(recent) % LogSize
    /\ logPc[t] \in {"code", "param"} => flogEntries[slot[t]].timestamp_ms = fault[t]
    /\ logPc[t] = "param" => flogEntries[slot[t]].code = fault[t]
    /\ logPc[t] \in WritingPcs \ {"code", "param"} => flogEntries[slot[t]] = Whole(fault[t])
    /\ logPc[t] \in {"store", "storeCount"} => counter[t] = numEntries

Sound == Solo /\ Counted /\ Held /\ Written

\* The inductive invariant.
LogInv == LogTypes /\ Counts /\ Roles /\ (~spoilt => Sound)

-----------------------------------------------------------------------------
(***************************************************************************)
(* Types and bounds.                                                       *)
(***************************************************************************)

\* Where a thread goes says whether its call is pending.
LEMMA PendingMoves ==
  ASSUME NEW t \in LogThreads, NEW p, logPc \in [LogThreads -> LogPcs], LogGoto(t, p)
  PROVE  Pending' = IF p \in PendingPcs THEN Pending \cup {t} ELSE Pending \ {t}
PROOF
  BY DEF LogGoto, Pending, PendingPcs

\* A thread that goes where it has nothing to add is no longer pending.
LEMMA PendingLeaves ==
  ASSUME NEW t \in LogThreads, NEW p, p \notin PendingPcs, logPc \in [LogThreads -> LogPcs],
         LogGoto(t, p)
  PROVE  Pending' = Pending \ {t}
PROOF
  BY PendingMoves

\* A step that changes neither the calls that are pending nor their number, nor gives
\* the counters a new value, keeps the bounds.
LEMMA CountsStay ==
  ASSUME LogTypes, Counts, Pending' = Pending, calls' = calls,
         numEntries' \in {numEntries, 0},
         \A t \in LogThreads : counter'[t] \in {counter[t], numEntries}
  PROVE  Counts'
PROOF
  <1> DEFINE n == Cardinality(Pending)
  <1>1. n \in Nat
    BY FS_CardinalityType DEF Counts
  <1>2. Cardinality(Pending') = n /\ IsFiniteSet(Pending')
    BY DEF Counts
  <1>3. numEntries + n <= calls /\ \A t \in LogThreads : counter[t] + n <= calls
    BY DEF Counts
  <1>4. numEntries \in Nat /\ calls \in Nat
    BY LogAssumption DEF LogTypes
  <1> HIDE DEF n
  <1>5. numEntries' + n <= calls' /\ \A t \in LogThreads : counter'[t] + n <= calls'
    BY <1>1, <1>3, <1>4
  <1> QED BY <1>2, <1>5 DEF Counts

\* The types and the bounds at first.
LEMMA InitTypes == LogInit => LogTypes /\ Counts /\ Roles
PROOF
  <1> SUFFICES ASSUME LogInit PROVE LogTypes /\ Counts /\ Roles
    OBVIOUS
  <1> USE LogAssumption DEF LogInit
  <1>1. LogTypes
    <2>1. recent \in Seq(1 .. MaxFaults)
      BY DEF LogInit
    <2>2. flogEntries \in [Slots -> Entry]
      BY DEF NoEntry, Whole, Entry
    <2>3. slot \in [LogThreads -> Slots]
      BY DEF Slots
    <2> QED BY <2>1, <2>2, <2>3 DEF LogTypes, NoCount, LogPcs
  <1>2. Pending = {}
    BY DEF Pending, PendingPcs
  <1>3. IsFiniteSet(Pending) /\ Cardinality(Pending) = 0
    BY <1>2, FS_EmptySet
  <1>4. Counts
    BY <1>3 DEF Counts
  <1>5. Roles
    BY DEF Roles, InAdd, MainOnly
  <1> QED BY <1>1, <1>4, <1>5

\* The steps that leave the calls that are pending as they are.
LEMMA PlainTypes ==
  ASSUME LogTypes, Counts, Roles, NEW t \in LogThreads,
         Check(t) \/ Memset(t) \/ ClearCount(t) \/ TakeSlot(t) \/ WriteField(t)
           \/ LoadCounter(t) \/ StoreCount(t)
  PROVE  LogTypes' /\ Counts' /\ Roles'
PROOF
  <1> USE LogAssumption DEF LogTypes
  <1>1. CASE Check(t)
    <2>1. PICK p \in {"bootClear", "addClear", "idle", "slot"} :
            /\ LogGoto(t, p) /\ (p \in PendingPcs <=> logPc[t] \in PendingPcs)
            /\ (p = "bootClear" => logPc[t] = "boot")
            /\ (p \in {"addClear", "slot"} => InAdd(t))
      BY <1>1 DEF Check, PendingPcs, InAdd
    <2>2. UNCHANGED <<flogData, logLocals, calls, recent>>
      BY <1>1 DEF Check
    <2>3. Pending' = Pending
      BY <2>1, PendingMoves DEF Pending
    <2>4. Counts'
      BY <2>2, <2>3, CountsStay DEF flogData, logLocals
    <2>5. LogTypes'
      BY <2>1, <2>2 DEF flogData, logLocals, LogGoto, LogPcs
    <2>6. Roles'
      BY <2>1, <2>2 DEF Roles, InAdd, MainOnly, logLocals, LogGoto
    <2> QED BY <2>4, <2>5, <2>6
  <1>2. CASE Memset(t)
    <2>1. PICK p \in {"addClearCount", "clearCount"} :
            /\ LogGoto(t, p) /\ (p \in PendingPcs <=> logPc[t] \in PendingPcs)
            /\ (p = "clearCount" => logPc[t] \in MainOnly)
            /\ (p = "addClearCount" => InAdd(t))
      BY <1>2 DEF Memset, PendingPcs, InAdd, MainOnly
    <2>2. /\ UNCHANGED <<logLocals, calls>> /\ numEntries' = 0 /\ nNumEntries' = NoCount
          /\ flogEntries' = [s \in Slots |-> NoEntry] /\ recent' \in {recent, <<>>}
      BY <1>2 DEF Memset
    <2>3. Pending' = Pending
      BY <2>1, PendingMoves DEF Pending
    <2>4. Counts'
      BY <2>2, <2>3, CountsStay DEF logLocals
    <2>5. LogTypes'
      <3>1. recent' \in Seq(1 .. MaxFaults)
        <4>1. <<>> \in Seq(1 .. MaxFaults)
          OBVIOUS
        <4> QED BY <2>2, <4>1
      <3>2. flogEntries' \in [Slots -> Entry]
        BY <2>2 DEF NoEntry, Whole, Entry
      <3> QED BY <2>1, <2>2, <3>1, <3>2 DEF logLocals, LogGoto, LogPcs, NoCount
    <2>6. Roles'
      BY <2>1, <2>2 DEF Roles, InAdd, MainOnly, logLocals, LogGoto
    <2> QED BY <2>4, <2>5, <2>6
  <1>3. CASE ClearCount(t)
    <2>1. PICK p \in {"slot", "idle"} :
            /\ LogGoto(t, p) /\ (p \in PendingPcs <=> logPc[t] \in PendingPcs)
            /\ (p = "slot" => InAdd(t))
      BY <1>3 DEF ClearCount, PendingPcs, InAdd
    <2>2. /\ UNCHANGED <<numEntries, flogEntries, logLocals, calls, recent>>
          /\ nNumEntries' = numEntries
      BY <1>3 DEF ClearCount
    <2>3. Pending' = Pending
      BY <2>1, PendingMoves DEF Pending
    <2>4. Counts'
      BY <2>2, <2>3, CountsStay DEF logLocals
    <2>5. LogTypes'
      BY <2>1, <2>2 DEF logLocals, LogGoto, LogPcs
    <2>6. Roles'
      BY <2>1, <2>2 DEF Roles, InAdd, MainOnly, logLocals, LogGoto
    <2> QED BY <2>4, <2>5, <2>6
  <1>4. CASE TakeSlot(t)
    <2>1. /\ logPc[t] = "slot" /\ LogGoto(t, "time") /\ UNCHANGED <<flogData, fault, counter, calls, recent>>
          /\ slot' = [slot EXCEPT ![t] = numEntries % LogSize]
      BY <1>4 DEF TakeSlot, After
    <2>2. numEntries % LogSize \in Slots
      BY DEF Slots
    <2>3. Pending' = Pending
      BY <2>1, PendingMoves DEF Pending, PendingPcs
    <2>4. Counts'
      BY <2>1, <2>3, CountsStay DEF flogData
    <2>5. LogTypes'
      BY <2>1, <2>2 DEF flogData, LogGoto, LogPcs
    <2>6. Roles'
      BY <2>1 DEF Roles, InAdd, MainOnly, LogGoto
    <2> QED BY <2>4, <2>5, <2>6
  <1>5. CASE WriteField(t)
    <2>1. PICK p \in {"code", "param", "load"} : LogGoto(t, p)
      BY <1>5 DEF WriteField, After
    <2>2. /\ UNCHANGED <<numEntries, nNumEntries, logLocals, calls, recent>>
          /\ logPc[t] \in {"time", "code", "param"}
      BY <1>5 DEF WriteField
    <2>3. Pending' = Pending
      BY <2>1, <2>2, PendingMoves DEF Pending, PendingPcs
    <2>4. Counts'
      BY <2>2, <2>3, CountsStay DEF logLocals
    <2>5. flogEntries' \in [Slots -> Entry]
      <3>1. flogEntries \in [Slots -> Entry] /\ fault[t] \in 0 .. MaxFaults /\ slot[t] \in Slots
        OBVIOUS
      <3>2. CASE flogEntries' = [flogEntries EXCEPT ![slot[t]].timestamp_ms = fault[t]]
        BY <3>1, <3>2 DEF Entry
      <3>3. CASE flogEntries' = [flogEntries EXCEPT ![slot[t]].code = fault[t]]
        BY <3>1, <3>3 DEF Entry
      <3>4. CASE flogEntries' = [flogEntries EXCEPT ![slot[t]].param = fault[t]]
        BY <3>1, <3>4 DEF Entry
      <3> QED BY <1>5, <3>2, <3>3, <3>4 DEF WriteField
    <2>6. LogTypes'
      BY <2>1, <2>2, <2>5 DEF logLocals, LogGoto, LogPcs
    <2>7. Roles'
      BY <2>1, <2>2 DEF Roles, InAdd, MainOnly, logLocals, LogGoto
    <2> QED BY <2>4, <2>6, <2>7
  <1>6. CASE LoadCounter(t)
    <2>1. PICK p \in {"store", "storeCount"} :
            LogGoto(t, p) /\ (p \in PendingPcs <=> logPc[t] \in PendingPcs)
      BY <1>6 DEF LoadCounter, After, PendingPcs
    <2>2. /\ UNCHANGED <<flogData, fault, slot, calls, recent>>
          /\ counter' = [counter EXCEPT ![t] = numEntries] /\ logPc[t] \in {"load", "loadCount"}
      BY <1>6 DEF LoadCounter
    <2>3. Pending' = Pending
      BY <2>1, PendingMoves DEF Pending
    <2>4. Counts'
      BY <2>2, <2>3, CountsStay DEF flogData
    <2>5. LogTypes'
      BY <2>1, <2>2 DEF flogData, LogGoto, LogPcs
    <2>6. Roles'
      BY <2>1, <2>2 DEF Roles, InAdd, MainOnly, LogGoto
    <2> QED BY <2>4, <2>5, <2>6
  <1>7. CASE StoreCount(t)
    <2>1. /\ logPc[t] = "storeCount" /\ LogGoto(t, "idle")
          /\ UNCHANGED <<numEntries, flogEntries, logLocals, calls>>
          /\ nNumEntries' = counter[t] /\ recent' = Append(recent, fault[t])
      BY <1>7 DEF StoreCount
    <2>2. fault[t] \in 1 .. MaxFaults
      <3>1. InAdd(t)
        BY <2>1 DEF InAdd
      <3>2. fault[t] # 0
        BY <3>1, Zenon DEF Roles
      <3>3. fault[t] \in 0 .. MaxFaults
        OBVIOUS
      <3> QED BY <3>2, <3>3
    <2>3. Pending' = Pending
      <3>1. t \notin Pending
        BY <2>1 DEF Pending, PendingPcs
      <3>2. "idle" \notin PendingPcs
        BY DEF PendingPcs
      <3>3. Pending' = Pending \ {t}
        BY <2>1, <3>2, PendingLeaves
      <3> QED BY <3>1, <3>3
    <2>4. Counts'
      BY <2>1, <2>3, CountsStay DEF logLocals
    <2>5. LogTypes'
      BY <2>1, <2>2 DEF logLocals, LogGoto, LogPcs
    <2>6. Roles'
      BY <2>1 DEF Roles, InAdd, MainOnly, logLocals, LogGoto
    <2> QED BY <2>4, <2>5, <2>6
  <1> QED BY <1>1, <1>2, <1>3, <1>4, <1>5, <1>6, <1>7

\* A call begins: one more is pending, of one more.
LEMMA CallTypes ==
  ASSUME LogTypes, Counts, Roles, NEW t \in LogThreads, CallAddError(t)
  PROVE  LogTypes' /\ Counts' /\ Roles'
PROOF
  <1> DEFINE n == Cardinality(Pending)
  <1>1. /\ logPc[t] = "idle" /\ LogGoto(t, "check") /\ calls < MaxFaults /\ calls' = calls + 1
        /\ fault' = [fault EXCEPT ![t] = calls']
        /\ UNCHANGED <<flogData, slot, counter, recent>>
    BY DEF CallAddError
  <1>2. Pending' = Pending \cup {t} /\ t \notin Pending
    BY <1>1, PendingMoves DEF Pending, PendingPcs, LogTypes
  <1>3. IsFiniteSet(Pending') /\ Cardinality(Pending') = n + 1
    BY <1>2, FS_AddElement DEF Counts
  <1>4. n \in Nat
    BY FS_CardinalityType DEF Counts
  <1>5. numEntries + n <= calls /\ \A u \in LogThreads : counter[u] + n <= calls
    BY DEF Counts
  <1>6. numEntries \in Nat /\ calls \in Nat /\ \A u \in LogThreads : counter[u] \in Nat
    BY LogAssumption DEF LogTypes
  <1> HIDE DEF n
  <1>7. numEntries + (n + 1) <= calls' /\ \A u \in LogThreads : counter[u] + (n + 1) <= calls'
    BY <1>1, <1>4, <1>5, <1>6
  <1>8. Counts'
    BY <1>1, <1>3, <1>7 DEF Counts, flogData
  <1>9. LogTypes'
    BY <1>1, LogAssumption DEF LogTypes, flogData, LogGoto, LogPcs
  <1>10. Roles'
    BY <1>1, LogAssumption DEF Roles, InAdd, MainOnly, LogGoto, LogTypes
  <1> QED BY <1>8, <1>9, <1>10

\* The counter is stored: the call is no longer pending, whatever the others have done.
LEMMA StoreTypes ==
  ASSUME LogTypes, Counts, Roles, NEW t \in LogThreads, StoreCounter(t)
  PROVE  LogTypes' /\ Counts' /\ Roles'
PROOF
  <1> DEFINE n == Cardinality(Pending)
  <1>1. /\ logPc[t] = "store" /\ LogGoto(t, "loadCount") /\ numEntries' = counter[t] + 1
        /\ UNCHANGED <<nNumEntries, flogEntries, logLocals, calls, recent>>
    BY DEF StoreCounter, After
  <1>2. Pending' = Pending \ {t} /\ t \in Pending
    <2>1. "loadCount" \notin PendingPcs /\ t \in Pending
      BY <1>1 DEF PendingPcs, Pending
    <2> QED BY <1>1, <2>1, PendingLeaves DEF LogTypes
  <1>3. IsFiniteSet(Pending') /\ Cardinality(Pending') = n - 1
    BY <1>2, FS_RemoveElement DEF Counts
  <1>4. n \in Nat
    BY FS_CardinalityType DEF Counts
  <1>5. \A u \in LogThreads : counter[u] + n <= calls
    BY DEF Counts
  <1>6. n - 1 \in Nat
    BY <1>3, FS_CardinalityType
  <1>7. calls \in 0 .. MaxFaults /\ \A u \in LogThreads : counter[u] \in Nat
    BY LogAssumption DEF LogTypes
  <1> HIDE DEF n
  <1>8. /\ numEntries' + (n - 1) <= calls /\ \A u \in LogThreads : counter[u] + (n - 1) <= calls
        /\ numEntries' \in 0 .. MaxFaults
    BY <1>1, <1>4, <1>5, <1>6, <1>7, LogAssumption
  <1>9. Counts'
    BY <1>1, <1>3, <1>8 DEF Counts, logLocals
  <1>10. LogTypes'
    BY <1>1, <1>8 DEF LogTypes, logLocals, LogGoto, LogPcs
  <1>11. Roles'
    BY <1>1 DEF Roles, InAdd, MainOnly, LogGoto, LogTypes, logLocals
  <1> QED BY <1>9, <1>10, <1>11

\* A reset: no call is pending.
LEMMA ResetTypes ==
  ASSUME LogTypes, Counts, Roles, LogReset
  PROVE  LogTypes' /\ Counts' /\ Roles'
PROOF
  <1>1. /\ logPc' = [t \in LogThreads |-> IF t = LogMain THEN "boot" ELSE "idle"]
        /\ recent' \in {recent, <<>>} /\ UNCHANGED <<flogData, logLocals, calls>>
    BY DEF LogReset
  <1>2. Pending' = {}
    BY <1>1 DEF Pending, PendingPcs
  <1>3. IsFiniteSet(Pending') /\ Cardinality(Pending') = 0
    BY <1>2, FS_EmptySet
  <1> DEFINE n == Cardinality(Pending)
  <1>4. n \in Nat
    BY FS_CardinalityType DEF Counts
  <1>5. numEntries + n <= calls /\ \A u \in LogThreads : counter[u] + n <= calls
    BY DEF Counts
  <1>6. numEntries \in Nat /\ calls \in Nat /\ \A u \in LogThreads : counter[u] \in Nat
    BY LogAssumption DEF LogTypes
  <1> HIDE DEF n
  <1>7. numEntries + 0 <= calls /\ \A u \in LogThreads : counter[u] + 0 <= calls
    BY <1>4, <1>5, <1>6
  <1>8. Counts'
    BY <1>1, <1>3, <1>7 DEF Counts, flogData, logLocals
  <1>9. recent' \in Seq(1 .. MaxFaults)
    <2>1. <<>> \in Seq(1 .. MaxFaults)
      OBVIOUS
    <2> QED BY <1>1, <2>1 DEF LogTypes
  <1>10. LogTypes'
    BY <1>1, <1>9 DEF LogTypes, flogData, logLocals, LogPcs
  <1>11. Roles'
    BY <1>1 DEF Roles, InAdd, MainOnly
  <1> QED BY <1>8, <1>10, <1>11

\* The console asks for the log to be cleared.
LEMMA ClearTypes ==
  ASSUME LogTypes, Counts, Roles, CallClear
  PROVE  LogTypes' /\ Counts' /\ Roles'
PROOF
  <1>1. /\ logPc[LogMain] = "idle" /\ LogGoto(LogMain, "clear")
        /\ UNCHANGED <<flogData, logLocals, calls, recent>>
    BY DEF CallClear
  <1>2. Pending' = Pending
    <2>1. "clear" \notin PendingPcs /\ LogMain \notin Pending
      BY <1>1 DEF PendingPcs, Pending
    <2>2. Pending' = Pending \ {LogMain}
      BY <1>1, <2>1, PendingLeaves, LogAssumption DEF LogTypes
    <2> QED BY <2>1, <2>2
  <1>3. Counts'
    BY <1>1, <1>2, CountsStay DEF flogData, logLocals
  <1>4. LogTypes'
    BY <1>1 DEF LogTypes, flogData, logLocals, LogGoto, LogPcs
  <1>5. Roles'
    BY <1>1 DEF Roles, InAdd, MainOnly, LogGoto, LogTypes, logLocals
  <1> QED BY <1>3, <1>4, <1>5

\* Every step keeps the types and the bounds, however the calls overlap.
LEMMA NextTypes == LogTypes /\ Counts /\ Roles /\ [LogNext]_logVars => LogTypes' /\ Counts' /\ Roles'
PROOF
  <1> SUFFICES ASSUME LogTypes, Counts, Roles, [LogNext]_logVars
               PROVE  LogTypes' /\ Counts' /\ Roles'
    OBVIOUS
  <1>1. ASSUME NEW t \in LogThreads, LogStep(t) PROVE LogTypes' /\ Counts' /\ Roles'
    BY <1>1, PlainTypes, CallTypes, StoreTypes, Zenon DEF LogStep
  <1>2. CASE CallClear
    BY <1>2, ClearTypes
  <1>3. CASE LogReset
    BY <1>3, ResetTypes
  <1>4. CASE UNCHANGED logVars
    <2>1. Pending' = Pending
      BY <1>4 DEF Pending, logVars
    <2> QED BY <1>4, <2>1 DEF logVars, flogData, logLocals, LogTypes, Counts, Roles, InAdd
  <1> QED BY <1>1, <1>2, <1>3, <1>4, Zenon DEF LogNext

-----------------------------------------------------------------------------
(***************************************************************************)
(* One call at a time: the log of a thread that is alone in flog.cpp.      *)
(***************************************************************************)

\* Two numbers closer than the ring is long have different slots.
LEMMA SlotsDiffer ==
  ASSUME NEW a \in Nat, NEW b \in Nat, NEW P \in Nat \ {0}, a < b, b - a < P
  PROVE  a % P # b % P
PROOF
  <1>1. PICK qa, qb, ra, rb : /\ qa = a \div P /\ ra = a % P /\ qb = b \div P /\ rb = b % P
    OBVIOUS
  <1>2. /\ qa \in Int /\ qb \in Int /\ ra \in 0 .. P - 1 /\ rb \in 0 .. P - 1
        /\ a = P * qa + ra /\ b = P * qb + rb
    BY <1>1
  <1>3. ASSUME ra = rb PROVE FALSE
    <2>1. P * (qb - qa) = b - a
      BY <1>2, <1>3, SMTT(30)
    <2>2. CASE qb - qa <= 0
      BY <1>2, <2>1, <2>2, SMTT(30)
    <2>3. CASE qb - qa >= 1
      BY <1>2, <2>1, <2>3, SMTT(30)
    <2> QED BY <1>2, <2>2, <2>3
  <1> QED BY <1>1, <1>3

\* Sound, for the step of a thread that is in flog.cpp: what it says of the others is
\* that they are not.
AloneAt(t) == \A u \in LogThreads : u # t => logPc[u] \in Quiet

\* While one thread is in flog.cpp, the others are not.
LEMMA Others ==
  ASSUME Solo, NEW t \in LogThreads, logPc[t] \notin Quiet
  PROVE  AloneAt(t)
PROOF
  BY Zenon DEF Solo, AloneAt

\* It stays alone wherever it goes.
LEMMA SoloKept ==
  ASSUME LogTypes, NEW t \in LogThreads, NEW p, AloneAt(t), LogGoto(t, p)
  PROVE  Solo' /\ AloneAt(t)' /\ logPc'[t] = p
PROOF
  <1>1. logPc' = [logPc EXCEPT ![t] = p] /\ logPc \in [LogThreads -> LogPcs]
    BY DEF LogTypes, LogGoto
  <1>2. logPc'[t] = p /\ \A u \in LogThreads : u # t => logPc'[u] = logPc[u]
    BY <1>1
  <1> QED BY <1>2, Zenon DEF AloneAt, Solo

\* What Counted says when one thread is not quiet.
AloneCounted(t) ==
  /\ logPc[t] \in CountPcs => numEntries = Len(recent) + 1 /\ nNumEntries = Len(recent)
  /\ logPc[t] \notin CountPcs =>
       \/ nNumEntries = numEntries /\ numEntries = Len(recent)
       \/ nNumEntries # numEntries /\ recent = <<>>
            /\ t = LogMain /\ logPc[t] \in {"boot", "bootClear", "clearCount"}
  /\ logPc[t] \in {"bootClear", "clearCount"} => recent = <<>>
  /\ logPc[t] = "clearCount" => numEntries = 0
  /\ logPc[t] \notin {"addClear", "addClearCount"}

\* It is enough to know the one thread: what Counted says of it.
LEMMA CountedAlone ==
  ASSUME NEW t \in LogThreads, AloneAt(t), Counted,
         \A u \in LogThreads : logPc[u] \in MainOnly => u = LogMain
  PROVE  AloneCounted(t)
PROOF
  BY LogAssumption DEF AloneAt, Counted, AloneCounted, Quiet, CountPcs, MainOnly

\* And Held and Written.
AloneHeld(t) ==
  \A i \in 1 .. Len(recent) :
    (i - 1 > Len(recent) - LogSize \/ (i - 1 = Len(recent) - LogSize /\ logPc[t] \notin WritingPcs))
      => flogEntries[(i - 1) % LogSize] = Whole(recent[i])

AloneWritten(t) ==
  /\ logPc[t] \in WritingPcs \cup {"time"} => slot[t] = Len(recent) % LogSize
  /\ logPc[t] \in {"code", "param"} => flogEntries[slot[t]].timestamp_ms = fault[t]
  /\ logPc[t] = "param" => flogEntries[slot[t]].code = fault[t]
  /\ logPc[t] \in WritingPcs \ {"code", "param"} => flogEntries[slot[t]] = Whole(fault[t])
  /\ logPc[t] \in {"store", "storeCount"} => counter[t] = numEntries

\* The same of the entries.
LEMMA Alone ==
  ASSUME NEW t \in LogThreads, AloneAt(t)
  PROVE  /\ Held <=> AloneHeld(t)
         /\ Written <=> AloneWritten(t)
PROOF
  <1>1. \A u \in LogThreads : u # t => logPc[u] \notin WritingPcs \cup {"time"}
    BY DEF AloneAt, Quiet, WritingPcs, CountPcs
  <1>2. (\A u \in LogThreads : logPc[u] \notin WritingPcs) <=> logPc[t] \notin WritingPcs
    BY <1>1
  <1>3. Held <=> AloneHeld(t)
    BY <1>2, Zenon DEF Held, AloneHeld
  <1>4. Written <=> AloneWritten(t)
    <2>1. \A u \in LogThreads : u # t =>
            /\ logPc[u] \notin {"code", "param"} /\ logPc[u] \notin WritingPcs \ {"code", "param"}
            /\ logPc[u] \notin {"store", "storeCount"}
      BY <1>1 DEF WritingPcs, CountPcs
    <2> QED BY <1>1, <2>1, Zenon DEF Written, AloneWritten
  <1> QED BY <1>3, <1>4

-----------------------------------------------------------------------------

AloneSound(t) == AloneCounted(t) /\ AloneHeld(t) /\ AloneWritten(t)

\* What a step has to show, when it is that of a thread that is alone.
LEMMA AloneStep ==
  ASSUME LogTypes, Roles', NEW t \in LogThreads, NEW p, AloneAt(t), LogGoto(t, p), AloneSound(t)'
  PROVE  Sound'
PROOF
  <1>1. Solo' /\ AloneAt(t)'
    BY SoloKept
  <1>2. \A u \in LogThreads : u # t => logPc'[u] \notin WritingPcs \cup {"time"}
    BY <1>1 DEF AloneAt, Quiet, WritingPcs, CountPcs
  <1>3. (\A u \in LogThreads : logPc'[u] \notin WritingPcs) <=> logPc'[t] \notin WritingPcs
    BY <1>2
  <1>4. Held'
    BY <1>3, Zenon DEF Held, AloneHeld, AloneSound
  <1>5. Written'
    <2>1. \A u \in LogThreads : u # t =>
            /\ logPc'[u] \notin {"code", "param"} /\ logPc'[u] \notin WritingPcs \ {"code", "param"}
            /\ logPc'[u] \notin {"store", "storeCount"}
      BY <1>2 DEF WritingPcs, CountPcs
    <2> QED BY <1>2, <2>1, Zenon DEF Written, AloneWritten, AloneSound
  <1>6. Counted'
    <2>1. \A u \in LogThreads : logPc'[u] \in MainOnly => u = LogMain
      BY Zenon DEF Roles
    <2>2. AloneCounted(t)'
      BY DEF AloneSound
    <2>3. \A u \in LogThreads : u # t => logPc'[u] \in Quiet
      BY <1>1, Zenon DEF AloneAt
    <2> QED BY <2>1, <2>2, <2>3, LogAssumption DEF Counted, AloneCounted, Quiet, CountPcs, MainOnly
  <1> QED BY <1>1, <1>4, <1>5, <1>6 DEF Sound

\* What it may take for granted.
LEMMA AloneBefore ==
  ASSUME Roles, Sound, NEW t \in LogThreads, logPc[t] \notin Quiet
  PROVE  AloneAt(t) /\ AloneSound(t)
PROOF
  <1>1. AloneAt(t)
    BY Others DEF Sound
  <1>2. AloneCounted(t)
    BY <1>1, CountedAlone, Zenon DEF Sound, Roles
  <1> QED BY <1>1, <1>2, Alone DEF Sound, AloneSound

\* The checks find a log that is valid, but at boot.
LEMMA CheckAlone ==
  ASSUME LogTypes, Roles, NEW t \in LogThreads, AloneSound(t), Check(t)
  PROVE  AloneSound(t)'
PROOF
  <1>1. /\ logPc[t] \in {"boot", "check"} /\ UNCHANGED <<flogData, logLocals, recent>>
        /\ logPc'[t] = CASE nNumEntries # numEntries /\ logPc[t] = "boot" -> "bootClear"
                         [] nNumEntries # numEntries /\ logPc[t] = "check" -> "addClear"
                         [] nNumEntries = numEntries /\ logPc[t] = "boot" -> "idle"
                         [] nNumEntries = numEntries /\ logPc[t] = "check" -> "slot"
    BY DEF Check, LogGoto, LogTypes, FLOG_IsInitialized
  <1>2. /\ logPc'[t] \in {"bootClear", "idle", "slot"}
        /\ logPc'[t] = "bootClear" => nNumEntries # numEntries /\ t = LogMain
        /\ logPc'[t] # "bootClear" => nNumEntries = numEntries
    BY <1>1 DEF AloneSound, AloneCounted, CountPcs, Roles, MainOnly
  <1>3. AloneCounted(t)'
    BY <1>1, <1>2 DEF AloneSound, AloneCounted, CountPcs, flogData
  <1>4. AloneHeld(t)'
    <2>1. logPc[t] \notin WritingPcs
      BY <1>1 DEF WritingPcs, CountPcs
    <2> QED BY <1>1, <2>1, Zenon DEF AloneSound, AloneHeld, flogData
  <1>5. AloneWritten(t)'
    BY <1>2 DEF AloneWritten, WritingPcs, CountPcs
  <1> QED BY <1>3, <1>4, <1>5 DEF AloneSound

\* The memset of a thread that is alone: at boot, or from the console.
LEMMA MemsetAlone ==
  ASSUME LogTypes, NEW t \in LogThreads, Memset(t), logPc[t] # "addClear",
         recent' = <<>>, t = LogMain
  PROVE  AloneSound(t)'
PROOF
  <1>1. logPc'[t] = "clearCount" /\ numEntries' = 0 /\ nNumEntries' = NoCount
    BY DEF Memset, LogGoto, LogTypes
  <1>2. AloneCounted(t)'
    BY <1>1 DEF AloneCounted, CountPcs, NoCount
  <1>3. AloneHeld(t)'
    BY DEF AloneHeld
  <1>4. AloneWritten(t)'
    BY <1>1 DEF AloneWritten, WritingPcs, CountPcs
  <1> QED BY <1>2, <1>3, <1>4 DEF AloneSound

\* The log becomes valid, and empty.
LEMMA ClearCountAlone ==
  ASSUME LogTypes, NEW t \in LogThreads, AloneSound(t), ClearCount(t)
  PROVE  AloneSound(t)'
PROOF
  <1>1. logPc[t] = "clearCount" /\ recent = <<>> /\ numEntries = 0
    BY DEF AloneSound, AloneCounted, ClearCount
  <1>2. logPc'[t] = "idle" /\ numEntries' = 0 /\ nNumEntries' = 0 /\ recent' = <<>>
    BY <1>1 DEF ClearCount, LogGoto, LogTypes
  <1>3. AloneCounted(t)'
    BY <1>2 DEF AloneCounted, CountPcs
  <1>4. AloneHeld(t)'
    BY <1>2 DEF AloneHeld
  <1>5. AloneWritten(t)'
    BY <1>2 DEF AloneWritten, WritingPcs, CountPcs
  <1> QED BY <1>3, <1>4, <1>5 DEF AloneSound

\* The slot is that of the oldest entry, or a free one.
LEMMA TakeSlotAlone ==
  ASSUME LogTypes, NEW t \in LogThreads, AloneSound(t), TakeSlot(t)
  PROVE  AloneSound(t)'
PROOF
  <1>1. /\ logPc[t] = "slot" /\ logPc'[t] = "time" /\ slot'[t] = numEntries % LogSize
        /\ UNCHANGED <<flogData, recent>>
    BY DEF TakeSlot, LogGoto, LogTypes, After
  <1>2. nNumEntries = numEntries /\ numEntries = Len(recent)
    BY <1>1 DEF AloneSound, AloneCounted, CountPcs
  <1>3. AloneCounted(t)'
    BY <1>1, <1>2 DEF AloneCounted, CountPcs, flogData
  <1>4. AloneHeld(t)'
    <2>1. logPc[t] \notin WritingPcs
      BY <1>1 DEF WritingPcs, CountPcs
    <2> QED BY <1>1, <2>1, Zenon DEF AloneSound, AloneHeld, flogData
  <1>5. AloneWritten(t)'
    BY <1>1, <1>2 DEF AloneWritten, WritingPcs, CountPcs
  <1> QED BY <1>3, <1>4, <1>5 DEF AloneSound

\* The fields are written where no entry is that must be held.
LEMMA WriteAlone ==
  ASSUME LogTypes, NEW t \in LogThreads, AloneSound(t), WriteField(t)
  PROVE  AloneSound(t)'
PROOF
  <1> DEFINE L == Len(recent)
  <1>1. /\ UNCHANGED <<numEntries, nNumEntries, logLocals, recent>>
        /\ \/ logPc[t] = "time" /\ logPc'[t] = "code"
                /\ flogEntries' = [flogEntries EXCEPT ![slot[t]].timestamp_ms = fault[t]]
           \/ logPc[t] = "code" /\ logPc'[t] = "param"
                /\ flogEntries' = [flogEntries EXCEPT ![slot[t]].code = fault[t]]
           \/ logPc[t] = "param" /\ logPc'[t] = "load"
                /\ flogEntries' = [flogEntries EXCEPT ![slot[t]].param = fault[t]]
    BY DEF WriteField, LogGoto, LogTypes, After
  <1>2. nNumEntries = numEntries /\ numEntries = L
    BY <1>1 DEF AloneSound, AloneCounted, CountPcs
  <1>3. AloneCounted(t)'
    BY <1>1, <1>2 DEF AloneCounted, CountPcs
  <1>4. slot[t] = L % LogSize /\ L \in Nat /\ slot[t] \in Slots
    BY <1>1 DEF AloneSound, AloneWritten, LogTypes, WritingPcs
  <1>5. /\ flogEntries \in [Slots -> Entry]
        /\ \A s \in Slots : s # slot[t] => flogEntries'[s] = flogEntries[s]
    BY <1>1 DEF LogTypes, Entry
  <1>6. AloneHeld(t)'
    <2> SUFFICES ASSUME NEW i \in 1 .. L, i - 1 > L - LogSize
                 PROVE  flogEntries'[(i - 1) % LogSize] = Whole(recent[i])
      <3>1. logPc'[t] \in WritingPcs
        BY <1>1 DEF WritingPcs
      <3> QED BY <1>1, <3>1, Zenon DEF AloneHeld
    <2>1. (i - 1) % LogSize # L % LogSize
      <3>1. i - 1 \in Nat /\ i - 1 < L /\ L - (i - 1) < LogSize
        BY <1>4, LogAssumption
      <3> HIDE DEF L
      <3> QED BY <1>4, <3>1, SlotsDiffer, LogAssumption
    <2>2. (i - 1) % LogSize \in Slots
      BY <1>4, LogAssumption DEF Slots
    <2>3. flogEntries[(i - 1) % LogSize] = Whole(recent[i])
      BY Zenon DEF AloneSound, AloneHeld
    <2> QED BY <1>4, <1>5, <2>1, <2>2, <2>3
  <1>7. AloneWritten(t)'
    <2>1. flogEntries[slot[t]] \in Entry
      BY <1>4, <1>5
    <2>2. logPc'[t] = "code" => flogEntries'[slot[t]].timestamp_ms = fault[t]
      BY <1>1, <1>4, <1>5, <2>1 DEF Entry
    <2>3. logPc'[t] = "param" => /\ flogEntries'[slot[t]].timestamp_ms = fault[t]
                                /\ flogEntries'[slot[t]].code = fault[t]
      <3> SUFFICES ASSUME logPc'[t] = "param"
                   PROVE  /\ flogEntries'[slot[t]].timestamp_ms = fault[t]
                          /\ flogEntries'[slot[t]].code = fault[t]
        OBVIOUS
      <3>1. flogEntries[slot[t]].timestamp_ms = fault[t]
        BY <1>1 DEF AloneSound, AloneWritten
      <3>2. flogEntries'[slot[t]] = [flogEntries[slot[t]] EXCEPT !.code = fault[t]]
        BY <1>1, <1>4, <1>5
      <3> QED BY <2>1, <3>1, <3>2 DEF Entry
    <2>4. logPc'[t] = "load" => flogEntries'[slot[t]] = Whole(fault[t])
      <3> SUFFICES ASSUME logPc'[t] = "load" PROVE flogEntries'[slot[t]] = Whole(fault[t])
        OBVIOUS
      <3>1. /\ flogEntries[slot[t]].timestamp_ms = fault[t]
            /\ flogEntries[slot[t]].code = fault[t]
        BY <1>1 DEF AloneSound, AloneWritten
      <3>2. flogEntries'[slot[t]] = [flogEntries[slot[t]] EXCEPT !.param = fault[t]]
        BY <1>1, <1>4, <1>5
      <3> QED BY <2>1, <3>1, <3>2 DEF Whole, Entry
    <2>5. logPc'[t] \in {"code", "param", "load"} /\ UNCHANGED logLocals /\ UNCHANGED recent
      BY <1>1
    <2> QED BY <1>4, <2>2, <2>3, <2>4, <2>5 DEF AloneWritten, WritingPcs, CountPcs, logLocals
  <1> QED BY <1>3, <1>6, <1>7 DEF AloneSound

\* The counter is read, for the increment and for the complement.
LEMMA LoadAlone ==
  ASSUME LogTypes, NEW t \in LogThreads, AloneSound(t), LoadCounter(t)
  PROVE  AloneSound(t)'
PROOF
  <1>1. /\ counter'[t] = numEntries /\ UNCHANGED <<flogData, fault, slot, recent>>
        /\ \/ logPc[t] = "load" /\ logPc'[t] = "store"
           \/ logPc[t] = "loadCount" /\ logPc'[t] = "storeCount"
    BY DEF LoadCounter, LogGoto, LogTypes, After
  <1>2. AloneCounted(t)'
    BY <1>1 DEF AloneSound, AloneCounted, CountPcs, flogData
  <1>3. AloneHeld(t)'
    <2>1. logPc[t] \in WritingPcs /\ logPc'[t] \in WritingPcs
      BY <1>1 DEF WritingPcs, CountPcs
    <2> QED BY <1>1, <2>1, Zenon DEF AloneSound, AloneHeld, flogData
  <1>4. AloneWritten(t)'
    BY <1>1 DEF AloneSound, AloneWritten, WritingPcs, CountPcs, flogData
  <1> QED BY <1>2, <1>3, <1>4 DEF AloneSound

\* The counter goes one ahead of its complement.
LEMMA StoreAlone ==
  ASSUME LogTypes, NEW t \in LogThreads, AloneSound(t), StoreCounter(t)
  PROVE  AloneSound(t)'
PROOF
  <1>1. /\ logPc[t] = "store" /\ logPc'[t] = "loadCount" /\ numEntries' = counter[t] + 1
        /\ UNCHANGED <<nNumEntries, flogEntries, logLocals, recent>>
    BY DEF StoreCounter, LogGoto, LogTypes, After
  <1>2. nNumEntries = numEntries /\ numEntries = Len(recent) /\ counter[t] = numEntries
    BY <1>1 DEF AloneSound, AloneCounted, AloneWritten, CountPcs
  <1>3. AloneCounted(t)'
    BY <1>1, <1>2 DEF AloneCounted, CountPcs
  <1>4. AloneHeld(t)'
    <2>1. logPc[t] \in WritingPcs /\ logPc'[t] \in WritingPcs
      BY <1>1 DEF WritingPcs, CountPcs
    <2> QED BY <1>1, <2>1, Zenon DEF AloneSound, AloneHeld
  <1>5. AloneWritten(t)'
    BY <1>1 DEF AloneSound, AloneWritten, WritingPcs, CountPcs, logLocals
  <1> QED BY <1>3, <1>4, <1>5 DEF AloneSound

\* The complement makes the log valid again, with one fault more.
LEMMA StoreCountAlone ==
  ASSUME LogTypes, Roles, NEW t \in LogThreads, AloneSound(t), StoreCount(t)
  PROVE  AloneSound(t)'
PROOF
  <1> DEFINE L == Len(recent)
  <1>1. /\ logPc[t] = "storeCount" /\ logPc'[t] = "idle" /\ nNumEntries' = counter[t]
        /\ recent' = Append(recent, fault[t]) /\ UNCHANGED <<numEntries, flogEntries>>
    BY DEF StoreCount, LogGoto, LogTypes
  <1>2. numEntries = L + 1 /\ counter[t] = numEntries
    BY <1>1 DEF AloneSound, AloneCounted, AloneWritten, CountPcs
  <1>3. slot[t] = L % LogSize /\ flogEntries[slot[t]] = Whole(fault[t])
    BY <1>1 DEF AloneSound, AloneWritten, WritingPcs, CountPcs
  <1>4. L \in Nat /\ Len(recent') = L + 1 /\ recent'[L + 1] = fault[t]
        /\ \A i \in 1 .. L : recent'[i] = recent[i]
    <2>1. recent \in Seq(1 .. MaxFaults)
      BY DEF LogTypes
    <2> QED BY <1>1, <2>1
  <1>5. AloneCounted(t)'
    BY <1>1, <1>2, <1>4 DEF AloneCounted, CountPcs
  <1>6. AloneHeld(t)'
    <2> SUFFICES ASSUME NEW i \in 1 .. L + 1, i - 1 >= (L + 1) - LogSize
                 PROVE  flogEntries[(i - 1) % LogSize] = Whole(recent'[i])
      BY <1>1, <1>4, LogAssumption DEF AloneHeld
    <2>1. CASE i = L + 1
      BY <1>3, <1>4, <2>1
    <2>2. CASE i \in 1 .. L
      <3>1. i - 1 > L - LogSize
        BY <1>4, LogAssumption
      <3>2. flogEntries[(i - 1) % LogSize] = Whole(recent[i])
        BY <2>2, <3>1, Zenon DEF AloneSound, AloneHeld
      <3> QED BY <1>4, <2>2, <3>2
    <2> QED BY <1>4, <2>1, <2>2
  <1>7. AloneWritten(t)'
    BY <1>1 DEF AloneWritten, WritingPcs, CountPcs
  <1> QED BY <1>5, <1>6, <1>7 DEF AloneSound

-----------------------------------------------------------------------------
(***************************************************************************)
(* The inductive invariant.                                                *)
(***************************************************************************)

\* The steps of flog.cpp, of a thread that has begun.
LEMMA ThreadSound ==
  ASSUME LogTypes, Roles, Roles', Sound, NEW t \in LogThreads, spoilt' = spoilt,
         logPc[t] # "clear",
         Check(t) \/ Memset(t) \/ ClearCount(t) \/ TakeSlot(t) \/ WriteField(t)
           \/ LoadCounter(t) \/ StoreCounter(t) \/ StoreCount(t)
  PROVE  Sound'
PROOF
  <1>1. logPc[t] \notin Quiet /\ \E p : LogGoto(t, p)
    <2>1. logPc[t] # "idle"
      BY DEF Check, Memset, ClearCount, TakeSlot, WriteField, LoadCounter, StoreCounter, StoreCount
    <2>2. \E p : LogGoto(t, p)
      BY Zenon DEF Check, Memset, ClearCount, TakeSlot, WriteField, LoadCounter, StoreCounter,
                   StoreCount
    <2> QED BY <2>1, <2>2 DEF Quiet
  <1>2. AloneAt(t) /\ AloneSound(t)
    BY <1>1, AloneBefore
  <1>3. CASE Memset(t)
    <2>1. logPc[t] # "addClear"
      BY <1>2 DEF AloneSound, AloneCounted
    <2>2. logPc[t] = "bootClear"
      BY <1>3, <2>1 DEF Memset
    <2>3. recent' = recent /\ t = LogMain
      BY <1>3, <2>2 DEF Memset, Roles, MainOnly
    <2>4. recent' = <<>>
      BY <1>2, <2>2, <2>3 DEF AloneSound, AloneCounted
    <2>5. AloneSound(t)'
      BY <1>3, <2>1, <2>3, <2>4, MemsetAlone
    <2> QED BY <1>1, <1>2, <2>5, AloneStep
  <1>4. ASSUME ~Memset(t) PROVE AloneSound(t)'
    BY <1>2, <1>4, CheckAlone, ClearCountAlone, TakeSlotAlone, WriteAlone, LoadAlone, StoreAlone,
       StoreCountAlone, Zenon
  <1> QED BY <1>1, <1>2, <1>3, <1>4, AloneStep

\* The console clears the log: what is then unspoilt is the log of a thread that is
\* alone, whatever it was before.
LEMMA ClearSound ==
  ASSUME LogTypes, Roles, Roles', NEW t \in LogThreads, Memset(t), logPc[t] = "clear",
         \A u \in LogThreads \ {t} : logPc[u] = "idle"
  PROVE  Sound'
PROOF
  <1>1. t = LogMain /\ recent' = <<>> /\ LogGoto(t, "clearCount")
    BY DEF Memset, Roles, MainOnly
  <1>2. AloneAt(t)
    BY DEF AloneAt, Quiet
  <1>3. AloneSound(t)'
    BY <1>1, MemsetAlone
  <1> QED BY <1>1, <1>2, <1>3, AloneStep

\* A call begins, of a thread that will be alone: the log is valid.
LEMMA CallSound ==
  ASSUME LogTypes, Roles, Roles', Sound, NEW t \in LogThreads, CallAddError(t),
         \A u \in LogThreads \ {t} : logPc[u] = "idle"
  PROVE  Sound'
PROOF
  <1>1. /\ logPc[t] = "idle" /\ LogGoto(t, "check") /\ logPc'[t] = "check"
        /\ UNCHANGED <<flogData, recent>>
    BY DEF CallAddError, LogGoto, LogTypes
  <1>2. AloneAt(t) /\ \A u \in LogThreads : logPc[u] = "idle"
    BY <1>1 DEF AloneAt, Quiet
  <1>3. nNumEntries = numEntries /\ numEntries = Len(recent)
    BY <1>2, LogAssumption DEF Sound, Counted, CountPcs
  <1>4. AloneCounted(t)'
    BY <1>1, <1>3 DEF AloneCounted, CountPcs, flogData
  <1>5. AloneHeld(t)'
    <2>1. \A u \in LogThreads : logPc[u] \notin WritingPcs
      BY <1>2 DEF WritingPcs, CountPcs
    <2> QED BY <1>1, <2>1, Zenon DEF Sound, Held, AloneHeld, flogData
  <1>6. AloneWritten(t)'
    BY <1>1 DEF AloneWritten, WritingPcs, CountPcs
  <1> QED BY <1>1, <1>2, <1>4, <1>5, <1>6, AloneStep DEF AloneSound

\* The console waits: nothing else changes.
LEMMA WaitSound ==
  ASSUME LogTypes, Sound, CallClear
  PROVE  Sound'
PROOF
  <1>1. /\ logPc[LogMain] = "idle" /\ UNCHANGED <<flogData, logLocals, recent>>
        /\ logPc' = [logPc EXCEPT ![LogMain] = "clear"]
    BY DEF CallClear, LogGoto
  <1>2. logPc'[LogMain] = "clear" /\ \A u \in LogThreads : u # LogMain => logPc'[u] = logPc[u]
    BY <1>1, LogAssumption DEF LogTypes
  <1>3. Solo'
    BY <1>1, <1>2 DEF Sound, Solo, Quiet
  <1>4. \A p \in LogPcs \ {"idle", "clear"} : \A u \in LogThreads : logPc'[u] = p <=> logPc[u] = p
    BY <1>1, <1>2 DEF LogTypes
  <1>5. Counted'
    <2>1. (\A u \in LogThreads : logPc[u] \notin CountPcs) <=>
            (\A u \in LogThreads : logPc'[u] \notin CountPcs)
      BY <1>1, <1>2 DEF CountPcs
    <2>2. \A u \in LogThreads : logPc'[u] \in CountPcs =>
            numEntries = Len(recent) + 1 /\ nNumEntries = Len(recent)
      BY <1>1, <1>2 DEF CountPcs, Sound, Counted
    <2>3. \A u \in LogThreads : logPc'[u] \notin {"addClear", "addClearCount"}
      BY <1>1, <1>2 DEF Sound, Counted
    <2>4. (\A u \in LogThreads : logPc'[u] \notin CountPcs) =>
            nNumEntries = numEntries /\ numEntries = Len(recent)
      BY <1>1, <2>1 DEF Sound, Counted
    <2> QED BY <1>1, <1>2, <2>2, <2>3, <2>4 DEF Counted, flogData
  <1>6. Held'
    <2>1. (\A u \in LogThreads : logPc[u] \notin WritingPcs) <=>
            (\A u \in LogThreads : logPc'[u] \notin WritingPcs)
      BY <1>1, <1>2 DEF WritingPcs, CountPcs
    <2> QED BY <1>1, <2>1, Zenon DEF Sound, Held, flogData
  <1>7. Written'
    <2>1. \A u \in LogThreads : logPc'[u] \in WritingPcs \cup {"time"} => logPc'[u] = logPc[u]
      BY <1>1, <1>2 DEF WritingPcs, CountPcs
    <2> QED BY <1>1, <2>1 DEF Sound, Written, WritingPcs, CountPcs, flogData, logLocals
  <1> QED BY <1>3, <1>5, <1>6, <1>7 DEF Sound

\* A reset keeps the log as it is, or leaves one that is not valid and that the boot
\* will initialise.
LEMMA ResetSound ==
  ASSUME LogTypes, Roles, Sound, LogReset,
         \A t \in LogThreads : ~(numEntries >= LogSize /\ logPc[t] \in {"code", "param", "load", "store"})
  PROVE  Sound'
PROOF
  <1>1. /\ logPc' = [t \in LogThreads |-> IF t = LogMain THEN "boot" ELSE "idle"]
        /\ UNCHANGED <<flogData, logLocals>>
        /\ recent' = IF \E t \in LogThreads : logPc[t] \in CountPcs THEN <<>> ELSE recent
    BY DEF LogReset, CountPcs
  <1>2. logPc'[LogMain] = "boot" /\ \A u \in LogThreads : u # LogMain => logPc'[u] = "idle"
    BY <1>1, LogAssumption
  <1>3. Solo'
    BY <1>2 DEF Solo, Quiet
  <1>4. Written'
    BY <1>2 DEF Written, WritingPcs, CountPcs
  <1>5. CASE \E t \in LogThreads : logPc[t] \in CountPcs
    <2>1. nNumEntries # numEntries /\ recent' = <<>>
      <3>1. PICK t \in LogThreads : logPc[t] \in CountPcs
        BY <1>5
      <3>2. numEntries = Len(recent) + 1 /\ nNumEntries = Len(recent)
        BY <3>1, Zenon DEF Sound, Counted
      <3>3. Len(recent) \in Nat
        BY DEF LogTypes
      <3> QED BY <1>1, <1>5, <3>2, <3>3
    <2>2. Counted'
      BY <1>1, <1>2, <2>1 DEF Counted, CountPcs, flogData
    <2>3. Held'
      BY <2>1 DEF Held
    <2> QED BY <1>3, <1>4, <2>2, <2>3 DEF Sound
  <1>6. CASE \A t \in LogThreads : logPc[t] \notin CountPcs
    <2>1. recent' = recent
      BY <1>1, <1>6
    <2>2. Counted'
      BY <1>1, <1>2, <1>6, <2>1 DEF Sound, Counted, CountPcs, flogData
    <2>3. Held'
      <3> SUFFICES ASSUME NEW i \in 1 .. Len(recent), i - 1 >= Len(recent) - LogSize
                   PROVE  flogEntries[(i - 1) % LogSize] = Whole(recent[i])
        BY <1>1, <2>1, LogAssumption DEF Held, flogData, LogTypes
      <3>1. CASE i - 1 > Len(recent) - LogSize
        BY <3>1, Zenon DEF Sound, Held
      <3>2. CASE i - 1 = Len(recent) - LogSize
        <4>1. numEntries = Len(recent)
          <5>1. recent # <<>>
            BY DEF LogTypes
          <5> QED BY <1>6, <5>1, Zenon DEF Sound, Counted
        <4>2. numEntries >= LogSize
          BY <3>2, <4>1, LogAssumption DEF LogTypes
        <4>3. \A t \in LogThreads : logPc[t] \notin WritingPcs
          BY <1>6, <4>2 DEF WritingPcs
        <4> QED BY <3>2, <4>3, Zenon DEF Sound, Held
      <3>3. Len(recent) \in Nat
        BY DEF LogTypes
      <3>4. i - 1 > Len(recent) - LogSize \/ i - 1 = Len(recent) - LogSize
        BY <3>3, LogAssumption
      <3> QED BY <3>1, <3>2, <3>4
    <2> QED BY <1>3, <1>4, <2>2, <2>3 DEF Sound
  <1> QED BY <1>5, <1>6

\* The first log is not valid, and empty.
LEMMA InitInv == LogInit => LogInv
PROOF
  <1> SUFFICES ASSUME LogInit PROVE LogInv
    OBVIOUS
  <1>1. LogTypes /\ Counts /\ Roles
    BY InitTypes
  <1>2. logPc[LogMain] = "boot" /\ \A u \in LogThreads : u # LogMain => logPc[u] = "idle"
    BY LogAssumption DEF LogInit
  <1>3. numEntries = 0 /\ nNumEntries = NoCount /\ recent = <<>>
    BY DEF LogInit
  <1>4. Solo
    BY <1>2 DEF Solo, Quiet
  <1>5. Counted
    BY <1>2, <1>3 DEF Counted, CountPcs, NoCount
  <1>6. Held
    BY <1>3 DEF Held
  <1>7. Written
    BY <1>2 DEF Written, WritingPcs, CountPcs
  <1> QED BY <1>1, <1>4, <1>5, <1>6, <1>7 DEF LogInv, Sound

\* Every step keeps the invariant.
LEMMA NextInv == LogInv /\ [LogNext]_logVars => LogInv'
PROOF
  <1> SUFFICES ASSUME LogInv, [LogNext]_logVars PROVE LogInv'
    OBVIOUS
  <1>1. LogTypes /\ Counts /\ Roles /\ (~spoilt => Sound)
    BY Zenon DEF LogInv
  <1>2. LogTypes' /\ Counts' /\ Roles'
    BY <1>1, NextTypes
  <1>3. ASSUME ~spoilt' PROVE Sound'
    <2>1. ASSUME NEW t \in LogThreads, CallAddError(t) PROVE Sound'
      <3>1. ~spoilt /\ \A u \in LogThreads \ {t} : logPc[u] = "idle"
        BY <1>3, <2>1, Zenon DEF CallAddError
      <3> QED BY <1>1, <1>2, <2>1, <3>1, CallSound, Zenon
    <2>2. ASSUME NEW t \in LogThreads, Memset(t), logPc[t] = "clear" PROVE Sound'
      <3>1. \A u \in LogThreads \ {t} : logPc[u] = "idle"
        BY <1>3, <2>2, Zenon DEF Memset
      <3> QED BY <1>1, <1>2, <2>2, <3>1, ClearSound
    <2>3. ASSUME NEW t \in LogThreads, logPc[t] # "clear",
                 Check(t) \/ Memset(t) \/ ClearCount(t) \/ TakeSlot(t) \/ WriteField(t)
                   \/ LoadCounter(t) \/ StoreCounter(t) \/ StoreCount(t)
          PROVE  Sound'
      <3>1. spoilt' = spoilt
        BY <2>3, Zenon DEF Check, Memset, ClearCount, TakeSlot, WriteField, LoadCounter,
                           StoreCounter, StoreCount
      <3>2. Sound
        BY <1>1, <1>3, <3>1, Zenon
      <3> QED BY <1>1, <1>2, <2>3, <3>1, <3>2, ThreadSound
    <2>4. ASSUME NEW t \in LogThreads, logPc[t] = "clear", LogStep(t) PROVE Memset(t)
      BY <2>4 DEF LogStep, CallAddError, Check, ClearCount, TakeSlot, WriteField, LoadCounter,
                  StoreCounter, StoreCount
    <2>5. ASSUME NEW t \in LogThreads, LogStep(t) PROVE Sound'
      BY <2>1, <2>2, <2>3, <2>4, <2>5, Zenon DEF LogStep
    <2>6. CASE CallClear
      <3>1. spoilt' = spoilt
        BY <2>6, Zenon DEF CallClear
      <3> QED BY <1>1, <1>3, <2>6, <3>1, WaitSound, Zenon
    <2>7. CASE LogReset
      <3>1. ~spoilt /\ \A t \in LogThreads :
                         ~(numEntries >= LogSize /\ logPc[t] \in {"code", "param", "load", "store"})
        BY <1>3, <2>7, Zenon DEF LogReset
      <3>2. Sound
        BY <1>1, <3>1, Zenon
      <3> QED BY <1>1, <2>7, <3>1, <3>2, ResetSound
    <2>8. CASE UNCHANGED logVars
      <3>1. spoilt' = spoilt
        BY <2>8, Zenon DEF logVars
      <3>2. Sound
        BY <1>1, <1>3, <3>1, Zenon
      <3>3. UNCHANGED <<numEntries, nNumEntries, flogEntries, logPc, fault, slot, counter, recent>>
        BY <2>8 DEF logVars, flogData, logLocals
      <3> QED BY <3>2, <3>3 DEF Sound, Solo, Counted, Held, Written
    <2> QED BY <2>5, <2>6, <2>7, <2>8, Zenon DEF LogNext
  <1> QED BY <1>2, <1>3, Zenon DEF LogInv

\* The inductive invariant holds throughout.
THEOREM LogInductive == LogSpec => []LogInv
PROOF
  BY InitInv, NextInv, PTL DEF LogSpec

-----------------------------------------------------------------------------

\* A log that is valid and not spoilt, with no call under way, shows the last faults.
LEMMA ShownIsLast == LogInv => LogIsRecent
PROOF
  <1> SUFFICES ASSUME LogInv, FLOG_IsInitialized, ~spoilt, \A t \in LogThreads : ~InAdd(t)
               PROVE  Shown = [i \in DOMAIN Last(LogSize, recent) |->
                                 Whole(Last(LogSize, recent)[i])]
    BY Zenon DEF LogIsRecent, Whole
  <1> DEFINE L     == Len(recent)
             first == IF L > LogSize THEN L - LogSize ELSE 0
  <1>1. Sound /\ LogTypes
    BY Zenon DEF LogInv
  <1>2. \A t \in LogThreads : logPc[t] \notin WritingPcs
    BY DEF InAdd, WritingPcs, CountPcs
  <1>3. numEntries = L
    BY <1>1, <1>2 DEF Sound, Counted, WritingPcs, FLOG_IsInitialized
  <1>4. recent \in Seq(1 .. MaxFaults) /\ L \in Nat /\ first \in 0 .. L
    BY <1>1, LogAssumption DEF LogTypes
  <1>5. /\ Len(Last(LogSize, recent)) = L - first
        /\ \A i \in 1 .. L - first : Last(LogSize, recent)[i] = recent[first + i]
        /\ DOMAIN Last(LogSize, recent) = 1 .. L - first
    <2>1. Last(LogSize, recent) = SubSeq(recent, first + 1, L)
      BY <1>4, LogAssumption DEF Last
    <2> HIDE DEF first, L
    <2>2. SubSeq(recent, first + 1, L) = [i \in 1 .. L - first |-> recent[first + i]]
      BY <1>4 DEF L
    <2>3. Len(SubSeq(recent, first + 1, L)) = L - first
      BY <1>4 DEF L
    <2> QED BY <2>1, <2>2, <2>3
  <1>6. ASSUME NEW i \in 1 .. L - first
        PROVE  flogEntries[(first + i - 1) % LogSize] = Whole(recent[first + i])
    <2> DEFINE k == first + i
    <2>1. k \in 1 .. L /\ k - 1 >= L - LogSize /\ first + i - 1 = k - 1
      BY <1>4, LogAssumption
    <2> HIDE DEF k, first
    <2>2. k - 1 > L - LogSize \/ k - 1 = L - LogSize
      BY <1>4, <2>1, LogAssumption
    <2>3. flogEntries[(k - 1) % LogSize] = Whole(recent[k])
      BY <1>1, <1>2, <2>1, <2>2, Zenon DEF Sound, Held
    <2> QED BY <2>1, <2>3 DEF k
  <1>7. Shown = [i \in 1 .. L - first |-> flogEntries[(first + i - 1) % LogSize]]
    BY <1>3, Zenon DEF Shown
  <1> HIDE DEF first, L
  <1> QED BY <1>5, <1>6, <1>7

\* The log survives resets, for every size of the ring and any number of threads: when
\* no call is under way a valid log shows the last faults added since it was cleared.
THEOREM SurvivesResets == LogSpec => []LogIsRecent
PROOF
  BY LogInductive, ShownIsLast, PTL

\* The flag, apart: it is a Boolean.
SpoiltTyped == spoilt \in BOOLEAN

\* The variables stay within their types, however the calls overlap: increments are
\* lost, and the counter never exceeds the calls.
THEOREM LogTyped == LogSpec => []LogTypeOK
PROOF
  <1>1. LogInit => SpoiltTyped
    BY Zenon DEF LogInit, SpoiltTyped
  <1>2. SpoiltTyped /\ [LogNext]_logVars => SpoiltTyped'
    BY Zenon DEF SpoiltTyped, LogNext, LogStep, CallAddError, Check, Memset, ClearCount, TakeSlot,
                 WriteField, LoadCounter, StoreCounter, StoreCount, CallClear, LogReset, logVars
  <1>3. LogInv /\ SpoiltTyped => LogTypeOK
    BY Zenon DEF LogInv, LogTypes, SpoiltTyped, LogTypeOK
  <1>4. LogSpec => []SpoiltTyped
    BY <1>1, <1>2, PTL DEF LogSpec
  <1> QED BY <1>3, <1>4, LogInductive, PTL

-----------------------------------------------------------------------------
(***************************************************************************)
(* Both, as they run beside each other.                                    *)
(***************************************************************************)

\* A behavior of both is one of the sensor and one of the log, so that what is proved of
\* either holds of it.
THEOREM BothSides == Spec => ImuSpec /\ LogSpec
PROOF
  <1>1. Init => ImuInit /\ LogInit
    BY DEF Init
  <1>2. [Next]_<<side, imuVars, logVars>> => [ImuNext]_imuVars /\ [LogNext]_logVars
    BY Zenon DEF Next
  <1> QED BY <1>1, <1>2, PTL DEF Spec, ImuSpec, LogSpec

\* The variables stay within their types, of either.
THEOREM BothTyped == Spec => []TypeOK
PROOF
  <1>1. ImuTypeOK /\ LogTypeOK => TypeOK
    BY DEF TypeOK
  <1> QED BY <1>1, BothSides, ImuTyped, LogTyped, PTL

==============================================================================
