-------------------------- MODULE SchedulerProofs --------------------------
(***************************************************************************)
(* Proofs about Scheduler: for every table of tasks, every clock at boot,  *)
(* every overshoot of the waiting loop and every delay of start-up and of  *)
(* setSessionTime, as long as the clock stays below UINT32_MAX by what the *)
(* table adds to it (TimeAssumption).                                      *)
(***************************************************************************)
EXTENDS Scheduler, FiniteSetTheorems, TLAPS, WellFoundedInduction

\* How far the time of a task may be ahead.
Ahead(i) == IF Periodic(i) THEN Interval[i] ELSE 0

\* What holds of the time of a task that is not being waited for.
Settled(i) ==
  /\ nextRunTime[i] # Never => nextRunTime[i] <= now + Ahead(i)
  /\ Periodic(i) => nextRunTime[i] # Never
  /\ Periodic(i) /\ started[i] >= 0 => nextRunTime[i] >= started[i] + Interval[i] - Slip

\* What holds of the task picked: it ends before any of a higher priority is due.
Picked ==
  /\ now <= start
  /\ Periodic(task) => nextRunTime[task] # Never
  /\ nextRunTime[task] = IF Periodic(task) THEN start + Interval[task] ELSE Never
  /\ \A j \in 1 .. task - 1 : nextRunTime[j] >= start + Duration[task]
  /\ Periodic(task) /\ started[task] >= 0 => start >= started[task] + Interval[task] - Slip

(***************************************************************************)
(* The inductive invariant.  NoInversion alone is not inductive: the times *)
(* the choice was made from are those of the pick, the measurement ends    *)
(* later, and only a bound on how far times are ahead keeps the addition   *)
(* of the completion from wrapping.                                        *)
(***************************************************************************)
IInv ==
  /\ TypeOK
  /\ pc \in {"loop", "pick"} => \A i \in Task : Settled(i)
  /\ NoInversion
  /\ pc = "wait" => (\A i \in Task \ {task} : Settled(i)) /\ Picked

-----------------------------------------------------------------------------
\* The constants, in the form the steps below use them.
LEMMA Constants ==
  /\ Tasks \in Nat /\ 1 \in Task /\ Task \subseteq Nat
  /\ Word \in Nat /\ Never \in Nat /\ Never = Word - 1
  /\ Slip \in Nat /\ Horizon \in Nat /\ Horizon < Never
  /\ Delays \subseteq Nat
  /\ \A d \in Delays : Boot + d \in Nat /\ Boot + d <= Horizon
  /\ \A i \in Task : /\ Interval[i] \in 1 .. Never
                     /\ Duration[i] \in Nat /\ Duration[i] >= 1
                     /\ Ahead(i) \in Nat
                     /\ Horizon + Ahead(i) + Duration[i] < Never
                     /\ Horizon + 2 * Ahead(i) < Never
<1>1. /\ Tasks \in Nat /\ 1 \in Task /\ Task \subseteq Nat
      /\ Word \in Nat /\ Slip \in Nat /\ Horizon \in Nat
      /\ Delays \subseteq Nat
      /\ \A d \in Delays : Boot + d \in Nat /\ Boot + d <= Horizon
  BY TableAssumption, TimeAssumption DEF Task
<1>2. ASSUME NEW i \in Task
      PROVE  /\ Interval[i] \in 1 .. Never
             /\ Duration[i] \in Nat /\ Duration[i] >= 1
             /\ Horizon + Duration[i] < Never
             /\ Periodic(i) => Horizon + 2 * Interval[i] + Duration[i] < Never
  BY TableAssumption, TimeAssumption DEF Periodic
<1>3. Never \in Nat /\ Never = Word - 1 /\ Horizon < Never
  BY <1>1, <1>2 DEF Never
<1>4. ASSUME NEW i \in Task
      PROVE  /\ Ahead(i) \in Nat
             /\ Horizon + Ahead(i) + Duration[i] < Never
             /\ Horizon + 2 * Ahead(i) < Never
  BY <1>1, <1>2, <1>3 DEF Ahead
<1> QED
  BY <1>1, <1>2, <1>3, <1>4

\* The times the scheduler computes from a time at most Ahead away do not wrap.
LEMMA NoWrap ==
  ASSUME NEW i \in Task, NEW time \in Nat, time <= Horizon + Ahead(i)
  PROVE  /\ (time + Duration[i]) % Word = time + Duration[i]
         /\ Rescheduled(i, time) = IF Periodic(i) THEN time + Interval[i] ELSE Never
<1>1. time + Duration[i] \in 0 .. Never
  BY Constants
<1>2. ASSUME Periodic(i) PROVE time + Interval[i] \in 0 .. Never
  BY <1>2, Constants DEF Ahead
<1>3. ASSUME NEW x \in 0 .. Never PROVE x % Word = x
  BY Constants
<1> QED
  BY <1>1, <1>2, <1>3 DEF Rescheduled, Periodic

\* The first state satisfies the invariant.
LEMMA InitIInv == Init => IInv
<1> SUFFICES ASSUME Init PROVE IInv
  OBVIOUS
<1>1. /\ now \in Nat /\ now <= Horizon
      /\ nextRunTime \in [Task -> 0 .. Never]
      /\ \A i \in Task : nextRunTime[i] \in Nat /\ nextRunTime[i] <= now
                       /\ nextRunTime[i] # Never
  <2>1. PICK d \in Delays : now = Boot + d
    BY DEF Init
  <2>2. now \in Nat /\ now <= Horizon
    BY <2>1, Constants
  <2>3. ASSUME NEW t \in {Boot + e : e \in Delays} PROVE t \in 0 .. Never /\ t # Never
    BY Constants
  <2>4. ASSUME NEW i \in Task PROVE nextRunTime[i] \in {Boot + e : e \in Delays}
    BY DEF Init, initializeScheduler
  <2>5. nextRunTime \in [Task -> 0 .. Never]
    BY <2>3, <2>4 DEF Init, initializeScheduler
  <2> QED
    BY <2>2, <2>3, <2>4, <2>5 DEF Init
<1>2. TypeOK
  BY <1>1, Constants DEF Init, TypeOK
<1>3. ASSUME NEW i \in Task PROVE Settled(i)
  BY <1>1, Constants DEF Init, Settled, Ahead
<1>4. NoInversion
  BY Constants DEF Init, NoInversion
<1> QED
  BY <1>2, <1>3, <1>4 DEF Init, IInv

\* Setting the session time moves only the clock, and no task has just run into
\* the time of another.
LEMMA SessionKeeps == IInv /\ (SetSessionTime \/ SkipSessionTime) => IInv'
<1> SUFFICES ASSUME IInv, SetSessionTime \/ SkipSessionTime PROVE IInv'
  OBVIOUS
<1>1. /\ TypeOK /\ pc' = "pick" /\ UNCHANGED <<nextRunTime, task, start, started>>
      /\ \A i \in Task : Settled(i)
  BY DEF IInv, SetSessionTime, SkipSessionTime
<1>2. now \in Nat /\ now' \in Nat /\ now <= now' /\ since' \in Nat /\ sessionTimeSet' \in BOOLEAN
  <2>1. CASE SetSessionTime
    <3>1. PICK d \in Delays : now' = now + d
      BY <2>1 DEF SetSessionTime
    <3>2. d \in Nat /\ now \in Nat
      BY <1>1, Constants DEF TypeOK
    <3> QED
      BY <2>1, <3>1, <3>2 DEF SetSessionTime
  <2>2. CASE SkipSessionTime
    BY <1>1, <2>2 DEF SkipSessionTime, TypeOK
  <2> QED
    BY <2>1, <2>2
<1>3. TypeOK'
  BY <1>1, <1>2 DEF TypeOK
<1>4. ASSUME NEW i \in Task PROVE Settled(i)'
  <2>1. nextRunTime[i] \in Nat /\ Ahead(i) \in Nat
    BY <1>1, Constants DEF TypeOK
  <2>2. nextRunTime[i] # Never => nextRunTime[i] <= now' + Ahead(i)
    BY <1>1, <1>2, <2>1 DEF Settled
  <2> QED
    BY <1>1, <2>2 DEF Settled, Periodic, Ahead
<1> QED
  BY <1>1, <1>3, <1>4 DEF IInv, NoInversion

\* The pick: what was compared with the times of higher priorities is the end
\* of the measurement itself.
LEMMA PickKeeps == IInv /\ GetNextTask => IInv'
<1> SUFFICES ASSUME IInv, GetNextTask PROVE IInv'
  OBVIOUS
<1>1. /\ TypeOK /\ pc = "pick" /\ now <= Horizon /\ pc' = "wait"
      /\ now' = now /\ started' = started /\ since' = since
      /\ sessionTimeSet' = sessionTimeSet
      /\ \A i \in Task : Settled(i)
  BY DEF IInv, GetNextTask
<1>2. PICK i \in Task : /\ Chosen(i)
                        /\ task' = i
                        /\ start' = Later(now, nextRunTime[i])
                        /\ nextRunTime' = [nextRunTime EXCEPT ![i] = Rescheduled(i, start')]
  BY DEF GetNextTask
<1>3. /\ now \in Nat /\ nextRunTime \in [Task -> 0 .. Never] /\ nextRunTime[i] \in Nat
      /\ started \in [Task -> Nat \union {-1}]
  BY <1>1, Constants DEF TypeOK
<1>4. CanRun(i) /\ nextRunTime[i] # Never
  BY <1>2 DEF Chosen, CanRun
<1>5. /\ start' \in Nat /\ now <= start' /\ nextRunTime[i] <= start'
      /\ start' <= Horizon + Ahead(i)
  <2>1. nextRunTime[i] <= now + Ahead(i) /\ Ahead(i) \in Nat
    BY <1>1, <1>4, Constants DEF Settled, Ahead
  <2> QED
    BY <1>1, <1>2, <1>3, <2>1, Constants DEF Later
<1>6. /\ Completion(i) = start' + Duration[i]
      /\ Rescheduled(i, start') = IF Periodic(i) THEN start' + Interval[i] ELSE Never
  BY <1>2, <1>5, NoWrap DEF Completion
<1>7. Rescheduled(i, start') \in 0 .. Never
  BY <1>5, <1>6, Constants DEF Ahead
<1>8. TypeOK'
  BY <1>1, <1>2, <1>3, <1>5, <1>7 DEF TypeOK
<1>9. ASSUME NEW j \in Task \ {task'} PROVE Settled(j)'
  <2>1. nextRunTime'[j] = nextRunTime[j] /\ Settled(j)
    BY <1>1, <1>2, <1>3
  <2> QED
    BY <1>1, <2>1 DEF Settled, Periodic, Ahead
<1>10. Picked'
  <2>1. /\ nextRunTime'[task'] = IF Periodic(task') THEN start' + Interval[task'] ELSE Never
        /\ Periodic(task') => nextRunTime'[task'] # Never
    <3>1. nextRunTime'[task'] = Rescheduled(i, start') /\ task' = i
      BY <1>2, <1>3
    <3>2. Periodic(i) => start' + Interval[i] < Never
      BY <1>5, Constants DEF Ahead
    <3> QED
      BY <1>5, <1>6, <3>1, <3>2, Constants
  <2>2. ASSUME NEW j \in 1 .. i - 1 PROVE nextRunTime'[j] >= start' + Duration[i]
    <3>1. j \in Task /\ j # i
      BY Constants DEF Task
    <3>2. nextRunTime[j] >= Completion(i)
      BY <1>4 DEF CanRun
    <3> QED
      BY <1>2, <1>3, <1>6, <3>1, <3>2
  <2>3. Periodic(i) /\ started[i] >= 0 => start' >= started[i] + Interval[i] - Slip
    <3>1. Periodic(i) /\ started[i] >= 0 => nextRunTime[i] >= started[i] + Interval[i] - Slip
      BY <1>1 DEF Settled
    <3>2. started[i] \in Int /\ Interval[i] \in Int /\ Slip \in Int
      BY <1>3, Constants
    <3> QED
      BY <1>3, <1>5, <3>1, <3>2
  <2> QED
    BY <1>1, <1>2, <1>5, <2>1, <2>2, <2>3 DEF Picked, Periodic
<1> QED
  BY <1>1, <1>8, <1>9, <1>10 DEF IInv, NoInversion

-----------------------------------------------------------------------------
\* What a measurement does to the clock and to the time of its task.
LEMMA MeasureBounds ==
  ASSUME IInv, Measure
  PROVE  \E time \in Nat : /\ start <= time /\ time <= start + Slip
                           /\ time <= now' /\ now' <= time + Duration[task]
                           /\ now' \in Nat /\ now <= now'
                           /\ started' = [started EXCEPT ![task] = time]
<1>1. TypeOK /\ Picked /\ pc = "wait"
  BY DEF IInv, Measure
<1>2. /\ now \in Nat /\ start \in Nat /\ task \in Task /\ now <= start
      /\ Duration[task] \in Nat /\ Slip \in Nat
  BY <1>1, Constants DEF TypeOK, Picked
<1>3. PICK slip \in 0 .. (IF now < start THEN Slip ELSE 0) : \E d \in 0 .. Duration[task] :
        /\ now' = Later(now, start) + slip + d
        /\ started' = [started EXCEPT ![task] = Later(now, start) + slip]
  BY DEF Measure
<1>4. PICK d \in 0 .. Duration[task] :
        /\ now' = Later(now, start) + slip + d
        /\ started' = [started EXCEPT ![task] = Later(now, start) + slip]
  BY <1>3
<1>5. Later(now, start) = start /\ slip \in 0 .. Slip
  BY <1>2 DEF Later
<1> start + slip \in Nat /\ start + slip + d \in Nat
  BY <1>2, <1>5
<1> WITNESS start + slip \in Nat
<1> QED
  BY <1>2, <1>4, <1>5

\* The measurement: its end is at most Slip past what the pick compared.
LEMMA MeasureKeeps == IInv /\ Measure => IInv'
<1> SUFFICES ASSUME IInv, Measure PROVE IInv'
  OBVIOUS
<1>1. /\ TypeOK /\ Picked /\ pc = "wait" /\ pc' = "loop"
      /\ \A i \in Task \ {task} : Settled(i)
      /\ nextRunTime' = nextRunTime /\ task' = task /\ start' = start
      /\ since' = since /\ sessionTimeSet' = sessionTimeSet
  BY DEF IInv, Measure
<1>2. PICK time \in Nat : /\ start <= time /\ time <= start + Slip
                          /\ time <= now' /\ now' <= time + Duration[task]
                          /\ now' \in Nat /\ now <= now'
                          /\ started' = [started EXCEPT ![task] = time]
  BY MeasureBounds
<1>3. /\ now \in Nat /\ start \in Nat /\ task \in Task
      /\ nextRunTime \in [Task -> 0 .. Never]
      /\ started \in [Task -> Nat \union {-1}]
  BY <1>1 DEF TypeOK
<1>4. TypeOK'
  BY <1>1, <1>2, <1>3 DEF TypeOK
<1>5. ASSUME NEW i \in Task PROVE Settled(i)'
  <2>1. CASE i = task
    <3>1. nextRunTime[i] = (IF Periodic(i) THEN start + Interval[i] ELSE Never) /\ started'[i] = time
      BY <1>1, <1>2, <1>3, <2>1 DEF Picked
    <3>2. Interval[i] \in Nat /\ Slip \in Nat /\ nextRunTime[i] \in Nat
      BY <1>3, Constants
    <3>3. CASE Periodic(i)
      <4>1. /\ start + Interval[i] <= now' + Interval[i]
            /\ start + Interval[i] >= time + Interval[i] - Slip
        BY <1>2, <1>3, <3>2
      <4>2. start + Interval[i] # Never
        BY <1>1, <2>1, <3>1, <3>3 DEF Picked
      <4> QED
        BY <1>1, <3>1, <3>3, <4>1, <4>2 DEF Settled, Ahead, Periodic
    <3>4. CASE ~Periodic(i)
      BY <1>1, <3>1, <3>4 DEF Settled, Periodic
    <3> QED
      BY <3>3, <3>4
  <2>2. CASE i # task
    <3>1. Settled(i) /\ started'[i] = started[i] /\ Ahead(i) \in Nat /\ nextRunTime[i] \in Nat
      BY <1>1, <1>2, <1>3, <2>2, Constants DEF Ahead
    <3>2. nextRunTime[i] # Never => nextRunTime[i] <= now' + Ahead(i)
      BY <1>2, <1>3, <3>1 DEF Settled
    <3> QED
      BY <1>1, <3>1, <3>2 DEF Settled, Ahead, Periodic
  <2> QED
    BY <2>1, <2>2
<1>6. NoInversion'
  <2>1. ASSUME NEW j \in 1 .. task - 1 PROVE now' <= nextRunTime[j] + Slip
    <3>1. j \in Task
      BY <1>3, Constants DEF Task
    <3>2. nextRunTime[j] >= start + Duration[task] /\ nextRunTime[j] \in Nat
      BY <1>1, <1>3, <3>1, Constants DEF Picked
    <3> QED
      BY <1>2, <1>3, <3>2, Constants
  <2> QED
    BY <1>1, <2>1 DEF NoInversion
<1> QED
  BY <1>1, <1>4, <1>5, <1>6 DEF IInv

-----------------------------------------------------------------------------
\* Every step preserves the invariant.
LEMMA NextIInv == IInv /\ [Next]_vars => IInv'
<1> SUFFICES ASSUME IInv, [Next]_vars PROVE IInv'
  OBVIOUS
<1>1. CASE GetNextTask
  BY <1>1, PickKeeps
<1>2. CASE Measure
  BY <1>2, MeasureKeeps
<1>3. CASE Leave
  BY <1>3 DEF Leave, IInv, TypeOK, NoInversion
<1>4. CASE SetSessionTime \/ SkipSessionTime
  BY <1>4, SessionKeeps
<1>5. CASE UNCHANGED vars
  BY <1>5 DEF vars, IInv, TypeOK, NoInversion, Settled, Picked, Ahead, Periodic
<1> QED
  BY <1>1, <1>2, <1>3, <1>4, <1>5 DEF Next

\* The invariant of the schedule: whatever the table and the durations, the
\* choice of getNextTask() is as good at the end of the measurement as it was
\* when it was made.
THEOREM Inductive == Spec => []IInv
  BY InitIInv, NextIInv, PTL DEF Spec

\* The clock, the table of times and the task picked are always well formed.
THEOREM TypeCorrect == Spec => []TypeOK
<1>1. IInv => TypeOK
  BY DEF IInv
<1> QED
  BY <1>1, Inductive, PTL

\* The times the scheduler adds up are those of arithmetic: neither the completion
\* that a task is compared by (scheduler.cpp:119) nor the time it is put off to
\* (scheduler.cpp:154) wraps around the word, or is taken for "never again".
TimesExact ==
  /\ pc = "pick" /\ now <= Horizon =>
       \A i \in Task : nextRunTime[i] # Never =>
         Completion(i) = Later(now, nextRunTime[i]) + Duration[i] /\ Completion(i) < Never
  /\ pc = "wait" /\ Interval[task] # Never =>
       nextRunTime[task] = start + Interval[task] /\ nextRunTime[task] # Never

\* Below the horizon no time wraps, for every table: the horizon need only be as far
\* from UINT32_MAX as twice the longest interval and the measurement after it.
THEOREM NoTimeWraps == Spec => []TimesExact
<1>1. IInv => TimesExact
  <2> SUFFICES ASSUME IInv PROVE TimesExact
    OBVIOUS
  <2>1. ASSUME pc = "pick", now <= Horizon, NEW i \in Task, nextRunTime[i] # Never
        PROVE  /\ Completion(i) = Later(now, nextRunTime[i]) + Duration[i]
               /\ Completion(i) < Never
    <3>1. /\ now \in Nat /\ nextRunTime[i] \in Nat /\ Ahead(i) \in Nat
          /\ nextRunTime[i] <= now + Ahead(i)
      BY <2>1, Constants DEF IInv, TypeOK, Settled
    <3>2. /\ Later(now, nextRunTime[i]) \in Nat
          /\ Later(now, nextRunTime[i]) <= Horizon + Ahead(i)
      BY <2>1, <3>1, Constants DEF Later
    <3>3. Completion(i) = Later(now, nextRunTime[i]) + Duration[i]
      BY <3>2, NoWrap DEF Completion
    <3> QED
      BY <3>2, <3>3, Constants
  <2>2. ASSUME pc = "wait", Interval[task] # Never
        PROVE  nextRunTime[task] = start + Interval[task] /\ nextRunTime[task] # Never
    BY <2>2 DEF IInv, Picked, Periodic
  <2> QED
    BY <2>1, <2>2 DEF TimesExact
<1> QED
  BY <1>1, Inductive, PTL

\* getNextTask() never lets a task run into the time of one of a higher
\* priority, except for the overshoot of the waiting loop of RideTask::run.
THEOREM NoPriorityInversion == Spec => []NoInversion
<1>1. IInv => NoInversion
  BY DEF IInv, NoInversion
<1> QED
  BY <1>1, Inductive, PTL

\* getNextTask() finds a task as long as one is left: the one of the highest
\* priority among those left can always run.
THEOREM AlwaysFound == Spec => []SearchSucceeds
<1>1. TypeOK => SearchSucceeds
  <2> SUFFICES ASSUME TypeOK, NEW k \in Task, nextRunTime[k] # Never
               PROVE  \E i \in Task : CanRun(i)
    BY DEF SearchSucceeds
  <2> DEFINE Left == {i \in Task : nextRunTime[i] # Never}
  <2>1. PICK i \in Left : \A j \in Left : ~(<<j, i>> \in OpToRel(<, Nat))
    <3>1. Left \subseteq Nat /\ Left # {}
      BY Constants
    <3> QED
      BY <3>1, NatLessThanWellFounded, WFMin
  <2>2. Completion(i) \in 0 .. Never
    <3>1. now \in Nat /\ nextRunTime[i] \in Nat /\ Duration[i] \in Nat /\ Word \in Nat /\ Word >= 1
      BY Constants DEF TypeOK
    <3> QED
      BY <3>1 DEF Completion, Later, Never
  <2>3. ASSUME NEW j \in 1 .. i - 1 PROVE nextRunTime[j] >= Completion(i)
    <3>1. j \in Task /\ j \in Nat /\ i \in Nat /\ j < i
      BY Constants DEF Task
    <3>2. j \notin Left
      BY <2>1, <3>1 DEF OpToRel
    <3> QED
      BY <2>2, <3>1, <3>2, Constants
  <2> QED
    BY <2>3 DEF CanRun
<1> QED
  BY <1>1, TypeCorrect, PTL

\* Two measurements of one task start at least its interval apart, less the
\* overshoot of the first wait.
THEOREM SpacedOut == Spec => Spaced
<1> DEFINE Apart == \A i \in Task :
             started'[i] # started[i] /\ started[i] >= 0 /\ Interval[i] # Never =>
               started'[i] - started[i] >= Interval[i] - Slip
<1>1. IInv /\ [Next]_vars => [Apart]_vars
  <2> SUFFICES ASSUME IInv, Next, NEW i \in Task,
                      started'[i] # started[i], started[i] >= 0, Interval[i] # Never
               PROVE  started'[i] - started[i] >= Interval[i] - Slip
    OBVIOUS
  <2>1. Measure
    BY DEF Next, GetNextTask, SetSessionTime, SkipSessionTime, Leave
  <2>2. PICK time \in Nat : start <= time /\ started' = [started EXCEPT ![task] = time]
    BY <2>1, MeasureBounds
  <2>3. /\ TypeOK /\ Picked /\ started \in [Task -> Nat \union {-1}] /\ start \in Nat
    BY <2>1 DEF IInv, Measure, TypeOK
  <2>4. i = task /\ started'[i] = time
    BY <2>2, <2>3
  <2>5. start >= started[i] + Interval[i] - Slip
    BY <2>3, <2>4 DEF Picked, Periodic
  <2>6. started[i] \in Int /\ Interval[i] \in Int /\ Slip \in Int
    BY <2>3, Constants
  <2> QED
    BY <2>2, <2>3, <2>4, <2>5, <2>6
<1> QED
  BY <1>1, Inductive, PTL DEF Spec, Spaced

-----------------------------------------------------------------------------
(***************************************************************************)
(* TasksOnTime, for every table that LightLoad describes.  Sums over the   *)
(* table need induction over it; the library's induction theorems take an  *)
(* operator, so it is stated for sets, from the fact that a set of natural *)
(* numbers that is not empty has a least element.                          *)
(***************************************************************************)

\* The least element of a set of natural numbers.
LEMMA Least ==
  ASSUME NEW S, S \subseteq Nat, S # {}
  PROVE  \E n \in S : \A m \in S : n <= m
<1>1. PICK n \in S : \A m \in S : ~(<<m, n>> \in OpToRel(<, Nat))
  BY NatLessThanWellFounded, WFMin
<1>2. ASSUME NEW m \in S PROVE n <= m
  <2>1. m < n => <<m, n>> \in OpToRel(<, Nat)
    BY DEF OpToRel
  <2>2. ~(m < n)
    BY <1>1, <2>1
  <2> QED
    BY <2>2
<1> QED
  BY <1>2

\* Induction: a set that has 0 and the successor of each of its elements.
LEMMA SetInduction ==
  ASSUME NEW S, S \subseteq Nat, 0 \in S, \A n \in S : n + 1 \in S
  PROVE  S = Nat
<1> SUFFICES ASSUME Nat \ S # {} PROVE FALSE
  OBVIOUS
<1>1. PICK n \in Nat \ S : \A m \in Nat \ S : n <= m
  BY Least
<1>2. n # 0 /\ n - 1 \in S
  BY <1>1
<1>3. n = (n - 1) + 1
  OBVIOUS
<1> QED
  BY <1>2, <1>3

\* The sum over the table satisfies the equation it is defined by.
LEMMA BusyDef == Busy = [n \in 0 .. Tasks |-> IF n = 0 THEN 0 ELSE Busy[n - 1] + Duration[n]]
<1> DEFINE Step(w, n) == IF n = 0 THEN 0 ELSE w[n - 1] + Duration[n]
           Good == {m \in Nat : \E w : w = [n \in 0 .. m |-> Step(w, n)]}
<1>1. 0 \in Good
  <2>1. [n \in 0 .. 0 |-> 0] = [n \in 0 .. 0 |-> Step([i \in 0 .. 0 |-> 0], n)]
    OBVIOUS
  <2> QED
    BY <2>1
<1>2. ASSUME NEW m \in Good PROVE m + 1 \in Good
  <2>1. PICK w : w = [n \in 0 .. m |-> Step(w, n)]
    OBVIOUS
  <2>2. m \in Nat /\ m + 1 \in Nat
    OBVIOUS
  <2> DEFINE x == [n \in 0 .. m + 1 |-> IF n = m + 1 THEN Step(w, m + 1) ELSE w[n]]
  <2>3. x = [n \in 0 .. m + 1 |-> Step(x, n)]
    <3>1. ASSUME NEW n \in 0 .. m + 1 PROVE x[n] = Step(x, n)
      <4>1. CASE n = m + 1
        BY <2>2, <4>1
      <4>2. CASE n # m + 1
        <5>1. n \in 0 .. m /\ x[n] = w[n]
          BY <2>2, <4>2
        <5>2. w[n] = Step(w, n)
          BY <2>1, <5>1
        <5>3. n # 0 => x[n - 1] = w[n - 1]
          BY <2>2, <5>1
        <5> QED
          BY <5>1, <5>2, <5>3
      <4> QED
        BY <4>1, <4>2
    <3> QED
      BY <3>1
  <2> HIDE DEF x
  <2> QED
    BY <2>2, <2>3
<1>3. Tasks \in Good
  <2> HIDE DEF Good
  <2>1. Good \subseteq Nat
    BY DEF Good
  <2>2. Good = Nat
    BY <1>1, <1>2, <2>1, SetInduction
  <2> QED
    BY <2>2, Constants
<1>4. Busy = CHOOSE w : w = [n \in 0 .. Tasks |-> Step(w, n)]
  BY DEF Busy
<1> QED
  BY <1>3, <1>4

\* It is a sum: it starts at 0, adds the durations, and never falls.
LEMMA BusySum ==
  /\ Busy[0] = 0
  /\ \A n \in Task : Busy[n] = Busy[n - 1] + Duration[n]
  /\ \A n \in 0 .. Tasks : Busy[n] \in Nat
  /\ \A m, n \in 0 .. Tasks : m <= n => Busy[m] <= Busy[n]
<1> DEFINE W == Busy
<1>1. W[0] = 0 /\ \A n \in Task : W[n] = W[n - 1] + Duration[n]
  <2>1. \A n \in 0 .. Tasks : W[n] = IF n = 0 THEN 0 ELSE W[n - 1] + Duration[n]
    BY BusyDef, Zenon
  <2> HIDE DEF W
  <2> QED
    BY <2>1, Constants DEF Task
<1> HIDE DEF W
<1>2. \A n \in Task : n - 1 \in 0 .. Tasks /\ Duration[n] \in Nat
  BY Constants DEF Task
<1>3. ASSUME NEW k \in 0 .. Tasks PROVE W[k] \in Nat
  <2> DEFINE Good == {n \in Nat : n <= Tasks => W[n] \in Nat}
  <2>1. 0 \in Good
    BY <1>1
  <2>2. ASSUME NEW n \in Good PROVE n + 1 \in Good
    BY <1>1, <1>2, Constants DEF Task
  <2>3. Good = Nat
    <3> HIDE DEF Good
    <3>1. Good \subseteq Nat
      BY DEF Good
    <3> QED
      BY <2>1, <2>2, <3>1, SetInduction
  <2> QED
    BY <2>3, Constants
<1>4. ASSUME NEW m \in 0 .. Tasks, NEW k \in 0 .. Tasks, m <= k PROVE W[m] <= W[k]
  <2> DEFINE Good == {n \in Nat : m <= n /\ n <= Tasks => W[m] <= W[n]}
  <2>1. 0 \in Good
    BY <1>3
  <2>2. ASSUME NEW n \in Good PROVE n + 1 \in Good
    <3> SUFFICES ASSUME m <= n + 1, n + 1 <= Tasks PROVE W[m] <= W[n + 1]
      OBVIOUS
    <3>1. n \in Nat /\ m \in Nat /\ n + 1 \in Task /\ n \in 0 .. Tasks /\ (n + 1) - 1 = n
      BY Constants DEF Task
    <3>2. W[n + 1] = W[n] + Duration[n + 1] /\ Duration[n + 1] \in Nat
      BY <1>1, <1>2, <3>1
    <3>3. W[n + 1] >= W[n] /\ W[n] \in Nat /\ W[m] \in Nat /\ W[n + 1] \in Nat
      BY <1>3, <3>1, <3>2
    <3>4. CASE m = n + 1
      BY <3>3, <3>4
    <3>5. CASE m # n + 1
      <4>1. W[m] <= W[n]
        BY <3>1, <3>5
      <4> QED
        BY <3>3, <4>1
    <3> QED
      BY <3>4, <3>5
  <2>3. Good = Nat
    <3> HIDE DEF Good
    <3>1. Good \subseteq Nat
      BY DEF Good
    <3> QED
      BY <2>1, <2>2, <3>1, SetInduction
  <2>4. k \in Good /\ k <= Tasks
    <3> HIDE DEF Good
    <3> QED
      BY <2>3, Constants
  <2> QED
    BY <1>4, <2>4
<1> QED
  BY <1>1, <1>3, <1>4 DEF W

\* What the sums say of two tasks of the table.
LEMMA Load ==
  /\ \A i \in Task : Busy[i] \in Nat /\ Duration[i] <= Busy[i]
  /\ \A j, b \in Task : j < b => Busy[j] + Duration[b] <= Busy[b]
<1>1. ASSUME NEW i \in Task
      PROVE  /\ i - 1 \in 0 .. Tasks /\ i \in 0 .. Tasks /\ i \in Nat /\ Duration[i] \in Nat
             /\ Busy[i - 1] \in Nat /\ Busy[i] \in Nat /\ Busy[i] = Busy[i - 1] + Duration[i]
  <2>1. i - 1 \in 0 .. Tasks /\ i \in 0 .. Tasks /\ i \in Nat /\ Duration[i] \in Nat
    BY Constants DEF Task
  <2> QED
    BY <2>1, BusySum
<1>2. ASSUME NEW j \in Task, NEW b \in Task, j < b PROVE Busy[j] + Duration[b] <= Busy[b]
  <2>1. j <= b - 1
    BY <1>1, <1>2
  <2>2. Busy[j] <= Busy[b - 1]
    BY <1>1, <2>1, BusySum
  <2> QED
    BY <1>1, <2>2
<1> QED
  BY <1>1, <1>2

\* Products with natural numbers.
LEMMA Product ==
  ASSUME NEW h \in Nat
  PROVE  /\ \A n \in Nat : n * h \in Nat /\ (n + 1) * h = n * h + h
         /\ \A m, n \in Nat : m <= n => m * h <= n * h
<1>1. \A n \in Nat : n * h \in Nat /\ (n + 1) * h = n * h + h
  OBVIOUS
<1>2. \A m, n \in Nat : m <= n => m * h <= n * h
  OBVIOUS
<1> QED
  BY <1>1, <1>2

\* What Delay adds up to.
LEMMA DelaySum ==
  ASSUME NEW i \in Task
  PROVE  /\ HeldUp(i) \in Nat
         /\ \A n \in Nat : /\ Delay(i, n) \in Nat
                           /\ Delay(i, n + 1) = Delay(i, n) + HeldUp(i)
                           /\ i < Tasks => Slip <= Delay(i, n)
         /\ \A m, n \in Nat : m <= n => Delay(i, m) <= Delay(i, n)
<1>1. HeldUp(i) \in Nat /\ Slip \in Nat
  <2>1. Busy[i] \in Nat /\ Busy[i] >= 1 /\ Slip \in Nat
    BY Load, Constants
  <2> QED
    BY <2>1 DEF HeldUp
<1> DEFINE h == HeldUp(i)
           b == IF i < Tasks THEN Slip ELSE 0
<1>2. b \in Nat /\ (i < Tasks => Slip = b) /\ \A n : Delay(i, n) = b + n * h
  BY <1>1 DEF Delay
<1> HIDE DEF h, b
<1>3. /\ \A n \in Nat : n * h \in Nat /\ (n + 1) * h = n * h + h
      /\ \A m, n \in Nat : m <= n => m * h <= n * h
  BY <1>1, Product DEF h
<1>4. ASSUME NEW n \in Nat
      PROVE  /\ Delay(i, n) \in Nat /\ Delay(i, n + 1) = Delay(i, n) + h
             /\ i < Tasks => Slip <= Delay(i, n)
  <2>1. n * h \in Nat /\ (n + 1) * h = n * h + h /\ h \in Nat
    BY <1>1, <1>3 DEF h
  <2>2. Delay(i, n) = b + n * h /\ Delay(i, n + 1) = b + (n + 1) * h
    BY <1>2
  <2> QED
    BY <1>1, <1>2, <2>1, <2>2
<1>5. ASSUME NEW m \in Nat, NEW n \in Nat, m <= n PROVE Delay(i, m) <= Delay(i, n)
  <2>1. m * h <= n * h /\ m * h \in Nat /\ n * h \in Nat
    BY <1>3, <1>5
  <2> QED
    BY <1>2, <2>1
<1> QED
  BY <1>1, <1>4, <1>5 DEF h

Above(i) == 1 .. i - 1

\* The tasks of higher priority that can still hold up task i.
Pending(i) ==
  {j \in Above(i) : /\ nextRunTime[j] # Never
                    /\ nextRunTime[j] < Due(i) + Lateness(i) + Busy[i]}

\* How many have held it up, and are out of its way.
Past(i) == Cardinality(Above(i)) - Cardinality(Pending(i))

\* What is known of task i when what is under way ends by time t: it is late only by
\* what has held it up.
OnTimeBy(i, t) ==
  nextRunTime[i] # Never => t <= Due(i) \/ t <= Due(i) + Delay(i, Past(i))

\* When the measurement that was picked ends at the latest.
Ends == start + (IF now < start THEN Slip ELSE 0) + Duration[task]

(***************************************************************************)
(* The invariant behind TasksOnTime, which alone is not inductive: nothing *)
(* bounds how many tasks are still to come before one that is late.        *)
(***************************************************************************)
Punctual ==
  /\ pc \in {"loop", "pick"} => \A i \in Task : OnTimeBy(i, now)
  /\ pc = "wait" => \A i \in Task \ {task} : OnTimeBy(i, Ends)

\* How many of the tasks above task i are pending: each is a task above it.
LEMMA Counts ==
  ASSUME NEW i \in Task
  PROVE  /\ Above(i) \subseteq Task /\ IsFiniteSet(Above(i))
         /\ Cardinality(Above(i)) = i - 1 /\ i - 1 \in Nat
         /\ \A P \in SUBSET Above(i) :
              /\ IsFiniteSet(P) /\ Cardinality(P) \in Nat
              /\ Cardinality(Above(i)) - Cardinality(P) \in Nat
<1>1. Above(i) \subseteq Task /\ i - 1 \in Nat
  BY Constants DEF Above, Task
<1>2. IsFiniteSet(Above(i)) /\ Cardinality(Above(i)) = i - 1
  <2>1. 1 \in Int /\ i - 1 \in Int
    BY <1>1
  <2>2. IsFiniteSet(1 .. i - 1) /\ Cardinality(1 .. i - 1) = IF 1 > i - 1 THEN 0 ELSE (i - 1) - 1 + 1
    BY <2>1, FS_Interval
  <2> QED
    BY <1>1, <2>2 DEF Above
<1>3. ASSUME NEW P \in SUBSET Above(i)
      PROVE  /\ IsFiniteSet(P) /\ Cardinality(P) \in Nat
             /\ Cardinality(Above(i)) - Cardinality(P) \in Nat
  <2>1. IsFiniteSet(P) /\ Cardinality(P) <= Cardinality(Above(i)) /\ Cardinality(P) \in Nat
    BY <1>2, FS_Subset, FS_CardinalityType
  <2> QED
    BY <1>1, <1>2, <2>1
<1> QED
  BY <1>1, <1>2, <1>3

\* The delay of task i, so far and at most.
LEMMA DelaySoFar ==
  ASSUME NEW i \in Task
  PROVE  /\ Past(i) \in Nat /\ Past(i) <= i - 1
         /\ Delay(i, Past(i)) \in Nat /\ Lateness(i) \in Nat
         /\ Delay(i, Past(i)) <= Lateness(i)
<1>1. Past(i) \in Nat /\ Past(i) <= i - 1 /\ i - 1 \in Nat
  <2>1. Pending(i) \in SUBSET Above(i)
    BY DEF Pending
  <2> QED
    BY <2>1, Counts DEF Past
<1> QED
  BY <1>1, DelaySum DEF Lateness

\* What getNextTask() computes from the time of a task that is left.
LEMMA PickTimes ==
  ASSUME IInv, pc = "pick", now <= Horizon, NEW i \in Task, nextRunTime[i] # Never
  PROVE  /\ now \in Nat /\ nextRunTime[i] \in Nat /\ Later(now, nextRunTime[i]) \in Nat
         /\ now <= Later(now, nextRunTime[i]) /\ nextRunTime[i] <= Later(now, nextRunTime[i])
         /\ Later(now, nextRunTime[i]) \in {now, nextRunTime[i]}
         /\ Later(now, nextRunTime[i]) <= Horizon + Ahead(i)
         /\ Completion(i) = Later(now, nextRunTime[i]) + Duration[i] /\ Completion(i) < Never
         /\ Rescheduled(i, Later(now, nextRunTime[i]))
              = IF Periodic(i) THEN Later(now, nextRunTime[i]) + Interval[i] ELSE Never
<1>1. now \in Nat /\ nextRunTime[i] \in Nat /\ Ahead(i) \in Nat /\ nextRunTime[i] <= now + Ahead(i)
  BY Constants DEF IInv, TypeOK, Settled
<1>2. /\ Later(now, nextRunTime[i]) \in {now, nextRunTime[i]}
      /\ now <= Later(now, nextRunTime[i]) /\ nextRunTime[i] <= Later(now, nextRunTime[i])
  BY <1>1 DEF Later
<1>3. Later(now, nextRunTime[i]) \in Nat /\ Later(now, nextRunTime[i]) <= Horizon + Ahead(i)
  BY <1>1, <1>2, Constants
<1>4. /\ Completion(i) = Later(now, nextRunTime[i]) + Duration[i]
      /\ Rescheduled(i, Later(now, nextRunTime[i]))
           = IF Periodic(i) THEN Later(now, nextRunTime[i]) + Interval[i] ELSE Never
  BY <1>3, NoWrap DEF Completion
<1> QED
  BY <1>1, <1>2, <1>3, <1>4, Constants

\* A task of higher priority is picked before task i only if task i, or one that
\* held it up, would have run into its time: it is due before too long.
LEMMA Reach ==
  ASSUME IInv, pc = "pick", now <= Horizon,
         NEW c \in Task, Chosen(c), NEW i \in Task, c < i, nextRunTime[i] # Never
  PROVE  Later(now, nextRunTime[c]) + Busy[c] + 1 <= Later(now, nextRunTime[i]) + Busy[i]
<1> DEFINE At(b) == Later(now, nextRunTime[b])
           Held == {b \in c .. i : /\ nextRunTime[b] # Never
                                   /\ b = i \/ At(b) + Busy[b] + 1 <= At(i) + Busy[i]}
<1>1. CanRun(c) /\ nextRunTime[c] # Never /\ (\A j \in 1 .. c - 1 : nextRunTime[j] >= Completion(c))
  BY DEF Chosen, CanRun
<1>2. \A b \in c .. i : b \in Task /\ b \in Nat /\ (b # c => ~CanRun(b))
  <2> SUFFICES ASSUME NEW b \in c .. i PROVE b \in Task /\ b \in Nat /\ (b # c => ~CanRun(b))
    OBVIOUS
  <2>1. b \in Task /\ b \in Nat /\ (b # c => b \in c + 1 .. Tasks)
    BY Constants DEF Task
  <2> QED
    BY <2>1 DEF Chosen
<1>4. PICK b \in Held : \A k \in Held : b <= k
  <2>1. Held \subseteq Nat
    BY <1>2
  <2>2. i \in Held
    BY Constants
  <2> HIDE DEF Held
  <2> QED
    BY <2>1, <2>2, Least
<1>5. b \in c .. i /\ b \in Task /\ b \in Nat /\ nextRunTime[b] # Never
  BY <1>2
<1>6. At(b) + Busy[b] <= At(i) + Busy[i] /\ (b # i => At(b) + Busy[b] + 1 <= At(i) + Busy[i])
  <2>1. b = i \/ At(b) + Busy[b] + 1 <= At(i) + Busy[i]
    OBVIOUS
  <2>3. At(b) \in Nat /\ At(i) \in Nat /\ Busy[b] \in Nat /\ Busy[i] \in Nat
    BY <1>5, PickTimes, Load
  <2> HIDE DEF At
  <2> QED
    BY <2>1, <2>3
<1>7. CASE b = c
  BY <1>6, <1>7, Constants
<1>8. CASE b # c
  <2>2. PICK j \in 1 .. b - 1 : ~(nextRunTime[j] >= Completion(b))
    BY <1>2, <1>5, <1>8 DEF CanRun
  <2>3. j \in Task /\ j \in 1 .. i - 1 /\ j < b /\ j \in Nat /\ c < b
    BY <1>5, <1>8, Constants DEF Task
  <2>4. /\ Completion(b) = At(b) + Duration[b] /\ Completion(b) < Never
        /\ At(b) \in Nat /\ At(i) \in Nat /\ now \in Nat /\ now <= At(b)
    BY <1>5, PickTimes
  <2>5. /\ Completion(c) = At(c) + Duration[c] /\ At(c) \in Nat
    BY <1>1, PickTimes
  <2>6. nextRunTime[j] \in Nat /\ Never \in Nat
    BY <2>3, Constants DEF IInv, TypeOK
  <2>7. /\ Duration[b] \in Nat /\ Duration[b] >= 1 /\ Duration[c] \in Nat /\ Duration[c] >= 1
        /\ Busy[b] \in Nat /\ Busy[i] \in Nat /\ Busy[j] \in Nat /\ Busy[c] \in Nat
        /\ Busy[j] + Duration[b] <= Busy[b] /\ Busy[c] + Duration[b] <= Busy[b]
    BY <1>5, <2>3, Load, Constants
  <2> HIDE DEF At
  <2>8. nextRunTime[j] + 1 <= At(b) + Duration[b] /\ nextRunTime[j] # Never
    BY <2>2, <2>4, <2>6, <2>7
  <2>10. CASE c <= j
    <3>1. At(j) \in {now, nextRunTime[j]}
      BY <2>3, <2>8, PickTimes DEF At
    <3>2. At(j) + 1 <= At(b) + Duration[b] /\ At(j) \in Nat
      BY <2>4, <2>6, <2>7, <2>8, <3>1
    <3>3. At(j) + Busy[j] + 1 <= At(i) + Busy[i]
      BY <1>6, <2>4, <2>7, <3>2
    <3>4. j \in Held
      BY <1>5, <2>3, <2>8, <2>10, <3>3 DEF At
    <3> QED
      BY <1>4, <2>3, <3>4, <1>5
  <2>11. CASE ~(c <= j)
    <3>1. j \in 1 .. c - 1
      BY <2>3, <2>11, Constants
    <3>2. At(c) + Duration[c] <= nextRunTime[j]
      BY <1>1, <2>5, <2>6, <2>7, <3>1
    <3>3. At(c) + Busy[c] + 1 <= At(i) + Busy[i]
      BY <1>6, <2>4, <2>5, <2>6, <2>7, <2>8, <3>2
    <3> QED
      BY <3>3 DEF At
  <2> QED
    BY <2>10, <2>11
<1> QED
  BY <1>7, <1>8

\* The pick, for a task that is not picked: if one of higher priority is, it is no
\* longer among those that can hold the task up.
LEMMA PickHolds ==
  ASSUME LightLoad, IInv, Punctual, GetNextTask,
         NEW i \in Task \ {task'}, nextRunTime[i] # Never
  PROVE  OnTimeBy(i, Ends)'
<1>1. /\ pc = "pick" /\ now <= Horizon /\ now' = now /\ since' = since
      /\ OnTimeBy(i, now) /\ \A j \in Task : OnTimeBy(j, now) /\ Settled(j)
  BY DEF GetNextTask, Punctual, IInv
<1>2. PICK c \in Task : /\ Chosen(c)
                        /\ task' = c
                        /\ start' = Later(now, nextRunTime[c])
                        /\ nextRunTime' = [nextRunTime EXCEPT ![c] = Rescheduled(c, start')]
  BY DEF GetNextTask
<1> DEFINE sc == Later(now, nextRunTime[c])
           si == Later(now, nextRunTime[i])
           n  == Past(i)
           due == Due(i)
<1>3. /\ nextRunTime[c] # Never /\ nextRunTime[i] # Never /\ CanRun(c)
      /\ i # c /\ i \in Task
  BY <1>1, <1>2 DEF Settled, Chosen, CanRun
<1>4. /\ now \in Nat /\ sc \in Nat /\ si \in Nat /\ nextRunTime[i] \in Nat /\ nextRunTime[c] \in Nat
      /\ now <= sc /\ nextRunTime[c] <= sc /\ si \in {now, nextRunTime[i]}
      /\ Completion(c) = sc + Duration[c]
      /\ Rescheduled(c, sc) = IF Periodic(c) THEN sc + Interval[c] ELSE Never
  BY <1>1, <1>3, PickTimes
<1>5. /\ Duration[c] \in Nat /\ Slip \in Nat /\ Interval[c] \in Nat
      /\ Busy[i] \in Nat /\ Busy[c] \in Nat
  BY Constants, Load
<1>6. /\ \A j \in Task : j # c => nextRunTime'[j] = nextRunTime[j]
      /\ nextRunTime'[c] = Rescheduled(c, sc)
  BY <1>2, Constants DEF IInv, TypeOK
<1>7. Ends' \in Nat /\ Ends' <= sc + Slip + Duration[c] /\ Ends' = Ends'
  BY <1>1, <1>2, <1>4, <1>5 DEF Ends
<1>8. /\ n \in Nat /\ Delay(i, n) \in Nat /\ Delay(i, n) <= Lateness(i) /\ Lateness(i) \in Nat
      /\ Delay(i, n + 1) = Delay(i, n) + HeldUp(i) /\ HeldUp(i) \in Nat
      /\ i < Tasks => Slip <= Delay(i, n)
  BY DelaySoFar, DelaySum
<1>9. due \in Nat /\ nextRunTime[i] <= due /\ nextRunTime'[i] = nextRunTime[i] /\ Due(i)' = due
  <2>1. nextRunTime'[i] = nextRunTime[i] /\ since \in Nat
    BY <1>1, <1>3, <1>6 DEF IInv, TypeOK
  <2> QED
    BY <1>1, <1>4, <2>1 DEF Due, Later
<1>10. now <= due \/ now <= due + Delay(i, n)
  BY <1>1, <1>3 DEF OnTimeBy
<1>11. \A j \in Above(i) : j # c => (j \in Pending(i)' <=> j \in Pending(i))
  <2> SUFFICES ASSUME NEW j \in Above(i), j # c PROVE j \in Pending(i)' <=> j \in Pending(i)
    OBVIOUS
  <2>1. nextRunTime'[j] = nextRunTime[j]
    BY <1>6, Counts
  <2> QED
    BY <1>9, <2>1 DEF Pending, Above, Lateness, Delay, HeldUp, Busy
<1>12. SUFFICES Ends' <= due \/ Ends' <= due + Delay(i, Past(i)')
  BY <1>9 DEF OnTimeBy, Delay, HeldUp, Busy
<1> HIDE DEF sc, si, n, due
<1>13. CASE c > i
  <2>1. Past(i)' = n
    <3>1. c \notin Above(i)
      BY <1>13, Constants DEF Above, Task
    <3>2. Pending(i)' = Pending(i)
      <4>1. Pending(i) \subseteq Above(i) /\ Pending(i)' \subseteq Above(i)
        BY DEF Pending, Above
      <4> QED
        BY <1>11, <3>1, <4>1
    <3> QED
      BY <3>2 DEF Past, Above, n
  <2>2. nextRunTime[i] >= sc + Duration[c]
    <3>1. i \in 1 .. c - 1
      BY <1>13, Constants DEF Task
    <3> QED
      BY <1>3, <1>4, <3>1 DEF CanRun
  <2>3. i < Tasks
    BY <1>13, Constants DEF Task
  <2> QED
    BY <1>4, <1>5, <1>7, <1>8, <1>9, <2>1, <2>2, <2>3
<1>14. CASE c < i
  <2> SUFFICES ASSUME ~(Ends' <= due) PROVE Ends' <= due + Delay(i, Past(i)')
    OBVIOUS
  <2>1. sc + Busy[c] + 1 <= si + Busy[i]
    BY <1>1, <1>2, <1>3, <1>14, Reach DEF sc, si
  <2>2. Duration[c] <= Busy[c] /\ HeldUp(i) = Slip + Busy[i] - 1
    BY Load DEF HeldUp
  <2>3. Ends' <= si + HeldUp(i)
    BY <1>4, <1>5, <1>7, <2>1, <2>2
  <2>4. si <= due + Delay(i, n)
    BY <1>4, <1>8, <1>9, <1>10
  <2>5. c \in Above(i)
    BY <1>14, Constants DEF Above, Task
  <2>6. c \in Pending(i)
    <3>1. nextRunTime[c] < due + Lateness(i) + Busy[i]
      BY <1>4, <1>5, <1>8, <1>9, <2>1, <2>4
    <3> QED
      BY <1>3, <2>5, <3>1 DEF Pending, due
  <2>7. c \notin Pending(i)'
    <3>1. CASE Periodic(c)
      <4>1. Lateness(i) + Busy[i] + Duration[c] + Slip <= Interval[c]
        BY <2>5, <3>1 DEF LightLoad, Above
      <4>2. nextRunTime'[c] = sc + Interval[c]
        BY <1>4, <1>6, <3>1
      <4>3. ~(nextRunTime'[c] < due + Lateness(i) + Busy[i])
        BY <1>4, <1>5, <1>7, <1>8, <1>9, <4>1, <4>2
      <4> QED
        BY <1>9, <4>3 DEF Pending, Lateness, Delay, HeldUp, Busy
    <3>2. CASE ~Periodic(c)
      BY <1>4, <1>6, <3>2 DEF Pending
    <3> QED
      BY <3>1, <3>2
  <2>8. Pending(i)' = Pending(i) \ {c}
    <3>1. Pending(i) \subseteq Above(i) /\ Pending(i)' \subseteq Above(i)
      BY DEF Pending, Above
    <3> QED
      BY <1>11, <2>7, <3>1
  <2>9. Past(i)' = n + 1
    <3>1. IsFiniteSet(Pending(i)) /\ Cardinality(Pending(i)) \in Nat /\ Cardinality(Above(i)) \in Nat
      BY Counts DEF Pending
    <3>2. Cardinality(Pending(i)') = Cardinality(Pending(i)) - 1
      BY <2>6, <2>8, <3>1, FS_RemoveElement
    <3> QED
      BY <3>1, <3>2 DEF n, Past, Above
  <2>10. Ends' <= due + Delay(i, n + 1)
    BY <1>4, <1>7, <1>8, <1>9, <2>3, <2>4
  <2> QED
    BY <2>9, <2>10
<1>15. c > i \/ c < i
  BY <1>3, Constants
<1> QED
  BY <1>13, <1>14, <1>15

\* The pick keeps to the invariant.
LEMMA PickPunctual ==
  ASSUME LightLoad, IInv, Punctual, GetNextTask
  PROVE  Punctual'
<1>1. ASSUME NEW i \in Task \ {task'} PROVE OnTimeBy(i, Ends)'
  <2>1. CASE nextRunTime[i] # Never
    BY <2>1, PickHolds
  <2>2. CASE nextRunTime[i] = Never
    <3>1. nextRunTime'[i] = Never
      BY <2>2 DEF GetNextTask, IInv, TypeOK
    <3> QED
      BY <3>1 DEF OnTimeBy
  <2> QED
    BY <2>1, <2>2
<1>2. pc' = "wait"
  BY DEF GetNextTask
<1> QED
  BY <1>1, <1>2 DEF Punctual

\* When a measurement ends: no later than its start, its duration and the overshoot
\* of a wait, if there was one, allow.
LEMMA MeasureEnds ==
  ASSUME IInv, Measure
  PROVE  now' \in Nat /\ now' <= Ends /\ Ends \in Nat /\ Ends <= start + Slip + Duration[task]
<1>1. /\ now \in Nat /\ start \in Nat /\ task \in Task /\ now <= start
      /\ Duration[task] \in Nat /\ Slip \in Nat
  BY Constants DEF IInv, Measure, TypeOK, Picked
<1>2. PICK slip \in 0 .. (IF now < start THEN Slip ELSE 0) : \E d \in 0 .. Duration[task] :
        now' = Later(now, start) + slip + d
  BY DEF Measure
<1>3. PICK d \in 0 .. Duration[task] : now' = Later(now, start) + slip + d
  BY <1>2
<1>4. Later(now, start) = start
  BY <1>1 DEF Later
<1> QED
  BY <1>1, <1>3, <1>4 DEF Ends

\* What holds by a time holds before it.
LEMMA Earlier ==
  ASSUME NEW i \in Task, TypeOK, NEW t \in Nat, NEW u \in Nat, u <= t, OnTimeBy(i, t)
  PROVE  OnTimeBy(i, u)
<1> SUFFICES ASSUME nextRunTime[i] # Never
             PROVE  u <= Due(i) \/ u <= Due(i) + Delay(i, Past(i))
  BY DEF OnTimeBy
<1>1. t <= Due(i) \/ t <= Due(i) + Delay(i, Past(i))
  BY DEF OnTimeBy
<1>2. nextRunTime[i] \in Nat /\ since \in Nat
  BY Constants DEF TypeOK
<1>3. Due(i) \in Nat /\ Delay(i, Past(i)) \in Nat
  BY <1>2, DelaySoFar DEF Due, Later
<1> QED
  BY <1>1, <1>3

\* What holds by the end of a measurement holds when it ends earlier.
LEMMA MeasurePunctual ==
  ASSUME LightLoad, IInv, Punctual, Measure
  PROVE  Punctual'
<1>1. /\ TypeOK /\ Picked /\ pc = "wait" /\ pc' = "loop"
      /\ nextRunTime' = nextRunTime /\ since' = since
      /\ \A i \in Task \ {task} : OnTimeBy(i, Ends)
  BY DEF IInv, Measure, Punctual
<1>2. now' \in Nat /\ now' <= Ends /\ Ends \in Nat /\ Ends <= start + Slip + Duration[task]
  BY MeasureEnds
<1>3. ASSUME NEW i \in Task, nextRunTime[i] # Never
      PROVE  now' <= Due(i) \/ now' <= Due(i) + Delay(i, Past(i))
  <2>1. CASE i = task
    <3>1. Periodic(i) /\ nextRunTime[i] = start + Interval[i] /\ Duration[i] + Slip <= Interval[i]
      BY <1>1, <1>3, <2>1 DEF Picked, LightLoad
    <3>2. /\ start \in Nat /\ Duration[i] \in Nat /\ Slip \in Nat /\ Interval[i] \in Nat
          /\ since \in Nat
      BY <1>1, Constants DEF TypeOK
    <3>3. nextRunTime[i] <= Due(i) /\ Due(i) \in Nat /\ nextRunTime[i] \in Nat
      BY <3>1, <3>2 DEF Due, Later
    <3> QED
      BY <1>2, <2>1, <3>1, <3>2, <3>3
  <2>2. CASE i # task
    BY <1>1, <1>2, <1>3, <2>2, Earlier DEF OnTimeBy
  <2> QED
    BY <2>1, <2>2
<1>4. ASSUME NEW i \in Task PROVE OnTimeBy(i, now)'
  <2>1. /\ nextRunTime'[i] = nextRunTime[i] /\ Due(i)' = Due(i)
        /\ Delay(i, Past(i))' = Delay(i, Past(i))
    BY <1>1 DEF Due, Past, Pending, Above, Lateness, Delay, HeldUp, Busy
  <2> QED
    BY <1>3, <2>1 DEF OnTimeBy
<1> QED
  BY <1>1, <1>4 DEF Punctual

\* When start-up or the setting of the session time ends, nothing is late: whatever
\* has fallen due counts from now.
LEMMA NothingLate == TypeOK /\ since = now => \A i \in Task : OnTimeBy(i, now)
<1> SUFFICES ASSUME TypeOK, since = now, NEW i \in Task PROVE OnTimeBy(i, now)
  OBVIOUS
<1>1. nextRunTime[i] \in Nat /\ now \in Nat
  BY Constants DEF TypeOK
<1>2. now <= Due(i)
  BY <1>1 DEF Due, Later
<1> QED
  BY <1>2 DEF OnTimeBy

LEMMA InitPunctual == ASSUME Init PROVE Punctual
<1>1. TypeOK /\ since = now /\ pc = "loop"
  BY InitIInv DEF IInv, Init
<1> QED
  BY <1>1, NothingLate DEF Punctual

LEMMA SessionPunctual ==
  ASSUME IInv, IInv', Punctual, SetSessionTime \/ SkipSessionTime
  PROVE  Punctual'
<1>1. CASE SetSessionTime
  <2>1. TypeOK' /\ since' = now' /\ pc' = "pick"
    BY <1>1 DEF IInv, SetSessionTime
  <2>2. (TypeOK /\ since = now => \A i \in Task : OnTimeBy(i, now))'
    BY NothingLate, PTL
  <2> QED
    BY <2>1, <2>2 DEF Punctual
<1>2. CASE SkipSessionTime
  <2>1. /\ UNCHANGED <<nextRunTime, since, now>> /\ pc' = "pick"
        /\ \A i \in Task : OnTimeBy(i, now)
    BY <1>2 DEF SkipSessionTime, Punctual
  <2> QED
    BY <2>1 DEF Punctual, OnTimeBy, Due, Past, Pending, Above, Lateness, Delay, HeldUp, Busy
<1> QED
  BY <1>1, <1>2

\* Every step keeps to the invariant.
LEMMA NextPunctual == ASSUME LightLoad, IInv, IInv', Punctual, [Next]_vars PROVE Punctual'
<1>1. CASE GetNextTask
  BY <1>1, PickPunctual
<1>2. CASE Measure
  BY <1>2, MeasurePunctual
<1>3. CASE Leave
  BY <1>3 DEF Leave, Punctual
<1>4. CASE SetSessionTime \/ SkipSessionTime
  BY <1>4, SessionPunctual
<1>5. CASE UNCHANGED vars
  BY <1>5 DEF vars, Punctual, OnTimeBy, Ends, Due, Past, Pending, Above, Lateness, Delay,
              HeldUp, Busy
<1> QED
  BY <1>1, <1>2, <1>3, <1>4, <1>5 DEF Next

\* No starvation: for every table that LightLoad describes, as the deployment
\* schedule of rideTask.cpp is one, getNextTask() never lets a task fall behind its
\* time by more than Lateness, whatever the measurements of the others take, also
\* when all tasks are due together after start-up or after setSessionTime.
THEOREM NoStarvation ==
  ASSUME LightLoad, \A i \in Task : MaxLate[i] \in Nat /\ Lateness(i) <= MaxLate[i]
  PROVE  Spec => []TasksOnTime
<1>1. Init => Punctual
  BY InitPunctual
<1>2. IInv /\ IInv' /\ Punctual /\ [Next]_vars => Punctual'
  BY NextPunctual
<1>3. IInv /\ Punctual => TasksOnTime
  <2> SUFFICES ASSUME IInv, Punctual, pc = "pick", NEW i \in Task, nextRunTime[i] # Never
               PROVE  now <= Due(i) + MaxLate[i]
    BY DEF TasksOnTime
  <2>1. now <= Due(i) \/ now <= Due(i) + Delay(i, Past(i))
    BY DEF Punctual, OnTimeBy
  <2>2. now \in Nat /\ nextRunTime[i] \in Nat /\ since \in Nat /\ MaxLate[i] \in Nat
    BY Constants DEF IInv, TypeOK
  <2>3. Due(i) \in Nat
    BY <2>2 DEF Due, Later
  <2>4. Delay(i, Past(i)) \in Nat /\ Delay(i, Past(i)) <= MaxLate[i]
    BY <2>2, DelaySoFar
  <2> QED
    BY <2>1, <2>2, <2>3, <2>4
<1> QED
  BY <1>1, <1>2, <1>3, Inductive, PTL DEF Spec

=============================================================================
