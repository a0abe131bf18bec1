----------------------------- MODULE Scheduler -----------------------------
(***************************************************************************)
(* Scheduler (deploy/scheduler.cpp) under the loop of RideTask::run        *)
(* (rideTask.cpp): pick a task, wait for its time, measure.  Before the     *)
(* first pick the sensors are initialized one after the other and the      *)
(* start of the ride is noted; once, at its beginning or later, the        *)
(* session gets its time, which rewrites a file on flash.  Both take time, *)
(* in which every task may fall due.                                       *)
(*                                                                         *)
(* Tasks are numbered from 1, in the order of the table: a smaller number  *)
(* is a higher priority.  Time is in milliseconds, in words of Word        *)
(* values; Word - 1 stands for UINT32_MAX and means "never again".  A      *)
(* measurement keeps to the maxDuration of its task, the waiting loop      *)
(* overshoots by at most Slip, and what start-up and the session time take *)
(* is one of Delays; the code has no bound for any of them.  The time of   *)
(* the pick itself counts as part of the measurement.                      *)
(*                                                                         *)
(* "Defect" marks a mutation of the definition after it.                   *)
(***************************************************************************)
EXTENDS Integers

CONSTANTS
  Tasks,        (* tableSize                                                *)
  Interval,     (* ensembleInterval of each task                            *)
  Duration,     (* maxDuration of each task                                 *)
  Word,         (* 2^32                                                     *)
  Boot,         (* millis() when initializeScheduler() is called            *)
  Delays,       (* bound of the model: how long start-up takes, and setting *)
                (* the session time                                         *)
  Slip,         (* overshoot of the waiting loop                            *)
  MaxLate,      (* what TasksOnTime claims of each task                     *)
  Horizon       (* bound of the model: nothing starts after this time       *)

Task  == 1 .. Tasks
Never == Word - 1

ASSUME TableAssumption ==
  /\ Tasks \in Nat \ {0} /\ Word \in Nat
  /\ Interval \in [Task -> 1 .. Never]
  /\ Duration \in [Task -> Nat \ {0}]
\* Up to the horizon the clock stays below UINT32_MAX.
ASSUME TimeAssumption ==
  /\ {Boot, Slip, Horizon} \subseteq Nat
  /\ Delays \subseteq Nat /\ \A d \in Delays : Boot + d <= Horizon
  /\ \A i \in Task : Horizon + Duration[i] < Never
  /\ \A i \in Task : Interval[i] # Never => Horizon + 2 * Interval[i] + Duration[i] < Never

VARIABLES
  now,          (* millis()                                                 *)
  nextRunTime,  (* of each task                                             *)
  task, start,  (* the task picked, and *p_nextTime                         *)
  pc,           (* loop, pick, wait or over                                 *)
  sessionTimeSet,
  started,      (* when each task last started, -1 before (history)         *)
  since         (* when start-up, or setSessionTime, last ended (history)   *)

vars == <<now, nextRunTime, task, start, pc, sessionTimeSet, started, since>>

Later(a, b) == IF a > b THEN a ELSE b

-----------------------------------------------------------------------------
\* initializeScheduler(): each task is due at the time at which its init() is called.
initializeScheduler ==
  /\ nextRunTime \in [Task -> {Boot + d : d \in Delays}]
  /\ \A i \in Task : \A j \in 1 .. i : nextRunTime[j] <= nextRunTime[i]

\* The beginning of the ride, up to the loop.  The session time is set here when the
\* clock is valid.
Init ==
  /\ initializeScheduler
  /\ now \in {Boot + d : d \in Delays} /\ \A i \in Task : nextRunTime[i] <= now
  /\ sessionTimeSet \in BOOLEAN
  /\ task = 1 /\ start = now
  /\ pc = "loop"
  /\ started = [i \in Task |-> -1]
  /\ since = now

\* The session time is set in the loop, once the clock is valid.
SetSessionTime ==
  /\ pc = "loop" /\ pc' = "pick"
  /\ ~sessionTimeSet
  /\ sessionTimeSet' = TRUE
  /\ \E d \in Delays : now' = now + d
  /\ since' = now'
  /\ UNCHANGED <<nextRunTime, task, start, started>>

\* It has been set, or there is no valid clock yet.
SkipSessionTime ==
  /\ pc = "loop" /\ pc' = "pick"
  /\ UNCHANGED <<now, nextRunTime, task, start, sessionTimeSet, started, since>>

\* Defect: only the start of the task is compared with the times of the others.
CompletionAtStart(i) == Later(now, nextRunTime[i])

\* expected_completion.
Completion(i) == (Later(now, nextRunTime[i]) + Duration[i]) % Word

\* Defect: a task is compared with itself too.
CanRunSelf(i) ==
  /\ nextRunTime[i] # Never
  /\ \A j \in 1 .. i : nextRunTime[j] >= Completion(i)

CanRun(i) ==
  /\ nextRunTime[i] # Never
  /\ \A j \in 1 .. i - 1 : nextRunTime[j] >= Completion(i)

\* Defect: the table is searched from its beginning.
ChosenFirst(i) == CanRun(i) /\ \A j \in 1 .. i - 1 : ~CanRun(j)

\* The table is searched from its end.
Chosen(i) == CanRun(i) /\ \A j \in i + 1 .. Tasks : ~CanRun(j)

\* Defect: a task that runs once is not taken out.
RescheduledOnce(i, time) == time + Interval[i]

\* Defect: the interval is counted from the time the task was due.
RescheduledFromDue(i, time) ==
  IF Interval[i] = Never THEN Never ELSE (nextRunTime[i] + Interval[i]) % Word

Rescheduled(i, time) ==
  IF Interval[i] = Never THEN Never ELSE (time + Interval[i]) % Word

\* getNextTask().
GetNextTask ==
  /\ pc = "pick" /\ now <= Horizon
  /\ pc' = "wait"
  /\ \E i \in Task :
       /\ Chosen(i)
       /\ task' = i
       /\ start' = Later(now, nextRunTime[i])
       /\ nextRunTime' = [nextRunTime EXCEPT ![i] = Rescheduled(i, start')]
  /\ UNCHANGED <<now, sessionTimeSet, started, since>>

\* while (millis() < nextEventTime) ... measure().
Measure ==
  /\ pc = "wait"
  /\ pc' = "loop"
  /\ \E slip \in 0 .. (IF now < start THEN Slip ELSE 0) : \E d \in 0 .. Duration[task] :
       /\ now' = Later(now, start) + slip + d
       /\ started' = [started EXCEPT ![task] = Later(now, start) + slip]
  /\ UNCHANGED <<nextRunTime, task, start, sessionTimeSet, since>>

\* The surfer leaves the water, or the battery is low: in the waiting loop, or
\* after a measurement.
Leave ==
  /\ \/ pc = "wait" /\ now < start
     \/ pc = "loop" /\ \E i \in Task : started[i] >= 0
  /\ pc' = "over"
  /\ UNCHANGED <<now, nextRunTime, task, start, sessionTimeSet, started, since>>

Next == SetSessionTime \/ SkipSessionTime \/ GetNextTask \/ Measure \/ Leave

Spec == Init /\ [][Next]_vars

-----------------------------------------------------------------------------
(***************************************************************************)
(* Properties.                                                             *)
(***************************************************************************)

\* The type invariant.
TypeOK ==
  /\ now \in Nat /\ start \in Nat
  /\ nextRunTime \in [Task -> 0 .. Never]
  /\ task \in Task
  /\ pc \in {"loop", "pick", "wait", "over"} /\ sessionTimeSet \in BOOLEAN
  /\ started \in [Task -> Nat \union {-1}]
  /\ since \in Nat

\* No priority inversion: when a measurement has ended, no task of a higher
\* priority has been kept waiting by it, except for the overshoot of the wait.
NoInversion ==
  pc = "loop" => \A i \in 1 .. task - 1 : now <= nextRunTime[i] + Slip

\* When task i is due.  During start-up and while the session time is set nothing
\* can run, so a task counts as due when they end, if it was due earlier.
Due(i) == Later(nextRunTime[i], since)

\* No starvation: whatever the measurements of the other tasks take, and although
\* all tasks fall due together after start-up and after the session time is set, no
\* task is ever behind its time by more than MaxLate.
TasksOnTime ==
  pc = "pick" => \A i \in Task : nextRunTime[i] # Never => now <= Due(i) + MaxLate[i]

\* The scheduler always finds a task as long as one is left to run: the ride
\* loop never ends up waiting for UINT32_MAX.
SearchSucceeds ==
  pc = "pick" /\ (\E i \in Task : nextRunTime[i] # Never) => \E i \in Task : CanRun(i)

\* A delayed task shifts the times after it: two measurements of one task start
\* at least its interval apart, less the overshoot of the first wait.
Spaced ==
  [][ \A i \in Task :
        started'[i] # started[i] /\ started[i] >= 0 /\ Interval[i] # Never =>
          started'[i] - started[i] >= Interval[i] - Slip ]_vars

(***************************************************************************)
(* What TasksOnTime needs of a table.  A task that is due waits for the    *)
(* tasks of higher priority: each of them holds it up once, by the time    *)
(* until it is due itself and by its measurement, if none comes round      *)
(* again before they are through.                                          *)
(***************************************************************************)
Periodic(i) == Interval[i] # Never

\* Busy[i]: the time the first i tasks of the table take.
Busy ==
  LET work[n \in 0 .. Tasks] == IF n = 0 THEN 0 ELSE work[n - 1] + Duration[n]
  IN  work

\* The longest that a task of higher priority, and the wait for it, holds up task i.
HeldUp(i) == Slip + Busy[i] - 1

\* How late task i can be when n of them have; a task of lower priority, picked
\* before i was due, overshoots by Slip.
Delay(i, n) == (IF i < Tasks THEN Slip ELSE 0) + n * HeldUp(i)

Lateness(i) == Delay(i, i - 1)

LightLoad ==
  \A i \in Task :
    /\ Periodic(i) => Duration[i] + Slip <= Interval[i]
    /\ \A j \in 1 .. i - 1 :
         Periodic(j) => Lateness(i) + Busy[i] + Duration[j] + Slip <= Interval[j]

=============================================================================
