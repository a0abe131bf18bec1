---------------------------- MODULE MCScheduler ----------------------------
(***************************************************************************)
(* Instances of Scheduler for TLC: the deployment schedule of rideTask.cpp *)
(* (firmware version once, IMU every 18 ms, temperature every 100 ms).     *)
(***************************************************************************)
EXTENDS Scheduler

MCInterval == <<Never, 18, 100>>
MCDuration == <<1, 1, 2>>
MCMaxLate  == <<0, 1, 3>>

\* Long enough for the IMU to be due again.
MCDelays == {0, 2, 25}

\* The table is one of those that the proof of TasksOnTime is about; the proof's
\* bounds for it are 1, 3 and 8.
ASSUME LoadAssumption == LightLoad

=============================================================================
