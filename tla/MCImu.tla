------------------------------- MODULE MCImu -------------------------------
(***************************************************************************)
(* Imu and FaultLog for TLC.  They share no state but what threads there   *)
(* are: a behavior is one of either, chosen at the start.                  *)
(***************************************************************************)
EXTENDS Imu, FaultLog

VARIABLE side      (* "imu" or "log"                                        *)

Init == side \in {"imu", "log"} /\ ImuInit /\ LogInit

Next ==
  \/ side = "imu" /\ ImuNext /\ UNCHANGED <<side, logVars>>
  \/ side = "log" /\ LogNext /\ UNCHANGED <<side, imuVars>>

Spec == Init /\ [][Next]_<<side, imuVars, logVars>>

\* The type invariants of both.
TypeOK == ImuTypeOK /\ LogTypeOK

\* Two fields, the second of two units.
MCFieldOrder == <<"accel", "gyro">>
MCFieldSets  == {{"accel"}, {"accel", "gyro"}}
MCUnitsOf    == [p \in {"header", "accel", "gyro", "footer"} |->
                   IF p = "gyro" THEN 2 ELSE 1]

=============================================================================
