------------------------- MODULE MCTransportService -------------------------
(***************************************************************************)
(* TransportService with queues of two places, packets of five units, IMU  *)
(* records of two units and low-rate ensembles of one or five units, so    *)
(* that items fit, fill a packet exactly, or close the previous one.       *)
(***************************************************************************)
EXTENDS TransportService

CONSTANTS Imu, Low, Rec, Tx   (* items accepted on each stream *)

MCMaxItems == [s \in Stream |-> CASE s = "imu" -> Imu [] s = "low" -> Low
                                  [] s = "rec" -> Rec [] s = "tx" -> Tx]
MCCapacity == [s \in Stream |-> 3]
MCSizes == [s \in Stream |-> CASE s = "imu" -> {2} [] s = "low" -> {1, 5}
                               [] OTHER -> {1}]
=============================================================================
