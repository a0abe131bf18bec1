--------------------------- MODULE MCWaterSensor ---------------------------
(***************************************************************************)
(* Instances of WaterSensor for TLC: an array of five, three windows, one  *)
(* of them too large, and the percentages of the code.                     *)
(***************************************************************************)
EXTENDS WaterSensor

MCWindows == {1, 4, 6}

=============================================================================
