----------------------------- MODULE MCRecorder -----------------------------
(***************************************************************************)
(* Instances of Recorder for TLC: packets of three bytes, records of one   *)
(* and two.                                                                *)
(***************************************************************************)
EXTENDS Recorder

MCSizes == {1, 2}

=============================================================================
