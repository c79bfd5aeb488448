---------------------------- MODULE MCObservation ----------------------------
(* Instances of Observation for TLC. *)
EXTENDS Observation

CONSTANTS r1, r2, r3

TwoNames   == <<r1, r2>>
ThreeNames == <<r1, r2, r3>>
=============================================================================
