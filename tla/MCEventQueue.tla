---------------------------- MODULE MCEventQueue ----------------------------
(* Instances of EventQueue for TLC. *)
EXTENDS EventQueue

CONSTANTS p1, p2

MCProducers == {p1, p2}
MCLens == {4, 6}
=============================================================================
