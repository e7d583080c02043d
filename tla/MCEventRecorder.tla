-------------------------- MODULE MCEventRecorder ---------------------------
(* A small instance of EventRecorder for TLC. *)
EXTENDS EventRecorder

CONSTANTS g1, g2, g3, g4, Timeout, Invalid
=============================================================================
