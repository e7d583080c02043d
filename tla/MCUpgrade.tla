----------------------------- MODULE MCUpgrade ------------------------------
(* A small instance of Upgrade for TLC. *)
EXTENDS Upgrade

CONSTANTS m1, d1
=============================================================================
