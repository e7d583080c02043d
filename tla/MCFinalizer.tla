---------------------------- MODULE MCFinalizer ----------------------------
(* Small instances of Finalizer for TLC. *)
EXTENDS Finalizer

CONSTANTS c1, c2

\* Two lists that have a resource in common, as one with both labels has.
Overlapping == <<{c1, c2}, {c2}>>
=============================================================================
