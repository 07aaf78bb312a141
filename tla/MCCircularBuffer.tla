-------------------------- MODULE MCCircularBuffer --------------------------
(* Small instances of CircularBuffer for TLC. *)
EXTENDS CircularBuffer
=============================================================================
