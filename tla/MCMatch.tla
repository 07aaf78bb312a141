------------------------------ MODULE MCMatch ------------------------------
(* Small instances of Match for TLC. *)
EXTENDS Match
=============================================================================
