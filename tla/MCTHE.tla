------------------------------- MODULE MCTHE -------------------------------
(* Small instances of THE for TLC. *)
EXTENDS THE
=============================================================================
