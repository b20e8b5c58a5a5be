----------------------------- MODULE MCCilkify -----------------------------
(* Small instances of Cilkify for TLC. *)
EXTENDS Cilkify
=============================================================================
