-------------------------- MODULE MCStreamRegistry --------------------------
(* TLC instances of StreamRegistry. *)
EXTENDS StreamRegistry
=============================================================================
