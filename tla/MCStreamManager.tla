-------------------------- MODULE MCStreamManager --------------------------
(* TLC instances of StreamManager. *)
EXTENDS StreamManager
=============================================================================
