-------------------------- MODULE MCCircuitBreaker --------------------------
(* TLC instance of CircuitBreaker. *)
EXTENDS CircuitBreaker

MCSuggested ==
    [e \in {"transient", "rateLimited", "fatal"} |-> IF e = "rateLimited" THEN 3 ELSE 1]
=============================================================================
