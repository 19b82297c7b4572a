-------------------------- MODULE MCCircuitBreaker --------------------------
(* A small instance of CircuitBreaker. *)
EXTENDS CircuitBreaker
=============================================================================
