---------------------------- MODULE MCCircuitBreaker ----------------------------
(* Constants of the bounded instance of CircuitBreaker. *)
EXTENDS CircuitBreaker

CONSTANTS c1, c2, c3, c4

FourCallers == {c1, c2, c3, c4}
=================================================================================
