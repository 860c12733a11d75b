--------------------------- MODULE MCCircuitBreaker ---------------------------
(* Three coroutines, so that a late result can meet two probes.            *)
EXTENDS CircuitBreaker

CONSTANTS c1, c2, c3

MCCalls == {c1, c2, c3}
=============================================================================
