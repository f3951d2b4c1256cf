-------------------------- MODULE MCCircuitBreaker --------------------------
(* CircuitBreaker on a small instance, for the runs cb_*.                  *)
EXTENDS CircuitBreaker

CONSTANTS t1, t2

=============================================================================
