------------------------------ MODULE MCFanout ------------------------------
(* Fanout on a small registry, for the runs fo_*.                          *)
EXTENDS Fanout

CONSTANTS p1, p2, p3

=============================================================================
