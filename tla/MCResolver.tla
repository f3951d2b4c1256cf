----------------------------- MODULE MCResolver -----------------------------
(* Resolver on a small instance, for the runs rs_*.                        *)
EXTENDS Resolver

CONSTANTS r1, r2, k1, k2, p1, p2

=============================================================================
