--------------------------- MODULE MCSingleflight ---------------------------
(* Singleflight on a small instance, for the runs sf_*.                    *)
EXTENDS Singleflight

CONSTANTS r1, r2, r3, k1, k2

=============================================================================
