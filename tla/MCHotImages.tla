---------------------------- MODULE MCHotImages ----------------------------
(* HotImages on a small instance, for the run hi_images: two threads that  *)
(* count the requests for three images, where one may be tracked.          *)
EXTENDS HotImages, TLC

CONSTANTS a, b, c, p, t1, t2

ShardOrder == <<a, c, b>>
AskedFor == (t1 :> {a, b}) @@ (t2 :> {b, c})

=============================================================================
