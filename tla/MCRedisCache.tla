---------------------------- MODULE MCRedisCache ----------------------------
(* RedisCache on a small instance, for the run rc_pods: two tasks of one   *)
(* pod that race, and one of another pod.                                  *)
EXTENDS RedisCache, TLC

CONSTANTS a, b, k1, mapping, other, t1, t2, t3

TaskHome == (t1 :> a) @@ (t2 :> a) @@ (t3 :> b)
TaskCommands == (t1 :> {Set(k1, mapping)}) @@ (t2 :> {Delete(k1), Get(k1)})
             @@ (t3 :> {Set(k1, other)})

=============================================================================
