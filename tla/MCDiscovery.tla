---------------------------- MODULE MCDiscovery ----------------------------
(* Discovery on a small instance, for the run ds_pods: two proxy-cache    *)
(* projects and an ordinary one, read one by one.                         *)
EXTENDS Discovery

CONSTANTS x, y, hub, quay, other

FirstLists == {<<hub, quay>>}

=============================================================================
