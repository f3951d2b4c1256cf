------------------------------- MODULE Lookup -------------------------------
(***************************************************************************)
(* What Resolver::parallel_lookup (src/src/resolver.rs) offers its         *)
(* callers, with no order of the list, no breakers, no grace period and no *)
(* statuses: a lookup ends with a project it asked that has not said no,   *)
(* or, once every project it asked has, with an error.  That error is      *)
(* `not found` only if some project was asked and all were reached.        *)
(***************************************************************************)
CONSTANTS Projects, NoOutcome

VARIABLES
  asked,    \* the projects this lookup asks
  left,     \* those of them that have not said no
  erred,    \* whether one of them could not be reached
  outcome   \* what the lookup returned

absvars == <<asked, left, erred, outcome>>

NotFound == [error |-> "not found"]
Failed   == [error |-> "failed"]

Init ==
  /\ asked \in SUBSET Projects
  /\ left = asked
  /\ erred = FALSE
  /\ outcome = NoOutcome

\* A project says no, or cannot be reached.
CrossOff(p) ==
  /\ outcome = NoOutcome
  /\ p \in left
  /\ left' = left \ {p}
  /\ erred' \in {erred, TRUE}
  /\ UNCHANGED <<asked, outcome>>

Endings ==
  {[project |-> p] : p \in left}
    \cup (IF left # {} THEN {} ELSE IF erred \/ asked = {} THEN {Failed} ELSE {NotFound})

End ==
  /\ outcome = NoOutcome
  /\ outcome' \in Endings
  /\ left' = {}
  /\ UNCHANGED <<asked, erred>>

Next == End \/ \E p \in Projects : CrossOff(p)

Spec == Init /\ [][Next]_absvars

=============================================================================
