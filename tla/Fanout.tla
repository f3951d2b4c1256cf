------------------------------- MODULE Fanout -------------------------------
(***************************************************************************)
(* One run of Resolver::parallel_lookup (src/src/resolver.rs): which       *)
(* projects are probed, how the replies are consumed in the order they     *)
(* arrive, what the circuit breaker hears of them, and what the caller     *)
(* makes of the outcome.                                                   *)
(*                                                                         *)
(* All probes of a lookup are futures of one task: a reply is consumed in  *)
(* the same poll that reports it to the breaker, and returning drops the   *)
(* probes that have not completed.                                         *)
(***************************************************************************)
EXTENDS Integers, FiniteSets, SequencesExt

CONSTANTS
  Projects,    \* the proxy-cache projects of the registry
  MaxFanout,   \* at most so many projects are considered
  None

ASSUME FanoutAssumption == MaxFanout \in Nat
ASSUME FiniteAssumption == IsFiniteSet(Projects)
(***************************************************************************)
(* What a probe ends with, as far as the code tells replies apart: a 200   *)
(* whose content type the client accepts, a 200 it does not, a 4xx, any    *)
(* other status, an error on the way (a timeout or a transport error), or  *)
(* a request that could not be built.                                      *)
(***************************************************************************)
Found   == {"match", "mismatch"}
Missing == {"client_error", "other_status"}
Errors  == {"failed", "unbuildable"}
Replies == Found \cup Missing \cup Errors

ASSUME NoneAssumption == None \notin Projects \cup Replies

VARIABLES
  discovered,  \* the discovered list the lookup works on, in its order
  tripped,     \* the projects whose breaker does not let a probe through
  phase,       \* "start", "collecting", "returned" or "dropped"
  running,     \* the probes that have not completed
  reply,       \* the replies consumed so far
  fallback,    \* the first project with a 200 of another content type
  lastErr,     \* whether some probe ended with an error
  reported,    \* what the breaker was told of each project
  result       \* what the lookup returned

vars == <<discovered, tripped, phase, running, reply, fallback, lastErr, reported, result>>

Considered == {discovered[i] : i \in 1 .. (IF Len(discovered) > MaxFanout
                                             THEN MaxFanout ELSE Len(discovered))}
Probed == Considered \ tripped

Lists == UNION {SetToSeqs(S) : S \in SUBSET Projects}

Init ==
  /\ discovered \in Lists
  /\ tripped \in SUBSET Projects
  /\ phase = "start"
  /\ running = {}
  /\ reply = [p \in Projects |-> None]
  /\ fallback = None
  /\ lastErr = FALSE
  /\ reported = [p \in Projects |-> "nothing"]
  /\ result = None

Return(res) == phase' = "returned" /\ result' = res

Start ==
  /\ phase = "start"
  /\ running' = Probed
  /\ \/ discovered = <<>> /\ Return([error |-> "none discovered"])
     \/ discovered # <<>> /\ Probed = {} /\ Return([error |-> "all circuits open"])
     \/ Probed # {} /\ phase' = "collecting" /\ UNCHANGED result
  /\ UNCHANGED <<discovered, tripped, reply, fallback, lastErr, reported>>

\* record_success for a 200, record_failure for a status that is no 4xx and
\* for an error unless the request could not be built.
Verdict(k) ==
  CASE k \in Found -> "success"
    [] k \in {"other_status", "failed"} -> "failure"
    [] OTHER -> "nothing"

Arrive(p, k) ==
  /\ phase = "collecting"
  /\ p \in running
  /\ reply' = [reply EXCEPT ![p] = k]
  /\ reported' = [reported EXCEPT ![p] = Verdict(k)]
  /\ running' = IF k = "match" THEN {} ELSE running \ {p}
  /\ fallback' = IF k = "mismatch" /\ fallback = None THEN p ELSE fallback
  /\ lastErr' = (lastErr \/ k \in Errors)
  /\ IF k = "match" THEN Return([found |-> p]) ELSE UNCHANGED <<phase, result>>
  /\ UNCHANGED <<discovered, tripped>>

\* Mutants of Conclude: an error hides the fallback; errors are forgotten;
\* a fallback is assumed to be there.
ConcludeErrorFirst ==
  /\ running' = {}
  /\ Return(CASE lastErr -> [error |-> "all failed"]
              [] ~lastErr /\ fallback # None -> [found |-> fallback]
              [] OTHER -> [error |-> "not found"])
  /\ UNCHANGED <<discovered, tripped, reply, fallback, lastErr, reported>>

ConcludeForgetful ==
  /\ running' = {}
  /\ Return(IF fallback # None THEN [found |-> fallback] ELSE [error |-> "not found"])
  /\ UNCHANGED <<discovered, tripped, reply, fallback, lastErr, reported>>

ConcludeUnchecked ==
  /\ running' = {}
  /\ Return(IF lastErr THEN [error |-> "all failed"] ELSE [found |-> fallback])
  /\ UNCHANGED <<discovered, tripped, reply, fallback, lastErr, reported>>

\* What remains when the stream ends or the grace period is over.
Conclude ==
  /\ running' = {}
  /\ \/ fallback # None /\ Return([found |-> fallback])
     \/ fallback = None /\ lastErr /\ Return([error |-> "all failed"])
     \/ fallback = None /\ ~lastErr /\ Return([error |-> "not found"])
  /\ UNCHANGED <<discovered, tripped, reply, fallback, lastErr, reported>>

\* Mutant of Exhausted: the end of the stream is only noticed with a fallback.
ExhaustedWithFallback ==
  phase = "collecting" /\ running = {} /\ fallback # None /\ Conclude

Exhausted == phase = "collecting" /\ running = {} /\ Conclude

\* The 200 ms after the first fallback; a reply that is there when the
\* timer fires is still consumed first, or not, as the poll finds it.
GraceOver == phase = "collecting" /\ fallback # None /\ Conclude

\* The task that runs the lookup is dropped with its probes.
Drop ==
  /\ phase = "collecting"
  /\ phase' = "dropped"
  /\ running' = {}
  /\ UNCHANGED <<discovered, tripped, reply, fallback, lastErr, reported, result>>

Next ==
  \/ Start
  \/ \E p \in Projects, k \in Replies : Arrive(p, k)
  \/ Exhausted \/ GraceOver \/ Drop

Spec == Init /\ [][Next]_vars

\* A probe ends, because it runs under a timeout, and the task is polled.
FairSpec ==
  /\ Spec
  /\ WF_vars(Start) /\ WF_vars(Exhausted)
  /\ \A p \in Projects : WF_vars(\E k \in Replies : Arrive(p, k))

(***************************************************************************)
(* The caller, resolve_manifest: it caches the project of a manifest, and  *)
(* the absence of the image when the error says it is in no project.       *)
(***************************************************************************)
CachesPositive == phase = "returned" /\ "found" \in DOMAIN result
CachesNegative == phase = "returned" /\ result = [error |-> "not found"]

-----------------------------------------------------------------------------
(***************************************************************************)
(* Properties.                                                             *)
(***************************************************************************)
TypeOK ==
  /\ discovered \in Lists
  /\ tripped \subseteq Projects
  /\ phase \in {"start", "collecting", "returned", "dropped"}
  /\ running \subseteq Projects
  /\ reply \in [Projects -> Replies \cup {None}]
  /\ fallback \in Projects \cup {None}
  /\ lastErr \in BOOLEAN
  /\ reported \in [Projects -> {"success", "failure", "nothing"}]
  /\ result \in {None} \cup [found : Projects]
              \cup [error : {"none discovered", "all circuits open", "all failed", "not found"}]

Replied(K) == {p \in Projects : reply[p] \in K}

\* Whatever the order of the replies and the moment the grace period ends, a
\* lookup that has seen a 200 returns one, the acceptable one if it saw it.
FoundIsReturned ==
  phase = "returned" /\ Replied(Found) # {} =>
    /\ CachesPositive /\ result.found \in Replied(Found)
    /\ Replied({"match"}) # {} => result.found \in Replied({"match"})

\* The lookup, seen without the order of the replies and the grace period: a
\* project that has answered with a 200 stays in question until the end.
left == IF phase = "returned" THEN {} ELSE {p \in Probed : reply[p] \in {None, "mismatch"}}
outcome ==
  IF phase # "returned" THEN None
  ELSE IF CachesPositive THEN [project |-> result.found]
  ELSE IF CachesNegative THEN [error |-> "not found"] ELSE [error |-> "failed"]

Abstract == INSTANCE Lookup
              WITH asked <- Probed, erred <- lastErr, NoOutcome <- None

\* What resolve_manifest may rely on: no error overtakes a reply, since one is
\* only returned once every project that was asked has said no; and `not
\* found`, which is cached, only if all of them were reached.
ImplementsLookup == Abstract!Spec

\* A lookup ends: no reply is awaited twice or for ever.
Ends == phase = "start" ~> phase \in {"returned", "dropped"}

\* "Negative caching only applies to 'not found in any project' outcomes.
\* Transport errors, timeouts, and partial failures are not cached
\* negatively." (docs/architecture.md:191): a negative entry means that every
\* discovered project has answered that it does not hold the image.
NegativeMeansAbsent ==
  CachesNegative => ToSet(discovered) = Replied({"client_error"})

=============================================================================
