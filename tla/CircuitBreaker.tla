--------------------------- MODULE CircuitBreaker ---------------------------
(***************************************************************************)
(* The circuit breaker of one project (src/src/circuit_breaker.rs) under   *)
(* the probes of parallel_lookup (src/src/resolver.rs): each probe asks    *)
(* is_available, fetches, and reports with record_success, record_failure  *)
(* or not at all.  Projects share nothing, so one is enough.               *)
(*                                                                         *)
(* The breaker is three atomics in a DashMap entry.  Each action is one    *)
(* access to one of them; `pc` says which comes next in a thread.  A loop  *)
(* of load and compare_exchange that ends with the state set takes effect  *)
(* in a single step, so it is one action here; the compare_exchange of     *)
(* is_available, which acts on a state read two steps before, is not.      *)
(***************************************************************************)
EXTENDS Integers

CONSTANTS
  Threads,     \* concurrent probes of the project
  Threshold,   \* consecutive failures that open the circuit
  Timeout,     \* seconds an open circuit refuses probes
  Outcomes     \* what a probe may report

Reports == {"success", "failure", "none"}

ASSUME ThresholdAssumption == Threshold \in Nat \ {0}   \* threshold.max(1)
ASSUME TimeoutAssumption == Timeout \in Nat
ASSUME OutcomesAssumption == Outcomes \subseteq Reports

CLOSED == 0
OPEN == 1
HALF_OPEN == 2
States == {CLOSED, OPEN, HALF_OPEN}

VARIABLES
  state,     \* ProjectHealth.state
  failures,  \* consecutive_failures; the code only compares it with the
             \* threshold, so it is counted no further than that
  elapsed,   \* seconds since last_failure_epoch, counted up to Timeout
  gauge,     \* the Prometheus gauge circuit_breaker_state
  pc,        \* the next access of each thread
  op,        \* the breaker operation it is in
  trip,      \* whether its failure reached the threshold
  seen,      \* the state it read for the gauge
  mixed      \* history: a success and a failure were recorded at once

vars == <<state, failures, elapsed, gauge, pc, op, trip, seen, mixed>>
shared == <<state, failures, elapsed, gauge>>
locals == <<op, trip, seen, mixed>>

Init ==
  /\ state = CLOSED
  /\ failures = 0
  /\ elapsed = Timeout
  /\ gauge = CLOSED
  /\ pc = [t \in Threads |-> "idle"]
  /\ op = [t \in Threads |-> "check"]
  /\ trip = [t \in Threads |-> FALSE]
  /\ seen = [t \in Threads |-> CLOSED]
  /\ mixed = FALSE

Step(t, from, to) == pc[t] = from /\ pc' = [pc EXCEPT ![t] = to]

-----------------------------------------------------------------------------
(***************************************************************************)
(* project_health: entry().or_default() takes the shard's lock for writing *)
(* and gives it back, get() takes it for reading until the operation ends. *)
(* An operation therefore only starts while none holds the entry, but all  *)
(* those past entry() go on side by side.                                  *)
(***************************************************************************)
Holding == {"load", "compare", "halfopen", "gaugeHalf", "reset", "close", "gaugeClosed",
            "count", "stamp", "open", "readGauge", "setGauge"}

Entry(t) ==
  /\ \A u \in Threads : pc[u] \notin Holding
  /\ Step(t, "entry", "get")
  /\ UNCHANGED <<shared, locals>>

FirstAccess(o) ==
  IF o = "check" THEN "load" ELSE IF o = "success" THEN "reset" ELSE "count"

Get(t) ==
  /\ Step(t, "get", FirstAccess(op[t]))
  /\ mixed' = (mixed \/ \E u \in Threads :
                          pc[u] \in Holding /\ {op[t], op[u]} = {"success", "failure"})
  /\ UNCHANGED <<shared, op, trip, seen>>

(***************************************************************************)
(* is_available.                                                           *)
(***************************************************************************)
\* Mutant of Load: a half-open circuit waits for the probe it has let through.
LoadSingleProbe(t) ==
  /\ Step(t, "load", CASE state = OPEN -> "compare"
                        [] state = HALF_OPEN -> "idle"
                        [] state = CLOSED -> "probing")
  /\ UNCHANGED <<shared, locals>>

Load(t) ==
  /\ Step(t, "load", IF state = OPEN THEN "compare" ELSE "probing")
  /\ UNCHANGED <<shared, locals>>

\* Mutant of Compare: an open circuit never lets a probe through.
CompareRefuses(t) ==
  /\ Step(t, "compare", "idle")
  /\ UNCHANGED <<shared, locals>>

\* The clock and last_failure_epoch are read together: the clock counts
\* seconds, and a second that ends between the reads is within its error.
Compare(t) ==
  /\ Step(t, "compare", IF elapsed >= Timeout THEN "halfopen" ELSE "idle")
  /\ UNCHANGED <<shared, locals>>

\* Mutant of CasHalfOpen: a plain store instead of the compare_exchange.
StoreHalfOpen(t) ==
  /\ Step(t, "halfopen", "gaugeHalf")
  /\ state' = HALF_OPEN
  /\ UNCHANGED <<failures, elapsed, gauge, locals>>

\* The probe is let through whether or not the exchange succeeds.
CasHalfOpen(t) ==
  /\ Step(t, "halfopen", IF state = OPEN THEN "gaugeHalf" ELSE "probing")
  /\ state' = IF state = OPEN THEN HALF_OPEN ELSE state
  /\ UNCHANGED <<failures, elapsed, gauge, locals>>

GaugeHalfOpen(t) ==
  /\ Step(t, "gaugeHalf", "probing")
  /\ gauge' = HALF_OPEN
  /\ UNCHANGED <<state, failures, elapsed, locals>>

(***************************************************************************)
(* record_success.                                                         *)
(***************************************************************************)
Reset(t) ==
  /\ Step(t, "reset", "close")
  /\ failures' = 0
  /\ UNCHANGED <<state, elapsed, gauge, locals>>

\* Mutant of Close: the exchange is only tried from OPEN.
CloseFromOpen(t) ==
  /\ Step(t, "close", "gaugeClosed")
  /\ state' = IF state = OPEN THEN CLOSED ELSE state
  /\ UNCHANGED <<failures, elapsed, gauge, locals>>

Close(t) ==
  /\ Step(t, "close", "gaugeClosed")
  /\ state' = CLOSED
  /\ UNCHANGED <<failures, elapsed, gauge, locals>>

GaugeClosed(t) ==
  /\ Step(t, "gaugeClosed", "idle")
  /\ gauge' = CLOSED
  /\ UNCHANGED <<state, failures, elapsed, locals>>

\* Mutant of Count: the circuit opens one failure too late.
CountLate(t) ==
  /\ Step(t, "count", "stamp")
  /\ failures' = IF failures < Threshold THEN failures + 1 ELSE failures
  /\ trip' = [trip EXCEPT ![t] = failures + 1 > Threshold]
  /\ UNCHANGED <<state, elapsed, gauge, op, seen, mixed>>

(***************************************************************************)
(* record_failure.                                                         *)
(***************************************************************************)
Count(t) ==
  /\ Step(t, "count", "stamp")
  /\ failures' = IF failures < Threshold THEN failures + 1 ELSE failures
  /\ trip' = [trip EXCEPT ![t] = failures + 1 >= Threshold]
  /\ UNCHANGED <<state, elapsed, gauge, op, seen, mixed>>

\* Mutant of Stamp: the epoch is rounded up to a second that has not begun.
StampAhead(t) ==
  /\ Step(t, "stamp", IF trip[t] THEN "open" ELSE "readGauge")
  /\ elapsed' = -1
  /\ UNCHANGED <<state, failures, gauge, locals>>

Stamp(t) ==
  /\ Step(t, "stamp", IF trip[t] THEN "open" ELSE "readGauge")
  /\ elapsed' = 0
  /\ UNCHANGED <<state, failures, gauge, locals>>

Open(t) ==
  /\ Step(t, "open", "readGauge")
  /\ state' = OPEN
  /\ UNCHANGED <<failures, elapsed, gauge, locals>>

ReadGauge(t) ==
  /\ Step(t, "readGauge", "setGauge")
  /\ seen' = [seen EXCEPT ![t] = state]
  /\ UNCHANGED <<shared, op, trip, mixed>>

SetGauge(t) ==
  /\ Step(t, "setGauge", "idle")
  /\ gauge' = seen[t]
  /\ UNCHANGED <<state, failures, elapsed, locals>>

-----------------------------------------------------------------------------
(***************************************************************************)
(* The probe.  A 200 is a success; a server error, a timeout or a          *)
(* transport error a failure; a 4xx is not reported, and neither is a      *)
(* probe that is dropped because another project answered first.           *)
(***************************************************************************)
Begin(t) ==
  /\ Step(t, "idle", "entry")
  /\ op' = [op EXCEPT ![t] = "check"]
  /\ UNCHANGED <<shared, trip, seen, mixed>>

Report(t, o) ==
  /\ Step(t, "probing", IF o = "none" THEN "idle" ELSE "entry")
  /\ op' = [op EXCEPT ![t] = IF o = "none" THEN @ ELSE o]
  /\ UNCHANGED <<shared, trip, seen, mixed>>

Second ==
  /\ elapsed < Timeout
  /\ elapsed' = elapsed + 1
  /\ UNCHANGED <<state, failures, gauge, pc, locals>>

Access(t) ==
  \/ Entry(t) \/ Get(t)
  \/ Load(t) \/ Compare(t) \/ CasHalfOpen(t) \/ GaugeHalfOpen(t)
  \/ Reset(t) \/ Close(t) \/ GaugeClosed(t)
  \/ Count(t) \/ Stamp(t) \/ Open(t) \/ ReadGauge(t) \/ SetGauge(t)

Thread(t) == Begin(t) \/ Access(t) \/ \E o \in Outcomes : Report(t, o)

Next == Second \/ \E t \in Threads : Thread(t)

Spec == Init /\ [][Next]_vars

\* Threads are scheduled, a probe ends (it runs under a timeout), time
\* passes, and requests for the project keep arriving.
FairSpec == Spec /\ WF_vars(Second) /\ \A t \in Threads : WF_vars(Thread(t))

-----------------------------------------------------------------------------
(***************************************************************************)
(* Properties.                                                             *)
(***************************************************************************)
TypeOK ==
  /\ state \in States
  /\ failures \in 0 .. Threshold
  /\ elapsed \in 0 .. Timeout
  /\ gauge \in States
  /\ pc \in [Threads -> {"idle", "entry", "get", "probing"} \cup Holding]
  /\ op \in [Threads -> {"check", "success", "failure"}]
  /\ trip \in [Threads -> BOOLEAN]
  /\ seen \in [Threads -> States]
  /\ mixed \in BOOLEAN

Quiet == \A t \in Threads : pc[t] \notin Holding

\* As long as no success and failure are recorded at the same moment, the
\* circuit is closed, once no operation is under way, exactly if fewer than
\* Threshold failures were counted since the last success: none of several
\* concurrent failures is lost, and a half-open circuit is one failure away
\* from opening again.
Consistent == Quiet /\ ~mixed => (state = CLOSED <=> failures < Threshold)

\* An exchange that lost its race changes nothing: a circuit that a success
\* has closed is never moved to half-open by a probe that saw it open before.
HalfOpenOnlyFromOpen == [][state = CLOSED => state' # HALF_OPEN]_vars

Quietens == <>[][\A t \in Threads : ~Report(t, "failure")]_vars

\* A project that stops failing is served again: the circuit does not stay
\* open, whatever the races of the failures before.
Recovers == Quietens => <>[](state # OPEN)

\* If its probes also keep succeeding, the circuit closes for good.
Closes ==
  Quietens /\ []<><<\E t \in Threads : Report(t, "success")>>_vars => <>[](state = CLOSED)

\* Whatever the probes report, and although some report nothing (a 4xx, or a
\* probe dropped because another project answered first), the project is asked
\* again and again: no circuit waits for a report that does not come.
NeverGivenUp == []<>(\E t \in Threads : pc[t] = "probing")

(***************************************************************************)
(* What the documentation says and a race refutes.                         *)
(***************************************************************************)
\* "Closed -> Open: When consecutive failures reach
\* CIRCUIT_BREAKER_THRESHOLD" (docs/architecture.md:54): the failures counted
\* since the last success account for an open circuit.
OpenIsEarned == Quiet /\ state = OPEN => failures >= Threshold

=============================================================================
