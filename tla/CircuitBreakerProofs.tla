------------------------ MODULE CircuitBreakerProofs ------------------------
(***************************************************************************)
(* Proofs about CircuitBreaker for any number of threads and any           *)
(* threshold and timeout.                                                  *)
(***************************************************************************)
EXTENDS CircuitBreaker, TLAPS

(***************************************************************************)
(* The inductive invariant.                                                *)
(***************************************************************************)
\* A thread only makes the accesses of the operation it is in.
Checking  == {"load", "compare", "halfopen", "gaugeHalf"}
Succeeding == {"reset", "close", "gaugeClosed"}
Failing   == {"count", "stamp", "open", "readGauge", "setGauge"}

OpFits ==
  \A t \in Threads :
    /\ pc[t] \in Checking => op[t] = "check"
    /\ pc[t] \in Succeeding => op[t] = "success"
    /\ pc[t] \in Failing => op[t] = "failure"
    /\ pc[t] = "open" => trip[t]

\* What the history variable records.
Unmixed ==
  ~mixed => ~\E t, u \in Threads : pc[t] \in Succeeding /\ pc[u] \in Failing

\* A failure that reached the threshold and has not opened the circuit yet.
AboutToOpen(t) == pc[t] \in {"stamp", "open"} /\ trip[t]

\* Counter and state agree, up to the operations that are half done.
Agree ==
  ~mixed =>
    /\ \A t \in Threads : pc[t] = "close" => failures = 0
    /\ \A t \in Threads : AboutToOpen(t) => failures = Threshold
    /\ state # CLOSED => failures = Threshold \/ \E t \in Threads : pc[t] = "close"
    /\ state = CLOSED /\ failures = Threshold => \E t \in Threads : AboutToOpen(t)

IndInv == TypeOK /\ OpFits /\ Unmixed /\ Agree

-----------------------------------------------------------------------------
LEMMA InitInv == Init => IndInv
<1> SUFFICES ASSUME Init PROVE IndInv
  OBVIOUS
<1> USE ThresholdAssumption, TimeoutAssumption DEF Init, CLOSED, OPEN, HALF_OPEN
<1>1. TypeOK
  <2>1. failures \in 0 .. Threshold /\ elapsed \in 0 .. Timeout
    OBVIOUS
  <2>2. trip \in [Threads -> BOOLEAN] /\ mixed \in BOOLEAN
    OBVIOUS
  <2> QED BY <2>1, <2>2 DEF TypeOK, States
<1>2. OpFits /\ Unmixed
  BY DEF OpFits, Unmixed, Checking, Succeeding, Failing
<1>3. Agree
  BY DEF Agree, AboutToOpen
<1> QED BY <1>1, <1>2, <1>3 DEF IndInv

LEMMA EntryKeeps ==
  ASSUME IndInv, NEW t \in Threads, Entry(t)
  PROVE  IndInv'
<1> USE ThresholdAssumption, TimeoutAssumption
    DEF IndInv, TypeOK, Entry, Step, shared, locals, Holding, States, CLOSED, OPEN, HALF_OPEN
<1>1. TypeOK'
  OBVIOUS
<1>2. OpFits' /\ Unmixed'
  BY DEF OpFits, Unmixed, Checking, Succeeding, Failing
<1>3. Agree'
  BY DEF OpFits, Unmixed, Agree, AboutToOpen, Checking, Succeeding, Failing
<1> QED BY <1>1, <1>2, <1>3

LEMMA GetKeeps ==
  ASSUME IndInv, NEW t \in Threads, Get(t)
  PROVE  IndInv'
<1> USE ThresholdAssumption, TimeoutAssumption
    DEF IndInv, TypeOK, Get, Step, shared, locals, Holding, States, CLOSED, OPEN, HALF_OPEN, FirstAccess
<1>1. TypeOK'
  OBVIOUS
<1>2. OpFits'
  BY DEF OpFits, Checking, Succeeding, Failing
<1>3. Unmixed'
  <2> SUFFICES ASSUME ~mixed', NEW u \in Threads, NEW v \in Threads,
                      pc'[u] \in Succeeding, pc'[v] \in Failing
               PROVE  FALSE
    BY DEF Unmixed
  <2>1. op[u] = "success" /\ op[v] = "failure"
    BY <1>2 DEF OpFits
  <2>2. {op[u], op[v]} = {"success", "failure"} /\ {op[v], op[u]} = {"success", "failure"}
    BY <2>1
  <2>3. (u # t => pc[u] \in Holding /\ pc[u] \in Succeeding)
        /\ (v # t => pc[v] \in Holding /\ pc[v] \in Failing)
    BY DEF Succeeding, Failing
  <2>4. ~mixed /\ \A w \in Threads :
                    pc[w] \in Holding => {op[t], op[w]} # {"success", "failure"}
    OBVIOUS
  <2>5. CASE u = t
    BY <2>1, <2>2, <2>3, <2>4, <2>5
  <2>6. CASE u # t /\ v = t
    BY <2>2, <2>3, <2>4, <2>6
  <2>7. CASE u # t /\ v # t
    BY <2>3, <2>4, <2>7 DEF Unmixed
  <2> QED BY <2>5, <2>6, <2>7
<1>4. Agree'
  BY DEF OpFits, Unmixed, Agree, AboutToOpen, Checking, Succeeding, Failing
<1> QED BY <1>1, <1>2, <1>3, <1>4

LEMMA LoadKeeps ==
  ASSUME IndInv, NEW t \in Threads, Load(t)
  PROVE  IndInv'
<1> USE ThresholdAssumption, TimeoutAssumption
    DEF IndInv, TypeOK, Load, Step, shared, locals, Holding, States, CLOSED, OPEN, HALF_OPEN
<1>1. TypeOK'
  OBVIOUS
<1>2. OpFits' /\ Unmixed'
  BY DEF OpFits, Unmixed, Checking, Succeeding, Failing
<1>3. Agree'
  BY DEF OpFits, Unmixed, Agree, AboutToOpen, Checking, Succeeding, Failing
<1> QED BY <1>1, <1>2, <1>3

LEMMA CompareKeeps ==
  ASSUME IndInv, NEW t \in Threads, Compare(t)
  PROVE  IndInv'
<1> USE ThresholdAssumption, TimeoutAssumption
    DEF IndInv, TypeOK, Compare, Step, shared, locals, Holding, States, CLOSED, OPEN, HALF_OPEN
<1>1. TypeOK'
  OBVIOUS
<1>2. OpFits' /\ Unmixed'
  BY DEF OpFits, Unmixed, Checking, Succeeding, Failing
<1>3. Agree'
  BY DEF OpFits, Unmixed, Agree, AboutToOpen, Checking, Succeeding, Failing
<1> QED BY <1>1, <1>2, <1>3

LEMMA CasHalfOpenKeeps ==
  ASSUME IndInv, NEW t \in Threads, CasHalfOpen(t)
  PROVE  IndInv'
<1> USE ThresholdAssumption, TimeoutAssumption
    DEF IndInv, TypeOK, CasHalfOpen, Step, shared, locals, Holding, States, CLOSED, OPEN, HALF_OPEN
<1>1. TypeOK'
  OBVIOUS
<1>2. OpFits' /\ Unmixed'
  BY DEF OpFits, Unmixed, Checking, Succeeding, Failing
<1>3. Agree'
  BY DEF OpFits, Unmixed, Agree, AboutToOpen, Checking, Succeeding, Failing
<1> QED BY <1>1, <1>2, <1>3

LEMMA GaugeHalfOpenKeeps ==
  ASSUME IndInv, NEW t \in Threads, GaugeHalfOpen(t)
  PROVE  IndInv'
<1> USE ThresholdAssumption, TimeoutAssumption
    DEF IndInv, TypeOK, GaugeHalfOpen, Step, shared, locals, Holding, States, CLOSED, OPEN, HALF_OPEN
<1>1. TypeOK'
  OBVIOUS
<1>2. OpFits' /\ Unmixed'
  BY DEF OpFits, Unmixed, Checking, Succeeding, Failing
<1>3. Agree'
  BY DEF OpFits, Unmixed, Agree, AboutToOpen, Checking, Succeeding, Failing
<1> QED BY <1>1, <1>2, <1>3

LEMMA ResetKeeps ==
  ASSUME IndInv, NEW t \in Threads, Reset(t)
  PROVE  IndInv'
<1> USE ThresholdAssumption, TimeoutAssumption
    DEF IndInv, TypeOK, Reset, Step, shared, locals, Holding, States, CLOSED, OPEN, HALF_OPEN
<1>1. TypeOK'
  OBVIOUS
<1>2. OpFits' /\ Unmixed'
  BY DEF OpFits, Unmixed, Checking, Succeeding, Failing
<1>3. Agree'
  BY DEF OpFits, Unmixed, Agree, AboutToOpen, Checking, Succeeding, Failing
<1> QED BY <1>1, <1>2, <1>3

LEMMA CloseKeeps ==
  ASSUME IndInv, NEW t \in Threads, Close(t)
  PROVE  IndInv'
<1> USE ThresholdAssumption, TimeoutAssumption
    DEF IndInv, TypeOK, Close, Step, shared, locals, Holding, States, CLOSED, OPEN, HALF_OPEN
<1>1. TypeOK'
  OBVIOUS
<1>2. OpFits' /\ Unmixed'
  BY DEF OpFits, Unmixed, Checking, Succeeding, Failing
<1>3. Agree'
  BY DEF OpFits, Unmixed, Agree, AboutToOpen, Checking, Succeeding, Failing
<1> QED BY <1>1, <1>2, <1>3

LEMMA GaugeClosedKeeps ==
  ASSUME IndInv, NEW t \in Threads, GaugeClosed(t)
  PROVE  IndInv'
<1> USE ThresholdAssumption, TimeoutAssumption
    DEF IndInv, TypeOK, GaugeClosed, Step, shared, locals, Holding, States, CLOSED, OPEN, HALF_OPEN
<1>1. TypeOK'
  OBVIOUS
<1>2. OpFits' /\ Unmixed'
  BY DEF OpFits, Unmixed, Checking, Succeeding, Failing
<1>3. Agree'
  BY DEF OpFits, Unmixed, Agree, AboutToOpen, Checking, Succeeding, Failing
<1> QED BY <1>1, <1>2, <1>3

LEMMA CountKeeps ==
  ASSUME IndInv, NEW t \in Threads, Count(t)
  PROVE  IndInv'
<1> USE ThresholdAssumption, TimeoutAssumption
    DEF IndInv, TypeOK, Count, Step, shared, locals, Holding, States, CLOSED, OPEN, HALF_OPEN
<1>1. TypeOK'
  OBVIOUS
<1>2. OpFits' /\ Unmixed'
  BY DEF OpFits, Unmixed, Checking, Succeeding, Failing
<1>3. Agree'
  <2> SUFFICES ASSUME ~mixed PROVE Agree'
    BY DEF Agree
  <2>1. \A u \in Threads : pc[u] # "close"
    BY DEF Unmixed, Succeeding, Failing
  <2>2. \A u \in Threads : AboutToOpen(u) => u # t /\ AboutToOpen(u)'
    BY DEF AboutToOpen
  <2>3. \A u \in Threads : AboutToOpen(u)' => failures' = Threshold
    BY DEF Agree, AboutToOpen
  <2>4. failures' = Threshold /\ failures # Threshold => AboutToOpen(t)'
    <3> SUFFICES ASSUME failures' = Threshold, failures # Threshold PROVE AboutToOpen(t)'
      OBVIOUS
    <3>1. (failures + 1 >= Threshold) = TRUE
      OBVIOUS
    <3>2. trip'[t]
      BY <3>1, Zenon
    <3> QED BY <3>2 DEF AboutToOpen
  <2>5. state # CLOSED => failures' = Threshold
    BY <2>1 DEF Agree
  <2>6. state = CLOSED /\ failures' = Threshold => \E u \in Threads : AboutToOpen(u)'
    BY <2>2, <2>4 DEF Agree
  <2>7. \A u \in Threads : pc'[u] # "close"
    BY <2>1
  <2> QED BY <2>3, <2>5, <2>6, <2>7 DEF Agree
<1> QED BY <1>1, <1>2, <1>3

LEMMA StampKeeps ==
  ASSUME IndInv, NEW t \in Threads, Stamp(t)
  PROVE  IndInv'
<1> USE ThresholdAssumption, TimeoutAssumption
    DEF IndInv, TypeOK, Stamp, Step, shared, locals, Holding, States, CLOSED, OPEN, HALF_OPEN
<1>1. TypeOK'
  OBVIOUS
<1>2. OpFits' /\ Unmixed'
  BY DEF OpFits, Unmixed, Checking, Succeeding, Failing
<1>3. Agree'
  BY DEF OpFits, Unmixed, Agree, AboutToOpen, Checking, Succeeding, Failing
<1> QED BY <1>1, <1>2, <1>3

LEMMA OpenKeeps ==
  ASSUME IndInv, NEW t \in Threads, Open(t)
  PROVE  IndInv'
<1> USE ThresholdAssumption, TimeoutAssumption
    DEF IndInv, TypeOK, Open, Step, shared, locals, Holding, States, CLOSED, OPEN, HALF_OPEN
<1>1. TypeOK'
  OBVIOUS
<1>2. OpFits' /\ Unmixed'
  BY DEF OpFits, Unmixed, Checking, Succeeding, Failing
<1>3. Agree'
  BY DEF OpFits, Unmixed, Agree, AboutToOpen, Checking, Succeeding, Failing
<1> QED BY <1>1, <1>2, <1>3

LEMMA ReadGaugeKeeps ==
  ASSUME IndInv, NEW t \in Threads, ReadGauge(t)
  PROVE  IndInv'
<1> USE ThresholdAssumption, TimeoutAssumption
    DEF IndInv, TypeOK, ReadGauge, Step, shared, locals, Holding, States, CLOSED, OPEN, HALF_OPEN
<1>1. TypeOK'
  OBVIOUS
<1>2. OpFits' /\ Unmixed'
  BY DEF OpFits, Unmixed, Checking, Succeeding, Failing
<1>3. Agree'
  BY DEF OpFits, Unmixed, Agree, AboutToOpen, Checking, Succeeding, Failing
<1> QED BY <1>1, <1>2, <1>3

LEMMA SetGaugeKeeps ==
  ASSUME IndInv, NEW t \in Threads, SetGauge(t)
  PROVE  IndInv'
<1> USE ThresholdAssumption, TimeoutAssumption
    DEF IndInv, TypeOK, SetGauge, Step, shared, locals, Holding, States, CLOSED, OPEN, HALF_OPEN
<1>1. TypeOK'
  OBVIOUS
<1>2. OpFits' /\ Unmixed'
  BY DEF OpFits, Unmixed, Checking, Succeeding, Failing
<1>3. Agree'
  BY DEF OpFits, Unmixed, Agree, AboutToOpen, Checking, Succeeding, Failing
<1> QED BY <1>1, <1>2, <1>3

LEMMA BeginKeeps ==
  ASSUME IndInv, NEW t \in Threads, Begin(t)
  PROVE  IndInv'
<1> USE ThresholdAssumption, TimeoutAssumption
    DEF IndInv, TypeOK, Begin, Step, shared, locals, Holding, States, CLOSED, OPEN, HALF_OPEN
<1>1. TypeOK'
  OBVIOUS
<1>2. OpFits' /\ Unmixed'
  BY DEF OpFits, Unmixed, Checking, Succeeding, Failing
<1>3. Agree'
  BY DEF OpFits, Unmixed, Agree, AboutToOpen, Checking, Succeeding, Failing
<1> QED BY <1>1, <1>2, <1>3

LEMMA ReportKeeps ==
  ASSUME IndInv, NEW t \in Threads, NEW o \in Outcomes, Report(t, o)
  PROVE  IndInv'
<1> USE ThresholdAssumption, TimeoutAssumption, OutcomesAssumption
    DEF IndInv, TypeOK, Report, Step, shared, locals, Holding, States, CLOSED, OPEN, HALF_OPEN, Reports
<1>1. TypeOK'
  OBVIOUS
<1>2. OpFits' /\ Unmixed'
  BY DEF OpFits, Unmixed, Checking, Succeeding, Failing
<1>3. Agree'
  BY DEF OpFits, Unmixed, Agree, AboutToOpen, Checking, Succeeding, Failing
<1> QED BY <1>1, <1>2, <1>3

LEMMA NextKeeps ==
  ASSUME IndInv, [Next]_vars
  PROVE  IndInv'
<1>1. ASSUME NEW t \in Threads, Thread(t)
      PROVE  IndInv'
  BY <1>1, EntryKeeps, GetKeeps, LoadKeeps, CompareKeeps, CasHalfOpenKeeps, GaugeHalfOpenKeeps, ResetKeeps, CloseKeeps, GaugeClosedKeeps, CountKeeps, StampKeeps, OpenKeeps, ReadGaugeKeeps, SetGaugeKeeps, BeginKeeps, ReportKeeps
     DEF Thread, Access
<1>2. CASE Second
  BY <1>2, TimeoutAssumption
     DEF IndInv, TypeOK, OpFits, Unmixed, Agree, AboutToOpen, Second, locals
<1>3. CASE UNCHANGED vars
  BY <1>3 DEF IndInv, TypeOK, OpFits, Unmixed, Agree, AboutToOpen, vars
<1> QED BY <1>1, <1>2, <1>3 DEF Next

\* IndInv holds in every reachable state.
THEOREM Inductive == Spec => []IndInv
<1>1. Init => IndInv
  BY InitInv
<1>2. IndInv /\ [Next]_vars => IndInv'
  BY NextKeeps
<1> QED BY <1>1, <1>2, PTL DEF Spec

\* Every variable keeps its type, for any number of threads.
THEOREM TypeCorrect == Spec => []TypeOK
<1>1. IndInv => TypeOK
  BY DEF IndInv
<1> QED BY <1>1, Inductive, PTL

\* Threshold consecutive failures open the circuit and nothing less does,
\* however many threads record them, until a success and a failure meet.
THEOREM CounterAgrees == Spec => []Consistent
<1>1. IndInv => Consistent
  BY ThresholdAssumption
     DEF IndInv, TypeOK, Agree, AboutToOpen, Consistent, Quiet, Holding, States
<1> QED BY <1>1, Inductive, PTL

\* A closed circuit never turns half-open: the exchange of is_available acts
\* on an open one or not at all.
THEOREM NoSpuriousHalfOpen == Spec => HalfOpenOnlyFromOpen
<1>1. [Next]_vars => [state = CLOSED => state' # HALF_OPEN]_vars
  BY DEF Next, Thread, Access, vars, shared, locals, CLOSED, OPEN, HALF_OPEN, Second, Entry,
         Get, Load, Compare, CasHalfOpen, GaugeHalfOpen, Reset, Close, GaugeClosed, Count,
         Stamp, Open, ReadGauge, SetGauge, Begin, Report
<1> QED BY <1>1, PTL DEF Spec, HalfOpenOnlyFromOpen

=============================================================================
