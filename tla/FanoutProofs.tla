---------------------------- MODULE FanoutProofs ----------------------------
(***************************************************************************)
(* Proofs about Fanout for any set of projects, any order of the list, any *)
(* tripped breakers and any bound on the fan-out.                          *)
(***************************************************************************)
EXTENDS Fanout, FiniteSetTheorems, TLAPS

(***************************************************************************)
(* The inductive invariant.                                                *)
(***************************************************************************)
\* Nothing is known before the probes have been sent.
Untouched ==
  phase = "start" =>
    /\ running = {} /\ fallback = None /\ ~lastErr /\ result = None
    /\ reply = [p \in Projects |-> None]
    /\ reported = [p \in Projects |-> "nothing"]

\* Every probe of a lookup under way is running or has been consumed, and
\* none of those consumed was acceptable.
Awaited ==
  phase = "collecting" =>
    /\ running = {p \in Probed : reply[p] = None}
    /\ result = None
    /\ Replied({"match"}) = {}

\* Only projects that were asked reply.
OnlyProbed == \A p \in Projects : reply[p] # None => p \in Probed

\* What the loop has noted agrees with the replies it has consumed.
Noted ==
  /\ fallback # None => fallback \in Projects /\ reply[fallback] = "mismatch"
  /\ fallback = None => Replied({"mismatch"}) = {}
  /\ lastErr <=> Replied(Errors) # {}

\* No error overtakes a reply: one is only returned once every project that
\* was asked has replied, none of them with a 200; and it is `not found`, which
\* the caller caches, only if every reply was a status.
ErrorsAreUnanimous ==
  phase = "returned" /\ ~CachesPositive =>
    /\ Replied(Replies) = Probed
    /\ Replied(Found) = {}
    /\ CachesNegative => Replied(Errors) = {}

\* A lookup that awaits replies has asked some project.
Asking == phase = "collecting" => Probed # {}

IndInv ==
  /\ TypeOK /\ Untouched /\ Awaited /\ OnlyProbed /\ Noted
  /\ FoundIsReturned /\ ErrorsAreUnanimous

-----------------------------------------------------------------------------
\* The discovered list holds projects only.
LEMMA ConsideredAreProjects ==
  ASSUME discovered \in Lists
  PROVE  Considered \subseteq Projects
<1>1. PICK S \in SUBSET Projects : discovered \in SetToSeqs(S)
  BY DEF Lists
<1>2. Cardinality(S) \in Nat
  BY <1>1, FiniteAssumption, FS_Subset, FS_CardinalityType
<1>3. discovered \in [1 .. Cardinality(S) -> S]
  BY <1>1 DEF SetToSeqs
<1>4. Len(discovered) = Cardinality(S)
  BY <1>2, <1>3
<1>5. \A i \in 1 .. Len(discovered) : discovered[i] \in Projects
  BY <1>1, <1>3, <1>4
<1>6. MaxFanout \in Nat
  BY FanoutAssumption
<1> QED BY <1>2, <1>4, <1>5, <1>6 DEF Considered

LEMMA EmptyListAsksNobody == discovered = <<>> => Probed = {}
<1> SUFFICES ASSUME discovered = <<>> PROVE Probed = {}
  OBVIOUS
<1>1. Len(discovered) = 0
  OBVIOUS
<1>2. ASSUME NEW i \in 1 .. (IF Len(discovered) > MaxFanout THEN MaxFanout ELSE Len(discovered))
      PROVE  FALSE
  BY <1>1, <1>2, FanoutAssumption
<1>3. Considered = {}
  BY <1>2 DEF Considered
<1> QED BY <1>3 DEF Probed

\* Outcomes are told apart by the kind of the record and by the error.
LEMMA OutcomesDiffer ==
  /\ \A a, b : a # b => [error |-> a] # [error |-> b]
  /\ \A a, b : [found |-> a] # [error |-> b]
<1>1. ASSUME NEW a, NEW b, a # b PROVE [error |-> a] # [error |-> b]
  <2>1. [error |-> a].error = a /\ [error |-> b].error = b
    OBVIOUS
  <2> QED BY <1>1, <2>1
<1>2. ASSUME NEW a, NEW b PROVE [found |-> a] # [error |-> b]
  <2>1. DOMAIN [found |-> a] = {"found"} /\ DOMAIN [error |-> b] = {"error"}
    OBVIOUS
  <2> QED BY <2>1
<1> QED BY <1>1, <1>2

Results == {None} \cup [found : Projects]
        \cup [error : {"none discovered", "all circuits open", "all failed", "not found"}]

LEMMA ResultTypes ==
  /\ None \in Results
  /\ \A p \in Projects : [found |-> p] \in Results
  /\ \A e \in {"none discovered", "all circuits open", "all failed", "not found"} :
       [error |-> e] \in Results
BY DEF Results

LEMMA InitInv == Init => IndInv
<1> SUFFICES ASSUME Init PROVE IndInv
  OBVIOUS
<1> USE NoneAssumption DEF Init
<1>1. TypeOK
  BY DEF TypeOK
<1>2. Untouched /\ Awaited /\ OnlyProbed
  BY DEF Untouched, Awaited, OnlyProbed
<1>3. Noted
  BY DEF Noted, Replied, Replies, Errors, Found
<1>4. FoundIsReturned /\ ErrorsAreUnanimous
  BY DEF FoundIsReturned, ErrorsAreUnanimous
<1> QED BY <1>1, <1>2, <1>3, <1>4 DEF IndInv

LEMMA StartKeeps ==
  ASSUME IndInv, Start
  PROVE  IndInv'
<1> USE NoneAssumption
<1>1. Probed \subseteq Projects
  BY ConsideredAreProjects DEF IndInv, TypeOK, Probed
<1>2. Probed' = Probed
  BY DEF Start, Probed, Considered
<1>3. \A p \in Projects : reply'[p] = None /\ reported'[p] = "nothing"
  BY DEF IndInv, Untouched, Start
<1>4. phase' \in {"collecting", "returned"}
  BY DEF Start, Return
<1>5. \/ phase' = "collecting" /\ result' = None
      \/ phase' = "returned" /\ result' = [error |-> "none discovered"]
      \/ phase' = "returned" /\ result' = [error |-> "all circuits open"]
  <2>1. phase = "start" /\ result = None
    BY DEF IndInv, Untouched, Start
  <2> QED BY <2>1 DEF Start, Return
<1>6. TypeOK'
  <2>1. result' \in Results
    BY <1>5, ResultTypes
  <2>2. running' \subseteq Projects
    BY <1>1 DEF Start
  <2> QED BY <1>4, <2>1, <2>2 DEF IndInv, TypeOK, Start, Results
<1>7. Untouched' /\ OnlyProbed'
  BY <1>3, <1>4 DEF Untouched, OnlyProbed
<1>8. Awaited'
  <2>1. running' = Probed'
    BY <1>2 DEF Start
  <2>2. running' = {p \in Probed' : reply'[p] = None}
    BY <1>1, <1>2, <1>3, <2>1
  <2>3. Replied({"match"})' = {}
    BY <1>3 DEF Replied, Replies, Found
  <2>4. phase' = "collecting" => result' = None
    BY <1>5
  <2> QED BY <2>2, <2>3, <2>4 DEF Awaited
<1>9. Noted'
  BY <1>3 DEF IndInv, Untouched, Noted, Replied, Replies, Errors, Start
<1>10. FoundIsReturned'
  BY <1>3 DEF FoundIsReturned, Replied, Replies
<1>11. ErrorsAreUnanimous'
  <2>1. CASE phase' = "collecting"
    BY <2>1 DEF ErrorsAreUnanimous
  <2>2. CASE phase' = "returned"
    <3>1. discovered = <<>> \/ Probed = {}
      BY <2>2 DEF Start, Return
    <3>2. discovered = <<>> => Probed = {}
      BY EmptyListAsksNobody
    <3>3. \A K \in SUBSET Replies : Replied(K)' = {}
      BY <1>3 DEF Replied
    <3>4. Replies \in SUBSET Replies /\ Found \in SUBSET Replies /\ Errors \in SUBSET Replies
      BY DEF Replies
    <3> QED BY <1>2, <3>1, <3>2, <3>3, <3>4 DEF ErrorsAreUnanimous
  <2> QED BY <1>4, <2>1, <2>2
<1> QED BY <1>6, <1>7, <1>8, <1>9, <1>10, <1>11 DEF IndInv

LEMMA ArriveKeeps ==
  ASSUME IndInv, NEW p \in Projects, NEW k \in Replies, Arrive(p, k)
  PROVE  IndInv'
<1> USE NoneAssumption
<1>1. Probed' = Probed
  BY DEF Arrive, Probed, Considered
<1>2. p \in Probed /\ reply[p] = None /\ Replied({"match"}) = {}
  BY DEF IndInv, Awaited, Arrive
<1>3. \A q \in Projects : reply'[q] = IF q = p THEN k ELSE reply[q]
  BY DEF IndInv, TypeOK, Arrive
<1>4. k # None
  OBVIOUS
<1>5. TypeOK'
  <2>1. reply' \in [Projects -> Replies \cup {None}]
    BY DEF IndInv, TypeOK, Arrive
  <2>2. reported' \in [Projects -> {"success", "failure", "nothing"}]
    BY DEF IndInv, TypeOK, Arrive, Verdict
  <2>3. running' \subseteq Projects /\ fallback' \in Projects \cup {None} /\ lastErr' \in BOOLEAN
    BY DEF IndInv, TypeOK, Arrive
  <2>4. \/ phase' = "returned" /\ result' = [found |-> p]
        \/ phase' = phase /\ result' = result
    BY DEF Arrive, Return
  <2>5. discovered' = discovered /\ tripped' = tripped
    BY DEF Arrive
  <2>6. result' \in Results /\ phase' \in {"collecting", "returned"}
    BY <2>4, ResultTypes DEF IndInv, TypeOK, Results, Arrive
  <2> QED BY <2>1, <2>2, <2>3, <2>5, <2>6 DEF IndInv, TypeOK, Results
<1>6. Untouched' /\ OnlyProbed'
  BY <1>1, <1>2, <1>3 DEF IndInv, Untouched, OnlyProbed, Arrive, Return
<1>7. Awaited'
  <2> SUFFICES ASSUME phase' = "collecting" PROVE Awaited'
    BY DEF Awaited
  <2>1. k # "match" /\ result' = result /\ running' = running \ {p}
    BY DEF Arrive, Return
  <2>2. running' = {q \in Probed' : reply'[q] = None}
    BY <1>1, <1>3, <1>4, <2>1 DEF IndInv, Awaited, TypeOK, Arrive
  <2>3. Replied({"match"})' = {}
    BY <1>2, <1>3, <2>1 DEF Replied
  <2> QED BY <2>1, <2>2, <2>3 DEF IndInv, Awaited, Arrive
<1>8. Noted'
  <2>1. \A K : Replied(K)' = IF k \in K THEN Replied(K) \cup {p} ELSE Replied(K) \ {p}
    BY <1>3 DEF Replied
  <2>2. \A K \in SUBSET Replies : Replied(K) \ {p} = Replied(K)
    BY <1>2 DEF Replied
  <2>3. {"mismatch"} \in SUBSET Replies /\ Errors \in SUBSET Replies
    BY DEF Replies, Found
  <2>4. lastErr' <=> Replied(Errors)' # {}
    BY <2>1, <2>2, <2>3 DEF IndInv, Noted, Arrive
  <2>5. fallback' = IF k = "mismatch" /\ fallback = None THEN p ELSE fallback
    BY DEF Arrive
  <2>6. fallback' # None => fallback' \in Projects /\ reply'[fallback'] = "mismatch"
    BY <1>2, <1>3, <2>5 DEF IndInv, Noted, Replies, Found
  <2>7. fallback' = None => Replied({"mismatch"})' = {}
    BY <2>1, <2>2, <2>3, <2>5 DEF IndInv, Noted
  <2> QED BY <2>4, <2>6, <2>7 DEF Noted
<1>9. FoundIsReturned'
  <2> SUFFICES ASSUME phase' = "returned" PROVE FoundIsReturned'
    BY DEF FoundIsReturned
  <2>1. k = "match" /\ result' = [found |-> p]
    BY DEF Arrive, Return
  <2>2. p \in Replied({"match"})' /\ p \in Replied(Found)'
    BY <1>3, <2>1 DEF Replied, Found
  <2> QED BY <2>1, <2>2 DEF FoundIsReturned, CachesPositive
<1>10. ErrorsAreUnanimous'
  <2> SUFFICES ASSUME phase' = "returned" PROVE ErrorsAreUnanimous'
    BY DEF ErrorsAreUnanimous
  <2>1. result' = [found |-> p]
    BY DEF Arrive, Return
  <2>2. CachesPositive'
    BY <2>1 DEF CachesPositive
  <2> QED BY <2>2 DEF ErrorsAreUnanimous
<1> QED BY <1>5, <1>6, <1>7, <1>8, <1>9, <1>10 DEF IndInv

\* The end of the stream, and the end of the grace period: either way a
\* lookup without a fallback has consumed every reply.
LEMMA ConcludeKeeps ==
  ASSUME IndInv, phase = "collecting", running = {} \/ fallback # None, Conclude
  PROVE  IndInv'
<1> USE NoneAssumption
<1>1. phase' = "returned" /\ Probed' = Probed
  BY DEF Conclude, Return, Probed, Considered
<1>2. \/ fallback # None /\ result' = [found |-> fallback]
      \/ fallback = None /\ lastErr /\ result' = [error |-> "all failed"]
      \/ fallback = None /\ ~lastErr /\ result' = [error |-> "not found"]
  BY DEF Conclude, Return
<1>3. TypeOK'
  <2>1. result' \in Results
    BY <1>2, ResultTypes DEF IndInv, Noted
  <2>2. running' = {}
    BY DEF Conclude
  <2>3. UNCHANGED <<discovered, tripped, reply, fallback, lastErr, reported>>
    BY DEF Conclude
  <2> QED BY <1>1, <2>1, <2>2, <2>3 DEF IndInv, TypeOK, Results
<1>4. Untouched' /\ Awaited' /\ OnlyProbed' /\ Noted'
  BY <1>1 DEF IndInv, Untouched, Awaited, OnlyProbed, Noted, Replied, Conclude
<1>5. FoundIsReturned'
  <2>1. Replied({"match"})' = {}
    BY DEF IndInv, Awaited, Replied, Conclude
  <2>2. CASE fallback # None
    <3>1. result' = [found |-> fallback]
      BY <1>2, <2>2
    <3>2. CachesPositive' /\ result'.found = fallback
      BY <1>1, <3>1 DEF CachesPositive
    <3>3. fallback \in Replied(Found)'
      BY <2>2 DEF IndInv, Noted, Conclude, Replied, Found
    <3> QED BY <2>1, <3>2, <3>3 DEF FoundIsReturned
  <2>3. CASE fallback = None
    <3>1. Replied({"mismatch"})' = {}
      BY <2>3 DEF IndInv, Noted, Replied, Conclude
    <3>2. Replied(Found)' = {}
      BY <2>1, <3>1 DEF Replied, Found
    <3> QED BY <3>2 DEF FoundIsReturned
  <2> QED BY <2>2, <2>3
<1>6. ErrorsAreUnanimous'
  <2>1. CASE fallback # None
    <3>1. result' = [found |-> fallback]
      BY <1>2, <2>1
    <3>2. CachesPositive'
      BY <1>1, <3>1 DEF CachesPositive
    <3> QED BY <3>2 DEF ErrorsAreUnanimous
  <2>2. CASE fallback = None
    <3>1. Probed \subseteq Projects
      BY ConsideredAreProjects DEF IndInv, TypeOK, Probed
    <3>2. \A p \in Probed : reply[p] # None
      BY <2>2 DEF IndInv, Awaited
    <3>3. \A p \in Projects : reply[p] \notin Found
      BY <2>2 DEF IndInv, Noted, Awaited, Replied, Found
    <3>4. \A p \in Projects : reply[p] \in Replies <=> p \in Probed
      BY <3>1, <3>2 DEF IndInv, TypeOK, OnlyProbed
    <3>5. reply' = reply
      BY DEF Conclude
    <3>6. Replied(Replies)' = Probed'
      BY <1>1, <3>1, <3>4, <3>5 DEF Replied
    <3>7. Replied(Found)' = {}
      BY <3>3, <3>5 DEF Replied
    <3>8. CachesNegative' => Replied(Errors)' = {}
      <4> SUFFICES ASSUME CachesNegative' PROVE Replied(Errors)' = {}
        OBVIOUS
      <4>1. ~lastErr
        BY <1>2, <2>2, OutcomesDiffer DEF CachesNegative
      <4> QED BY <4>1, <3>5 DEF IndInv, Noted, Replied
    <3> QED BY <3>6, <3>7, <3>8 DEF ErrorsAreUnanimous
  <2> QED BY <2>1, <2>2
<1> QED BY <1>3, <1>4, <1>5, <1>6 DEF IndInv

LEMMA DropKeeps ==
  ASSUME IndInv, Drop
  PROVE  IndInv'
<1>1. phase' = "dropped" /\ Probed' = Probed
  BY DEF Drop, Probed, Considered
<1>2. TypeOK'
  BY DEF IndInv, TypeOK, Drop
<1>3. Untouched' /\ Awaited' /\ OnlyProbed' /\ Noted'
  BY <1>1 DEF IndInv, Untouched, Awaited, OnlyProbed, Noted, Replied, Drop
<1>4. FoundIsReturned' /\ ErrorsAreUnanimous'
  BY <1>1 DEF IndInv, FoundIsReturned, ErrorsAreUnanimous, CachesNegative, Drop
<1> QED BY <1>2, <1>3, <1>4 DEF IndInv

LEMMA StutterKeeps ==
  ASSUME IndInv, UNCHANGED vars
  PROVE  IndInv'
<1>1. TypeOK' /\ Untouched' /\ Noted'
  BY DEF IndInv, vars, TypeOK, Untouched, Noted, Replied
<1>2. Awaited' /\ OnlyProbed'
  BY DEF IndInv, vars, Awaited, OnlyProbed, Probed, Considered, Replied
<1>3. FoundIsReturned'
  BY DEF IndInv, vars, FoundIsReturned, CachesPositive, Replied
<1>4. ErrorsAreUnanimous'
  <2>1. phase' = phase /\ \A K : Replied(K)' = Replied(K)
    BY DEF vars, Replied
  <2>2. Probed' = Probed
    BY DEF vars, Probed, Considered
  <2>3. (CachesPositive' <=> CachesPositive) /\ (CachesNegative' <=> CachesNegative)
    BY DEF vars, CachesPositive, CachesNegative
  <2> QED BY <2>1, <2>2, <2>3 DEF IndInv, ErrorsAreUnanimous
<1> QED BY <1>1, <1>2, <1>3, <1>4 DEF IndInv

LEMMA AskingKeeps ==
  ASSUME Asking, [Next]_vars
  PROVE  Asking'
<1>1. Probed' = Probed
  BY DEF Next, vars, Start, Arrive, Exhausted, GraceOver, Conclude, Drop, Probed, Considered
<1>2. phase' = "collecting" => phase = "collecting" \/ Probed # {}
  BY DEF Next, vars, Start, Arrive, Exhausted, GraceOver, Conclude, Drop, Return
<1> QED BY <1>1, <1>2 DEF Asking

-----------------------------------------------------------------------------
(***************************************************************************)
(* Fanout implements Lookup.                                               *)
(***************************************************************************)
LEMMA FoundOutcome ==
  ASSUME NEW p, phase' = "returned", result' = [found |-> p]
  PROVE  outcome' = [project |-> p]
BY DEF outcome, CachesPositive

LEMMA ErrorOutcome ==
  ASSUME NEW e, phase' = "returned", result' = [error |-> e]
  PROVE  outcome' = IF e = "not found" THEN Abstract!NotFound ELSE Abstract!Failed
<1>1. ~CachesPositive'
  BY DEF CachesPositive
<1>2. CachesNegative' <=> e = "not found"
  BY OutcomesDiffer DEF CachesNegative
<1> QED BY <1>1, <1>2 DEF outcome, Abstract!NotFound, Abstract!Failed

LEMMA InitRefines == Init => Abstract!Init
<1> SUFFICES ASSUME Init PROVE Abstract!Init
  OBVIOUS
<1>1. Considered \subseteq Projects
  BY ConsideredAreProjects DEF Init
<1>2. left = Probed
  BY <1>1 DEF Init, left, Probed
<1> QED BY <1>1, <1>2 DEF Init, Abstract!Init, outcome, Probed

LEMMA StartRefines ==
  ASSUME IndInv, Start
  PROVE  [Abstract!Next]_Abstract!absvars
<1>1. Probed' = Probed /\ Probed \subseteq Projects
  BY ConsideredAreProjects DEF IndInv, TypeOK, Start, Probed, Considered
<1>2. phase = "start" /\ ~lastErr /\ ~lastErr' /\ \A p \in Projects : reply[p] = None
  BY DEF IndInv, Untouched, Start
<1>3. UNCHANGED <<lastErr, reply>>
  BY DEF Start
<1>4. left = Probed /\ outcome = None
  BY <1>1, <1>2 DEF left, outcome
<1>5. CASE phase' = "collecting"
  <2>1. left' = left /\ outcome' = outcome
    BY <1>1, <1>3, <1>4, <1>5, <1>2 DEF left, outcome
  <2> QED BY <1>1, <1>3, <2>1 DEF Abstract!absvars
<1>6. CASE phase' # "collecting"
  <2>1. PICK e \in {"none discovered", "all circuits open"} :
          phase' = "returned" /\ result' = [error |-> e]
    BY <1>6 DEF Start, Return
  <2>2. Probed = {}
    <3>1. discovered = <<>> \/ Probed = {}
      BY <1>6 DEF Start
    <3>2. discovered = <<>> => Probed = {}
      BY EmptyListAsksNobody
    <3> QED BY <3>1, <3>2
  <2>3. outcome' = Abstract!Failed
    BY <2>1, ErrorOutcome
  <2>4. outcome' \in Abstract!Endings
    BY <1>4, <2>2, <2>3 DEF Abstract!Endings
  <2>5. left' = {}
    BY <2>1 DEF left
  <2>6. Abstract!End
    BY <1>1, <1>3, <1>4, <2>4, <2>5 DEF Abstract!End
  <2> QED BY <2>6 DEF Abstract!Next
<1> QED BY <1>5, <1>6

LEMMA ArriveRefines ==
  ASSUME IndInv, NEW p \in Projects, NEW k \in Replies, Arrive(p, k)
  PROVE  [Abstract!Next]_Abstract!absvars
<1> USE NoneAssumption
<1>1. Probed' = Probed /\ phase = "collecting" /\ p \in Probed /\ reply[p] = None
  BY DEF IndInv, Awaited, Arrive, Probed, Considered
<1>2. \A q \in Projects : reply'[q] = IF q = p THEN k ELSE reply[q]
  BY DEF IndInv, TypeOK, Arrive
<1>3. Probed \subseteq Projects
  BY ConsideredAreProjects DEF IndInv, TypeOK, Probed
<1>4. p \in left /\ outcome = None
  BY <1>1 DEF left, outcome
<1>5. lastErr \in BOOLEAN /\ lastErr' = (lastErr \/ k \in Errors)
  BY DEF IndInv, TypeOK, Arrive
<1>6. CASE k = "match"
  <2>1. phase' = "returned" /\ result' = [found |-> p]
    BY <1>6 DEF Arrive, Return
  <2>2. outcome' \in Abstract!Endings
    BY <1>4, <2>1, FoundOutcome DEF Abstract!Endings
  <2>3. left' = {}
    BY <2>1 DEF left
  <2>4. lastErr' = lastErr
    BY <1>5, <1>6 DEF Errors
  <2>5. Abstract!End
    BY <1>1, <1>4, <2>2, <2>3, <2>4 DEF Abstract!End
  <2> QED BY <2>5 DEF Abstract!Next
<1>7. CASE k # "match"
  <2>1. phase' = "collecting" /\ outcome' = outcome
    BY <1>1, <1>4, <1>7 DEF Arrive, outcome
  <2>2. left' = {q \in Probed : reply'[q] \in {None, "mismatch"}}
    BY <1>1, <2>1 DEF left
  <2>3. left = {q \in Probed : reply[q] \in {None, "mismatch"}}
    BY <1>1 DEF left
  <2>4. CASE k = "mismatch"
    <3>1. left' = left
      BY <1>1, <1>2, <1>3, <2>2, <2>3, <2>4
    <3>2. lastErr' = lastErr
      BY <1>5, <2>4 DEF Errors
    <3> QED BY <1>1, <2>1, <3>1, <3>2 DEF Abstract!absvars
  <2>5. CASE k # "mismatch"
    <3>1. k \notin {None, "mismatch"}
      BY <2>5
    <3>2. left' = left \ {p}
      BY <1>2, <1>3, <2>2, <2>3, <3>1
    <3>3. lastErr' \in {lastErr, TRUE}
      BY <1>5
    <3>4. Abstract!CrossOff(p)
      BY <1>1, <1>4, <2>1, <3>2, <3>3 DEF Abstract!CrossOff
    <3> QED BY <3>4 DEF Abstract!Next
  <2> QED BY <2>4, <2>5
<1> QED BY <1>6, <1>7

LEMMA ConcludeRefines ==
  ASSUME IndInv, Asking, phase = "collecting", running = {} \/ fallback # None, Conclude
  PROVE  [Abstract!Next]_Abstract!absvars
<1> USE NoneAssumption
<1>1. phase' = "returned" /\ Probed' = Probed /\ lastErr' = lastErr /\ Probed # {}
  BY DEF Asking, Conclude, Return, Probed, Considered
<1>2. left = {p \in Probed : reply[p] \in {None, "mismatch"}} /\ outcome = None
  BY DEF left, outcome
<1>3. outcome' \in Abstract!Endings
  <2>1. CASE fallback # None
    <3>1. result' = [found |-> fallback]
      BY <2>1 DEF Conclude, Return
    <3>2. fallback \in Projects /\ reply[fallback] = "mismatch"
      BY <2>1 DEF IndInv, Noted
    <3>3. reply[fallback] # None
      BY <3>2 DEF Replies, Found
    <3>4. fallback \in left
      BY <1>2, <3>2, <3>3 DEF IndInv, OnlyProbed
    <3> QED BY <1>1, <3>1, <3>4, FoundOutcome DEF Abstract!Endings
  <2>2. CASE fallback = None
    <3>1. PICK e \in {"all failed", "not found"} :
            result' = [error |-> e] /\ (e = "not found" <=> ~lastErr)
      BY <2>2 DEF Conclude, Return
    <3>2. left = {}
      <4>1. \A p \in Probed : reply[p] # None
        BY <2>2 DEF IndInv, Awaited
      <4>2. \A p \in Projects : reply[p] # "mismatch"
        BY <2>2 DEF IndInv, Noted, Replied
      <4>3. Probed \subseteq Projects
        BY ConsideredAreProjects DEF IndInv, TypeOK, Probed
      <4> QED BY <1>2, <4>1, <4>2, <4>3
    <3>3. outcome' = IF lastErr THEN Abstract!Failed ELSE Abstract!NotFound
      BY <1>1, <3>1, ErrorOutcome
    <3> QED BY <1>1, <3>2, <3>3 DEF Abstract!Endings
  <2> QED BY <2>1, <2>2
<1>4. left' = {}
  BY <1>1 DEF left
<1>5. Abstract!End
  BY <1>1, <1>2, <1>3, <1>4 DEF Abstract!End
<1> QED BY <1>5 DEF Abstract!Next

LEMMA SilentStutters ==
  ASSUME Drop \/ UNCHANGED vars
  PROVE  UNCHANGED Abstract!absvars
<1>1. UNCHANGED <<Probed, lastErr>>
  BY DEF Drop, vars, Probed, Considered
<1>2. UNCHANGED left
  BY DEF Drop, vars, left, Probed, Considered
<1>3. UNCHANGED outcome
  BY DEF Drop, vars, outcome, CachesPositive, CachesNegative
<1> QED BY <1>1, <1>2, <1>3 DEF Abstract!absvars

LEMMA StepRefines ==
  ASSUME IndInv, Asking, [Next]_vars
  PROVE  [Abstract!Next]_Abstract!absvars
<1>1. CASE Start
  BY <1>1, StartRefines
<1>2. ASSUME NEW p \in Projects, NEW k \in Replies, Arrive(p, k)
      PROVE  [Abstract!Next]_Abstract!absvars
  BY <1>2, ArriveRefines
<1>3. CASE Exhausted
  BY <1>3, ConcludeRefines DEF Exhausted
<1>4. CASE GraceOver
  BY <1>4, ConcludeRefines DEF GraceOver
<1>5. CASE Drop \/ UNCHANGED vars
  BY <1>5, SilentStutters
<1> QED BY <1>1, <1>2, <1>3, <1>4, <1>5 DEF Next

-----------------------------------------------------------------------------
(***************************************************************************)
(* The theorems.                                                           *)
(***************************************************************************)
\* The strengthening holds throughout: what the collecting loop has noted
\* agrees with the replies it has consumed.
THEOREM Inductive == Spec => []IndInv
<1>1. ASSUME IndInv, [Next]_vars PROVE IndInv'
  <2>1. CASE Start
    BY <1>1, <2>1, StartKeeps
  <2>2. ASSUME NEW p \in Projects, NEW k \in Replies, Arrive(p, k) PROVE IndInv'
    BY <1>1, <2>2, ArriveKeeps
  <2>3. CASE Exhausted
    BY <1>1, <2>3, ConcludeKeeps DEF Exhausted
  <2>4. CASE GraceOver
    BY <1>1, <2>4, ConcludeKeeps DEF GraceOver
  <2>5. CASE Drop
    BY <1>1, <2>5, DropKeeps
  <2>6. CASE UNCHANGED vars
    BY <1>1, <2>6, StutterKeeps
  <2> QED BY <1>1, <2>1, <2>2, <2>3, <2>4, <2>5, <2>6 DEF Next
<1> QED BY InitInv, <1>1, PTL DEF Spec

\* The variables of the collecting loop keep their types.
THEOREM TypeCorrect == Spec => []TypeOK
<1>1. IndInv => TypeOK
  BY DEF IndInv
<1> QED BY <1>1, Inductive, PTL

\* However many projects answer, in any order and with the grace period
\* ending anywhere, a 200 that was seen is returned.
THEOREM FoundWins == Spec => []FoundIsReturned
<1>1. IndInv => FoundIsReturned
  BY DEF IndInv
<1> QED BY <1>1, Inductive, PTL

\* No error overtakes a reply, and the one that resolve_manifest caches is
\* unanimous among the projects that were asked.
THEOREM AbsenceIsUnanimous == Spec => []ErrorsAreUnanimous
<1>1. IndInv => ErrorsAreUnanimous
  BY DEF IndInv
<1> QED BY <1>1, Inductive, PTL

\* A lookup is what resolve_manifest takes it for: whatever the order of the
\* replies and the breakers, each of its steps is a step of Lookup or none.
THEOREM Refines == Spec => ImplementsLookup
<1>1. Init => Asking
  BY DEF Init, Asking
<1>2. Asking /\ [Next]_vars => Asking'
  BY AskingKeeps
<1>3. Spec => []Asking
  BY <1>1, <1>2, PTL DEF Spec
<1>4. IndInv /\ Asking /\ [Next]_vars => [Abstract!Next]_Abstract!absvars
  BY StepRefines
<1> QED BY InitRefines, <1>3, <1>4, Inductive, PTL DEF Spec, ImplementsLookup, Abstract!Spec

=============================================================================
