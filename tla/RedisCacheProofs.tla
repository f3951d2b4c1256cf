-------------------------- MODULE RedisCacheProofs --------------------------
(***************************************************************************)
(* What RedisCache guarantees for any pods, keys, values and tasks, and    *)
(* any number of outages, errors and dropped requests.  The invariants     *)
(* follow a write from the moment Redis applies it to the moment the local *)
(* copy takes it.                                                          *)
(***************************************************************************)
EXTENDS RedisCache, TLAPS

USE TasksAssumption, ValuesAssumption, BoundAssumption

\* TypeOK, with what later steps need of a task under way: its operation is
\* one of its commands.
Working == \A t \in Tasks : stage[t] # "idle" => call[t] \in Operations

-----------------------------------------------------------------------------
(***************************************************************************)
(* Types.                                                                  *)
(***************************************************************************)
LEMMA OperationParts ==
  \A c \in Operations : c.key \in Keys /\ c.value \in Entries /\ c.op \in {"get", "set", "delete"}
BY DEF Operations, Get, Set, Delete, Entries

LEMMA InitTyped == Init => TypeOK /\ Working
BY DEF Init, TypeOK, Working, Entries, NoCall

LEMMA LingerTyped ==
  ASSUME TypeOK, Working, NEW t \in Tasks, Linger(t)
  PROVE  lingering' \in [Operations -> Nat]
<1>1. lingering \in [Operations -> Nat]
  BY DEF TypeOK
<1>2. CASE stage[t] = "sent" /\ lingering' = [lingering EXCEPT ![call[t]] = @ + 1]
  <2>1. call[t] \in Operations
    BY <1>2 DEF Working
  <2>2. lingering[call[t]] + 1 \in Nat
    BY <1>1, <2>1
  <2> QED
    BY <1>1, <1>2, <2>1, <2>2
<1> QED
  BY <1>1, <1>2 DEF Linger

LEMMA MishapTyped == TypeOK /\ Mishap => mishaps' \in 0 .. MaxMishaps
BY DEF TypeOK, Mishap

LEMMA StepTyped == TypeOK /\ Working /\ [Next]_vars => TypeOK' /\ Working'
<1> SUFFICES ASSUME TypeOK, Working, [Next]_vars PROVE TypeOK' /\ Working'
  OBVIOUS
<1> USE OperationParts
<1>1. ASSUME NEW t \in Tasks, Begin(t) PROVE TypeOK' /\ Working'
  BY <1>1 DEF Begin, Move, TypeOK, Working, faults, server, pod, history
<1>2. ASSUME NEW t \in Tasks, Apply(t) PROVE TypeOK' /\ Working'
  <2>1. Move(t, "sent", "applied") /\ UNCHANGED <<faults, reachable, outages, pod, fallback, call, handle>>
    BY <1>2 DEF Apply
  <2>2. call[t].key \in Keys /\ call[t].value \in Entries
    BY <2>1 DEF Move, TypeOK, Working
  <2>3. /\ redis' \in [Keys -> Entries]
        /\ clean' \in [Tasks -> BOOLEAN]
        /\ settled' \in [Pods -> [Keys -> Entries \cup {None}]]
    <3>1. CASE Writes(t)
      <4>1. redis' \in [Keys -> Entries]
        BY <1>2, <2>2, <3>1 DEF Apply, TypeOK
      <4>2. clean' \in [Tasks -> BOOLEAN]
        <5>1. \E k : clean' = [u \in Tasks |-> u = t \/ (clean[u] /\ call[u].key # k)]
          BY <1>2, <3>1 DEF Apply
        <5> QED BY <5>1
      <4>3. settled' \in [Pods -> [Keys -> Entries \cup {None}]]
        <5>1. settled' = [p \in Pods |-> [settled[p] EXCEPT ![call[t].key] = None]]
          BY <1>2, <3>1 DEF Apply
        <5>2. ASSUME NEW p \in Pods
              PROVE  [settled[p] EXCEPT ![call[t].key] = None] \in [Keys -> Entries \cup {None}]
          <6>1. settled[p] \in [Keys -> Entries \cup {None}]
            BY DEF TypeOK
          <6> QED BY <6>1
        <5> QED BY <5>1, <5>2
      <4> QED
        BY <4>1, <4>2, <4>3 DEF TypeOK
    <3>2. CASE ~Writes(t)
      <4>1. UNCHANGED <<redis, history>>
        BY <1>2, <3>2 DEF Apply
      <4> QED
        BY <4>1 DEF TypeOK, history
    <3> QED
      BY <3>1, <3>2
  <2> QED
    BY <2>1, <2>3 DEF Move, TypeOK, Working, faults, pod
<1>3. ASSUME NEW t \in Tasks, Fail(t) PROVE TypeOK' /\ Working'
  <2>1. mishaps' \in 0 .. MaxMishaps /\ lingering' \in [Operations -> Nat]
    <3>1. CASE UNCHANGED faults
      BY <3>1 DEF faults, TypeOK
    <3>2. CASE Mishap /\ Linger(t)
      BY <3>2, LingerTyped, MishapTyped
    <3> QED
      BY <1>3, <3>1, <3>2 DEF Fail
  <2>2. /\ stage[t] # "idle" /\ stage' = [stage EXCEPT ![t] = "failed"]
        /\ clean' = [clean EXCEPT ![t] = FALSE]
        /\ UNCHANGED <<server, pod, fallback, call, handle, settled>>
    BY <1>3 DEF Fail
  <2> QED
    BY <2>1, <2>2 DEF TypeOK, Working, server, pod
<1>4. ASSUME NEW t \in Tasks, TryLock(t) PROVE TypeOK' /\ Working'
  <2>1. sentinel' \in [Pods -> Tasks \cup {None}]
    BY <1>4 DEF TryLock, TypeOK
  <2>2. stage' \in [Tasks -> {"idle", "sent", "applied", "failed", "reconnecting", "local"}]
    BY <1>4 DEF TryLock, TypeOK
  <2>3. stage[t] # "idle" /\ \A u \in Tasks \ {t} : stage'[u] = stage[u]
    BY <1>4 DEF TryLock, TypeOK
  <2>4. UNCHANGED <<faults, server, connection, fallback, call, handle, history>>
    BY <1>4 DEF TryLock
  <2> QED
    BY <2>1, <2>2, <2>3, <2>4 DEF TypeOK, Working, faults, server, history
<1>5. ASSUME NEW t \in Tasks, Reconnect(t) PROVE TypeOK' /\ Working'
  <2>1. mishaps' \in 0 .. MaxMishaps /\ lingering' = lingering
    BY <1>5, MishapTyped DEF Reconnect, faults, TypeOK
  <2>2. connection' \in [Pods -> 0 .. outages]
    BY <1>5 DEF Reconnect, TypeOK
  <2>3. /\ stage[t] # "idle" /\ stage' = [stage EXCEPT ![t] = "local"]
        /\ sentinel' = [sentinel EXCEPT ![Home[t]] = None]
        /\ UNCHANGED <<server, fallback, call, handle, history>>
    BY <1>5 DEF Reconnect, Move
  <2> QED
    BY <2>1, <2>2, <2>3 DEF TypeOK, Working, server, history
<1>6. ASSUME NEW t \in Tasks, FinishGet(t) PROVE TypeOK' /\ Working'
  BY <1>6 DEF FinishGet, Leave, TypeOK, Working, faults, server, pod, history
<1>7. ASSUME NEW t \in Tasks, FinishWrite(t) PROVE TypeOK' /\ Working'
  BY <1>7 DEF FinishWrite, Leave, TypeOK, Working, Entries, faults, server, pod
<1>8. ASSUME NEW t \in Tasks, Drop(t) PROVE TypeOK' /\ Working'
  <2>1. mishaps' \in 0 .. MaxMishaps /\ lingering' \in [Operations -> Nat]
    BY <1>8, LingerTyped, MishapTyped DEF Drop
  <2> QED
    BY <1>8, <2>1 DEF Drop, Leave, TypeOK, Working, server
<1>9. CASE Break \/ Return
  <2>1. outages' \in 0 .. MaxOutages /\ 0 .. outages \subseteq 0 .. outages'
    <3>1. CASE Break
      BY <3>1 DEF Break, TypeOK
    <3>2. CASE Return
      BY <3>2 DEF Return, TypeOK
    <3> QED
      BY <1>9, <3>1, <3>2
  <2>2. reachable' \in BOOLEAN
    BY <1>9, Zenon DEF Break, Return
  <2>3. UNCHANGED <<faults, redis, pod, fallback, task, history>>
    BY <1>9 DEF Break, Return
  <2> QED
    BY <2>1, <2>2, <2>3 DEF TypeOK, Working, faults, pod, task, history
<1>10. ASSUME NEW k \in Keys, Expire(k) PROVE TypeOK' /\ Working'
  BY <1>10 DEF Expire, TypeOK, Working, Entries, faults, pod, task, history
<1>11. ASSUME NEW p \in Pods, NEW k \in Keys, ExpireLocal(p, k) PROVE TypeOK' /\ Working'
  BY <1>11 DEF ExpireLocal, TypeOK, Working, Entries, faults, server, pod, task, history
<1>12. CASE UNCHANGED vars
  BY <1>12 DEF TypeOK, Working, vars, faults, server, pod, task, history
<1>13. ASSUME NEW c \in Operations, ApplyLate(c) PROVE TypeOK' /\ Working'
  <2>1. redis' \in [Keys -> Entries] /\ lingering' \in [Operations -> Nat]
    BY <1>13 DEF ApplyLate, TypeOK
  <2>2. clean' \in [Tasks -> BOOLEAN]
    BY <1>13 DEF ApplyLate
  <2>3. settled' \in [Pods -> [Keys -> Entries \cup {None}]]
    BY <1>13 DEF ApplyLate, TypeOK
  <2>4. UNCHANGED <<mishaps, reachable, outages, pod, fallback, task>>
    BY <1>13 DEF ApplyLate
  <2> QED
    BY <2>1, <2>2, <2>3, <2>4 DEF TypeOK, Working, pod, task
<1> QED
  BY <1>1, <1>2, <1>3, <1>4, <1>5, <1>6, <1>7, <1>8, <1>9, <1>10, <1>11, <1>12, <1>13
     DEF Next, Proceed

\* The variables of the pods and of the tasks keep their types.
THEOREM TypeCorrect == Spec => []TypeOK
BY InitTyped, StepTyped, PTL DEF Spec

-----------------------------------------------------------------------------
(***************************************************************************)
(* CopiesAgree.  A write that is undisturbed so far has left its value in  *)
(* Redis, where it can only have expired: so when the local copy takes it, *)
(* the two agree.                                                          *)
(***************************************************************************)
WritesLast ==
  \A t \in Tasks : clean[t] =>
    /\ stage[t] = "applied"
    /\ Writes(t)
    /\ redis[call[t].key] \in {NoEntry, call[t].value}

CopiesInv == TypeOK /\ Working /\ WritesLast /\ CopiesAgree

LEMMA InitCopies == Init => WritesLast /\ CopiesAgree
BY DEF Init, WritesLast, CopiesAgree

LEMMA ApplyCopies ==
  ASSUME CopiesInv, NEW t \in Tasks, Apply(t)
  PROVE  WritesLast' /\ CopiesAgree'
<1> DEFINE k == call[t].key
<1>0. /\ TypeOK /\ Working /\ WritesLast /\ CopiesAgree
      /\ stage[t] = "sent" /\ stage' = [stage EXCEPT ![t] = "applied"]
      /\ UNCHANGED <<call, fallback>>
      /\ k \in Keys
  BY OperationParts DEF CopiesInv, Apply, Move, Working
<1>1. CASE Writes(t)
  <2>1. /\ redis' = [redis EXCEPT ![k] = call[t].value]
        /\ clean' = [u \in Tasks |-> u = t \/ (clean[u] /\ call[u].key # k)]
        /\ settled' = [p \in Pods |-> [settled[p] EXCEPT ![k] = None]]
    BY <1>1 DEF Apply
  <2> HIDE DEF k
  <2>2. WritesLast'
    <3> SUFFICES ASSUME NEW u \in Tasks, clean'[u]
                 PROVE  /\ stage'[u] = "applied"
                        /\ Writes(u)'
                        /\ redis'[call'[u].key] \in {NoEntry, call'[u].value}
      BY DEF WritesLast
    <3>1. CASE u = t
      BY <1>0, <1>1, <2>1, <3>1 DEF Writes, TypeOK, k
    <3>2. CASE u # t
      <4>1. clean[u] /\ call[u].key # k
        BY <2>1, <3>2
      <4>2. stage[u] = "applied" /\ Writes(u) /\ redis[call[u].key] \in {NoEntry, call[u].value}
        BY <1>0, <4>1 DEF WritesLast
      <4>3. call[u].key \in Keys
        BY <1>0, <4>2, OperationParts DEF Working
      <4> QED
        BY <1>0, <2>1, <3>2, <4>1, <4>2, <4>3 DEF Writes, TypeOK
    <3> QED
      BY <3>1, <3>2
  <2>3. CopiesAgree'
    <3> SUFFICES ASSUME NEW p \in Pods, NEW j \in Keys, settled'[p][j] # None
                 PROVE  /\ redis'[j] \in {NoEntry, settled'[p][j]}
                        /\ fallback'[p][j] \in {NoEntry, settled'[p][j]}
      BY DEF CopiesAgree
    <3>1. j # k /\ settled'[p][j] = settled[p][j]
      BY <1>0, <2>1 DEF TypeOK
    <3> QED
      BY <1>0, <2>1, <3>1 DEF CopiesAgree, TypeOK
  <2> QED
    BY <2>2, <2>3
<1>2. CASE ~Writes(t)
  <2>1. UNCHANGED <<redis, clean, settled>>
    BY <1>2 DEF Apply, history
  <2> QED
    BY <1>0, <2>1 DEF WritesLast, CopiesAgree, Writes, TypeOK
<1> QED
  BY <1>1, <1>2

LEMMA ApplyLateCopies ==
  ASSUME CopiesInv, NEW c \in Operations, ApplyLate(c)
  PROVE  WritesLast' /\ CopiesAgree'
<1>0. /\ TypeOK /\ Working /\ WritesLast /\ CopiesAgree
      /\ redis' = [redis EXCEPT ![c.key] = c.value]
      /\ clean' = [u \in Tasks |-> clean[u] /\ call[u].key # c.key]
      /\ settled' = [p \in Pods |-> [settled[p] EXCEPT ![c.key] = None]]
      /\ UNCHANGED <<stage, call, fallback>>
  BY DEF CopiesInv, ApplyLate, task
<1>1. WritesLast'
  <2> SUFFICES ASSUME NEW u \in Tasks, clean'[u]
               PROVE  /\ stage[u] = "applied" /\ Writes(u)
                      /\ redis'[call[u].key] \in {NoEntry, call[u].value}
    BY <1>0 DEF WritesLast, Writes
  <2>1. clean[u] /\ call[u].key # c.key
    BY <1>0
  <2>2. stage[u] = "applied" /\ Writes(u) /\ redis[call[u].key] \in {NoEntry, call[u].value}
    BY <1>0, <2>1 DEF WritesLast
  <2>3. redis'[call[u].key] = redis[call[u].key]
    BY <1>0, <2>1, <2>2, OperationParts DEF TypeOK, Working
  <2> QED
    BY <2>2, <2>3
<1>2. CopiesAgree'
  <2> SUFFICES ASSUME NEW p \in Pods, NEW j \in Keys, settled'[p][j] # None
               PROVE  /\ redis'[j] \in {NoEntry, settled'[p][j]}
                      /\ fallback'[p][j] \in {NoEntry, settled'[p][j]}
    BY DEF CopiesAgree
  <2>1. j # c.key /\ settled'[p][j] = settled[p][j]
    BY <1>0 DEF TypeOK
  <2> QED
    BY <1>0, <2>1 DEF CopiesAgree, TypeOK
<1> QED
  BY <1>1, <1>2

LEMMA FinishWriteCopies ==
  ASSUME CopiesInv, NEW t \in Tasks, FinishWrite(t)
  PROVE  WritesLast' /\ CopiesAgree'
<1> DEFINE q == Home[t]
           k == call[t].key
<1>0. /\ TypeOK /\ Working /\ WritesLast /\ CopiesAgree
      /\ stage' = [stage EXCEPT ![t] = "idle"]
      /\ call' = [call EXCEPT ![t] = NoCall]
      /\ fallback' = [fallback EXCEPT ![q][k] = call[t].value]
      /\ settled' = [settled EXCEPT ![q][k] = IF clean[t] THEN call[t].value ELSE None]
      /\ clean' = [u \in Tasks |-> clean[u] /\ ~(Home[u] = q /\ call[u].key = k)]
      /\ UNCHANGED redis
      /\ q \in Pods /\ k \in Keys
  BY OperationParts DEF CopiesInv, FinishWrite, Leave, server, Working
<1> HIDE DEF q, k
<1>1. WritesLast'
  <2> SUFFICES ASSUME NEW u \in Tasks, clean'[u]
               PROVE  /\ stage'[u] = "applied"
                      /\ Writes(u)'
                      /\ redis'[call'[u].key] \in {NoEntry, call'[u].value}
    BY DEF WritesLast
  <2>1. clean[u] /\ u # t
    BY <1>0 DEF q, k
  <2> QED
    BY <1>0, <2>1 DEF WritesLast, Writes, TypeOK
<1>2. CopiesAgree'
  <2> SUFFICES ASSUME NEW p \in Pods, NEW j \in Keys, settled'[p][j] # None
               PROVE  /\ redis[j] \in {NoEntry, settled'[p][j]}
                      /\ fallback'[p][j] \in {NoEntry, settled'[p][j]}
    BY <1>0 DEF CopiesAgree
  <2>1. CASE p = q /\ j = k
    <3>1. settled'[p][j] = IF clean[t] THEN call[t].value ELSE None
      BY <1>0, <2>1 DEF TypeOK
    <3>2. clean[t] /\ settled'[p][j] = call[t].value /\ fallback'[p][j] = call[t].value
      BY <1>0, <2>1, <3>1 DEF TypeOK
    <3> QED
      BY <1>0, <2>1, <3>2 DEF WritesLast, k
  <2>2. CASE ~(p = q /\ j = k)
    <3>1. settled'[p][j] = settled[p][j] /\ fallback'[p][j] = fallback[p][j]
      BY <1>0, <2>2 DEF TypeOK
    <3> QED
      BY <1>0, <3>1 DEF CopiesAgree
  <2> QED
    BY <2>1, <2>2
<1> QED
  BY <1>1, <1>2

LEMMA StepCopies == CopiesInv /\ [Next]_vars => WritesLast' /\ CopiesAgree'
<1> SUFFICES ASSUME CopiesInv, [Next]_vars PROVE WritesLast' /\ CopiesAgree'
  OBVIOUS
<1>0. TypeOK /\ Working /\ WritesLast /\ CopiesAgree
  BY DEF CopiesInv
\* A step that leaves Redis, the copies and the history as they are, and at
\* most moves a task that has no undisturbed write.
<1> DEFINE Aside(t) == /\ ~clean[t]
                       /\ \A u \in Tasks \ {t} : stage'[u] = stage[u] /\ call'[u] = call[u]
                       /\ UNCHANGED <<redis, fallback, settled>>
                       /\ \A u \in Tasks : clean'[u] => clean[u]
<1>1. ASSUME NEW t \in Tasks, Aside(t) PROVE WritesLast' /\ CopiesAgree'
  BY <1>0, <1>1 DEF WritesLast, CopiesAgree, Writes
<1>2. ASSUME NEW t \in Tasks, Begin(t) \/ TryLock(t) \/ Reconnect(t) \/ FinishGet(t)
      PROVE  WritesLast' /\ CopiesAgree'
  <2>1. ~clean[t]
    BY <1>0, <1>2 DEF WritesLast, Begin, TryLock, Reconnect, FinishGet, Move
  <2>2. UNCHANGED <<redis, fallback, settled, clean>>
    BY <1>2 DEF Begin, TryLock, Reconnect, FinishGet, server, history
  <2>3. \A u \in Tasks \ {t} : stage'[u] = stage[u] /\ call'[u] = call[u]
    BY <1>0, <1>2 DEF Begin, TryLock, Reconnect, FinishGet, Move, Leave, TypeOK
  <2> QED
    BY <1>1, <2>1, <2>2, <2>3
<1>3. ASSUME NEW t \in Tasks, Fail(t) \/ Drop(t) PROVE WritesLast' /\ CopiesAgree'
  <2>1. /\ UNCHANGED <<redis, fallback, settled>>
        /\ clean' = [clean EXCEPT ![t] = FALSE]
        /\ \A u \in Tasks \ {t} : stage'[u] = stage[u] /\ call'[u] = call[u]
    BY <1>0, <1>3 DEF Fail, Drop, Leave, server, TypeOK
  <2>2. CopiesAgree'
    BY <1>0, <2>1 DEF CopiesAgree
  <2>3. \A u \in Tasks : clean'[u] => u # t /\ clean[u]
    BY <1>0, <2>1 DEF TypeOK
  <2>4. WritesLast'
    BY <1>0, <2>1, <2>3 DEF WritesLast, Writes
  <2> QED
    BY <2>2, <2>4
<1>4. CASE Break \/ Return \/ UNCHANGED vars
  BY <1>0, <1>4 DEF Break, Return, WritesLast, CopiesAgree, Writes, vars, server, task, history
<1>5. ASSUME NEW k \in Keys, Expire(k) PROVE WritesLast' /\ CopiesAgree'
  <2>1. UNCHANGED <<fallback, stage, call, clean, settled>>
    BY <1>5 DEF Expire, task, history
  <2>2. \A j \in Keys : redis'[j] \in {NoEntry, redis[j]}
    BY <1>0, <1>5 DEF Expire, TypeOK
  <2>3. WritesLast'
    BY <1>0, <2>1, <2>2, OperationParts DEF WritesLast, Writes, Working
  <2>4. CopiesAgree'
    BY <1>0, <2>1, <2>2 DEF CopiesAgree
  <2> QED
    BY <2>3, <2>4
<1>6. ASSUME NEW p \in Pods, NEW k \in Keys, ExpireLocal(p, k) PROVE WritesLast' /\ CopiesAgree'
  <2>1. UNCHANGED <<redis, stage, call, clean, settled>>
    BY <1>6 DEF ExpireLocal, server, task, history
  <2>2. \A r \in Pods, j \in Keys : fallback'[r][j] \in {NoEntry, fallback[r][j]}
    BY <1>0, <1>6 DEF ExpireLocal, TypeOK
  <2> QED
    BY <1>0, <2>1, <2>2 DEF WritesLast, CopiesAgree, Writes
<1> QED
  BY <1>2, <1>3, <1>4, <1>5, <1>6, ApplyCopies, ApplyLateCopies, FinishWriteCopies
     DEF Next, Proceed

\* A local copy falls behind Redis only for a cause: a command of the pod that
\* failed, writes of one key that overlap, another pod's write, or a write that
\* was given up and is applied late.
THEOREM CopiesHaveCause == Spec => []CopiesAgree
<1>1. Init => CopiesInv
  BY InitTyped, InitCopies DEF CopiesInv
<1>2. CopiesInv /\ [Next]_vars => CopiesInv'
  BY StepTyped, StepCopies DEF CopiesInv
<1>3. CopiesInv => CopiesAgree
  BY DEF CopiesInv
<1> QED
  BY <1>1, <1>2, <1>3, PTL DEF Spec

=============================================================================
