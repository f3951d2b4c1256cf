--------------------------- MODULE DiscoveryProofs ---------------------------
(***************************************************************************)
(* The list a pod routes by never goes back, and what a refresh installs   *)
(* is as complete as the changes meanwhile allow: for any pods, project    *)
(* names, page size, changes of Harbor's list and mishaps.                 *)
(***************************************************************************)
EXTENDS Discovery, WellFoundedInduction, TLAPS

(***************************************************************************)
(* How old the lists are.  The proof needs nothing of the lists            *)
(* themselves.                                                             *)
(***************************************************************************)
Ages ==
  /\ changes \in Nat
  /\ sharedAge \in 0 .. changes
  /\ age \in [Pods -> 0 .. changes]
  /\ began \in [Pods -> 0 .. changes]
  /\ stage \in [Pods -> {"off", "seed", "read", "persist", "store", "wait", "done"}]
  /\ main \in [Pods -> {"down", "serving", "draining", "stopping"}]

\* A pod is seeded before its first refresh, and never after; what a refresh
\* reads is no older than what the pod routes by.
InOrder ==
  \A p \in Pods :
    /\ main[p] = "down" => stage[p] = "off"
    /\ stage[p] \in {"off", "seed"} => age[p] = 0
    /\ stage[p] \in {"read", "persist", "store"} => age[p] <= began[p]

LEMMA InitAges == Init => Ages /\ InOrder
BY DEF Init, Ages, InOrder

LEMMA StepAges ==
  Ages /\ InOrder /\ [Next]_vars =>
    /\ Ages' /\ InOrder'
    /\ \A p \in Pods : main'[p] # "down" => age'[p] >= age[p]
<1> DEFINE Forward == \A p \in Pods : main'[p] # "down" => age'[p] >= age[p]
<1> SUFFICES ASSUME Ages, InOrder, [Next]_vars PROVE Ages' /\ InOrder' /\ Forward
  OBVIOUS
<1>1. ASSUME NEW p \in Pods, Seed(p) PROVE Ages' /\ InOrder' /\ Forward
  <2>1. /\ stage[p] = "seed" /\ stage' = [stage EXCEPT ![p] = "read"]
        /\ began' = [began EXCEPT ![p] = changes]
        /\ UNCHANGED <<changes, sharedAge, main>>
    BY <1>1 DEF Seed, BeginRefresh, bounds, cache, lifecycle
  <2>2. age' = age \/ age' = [age EXCEPT ![p] = sharedAge]
    BY <1>1 DEF Seed, Seeded
  <2> QED
    BY <2>1, <2>2 DEF Ages, InOrder
<1>2. ASSUME NEW p \in Pods, Tick(p) PROVE Ages' /\ InOrder' /\ Forward
  BY <1>2 DEF Tick, BeginRefresh, Ages, InOrder, bounds, cache, lifecycle
<1>3. ASSUME NEW p \in Pods, ReadPage(p) PROVE Ages' /\ InOrder' /\ Forward
  <2>1. /\ stage[p] = "read" /\ stage' \in {stage, [stage EXCEPT ![p] = "persist"]}
        /\ UNCHANGED <<changes, sharedAge, main, age, began>>
    BY <1>3 DEF ReadPage, bounds, cache, lifecycle
  <2> QED
    BY <2>1 DEF Ages, InOrder
<1>4. ASSUME NEW p \in Pods, ReadFails(p) PROVE Ages' /\ InOrder' /\ Forward
  BY <1>4 DEF ReadFails, Move, Forget, Ages, InOrder, cache, lifecycle
<1>5. ASSUME NEW p \in Pods, Persist(p) PROVE Ages' /\ InOrder' /\ Forward
  <2>1. /\ stage[p] = "persist" /\ stage' = [stage EXCEPT ![p] = "store"]
        /\ sharedAge' \in {sharedAge, began[p]}
        /\ UNCHANGED <<changes, main, age, began>>
    BY <1>5 DEF Persist, Move, bounds, cache, lifecycle, reading
  <2> QED
    BY <2>1 DEF Ages, InOrder
<1>6. ASSUME NEW p \in Pods, Store(p) PROVE Ages' /\ InOrder' /\ Forward
  <2>1. /\ stage[p] = "store" /\ stage' = [stage EXCEPT ![p] = "wait"]
        /\ age' = [age EXCEPT ![p] = began[p]]
        /\ began' = [began EXCEPT ![p] = 0]
        /\ UNCHANGED <<changes, sharedAge, main>>
    BY <1>6 DEF Store, Move, Forget, bounds, cache, lifecycle
  <2> QED
    BY <2>1 DEF Ages, InOrder
<1>7. ASSUME NEW p \in Pods, Stop(p) PROVE Ages' /\ InOrder' /\ Forward
  BY <1>7 DEF Stop, Move, Ages, InOrder, bounds, cache, lifecycle, reading
<1>8. ASSUME NEW p \in Pods, Start(p) PROVE Ages' /\ InOrder' /\ Forward
  BY <1>8 DEF Start, Ages, InOrder, bounds, cache, reading
<1>9. ASSUME NEW p \in Pods, Signal(p) \/ ServersExit(p) PROVE Ages' /\ InOrder' /\ Forward
  <2>1. /\ main[p] # "down" /\ main' \in {[main EXCEPT ![p] = s] : s \in {"draining", "stopping"}}
        /\ UNCHANGED <<changes, sharedAge, stage, age, began>>
    BY <1>9 DEF Signal, ServersExit, bounds, cache, reading
  <2> QED
    BY <2>1 DEF Ages, InOrder
<1>10. ASSUME NEW p \in Pods, Exit(p) \/ Crash(p) PROVE Ages' /\ InOrder' /\ Forward
  <2>1. /\ main' = [main EXCEPT ![p] = "down"]
        /\ stage' = [stage EXCEPT ![p] = "off"]
        /\ age' = [age EXCEPT ![p] = 0]
        /\ began' = [began EXCEPT ![p] = 0]
        /\ UNCHANGED <<changes, sharedAge>>
    BY <1>10 DEF Exit, Crash, Gone, Forget, cache
  <2> QED
    BY <2>1 DEF Ages, InOrder
<1>11. ASSUME UNCHANGED <<changes, main, stage, age, began>>, sharedAge' \in {0, sharedAge}
       PROVE  Ages' /\ InOrder' /\ Forward
  BY <1>11 DEF Ages, InOrder
<1>12. ASSUME NEW p \in Pods, Finish(p) \/ WarmUpEnds(p) PROVE Ages' /\ InOrder' /\ Forward
  BY <1>11, <1>12 DEF Finish, WarmUpEnds, bounds, cache, reading
<1>13. CASE Expire \/ UNCHANGED vars
  BY <1>11, <1>13 DEF Expire, vars, bounds, cache, lifecycle, reading
<1>14. ASSUME NEW list, NEW kind, Becomes(list, kind) PROVE Ages' /\ InOrder' /\ Forward
  <2>1. changes' = changes + 1 /\ UNCHANGED <<sharedAge, main, stage, age, began>>
    BY <1>14 DEF Becomes, cache, lifecycle, reading
  <2> QED
    BY <2>1 DEF Ages, InOrder
<1>15. ASSUME NEW i, Delete(i) \/ \E n \in Names : Create(n, i) PROVE Ages' /\ InOrder' /\ Forward
  BY <1>14, <1>15 DEF Delete, Create
<1> QED
  BY <1>1, <1>2, <1>3, <1>4, <1>5, <1>6, <1>7, <1>8, <1>9, <1>10, <1>12, <1>13, <1>15
  DEF Next, Task, Main

\* However late a pod writes to the shared list, and whatever another pod is
\* seeded with, no pod that stays up returns to an earlier state of the list.
THEOREM ListsNeverGoBack == Spec => ListsMoveForward
<1>1. Init => Ages /\ InOrder
  BY InitAges
<1>2. Ages /\ InOrder /\ [Next]_vars => (Ages /\ InOrder)'
  BY StepAges
<1>3. Ages /\ InOrder /\ [Next]_vars =>
        [\A p \in Pods : main'[p] # "down" => age'[p] >= age[p]]_vars
  BY StepAges
<1> QED
  BY <1>1, <1>2, <1>3, PTL DEF Spec, ListsMoveForward

-----------------------------------------------------------------------------
(***************************************************************************)
(* Lists: what Among chooses, and what taking a part of a list, joining    *)
(* two, inserting and removing do to the set of its names, to those        *)
(* before a place, and to whether it has each of them once.                *)
(***************************************************************************)
\* The first k names of a list.
Upto(list, k) == {list[i] : i \in DOMAIN list \cap (1 .. k)}

\* A set that holds 0, and the next number of each it holds, holds them all up
\* to N: the least number missing would have its predecessor in the set.
LEMMA Counting ==
  ASSUME NEW N \in Nat, NEW G, 0 \in G, \A n \in 0 .. N - 1 : n \in G => n + 1 \in G
  PROVE  0 .. N \subseteq G
<1> DEFINE T == (0 .. N) \ G
<1> SUFFICES ASSUME T # {} PROVE FALSE
  OBVIOUS
<1>1. T \subseteq Nat
  OBVIOUS
<1>2. PICK n \in T : \A m \in T : ~(<<m, n>> \in OpToRel(<, Nat))
  BY <1>1, NatLessThanWellFounded, WFMin
<1>3. n # 0 /\ n - 1 \in 0 .. N - 1
  OBVIOUS
<1>4. n - 1 \in T
  BY <1>3
<1>5. <<n - 1, n>> \in OpToRel(<, Nat)
  BY <1>3 DEF OpToRel
<1> QED BY <1>2, <1>4, <1>5

\* The table Among is defined by exists, and has the values its turns give.
LEMMA AmongUnfolds ==
  ASSUME NEW E, NEW list \in Seq(E), NEW S
  PROVE  \E g \in [0 .. Len(list) -> Seq(E)] :
           /\ Among(list, S) = g[Len(list)]
           /\ g[0] = <<>>
           /\ \A i \in 1 .. Len(list) :
                g[i] = IF list[i] \in S THEN Append(g[i - 1], list[i]) ELSE g[i - 1]
<1> DEFINE N == Len(list)
           Turn(g, i) == IF i = 0 THEN <<>>
                         ELSE IF list[i] \in S THEN Append(g[i - 1], list[i]) ELSE g[i - 1]
           G == {n \in 0 .. N : \E g \in [0 .. n -> Seq(E)] : \A i \in 0 .. n : g[i] = Turn(g, i)}
<1>1. 0 \in G
  <2> DEFINE z == [i \in 0 .. 0 |-> <<>>]
  <2>1. \A i \in 0 .. 0 : z[i] = Turn(z, i)
    OBVIOUS
  <2>2. z \in [0 .. 0 -> Seq(E)]
    OBVIOUS
  <2> HIDE DEF z, Turn
  <2> QED BY <2>1, <2>2
<1>2. ASSUME NEW n \in 0 .. N - 1, n \in G PROVE n + 1 \in G
  <2>1. PICK g \in [0 .. n -> Seq(E)] : \A i \in 0 .. n : g[i] = Turn(g, i)
    BY <1>2
  <2> DEFINE h == [i \in 0 .. n + 1 |-> IF i <= n THEN g[i] ELSE Turn(g, i)]
  <2>2. Turn(g, n + 1) \in Seq(E)
    BY <2>1
  <2>3. h \in [0 .. n + 1 -> Seq(E)]
    BY <2>2
  <2>4. \A i \in 0 .. n + 1 : h[i] = Turn(h, i)
    <3> SUFFICES ASSUME NEW i \in 0 .. n + 1 PROVE h[i] = Turn(h, i)
      OBVIOUS
    <3>1. CASE i = 0
      BY <2>1, <3>1
    <3>2. CASE i # 0
      <4>1. i - 1 \in 0 .. n /\ h[i - 1] = g[i - 1]
        BY <3>2
      <4>2. h[i] = Turn(g, i)
        <5>1. CASE i <= n
          <6>1. i \in 0 .. n
            BY <5>1
          <6>2. h[i] = g[i]
            BY <5>1
          <6>3. g[i] = Turn(g, i)
            BY <2>1, <6>1
          <6> QED BY <6>2, <6>3
        <5>2. CASE ~(i <= n)
          BY <5>2
        <5> QED BY <5>1, <5>2
      <4> QED BY <4>1, <4>2
    <3> QED BY <3>1, <3>2
  <2> HIDE DEF h, Turn
  <2>5. n + 1 \in 0 .. N
    OBVIOUS
  <2> QED BY <2>3, <2>4, <2>5
<1>3. N \in G
  <2>1. N \in Nat
    OBVIOUS
  <2> HIDE DEF G
  <2>2. 0 .. N \subseteq G
    BY <1>1, <1>2, <2>1, Counting
  <2> QED BY <2>1, <2>2
<1> DEFINE Table(g) == [i \in 0 .. N |-> Turn(g, i)]
           chosen == CHOOSE g : g = Table(g)
<1>4. PICK h \in [0 .. N -> Seq(E)] : \A i \in 0 .. N : h[i] = Turn(h, i)
  BY <1>3
<1>5. h = Table(h)
  BY <1>4
<1>6. chosen = Table(chosen)
  BY <1>5
<1>7. Among(list, S) = chosen[N]
  BY DEF Among
<1> HIDE DEF chosen
<1>8. \A i \in 0 .. N : chosen[i] = Turn(chosen, i)
  BY <1>6
<1>9. chosen \in [0 .. N -> Seq(E)]
  <2> DEFINE K == {n \in 0 .. N : chosen[n] \in Seq(E)}
  <2>0. N \in Nat /\ <<>> \in Seq(E)
    OBVIOUS
  <2>1. 0 \in K
    <3>1. 0 \in 0 .. N /\ chosen[0] = <<>>
      BY <1>8, <2>0
    <3> QED BY <2>0, <3>1
  <2>2. ASSUME NEW n \in 0 .. N - 1, n \in K PROVE n + 1 \in K
    <3>1. n + 1 \in 1 .. N /\ list[n + 1] \in E /\ chosen[n] \in Seq(E) /\ (n + 1) - 1 = n
      BY <2>2
    <3>2. chosen[n + 1] = IF list[n + 1] \in S THEN Append(chosen[n], list[n + 1]) ELSE chosen[n]
      BY <1>8, <3>1
    <3>3. chosen[n + 1] \in Seq(E)
      BY <3>1, <3>2
    <3> QED BY <3>1, <3>3
  <2>3. 0 .. N \subseteq K
    <3>1. N \in Nat
      OBVIOUS
    <3> HIDE DEF K, N
    <3> QED BY <2>1, <2>2, <3>1, Counting
  <2>4. \A i \in 0 .. N : chosen[i] \in Seq(E)
    BY <2>3
  <2>5. chosen = [i \in 0 .. N |-> chosen[i]]
    BY <1>6
  <2> QED BY <2>4, <2>5
<1>10. N \in Nat
  OBVIOUS
<1>11. /\ chosen[0] = <<>>
       /\ \A i \in 1 .. N :
            chosen[i] = IF list[i] \in S THEN Append(chosen[i - 1], list[i]) ELSE chosen[i - 1]
  BY <1>8, <1>10
<1> QED BY <1>7, <1>9, <1>11

\* A name more at the end of a list.
LEMMA AppendAdds ==
  ASSUME NEW E, NEW s \in Seq(E), NEW e \in E
  PROVE  /\ ToSet(Append(s, e)) = ToSet(s) \cup {e}
         /\ IsInjective(s) /\ e \notin ToSet(s) => IsInjective(Append(s, e))
<1> DEFINE t == Append(s, e)
<1>1. /\ t \in Seq(E) /\ Len(t) = Len(s) + 1 /\ Len(s) \in Nat
      /\ t[Len(s) + 1] = e /\ \A j \in 1 .. Len(s) : t[j] = s[j]
      /\ DOMAIN t = 1 .. Len(s) + 1 /\ DOMAIN s = 1 .. Len(s)
  OBVIOUS
<1> HIDE DEF t
<1>2. ToSet(t) = ToSet(s) \cup {e}
  BY <1>1 DEF ToSet
<1>3. IsInjective(s) /\ e \notin ToSet(s) => IsInjective(t)
  BY <1>1 DEF ToSet, IsInjective
<1> QED BY <1>2, <1>3 DEF t

\* Among takes the names in S, each as often as the list has it.
LEMMA AmongChooses ==
  ASSUME NEW E, NEW list \in Seq(E), NEW S
  PROVE  /\ Among(list, S) \in Seq(E \cap S)
         /\ ToSet(Among(list, S)) = ToSet(list) \cap S
         /\ IsInjective(list) => IsInjective(Among(list, S))
<1> DEFINE N == Len(list)
           Good(s, i) == /\ s \in Seq(E \cap S)
                         /\ ToSet(s) = Upto(list, i) \cap S
                         /\ IsInjective(list) => IsInjective(s)
<1>1. PICK g \in [0 .. N -> Seq(E)] :
        /\ Among(list, S) = g[N]
        /\ g[0] = <<>>
        /\ \A i \in 1 .. N : g[i] = IF list[i] \in S THEN Append(g[i - 1], list[i]) ELSE g[i - 1]
  BY AmongUnfolds
<1>2. N \in Nat /\ DOMAIN list = 1 .. N
  OBVIOUS
<1> DEFINE K == {n \in 0 .. N : Good(g[n], n)}
<1>3. 0 \in K
  <2>1. ToSet(<<>>) = {} /\ Upto(list, 0) = {} /\ IsInjective(<<>>) /\ <<>> \in Seq(E \cap S)
    BY <1>2 DEF ToSet, Upto, IsInjective
  <2> QED BY <1>1, <1>2, <2>1
<1>4. ASSUME NEW n \in 0 .. N - 1, n \in K PROVE n + 1 \in K
  <2>1. n + 1 \in 1 .. N /\ (n + 1) - 1 = n /\ n \in Nat
    BY <1>2
  <2>2. g[n + 1] = IF list[n + 1] \in S THEN Append(g[n], list[n + 1]) ELSE g[n]
    BY <1>1, <2>1
  <2>3. Upto(list, n + 1) = Upto(list, n) \cup {list[n + 1]}
    BY <1>2, <2>1 DEF Upto
  <2>4. Good(g[n], n)
    BY <1>4
  <2>5. CASE list[n + 1] \in S
    <3>1. list[n + 1] \in E \cap S
      BY <2>1, <2>5
    <3>2. Append(g[n], list[n + 1]) \in Seq(E \cap S)
      BY <2>4, <3>1
    <3>3. IsInjective(list) => list[n + 1] \notin Upto(list, n)
      BY <1>2, <2>1 DEF IsInjective, Upto
    <3>4. Good(Append(g[n], list[n + 1]), n + 1)
      BY <2>3, <2>4, <3>1, <3>2, <3>3, AppendAdds
    <3>5. Good(g[n + 1], n + 1)
      BY <2>2, <2>5, <3>4
    <3> QED BY <2>1, <3>5
  <2>6. CASE list[n + 1] \notin S
    BY <2>1, <2>2, <2>3, <2>4, <2>6
  <2> QED BY <2>5, <2>6
<1>5. N \in K
  <2> HIDE DEF K, N
  <2>1. 0 .. N \subseteq K
    BY <1>2, <1>3, <1>4, Counting
  <2> QED BY <1>2, <2>1
<1>6. Upto(list, N) = ToSet(list)
  BY <1>2 DEF Upto, ToSet
<1> QED BY <1>1, <1>5, <1>6

\* The part of a list after the first k names, up to the m-th.
LEMMA PartOf ==
  ASSUME NEW E, NEW s \in Seq(E), NEW k \in Nat, NEW m \in Nat, m <= Len(s)
  PROVE  /\ SubSeq(s, k + 1, m) \in Seq(E)
         /\ Len(SubSeq(s, k + 1, m)) = IF k <= m THEN m - k ELSE 0
         /\ ToSet(SubSeq(s, k + 1, m)) = {s[i] : i \in k + 1 .. m}
         /\ IsInjective(s) => IsInjective(SubSeq(s, k + 1, m))
<1> DEFINE t == SubSeq(s, k + 1, m)
<1>a. t \in Seq(E)
  OBVIOUS
<1>b. Len(t) = IF k <= m THEN m - k ELSE 0
  OBVIOUS
<1>c. \A j \in 1 .. Len(t) : t[j] = s[k + j]
  BY <1>b
<1>d. DOMAIN t = 1 .. Len(t) /\ DOMAIN s = 1 .. Len(s)
  OBVIOUS
<1>1. /\ t \in Seq(E) /\ Len(t) = IF k <= m THEN m - k ELSE 0
      /\ \A j \in 1 .. Len(t) : t[j] = s[k + j]
      /\ DOMAIN t = 1 .. Len(t) /\ DOMAIN s = 1 .. Len(s)
  BY <1>a, <1>b, <1>c, <1>d
<1> HIDE DEF t
<1>2. ToSet(t) = {s[i] : i \in k + 1 .. m}
  <2>1. \A i \in k + 1 .. m : i - k \in 1 .. Len(t) /\ t[i - k] = s[i]
    BY <1>1
  <2>2. \A j \in 1 .. Len(t) : k + j \in k + 1 .. m
    BY <1>1
  <2> QED BY <1>1, <2>1, <2>2 DEF ToSet
<1>3. ASSUME IsInjective(s) PROVE IsInjective(t)
  <2> SUFFICES ASSUME NEW a \in 1 .. Len(t), NEW b \in 1 .. Len(t), t[a] = t[b] PROVE a = b
    BY <1>1 DEF IsInjective
  <2>1. k + a \in 1 .. Len(s) /\ k + b \in 1 .. Len(s)
    BY <1>1
  <2>2. k + a = k + b
    BY <1>1, <1>3, <2>1 DEF IsInjective
  <2> QED BY <2>2
<1> QED BY <1>1, <1>2, <1>3 DEF t

\* Two lists, one after the other.
LEMMA JoinedAre ==
  ASSUME NEW E, NEW s \in Seq(E), NEW t \in Seq(E)
  PROVE  /\ s \o t \in Seq(E)
         /\ ToSet(s \o t) = ToSet(s) \cup ToSet(t)
         /\ IsInjective(s) /\ IsInjective(t) /\ ToSet(s) \cap ToSet(t) = {} => IsInjective(s \o t)
<1> DEFINE u == s \o t
<1>1. /\ u \in Seq(E) /\ Len(u) = Len(s) + Len(t) /\ Len(s) \in Nat /\ Len(t) \in Nat
      /\ \A j \in 1 .. Len(s) : u[j] = s[j]
      /\ \A j \in Len(s) + 1 .. Len(s) + Len(t) : u[j] = t[j - Len(s)]
      /\ DOMAIN u = 1 .. Len(u) /\ DOMAIN s = 1 .. Len(s) /\ DOMAIN t = 1 .. Len(t)
  OBVIOUS
<1> HIDE DEF u
<1>2. \A x : x \in ToSet(u) <=> x \in ToSet(s) \/ x \in ToSet(t)
  <2>1. ASSUME NEW j \in 1 .. Len(u) PROVE u[j] \in ToSet(s) \/ u[j] \in ToSet(t)
    <3>1. CASE j <= Len(s)
      BY <1>1, <3>1 DEF ToSet
    <3>2. CASE j > Len(s)
      <4>1. j - Len(s) \in 1 .. Len(t) /\ u[j] = t[j - Len(s)]
        BY <1>1, <3>2
      <4> QED BY <1>1, <4>1 DEF ToSet
    <3> QED BY <1>1, <3>1, <3>2
  <2>2. ASSUME NEW j \in 1 .. Len(s) PROVE s[j] \in ToSet(u)
    <3>1. j \in 1 .. Len(u) /\ u[j] = s[j]
      BY <1>1
    <3> QED BY <1>1, <3>1 DEF ToSet
  <2>3. ASSUME NEW j \in 1 .. Len(t) PROVE t[j] \in ToSet(u)
    <3>0. PICK m \in Len(s) + 1 .. Len(s) + Len(t) : m - Len(s) = j
      BY <1>1
    <3>1. m \in 1 .. Len(u) /\ u[m] = t[j]
      BY <1>1, <3>0
    <3> QED BY <1>1, <3>1 DEF ToSet
  <2> QED BY <1>1, <2>1, <2>2, <2>3 DEF ToSet
<1>3. ASSUME IsInjective(s), IsInjective(t), ToSet(s) \cap ToSet(t) = {} PROVE IsInjective(u)
  <2> SUFFICES ASSUME NEW a \in 1 .. Len(u), NEW b \in 1 .. Len(u), u[a] = u[b] PROVE a = b
    BY <1>1 DEF IsInjective
  <2>1. CASE a <= Len(s) /\ b <= Len(s)
    <3>1. /\ a \in 1 .. Len(s) /\ u[a] = s[a]
          /\ b \in 1 .. Len(s) /\ u[b] = s[b]
      BY <1>1, <2>1
    <3> QED BY <1>1, <1>3, <3>1 DEF IsInjective
  <2>2. CASE a > Len(s) /\ b > Len(s)
    <3>1. /\ a - Len(s) \in 1 .. Len(t) /\ u[a] = t[a - Len(s)]
          /\ b - Len(s) \in 1 .. Len(t) /\ u[b] = t[b - Len(s)]
      BY <1>1, <2>2
    <3>2. a - Len(s) = b - Len(s)
      BY <1>1, <1>3, <3>1 DEF IsInjective
    <3> QED BY <1>1, <3>2
  <2>3. ASSUME NEW c \in 1 .. Len(u), NEW d \in 1 .. Len(u), c <= Len(s), d > Len(s)
        PROVE  u[c] # u[d]
    <3>1. d - Len(s) \in 1 .. Len(t) /\ u[d] = t[d - Len(s)]
      BY <1>1, <2>3
    <3>2. u[c] \in ToSet(s)
      <4>1. c \in DOMAIN s /\ u[c] = s[c]
        BY <1>1, <2>3
      <4> QED BY <4>1 DEF ToSet
    <3>3. u[d] \in ToSet(t)
      BY <1>1, <3>1 DEF ToSet
    <3> QED BY <1>3, <3>2, <3>3
  <2> QED BY <1>1, <2>1, <2>2, <2>3
<1> QED BY <1>1, <1>2, <1>3 DEF u

\* A new name at place i: only it is new among the first k.
LEMMA InsertedIs ==
  ASSUME NEW E, NEW s \in Seq(E), NEW e \in E, e \notin ToSet(s), NEW i \in 1 .. Len(s) + 1
  PROVE  /\ InsertAt(s, i, e) \in Seq(E)
         /\ IsInjective(s) => IsInjective(InsertAt(s, i, e))
         /\ \A k \in Nat : Upto(InsertAt(s, i, e), k) \subseteq Upto(s, k) \cup {e}
<1> DEFINE t == InsertAt(s, i, e)
<1>1. /\ t \in Seq(E) /\ Len(t) = Len(s) + 1 /\ Len(s) \in Nat
      /\ \A j \in 1 .. i - 1 : t[j] = s[j]
      /\ t[i] = e
      /\ \A j \in i + 1 .. Len(t) : t[j] = s[j - 1]
      /\ DOMAIN t = 1 .. Len(t) /\ DOMAIN s = 1 .. Len(s)
  <2> DEFINE h == SubSeq(s, 1, i - 1)
             l == h \o <<e>>
             r == SubSeq(s, i, Len(s))
  <2>1. t = l \o r
    BY DEF InsertAt
  <2>2. /\ h \in Seq(E) /\ Len(h) = i - 1 /\ \A j \in 1 .. i - 1 : h[j] = s[j]
    OBVIOUS
  <2>3. /\ r \in Seq(E) /\ Len(r) = Len(s) - i + 1
        /\ \A j \in 1 .. Len(s) - i + 1 : r[j] = s[j + i - 1]
    OBVIOUS
  <2>4. Len(s) \in Nat /\ DOMAIN s = 1 .. Len(s)
    OBVIOUS
  <2> HIDE DEF h
  <2>5. /\ l \in Seq(E) /\ Len(l) = i /\ l[i] = e
        /\ \A j \in 1 .. i - 1 : l[j] = s[j]
    BY <2>2
  <2> HIDE DEF t, l, r
  <2>6. t \in Seq(E) /\ Len(t) = Len(s) + 1 /\ DOMAIN t = 1 .. Len(t)
    <3>1. t \in Seq(E)
      BY <2>1, <2>3, <2>5
    <3>0. l \in Seq(E) /\ r \in Seq(E)
      BY <2>3, <2>5
    <3>2. Len(t) = Len(l) + Len(r)
      BY <2>1, <3>0
    <3>3. Len(t) = Len(s) + 1
      BY <2>3, <2>4, <2>5, <3>2
    <3> QED BY <3>1, <3>3
  <2>7. \A j \in 1 .. i : t[j] = l[j]
    BY <2>1, <2>3, <2>4, <2>5
  <2>8. \A j \in i + 1 .. Len(t) : t[j] = r[j - i]
    BY <2>1, <2>3, <2>4, <2>5, <2>6
  <2>9. \A j \in i + 1 .. Len(t) : j - i \in 1 .. Len(s) - i + 1 /\ (j - i) + i - 1 = j - 1
    BY <2>4, <2>6
  <2>10. \A j \in i + 1 .. Len(t) : t[j] = s[j - 1]
    BY <2>3, <2>8, <2>9
  <2>11. t[i] = e /\ \A j \in 1 .. i - 1 : t[j] = s[j]
    BY <2>5, <2>7
  <2> QED BY <2>4, <2>6, <2>10, <2>11
<1> HIDE DEF t
<1>2. ASSUME IsInjective(s) PROVE IsInjective(t)
  <2> SUFFICES ASSUME NEW a \in 1 .. Len(t), NEW b \in 1 .. Len(t), a < b PROVE t[a] # t[b]
    BY <1>1 DEF IsInjective
  <2>1. a < i => a \in 1 .. Len(s) /\ t[a] = s[a]
    BY <1>1
  <2>2. b > i => b - 1 \in 1 .. Len(s) /\ t[b] = s[b - 1]
    BY <1>1
  <2>3. a > i => a - 1 \in 1 .. Len(s) /\ t[a] = s[a - 1]
    BY <1>1
  <2>4. b < i => b \in 1 .. Len(s) /\ t[b] = s[b]
    BY <1>1
  <2>5. \A j \in 1 .. Len(s) : s[j] # e
    BY <1>1 DEF ToSet
  <2>6. \A c, d \in 1 .. Len(s) : c # d => s[c] # s[d]
    BY <1>1, <1>2 DEF IsInjective
  <2>7. CASE a = i
    BY <1>1, <2>2, <2>5, <2>7
  <2>8. CASE b = i
    BY <1>1, <2>1, <2>5, <2>8
  <2>9. CASE a < i /\ b < i
    BY <2>1, <2>4, <2>6, <2>9
  <2>10. CASE a < i /\ b > i
    BY <2>1, <2>2, <2>6, <2>10
  <2>11. CASE a > i
    BY <2>2, <2>3, <2>6, <2>11
  <2> QED BY <2>7, <2>8, <2>9, <2>10, <2>11
<1>3. \A k \in Nat : Upto(t, k) \subseteq Upto(s, k) \cup {e}
  <2> SUFFICES ASSUME NEW k \in Nat, NEW j \in 1 .. Len(t), j <= k PROVE t[j] \in Upto(s, k) \cup {e}
    BY <1>1 DEF Upto
  <2>1. CASE j < i
    <3>1. j \in DOMAIN s \cap (1 .. k) /\ t[j] = s[j]
      BY <1>1, <2>1
    <3> QED BY <3>1 DEF Upto
  <2>2. CASE j = i
    BY <1>1, <2>2
  <2>3. CASE j > i
    <3>1. j - 1 \in DOMAIN s \cap (1 .. k) /\ t[j] = s[j - 1]
      BY <1>1, <2>3
    <3> QED BY <3>1 DEF Upto
  <2> QED BY <2>1, <2>2, <2>3
<1> QED BY <1>1, <1>2, <1>3 DEF t

\* The i-th name removed: those left among the first k stay there.
LEMMA RemovedIs ==
  ASSUME NEW E, NEW s \in Seq(E), IsInjective(s), NEW i \in 1 .. Len(s)
  PROVE  /\ RemoveAt(s, i) \in Seq(E)
         /\ IsInjective(RemoveAt(s, i))
         /\ ToSet(RemoveAt(s, i)) \subseteq ToSet(s)
         /\ \A k \in Nat : Upto(s, k) \cap ToSet(RemoveAt(s, i)) \subseteq Upto(RemoveAt(s, i), k)
<1> DEFINE t == RemoveAt(s, i)
<1>1. /\ t \in Seq(E) /\ Len(t) = Len(s) - 1 /\ Len(s) \in Nat
      /\ \A j \in 1 .. i - 1 : t[j] = s[j]
      /\ \A j \in i .. Len(t) : t[j] = s[j + 1]
      /\ DOMAIN t = 1 .. Len(t) /\ DOMAIN s = 1 .. Len(s)
  <2> DEFINE l == SubSeq(s, 1, i - 1)
             r == SubSeq(s, i + 1, Len(s))
  <2>1. t = l \o r
    BY DEF RemoveAt
  <2>2. /\ l \in Seq(E) /\ Len(l) = i - 1 /\ \A j \in 1 .. i - 1 : l[j] = s[j]
    OBVIOUS
  <2>3. /\ r \in Seq(E) /\ Len(r) = Len(s) - i
        /\ \A j \in 1 .. Len(s) - i : r[j] = s[j + i]
    OBVIOUS
  <2>4. Len(s) \in Nat /\ DOMAIN s = 1 .. Len(s)
    OBVIOUS
  <2> HIDE DEF t, l, r
  <2>5. t \in Seq(E) /\ Len(t) = Len(s) - 1 /\ DOMAIN t = 1 .. Len(t)
    BY <2>1, <2>2, <2>3, <2>4
  <2>6. \A j \in 1 .. i - 1 : t[j] = l[j]
    BY <2>1, <2>2, <2>3, <2>4
  <2>7. \A j \in i .. Len(t) : t[j] = r[j - i + 1]
    BY <2>1, <2>2, <2>3, <2>4, <2>5
  <2>8. \A j \in i .. Len(t) : j - i + 1 \in 1 .. Len(s) - i /\ (j - i + 1) + i = j + 1
    BY <2>4, <2>5
  <2>9. \A j \in i .. Len(t) : t[j] = s[j + 1]
    BY <2>3, <2>7, <2>8
  <2> QED BY <2>2, <2>4, <2>5, <2>6, <2>9
<1> HIDE DEF t
<1>0. \A c, d \in 1 .. Len(s) : s[c] = s[d] => c = d
  BY <1>1 DEF IsInjective
<1>2. IsInjective(t)
  <2> SUFFICES ASSUME NEW a \in 1 .. Len(t), NEW b \in 1 .. Len(t), a < b PROVE t[a] # t[b]
    BY <1>1 DEF IsInjective
  <2>1. a < i => a \in 1 .. Len(s) /\ t[a] = s[a]
    BY <1>1
  <2>2. b < i => b \in 1 .. Len(s) /\ t[b] = s[b]
    BY <1>1
  <2>3. a >= i => a + 1 \in 1 .. Len(s) /\ t[a] = s[a + 1]
    BY <1>1
  <2>4. b >= i => b + 1 \in 1 .. Len(s) /\ t[b] = s[b + 1]
    BY <1>1
  <2>5. CASE b < i
    BY <1>0, <2>1, <2>2, <2>5
  <2>6. CASE a < i /\ b >= i
    BY <1>0, <2>1, <2>4, <2>6
  <2>7. CASE a >= i
    BY <1>0, <2>3, <2>4, <2>7
  <2> QED BY <2>5, <2>6, <2>7
<1>3. ToSet(t) \subseteq ToSet(s)
  BY <1>1 DEF ToSet
<1>4. \A k \in Nat : Upto(s, k) \cap ToSet(t) \subseteq Upto(t, k)
  <2> SUFFICES ASSUME NEW k \in Nat, NEW m \in 1 .. Len(s), m <= k, NEW j \in 1 .. Len(t), s[m] = t[j]
               PROVE  t[j] \in Upto(t, k)
    BY <1>1 DEF Upto, ToSet
  <2>1. j < i => j \in 1 .. Len(s) /\ t[j] = s[j]
    BY <1>1
  <2>2. j >= i => j + 1 \in 1 .. Len(s) /\ t[j] = s[j + 1]
    BY <1>1
  <2>3. j <= m
    BY <1>0, <2>1, <2>2
  <2>4. j \in DOMAIN t \cap (1 .. k)
    BY <1>1, <2>3
  <2> QED BY <2>4 DEF Upto
<1> QED BY <1>1, <1>2, <1>3, <1>4 DEF t

-----------------------------------------------------------------------------
\* What is taken of a list of Harbor's.
LEMMA NamesAre ==
  ASSUME NEW list \in Seq(Names)
  PROVE  /\ Proper(list) \in Lists
         /\ ToSet(Proper(list)) = ToSet(list) \cap ProxyCache \cap Safe
         /\ IsInjective(list) => IsInjective(Proper(list))
<1>1. Names \cap (ProxyCache \cap Safe) = ProxyCache \cap Safe
  BY NamesAssumption
<1>2. /\ Proper(list) \in Seq(Names \cap (ProxyCache \cap Safe))
      /\ ToSet(Proper(list)) = ToSet(list) \cap (ProxyCache \cap Safe)
      /\ IsInjective(list) => IsInjective(Proper(list))
  BY AmongChooses DEF Proper
<1>3. Proper(list) \in Lists
  BY <1>1, <1>2 DEF Lists
<1> QED BY <1>2, <1>3

\* What a pod is seeded with is a list of the same kind.
LEMMA SeedIs == ASSUME NEW list \in Lists PROVE Among(list, Safe) \in Lists
<1>1. (ProxyCache \cap Safe) \cap Safe = ProxyCache \cap Safe
  OBVIOUS
<1> QED BY <1>1, AmongChooses DEF Lists

Done(p) == (page[p] - 1) * PageSize

\* A page shows the names after those of the pages before it, and a page that
\* is not full is the last.
LEMMA PageIs ==
  ASSUME TypeOK, NEW p \in Pods
  PROVE  /\ Page(p) \in Seq(Names)
         /\ IsInjective(Page(p))
         /\ Done(p) \in Nat
         /\ ToSet(Page(p)) \cap Upto(harbor, Done(p)) = {}
         /\ ToSet(Page(p)) \cup Upto(harbor, Done(p)) = Upto(harbor, Done(p) + PageSize)
         /\ Len(Page(p)) < PageSize => Upto(harbor, Done(p) + PageSize) = ToSet(harbor)
<1> DEFINE k == Done(p)
           m == IF k + PageSize < Len(harbor) THEN k + PageSize ELSE Len(harbor)
<1>1. page[p] \in Nat \ {0} /\ PageSize \in Nat \ {0} /\ harbor \in Seq(Names) /\ IsInjective(harbor)
  BY NamesAssumption DEF TypeOK
<1>2. k \in Nat /\ page[p] * PageSize = k + PageSize
  BY <1>1 DEF Done
<1>3. Page(p) = SubSeq(harbor, k + 1, m)
  BY <1>2 DEF Page, Done
<1> HIDE DEF k
<1>4. m \in Nat /\ m <= Len(harbor) /\ Len(harbor) \in Nat /\ DOMAIN harbor = 1 .. Len(harbor)
  BY <1>1, <1>2
<1>5. /\ Page(p) \in Seq(Names) /\ IsInjective(Page(p))
      /\ Len(Page(p)) = IF k <= m THEN m - k ELSE 0
      /\ ToSet(Page(p)) = {harbor[i] : i \in k + 1 .. m}
  <2> HIDE DEF m
  <2>1. /\ SubSeq(harbor, k + 1, m) \in Seq(Names)
        /\ Len(SubSeq(harbor, k + 1, m)) = IF k <= m THEN m - k ELSE 0
        /\ ToSet(SubSeq(harbor, k + 1, m)) = {harbor[i] : i \in k + 1 .. m}
        /\ IsInjective(harbor) => IsInjective(SubSeq(harbor, k + 1, m))
    BY <1>1, <1>2, <1>4, PartOf
  <2> QED BY <1>1, <1>3, <2>1
<1>6. ToSet(Page(p)) \cap Upto(harbor, k) = {}
  <2> SUFFICES ASSUME NEW i \in k + 1 .. m, NEW j \in 1 .. Len(harbor), j <= k, harbor[i] = harbor[j]
               PROVE  FALSE
    BY <1>4, <1>5 DEF Upto
  <2>1. i \in 1 .. Len(harbor) /\ i # j
    BY <1>2, <1>4
  <2> QED BY <1>1, <1>4, <2>1 DEF IsInjective
<1>7. ToSet(Page(p)) \cup Upto(harbor, k) = Upto(harbor, k + PageSize)
  <2>1. (k + 1 .. m) \cup (1 .. Len(harbor) \cap 1 .. k) = 1 .. Len(harbor) \cap 1 .. k + PageSize
    BY <1>1, <1>2, <1>4
  <2> HIDE DEF m
  <2> QED BY <1>4, <1>5, <2>1 DEF Upto
<1>8. Len(Page(p)) < PageSize => Upto(harbor, k + PageSize) = ToSet(harbor)
  <2> SUFFICES ASSUME Len(Page(p)) < PageSize PROVE 1 .. Len(harbor) \subseteq 1 .. k + PageSize
    BY <1>4 DEF Upto, ToSet
  <2>1. ASSUME k + PageSize < Len(harbor) PROVE FALSE
    <3>1. m = k + PageSize
      BY <2>1
    <3> HIDE DEF m
    <3>2. m - k = PageSize /\ k <= m
      BY <1>1, <1>2, <3>1
    <3> QED BY <1>1, <1>5, <3>2
  <2> QED BY <1>1, <1>2, <1>4, <2>1
<1> QED BY <1>2, <1>5, <1>6, <1>7, <1>8 DEF k

-----------------------------------------------------------------------------
LEMMA InitTyped == Init => TypeOK
<1>1. <<>> \in Lists
  BY DEF Lists
<1> QED BY <1>1, NamesAssumption, LimitsAssumption DEF Init, TypeOK

LEMMA StepTyped ==
  ASSUME TypeOK, [Next]_vars
  PROVE  TypeOK'
<1> USE LimitsAssumption
<1>0. <<>> \in Lists
  BY DEF Lists
<1>1. ASSUME NEW p \in Pods, Seed(p) PROVE TypeOK'
  <2>1. ToSet(Proper(harbor)) \subseteq Names
    BY NamesAre, NamesAssumption DEF TypeOK
  <2>2. projects' = projects \/ \E l \in Lists : projects' = [projects EXCEPT ![p] = l]
    BY <1>1, SeedIs DEF Seed, Seeded, TypeOK
  <2>3. age' = age \/ age' = [age EXCEPT ![p] = sharedAge]
    BY <1>1 DEF Seed, Seeded
  <2>4. projects' \in [Pods -> Lists]
    <3>1. CASE projects' = projects
      BY <3>1 DEF TypeOK
    <3>2. ASSUME NEW l \in Lists, projects' = [projects EXCEPT ![p] = l] PROVE projects' \in [Pods -> Lists]
      BY <3>2 DEF TypeOK
    <3> QED BY <2>2, <3>1, <3>2
  <2>5. age' \in [Pods -> 0 .. MaxChanges]
    BY <2>3 DEF TypeOK
  <2> HIDE DEF Lists
  <2> QED
    BY <1>1, <2>1, <2>4, <2>5 DEF Seed, BeginRefresh, Eligible, TypeOK, bounds, cache, lifecycle
<1>2. ASSUME NEW p \in Pods, Tick(p) PROVE TypeOK'
  <2>1. ToSet(Proper(harbor)) \subseteq Names
    BY NamesAre, NamesAssumption DEF TypeOK
  <2> QED
    BY <1>2, <2>1 DEF Tick, BeginRefresh, Eligible, TypeOK, bounds, cache, lifecycle
<1>3. ASSUME NEW p \in Pods, ReadPage(p) PROVE TypeOK'
  <2>1. result[p] \o Proper(Page(p)) \in Lists
    <3>1. Proper(Page(p)) \in Lists /\ result[p] \in Lists
      BY PageIs, NamesAre DEF TypeOK
    <3> QED BY <3>1 DEF Lists
  <2>2. result' = [result EXCEPT ![p] = result[p] \o Proper(Page(p))]
    BY <1>3 DEF ReadPage
  <2>3. result' \in [Pods -> Lists]
    BY <2>1, <2>2 DEF TypeOK
  <2>4. page[p] \in Nat \ {0}
    BY DEF TypeOK
  <2>5. page' \in [Pods -> Nat \ {0}]
    BY <1>3, <2>4 DEF ReadPage, TypeOK
  <2>6. stage' \in {stage, [stage EXCEPT ![p] = "persist"]}
    BY <1>3 DEF ReadPage
  <2> QED
    BY <1>3, <2>3, <2>5, <2>6 DEF ReadPage, TypeOK, bounds, cache, lifecycle, watch
<1>4. ASSUME NEW p \in Pods, ReadFails(p) PROVE TypeOK'
  BY <1>0, <1>4 DEF ReadFails, Move, Forget, TypeOK, cache, lifecycle
<1>5. ASSUME NEW p \in Pods, Persist(p) PROVE TypeOK'
  <2>1. shared' \in Lists \cup {NoList} /\ sharedAge' \in 0 .. MaxChanges
    BY <1>5 DEF Persist, TypeOK, cache
  <2> QED
    BY <1>5, <2>1 DEF Persist, Move, TypeOK, bounds, lifecycle, reading, watch
<1>6. ASSUME NEW p \in Pods, Store(p) PROVE TypeOK'
  BY <1>0, <1>6 DEF Store, Move, Forget, TypeOK, bounds, cache, lifecycle
<1>7. ASSUME NEW p \in Pods, Stop(p) \/ Start(p) PROVE TypeOK'
  BY <1>7 DEF Stop, Start, Move, TypeOK, bounds, cache, lifecycle, reading, watch
<1>8. ASSUME NEW p \in Pods, Finish(p) \/ Signal(p) \/ ServersExit(p) \/ WarmUpEnds(p) PROVE TypeOK'
  <2>1. open' \subseteq Pods /\ shutdown' \subseteq Pods /\ warming' \subseteq Pods
    BY <1>8 DEF Finish, Signal, ServersExit, WarmUpEnds, TypeOK
  <2>2. main' \in [Pods -> {"down", "serving", "draining", "stopping"}]
    BY <1>8 DEF Finish, Signal, ServersExit, WarmUpEnds, TypeOK
  <2>3. UNCHANGED <<harbor, bounds, cache, stage, reading, projects, age, watch>>
    BY <1>8 DEF Finish, Signal, ServersExit, WarmUpEnds
  <2> QED
    BY <2>1, <2>2, <2>3 DEF TypeOK, bounds, cache, reading, watch
<1>9. ASSUME NEW p \in Pods, Exit(p) \/ Crash(p) PROVE TypeOK'
  <2>1. Gone(p) /\ mishaps' \in 0 .. MaxMishaps
    BY <1>9 DEF Exit, Crash, TypeOK
  <2> QED
    BY <1>0, <2>1 DEF Gone, Forget, TypeOK, cache
<1>10. CASE Expire \/ UNCHANGED vars
  BY <1>10 DEF Expire, vars, TypeOK, bounds, cache, lifecycle, reading, watch
<1>11. ASSUME NEW list \in Seq(Names), IsInjective(list),
              NEW kind \in {"create", "remove"}, Becomes(list, kind)
       PROVE  TypeOK'
  <2>1. ToSet(Proper(list)) \subseteq Names
    BY NamesAre, NamesAssumption
  <2>2. /\ kept' \in [Pods -> SUBSET Names] /\ met' \in [Pods -> SUBSET Names]
        /\ shifts' \in [Pods -> SUBSET {"create", "remove"}]
    BY <1>11, <2>1 DEF Becomes, TypeOK
  <2> QED
    BY <1>11, <2>2 DEF Becomes, TypeOK, cache, lifecycle, reading
<1>12. ASSUME NEW n \in Names, NEW i \in 1 .. Len(harbor) + 1, Create(n, i) PROVE TypeOK'
  <2>1. InsertAt(harbor, i, n) \in Seq(Names) /\ IsInjective(InsertAt(harbor, i, n))
    BY <1>12, InsertedIs DEF Create, TypeOK
  <2> QED BY <1>11, <1>12, <2>1 DEF Create
<1>13. ASSUME NEW i \in 1 .. Len(harbor), Delete(i) PROVE TypeOK'
  <2>1. RemoveAt(harbor, i) \in Seq(Names) /\ IsInjective(RemoveAt(harbor, i))
    BY RemovedIs DEF TypeOK
  <2> QED BY <1>11, <1>13, <2>1 DEF Delete
<1> QED
  BY <1>1, <1>2, <1>3, <1>4, <1>5, <1>6, <1>7, <1>8, <1>9, <1>10, <1>12, <1>13
  DEF Next, Task, Main

-----------------------------------------------------------------------------
(***************************************************************************)
(* A refresh under way.  The names before the next page are those it has   *)
(* been through.  Unless one has been removed, what was eligible all the   *)
(* while and stands there has been taken; unless one has been created,     *)
(* what has been taken, and is still listed, stands there, so that no      *)
(* later page shows it again.                                              *)
(***************************************************************************)
SoFar(p) ==
  /\ Eligible \subseteq met[p]
  /\ ToSet(result[p]) \subseteq met[p]
  /\ kept[p] \subseteq Eligible
  /\ "remove" \notin shifts[p] => kept[p] \cap Upto(harbor, Done(p)) \subseteq ToSet(result[p])
  /\ "create" \notin shifts[p] =>
       /\ IsInjective(result[p])
       /\ ToSet(result[p]) \cap ToSet(harbor) \subseteq Upto(harbor, Done(p))

Complete(p) ==
  /\ ToSet(result[p]) \subseteq met[p]
  /\ "remove" \notin shifts[p] => kept[p] \subseteq ToSet(result[p])
  /\ "create" \notin shifts[p] => IsInjective(result[p])

Fine(p) ==
  /\ stage[p] \notin {"read", "persist", "store"} => page[p] = 1 /\ result[p] = <<>> /\ shifts[p] = {}
  /\ stage[p] = "read" => SoFar(p)
  /\ stage[p] \in {"persist", "store"} => Complete(p)

RefreshInv == TypeOK /\ Ages /\ InOrder /\ \A p \in Pods : Fine(p)

LEMMA NothingYet ==
  /\ ToSet(<<>>) = {} /\ IsInjective(<<>>)
  /\ \A list : Upto(list, 0) = {}
BY DEF ToSet, IsInjective, Upto

LEMMA InitFine == Init => RefreshInv
BY InitTyped, InitAges DEF Init, RefreshInv, Fine

\* What is Fine for a pod depends on Harbor's list and on the pod alone.
LEMMA OthersFine ==
  ASSUME RefreshInv, NEW q \in Pods, harbor' = harbor,
         stage'[q] = stage[q], page'[q] = page[q], result'[q] = result[q],
         kept'[q] = kept[q], met'[q] = met[q], shifts'[q] = shifts[q]
  PROVE  Fine(q)'
BY DEF RefreshInv, Fine, SoFar, Complete, Done, Eligible

LEMMA StepFine ==
  ASSUME RefreshInv, [Next]_vars
  PROVE  \A q \in Pods : Fine(q)'
<1> DEFINE Same(q) == /\ stage'[q] = stage[q] /\ page'[q] = page[q] /\ result'[q] = result[q]
                      /\ kept'[q] = kept[q] /\ met'[q] = met[q] /\ shifts'[q] = shifts[q]
<1>0. TypeOK /\ InOrder /\ (\A p \in Pods : Fine(p)) /\ TypeOK'
  BY StepTyped DEF RefreshInv
<1>1. ASSUME NEW p \in Pods, Seed(p) \/ Tick(p) PROVE \A q \in Pods : Fine(q)'
  <2>1. /\ stage[p] \in {"seed", "wait"} /\ BeginRefresh(p) /\ harbor' = harbor
    BY <1>1 DEF Seed, Tick
  <2>2. ASSUME NEW q \in Pods, q # p PROVE Fine(q)'
    <3>1. Same(q)
      BY <1>0, <2>1, <2>2 DEF BeginRefresh, TypeOK
    <3> QED BY <2>1, <3>1, OthersFine
  <2>3. page[p] = 1 /\ result[p] = <<>> /\ shifts[p] = {}
    BY <1>0, <2>1 DEF Fine
  <2>4. /\ stage'[p] = "read" /\ page'[p] = 1 /\ result'[p] = <<>> /\ shifts'[p] = {}
        /\ kept'[p] = Eligible /\ met'[p] = Eligible
    BY <1>0, <2>1, <2>3 DEF BeginRefresh, TypeOK
  <2>5. Done(p)' = 0
    BY <2>4, NamesAssumption DEF Done
  <2>6. SoFar(p)'
    BY <2>1, <2>4, <2>5, NothingYet DEF SoFar, Eligible
  <2>7. Fine(p)'
    BY <2>4, <2>6 DEF Fine
  <2> QED BY <2>2, <2>7
<1>2. ASSUME NEW p \in Pods, ReadFails(p) \/ Store(p) \/ Exit(p) \/ Crash(p) PROVE \A q \in Pods : Fine(q)'
  <2>1. Forget(p) /\ harbor' = harbor
    BY <1>2 DEF ReadFails, Store, Exit, Crash, Gone
  <2>2. PICK s \in {"wait", "off"} : stage' = [stage EXCEPT ![p] = s]
    BY <1>2 DEF ReadFails, Store, Exit, Crash, Gone, Move
  <2>3. ASSUME NEW q \in Pods, q # p PROVE Fine(q)'
    <3>1. Same(q)
      BY <1>0, <2>1, <2>2, <2>3 DEF Forget, TypeOK
    <3> QED BY <2>1, <3>1, OthersFine
  <2>4. stage'[p] = s /\ page'[p] = 1 /\ result'[p] = <<>> /\ shifts'[p] = {}
    BY <1>0, <2>1, <2>2 DEF Forget, TypeOK
  <2>5. Fine(p)'
    BY <2>4 DEF Fine
  <2> QED BY <2>3, <2>5
<1>3. ASSUME NEW p \in Pods, Persist(p) \/ Stop(p) \/ Start(p) PROVE \A q \in Pods : Fine(q)'
  <2>1. harbor' = harbor /\ UNCHANGED <<page, result, kept, met, shifts>>
    BY <1>3 DEF Persist, Stop, Start, reading, watch
  <2>2. \A q \in Pods : q # p => stage'[q] = stage[q]
    BY <1>0, <1>3 DEF Persist, Stop, Start, Move, TypeOK
  <2>3. /\ stage[p] \in {"persist", "wait", "off"}
        /\ stage'[p] = CASE stage[p] = "persist" -> "store"
                          [] stage[p] = "wait" -> "done"
                          [] stage[p] = "off" -> "seed"
    BY <1>0, <1>3 DEF Persist, Stop, Start, Move, TypeOK, InOrder
  <2>4. ASSUME NEW q \in Pods, q # p PROVE Fine(q)'
    BY <2>1, <2>2, <2>4, OthersFine
  <2>5. Fine(p)
    BY <1>0
  <2>6. Complete(p)' = Complete(p)
    BY <2>1 DEF Complete
  <2>7. Fine(p)'
    BY <2>1, <2>3, <2>5, <2>6 DEF Fine
  <2> QED BY <2>4, <2>7
<1>4. CASE UNCHANGED <<harbor, stage, page, result, kept, met, shifts>>
  BY <1>4, OthersFine
<1>5. ASSUME NEW p \in Pods, Finish(p) \/ Signal(p) \/ ServersExit(p) \/ WarmUpEnds(p)
      PROVE  \A q \in Pods : Fine(q)'
  BY <1>4, <1>5 DEF Finish, Signal, ServersExit, WarmUpEnds, reading, watch
<1>6. CASE Expire \/ UNCHANGED vars
  BY <1>4, <1>6 DEF Expire, vars, reading, watch
<1>7. ASSUME NEW p \in Pods, ReadPage(p) PROVE \A q \in Pods : Fine(q)'
  <2>1. /\ stage[p] = "read" /\ UNCHANGED <<harbor, kept, met, shifts>>
        /\ result' = [result EXCEPT ![p] = result[p] \o Proper(Page(p))]
    BY <1>7 DEF ReadPage, watch
  <2>2. ASSUME NEW q \in Pods, q # p PROVE Fine(q)'
    <3>1. Same(q)
      <4>1. stage'[q] = stage[q]
        BY <1>0, <1>7, <2>2 DEF ReadPage, TypeOK
      <4>2. page'[q] = page[q]
        BY <1>0, <1>7, <2>2 DEF ReadPage, TypeOK
      <4>3. result'[q] = result[q]
        BY <1>0, <2>1, <2>2 DEF TypeOK
      <4> QED BY <2>1, <4>1, <4>2, <4>3
    <3> QED BY <2>1, <3>1, OthersFine
  <2> DEFINE more == Proper(Page(p))
             next == Done(p) + PageSize
  <2>3. SoFar(p)
    BY <1>0, <2>1 DEF Fine
  <2>4. /\ Page(p) \in Seq(Names) /\ IsInjective(Page(p))
        /\ ToSet(Page(p)) \cap Upto(harbor, Done(p)) = {}
        /\ ToSet(Page(p)) \cup Upto(harbor, Done(p)) = Upto(harbor, next)
        /\ Len(Page(p)) < PageSize => Upto(harbor, next) = ToSet(harbor)
    BY <1>0, PageIs
  <2>5. /\ more \in Lists /\ ToSet(more) = ToSet(Page(p)) \cap ProxyCache \cap Safe
        /\ IsInjective(more)
    BY <2>4, NamesAre
  <2>6. /\ Eligible = ToSet(harbor) \cap ProxyCache \cap Safe
        /\ Upto(harbor, next) \subseteq ToSet(harbor)
    <3>1. harbor \in Seq(Names)
      BY <1>0 DEF TypeOK
    <3>2. ToSet(Proper(harbor)) = ToSet(harbor) \cap ProxyCache \cap Safe
      BY <3>1, NamesAre
    <3>3. Upto(harbor, next) \subseteq ToSet(harbor)
      BY DEF Upto, ToSet
    <3> QED BY <3>2, <3>3 DEF Eligible
  <2>7. result'[p] = result[p] \o more /\ result[p] \in Lists
    BY <1>0, <2>1 DEF TypeOK
  <2> HIDE DEF more, next
  <2>8. /\ ToSet(result'[p]) = ToSet(result[p]) \cup ToSet(more)
        /\ IsInjective(result[p]) /\ ToSet(result[p]) \cap ToSet(more) = {} => IsInjective(result'[p])
    BY <2>5, <2>7, JoinedAre DEF Lists
  <2>9. ToSet(result'[p]) \subseteq met[p]
    BY <2>3, <2>4, <2>5, <2>6, <2>8 DEF SoFar
  <2>10. "remove" \notin shifts[p] => kept[p] \cap Upto(harbor, next) \subseteq ToSet(result'[p])
    BY <2>3, <2>4, <2>5, <2>6, <2>8 DEF SoFar
  <2>11. ASSUME "create" \notin shifts[p]
         PROVE  /\ IsInjective(result'[p])
                /\ ToSet(result'[p]) \cap ToSet(harbor) \subseteq Upto(harbor, next)
    <3>1. /\ IsInjective(result[p])
          /\ ToSet(result[p]) \cap ToSet(harbor) \subseteq Upto(harbor, Done(p))
      BY <2>3, <2>11 DEF SoFar
    <3>2. ToSet(result[p]) \cap ToSet(more) = {}
      BY <2>4, <2>5, <2>6, <3>1
    <3> QED BY <2>4, <2>5, <2>8, <3>1, <3>2
  <2>12. CASE Len(Page(p)) < PageSize /\ stage' = [stage EXCEPT ![p] = "persist"]
    <3>1. stage'[p] = "persist"
      BY <1>0, <2>12 DEF TypeOK
    <3>2. Complete(p)'
      BY <2>1, <2>3, <2>4, <2>6, <2>9, <2>10, <2>11, <2>12 DEF SoFar, Complete
    <3>3. Fine(p)'
      BY <3>1, <3>2 DEF Fine
    <3> QED BY <2>2, <3>3
  <2>13. CASE page' = [page EXCEPT ![p] = @ + 1] /\ stage' = stage
    <3>1. page'[p] = page[p] + 1 /\ page[p] \in Nat /\ PageSize \in Nat
      BY <1>0, <2>13, NamesAssumption DEF TypeOK
    <3>2. Done(p)' = next
      BY <3>1 DEF Done, next
    <3>3. SoFar(p)'
      BY <2>1, <2>3, <2>9, <2>10, <2>11, <3>2 DEF SoFar, Eligible
    <3>4. Fine(p)'
      BY <2>1, <2>13, <3>3 DEF Fine
    <3> QED BY <2>2, <3>4
  <2> QED BY <1>7, <2>12, <2>13 DEF ReadPage
<1>8. ASSUME NEW list \in Seq(Names), NEW kind, Becomes(list, kind), NEW q \in Pods,
             stage[q] = "read" =>
               /\ kind = "create" => \A k \in Nat : kept[q] \cap Upto(list, k) \subseteq Upto(harbor, k)
               /\ kind = "remove" =>
                    /\ ToSet(list) \subseteq ToSet(harbor)
                    /\ \A k \in Nat : Upto(harbor, k) \cap ToSet(list) \subseteq Upto(list, k),
             kind \in {"create", "remove"}
      PROVE  Fine(q)'
  <2> DEFINE now == ToSet(Proper(list))
  <2>1. harbor' = list /\ UNCHANGED <<stage, page, result>> /\ Eligible' = now
    BY <1>8 DEF Becomes, reading, Eligible
  <2>2. CASE stage[q] # "read"
    <3>1. kept'[q] = kept[q] /\ met'[q] = met[q] /\ shifts'[q] = shifts[q]
      BY <1>8, <2>2 DEF Becomes
    <3> QED
      BY <1>0, <2>1, <2>2, <3>1 DEF Fine, Complete
  <2>3. CASE stage[q] = "read"
    <3>1. /\ kept'[q] = kept[q] \cap now /\ met'[q] = met[q] \cup now
          /\ shifts'[q] = shifts[q] \cup {kind}
      BY <1>8, <2>3 DEF Becomes
    <3>2. SoFar(q)
      BY <1>0, <2>3 DEF Fine
    <3>3. Done(q)' = Done(q) /\ Done(q) \in Nat
      BY <1>0, <2>1, PageIs DEF Done
    <3> HIDE DEF now
    <3>4. "remove" \notin shifts'[q] => kept'[q] \cap Upto(list, Done(q)) \subseteq ToSet(result[q])
      BY <1>8, <2>3, <3>1, <3>2, <3>3 DEF SoFar
    <3>5. "create" \notin shifts'[q] =>
            /\ IsInjective(result[q])
            /\ ToSet(result[q]) \cap ToSet(list) \subseteq Upto(list, Done(q))
      BY <1>8, <2>3, <3>1, <3>2, <3>3 DEF SoFar
    <3>6. SoFar(q)'
      BY <2>1, <3>1, <3>2, <3>3, <3>4, <3>5 DEF SoFar
    <3> QED BY <2>1, <2>3, <3>6 DEF Fine
  <2> QED BY <2>2, <2>3
<1>9. ASSUME NEW n \in Names, NEW i \in 1 .. Len(harbor) + 1, Create(n, i), NEW q \in Pods PROVE Fine(q)'
  <2> DEFINE list == InsertAt(harbor, i, n)
  <2>1. /\ n \notin ToSet(harbor) /\ Becomes(list, "create")
        /\ list \in Seq(Names) /\ \A k \in Nat : Upto(list, k) \subseteq Upto(harbor, k) \cup {n}
    BY <1>0, <1>9, InsertedIs DEF Create, TypeOK
  <2>2. stage[q] = "read" => n \notin kept[q]
    <3>1. Eligible \subseteq ToSet(harbor)
      BY <1>0, NamesAre DEF Eligible, TypeOK
    <3> QED BY <1>0, <2>1, <3>1 DEF Fine, SoFar
  <2> HIDE DEF list
  <2> QED BY <1>8, <2>1, <2>2
<1>10. ASSUME NEW i \in 1 .. Len(harbor), Delete(i), NEW q \in Pods PROVE Fine(q)'
  <2> DEFINE list == RemoveAt(harbor, i)
  <2>1. /\ Becomes(list, "remove") /\ list \in Seq(Names) /\ ToSet(list) \subseteq ToSet(harbor)
        /\ \A k \in Nat : Upto(harbor, k) \cap ToSet(list) \subseteq Upto(list, k)
    BY <1>0, <1>10, RemovedIs DEF Delete, TypeOK
  <2> HIDE DEF list
  <2> QED BY <1>8, <2>1
<1> QED
  BY <1>1, <1>2, <1>3, <1>5, <1>6, <1>7, <1>9, <1>10 DEF Next, Task, Main

\* The types of the lists, and the rest of the state.
THEOREM TypeCorrect == Spec => []TypeOK
<1>1. TypeOK /\ [Next]_vars => TypeOK'
  BY StepTyped
<1> QED BY InitTyped, <1>1, PTL DEF Spec

\* What a refresh installs lacks a project that was there all the while only if
\* another was removed meanwhile, and has one twice only if one was created,
\* for any number of projects, page size and number of changes.
THEOREM RefreshComplete == Spec => []RefreshIsComplete
<1>1. RefreshInv /\ [Next]_vars => RefreshInv'
  BY StepTyped, StepAges, StepFine DEF RefreshInv
<1>2. RefreshInv => RefreshIsComplete
  BY DEF RefreshInv, Fine, Complete, RefreshIsComplete
<1> QED BY InitFine, <1>1, <1>2, PTL DEF Spec

=============================================================================
