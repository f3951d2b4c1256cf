----------------------------- MODULE RedisCache -----------------------------
(***************************************************************************)
(* RedisCache (src/src/cache.rs): the cache that several pods share.  Each *)
(* pod keeps one connection to the Redis master and a local copy, the      *)
(* fallback, which takes every write and is read when a command fails: on  *)
(* a broken connection, or with an error reply or a late reply on one that *)
(* is alive.  The first of the operations that fail together asks the      *)
(* sentinels for a new connection; the others go on without.               *)
(*                                                                         *)
(* Lifetimes are abstract: an entry of Redis or of a local copy expires at *)
(* some time, each on its own.  So set and set_with_ttl, which differ in   *)
(* the TTL they give Redis, are the same here.  A connection is the number *)
(* of outages before it was made: it is dead once there is another.        *)
(***************************************************************************)
EXTENDS Integers, FiniteSets

CONSTANTS
  Pods, Keys, Values,
  Tasks,       \* the tasks that use the cache, one operation at a time
  Home,        \* the pod of each task
  Commands,    \* the operations each task performs
  MaxOutages,  \* bound: how often the connections to Redis break
  MaxMishaps,  \* bound: how many requests are dropped, and commands and
               \* reconnections fail although Redis can be reached
  NoEntry, None

Get(k)    == [op |-> "get", key |-> k, value |-> NoEntry]
Set(k, v) == [op |-> "set", key |-> k, value |-> v]
Delete(k) == [op |-> "delete", key |-> k, value |-> NoEntry]
Operations == {Get(k) : k \in Keys} \cup {Delete(k) : k \in Keys}
                \cup {Set(k, v) : k \in Keys, v \in Values}

ASSUME TasksAssumption ==
  /\ Home \in [Tasks -> Pods]
  /\ Commands \in [Tasks -> SUBSET Operations]
ASSUME ValuesAssumption ==
  /\ NoEntry \notin Values /\ None \notin Values \cup {NoEntry}
  /\ None \notin Tasks
ASSUME BoundAssumption == MaxOutages \in Nat /\ MaxMishaps \in Nat

VARIABLES
  redis,       \* the entries of the master
  reachable,   \* whether Redis and its sentinels can be reached
  outages,     \* how often the connections have broken
  connection,  \* the connection each pod keeps
  sentinel,    \* the task that holds the pod's lock on the sentinel client
  fallback,    \* the local copy of each pod
  stage,       \* where each task stands
  call,        \* its operation
  handle,      \* the connection it has cloned
  mishaps,     \* how many requests have been dropped, and how many failures
               \* there were although Redis could be reached
  lingering,   \* the writes their senders have given up and Redis still may apply
  clean,       \* history: nobody has written the key since its write was applied
  settled      \* history: the last write, if nobody else interfered with it

server == <<redis, reachable, outages>>
pod == <<connection, sentinel>>
task == <<stage, call, handle>>
faults == <<mishaps, lingering>>
history == <<clean, settled>>
vars == <<server, pod, fallback, task, faults, history>>

NoCall == [op |-> "none", key |-> None, value |-> NoEntry]

Init ==
  /\ redis = [k \in Keys |-> NoEntry]
  /\ reachable = TRUE
  /\ outages = 0
  /\ connection = [p \in Pods |-> 0]
  /\ sentinel = [p \in Pods |-> None]
  /\ fallback = [p \in Pods |-> [k \in Keys |-> NoEntry]]
  /\ stage = [t \in Tasks |-> "idle"]
  /\ call = [t \in Tasks |-> NoCall]
  /\ handle = [t \in Tasks |-> 0]
  /\ mishaps = 0
  /\ lingering = [c \in Operations |-> 0]
  /\ clean = [t \in Tasks |-> FALSE]
  /\ settled = [p \in Pods |-> [k \in Keys |-> None]]

Writes(t) == call[t].op \in {"set", "delete"}
Alive(c)  == reachable /\ c = outages
Move(t, from, to) == stage[t] = from /\ stage' = [stage EXCEPT ![t] = to]

\* The operation is over, and its local variables with it.
Leave(t) ==
  /\ stage' = [stage EXCEPT ![t] = "idle"]
  /\ call' = [call EXCEPT ![t] = NoCall]
  /\ handle' = [handle EXCEPT ![t] = 0]

-----------------------------------------------------------------------------
(***************************************************************************)
(* An operation: the connection is cloned, the command is sent on it and   *)
(* applied by the server, or fails; a failure may reconnect the pod; then  *)
(* comes the local copy.                                                   *)
(***************************************************************************)
Begin(t) ==
  /\ Move(t, "idle", "sent")
  /\ \E c \in Commands[t] : call' = [call EXCEPT ![t] = c]
  /\ handle' = [handle EXCEPT ![t] = connection[Home[t]]]
  /\ UNCHANGED <<faults, server, pod, fallback, history>>

\* GET, SET EX or DEL at the master.  A write ends what was settled on its key.
Apply(t) ==
  LET k == call[t].key IN
  /\ Alive(handle[t])
  /\ Move(t, "sent", "applied")
  /\ IF Writes(t)
       THEN /\ redis' = [redis EXCEPT ![k] = call[t].value]
            /\ clean' = [u \in Tasks |-> u = t \/ (clean[u] /\ call[u].key # k)]
            /\ settled' = [p \in Pods |-> [settled[p] EXCEPT ![k] = None]]
       ELSE UNCHANGED <<redis, history>>
  /\ UNCHANGED <<faults, reachable, outages, pod, fallback, call, handle>>

Mishap == mishaps < MaxMishaps /\ mishaps' = mishaps + 1

\* A write given up while it was on its way may reach Redis after all.
Linger(t) ==
  \/ UNCHANGED lingering
  \/ /\ stage[t] = "sent" /\ Writes(t) /\ Alive(handle[t])
     /\ lingering' = [lingering EXCEPT ![call[t]] = @ + 1]

\* Any Err of the command: it cannot be sent, or its reply is lost with the
\* connection; or, on a connection that is alive, Redis answers with an error
\* or later than the client waits.
Fail(t) ==
  /\ stage[t] \in {"sent", "applied"}
  /\ \/ ~Alive(handle[t]) /\ UNCHANGED faults
     \/ Alive(handle[t]) /\ Mishap /\ Linger(t)
  /\ stage' = [stage EXCEPT ![t] = "failed"]
  /\ clean' = [clean EXCEPT ![t] = FALSE]
  /\ UNCHANGED <<server, pod, fallback, call, handle, settled>>

\* try_reconnect: the lock is tried, never waited for.
TryLock(t) ==
  LET p == Home[t] IN
  /\ stage[t] = "failed"
  /\ \/ /\ sentinel[p] = None
        /\ sentinel' = [sentinel EXCEPT ![p] = t]
        /\ stage' = [stage EXCEPT ![t] = "reconnecting"]
     \/ /\ sentinel[p] # None
        /\ stage' = [stage EXCEPT ![t] = "local"]
        /\ UNCHANGED sentinel
  /\ UNCHANGED <<faults, server, connection, fallback, call, handle, history>>

\* Mutant of Reconnect: the lock is only released by a success.
ReconnectHoldsLock(t) ==
  LET p == Home[t] IN
  /\ Move(t, "reconnecting", "local")
  /\ connection' = [connection EXCEPT ![p] = IF reachable THEN outages ELSE @]
  /\ sentinel' = [sentinel EXCEPT ![p] = IF reachable THEN None ELSE @]
  /\ UNCHANGED <<faults, server, fallback, call, handle, history>>

\* Mutant of Reconnect: an error is retried.
ReconnectRetries(t) ==
  LET p == Home[t] IN
  /\ reachable
  /\ Move(t, "reconnecting", "local")
  /\ connection' = [connection EXCEPT ![p] = outages]
  /\ sentinel' = [sentinel EXCEPT ![p] = None]
  /\ UNCHANGED <<faults, server, fallback, call, handle, history>>

\* The lock is given back whether or not there is a new connection.
Reconnect(t) ==
  LET p == Home[t] IN
  /\ Move(t, "reconnecting", "local")
  /\ sentinel' = [sentinel EXCEPT ![p] = None]
  /\ \/ reachable /\ connection' = [connection EXCEPT ![p] = outages] /\ UNCHANGED faults
     \/ reachable /\ Mishap /\ UNCHANGED <<lingering, connection>>
     \/ ~reachable /\ UNCHANGED <<faults, connection>>
  /\ UNCHANGED <<server, fallback, call, handle, history>>

\* A get returns what Redis has answered or, if its command failed, the entry
\* of the local copy, and changes neither.
FinishGet(t) ==
  /\ ~Writes(t)
  /\ stage[t] \in {"applied", "local"}
  /\ Leave(t)
  /\ UNCHANGED <<faults, server, pod, fallback, history>>

\* Mutants of FinishWrite: the local copy takes a write only when Redis has
\* not; a deletion leaves a marker in the place of the entry.
FinishWriteOnFailure(t) ==
  LET p == Home[t]  k == call[t].key IN
  /\ Writes(t)
  /\ stage[t] \in {"applied", "local"}
  /\ Leave(t)
  /\ fallback' = IF stage[t] = "local" THEN [fallback EXCEPT ![p][k] = call[t].value] ELSE fallback
  /\ settled' = [settled EXCEPT ![p][k] = IF clean[t] THEN call[t].value ELSE None]
  /\ clean' = [u \in Tasks |-> clean[u] /\ ~(Home[u] = p /\ call[u].key = k)]
  /\ UNCHANGED <<faults, server, pod>>

FinishWriteNone(t) ==
  LET p == Home[t]  k == call[t].key IN
  /\ Writes(t)
  /\ stage[t] \in {"applied", "local"}
  /\ Leave(t)
  /\ fallback' = [fallback EXCEPT ![p][k] = IF call[t].op = "set" THEN @ ELSE None]
  /\ settled' = [settled EXCEPT ![p][k] = IF clean[t] THEN call[t].value ELSE None]
  /\ clean' = [u \in Tasks |-> clean[u] /\ ~(Home[u] = p /\ call[u].key = k)]
  /\ UNCHANGED <<faults, server, pod>>

\* Every write reaches the local copy, whether or not it has reached Redis.
FinishWrite(t) ==
  LET p == Home[t]  k == call[t].key IN
  /\ Writes(t)
  /\ stage[t] \in {"applied", "local"}
  /\ Leave(t)
  /\ fallback' = [fallback EXCEPT ![p][k] = call[t].value]
  /\ settled' = [settled EXCEPT ![p][k] = IF clean[t] THEN call[t].value ELSE None]
  /\ clean' = [u \in Tasks |-> clean[u] /\ ~(Home[u] = p /\ call[u].key = k)]
  /\ UNCHANGED <<faults, server, pod>>

-----------------------------------------------------------------------------
(***************************************************************************)
(* The environment.                                                        *)
(***************************************************************************)
\* The request is dropped where it awaits a reply or a connection.  The lock
\* is a guard and goes with it; a command that has been sent does not.
Drop(t) ==
  LET p == Home[t] IN
  /\ Mishap
  /\ stage[t] \in {"sent", "applied", "reconnecting"}
  /\ Leave(t)
  /\ Linger(t)
  /\ clean' = [clean EXCEPT ![t] = FALSE]
  /\ sentinel' = [sentinel EXCEPT ![p] = IF @ = t THEN None ELSE @]
  /\ UNCHANGED <<server, connection, fallback, settled>>

\* A write that was given up is applied.  It disturbs those of its key.
ApplyLate(c) ==
  /\ lingering[c] > 0
  /\ lingering' = [lingering EXCEPT ![c] = @ - 1]
  /\ redis' = [redis EXCEPT ![c.key] = c.value]
  /\ clean' = [u \in Tasks |-> clean[u] /\ call[u].key # c.key]
  /\ settled' = [p \in Pods |-> [settled[p] EXCEPT ![c.key] = None]]
  /\ UNCHANGED <<mishaps, reachable, outages, pod, fallback, task>>

\* Connections break; the new master, or the old one, is reached later, with
\* the entries or without.
Break ==
  /\ reachable
  /\ outages < MaxOutages
  /\ reachable' = FALSE
  /\ outages' = outages + 1
  /\ UNCHANGED <<faults, redis, pod, fallback, task, history>>

Return ==
  /\ ~reachable
  /\ reachable' = TRUE
  /\ UNCHANGED <<faults, redis, outages, pod, fallback, task, history>>

Expire(k) ==
  /\ redis[k] # NoEntry
  /\ redis' = [redis EXCEPT ![k] = NoEntry]
  /\ UNCHANGED <<faults, reachable, outages, pod, fallback, task, history>>

ExpireLocal(p, k) ==
  /\ fallback[p][k] # NoEntry
  /\ fallback' = [fallback EXCEPT ![p][k] = NoEntry]
  /\ UNCHANGED <<faults, server, pod, task, history>>

-----------------------------------------------------------------------------
Proceed(t) ==
  \/ Apply(t) \/ Fail(t) \/ TryLock(t) \/ Reconnect(t)
  \/ FinishGet(t) \/ FinishWrite(t)

Next ==
  \/ \E t \in Tasks : Begin(t) \/ Proceed(t) \/ Drop(t)
  \/ \E c \in Operations : ApplyLate(c)
  \/ Break \/ Return
  \/ \E k \in Keys : Expire(k)
  \/ \E p \in Pods, k \in Keys : ExpireLocal(p, k)

Spec == Init /\ [][Next]_vars

\* An operation under way is scheduled; a command or a connection attempt
\* that gets no answer fails by the timeouts of the Redis client.
FairSpec == Spec /\ \A t \in Tasks : WF_vars(Proceed(t))

-----------------------------------------------------------------------------
(***************************************************************************)
(* Properties.                                                             *)
(***************************************************************************)
Entries == Values \cup {NoEntry}

TypeOK ==
  /\ redis \in [Keys -> Entries]
  /\ reachable \in BOOLEAN
  /\ outages \in 0 .. MaxOutages
  /\ mishaps \in 0 .. MaxMishaps
  /\ lingering \in [Operations -> Nat]
  /\ connection \in [Pods -> 0 .. outages]
  /\ sentinel \in [Pods -> Tasks \cup {None}]
  /\ fallback \in [Pods -> [Keys -> Entries]]
  /\ stage \in [Tasks -> {"idle", "sent", "applied", "failed", "reconnecting", "local"}]
  /\ call \in [Tasks -> Operations \cup {NoCall}]
  /\ handle \in [Tasks -> 0 .. outages]
  /\ clean \in [Tasks -> BOOLEAN]
  /\ settled \in [Pods -> [Keys -> Entries \cup {None}]]

\* The pod's copy falls behind Redis when a command of its own fails, when
\* writes of one key overlap, when another pod writes the key or when a write
\* given up before is applied late: nothing else.  A write that none of this
\* disturbs leaves both with its value (a deletion, with none), whatever they
\* held before, so a cut-off pod goes on with what it last wrote.
CopiesAgree ==
  \A p \in Pods, k \in Keys :
    settled[p][k] # None =>
      /\ redis[k] \in {NoEntry, settled[p][k]}
      /\ fallback[p][k] \in {NoEntry, settled[p][k]}

\* "Requests are never blocked by a Redis outage" (cache.rs:119-120): every
\* operation ends, even if Redis never comes back.
OperationsEnd == \A t \in Tasks : stage[t] # "idle" ~> stage[t] = "idle"

\* Once Redis stays reachable, a pod whose operations keep failing does not
\* keep failing: no failed, dropped or concurrent attempt to reconnect leaves
\* it with the old connection, or with the lock taken.  That drops and errors
\* are bounded is a premise: requests that are all dropped while they
\* reconnect never do, and a Redis that keeps answering with errors does not
\* count as reachable.
Reconnects ==
  \A p \in Pods :
    <>[]reachable => <>[](\A t \in Tasks : Home[t] = p => stage[t] # "failed")

=============================================================================
