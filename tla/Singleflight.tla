---------------------------- MODULE Singleflight ----------------------------
(***************************************************************************)
(* Resolver::singleflight (src/src/resolver.rs), which lets concurrent     *)
(* manifest requests for one image:reference share one fan-out.  The first *)
(* request to reach the `flights` map becomes the leader and performs the  *)
(* lookup; the others clone the leader's watch channel, subscribe to it    *)
(* and wait for the value, with a timeout of their own.                    *)
(*                                                                         *)
(* Requests run on a multi-threaded runtime, so every synchronous stretch  *)
(* of the function is an action and the stretches of different requests    *)
(* interleave.  A request whose client hangs up is dropped by the HTTP     *)
(* server; a Rust future is only dropped where it is suspended, which here *)
(* is the leader's lookup and the follower's wait.                         *)
(***************************************************************************)
EXTENDS Integers, FiniteSets

CONSTANTS
  Requests,        \* request tasks, each of which calls singleflight once
  Keys,            \* the image:reference pairs requested
  Outcomes,        \* what a lookup can return: a manifest or an error
  Disconnecting,   \* the requests whose client may hang up
  LookupTimeout,   \* upper bound of a lookup (self.timeout)
  FollowerMargin,  \* what a follower waits on top of it (5 seconds)
  NoFlight, NoValue

ASSUME DisconnectingAssumption == Disconnecting \subseteq Requests

ASSUME FiniteAssumption == IsFiniteSet(Requests)

ASSUME TimeoutAssumption ==
  /\ LookupTimeout \in Nat
  /\ FollowerMargin \in Nat \ {0}

ASSUME NoneAssumption ==
  /\ NoFlight \notin Requests
  /\ NoValue \notin Outcomes

VARIABLES
  phase,     \* where each request stands in the function
  key,       \* the key each request asks for
  tx,        \* the request that created the channel this request holds
  channel,   \* the value each leader's watch channel retains
  flights,   \* the DashMap: for each key, the leader of its flight
  age,       \* time since the request suspended on its lookup or its wait
  answer,    \* what the call returned
  inflight   \* the gauge singleflight_inflight

vars == <<phase, key, tx, channel, flights, age, answer, inflight>>

(***************************************************************************)
(* A leader goes through lookup, publish and remove, a follower through    *)
(* joined, subscribed and waiting.  Both end in one of Final.              *)
(***************************************************************************)
Leading   == {"lookup", "publish", "remove"}
Following == {"joined", "subscribed", "waiting"}
Final     == {"returned", "timedout", "cancelled"}

\* Mutant of FollowerTimeout: followers wait no longer than a lookup may take.
ShortTimeout == LookupTimeout

FollowerTimeout == LookupTimeout + FollowerMargin

\* The receivers of l's channel that exist now: those of suspended followers
\* and of followers between subscribe() and their first look at the value.
Receivers(l) == {f \in Requests : tx[f] = l /\ phase[f] \in {"subscribed", "waiting"}}

Init ==
  /\ phase = [r \in Requests |-> "idle"]
  /\ key \in [Requests -> Keys]
  /\ tx = [r \in Requests |-> NoFlight]
  /\ channel = [r \in Requests |-> NoValue]
  /\ flights = [k \in Keys |-> NoFlight]
  /\ age = [r \in Requests |-> 0]
  /\ answer = [r \in Requests |-> NoValue]
  /\ inflight = 0

Goto(r, p) == phase' = [phase EXCEPT ![r] = p]

-----------------------------------------------------------------------------
\* Mutant of Lead: contains_key() and insert() instead of entry().
LeadUnguarded(r) ==
  /\ phase[r] = "idle"
  /\ flights' = [flights EXCEPT ![key[r]] = r]
  /\ tx' = [tx EXCEPT ![r] = r]
  /\ inflight' = inflight + 1
  /\ Goto(r, "lookup")
  /\ UNCHANGED <<key, channel, age, answer>>

(***************************************************************************)
(* flights.entry(key): the shard lock makes looking the key up and         *)
(* inserting a new flight one step.  The leader goes on to its lookup      *)
(* without suspending.                                                     *)
(***************************************************************************)
Lead(r) ==
  /\ phase[r] = "idle"
  /\ flights[key[r]] = NoFlight
  /\ flights' = [flights EXCEPT ![key[r]] = r]
  /\ tx' = [tx EXCEPT ![r] = r]
  /\ inflight' = inflight + 1
  /\ Goto(r, "lookup")
  /\ UNCHANGED <<key, channel, age, answer>>

\* Mutant of Join: flights keyed by the image without its reference.
JoinAnyKey(r) ==
  /\ phase[r] = "idle"
  /\ \E k \in Keys :
       /\ flights[k] # NoFlight
       /\ tx' = [tx EXCEPT ![r] = flights[k]]
  /\ Goto(r, "joined")
  /\ UNCHANGED <<key, channel, flights, age, answer, inflight>>

Join(r) ==
  /\ phase[r] = "idle"
  /\ flights[key[r]] # NoFlight
  /\ tx' = [tx EXCEPT ![r] = flights[key[r]]]
  /\ Goto(r, "joined")
  /\ UNCHANGED <<key, channel, flights, age, answer, inflight>>

\* Mutant of LookupDone: the gauge is not decremented on this path.
LookupDoneUncounted(r, o) ==
  /\ phase[r] = "lookup"
  /\ answer' = [answer EXCEPT ![r] = o]
  /\ Goto(r, "publish")
  /\ UNCHANGED <<key, tx, channel, flights, age, inflight>>

\* The leader's parallel_lookup completes, with a manifest or an error.
LookupDone(r, o) ==
  /\ phase[r] = "lookup"
  /\ answer' = [answer EXCEPT ![r] = o]
  /\ inflight' = inflight - 1
  /\ Goto(r, "publish")
  /\ UNCHANGED <<key, tx, channel, flights, age>>

\* Mutant of Publish: the flight is sent instead of its result.
PublishFlight(r) ==
  /\ phase[r] = "publish"
  /\ channel' = IF Receivers(r) = {} THEN channel ELSE [channel EXCEPT ![r] = r]
  /\ Goto(r, "remove")
  /\ UNCHANGED <<key, tx, flights, age, answer, inflight>>

\* tx.send(): a watch channel without a receiver refuses the value and does
\* not retain it; the code ignores the error.
Publish(r) ==
  /\ phase[r] = "publish"
  /\ channel' = IF Receivers(r) = {} THEN channel
                                     ELSE [channel EXCEPT ![r] = answer[r]]
  /\ Goto(r, "remove")
  /\ UNCHANGED <<key, tx, flights, age, answer, inflight>>

\* flights.remove(&key): by key, whoever holds the entry.
Remove(r) ==
  /\ phase[r] = "remove"
  /\ flights' = [flights EXCEPT ![key[r]] = NoFlight]
  /\ Goto(r, "returned")
  /\ UNCHANGED <<key, tx, channel, age, answer, inflight>>

-----------------------------------------------------------------------------
Subscribe(r) ==
  /\ phase[r] = "joined"
  /\ Goto(r, "subscribed")
  /\ UNCHANGED <<key, tx, channel, flights, age, answer, inflight>>

\* borrow_and_update() marks the value it sees as seen, so the wait that
\* follows ends at the first value sent after this step.
CheckValue(r) ==
  /\ phase[r] = "subscribed"
  /\ IF channel[tx[r]] = NoValue
       THEN Goto(r, "waiting") /\ UNCHANGED answer
       ELSE /\ Goto(r, "returned")
            /\ answer' = [answer EXCEPT ![r] = channel[tx[r]]]
  /\ UNCHANGED <<key, tx, channel, flights, age, inflight>>

\* Mutant of Wake: a queue instead of a watch channel, the first follower
\* takes the value away.
WakeTakes(r) ==
  /\ phase[r] = "waiting"
  /\ channel[tx[r]] # NoValue
  /\ answer' = [answer EXCEPT ![r] = channel[tx[r]]]
  /\ channel' = [channel EXCEPT ![tx[r]] = NoValue]
  /\ Goto(r, "returned")
  /\ UNCHANGED <<key, tx, flights, age, inflight>>

Wake(r) ==
  /\ phase[r] = "waiting"
  /\ channel[tx[r]] # NoValue
  /\ answer' = [answer EXCEPT ![r] = channel[tx[r]]]
  /\ Goto(r, "returned")
  /\ UNCHANGED <<key, tx, channel, flights, age, inflight>>

\* Mutant of TimeOut: followers wait without a timeout.
TimeOutNever(r) == FALSE

\* tokio::time::timeout polls changed() before its timer: a value that is
\* there wins.  The error `leader dropped channel` is not an action: the
\* follower holds a sender of the channel itself, so it never closes.
TimeOut(r) ==
  /\ phase[r] = "waiting"
  /\ channel[tx[r]] = NoValue
  /\ age[r] >= FollowerTimeout
  /\ Goto(r, "timedout")
  /\ UNCHANGED <<key, tx, channel, flights, age, answer, inflight>>

\* The client hangs up and the suspended call is dropped where it stands:
\* no statement after the await runs.
Cancel(r) ==
  /\ r \in Disconnecting
  /\ phase[r] \in {"lookup", "waiting"}
  /\ Goto(r, "cancelled")
  /\ UNCHANGED <<key, tx, channel, flights, age, answer, inflight>>

-----------------------------------------------------------------------------
(***************************************************************************)
(* Time.  A lookup is over after LookupTimeout, because all its probes run *)
(* under that timeout from its start; a leader that has its result is      *)
(* scheduled within the follower's margin; and a follower whose timer has  *)
(* fired runs before time goes on.                                         *)
(***************************************************************************)
Timed == Leading \cup {"waiting"}

MayWait(r) ==
  /\ phase[r] = "lookup" => age[r] < LookupTimeout
  /\ phase[r] \in {"publish", "remove"} => age[r] + 1 < FollowerTimeout
  /\ phase[r] = "waiting" => age[r] < FollowerTimeout

Tick ==
  /\ \E r \in Requests : phase[r] \in Timed
  /\ \A r \in Requests : MayWait(r)
  /\ age' = [r \in Requests |-> IF phase[r] \in Timed THEN age[r] + 1 ELSE age[r]]
  /\ UNCHANGED <<phase, key, tx, channel, flights, answer, inflight>>

-----------------------------------------------------------------------------
Proceed(r) ==
  \/ \E o \in Outcomes : LookupDone(r, o)
  \/ Publish(r) \/ Remove(r)
  \/ Subscribe(r) \/ CheckValue(r) \/ Wake(r) \/ TimeOut(r)

Next ==
  \/ \E r \in Requests : Lead(r) \/ Join(r) \/ Proceed(r) \/ Cancel(r)
  \/ Tick

Spec == Init /\ [][Next]_vars

\* The runtime polls every task that can run, and time passes.  Whether a
\* request arrives at all, or its client hangs up, is up to the environment.
Fairness == WF_vars(Tick) /\ \A r \in Requests : WF_vars(Proceed(r))

FairSpec == Spec /\ Fairness

-----------------------------------------------------------------------------
(***************************************************************************)
(* Properties.                                                             *)
(***************************************************************************)
Values == Outcomes \cup {NoValue}

TypeOK ==
  /\ phase \in [Requests -> {"idle"} \cup Leading \cup Following \cup Final]
  /\ key \in [Requests -> Keys]
  /\ tx \in [Requests -> Requests \cup {NoFlight}]
  /\ channel \in [Requests -> Values]
  /\ flights \in [Keys -> Requests \cup {NoFlight}]
  /\ age \in [Requests -> Nat]
  /\ answer \in [Requests -> Values]
  /\ inflight \in Int

\* However the calls interleave, and whoever is dropped where, two requests
\* never look the same key up at the same time.
OneLookupPerKey ==
  \A r1, r2 \in Requests :
    phase[r1] = "lookup" /\ phase[r2] = "lookup" /\ key[r1] = key[r2] => r1 = r2

\* A follower never returns an answer that is not its leader's, and its
\* leader asked for the same key.
AnswerIsTheLeaders ==
  \A r \in Requests :
    phase[r] = "returned" =>
      /\ answer[r] \in Outcomes
      /\ answer[r] = answer[tx[r]]
      /\ key[r] = key[tx[r]]

\* A leader that has published: what its channel holds now is final.
Published(l) == phase[l] \in {"remove", "returned"}

\* The follower's longer timeout does its job: while its leader still works
\* a follower does not give up on it.  It times out only after a leader that
\* was dropped, or one whose value found no receiver.
TimeoutHasCause ==
  \A r \in Requests :
    phase[r] = "timedout" =>
      \/ phase[tx[r]] = "cancelled"
      \/ Published(tx[r]) /\ channel[tx[r]] = NoValue

\* The followers of one flight share its fate: if one of them gets the
\* leader's result, none of them times out.
AllOrNothing ==
  \A f, g \in Requests :
    tx[f] = tx[g] /\ f # tx[f] /\ g # tx[g]
      => ~(phase[f] = "returned" /\ phase[g] = "timedout")

\* The leaders in their lookup, and those that were dropped there.
Counted == {r \in Requests : tx[r] = r /\ phase[r] \in {"lookup", "cancelled"}}

\* singleflight_inflight, documented as "Currently active singleflight
\* groups" (metrics.rs:47), is the number of running lookups plus one for
\* every leader that was dropped during its lookup, for good.
GaugeAccounts == inflight = Cardinality(Counted)

\* Every call that has started ends, even behind a leader that was dropped:
\* the follower's timeout guarantees it.
EveryCallEnds ==
  \A r \in Requests : phase[r] # "idle" ~> phase[r] \in Final

\* The calls, seen without the map and the channels, follow Coalescing.
call == [r \in Requests |->
           IF phase[r] = "idle" THEN "idle"
           ELSE IF phase[r] \in Leading \cup Following THEN "asking"
           ELSE IF phase[r] = "returned" THEN "answered" ELSE "gone"]
running == [k \in Keys |->
              IF flights[k] # NoFlight /\ phase[flights[k]] = "lookup"
                THEN flights[k] ELSE NoFlight]
outcome == [r \in Requests |-> IF tx[r] = r THEN answer[r] ELSE NoValue]
returned == [r \in Requests |-> IF phase[r] = "returned" THEN answer[r] ELSE NoValue]

Abstract == INSTANCE Coalescing WITH answer <- returned

\* What callers may rely on: one lookup per key, and every answer is the
\* outcome of a lookup for the caller's key.
ImplementsCoalescing == Abstract!Spec

(***************************************************************************)
(* What the comments say and the code does not keep.                       *)
(***************************************************************************)
\* "late subscribers (who subscribe after the leader sends) still see the
\* result via borrow()" (resolver.rs:345-347, and 30-31).
LateSubscriberSeesResult ==
  \A r \in Requests :
    phase[r] = "waiting" /\ Published(tx[r]) => channel[tx[r]] # NoValue

\* "multiple concurrent callers for the same key share one in-flight task"
\* (resolver.rs:26): the flight a request finds in the map has a task.
FlightHasTask ==
  \A k \in Keys : flights[k] # NoFlight => phase[flights[k]] \in Leading

=============================================================================
