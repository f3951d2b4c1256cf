----------------------------- MODULE Coalescing -----------------------------
(***************************************************************************)
(* What Resolver::singleflight (src/src/resolver.rs) offers its callers,   *)
(* with no map, channel, subscription or clock: at most one lookup runs    *)
(* for a key, and every answer a call gets is the outcome of one lookup,   *)
(* for its own key, that was made by a call older than its own end.        *)
(***************************************************************************)
CONSTANTS Requests, Keys, Outcomes, NoFlight, NoValue

VARIABLES
  call,      \* "idle", "asking", "answered" or "gone"
  key,       \* the key each request asks for
  running,   \* for each key, the request that performs its lookup
  outcome,   \* the outcome of the lookup each request has performed
  answer     \* what each call returned

absvars == <<call, key, running, outcome, answer>>

Init ==
  /\ call = [r \in Requests |-> "idle"]
  /\ key \in [Requests -> Keys]
  /\ running = [k \in Keys |-> NoFlight]
  /\ outcome = [r \in Requests |-> NoValue]
  /\ answer = [r \in Requests |-> NoValue]

\* A call that finds no lookup running for its key may perform one.
Ask(r) ==
  /\ call[r] = "idle"
  /\ call' = [call EXCEPT ![r] = "asking"]
  /\ \/ /\ running[key[r]] = NoFlight
        /\ running' = [running EXCEPT ![key[r]] = r]
     \/ UNCHANGED running
  /\ UNCHANGED <<key, outcome, answer>>

Finish(r, o) ==
  /\ running[key[r]] = r
  /\ outcome' = [outcome EXCEPT ![r] = o]
  /\ running' = [running EXCEPT ![key[r]] = NoFlight]
  /\ UNCHANGED <<call, key, answer>>

\* A call answers with the outcome of a lookup for its key.
Answer(r) ==
  /\ call[r] = "asking"
  /\ running[key[r]] # r
  /\ \E l \in Requests :
       /\ key[l] = key[r] /\ outcome[l] # NoValue
       /\ outcome[r] # NoValue => l = r
       /\ answer' = [answer EXCEPT ![r] = outcome[l]]
  /\ call' = [call EXCEPT ![r] = "answered"]
  /\ UNCHANGED <<key, running, outcome>>

\* A call ends without an answer: it timed out, or its client hung up, in
\* which case the lookup it was performing is over too.
GiveUp(r) ==
  /\ call[r] = "asking"
  /\ outcome[r] = NoValue
  /\ call' = [call EXCEPT ![r] = "gone"]
  /\ running' = [running EXCEPT ![key[r]] = IF @ = r THEN NoFlight ELSE @]
  /\ UNCHANGED <<key, outcome, answer>>

Next ==
  \E r \in Requests :
    \/ Ask(r) \/ Answer(r) \/ GiveUp(r)
    \/ \E o \in Outcomes : Finish(r, o)

Spec == Init /\ [][Next]_absvars

=============================================================================
