-------------------------- MODULE SingleflightProofs --------------------------
(***************************************************************************)
(* Proofs that Singleflight keeps its safety properties for any number of  *)
(* requests and keys and any timeouts.                                     *)
(***************************************************************************)
EXTENDS Singleflight, FiniteSetTheorems, TLAPS

(***************************************************************************)
(* The inductive invariant.                                                *)
(***************************************************************************)
\* A request holds the channel of a leader that asked for the same key, and
\* is that leader itself or one of its followers.
Attached ==
  \A r \in Requests :
    /\ phase[r] = "idle" => tx[r] = NoFlight
    /\ phase[r] # "idle" =>
         /\ tx[r] \in Requests
         /\ tx[tx[r]] = tx[r]
         /\ key[tx[r]] = key[r]
    /\ tx[r] = r => phase[r] \in Leading \cup {"returned", "cancelled"}
    /\ tx[r] # r => phase[r] \in {"idle"} \cup Following \cup Final

\* A key is only ever occupied by a flight that is not over.
FlightIsNotOver ==
  \A k \in Keys :
    flights[k] # NoFlight =>
      /\ key[flights[k]] = k
      /\ phase[flights[k]] \in Leading \cup {"cancelled"}

\* The map and the leaders agree: this is what keeps lookups apart.
FlightsOwned ==
  /\ \A r \in Requests : phase[r] \in Leading => flights[key[r]] = r
  /\ FlightIsNotOver
  /\ \A k \in Keys : flights[k] # NoFlight => tx[flights[k]] = flights[k]

\* A channel holds a value only once its leader published its own answer,
\* and a follower returned only with what the channel holds.
ChannelsHold ==
  \A r \in Requests :
    /\ channel[r] # NoValue =>
         tx[r] = r /\ Published(r) /\ channel[r] = answer[r]
    /\ answer[r] # NoValue <=> phase[r] \in {"publish", "remove", "returned"}
    /\ tx[r] # r /\ phase[r] = "returned" =>
         channel[tx[r]] # NoValue /\ answer[r] = channel[tx[r]]

\* A leader is ahead of every follower that waits for it.
Clocks ==
  \A r \in Requests :
    /\ phase[r] \in {"idle", "joined", "subscribed"} => age[r] = 0
    /\ phase[r] = "lookup" => age[r] <= LookupTimeout
    /\ phase[r] \in {"publish", "remove"} => age[r] < FollowerTimeout
    /\ phase[r] = "waiting" /\ phase[tx[r]] \in {"lookup", "publish"} =>
         age[r] <= age[tx[r]]

IndInv ==
  TypeOK /\ Attached /\ FlightsOwned /\ ChannelsHold /\ Clocks /\ TimeoutHasCause

-----------------------------------------------------------------------------
LEMMA InitInv == Init => IndInv
<1>1. ASSUME Init PROVE TypeOK
  BY <1>1 DEF Init, TypeOK, Values
<1>2. ASSUME Init PROVE Attached /\ Clocks
  BY <1>2, NoneAssumption DEF Init, Attached, Clocks, Leading, Following, Final
<1>3. ASSUME Init PROVE FlightsOwned
  BY <1>3 DEF Init, FlightsOwned, FlightIsNotOver, Leading
<1>4. ASSUME Init PROVE ChannelsHold /\ TimeoutHasCause
  BY <1>4, NoneAssumption DEF Init, ChannelsHold, TimeoutHasCause
<1> QED BY <1>1, <1>2, <1>3, <1>4 DEF IndInv

LEMMA LeadKeeps ==
  ASSUME IndInv, NEW r \in Requests, Lead(r)
  PROVE  IndInv'
<1> USE DEF IndInv, TypeOK, Values, Lead, Goto, Leading, Following, Final
<1>1. TypeOK' /\ Attached' /\ FlightsOwned'
  BY NoneAssumption DEF Attached, FlightsOwned, FlightIsNotOver
<1>2. ChannelsHold'
  BY NoneAssumption DEF Attached, ChannelsHold, Published
<1>3. Clocks' /\ TimeoutHasCause'
  BY TimeoutAssumption, NoneAssumption
     DEF Attached, ChannelsHold, Clocks, TimeoutHasCause, Published, FollowerTimeout
<1> QED BY <1>1, <1>2, <1>3

LEMMA JoinKeeps ==
  ASSUME IndInv, NEW r \in Requests, Join(r)
  PROVE  IndInv'
<1> USE DEF IndInv, TypeOK, Values, Join, Goto, Leading, Following, Final
<1>1. TypeOK' /\ Attached' /\ FlightsOwned'
  BY NoneAssumption DEF Attached, FlightsOwned, FlightIsNotOver
<1>2. ChannelsHold'
  BY NoneAssumption DEF Attached, ChannelsHold, Published
<1>3. Clocks' /\ TimeoutHasCause'
  BY TimeoutAssumption, NoneAssumption
     DEF Attached, ChannelsHold, Clocks, TimeoutHasCause, Published, FollowerTimeout
<1> QED BY <1>1, <1>2, <1>3

LEMMA LookupDoneKeeps ==
  ASSUME IndInv, NEW r \in Requests, NEW o \in Outcomes, LookupDone(r, o)
  PROVE  IndInv'
<1> USE DEF IndInv, TypeOK, Values, LookupDone, Goto, Leading, Following, Final
<1>1. TypeOK' /\ Attached' /\ FlightsOwned'
  BY NoneAssumption DEF Attached, FlightsOwned, FlightIsNotOver
<1>2. ChannelsHold'
  BY NoneAssumption DEF Attached, ChannelsHold, Published
<1>3. Clocks' /\ TimeoutHasCause'
  BY TimeoutAssumption, NoneAssumption
     DEF Attached, ChannelsHold, Clocks, TimeoutHasCause, Published, FollowerTimeout
<1> QED BY <1>1, <1>2, <1>3

LEMMA PublishKeeps ==
  ASSUME IndInv, NEW r \in Requests, Publish(r)
  PROVE  IndInv'
<1> USE DEF IndInv, TypeOK, Values, Publish, Goto, Leading, Following, Final
<1>1. TypeOK' /\ Attached' /\ FlightsOwned'
  BY NoneAssumption DEF Attached, FlightsOwned, FlightIsNotOver
<1>2. ChannelsHold'
  BY NoneAssumption DEF Attached, ChannelsHold, Published
<1>3. Clocks' /\ TimeoutHasCause'
  BY TimeoutAssumption, NoneAssumption
     DEF Attached, ChannelsHold, Clocks, TimeoutHasCause, Published, FollowerTimeout
<1> QED BY <1>1, <1>2, <1>3

LEMMA RemoveKeeps ==
  ASSUME IndInv, NEW r \in Requests, Remove(r)
  PROVE  IndInv'
<1> USE DEF IndInv, TypeOK, Values, Remove, Goto, Leading, Following, Final
<1>1. TypeOK' /\ Attached' /\ FlightsOwned'
  BY NoneAssumption DEF Attached, FlightsOwned, FlightIsNotOver
<1>2. ChannelsHold'
  BY NoneAssumption DEF Attached, ChannelsHold, Published
<1>3. Clocks' /\ TimeoutHasCause'
  BY TimeoutAssumption, NoneAssumption
     DEF Attached, ChannelsHold, Clocks, TimeoutHasCause, Published, FollowerTimeout
<1> QED BY <1>1, <1>2, <1>3

LEMMA SubscribeKeeps ==
  ASSUME IndInv, NEW r \in Requests, Subscribe(r)
  PROVE  IndInv'
<1> USE DEF IndInv, TypeOK, Values, Subscribe, Goto, Leading, Following, Final
<1>1. TypeOK' /\ Attached' /\ FlightsOwned'
  BY NoneAssumption DEF Attached, FlightsOwned, FlightIsNotOver
<1>2. ChannelsHold'
  BY NoneAssumption DEF Attached, ChannelsHold, Published
<1>3. Clocks' /\ TimeoutHasCause'
  BY TimeoutAssumption, NoneAssumption
     DEF Attached, ChannelsHold, Clocks, TimeoutHasCause, Published, FollowerTimeout
<1> QED BY <1>1, <1>2, <1>3

LEMMA CheckValueKeeps ==
  ASSUME IndInv, NEW r \in Requests, CheckValue(r)
  PROVE  IndInv'
<1> USE DEF IndInv, TypeOK, Values, CheckValue, Goto, Leading, Following, Final
<1>1. TypeOK' /\ Attached' /\ FlightsOwned'
  BY NoneAssumption DEF Attached, FlightsOwned, FlightIsNotOver
<1>2. ChannelsHold'
  BY NoneAssumption DEF Attached, ChannelsHold, Published
<1>3. Clocks' /\ TimeoutHasCause'
  BY TimeoutAssumption, NoneAssumption
     DEF Attached, ChannelsHold, Clocks, TimeoutHasCause, Published, FollowerTimeout
<1> QED BY <1>1, <1>2, <1>3

LEMMA WakeKeeps ==
  ASSUME IndInv, NEW r \in Requests, Wake(r)
  PROVE  IndInv'
<1> USE DEF IndInv, TypeOK, Values, Wake, Goto, Leading, Following, Final
<1>1. TypeOK' /\ Attached' /\ FlightsOwned'
  BY NoneAssumption DEF Attached, FlightsOwned, FlightIsNotOver
<1>2. ChannelsHold'
  BY NoneAssumption DEF Attached, ChannelsHold, Published
<1>3. Clocks' /\ TimeoutHasCause'
  BY TimeoutAssumption, NoneAssumption
     DEF Attached, ChannelsHold, Clocks, TimeoutHasCause, Published, FollowerTimeout
<1> QED BY <1>1, <1>2, <1>3

LEMMA TimeOutKeeps ==
  ASSUME IndInv, NEW r \in Requests, TimeOut(r)
  PROVE  IndInv'
<1> USE DEF IndInv, TypeOK, Values, TimeOut, Goto, Leading, Following, Final
<1>1. TypeOK' /\ Attached' /\ FlightsOwned'
  BY NoneAssumption DEF Attached, FlightsOwned, FlightIsNotOver
<1>2. ChannelsHold'
  BY NoneAssumption DEF Attached, ChannelsHold, Published
<1>3. Clocks' /\ TimeoutHasCause'
  BY TimeoutAssumption, NoneAssumption
     DEF Attached, ChannelsHold, Clocks, TimeoutHasCause, Published, FollowerTimeout
<1> QED BY <1>1, <1>2, <1>3

LEMMA CancelKeeps ==
  ASSUME IndInv, NEW r \in Requests, Cancel(r)
  PROVE  IndInv'
<1> USE DEF IndInv, TypeOK, Values, Cancel, Goto, Leading, Following, Final
<1>1. TypeOK' /\ Attached' /\ FlightsOwned'
  BY NoneAssumption DEF Attached, FlightsOwned, FlightIsNotOver
<1>2. ChannelsHold'
  BY NoneAssumption DEF Attached, ChannelsHold, Published
<1>3. Clocks' /\ TimeoutHasCause'
  BY TimeoutAssumption, NoneAssumption
     DEF Attached, ChannelsHold, Clocks, TimeoutHasCause, Published, FollowerTimeout
<1> QED BY <1>1, <1>2, <1>3

LEMMA TickKeeps ==
  ASSUME IndInv, Tick
  PROVE  IndInv'
<1> USE DEF IndInv, TypeOK, Values, Tick, Goto, Leading, Following, Final
<1>1. TypeOK' /\ Attached' /\ FlightsOwned'
  BY NoneAssumption DEF Attached, FlightsOwned, FlightIsNotOver
<1>2. ChannelsHold'
  BY NoneAssumption DEF Attached, ChannelsHold, Published
<1>3. Clocks' /\ TimeoutHasCause'
  BY TimeoutAssumption, NoneAssumption
     DEF Attached, ChannelsHold, Clocks, TimeoutHasCause, Published, FollowerTimeout, Timed, MayWait
<1> QED BY <1>1, <1>2, <1>3

LEMMA StutterKeeps ==
  ASSUME IndInv, UNCHANGED vars
  PROVE  IndInv'
<1> USE DEF IndInv, vars
<1>1. TypeOK' /\ Attached' /\ Clocks'
  BY DEF TypeOK, Attached, Clocks
<1>2. FlightsOwned' /\ ChannelsHold' /\ TimeoutHasCause'
  BY DEF FlightsOwned, FlightIsNotOver, ChannelsHold, TimeoutHasCause, Published
<1> QED BY <1>1, <1>2

LEMMA NextKeeps ==
  ASSUME IndInv, [Next]_vars
  PROVE  IndInv'
<1>1. ASSUME NEW r \in Requests, Lead(r) \/ Join(r) \/ Cancel(r)
      PROVE  IndInv'
  BY <1>1, LeadKeeps, JoinKeeps, CancelKeeps
<1>2. ASSUME NEW r \in Requests, Proceed(r)
      PROVE  IndInv'
  BY <1>2, LookupDoneKeeps, PublishKeeps, RemoveKeeps, SubscribeKeeps,
     CheckValueKeeps, WakeKeeps, TimeOutKeeps DEF Proceed
<1> QED BY <1>1, <1>2, TickKeeps, StutterKeeps DEF Next

\* IndInv holds in every reachable state.
THEOREM Inductive == Spec => []IndInv
<1>1. Init => IndInv
  BY InitInv
<1>2. IndInv /\ [Next]_vars => IndInv'
  BY NextKeeps
<1> QED BY <1>1, <1>2, PTL DEF Spec

\* Every variable keeps its type, for every value of the constants.
THEOREM TypeCorrect == Spec => []TypeOK
<1>1. IndInv => TypeOK
  BY DEF IndInv
<1> QED BY <1>1, Inductive, PTL

\* Two requests never look the same key up at the same time: the flight of a
\* key has one owner, and a lookup is always made by it.
THEOREM LookupsExclusive == Spec => []OneLookupPerKey
<1>1. IndInv => OneLookupPerKey
  BY DEF IndInv, FlightsOwned, OneLookupPerKey, Leading
<1> QED BY <1>1, Inductive, PTL

\* Whatever a call returns is what its leader obtained for the same key.
THEOREM AnswersShared == Spec => []AnswerIsTheLeaders
<1>1. IndInv => AnswerIsTheLeaders
  BY DEF IndInv, TypeOK, Values, Attached, ChannelsHold, AnswerIsTheLeaders
<1> QED BY <1>1, Inductive, PTL

\* No follower times out while its leader still works, whatever the timeouts,
\* provided a leader with a result is scheduled within the margin.
THEOREM TimeoutsExplained == Spec => []TimeoutHasCause
<1>1. IndInv => TimeoutHasCause
  BY DEF IndInv
<1> QED BY <1>1, Inductive, PTL

\* The followers of a flight all get its result or all time out.
THEOREM FateShared == Spec => []AllOrNothing
<1>1. IndInv => AllOrNothing
  BY NoneAssumption DEF IndInv, TypeOK, Attached, ChannelsHold, TimeoutHasCause,
     AllOrNothing, Published
<1> QED BY <1>1, Inductive, PTL

-----------------------------------------------------------------------------
(***************************************************************************)
(* The gauge: it moves where a leader enters or leaves its lookup, and     *)
(* nowhere else, so a leader dropped there stays counted.                  *)
(***************************************************************************)
LEMMA CountedUnchanged ==
  ASSUME IndInv, GaugeAccounts, inflight' = inflight, Counted' = Counted
  PROVE  GaugeAccounts'
  BY DEF GaugeAccounts

LEMMA GaugeKeeps ==
  ASSUME IndInv, GaugeAccounts, [Next]_vars
  PROVE  GaugeAccounts'
<1> USE DEF IndInv, TypeOK, Attached
<1>f. IsFiniteSet(Counted)
  BY FiniteAssumption, FS_Subset DEF Counted
<1>1. ASSUME NEW r \in Requests, Lead(r)
      PROVE  GaugeAccounts'
  <2>1. r \notin Counted /\ Counted' = Counted \cup {r}
    BY <1>1 DEF Lead, Goto, Counted
  <2>2. inflight' = inflight + 1
    BY <1>1 DEF Lead
  <2> QED BY <1>f, <2>1, <2>2, FS_AddElement DEF GaugeAccounts
<1>2. ASSUME NEW r \in Requests, NEW o \in Outcomes, LookupDone(r, o)
      PROVE  GaugeAccounts'
  <2>1. r \in Counted /\ Counted' = Counted \ {r}
    BY <1>2 DEF LookupDone, Goto, Counted, Leading, Following, Final
  <2>2. inflight' = inflight - 1
    BY <1>2 DEF LookupDone
  <2> QED BY <1>f, <2>1, <2>2, FS_RemoveElement DEF GaugeAccounts
<1>3. ASSUME NEW r \in Requests,
             Join(r) \/ Publish(r) \/ Remove(r) \/ Subscribe(r) \/ CheckValue(r)
               \/ Wake(r) \/ TimeOut(r) \/ Cancel(r)
      PROVE  GaugeAccounts'
  <2>1. Counted' = Counted
    BY <1>3, NoneAssumption
       DEF FlightsOwned, FlightIsNotOver, Join, Publish, Remove, Subscribe, CheckValue,
           Wake, TimeOut, Cancel, Goto, Counted, Leading, Following, Final
  <2>2. inflight' = inflight
    BY <1>3 DEF Join, Publish, Remove, Subscribe, CheckValue, Wake, TimeOut, Cancel
  <2> QED BY <2>1, <2>2, CountedUnchanged
<1>4. CASE Tick \/ UNCHANGED vars
  <2>1. Counted' = Counted /\ inflight' = inflight
    BY <1>4 DEF Tick, vars, Counted
  <2> QED BY <2>1, CountedUnchanged
<1> QED BY <1>1, <1>2, <1>3, <1>4 DEF Next, Proceed

\* singleflight_inflight is off by one for each leader that was dropped.
THEOREM GaugeLeaks == Spec => []GaugeAccounts
<1>1. Init => GaugeAccounts
  <2>1. ASSUME Init PROVE Counted = {}
    BY <2>1 DEF Init, Counted
  <2> QED BY <2>1, FS_EmptySet DEF Init, GaugeAccounts
<1>2. IndInv /\ GaugeAccounts /\ [Next]_vars => GaugeAccounts'
  BY GaugeKeeps
<1> QED BY <1>1, <1>2, Inductive, PTL DEF Spec

-----------------------------------------------------------------------------
(***************************************************************************)
(* Refinement: the calls follow Coalescing.                                *)
(***************************************************************************)
LEMMA InitRefines == Init => Abstract!Init
  BY NoneAssumption DEF Init, Abstract!Init, call, running, outcome, returned

LEMMA LeadRefines ==
  ASSUME IndInv, NEW r \in Requests, Lead(r)
  PROVE  Abstract!Ask(r)
<1> USE NoneAssumption DEF IndInv, TypeOK, Values, Attached, Lead, Goto, Leading, Following, Final
<1>1. call[r] = "idle" /\ call' = [call EXCEPT ![r] = "asking"]
  BY DEF call
<1>2. running[key[r]] = NoFlight /\ running' = [running EXCEPT ![key[r]] = r]
  BY DEF running, FlightsOwned, FlightIsNotOver
<1>3. UNCHANGED <<key, outcome, returned>>
  BY DEF outcome, returned, ChannelsHold
<1> QED BY <1>1, <1>2, <1>3 DEF Abstract!Ask

LEMMA JoinRefines ==
  ASSUME IndInv, NEW r \in Requests, Join(r)
  PROVE  Abstract!Ask(r)
<1> USE NoneAssumption DEF IndInv, TypeOK, Values, Attached, Join, Goto, Leading, Following, Final
<1>1. call[r] = "idle" /\ call' = [call EXCEPT ![r] = "asking"]
  BY DEF call
<1>2. UNCHANGED running
  BY DEF running, FlightsOwned, FlightIsNotOver
<1>3. UNCHANGED <<key, outcome, returned>>
  BY DEF outcome, returned, FlightsOwned, FlightIsNotOver
<1> QED BY <1>1, <1>2, <1>3 DEF Abstract!Ask

LEMMA LookupDoneRefines ==
  ASSUME IndInv, NEW r \in Requests, NEW o \in Outcomes, LookupDone(r, o)
  PROVE  Abstract!Finish(r, o)
<1> USE NoneAssumption DEF IndInv, TypeOK, Values, Attached, LookupDone, Goto, Leading, Following, Final
<1>1. running[key[r]] = r /\ running' = [running EXCEPT ![key[r]] = NoFlight]
  BY DEF running, FlightsOwned, FlightIsNotOver
<1>2. outcome' = [outcome EXCEPT ![r] = o]
  BY DEF outcome
<1>3. UNCHANGED <<call, key, returned>>
  BY DEF call, returned
<1> QED BY <1>1, <1>2, <1>3 DEF Abstract!Finish

\* A request that comes back with its leader's answer.
LEMMA ReturnRefines ==
  ASSUME IndInv, NEW r \in Requests,
         Remove(r) \/ Wake(r) \/ (CheckValue(r) /\ channel[tx[r]] # NoValue)
  PROVE  Abstract!Answer(r)
<1> USE NoneAssumption DEF IndInv, TypeOK, Values, Attached
<1>1. /\ phase[r] \in Leading \cup Following
      /\ phase[r] # "lookup"
      /\ phase' = [phase EXCEPT ![r] = "returned"]
      /\ UNCHANGED <<key, tx, channel>>
  BY DEF Remove, Wake, CheckValue, Goto, Leading, Following
<1>2. call[r] = "asking" /\ call' = [call EXCEPT ![r] = "answered"]
  BY <1>1 DEF call, Leading, Following, Final
<1>3. running[key[r]] # r /\ UNCHANGED running
  BY DEF running, FlightsOwned, FlightIsNotOver, Remove, Wake, CheckValue, Goto,
         Leading, Following, Final
<1>4. tx[r] \in Requests /\ key[tx[r]] = key[r]
  BY <1>1 DEF Leading, Following
<1>5. CASE Remove(r)
  <2>1. tx[r] = r /\ answer[r] # NoValue /\ answer' = answer
    BY <1>5 DEF Remove, ChannelsHold, Leading, Following, Final
  <2>2. outcome[r] # NoValue /\ outcome' = outcome
        /\ returned' = [returned EXCEPT ![r] = outcome[r]]
    BY <1>1, <2>1 DEF outcome, returned
  <2> QED BY <1>1, <1>2, <1>3, <1>4, <2>1, <2>2 DEF Abstract!Answer
<1>6. CASE Wake(r) \/ (CheckValue(r) /\ channel[tx[r]] # NoValue)
  <2>1. /\ tx[r] # r /\ channel[tx[r]] # NoValue
        /\ answer' = [answer EXCEPT ![r] = channel[tx[r]]]
    BY <1>6 DEF Wake, CheckValue, Leading, Following, Final
  <2>2. outcome[tx[r]] = channel[tx[r]] /\ outcome[r] = NoValue
    BY <1>4, <2>1 DEF outcome, ChannelsHold
  <2>3. outcome' = outcome /\ returned' = [returned EXCEPT ![r] = outcome[tx[r]]]
    BY <1>1, <2>1, <2>2 DEF outcome, returned
  <2> QED BY <1>1, <1>2, <1>3, <1>4, <2>1, <2>2, <2>3 DEF Abstract!Answer
<1> QED BY <1>5, <1>6

LEMMA GiveUpRefines ==
  ASSUME IndInv, NEW r \in Requests, TimeOut(r) \/ Cancel(r)
  PROVE  Abstract!GiveUp(r)
<1> USE NoneAssumption DEF IndInv, TypeOK, Values, Attached, TimeOut, Cancel, Goto,
                           Leading, Following, Final
<1>0. /\ phase[r] \in {"lookup", "waiting"}
      /\ \E p \in {"timedout", "cancelled"} : phase' = [phase EXCEPT ![r] = p]
  OBVIOUS
<1>1. call[r] = "asking" /\ call' = [call EXCEPT ![r] = "gone"]
  <2>1. CASE phase' = [phase EXCEPT ![r] = "timedout"]
    BY <1>0, <2>1 DEF call
  <2>2. CASE phase' = [phase EXCEPT ![r] = "cancelled"]
    BY <1>0, <2>2 DEF call
  <2> QED BY <1>0, <2>1, <2>2
<1>2. running' = [running EXCEPT ![key[r]] = IF @ = r THEN NoFlight ELSE @]
  BY DEF running, FlightsOwned, FlightIsNotOver
<1>3. outcome[r] = NoValue /\ UNCHANGED <<key, outcome, returned>>
  BY DEF outcome, returned, ChannelsHold, FlightsOwned
<1> QED BY <1>1, <1>2, <1>3 DEF Abstract!GiveUp

\* The steps on the channel itself are not visible to the callers.
LEMMA SilentStutters ==
  ASSUME IndInv, NEW r \in Requests,
         Publish(r) \/ Subscribe(r) \/ (CheckValue(r) /\ channel[tx[r]] = NoValue)
  PROVE  UNCHANGED Abstract!absvars
<1> USE NoneAssumption DEF IndInv, TypeOK, Values, Attached, Publish, Subscribe, CheckValue,
                           Goto, Leading, Following, Final
<1>1. UNCHANGED <<call, key, outcome, returned>>
  BY DEF call, outcome, returned
<1>2. UNCHANGED running
  BY DEF running, FlightsOwned, FlightIsNotOver
<1> QED BY <1>1, <1>2 DEF Abstract!absvars

LEMMA StepRefines ==
  ASSUME IndInv, [Next]_vars
  PROVE  [Abstract!Next]_Abstract!absvars
<1>1. ASSUME NEW r \in Requests, Lead(r) \/ Join(r) \/ Cancel(r)
      PROVE  Abstract!Next
  BY <1>1, LeadRefines, JoinRefines, GiveUpRefines DEF Abstract!Next
<1>2. ASSUME NEW r \in Requests, NEW o \in Outcomes, LookupDone(r, o)
      PROVE  Abstract!Next
  BY <1>2, LookupDoneRefines DEF Abstract!Next
<1>3. ASSUME NEW r \in Requests, Remove(r) \/ Wake(r) \/ TimeOut(r)
      PROVE  Abstract!Next
  BY <1>3, ReturnRefines, GiveUpRefines DEF Abstract!Next
<1>4. ASSUME NEW r \in Requests, Publish(r) \/ Subscribe(r)
      PROVE  UNCHANGED Abstract!absvars
  BY <1>4, SilentStutters
<1>5. ASSUME NEW r \in Requests, CheckValue(r)
      PROVE  [Abstract!Next]_Abstract!absvars
  <2>1. CASE channel[tx[r]] = NoValue
    BY <1>5, <2>1, SilentStutters
  <2>2. CASE channel[tx[r]] # NoValue
    BY <1>5, <2>2, ReturnRefines DEF Abstract!Next
  <2> QED BY <2>1, <2>2
<1>6. CASE Tick \/ UNCHANGED vars
  BY <1>6 DEF Tick, vars, Abstract!absvars, call, running, outcome, returned
<1> QED BY <1>1, <1>2, <1>3, <1>4, <1>5, <1>6 DEF Next, Proceed

\* Coalesced calls run at most one lookup per key, and answer only with the
\* outcome of a lookup for their key, whatever the interleaving.
THEOREM Refines == Spec => ImplementsCoalescing
<1>1. Init => Abstract!Init
  BY InitRefines
<1>2. IndInv /\ [Next]_vars => [Abstract!Next]_Abstract!absvars
  BY StepRefines
<1> QED BY <1>1, <1>2, Inductive, PTL DEF Spec, ImplementsCoalescing, Abstract!Spec

=============================================================================
