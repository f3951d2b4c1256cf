---------------------------- MODULE ResolverProofs ----------------------------
(***************************************************************************)
(* Proofs that Resolver uses singleflight as its module assumes, and keeps *)
(* its safety properties, for any number of requests, keys and projects,   *)
(* any outages and any changes of what the projects hold.                  *)
(***************************************************************************)
EXTENDS Resolver, TLAPS

\* What is proved of Singleflight, and its inductive invariant.
SFP == INSTANCE SingleflightProofs

(***************************************************************************)
(* The inductive invariant.                                                *)
(***************************************************************************)
\* The phases of a call under way, SF!Leading and SF!Following.
Busy == {"lookup", "publish", "remove", "joined", "subscribed", "waiting"}

\* A handler is inside singleflight exactly at "coalesce", and reads the
\* answer only when it has come back.
InStep ==
  \A r \in Requests :
    /\ phase[r] \in Busy => stage[r] = "coalesce"
    /\ stage[r] \in {"get", "fetch", "evict"} => phase[r] = "idle"
    /\ stage[r] = "fetch" => target[r] \in Mappings
    /\ stage[r] = "fillImage" => answer[r] \in Found

\* A project that holds the image all the while is crossed off by an outage
\* only, so a lookup that has crossed everything off says the truth.
LookupsHonest ==
  \A r \in Requests :
    /\ phase[r] = "lookup" =>
         SteadySince(key[r], since[r]) \ Outages \subseteq left[r]
    /\ answer[r] = NotFound =>
         SteadySince(key[r], since[Source(r)]) \subseteq Outages

\* An answer that names a project, the leader's and its followers' copies of
\* it, was true while the leader was at work.
AnswersHeld ==
  \A r \in Requests :
    answer[r] \in Found => answer[r].project \in HeldSince(key[r], since[Source(r)])

\* The project a refresh is about to write down held the image.
RefreshesHeld ==
  \A r \in Requests :
    refresh[r] \in {"fill", "fillImage"} => fresh[r] \in HeldSince(key[r], 1)

\* What stage "served" remembers of the reply.
ServedHeld ==
  \A r \in Requests :
    stage[r] = "served" =>
      IF tx[r] = NoFlight
        THEN target[r].project \in HeldSince(key[r], since[r])
        ELSE answer[r] \in Found

\* And of the reply `not found`.
NotFoundAnswered ==
  \A r \in Requests : stage[r] = "notfound" /\ tx[r] # NoFlight => answer[r] = NotFound

IndInv ==
  /\ TypeOK /\ history # << >> /\ SFP!IndInv
  /\ InStep /\ LookupsHonest /\ AnswersHeld /\ RefreshesHeld
  /\ ServedHeld /\ NotFoundAnswered /\ EntriesWereTrue

-----------------------------------------------------------------------------
(***************************************************************************)
(* Every step is a step of singleflight or none, which also gives its      *)
(* invariant.                                                              *)
(***************************************************************************)
LEMMA CallsInit == ASSUME SF!Init PROVE SFP!IndInv
<1>1. SFP!Init
  BY DEF SF!Init, SFP!Init
<1> QED BY <1>1, SFP!InitInv, CallsAssumption, NoneAssumption DEF IsFiniteSet, SFP!IsFiniteSet

LEMMA CallsKeep ==
  ASSUME SFP!IndInv, [SF!Next]_flight
  PROVE  SFP!IndInv'
<1>1. [SFP!Next]_SFP!vars
  BY DEF flight, SFP!vars, SF!Next, SFP!Next, SF!Lead, SFP!Lead, SF!Join, SFP!Join,
         SF!Proceed, SFP!Proceed, SF!LookupDone, SFP!LookupDone, SF!Publish, SFP!Publish,
         SF!Remove, SFP!Remove, SF!Subscribe, SFP!Subscribe, SF!CheckValue, SFP!CheckValue,
         SF!Wake, SFP!Wake, SF!TimeOut, SFP!TimeOut, SF!Cancel, SFP!Cancel, SF!Tick, SFP!Tick,
         SF!Goto, SFP!Goto, SF!Receivers, SFP!Receivers, SF!FollowerTimeout,
         SFP!FollowerTimeout, SF!MayWait, SFP!MayWait, SF!Timed, SFP!Timed,
         SF!Leading, SFP!Leading
<1> QED BY <1>1, SFP!NextKeeps, CallsAssumption, NoneAssumption DEF IsFiniteSet, SFP!IsFiniteSet

LEMMA EndingsAreOutcomes ==
  ASSUME TypeOK, NEW r \in Requests
  PROVE  Endings(r) \subseteq Outcomes
  BY DEF TypeOK, Endings, Outcomes, Found

LEMMA StepCalls ==
  ASSUME TypeOK, [Next]_vars
  PROVE  [SF!Next]_flight
<1>1. ASSUME NEW r \in Requests, Get(r) \/ FetchServes(r) \/ FetchFails(r) \/ Evict(r)
      PROVE  UNCHANGED flight
  BY <1>1 DEF Get, FetchServes, FetchFails, Evict
<1>2. ASSUME NEW r \in Requests, GiveUp(r) \/ Fill(r) \/ FillImage(r) \/ Refresh(r)
      PROVE  UNCHANGED flight
  BY <1>2 DEF GiveUp, Fill, FillImage, Refresh, RefreshDone, RefreshFill, RefreshFillImage
<1>3. ASSUME NEW r \in Requests, Lead(r)
      PROVE  SF!Next
  BY <1>3 DEF Lead, SF!Next
<1>4. ASSUME NEW r \in Requests, LookupDone(r)
      PROVE  SF!Next
  BY <1>4, EndingsAreOutcomes DEF LookupDone, SF!Next, SF!Proceed
<1>5. ASSUME NEW r \in Requests, Coalesce(r)
      PROVE  SF!Next
  BY <1>5 DEF Coalesce, SF!Next, SF!Proceed
<1>6. ASSUME NEW r \in Requests, Cancel(r)
      PROVE  [SF!Next]_flight
  BY <1>6 DEF Cancel, SF!Next
<1>7. ASSUME NEW r \in Requests, NEW p \in Projects, CrossOff(r, p)
      PROVE  UNCHANGED flight
  BY <1>7 DEF CrossOff
<1>8. ASSUME NEW k \in Keys,
             GrowStale(k) \/ Expire(k) \/ \E p \in Projects : Change(k, p)
      PROVE  UNCHANGED flight
  BY <1>8 DEF GrowStale, Expire, Change
<1>9. CASE ExpireImage \/ Tick \/ UNCHANGED vars
  BY <1>9 DEF ExpireImage, Tick, SF!Next, vars
<1> QED BY <1>1, <1>2, <1>3, <1>4, <1>5, <1>6, <1>7, <1>8, <1>9
        DEF Next, Handle, Environment


-----------------------------------------------------------------------------
(***************************************************************************)
(* The content of the projects has a history that only grows: what was     *)
(* held stays held at some time, and what was not held all the while never *)
(* will be.  And no request changes its key, or its place in the history   *)
(* once it has called singleflight.                                        *)
(***************************************************************************)
Histories == Seq([Keys -> SUBSET Projects]) \ {<< >>}

Extends == \/ UNCHANGED history
           \/ \E held \in [Keys -> SUBSET Projects] : history' = Append(history, held)

LEMMA StepExtends ==
  ASSUME TypeOK, history # << >>, [Next]_vars
  PROVE  Extends
<1>1. ASSUME NEW k \in Keys, NEW p \in Projects, Change(k, p)
      PROVE  Extends
  <2>1. upstream \in [Keys -> SUBSET Projects]
    BY DEF TypeOK, upstream
  <2>2. [upstream EXCEPT ![k] = IF p \in @ THEN @ \ {p} ELSE @ \cup {p}]
          \in [Keys -> SUBSET Projects]
    BY <2>1
  <2> QED BY <1>1, <2>2 DEF Change, Extends
<1>2. ASSUME NEW r \in Requests, Handle(r) \/ Refresh(r)
      PROVE  UNCHANGED history
  BY <1>2 DEF Handle, Get, FetchServes, FetchFails, Evict, Lead, LookupDone, Coalesce, GiveUp,
              Fill, FillImage, Refresh, RefreshDone, RefreshFill, RefreshFillImage
<1>3. ASSUME NEW r \in Requests, NEW p \in Projects, CrossOff(r, p)
      PROVE  UNCHANGED history
  BY <1>3 DEF CrossOff
<1>4. ASSUME NEW k \in Keys, GrowStale(k) \/ Expire(k)
      PROVE  UNCHANGED history
  BY <1>4 DEF GrowStale, Expire
<1>5. ASSUME NEW r \in Requests, Cancel(r)
      PROVE  UNCHANGED history
  BY <1>5 DEF Cancel
<1>6. CASE ExpireImage \/ Tick \/ UNCHANGED vars
  BY <1>6 DEF ExpireImage, Tick, vars, Extends
<1> QED BY <1>1, <1>2, <1>3, <1>4, <1>5, <1>6 DEF Next, Environment, Extends

\* What an extension of the history leaves as it was.
LEMMA ExtendsKeeps ==
  ASSUME history \in Histories, Extends
  PROVE  /\ Len(history) \in Nat \ {0} /\ Len(history') \in Nat /\ Len(history) <= Len(history')
         /\ history' \in Histories
         /\ \A i \in 1 .. Len(history) : history'[i] = history[i]
  BY DEF Histories, Extends

LEMMA HeldStays ==
  ASSUME history \in Histories, Extends, NEW k, NEW n \in Nat \ {0}
  PROVE  HeldSince(k, n) \subseteq HeldSince(k, n)'
<1> SUFFICES ASSUME NEW i \in n .. Len(history)
             PROVE  i \in n .. Len(history') /\ history'[i][k] = history[i][k]
  BY DEF HeldSince
<1> QED BY ExtendsKeeps

LEMMA SteadyShrinks ==
  ASSUME history \in Histories, Extends, NEW k, NEW n \in Nat \ {0}
  PROVE  SteadySince(k, n)' \subseteq SteadySince(k, n)
<1> SUFFICES ASSUME NEW i \in n .. Len(history)
             PROVE  i \in n .. Len(history') /\ history'[i][k] = history[i][k]
  BY DEF SteadySince
<1> QED BY ExtendsKeeps

\* What a project holds now it holds at some moment since any moment.
LEMMA HeldNow ==
  ASSUME history \in Histories, NEW k, NEW n \in 1 .. Len(history)
  PROVE  /\ upstream[k] \subseteq HeldSince(k, n)
         /\ SteadySince(k, n) \subseteq upstream[k]
         /\ HeldSince(k, n) \subseteq HeldSince(k, 1)
<1>1. Len(history) \in n .. Len(history) /\ n .. Len(history) \subseteq 1 .. Len(history)
  BY DEF Histories
<1> QED BY <1>1 DEF HeldSince, SteadySince, upstream

LEMMA HeldAreProjects ==
  ASSUME history \in Histories, NEW k \in Keys, NEW n \in Nat \ {0}
  PROVE  HeldSince(k, n) \subseteq Projects
  BY DEF HeldSince, Histories

LEMMA KeysStay ==
  ASSUME [SF!Next]_flight
  PROVE  key' = key
  BY DEF SF!Next, SF!Lead, SF!Join, SF!Proceed, SF!LookupDone, SF!Publish, SF!Remove,
         SF!Subscribe, SF!CheckValue, SF!Wake, SF!TimeOut, SF!Cancel, SF!Tick, flight

LEMMA PlacesStay ==
  ASSUME TypeOK, InStep, [Next]_vars, NEW x \in Requests, phase[x] # "idle"
  PROVE  since'[x] = since[x]
<1>1. ASSUME NEW r \in Requests, Get(r)
      PROVE  since'[x] = since[x]
  <2>1. x # r
    BY <1>1 DEF Get, At, InStep
  <2> QED BY <1>1, <2>1 DEF Get, TypeOK
<1>2. ASSUME NEW r \in Requests, FetchServes(r) \/ FetchFails(r) \/ Evict(r) \/ GiveUp(r)
                                   \/ Fill(r) \/ FillImage(r)
      PROVE  since' = since
  BY <1>2 DEF FetchServes, FetchFails, Evict, GiveUp, Fill, FillImage
<1>3. ASSUME NEW r \in Requests, Lead(r) \/ LookupDone(r) \/ Coalesce(r) \/ Refresh(r)
      PROVE  since' = since
  BY <1>3 DEF Lead, LookupDone, Coalesce, Refresh, RefreshDone, RefreshFill, RefreshFillImage,
              handler
<1>4. ASSUME NEW r \in Requests, NEW p \in Projects, CrossOff(r, p)
      PROVE  since' = since
  BY <1>4 DEF CrossOff, handler
<1>5. ASSUME NEW r \in Requests, Cancel(r)
      PROVE  since' = since
  BY <1>5 DEF Cancel
<1>6. ASSUME NEW k \in Keys,
             GrowStale(k) \/ Expire(k) \/ \E p \in Projects : Change(k, p)
      PROVE  since' = since
  BY <1>6 DEF GrowStale, Expire, Change, handler
<1>7. CASE ExpireImage \/ Tick \/ UNCHANGED vars
  BY <1>7 DEF ExpireImage, Tick, vars, handler
<1> QED BY <1>1, <1>2, <1>3, <1>4, <1>5, <1>6, <1>7 DEF Next, Handle, Environment


-----------------------------------------------------------------------------
(***************************************************************************)
(* Types.                                                                  *)
(***************************************************************************)
Calls ==
  /\ SF!TypeOK
  /\ \A r \in Requests :
       /\ tx[r] # NoFlight => phase[r] # "idle" /\ tx[r] \in Requests
                              /\ tx[tx[r]] = tx[r] /\ key[tx[r]] = key[r]
       /\ phase[r] # "idle" => tx[r] # NoFlight
       /\ phase[r] = "lookup" => tx[r] = r
       /\ answer[r] # NoValue <=> phase[r] \in {"publish", "remove", "returned"}
       /\ channel[r] # NoValue => tx[r] = r /\ channel[r] = answer[r]

LEMMA CallsFacts == ASSUME SFP!IndInv PROVE Calls
<1> USE DEF SFP!IndInv, SFP!TypeOK, SFP!Leading, SFP!Following, SFP!Final, SFP!Values
<1>1. SF!TypeOK
  BY DEF SF!TypeOK, SF!Leading, SF!Following, SF!Final, SF!Values
<1>2. ASSUME NEW r \in Requests
      PROVE  /\ tx[r] # NoFlight => phase[r] # "idle" /\ tx[r] \in Requests
                                    /\ tx[tx[r]] = tx[r] /\ key[tx[r]] = key[r]
             /\ phase[r] # "idle" => tx[r] # NoFlight
             /\ phase[r] = "lookup" => tx[r] = r
  BY NoneAssumption DEF SFP!Attached
<1>3. ASSUME NEW r \in Requests
      PROVE  /\ answer[r] # NoValue <=> phase[r] \in {"publish", "remove", "returned"}
             /\ channel[r] # NoValue => tx[r] = r /\ channel[r] = answer[r]
  BY DEF SFP!ChannelsHold
<1> QED BY <1>1, <1>2, <1>3 DEF Calls

LEMMA AnswersTyped ==
  ASSUME SF!TypeOK, NEW r \in Requests
  PROVE  answer[r] = NoValue \/ answer[r] = NotFound \/ answer[r] = Failed \/ answer[r] \in Found
  BY DEF SF!TypeOK, SF!Values, Outcomes

LEMMA ErrorsAreNotFound == NotFound \notin Found /\ Failed \notin Found /\ NotFound # Failed
  BY DEF NotFound, Failed, Found

LEMMA FoundTyped ==
  ASSUME NEW a \in Found
  PROVE  a.project \in Projects /\ Fresh(a.project) \in Mappings
  BY DEF Found, Fresh, Mappings

LEMMA EntriesApart ==
  /\ Negative \notin Mappings /\ NoEntry \notin Mappings
  /\ \A p : Fresh(p).project = p
  /\ \A e \in Mappings : e.project \in Projects /\ e.stale \in BOOLEAN
  BY NoneAssumption DEF Negative, Mappings, Fresh

LEMMA CallTypesKeep ==
  ASSUME IndInv, [Next]_vars
  PROVE  SFP!IndInv' /\ SF!TypeOK' /\ key' = key
<1>1. [SF!Next]_flight
  BY StepCalls DEF IndInv
<1>2. SFP!IndInv'
  BY <1>1, CallsKeep DEF IndInv
<1>3. SF!TypeOK'
  BY <1>2 DEF SFP!IndInv, SFP!TypeOK, SFP!Leading, SFP!Following, SFP!Final, SFP!Values,
              SF!TypeOK, SF!Leading, SF!Following, SF!Final, SF!Values
<1> QED BY <1>1, <1>2, <1>3, KeysStay

HandlerTypes ==
  /\ stage \in [Requests -> Final \cup {"get", "fetch", "evict", "coalesce", "fillImage"}]
  /\ target \in [Requests -> Mappings \cup {NoEntry}]

CacheTypes ==
  /\ cache \in [Keys -> Mappings \cup {NoEntry, Negative}]
  /\ image \in Projects \cup {NoEntry}

FanoutTypes ==
  /\ left \in [Requests -> SUBSET Projects]
  /\ erred \in [Requests -> BOOLEAN]

RefreshTypes ==
  /\ refresh \in [Requests -> {"none", "lookup", "fill", "fillImage", "over"}]
  /\ fresh \in [Requests -> Projects \cup {NoEntry}]

LEMMA HandlerTypesKeep ==
  ASSUME IndInv, [Next]_vars
  PROVE  HandlerTypes'
<1> USE DEF HandlerTypes, Final
<1>0. HandlerTypes /\ key \in [Requests -> Keys] /\ cache \in [Keys -> Mappings \cup {NoEntry, Negative}]
  BY DEF IndInv, TypeOK, SF!TypeOK
<1>1. ASSUME NEW r \in Requests, Get(r)
      PROVE  HandlerTypes'
  BY <1>0, <1>1 DEF Get
<1>2. ASSUME NEW r \in Requests, FetchServes(r) \/ FetchFails(r) \/ Evict(r) \/ GiveUp(r) \/ FillImage(r)
      PROVE  HandlerTypes'
  BY <1>0, <1>2 DEF FetchServes, FetchFails, Evict, GiveUp, FillImage, Move
<1>3. ASSUME NEW r \in Requests, Fill(r)
      PROVE  HandlerTypes'
  BY <1>0, <1>3 DEF Fill, Move
<1>4. ASSUME NEW r \in Requests, Cancel(r)
      PROVE  HandlerTypes'
  BY <1>0, <1>4 DEF Cancel
<1>5. ASSUME NEW r \in Requests, Lead(r) \/ LookupDone(r) \/ Coalesce(r) \/ Refresh(r)
      PROVE  UNCHANGED handler
  BY <1>5 DEF Lead, LookupDone, Coalesce, Refresh, RefreshDone, RefreshFill, RefreshFillImage
<1>6. ASSUME NEW r \in Requests, NEW p \in Projects, CrossOff(r, p)
      PROVE  UNCHANGED handler
  BY <1>6 DEF CrossOff
<1>7. ASSUME NEW k \in Keys,
             GrowStale(k) \/ Expire(k) \/ \E p \in Projects : Change(k, p)
      PROVE  UNCHANGED handler
  BY <1>7 DEF GrowStale, Expire, Change
<1>8. CASE ExpireImage \/ Tick \/ UNCHANGED vars
  BY <1>0, <1>8 DEF ExpireImage, Tick, vars, handler
<1>9. UNCHANGED handler => HandlerTypes'
  BY <1>0 DEF handler
<1> QED BY <1>1, <1>2, <1>3, <1>4, <1>5, <1>6, <1>7, <1>8, <1>9 DEF Next, Handle, Environment

\* Everything that writes to the cache writes an entry.
LEMMA CacheTypesKeep ==
  ASSUME IndInv, [Next]_vars
  PROVE  CacheTypes'
<1> USE DEF CacheTypes
<1>0. /\ CacheTypes /\ key \in [Requests -> Keys] /\ SF!TypeOK
      /\ fresh \in [Requests -> Projects \cup {NoEntry}]
  BY DEF IndInv, TypeOK, SF!TypeOK
<1>1. ASSUME NEW r \in Requests, Evict(r)
      PROVE  CacheTypes'
  BY <1>0, <1>1 DEF Evict
<1>2. ASSUME NEW r \in Requests, Fill(r)
      PROVE  CacheTypes'
  <2>1. answer[r] = NotFound \/ answer[r] \in Found
    <3>1. answer[r] # NoValue
      BY <1>2, CallsFacts DEF Fill, IndInv, Calls
    <3> QED BY <1>0, <1>2, <3>1, AnswersTyped DEF Fill
  <2> DEFINE e == IF answer[r] = NotFound THEN Negative ELSE Fresh(answer[r].project)
  <2>2. e \in Mappings \cup {Negative}
    BY <2>1, FoundTyped
  <2>3. cache' = [cache EXCEPT ![key[r]] = e] /\ UNCHANGED image
    BY <1>2 DEF Fill
  <2> HIDE DEF e
  <2> QED BY <1>0, <2>2, <2>3
<1>3. ASSUME NEW r \in Requests, FillImage(r)
      PROVE  CacheTypes'
  <2>1. answer[r].project \in Projects
    BY <1>3, FoundTyped DEF FillImage, Move, At, IndInv, InStep
  <2> QED BY <1>0, <1>3, <2>1 DEF FillImage
<1>4. ASSUME NEW r \in Requests, RefreshFill(r) \/ RefreshFillImage(r)
      PROVE  CacheTypes'
  <2>1. fresh[r] \in Projects
    <3>1. fresh[r] \in HeldSince(key[r], 1)
      BY <1>4 DEF RefreshFill, RefreshFillImage, IndInv, RefreshesHeld
    <3> QED BY <1>0, <3>1, HeldAreProjects DEF IndInv, TypeOK, Histories
  <2>2. Fresh(fresh[r]) \in Mappings
    BY <2>1 DEF Fresh, Mappings
  <2>3. CASE RefreshFill(r)
    BY <1>0, <2>2, <2>3 DEF RefreshFill
  <2>4. CASE RefreshFillImage(r)
    BY <1>0, <2>1, <2>4 DEF RefreshFillImage
  <2> QED BY <1>4, <2>3, <2>4
<1>5. ASSUME NEW k \in Keys, GrowStale(k)
      PROVE  CacheTypes'
  <2>1. [cache[k] EXCEPT !.stale = TRUE] \in Mappings
    BY <1>5 DEF GrowStale, Mappings
  <2>2. cache' = [cache EXCEPT ![k] = [cache[k] EXCEPT !.stale = TRUE]] /\ UNCHANGED image
    BY <1>5 DEF GrowStale
  <2> QED BY <1>0, <2>1, <2>2
<1>6. ASSUME NEW k \in Keys, Expire(k)
      PROVE  CacheTypes'
  BY <1>0, <1>6 DEF Expire
<1>7. CASE ExpireImage
  BY <1>0, <1>7 DEF ExpireImage
<1>8. ASSUME NEW r \in Requests, Get(r) \/ FetchServes(r) \/ FetchFails(r) \/ GiveUp(r)
                                   \/ Lead(r) \/ LookupDone(r) \/ Coalesce(r) \/ RefreshDone(r)
      PROVE  UNCHANGED caches
  BY <1>8 DEF Get, FetchServes, FetchFails, GiveUp, Lead, LookupDone, Coalesce, RefreshDone
<1>9. ASSUME NEW r \in Requests, NEW p \in Projects, CrossOff(r, p)
      PROVE  UNCHANGED caches
  BY <1>9 DEF CrossOff
<1>10. ASSUME NEW k \in Keys, NEW p \in Projects, Change(k, p)
      PROVE  UNCHANGED caches
  BY <1>10 DEF Change
<1>11. ASSUME NEW r \in Requests, Cancel(r)
      PROVE  UNCHANGED caches
  BY <1>11 DEF Cancel
<1>12. CASE Tick \/ UNCHANGED vars
  BY <1>0, <1>12 DEF Tick, vars, caches
<1>13. UNCHANGED caches => CacheTypes'
  BY <1>0 DEF caches
<1> QED BY <1>1, <1>2, <1>3, <1>4, <1>5, <1>6, <1>7, <1>8, <1>9, <1>10, <1>11, <1>12, <1>13
        DEF Next, Handle, Refresh, Environment

LEMMA FanoutTypesKeep ==
  ASSUME IndInv, [Next]_vars
  PROVE  FanoutTypes'
<1> USE DEF FanoutTypes
<1>0. FanoutTypes
  BY DEF IndInv, TypeOK
<1>1. ASSUME NEW r \in Requests, Lead(r)
      PROVE  FanoutTypes'
  BY <1>0, <1>1 DEF Lead
<1>2. ASSUME NEW r \in Requests, LookupDone(r)
      PROVE  FanoutTypes'
  BY <1>0, <1>2 DEF LookupDone
<1>3. ASSUME NEW r \in Requests, NEW p \in Projects, CrossOff(r, p)
      PROVE  FanoutTypes'
  <2>1. left' = [left EXCEPT ![r] = @ \ {p}]
    BY <1>3 DEF CrossOff
  <2>2. erred' = erred \/ \E e \in BOOLEAN : erred' = [erred EXCEPT ![r] = @ \/ e]
    BY <1>3 DEF CrossOff
  <2>3. left' \in [Requests -> SUBSET Projects]
    BY <1>0, <2>1
  <2>4. ASSUME NEW e \in BOOLEAN, erred' = [erred EXCEPT ![r] = @ \/ e]
        PROVE  erred' \in [Requests -> BOOLEAN]
    <3>1. (erred[r] \/ e) \in BOOLEAN
      OBVIOUS
    <3> DEFINE b == erred[r] \/ e
    <3>2. b \in BOOLEAN /\ erred' = [erred EXCEPT ![r] = b]
      BY <2>4, <3>1
    <3> HIDE DEF b
    <3> QED BY <1>0, <3>2
  <2> QED BY <1>0, <2>2, <2>3, <2>4
<1>4. ASSUME NEW r \in Requests, Get(r) \/ FetchServes(r) \/ FetchFails(r) \/ Evict(r) \/ GiveUp(r)
                                   \/ Fill(r) \/ FillImage(r) \/ Coalesce(r) \/ Refresh(r)
      PROVE  UNCHANGED fanouts
  BY <1>4 DEF Get, FetchServes, FetchFails, Evict, GiveUp, Fill, FillImage, Coalesce, Refresh,
              RefreshDone, RefreshFill, RefreshFillImage
<1>5. ASSUME NEW r \in Requests, Cancel(r)
      PROVE  UNCHANGED fanouts
  BY <1>5 DEF Cancel
<1>6. ASSUME NEW k \in Keys,
             GrowStale(k) \/ Expire(k) \/ \E p \in Projects : Change(k, p)
      PROVE  UNCHANGED fanouts
  BY <1>6 DEF GrowStale, Expire, Change
<1>7. CASE ExpireImage \/ Tick \/ UNCHANGED vars
  BY <1>0, <1>7 DEF ExpireImage, Tick, vars, fanouts
<1>8. UNCHANGED fanouts => FanoutTypes'
  BY <1>0 DEF fanouts
<1> QED BY <1>1, <1>2, <1>3, <1>4, <1>5, <1>6, <1>7, <1>8 DEF Next, Handle, Environment

LEMMA RefreshTypesKeep ==
  ASSUME IndInv, [Next]_vars
  PROVE  RefreshTypes'
<1> USE DEF RefreshTypes
<1>0. RefreshTypes /\ history \in Histories /\ key \in [Requests -> Keys]
  BY DEF IndInv, TypeOK, SF!TypeOK, Histories
<1>1. ASSUME NEW r \in Requests, RefreshDone(r)
      PROVE  RefreshTypes'
  <2>1. upstream[key[r]] \subseteq Projects
    BY <1>0 DEF upstream, Histories
  <2> QED BY <1>0, <1>1, <2>1 DEF RefreshDone
<1>2. ASSUME NEW r \in Requests, RefreshFill(r) \/ RefreshFillImage(r)
      PROVE  RefreshTypes'
  BY <1>0, <1>2 DEF RefreshFill, RefreshFillImage
<1>3. ASSUME NEW r \in Requests, FetchServes(r)
      PROVE  RefreshTypes'
  <2>1. UNCHANGED fresh
    BY <1>3 DEF FetchServes
  <2>2. refresh' = [refresh EXCEPT ![r] = "lookup"] \/ refresh' = refresh
    BY <1>3 DEF FetchServes
  <2> QED BY <1>0, <2>1, <2>2
<1>4. ASSUME NEW r \in Requests, Get(r) \/ FetchFails(r) \/ Evict(r) \/ Lead(r) \/ LookupDone(r)
                                   \/ Coalesce(r) \/ GiveUp(r) \/ Fill(r) \/ FillImage(r)
      PROVE  UNCHANGED background
  BY <1>4 DEF Get, FetchFails, Evict, Lead, LookupDone, Coalesce, GiveUp, Fill, FillImage
<1>5. ASSUME NEW r \in Requests, NEW p \in Projects, CrossOff(r, p)
      PROVE  UNCHANGED background
  BY <1>5 DEF CrossOff
<1>6. ASSUME NEW r \in Requests, Cancel(r)
      PROVE  UNCHANGED background
  BY <1>6 DEF Cancel
<1>7. ASSUME NEW k \in Keys,
             GrowStale(k) \/ Expire(k) \/ \E p \in Projects : Change(k, p)
      PROVE  UNCHANGED background
  BY <1>7 DEF GrowStale, Expire, Change
<1>8. CASE ExpireImage \/ Tick \/ UNCHANGED vars
  BY <1>0, <1>8 DEF ExpireImage, Tick, vars, background
<1>9. UNCHANGED background => RefreshTypes'
  BY <1>0 DEF background
<1> QED BY <1>1, <1>2, <1>3, <1>4, <1>5, <1>6, <1>7, <1>8, <1>9 DEF Next, Handle, Refresh, Environment

LEMMA HistoryBounded ==
  ASSUME IndInv, [Next]_vars
  PROVE  /\ Extends /\ history' \in Histories
         /\ Len(history') <= MaxChanges + 1
         /\ since' \in [Requests -> 1 .. Len(history')]
<1>0. /\ history \in Histories /\ history # << >> /\ Len(history) <= MaxChanges + 1
      /\ since \in [Requests -> 1 .. Len(history)]
  BY DEF IndInv, TypeOK, Histories
<1>1. Extends
  BY StepExtends DEF IndInv
<1>2. /\ history' \in Histories /\ Len(history) \in Nat \ {0} /\ Len(history') \in Nat
      /\ Len(history) <= Len(history')
  BY <1>0, <1>1, ExtendsKeeps
<1>3. Len(history') <= MaxChanges + 1
  <2>1. ASSUME NEW k \in Keys, NEW p \in Projects, Change(k, p)
        PROVE  Len(history') <= MaxChanges + 1
    <3>1. \E e : history' = Append(history, e)
      BY <2>1 DEF Change
    <3>2. Len(history') = Len(history) + 1
      BY <1>0, <3>1 DEF Histories
    <3> QED BY <1>2, <2>1, <3>2, OptionsAssumption DEF Change
  <2>2. UNCHANGED history \/ \E k \in Keys, p \in Projects : Change(k, p)
    BY DEF Next, Environment, Handle, Get, FetchServes, FetchFails, Evict, Lead, LookupDone,
           Coalesce, GiveUp, Fill, FillImage, Refresh, RefreshDone, RefreshFill,
           RefreshFillImage, CrossOff, Cancel, GrowStale, Expire, ExpireImage, Tick, vars
  <2> QED BY <1>0, <2>1, <2>2
<1>4. since' \in [Requests -> 1 .. Len(history')]
  <2>1. since' = since \/ \E r \in Requests : since' = [since EXCEPT ![r] = Len(history)]
    BY DEF Next, Environment, Handle, Get, FetchServes, FetchFails, Evict, Lead, LookupDone,
           Coalesce, GiveUp, Fill, FillImage, Refresh, RefreshDone, RefreshFill,
           RefreshFillImage, CrossOff, Cancel, GrowStale, Expire, Change, ExpireImage, Tick,
           vars, handler
  <2>2. 1 .. Len(history) \subseteq 1 .. Len(history') /\ Len(history) \in 1 .. Len(history')
    BY <1>2
  <2> QED BY <1>0, <2>1, <2>2
<1> QED BY <1>1, <1>2, <1>3, <1>4

LEMMA TypesKeep ==
  ASSUME IndInv, [Next]_vars
  PROVE  TypeOK' /\ history' # << >>
<1>1. history' \in Seq([Keys -> SUBSET Projects]) /\ history' # << >>
      /\ Len(history') <= MaxChanges + 1 /\ since' \in [Requests -> 1 .. Len(history')]
  BY HistoryBounded DEF Histories
<1> QED BY <1>1, CallTypesKeep, HandlerTypesKeep, CacheTypesKeep, FanoutTypesKeep, RefreshTypesKeep
        DEF TypeOK, HandlerTypes, CacheTypes, FanoutTypes, RefreshTypes

-----------------------------------------------------------------------------
(***************************************************************************)
(* Steps inside singleflight, seen from the handler: one request moves,    *)
(* and only its own phase, channel and answer change.                      *)
(***************************************************************************)
CallStep(r) == Lead(r) \/ LookupDone(r) \/ Coalesce(r)

LEMMA CallStepLocal ==
  ASSUME IndInv, NEW r \in Requests, CallStep(r)
  PROVE  /\ stage[r] = "coalesce"
         /\ UNCHANGED <<handler, caches, background, history>>
         /\ \A x \in Requests \ {r} : UNCHANGED <<phase[x], tx[x], answer[x], left[x]>>
<1>0. /\ SF!TypeOK /\ left \in [Requests -> SUBSET Projects]
  BY DEF IndInv, TypeOK
<1>1. CASE Lead(r)
  BY <1>0, <1>1 DEF Lead, At, SF!Lead, SF!Goto, SF!TypeOK
<1>2. CASE LookupDone(r)
  BY <1>0, <1>2 DEF LookupDone, SF!LookupDone, SF!Goto, SF!TypeOK, IndInv, InStep, Busy
<1>3. CASE Coalesce(r)
  <2>1. UNCHANGED <<handler, caches, background, history>> /\ left' = left /\ stage[r] = "coalesce"
    BY <1>3 DEF Coalesce, At, fanouts
  <2>2. \A x \in Requests \ {r} : UNCHANGED <<phase[x], tx[x], answer[x]>>
    BY <1>0, <1>3 DEF Coalesce, SF!Join, SF!Publish, SF!Remove, SF!Subscribe, SF!CheckValue,
                      SF!Wake, SF!TimeOut, SF!Goto, SF!TypeOK
  <2> QED BY <2>1, <2>2
<1> QED BY <1>1, <1>2, <1>3 DEF CallStep

\* A client that hangs up changes the phase of its own request only.
LEMMA CancelLocal ==
  ASSUME IndInv, NEW r \in Requests, Cancel(r)
  PROVE  /\ UNCHANGED <<tx, answer, target, since, caches, fanouts, background, history>>
         /\ stage' = [stage EXCEPT ![r] = "gone"]
         /\ phase'[r] \notin Busy
         /\ \A x \in Requests \ {r} : phase'[x] = phase[x]
<1>0. SF!TypeOK
  BY DEF IndInv, TypeOK
<1>1. /\ UNCHANGED <<target, since, caches, fanouts, background, history>>
      /\ stage' = [stage EXCEPT ![r] = "gone"]
  BY DEF Cancel
<1>2. CASE stage[r] \in {"get", "fetch", "evict", "fillImage"} /\ UNCHANGED flight
  <2>1. phase[r] \notin Busy
    BY <1>2 DEF IndInv, InStep, Busy
  <2> QED BY <1>1, <1>2, <2>1 DEF flight
<1>3. CASE phase[r] = "returned" /\ UNCHANGED flight
  BY <1>1, <1>3 DEF flight, Busy
<1>4. CASE SF!Cancel(r)
  BY <1>0, <1>1, <1>4 DEF SF!Cancel, SF!Goto, SF!TypeOK, Busy
<1> QED BY <1>2, <1>3, <1>4 DEF Cancel

LEMMA InStepKeeps ==
  ASSUME IndInv, [Next]_vars
  PROVE  InStep'
<1>0. /\ HandlerTypes /\ InStep /\ key \in [Requests -> Keys]
      /\ cache \in [Keys -> Mappings \cup {NoEntry, Negative}]
  BY DEF IndInv, TypeOK, SF!TypeOK, HandlerTypes
<1>1. ASSUME NEW r \in Requests, CallStep(r)
      PROVE  InStep'
  <2>1. /\ stage[r] = "coalesce" /\ stage' = stage /\ target' = target
        /\ \A x \in Requests \ {r} : UNCHANGED <<phase[x], tx[x], answer[x], left[x]>>
    BY <1>1, CallStepLocal DEF handler
  <2> QED BY <1>0, <2>1 DEF InStep
<1>2. ASSUME NEW r \in Requests, Get(r)
      PROVE  InStep'
  <2>1. UNCHANGED <<phase, answer>> /\ phase[r] = "idle"
    BY <1>0, <1>2 DEF Get, At, flight, InStep
  <2>2. stage' = [stage EXCEPT ![r] = stage'[r]] /\ target' = [target EXCEPT ![r] = target'[r]]
        /\ stage'[r] \in {"coalesce", "notfound", "fetch"}
    BY <1>0, <1>2 DEF Get, HandlerTypes
  <2>3. stage'[r] = "fetch" => target'[r] \in Mappings
    BY <1>0, <1>2 DEF Get, HandlerTypes
  <2> QED BY <1>0, <2>1, <2>2, <2>3 DEF InStep, Busy, HandlerTypes
<1>3. ASSUME NEW r \in Requests, FetchServes(r) \/ FetchFails(r) \/ Evict(r) \/ GiveUp(r) \/ FillImage(r)
      PROVE  InStep'
  <2>1. UNCHANGED <<phase, answer, target>>
    BY <1>3 DEF FetchServes, FetchFails, Evict, GiveUp, FillImage, flight
  <2>2. \/ stage[r] = "fetch" /\ stage' = [stage EXCEPT ![r] = "served"]
        \/ stage[r] = "fetch" /\ stage' = [stage EXCEPT ![r] = "evict"]
        \/ stage[r] = "evict" /\ stage' = [stage EXCEPT ![r] = "coalesce"]
        \/ phase[r] \in {"timedout", "returned"} /\ stage' = [stage EXCEPT ![r] = "failed"]
        \/ stage[r] = "fillImage" /\ stage' = [stage EXCEPT ![r] = "served"]
    BY <1>3 DEF FetchServes, FetchFails, Evict, GiveUp, FillImage, Move, At
  <2> QED BY <1>0, <2>1, <2>2 DEF InStep, Busy, HandlerTypes
<1>4. ASSUME NEW r \in Requests, Fill(r)
      PROVE  InStep'
  <2>1. UNCHANGED <<phase, answer, target>> /\ phase[r] = "returned"
    BY <1>4 DEF Fill, flight
  <2>2. answer[r] = NotFound \/ answer[r] \in Found
    <3>1. answer[r] # NoValue
      BY <1>4, CallsFacts DEF Fill, IndInv, Calls
    <3> QED BY <1>4, <3>1, AnswersTyped DEF Fill, IndInv, TypeOK
  <2>3. stage' = [stage EXCEPT ![r] = IF answer[r] = NotFound THEN "notfound" ELSE "fillImage"]
    BY <1>4 DEF Fill, Move
  <2> QED BY <1>0, <2>1, <2>2, <2>3 DEF InStep, Busy, HandlerTypes
<1>5. ASSUME NEW r \in Requests, Cancel(r)
      PROVE  InStep'
  <2>1. /\ UNCHANGED <<answer, target>> /\ stage' = [stage EXCEPT ![r] = "gone"]
        /\ phase'[r] \notin Busy /\ \A x \in Requests \ {r} : phase'[x] = phase[x]
    BY <1>5, CancelLocal
  <2> QED BY <1>0, <2>1 DEF InStep, HandlerTypes
<1>6. ASSUME NEW r \in Requests, NEW p \in Projects, CrossOff(r, p)
      PROVE  UNCHANGED <<phase, answer, stage, target>>
  BY <1>6 DEF CrossOff, flight, handler
<1>7. ASSUME NEW k \in Keys,
             GrowStale(k) \/ Expire(k) \/ \E p \in Projects : Change(k, p)
      PROVE  UNCHANGED <<phase, answer, stage, target>>
  BY <1>7 DEF GrowStale, Expire, Change, flight, handler
<1>8. CASE ExpireImage \/ Tick \/ UNCHANGED vars
  <2>1. UNCHANGED <<phase, answer, stage, target>>
    BY <1>8 DEF ExpireImage, Tick, SF!Tick, vars, flight, handler
  <2> QED BY <1>0, <2>1 DEF InStep
<1>9. UNCHANGED <<phase, answer, stage, target>> => InStep'
  BY <1>0 DEF InStep
<1>10. ASSUME NEW r \in Requests, Refresh(r)
      PROVE  UNCHANGED <<phase, answer, stage, target>>
  BY <1>10 DEF Refresh, RefreshDone, RefreshFill, RefreshFillImage, flight, handler
<1> QED BY <1>1, <1>2, <1>3, <1>4, <1>5, <1>6, <1>7, <1>8, <1>9, <1>10
        DEF Next, Handle, Environment, CallStep

-----------------------------------------------------------------------------
(***************************************************************************)
(* The lookups and the answers.                                            *)
(***************************************************************************)
\* Every step but those of singleflight leaves answers and channels alone.
LEMMA OutsideCalls ==
  ASSUME IndInv, [Next]_vars, ~(\E r \in Requests : CallStep(r))
  PROVE  UNCHANGED <<tx, answer>>
<1>1. ASSUME NEW r \in Requests, Cancel(r)
      PROVE  UNCHANGED <<tx, answer>>
  BY <1>1, CancelLocal
<1>2. ASSUME NEW r \in Requests, Handle(r) \/ Refresh(r)
      PROVE  UNCHANGED <<tx, answer>>
  BY <1>2 DEF Handle, CallStep, Get, FetchServes, FetchFails, Evict, GiveUp, Fill, FillImage,
              Refresh, RefreshDone, RefreshFill, RefreshFillImage, flight
<1>3. ASSUME NEW r \in Requests, NEW p \in Projects, CrossOff(r, p)
      PROVE  UNCHANGED <<tx, answer>>
  BY <1>3 DEF CrossOff, flight
<1>4. ASSUME NEW k \in Keys,
             GrowStale(k) \/ Expire(k) \/ \E p \in Projects : Change(k, p)
      PROVE  UNCHANGED <<tx, answer>>
  BY <1>4 DEF GrowStale, Expire, Change, flight
<1>5. CASE ExpireImage \/ Tick \/ UNCHANGED vars
  BY <1>5 DEF ExpireImage, Tick, SF!Tick, vars, flight
<1> QED BY <1>1, <1>2, <1>3, <1>4, <1>5 DEF Next, Environment

\* An answer stays, is copied from the leader's channel, or ends a lookup.
LEMMA AnswersMove ==
  ASSUME IndInv, [Next]_vars, NEW x \in Requests, answer'[x] # NoValue
  PROVE  /\ tx'[x] = tx[x] /\ phase[x] # "idle"
         /\ \/ answer'[x] = answer[x]
            \/ answer'[x] = answer[tx[x]] /\ answer[tx[x]] # NoValue
            \/ phase[x] = "lookup" /\ answer'[x] \in Endings(x) /\ UNCHANGED history
<1>0. Calls /\ SF!TypeOK
  BY CallsFacts DEF IndInv, TypeOK
<1>1. CASE ~(\E r \in Requests : CallStep(r))
  BY <1>0, <1>1, OutsideCalls DEF Calls
<1>2. ASSUME NEW r \in Requests, CallStep(r), x # r
      PROVE  tx'[x] = tx[x] /\ phase[x] # "idle" /\ answer'[x] = answer[x]
  BY <1>0, <1>2, CallStepLocal DEF Calls
<1>3. CASE Lead(x)
  BY <1>0, <1>3 DEF Lead, SF!Lead, Calls
<1>4. CASE LookupDone(x)
  BY <1>0, <1>4 DEF LookupDone, SF!LookupDone, SF!TypeOK
<1>5. CASE Coalesce(x)
  <2>1. SF!Join(x) => answer[x] = NoValue /\ answer' = answer
    BY <1>0 DEF SF!Join, Calls
  <2>2. SF!Publish(x) \/ SF!Remove(x) \/ SF!Subscribe(x) \/ SF!TimeOut(x)
          => UNCHANGED <<tx, answer>> /\ phase[x] # "idle"
    BY DEF SF!Publish, SF!Remove, SF!Subscribe, SF!TimeOut
  <2>3. SF!CheckValue(x) \/ SF!Wake(x)
          => /\ tx' = tx /\ phase[x] # "idle"
             /\ answer' = answer \/ (/\ answer' = [answer EXCEPT ![x] = channel[tx[x]]]
                                     /\ channel[tx[x]] # NoValue)
    BY DEF SF!CheckValue, SF!Wake
  <2>4. tx[x] # NoFlight /\ channel[tx[x]] # NoValue
          => channel[tx[x]] = answer[tx[x]]
    BY <1>0 DEF Calls
  <2>5. phase[x] # "idle" => tx[x] # NoFlight
    BY <1>0 DEF Calls
  <2> QED BY <1>0, <1>5, <2>1, <2>2, <2>3, <2>4, <2>5 DEF Coalesce, SF!TypeOK
<1> QED BY <1>1, <1>2, <1>3, <1>4, <1>5 DEF CallStep

\* What a lookup can end with at this moment.
LEMMA EndingsTrue ==
  ASSUME IndInv, NEW x \in Requests, phase[x] = "lookup", NEW o \in Endings(x)
  PROVE  /\ o \in Found => o.project \in HeldSince(key[x], since[x])
         /\ o = NotFound => SteadySince(key[x], since[x]) \subseteq Outages
<1>0. /\ history \in Histories /\ since[x] \in 1 .. Len(history) /\ key[x] \in Keys
      /\ left[x] \in SUBSET Projects
  BY DEF IndInv, TypeOK, SF!TypeOK, Histories
<1>1. ASSUME o \in Found
      PROVE  o.project \in HeldSince(key[x], since[x])
  <2>1. \E p \in left[x] \cap upstream[key[x]] : o = [project |-> p]
    BY <1>1, ErrorsAreNotFound DEF Endings
  <2> QED BY <1>0, <2>1, HeldNow
<1>2. ASSUME o = NotFound
      PROVE  SteadySince(key[x], since[x]) \subseteq Outages
  <2>1. left[x] = {}
    <3>1. \A p \in left[x] : [project |-> p] \in Found
      BY <1>0 DEF Found
    <3> QED BY <1>2, <3>1, ErrorsAreNotFound DEF Endings
  <2> QED BY <2>1 DEF IndInv, LookupsHonest
<1> QED BY <1>1, <1>2

\* A lookup starts with every project, and crosses one off for a reason.
LEMMA LookupsMove ==
  ASSUME IndInv, [Next]_vars, NEW x \in Requests, phase'[x] = "lookup"
  PROVE  \/ left'[x] = Projects
         \/ phase[x] = "lookup" /\ left'[x] = left[x]
         \/ /\ phase[x] = "lookup" /\ UNCHANGED history
            /\ \E p \in Projects : /\ left'[x] = left[x] \ {p}
                                   /\ p \notin upstream[key[x]] \/ p \in Outages
<1>0. SF!TypeOK /\ left \in [Requests -> SUBSET Projects]
  BY DEF IndInv, TypeOK
<1>1. ASSUME NEW r \in Requests, CallStep(r), x # r
      PROVE  phase'[x] = phase[x] /\ left'[x] = left[x]
  BY <1>1, CallStepLocal
<1>2. CASE Lead(x)
  BY <1>0, <1>2 DEF Lead
<1>3. CASE LookupDone(x)
  BY <1>0, <1>3 DEF LookupDone, SF!LookupDone, SF!Goto, SF!TypeOK
<1>4. CASE Coalesce(x)
  BY <1>0, <1>4 DEF Coalesce, SF!Join, SF!Publish, SF!Remove, SF!Subscribe, SF!CheckValue,
                    SF!Wake, SF!TimeOut, SF!Goto, SF!TypeOK
<1>5. ASSUME NEW r \in Requests, NEW p \in Projects, CrossOff(r, p)
      PROVE  \/ phase'[x] = phase[x] /\ left'[x] = left[x]
             \/ /\ phase[x] = "lookup" /\ UNCHANGED history
                /\ left'[x] = left[x] \ {p}
                /\ p \notin upstream[key[x]] \/ p \in Outages
  <2>1. /\ UNCHANGED <<flight, history>> /\ left' = [left EXCEPT ![r] = @ \ {p}]
        /\ phase[r] = "lookup" /\ (p \notin upstream[key[r]] \/ p \in Outages)
    BY <1>5 DEF CrossOff
  <2> QED BY <1>0, <2>1 DEF flight
<1>6. ASSUME NEW r \in Requests, Cancel(r)
      PROVE  phase'[x] = phase[x] /\ left' = left
  BY <1>6, CancelLocal DEF Busy, fanouts
<1>7. ASSUME NEW r \in Requests, ~CallStep(r), Handle(r) \/ Refresh(r)
      PROVE  UNCHANGED <<phase, left>>
  BY <1>7 DEF Handle, CallStep, Get, FetchServes, FetchFails, Evict, GiveUp, Fill, FillImage,
              Refresh, RefreshDone, RefreshFill, RefreshFillImage, flight, fanouts
<1>8. ASSUME NEW k \in Keys,
             GrowStale(k) \/ Expire(k) \/ \E p \in Projects : Change(k, p)
      PROVE  UNCHANGED <<phase, left>>
  BY <1>8 DEF GrowStale, Expire, Change, flight, fanouts
<1>9. CASE ExpireImage \/ Tick \/ UNCHANGED vars
  <2>1. UNCHANGED <<phase, left>>
    BY <1>9 DEF ExpireImage, Tick, SF!Tick, vars, flight, fanouts
  <2> QED BY <2>1
<1> QED BY <1>1, <1>2, <1>3, <1>4, <1>5, <1>6, <1>7, <1>8, <1>9 DEF Next, Environment, CallStep

LEMMA AnswersKeep ==
  ASSUME IndInv, [Next]_vars
  PROVE  AnswersHeld' /\ LookupsHonest'
<1>0. /\ Calls /\ history \in Histories /\ Extends /\ key' = key
      /\ since \in [Requests -> 1 .. Len(history)] /\ SF!TypeOK
      /\ 1 .. Len(history) \subseteq Nat \ {0}
  BY CallsFacts, HistoryBounded, CallTypesKeep DEF IndInv, TypeOK, Histories
<1>1. ASSUME NEW x \in Requests, answer'[x] # NoValue
      PROVE  /\ answer'[x] \in Found =>
                  answer'[x].project \in HeldSince(key[x], since[Source(x)])
             /\ answer'[x] = NotFound =>
                  SteadySince(key[x], since[Source(x)]) \subseteq Outages
  <2>1. tx[x] \in Requests /\ Source(x) = tx[x] /\ Source(tx[x]) = tx[x] /\ key[tx[x]] = key[x]
    BY <1>0, <1>1, AnswersMove, NoneAssumption DEF Calls, Source
  <2>2. CASE answer'[x] = answer[x]
    BY <2>2 DEF IndInv, AnswersHeld, LookupsHonest
  <2>3. CASE answer'[x] = answer[tx[x]]
    BY <2>1, <2>3 DEF IndInv, AnswersHeld, LookupsHonest
  <2>4. CASE phase[x] = "lookup" /\ answer'[x] \in Endings(x)
    <3>1. Source(x) = x
      BY <1>0, <2>1, <2>4 DEF Calls
    <3> QED BY <2>4, <3>1, EndingsTrue
  <2> QED BY <1>1, <2>2, <2>3, <2>4, AnswersMove
<1>2. ASSUME NEW x \in Requests, answer'[x] # NoValue
      PROVE  /\ Source(x)' = Source(x) /\ Source(x) \in Requests
             /\ since'[Source(x)] = since[Source(x)]
  <2>1. tx'[x] = tx[x] /\ phase[x] # "idle"
    BY <1>2, AnswersMove
  <2>2. tx[x] \in Requests /\ Source(x) = tx[x] /\ phase[tx[x]] # "idle"
    BY <1>0, <2>1, NoneAssumption DEF Calls, Source
  <2>3. since'[tx[x]] = since[tx[x]]
    BY <2>2, PlacesStay DEF IndInv
  <2> QED BY <2>1, <2>2, <2>3 DEF Source
<1>3. ASSUME NEW x \in Requests, answer'[x] # NoValue
      PROVE  /\ HeldSince(key[x], since[Source(x)]) \subseteq HeldSince(key[x], since[Source(x)])'
             /\ SteadySince(key[x], since[Source(x)])' \subseteq SteadySince(key[x], since[Source(x)])
  <2>1. PICK k, n : k = key[x] /\ n = since[Source(x)]
    OBVIOUS
  <2>2. n \in Nat \ {0} /\ since'[Source(x)'] = n /\ key'[x] = k
    BY <1>0, <1>2, <1>3, <2>1
  <2>3. HeldSince(k, n) \subseteq HeldSince(k, n)' /\ SteadySince(k, n)' \subseteq SteadySince(k, n)
    BY <1>0, <2>2, HeldStays, SteadyShrinks
  <2>4. HeldSince(key[x], since[Source(x)])' = HeldSince(k, n)'
    BY <2>2 DEF HeldSince
  <2>5. SteadySince(key[x], since[Source(x)])' = SteadySince(k, n)'
    BY <2>2 DEF SteadySince
  <2> QED BY <2>1, <2>3, <2>4, <2>5
<1>4. ASSUME NEW x \in Requests
      PROVE  /\ answer'[x] \in Found =>
                  answer'[x].project \in HeldSince(key[x], since[Source(x)])'
             /\ answer'[x] = NotFound =>
                  SteadySince(key[x], since[Source(x)])' \subseteq Outages
  <2>1. answer'[x] \in Found \/ answer'[x] = NotFound => answer'[x] # NoValue
    BY NoneAssumption DEF Outcomes
  <2> QED BY <1>1, <1>3, <2>1
<1>5. ASSUME NEW x \in Requests, phase'[x] = "lookup"
      PROVE  SteadySince(key[x], since[x])' \ Outages \subseteq left'[x]
  <2>1. CASE left'[x] = Projects
    BY <2>1 DEF SteadySince
  <2>2. CASE left'[x] # Projects
    <3>1. phase[x] = "lookup"
      BY <1>5, <2>2, LookupsMove
    <3>2. PICK k, n : k = key[x] /\ n = since[x]
      OBVIOUS
    <3>3. n \in 1 .. Len(history) /\ n \in Nat \ {0} /\ since'[x] = n /\ key'[x] = k
      BY <1>0, <3>1, <3>2, PlacesStay DEF IndInv
    <3>4. SteadySince(k, n)' \subseteq SteadySince(k, n)
      BY <1>0, <3>3, SteadyShrinks
    <3>5. SteadySince(key[x], since[x])' = SteadySince(k, n)'
      BY <3>3 DEF SteadySince
    <3>6. SteadySince(k, n) \ Outages \subseteq left[x] /\ SteadySince(k, n) \subseteq upstream[k]
      BY <1>0, <3>1, <3>2, <3>3, HeldNow DEF IndInv, LookupsHonest
    <3> QED BY <1>5, <2>2, <3>2, <3>4, <3>5, <3>6, LookupsMove
  <2> QED BY <2>1, <2>2
<1> QED BY <1>4, <1>5 DEF AnswersHeld, LookupsHonest

\* The same, of what a request asks for.
LEMMA HeldForRequestStays ==
  ASSUME history \in Histories, Extends, UNCHANGED key, NEW x \in Requests
  PROVE  /\ HeldSince(key[x], 1) \subseteq HeldSince(key[x], 1)'
         /\ since[x] \in 1 .. Len(history) /\ since'[x] = since[x] =>
              HeldSince(key[x], since[x]) \subseteq HeldSince(key[x], since[x])'
<1>1. PICK k, n : k = key[x] /\ n = since[x]
  OBVIOUS
<1>2. HeldSince(k, 1) \subseteq HeldSince(k, 1)'
  BY HeldStays
<1>3. HeldSince(key[x], 1)' = HeldSince(k, 1)'
  BY <1>1 DEF HeldSince
<1>4. ASSUME n \in 1 .. Len(history), since'[x] = n
      PROVE  HeldSince(key[x], since[x]) \subseteq HeldSince(key[x], since[x])'
  <2>1. n \in Nat \ {0}
    BY <1>4, ExtendsKeeps
  <2>2. HeldSince(k, n) \subseteq HeldSince(k, n)'
    BY <2>1, HeldStays
  <2>3. HeldSince(key[x], since[x])' = HeldSince(k, n)'
    BY <1>1, <1>4 DEF HeldSince
  <2> QED BY <1>1, <2>2, <2>3
<1> QED BY <1>1, <1>2, <1>3, <1>4

LEMMA RefreshesKeep ==
  ASSUME IndInv, [Next]_vars
  PROVE  RefreshesHeld'
<1>0. /\ history \in Histories /\ Extends /\ UNCHANGED key /\ RefreshTypes
      /\ 1 \in 1 .. Len(history) /\ RefreshesHeld
  BY HistoryBounded, CallTypesKeep, ExtendsKeeps
     DEF IndInv, TypeOK, Histories, RefreshTypes
<1>1. \A x \in Requests : HeldSince(key[x], 1) \subseteq HeldSince(key[x], 1)'
  BY <1>0, HeldForRequestStays
<1>2. ASSUME NEW r \in Requests, RefreshDone(r)
      PROVE  RefreshesHeld'
  <2>1. CASE refresh' = [refresh EXCEPT ![r] = "over"] /\ UNCHANGED fresh
    BY <1>0, <1>1, <2>1 DEF RefreshesHeld, RefreshTypes
  <2>2. ASSUME NEW p \in upstream[key[r]], fresh' = [fresh EXCEPT ![r] = p],
               refresh' = [refresh EXCEPT ![r] = "fill"]
        PROVE  RefreshesHeld'
    <3>1. p \in HeldSince(key[r], 1)
      BY <1>0, HeldNow
    <3> QED BY <1>0, <1>1, <2>2, <3>1 DEF RefreshesHeld, RefreshTypes
  <2> QED BY <1>2, <2>1, <2>2 DEF RefreshDone
<1>3. ASSUME NEW r \in Requests, RefreshFill(r) \/ RefreshFillImage(r)
      PROVE  RefreshesHeld'
  <2>1. \/ refresh' = [refresh EXCEPT ![r] = "over"]
        \/ refresh[r] = "fill" /\ refresh' = [refresh EXCEPT ![r] = "fillImage"]
    BY <1>3 DEF RefreshFill, RefreshFillImage
  <2>2. UNCHANGED fresh
    BY <1>3 DEF RefreshFill, RefreshFillImage
  <2> QED BY <1>0, <1>1, <2>1, <2>2 DEF RefreshesHeld, RefreshTypes
<1>4. ASSUME NEW r \in Requests, FetchServes(r)
      PROVE  RefreshesHeld'
  <2>1. UNCHANGED fresh
    BY <1>4 DEF FetchServes
  <2>2. refresh' = [refresh EXCEPT ![r] = "lookup"] \/ refresh' = refresh
    BY <1>4 DEF FetchServes
  <2> QED BY <1>0, <1>1, <2>1, <2>2 DEF RefreshesHeld, RefreshTypes
<1>5. CASE UNCHANGED background
  BY <1>0, <1>1, <1>5 DEF RefreshesHeld, background
<1>6. \/ UNCHANGED background
      \/ \E r \in Requests : RefreshDone(r) \/ RefreshFill(r) \/ RefreshFillImage(r) \/ FetchServes(r)
  BY DEF Next, Handle, Refresh, Environment, Get, FetchFails, Evict, Lead, LookupDone, Coalesce,
         GiveUp, Fill, FillImage, CrossOff, Cancel, GrowStale, Expire, Change, ExpireImage,
         Tick, vars
<1> QED BY <1>2, <1>3, <1>4, <1>5, <1>6

\* The reply of the project a mapping names, and the answer of a lookup.
LEMMA ServedKeeps ==
  ASSUME IndInv, [Next]_vars
  PROVE  ServedHeld' /\ NotFoundAnswered'
<1>0. /\ Calls /\ history \in Histories /\ Extends /\ UNCHANGED key /\ HandlerTypes
      /\ since \in [Requests -> 1 .. Len(history)] /\ ServedHeld /\ NotFoundAnswered
      /\ InStep /\ SF!TypeOK
  BY CallsFacts, HistoryBounded, CallTypesKeep DEF IndInv, TypeOK, Histories, HandlerTypes
<1> DEFINE Kept(x) ==
             /\ tx'[x] = tx[x] /\ target'[x] = target[x] /\ since'[x] = since[x]
             /\ answer[x] # NoValue => answer'[x] = answer[x]
           Told(x) ==
             /\ stage'[x] = "served" =>
                  IF tx'[x] = NoFlight
                    THEN target'[x].project \in HeldSince(key[x], since[x])'
                    ELSE answer'[x] \in Found
             /\ stage'[x] = "notfound" /\ tx'[x] # NoFlight => answer'[x] = NotFound
<1>1. ASSUME NEW x \in Requests, stage'[x] = stage[x], Kept(x)
      PROVE  Told(x)
  <2>1. HeldSince(key[x], since[x]) \subseteq HeldSince(key[x], since[x])'
    BY <1>0, <1>1, HeldForRequestStays
  <2>2. answer[x] \in Found \/ answer[x] = NotFound => answer[x] # NoValue
    BY NoneAssumption DEF Outcomes
  <2> QED BY <1>0, <1>1, <2>1, <2>2 DEF ServedHeld, NotFoundAnswered
<1>2. ASSUME NEW x \in Requests, stage[x] \in {"served", "notfound"}
      PROVE  Kept(x)
  <2>1. ASSUME NEW r \in Requests, CallStep(r)
        PROVE  Kept(x)
    BY <1>2, <2>1, CallStepLocal DEF handler
  <2>2. ASSUME NEW r \in Requests, Get(r)
        PROVE  Kept(x)
    <3>1. x # r
      BY <1>2, <2>2 DEF Get, At
    <3> QED BY <1>0, <2>2, <3>1 DEF Get, flight, HandlerTypes
  <2>3. ASSUME NEW r \in Requests, Cancel(r)
        PROVE  Kept(x)
    BY <2>3, CancelLocal
  <2>4. CASE UNCHANGED <<tx, answer, target, since>>
    BY <2>4
  <2>5. \/ UNCHANGED <<tx, answer, target, since>>
        \/ \E r \in Requests : CallStep(r) \/ Get(r) \/ Cancel(r)
    BY DEF Next, Handle, Refresh, Environment, FetchServes, FetchFails, Evict, CallStep, GiveUp,
           Fill, FillImage, RefreshDone, RefreshFill, RefreshFillImage, CrossOff, GrowStale,
           Expire, Change, ExpireImage, Tick, SF!Tick, vars, flight, handler
  <2> QED BY <2>1, <2>2, <2>3, <2>4, <2>5
<1>3. ASSUME NEW x \in Requests, stage'[x] # stage[x], stage'[x] \in {"served", "notfound"}
      PROVE  Get(x) \/ FetchServes(x) \/ Fill(x) \/ FillImage(x)
  <2>1. ASSUME NEW r \in Requests, Get(r) \/ FetchServes(r) \/ Fill(r) \/ FillImage(r)
        PROVE  x = r
    BY <1>0, <1>3, <2>1 DEF Get, FetchServes, Fill, FillImage, Move, HandlerTypes
  <2>2. ASSUME NEW r \in Requests, FetchFails(r) \/ Evict(r) \/ GiveUp(r) \/ Cancel(r)
        PROVE  FALSE
    <3>1. \E to \in {"evict", "coalesce", "failed", "gone"} : stage' = [stage EXCEPT ![r] = to]
      BY <2>2 DEF FetchFails, Evict, GiveUp, Cancel, Move
    <3> QED BY <1>0, <1>3, <3>1 DEF HandlerTypes
  <2>3. \/ stage' = stage
        \/ \E r \in Requests :
             \/ Get(r) \/ FetchServes(r) \/ Fill(r) \/ FillImage(r)
             \/ FetchFails(r) \/ Evict(r) \/ GiveUp(r) \/ Cancel(r)
    BY DEF Next, Handle, Refresh, Environment, Lead, LookupDone, Coalesce, RefreshDone, RefreshFill,
           RefreshFillImage, CrossOff, GrowStale, Expire, Change, ExpireImage, Tick, vars, handler
  <2> QED BY <1>3, <2>1, <2>2, <2>3
<1>4. ASSUME NEW x \in Requests, Get(x)
      PROVE  Told(x)
  <2>1. stage'[x] # "served" /\ tx' = tx /\ phase[x] = "idle"
    BY <1>0, <1>4 DEF Get, At, HandlerTypes, flight, InStep
  <2> QED BY <1>0, <2>1 DEF Calls
<1>5. ASSUME NEW x \in Requests, FetchServes(x)
      PROVE  Told(x)
  <2>1. /\ stage'[x] = "served" /\ UNCHANGED <<tx, answer, target, since, history>>
        /\ target[x].project \in upstream[key[x]] /\ phase[x] = "idle"
    BY <1>0, <1>5 DEF FetchServes, Move, At, HandlerTypes, flight, InStep
  <2>2. target[x].project \in HeldSince(key[x], since[x])
    BY <1>0, <2>1, HeldNow
  <2>3. HeldSince(key[x], since[x])' = HeldSince(key[x], since[x])
    BY <1>0, <2>1 DEF HeldSince
  <2> QED BY <1>0, <2>1, <2>2, <2>3 DEF Calls
<1>6. ASSUME NEW x \in Requests, Fill(x)
      PROVE  Told(x)
  <2>1. /\ UNCHANGED <<tx, answer>>
        /\ stage'[x] = (IF answer[x] = NotFound THEN "notfound" ELSE "fillImage")
    BY <1>0, <1>6 DEF Fill, Move, HandlerTypes, flight
  <2> QED BY <2>1
<1>7. ASSUME NEW x \in Requests, FillImage(x)
      PROVE  Told(x)
  <2>1. /\ stage'[x] = "served" /\ UNCHANGED <<tx, answer>> /\ answer[x] \in Found
    BY <1>0, <1>7 DEF FillImage, Move, At, HandlerTypes, flight, InStep
  <2>2. answer[x] # NoValue
    BY <2>1, NoneAssumption DEF Outcomes
  <2>3. phase[x] # "idle"
    BY <1>0, <2>2 DEF Calls
  <2> QED BY <1>0, <2>1, <2>3 DEF Calls
<1>8. \A x \in Requests : Told(x)
  BY <1>1, <1>2, <1>3, <1>4, <1>5, <1>6, <1>7
<1> QED BY <1>8 DEF ServedHeld, NotFoundAnswered

\* Every writer of a mapping has it from a project that held the image.
LEMMA EntriesKeep ==
  ASSUME IndInv, [Next]_vars
  PROVE  EntriesWereTrue'
<1> DEFINE True(k) == cache'[k] \in Mappings => cache'[k].project \in HeldSince(k, 1)
           ImageTrue == image' # NoEntry => \E k \in Keys : image' \in HeldSince(k, 1)
<1>0. /\ Calls /\ history \in Histories /\ Extends /\ key \in [Requests -> Keys]
      /\ since \in [Requests -> 1 .. Len(history)] /\ CacheTypes /\ EntriesWereTrue
      /\ 1 \in Nat \ {0} /\ 1 \in 1 .. Len(history) /\ SF!TypeOK
  BY CallsFacts, HistoryBounded, ExtendsKeeps
     DEF IndInv, TypeOK, Histories, CacheTypes, SF!TypeOK
<1>1. ASSUME NEW r \in Requests, answer[r] \in Found
      PROVE  answer[r].project \in HeldSince(key[r], 1)
  <2>1. Source(r) \in Requests /\ answer[r].project \in HeldSince(key[r], since[Source(r)])
    BY <1>0, <1>1 DEF Source, Calls, IndInv, AnswersHeld
  <2>2. HeldSince(key[r], since[Source(r)]) \subseteq HeldSince(key[r], 1)
    BY <1>0, <2>1, HeldNow
  <2> QED BY <2>1, <2>2
<1>2. ASSUME NEW r \in Requests, refresh[r] \in {"fill", "fillImage"}
      PROVE  fresh[r] \in HeldSince(key[r], 1)
  BY <1>2 DEF IndInv, RefreshesHeld
<1>3. ASSUME NEW k \in Keys
      PROVE  True(k)
  <2>1. CASE UNCHANGED cache
    BY <1>0, <2>1 DEF EntriesWereTrue
  <2>2. ASSUME NEW r \in Requests, Evict(r)
        PROVE  True(k)
    BY <1>0, <2>2, EntriesApart DEF Evict, EntriesWereTrue, CacheTypes
  <2>3. ASSUME NEW r \in Requests, Fill(r)
        PROVE  True(k)
    <3>1. answer[r] = NotFound \/ answer[r] \in Found
      <4>1. answer[r] # NoValue
        BY <1>0, <2>3 DEF Fill, Calls
      <4> QED BY <1>0, <2>3, <4>1, AnswersTyped DEF Fill
    <3> DEFINE e == IF answer[r] = NotFound THEN Negative ELSE Fresh(answer[r].project)
    <3>2. e \in Mappings => e.project \in HeldSince(key[r], 1)
      BY <1>1, <3>1, EntriesApart
    <3>3. cache' = [cache EXCEPT ![key[r]] = e]
      BY <2>3 DEF Fill
    <3> HIDE DEF e
    <3> QED BY <1>0, <3>2, <3>3 DEF EntriesWereTrue, CacheTypes
  <2>4. ASSUME NEW r \in Requests, RefreshFill(r)
        PROVE  True(k)
    <3>1. /\ cache' = [cache EXCEPT ![key[r]] = Fresh(fresh[r])]
          /\ fresh[r] \in HeldSince(key[r], 1)
      BY <1>2, <2>4 DEF RefreshFill
    <3>2. Fresh(fresh[r]).project = fresh[r]
      BY EntriesApart
    <3> QED BY <1>0, <3>1, <3>2 DEF EntriesWereTrue, CacheTypes
  <2>5. ASSUME NEW j \in Keys, GrowStale(j)
        PROVE  True(k)
    <3> DEFINE e == [cache[j] EXCEPT !.stale = TRUE]
    <3>1. cache' = [cache EXCEPT ![j] = e] /\ e.project = cache[j].project /\ cache[j] \in Mappings
      BY <2>5 DEF GrowStale, Mappings
    <3> HIDE DEF e
    <3> QED BY <1>0, <3>1 DEF EntriesWereTrue, CacheTypes
  <2>6. ASSUME NEW j \in Keys, Expire(j)
        PROVE  True(k)
    BY <1>0, <2>6, EntriesApart DEF Expire, EntriesWereTrue, CacheTypes
  <2>7. \/ UNCHANGED cache
        \/ \E r \in Requests : Evict(r) \/ Fill(r) \/ RefreshFill(r)
        \/ \E j \in Keys : GrowStale(j) \/ Expire(j)
    BY DEF Next, Handle, Refresh, Environment, Get, FetchServes, FetchFails, Lead, LookupDone,
           Coalesce, GiveUp, FillImage, RefreshDone, RefreshFillImage, CrossOff, Cancel, Change,
           ExpireImage, Tick, vars, caches
  <2> QED BY <2>1, <2>2, <2>3, <2>4, <2>5, <2>6, <2>7
<1>4. ImageTrue
  <2>1. CASE UNCHANGED image
    BY <1>0, <2>1 DEF EntriesWereTrue
  <2>2. ASSUME NEW r \in Requests, FillImage(r)
        PROVE  ImageTrue
    BY <1>0, <1>1, <2>2 DEF FillImage, Move, At, IndInv, InStep
  <2>3. ASSUME NEW r \in Requests, RefreshFillImage(r)
        PROVE  ImageTrue
    BY <1>0, <1>2, <2>3 DEF RefreshFillImage
  <2>4. CASE ExpireImage
    BY <2>4 DEF ExpireImage
  <2>5. \/ UNCHANGED image \/ ExpireImage
        \/ \E r \in Requests : FillImage(r) \/ RefreshFillImage(r)
    BY DEF Next, Handle, Refresh, Environment, Get, FetchServes, FetchFails, Evict, Lead,
           LookupDone, Coalesce, GiveUp, Fill, RefreshDone, RefreshFill, CrossOff, Cancel,
           GrowStale, Expire, Change, Tick, vars, caches
  <2> QED BY <2>1, <2>2, <2>3, <2>4, <2>5
<1>5. \A k \in Keys : HeldSince(k, 1) \subseteq HeldSince(k, 1)'
  BY <1>0, HeldStays
<1> QED BY <1>3, <1>4, <1>5 DEF EntriesWereTrue

-----------------------------------------------------------------------------
(***************************************************************************)
(* The invariant, and what follows from it.                                *)
(***************************************************************************)
LEMMA InitInv == Init => IndInv
<1> SUFFICES ASSUME Init PROVE IndInv
  OBVIOUS
<1>1. SFP!IndInv /\ Calls
  BY CallsInit, CallsFacts DEF Init
<1>2. PICK held \in [Keys -> SUBSET Projects] :
        /\ history = <<held>>
        /\ cache \in {c \in [Keys -> Mappings \cup {NoEntry, Negative}] :
                        \A k \in Keys : c[k] \in Cached(held[k])}
  BY DEF Init
<1>3. /\ history \in Histories /\ Len(history) = 1 /\ history[1] = held
      /\ history # << >> /\ upstream = held
  BY <1>2 DEF Histories, upstream
<1>4. TypeOK
  <2>1. SF!TypeOK
    BY <1>1 DEF Calls
  <2>2. HandlerTypes /\ CacheTypes /\ FanoutTypes /\ RefreshTypes
    BY <1>2 DEF Init, HandlerTypes, CacheTypes, FanoutTypes, RefreshTypes
  <2>3. since \in [Requests -> 1 .. Len(history)] /\ Len(history) <= MaxChanges + 1
    BY <1>3, OptionsAssumption DEF Init
  <2> QED BY <1>3, <2>1, <2>2, <2>3
          DEF TypeOK, HandlerTypes, CacheTypes, FanoutTypes, RefreshTypes, Histories
<1>5. /\ \A r \in Requests : phase[r] = "idle" /\ answer[r] = NoValue
      /\ NoValue \notin Found /\ NoValue # NotFound
  BY NoneAssumption DEF Init, SF!Init, Outcomes
<1>6. InStep /\ LookupsHonest /\ AnswersHeld
  BY <1>5 DEF Init, InStep, Busy, LookupsHonest, AnswersHeld
<1>7. RefreshesHeld /\ ServedHeld /\ NotFoundAnswered
  BY DEF Init, RefreshesHeld, ServedHeld, NotFoundAnswered
<1>8. EntriesWereTrue
  <2>1. \A k \in Keys : held[k] \subseteq HeldSince(k, 1)
    BY <1>3, HeldNow
  <2>2. ASSUME NEW k \in Keys, cache[k] \in Mappings
        PROVE  cache[k].project \in held[k]
    BY <1>2, <2>2, EntriesApart DEF Cached
  <2> QED BY <2>1, <2>2 DEF EntriesWereTrue, Init
<1> QED BY <1>1, <1>3, <1>4, <1>6, <1>7, <1>8 DEF IndInv

LEMMA NextKeeps == IndInv /\ [Next]_vars => IndInv'
<1> SUFFICES ASSUME IndInv, [Next]_vars PROVE IndInv'
  OBVIOUS
<1>1. TypeOK' /\ history' # << >> /\ SFP!IndInv'
  BY TypesKeep, CallTypesKeep
<1>2. InStep' /\ LookupsHonest' /\ AnswersHeld' /\ RefreshesHeld'
  BY InStepKeeps, AnswersKeep, RefreshesKeep
<1>3. ServedHeld' /\ NotFoundAnswered' /\ EntriesWereTrue'
  BY ServedKeeps, EntriesKeep
<1> QED BY <1>1, <1>2, <1>3 DEF IndInv

-----------------------------------------------------------------------------
(***************************************************************************)
(* The fan-out of each request is a Lookup.                                *)
(***************************************************************************)
LEMMA LeadersPhases ==
  ASSUME SFP!IndInv, NEW q \in Requests, tx[q] = q
  PROVE  phase[q] \notin {"idle", "joined", "subscribed", "waiting"}
BY DEF SFP!IndInv, SFP!Attached, SFP!Leading

LEMMA ViewInit ==
  ASSUME Init, NEW q \in Requests
  PROVE  Fanout(q)!Init
<1>1. tx[q] # q
  BY NoneAssumption DEF Init, SF!Init
<1> QED BY <1>1 DEF Fanout!Init

LEMMA ViewStays ==
  ASSUME NEW q \in Requests,
         tx'[q] = tx[q], left'[q] = left[q], erred'[q] = erred[q], answer'[q] = answer[q]
  PROVE  UNCHANGED Fanout(q)!absvars
BY DEF Fanout!absvars

\* A request that leads no flight has no fan-out of its own.
LEMMA ViewOfFollower ==
  ASSUME NEW q \in Requests, tx[q] # q, tx'[q] # q
  PROVE  UNCHANGED Fanout(q)!absvars
BY DEF Fanout!absvars

LEMMA ViewOfLead ==
  ASSUME IndInv, NEW q \in Requests, Lead(q)
  PROVE  UNCHANGED Fanout(q)!absvars
<1>0. Calls /\ SF!TypeOK /\ left \in [Requests -> SUBSET Projects] /\ erred \in [Requests -> BOOLEAN]
  BY CallsFacts DEF IndInv, TypeOK
<1>1. phase[q] = "idle" /\ tx[q] # q /\ answer[q] = NoValue
  <2>1. phase[q] = "idle"
    BY DEF Lead, SF!Lead
  <2>2. tx[q] # q
    BY <2>1, LeadersPhases DEF IndInv
  <2> QED BY <1>0, <2>1, <2>2 DEF Calls
<1>2. tx'[q] = q /\ answer' = answer
  BY <1>0 DEF Lead, SF!Lead, SF!TypeOK
<1>3. left'[q] = Projects /\ erred'[q] = FALSE
  BY <1>0 DEF Lead
<1> QED BY <1>1, <1>2, <1>3 DEF Fanout!absvars

LEMMA ViewOfLookupDone ==
  ASSUME IndInv, NEW q \in Requests, LookupDone(q)
  PROVE  Fanout(q)!End
<1>0. Calls /\ SF!TypeOK /\ left \in [Requests -> SUBSET Projects] /\ erred \in [Requests -> BOOLEAN]
  BY CallsFacts DEF IndInv, TypeOK
<1>1. PICK o \in Endings(q) : SF!LookupDone(q, o)
  BY DEF LookupDone
<1>2. phase[q] = "lookup" /\ tx' = tx /\ answer'[q] = o
  BY <1>0, <1>1 DEF SF!LookupDone, SF!TypeOK
<1>3. tx[q] = q /\ answer[q] = NoValue
  BY <1>0, <1>2 DEF Calls
<1>4. left'[q] = {} /\ erred' = erred
  BY <1>0 DEF LookupDone
<1>5. Projects # {}
  BY OptionsAssumption
<1>6. o \in Fanout(q)!Endings
  BY <1>0, <1>3, <1>5 DEF Endings, Fanout!Endings, NotFound, Failed, Fanout!NotFound, Fanout!Failed
<1> QED BY <1>2, <1>3, <1>4, <1>6 DEF Fanout!End

LEMMA ViewOfCoalesce ==
  ASSUME IndInv, SFP!IndInv', NEW q \in Requests, Coalesce(q)
  PROVE  UNCHANGED Fanout(q)!absvars
<1>0. UNCHANGED <<left, erred>>
  BY DEF Coalesce, fanouts
<1>1. CASE SF!Join(q)
  <2>1. phase[q] = "idle" /\ phase'[q] = "joined"
    BY <1>1 DEF SF!Join, SF!Goto, IndInv, TypeOK, SF!TypeOK
  <2>2. tx[q] # q
    BY <2>1, LeadersPhases DEF IndInv
  <2>3. tx'[q] # q
    BY <2>1 DEF SFP!IndInv, SFP!Attached, SFP!Leading
  <2> QED BY <2>2, <2>3, ViewOfFollower
<1>2. CASE SF!Publish(q) \/ SF!Remove(q) \/ SF!Subscribe(q) \/ SF!TimeOut(q)
  <2>1. UNCHANGED <<tx, answer>>
    BY <1>2 DEF SF!Publish, SF!Remove, SF!Subscribe, SF!TimeOut
  <2> QED BY <1>0, <2>1, ViewStays
<1>3. CASE SF!CheckValue(q) \/ SF!Wake(q)
  <2>1. phase[q] \in {"subscribed", "waiting"} /\ tx' = tx
    BY <1>3 DEF SF!CheckValue, SF!Wake
  <2>2. tx[q] # q
    BY <2>1, LeadersPhases DEF IndInv
  <2> QED BY <2>1, <2>2, ViewOfFollower
<1> QED BY <1>1, <1>2, <1>3 DEF Coalesce

LEMMA ViewOfCrossOff ==
  ASSUME IndInv, NEW q \in Requests, NEW p \in Projects, CrossOff(q, p)
  PROVE  Fanout(q)!CrossOff(p)
<1>0. Calls /\ left \in [Requests -> SUBSET Projects] /\ erred \in [Requests -> BOOLEAN]
  BY CallsFacts DEF IndInv, TypeOK
<1>1. UNCHANGED <<tx, answer>> /\ tx[q] = q /\ answer[q] = NoValue
  BY <1>0 DEF CrossOff, Calls, flight
<1>2. p \in left[q] /\ left'[q] = left[q] \ {p}
  BY <1>0 DEF CrossOff
<1>3. erred'[q] = erred[q] \/ erred'[q] = TRUE
  <2>1. CASE UNCHANGED erred
    BY <2>1
  <2>2. ASSUME NEW e \in BOOLEAN, erred' = [erred EXCEPT ![q] = @ \/ e]
        PROVE  erred'[q] = erred[q] \/ erred'[q] = TRUE
    BY <1>0, <2>2
  <2> QED BY <2>1, <2>2 DEF CrossOff
<1> QED BY <1>0, <1>1, <1>2, <1>3 DEF Fanout!CrossOff

\* The fan-outs of other requests are left alone.
LEMMA ViewsOfOthers ==
  ASSUME IndInv, NEW q \in Requests, NEW r \in Requests \ {q},
         CallStep(r) \/ \E p \in Projects : CrossOff(r, p)
  PROVE  UNCHANGED Fanout(q)!absvars
<1>0. left \in [Requests -> SUBSET Projects] /\ erred \in [Requests -> BOOLEAN]
  BY DEF IndInv, TypeOK
<1>1. CASE CallStep(r)
  <2>1. UNCHANGED <<tx[q], answer[q], left[q]>>
    BY <1>1, CallStepLocal
  <2>2. erred'[q] = erred[q]
    BY <1>0, <1>1 DEF CallStep, Lead, LookupDone, Coalesce, fanouts
  <2> QED BY <2>1, <2>2, ViewStays
<1>2. ASSUME NEW p \in Projects, CrossOff(r, p) PROVE UNCHANGED Fanout(q)!absvars
  <2>1. UNCHANGED <<tx, answer>> /\ left'[q] = left[q]
    BY <1>0, <1>2 DEF CrossOff, flight
  <2>2. erred'[q] = erred[q]
    BY <1>0, <1>2 DEF CrossOff
  <2> QED BY <2>1, <2>2, ViewStays
<1> QED BY <1>1, <1>2

LEMMA ViewsElsewhere ==
  ASSUME IndInv, [Next]_vars, ~(\E r \in Requests : CallStep(r)),
         ~(\E r \in Requests, p \in Projects : CrossOff(r, p)), NEW q \in Requests
  PROVE  UNCHANGED Fanout(q)!absvars
<1>1. UNCHANGED <<tx, answer>>
  BY OutsideCalls
<1>2. UNCHANGED <<left, erred>>
  <2>1. ASSUME NEW r \in Requests, Handle(r) PROVE UNCHANGED <<left, erred>>
    BY <2>1 DEF Handle, CallStep, Get, FetchServes, FetchFails, Evict, GiveUp, Fill, FillImage,
                fanouts
  <2>2. ASSUME NEW r \in Requests, Refresh(r) \/ Cancel(r) PROVE UNCHANGED <<left, erred>>
    BY <2>2 DEF Refresh, RefreshDone, RefreshFill, RefreshFillImage, Cancel, fanouts
  <2>3. ASSUME NEW k \in Keys, GrowStale(k) \/ Expire(k) \/ \E p \in Projects : Change(k, p)
        PROVE  UNCHANGED <<left, erred>>
    BY <2>3 DEF GrowStale, Expire, Change, fanouts
  <2>4. CASE ExpireImage \/ Tick \/ UNCHANGED vars
    BY <2>4 DEF ExpireImage, Tick, vars, fanouts
  <2> QED BY <2>1, <2>2, <2>3, <2>4 DEF Next, Environment
<1> QED BY <1>1, <1>2, ViewStays

LEMMA StepViews ==
  ASSUME IndInv, [Next]_vars, NEW q \in Requests
  PROVE  Fanout(q)!Next \/ UNCHANGED Fanout(q)!absvars
<1>1. SFP!IndInv'
  BY CallTypesKeep
<1>2. CASE CallStep(q)
  <2>1. CASE LookupDone(q)
    BY <2>1, ViewOfLookupDone DEF Fanout!Next
  <2> QED BY <1>1, <1>2, <2>1, ViewOfLead, ViewOfCoalesce DEF CallStep
<1>3. ASSUME NEW p \in Projects, CrossOff(q, p) PROVE Fanout(q)!Next
  BY <1>3, ViewOfCrossOff DEF Fanout!Next
<1>4. ASSUME NEW r \in Requests \ {q}, CallStep(r) \/ \E p \in Projects : CrossOff(r, p)
      PROVE  UNCHANGED Fanout(q)!absvars
  BY <1>4, ViewsOfOthers
<1>5. CASE /\ ~(\E r \in Requests : CallStep(r))
           /\ ~(\E r \in Requests, p \in Projects : CrossOff(r, p))
  BY <1>5, ViewsElsewhere
<1> QED BY <1>2, <1>3, <1>4, <1>5

-----------------------------------------------------------------------------
(***************************************************************************)
(* The theorems.                                                           *)
(***************************************************************************)
\* IndInv holds in every reachable state.
THEOREM Inductive == Spec => []IndInv
  BY InitInv, NextKeeps, PTL DEF Spec

\* Every variable keeps its type, whatever the constants are.
THEOREM TypeCorrect == Spec => []TypeOK
<1>1. IndInv => TypeOK
  BY DEF IndInv
<1> QED BY <1>1, Inductive, PTL

\* The handlers use singleflight as its module assumes: each of their steps is
\* one of its steps or leaves its state alone, so what is proved of
\* Singleflight holds of them.
THEOREM CallsCoalesced == Spec => SF!Spec
<1>1. Init => SF!Init
  BY DEF Init
<1>2. TypeOK /\ [Next]_vars => [SF!Next]_flight
  BY StepCalls
<1>3. [SF!Next]_flight => [SF!Next]_SF!vars
  BY DEF flight, SF!vars
<1> QED BY <1>1, <1>2, <1>3, TypeCorrect, PTL DEF Spec, SF!Spec

\* Each part is used as its module says: the calls are those of Singleflight,
\* and the fan-out of every request, whatever the registry does meanwhile, is
\* a Lookup, which is what Fanout is shown to implement.
THEOREM PartsFit == Spec => UsesItsParts
<1>1. Init => \A r \in Requests : Fanout(r)!Init
  BY ViewInit
<1>2. IndInv /\ [Next]_vars =>
        [\A r \in Requests : [Fanout(r)!Next]_(Fanout(r)!absvars)]_vars
  BY StepViews
<1> QED BY <1>1, <1>2, CallsCoalesced, Inductive, PTL DEF Spec, UsesItsParts

\* Two requests never fan out for the same key at the same time.
THEOREM FanoutsExclusive == Spec => []SF!OneLookupPerKey
<1>1. SFP!IndInv => SF!OneLookupPerKey
  BY DEF SFP!IndInv, SFP!FlightsOwned, SFP!Leading, SF!OneLookupPerKey
<1>2. IndInv => SFP!IndInv
  BY DEF IndInv
<1> QED BY <1>1, <1>2, Inductive, PTL

\* A manifest is only served from a project that held the image while the
\* request, or the leader whose lookup it shared, was at work.
THEOREM ServedFromHolder == Spec => []ServedWasHeld
<1>1. IndInv => ServedWasHeld
  <2> SUFFICES ASSUME IndInv, NEW r \in Requests, stage[r] = "served"
               PROVE  (IF tx[r] = NoFlight THEN target[r].project ELSE answer[r].project)
                        \in HeldSince(key[r], since[Source(r)])
    BY DEF ServedWasHeld
  <2>1. CASE tx[r] = NoFlight
    BY <2>1 DEF IndInv, ServedHeld, Source
  <2>2. CASE tx[r] # NoFlight
    BY <2>2 DEF IndInv, ServedHeld, AnswersHeld
  <2> QED BY <2>1, <2>2
<1> QED BY <1>1, Inductive, PTL

\* No entry ever names a project that never held the image, in whatever order
\* the leader, its followers and the background refreshes write.
THEOREM EntriesTrue == Spec => []EntriesWereTrue
<1>1. IndInv => EntriesWereTrue
  BY DEF IndInv
<1> QED BY <1>1, Inductive, PTL

\* A lookup answers `not found` only if no healthy project held the image all
\* the while.
THEOREM SteadyFound == Spec => []SteadyImageIsFound
<1>1. IndInv => SteadyImageIsFound
  BY DEF IndInv, NotFoundAnswered, LookupsHonest, SteadyImageIsFound
<1> QED BY <1>1, Inductive, PTL

=============================================================================
