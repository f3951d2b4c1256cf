------------------------------ MODULE Resolver ------------------------------
(***************************************************************************)
(* Resolver::resolve_manifest (src/src/resolver.rs): the mapping cache in  *)
(* front of the coalesced fan-out, for the requests of one image.  A       *)
(* request looks its key up in the cache; a cached project is always asked *)
(* for the manifest, and a stale one is also refreshed in the background;  *)
(* a mapping that fails is evicted; what remains goes through singleflight *)
(* and its outcome is written back, by every request on its own.           *)
(*                                                                         *)
(* The calls to singleflight are those of module Singleflight, whose       *)
(* variables this module shares.  A fan-out is a Lookup, as Fanout is: a   *)
(* project that holds the image ends it, one that does not or cannot say   *)
(* is crossed off, and when all are it ends with an error.                 *)
(***************************************************************************)
EXTENDS Integers, FiniteSets, Sequences

CONSTANTS
  Requests, Keys, Projects,
  Disconnecting,   \* requests whose client may hang up
  Outages,         \* projects that may answer with a server or transport error
  Revalidate,      \* whether stale_while_revalidate is on
  MaxChanges,      \* bound: how often the content of the registry changes
  LookupTimeout, FollowerMargin,
  NoFlight, NoValue, NoEntry

\* Some project is always within reach: a lookup with every circuit open ends
\* with an error of its own, which Fanout has and this module does not.
ASSUME OptionsAssumption ==
  /\ Outages \subseteq Projects /\ Outages # Projects
  /\ Revalidate \in BOOLEAN
  /\ MaxChanges \in Nat

ASSUME CallsAssumption ==
  /\ Disconnecting \subseteq Requests
  /\ IsFiniteSet(Requests)
  /\ LookupTimeout \in Nat
  /\ FollowerMargin \in Nat \ {0}

NotFound == [error |-> "not found"]
Failed   == [error |-> "failed"]
Found    == [project : Projects]
Outcomes == Found \cup {NotFound, Failed}

\* Cache entries: the sentinel __NEGATIVE__, or a project, which is stale
\* once its timestamp is older than the cache TTL.
Negative == [project |-> "__NEGATIVE__"]
Mappings == [project : Projects, stale : BOOLEAN]
Fresh(p) == [project |-> p, stale |-> FALSE]

\* The values that stand for `none` are none of those they stand in for.
ASSUME NoneAssumption ==
  /\ NoFlight \notin Requests
  /\ NoValue \notin Outcomes
  /\ NoEntry \notin Projects \cup Mappings \cup {Negative}

VARIABLES
  phase, key, tx, channel, flights, age, answer, inflight,  \* see Singleflight
  stage,     \* where each request stands in resolve_manifest
  target,    \* the mapping it found in the cache
  cache,     \* the entries image:reference
  image,     \* the entry img:image, which routes blobs
  left,      \* the projects that have not answered the lookup of each request
  erred,     \* whether one that has was out of reach
  refresh,   \* where the background refresh of each request stands
  fresh,     \* the project it has found
  history,   \* what the projects have held: a history, the last is the present
  since      \* the length of the history when each request began

flight == <<phase, key, tx, channel, flights, age, answer, inflight>>
handler == <<stage, target, since>>
caches == <<cache, image>>
fanouts == <<left, erred>>
background == <<refresh, fresh>>
vars == <<flight, handler, caches, fanouts, background, history>>

SF == INSTANCE Singleflight

upstream == history[Len(history)]

\* The router has been running for a while: a key is not cached, or with a
\* project that holds it, or as one that no project holds.
Cached(held) == {NoEntry} \cup {Fresh(p) : p \in held}
                          \cup (IF held = {} THEN {Negative} ELSE {})

Init ==
  /\ SF!Init
  /\ stage = [r \in Requests |-> "get"]
  /\ target = [r \in Requests |-> NoEntry]
  /\ since = [r \in Requests |-> 1]
  /\ \E held \in [Keys -> SUBSET Projects] :
       /\ history = <<held>>
       /\ cache \in {c \in [Keys -> Mappings \cup {NoEntry, Negative}] :
                       \A k \in Keys : c[k] \in Cached(held[k])}
  /\ image = NoEntry
  /\ left = [r \in Requests |-> {}]
  /\ erred = [r \in Requests |-> FALSE]
  /\ refresh = [r \in Requests |-> "none"]
  /\ fresh = [r \in Requests |-> NoEntry]

At(r, s) == stage[r] = s
Move(r, from, to) == At(r, from) /\ stage' = [stage EXCEPT ![r] = to]

-----------------------------------------------------------------------------
(***************************************************************************)
(* parallel_lookup of a leader: the projects answer one by one, each with  *)
(* what it holds when it answers.                                          *)
(***************************************************************************)
\* A 404, an unexpected status, a skipped project, or an error on the way.
CrossOff(r, p) ==
  /\ phase[r] = "lookup"
  /\ p \in left[r]
  /\ \/ p \notin upstream[key[r]] /\ UNCHANGED erred
     \/ p \in Outages /\ \E e \in BOOLEAN : erred' = [erred EXCEPT ![r] = @ \/ e]
  /\ left' = [left EXCEPT ![r] = @ \ {p}]
  /\ UNCHANGED <<flight, handler, caches, background, history>>

\* Mutants of Endings: the status of a reply is not looked at; the first
\* project without the image ends the fan-out.
EndingsAnyStatus(r) ==
  {[project |-> p] : p \in left[r]}
    \cup (IF left[r] # {} THEN {} ELSE IF erred[r] THEN {Failed} ELSE {NotFound})

EndingsFirstMiss(r) ==
  {[project |-> p] : p \in left[r] \cap upstream[key[r]]}
    \cup (IF left[r] = Projects THEN {} ELSE IF erred[r] THEN {Failed} ELSE {NotFound})

\* The outcomes the fan-out of r can end with now.
Endings(r) ==
  {[project |-> p] : p \in left[r] \cap upstream[key[r]]}
    \cup (IF left[r] # {} THEN {} ELSE IF erred[r] THEN {Failed} ELSE {NotFound})

-----------------------------------------------------------------------------
(***************************************************************************)
(* The cache hit path.                                                     *)
(***************************************************************************)
Get(r) ==
  /\ At(r, "get")
  /\ LET entry == cache[key[r]] IN
       /\ stage' = [stage EXCEPT ![r] = CASE entry = NoEntry  -> "coalesce"
                                          [] entry = Negative -> "notfound"
                                          [] OTHER            -> "fetch"]
       /\ target' = [target EXCEPT ![r] = IF entry \in Mappings THEN entry ELSE NoEntry]
  /\ since' = [since EXCEPT ![r] = Len(history)]
  /\ UNCHANGED <<flight, caches, fanouts, background, history>>

\* Mutant of FetchServes: the status of the reply is not looked at.
FetchServesAny(r) ==
  /\ Move(r, "fetch", "served")
  /\ IF target[r].stale
       THEN refresh' = [refresh EXCEPT ![r] = "lookup"]
       ELSE UNCHANGED refresh
  /\ UNCHANGED <<flight, target, since, caches, fanouts, fresh, history>>

\* A 200 is served; if the mapping was stale, a task is spawned that looks
\* the image up again.
FetchServes(r) ==
  /\ Move(r, "fetch", "served")
  /\ target[r].project \in upstream[key[r]]
  /\ IF target[r].stale
       THEN refresh' = [refresh EXCEPT ![r] = "lookup"]
       ELSE UNCHANGED refresh
  /\ UNCHANGED <<flight, target, since, caches, fanouts, fresh, history>>

\* Any other reply, or a transient one to the last attempt: the retries of
\* fetch_manifest_with_retry before it change nothing.
FetchFails(r) ==
  /\ Move(r, "fetch", "evict")
  /\ \/ target[r].project \notin upstream[key[r]]
     \/ target[r].project \in Outages
  /\ UNCHANGED <<flight, target, since, caches, fanouts, background, history>>

\* Mutant of Evict: the flight of the key is dropped with its entry.
EvictFlight(r) ==
  /\ Move(r, "evict", "coalesce")
  /\ cache' = [cache EXCEPT ![key[r]] = NoEntry]
  /\ flights' = [flights EXCEPT ![key[r]] = NoFlight]
  /\ UNCHANGED <<phase, key, tx, channel, age, answer, inflight>>
  /\ UNCHANGED <<target, since, image, fanouts, background, history>>

\* cache.delete(): whatever the entry is by now.
Evict(r) ==
  /\ Move(r, "evict", "coalesce")
  /\ cache' = [cache EXCEPT ![key[r]] = NoEntry]
  /\ UNCHANGED <<flight, target, since, image, fanouts, background, history>>

-----------------------------------------------------------------------------
(***************************************************************************)
(* singleflight, and what each caller does with its outcome.               *)
(***************************************************************************)
Lead(r) ==
  /\ At(r, "coalesce")
  /\ SF!Lead(r)
  /\ left' = [left EXCEPT ![r] = Projects]
  /\ erred' = [erred EXCEPT ![r] = FALSE]
  /\ UNCHANGED <<handler, caches, background, history>>

LookupDone(r) ==
  /\ \E o \in Endings(r) : SF!LookupDone(r, o)
  /\ left' = [left EXCEPT ![r] = {}]
  /\ UNCHANGED <<handler, erred, caches, background, history>>

Coalesce(r) ==
  /\ At(r, "coalesce")
  /\ \/ SF!Join(r) \/ SF!Publish(r) \/ SF!Remove(r) \/ SF!Subscribe(r)
     \/ SF!CheckValue(r) \/ SF!Wake(r) \/ SF!TimeOut(r)
  /\ UNCHANGED <<handler, caches, fanouts, background, history>>

\* Mutant of GiveUp: the error of a follower's timeout is not handled.
GiveUpOnOutcome(r) ==
  /\ Move(r, "coalesce", "failed")
  /\ phase[r] = "returned" /\ answer[r] = Failed
  /\ UNCHANGED <<flight, target, since, caches, fanouts, background, history>>

\* A follower that timed out has no outcome; any other error is the answer
\* and is not cached.
GiveUp(r) ==
  /\ Move(r, "coalesce", "failed")
  /\ \/ phase[r] = "timedout"
     \/ phase[r] = "returned" /\ answer[r] = Failed
  /\ UNCHANGED <<flight, target, since, caches, fanouts, background, history>>

\* Only a manifest and the error `not found` are cached, the latter without
\* the entry img:image.
Fill(r) ==
  /\ phase[r] = "returned"
  /\ answer[r] # Failed
  /\ Move(r, "coalesce", IF answer[r] = NotFound THEN "notfound" ELSE "fillImage")
  /\ cache' = [cache EXCEPT ![key[r]] = IF answer[r] = NotFound
                                          THEN Negative ELSE Fresh(answer[r].project)]
  /\ UNCHANGED <<flight, target, since, image, fanouts, background, history>>

FillImage(r) ==
  /\ Move(r, "fillImage", "served")
  /\ image' = answer[r].project
  /\ UNCHANGED <<flight, target, since, cache, fanouts, background, history>>

(***************************************************************************)
(* The background refresh: a fan-out of its own, not coalesced.  A project *)
(* that holds the image ends it, and an error, which is possible at any    *)
(* time here, leaves the cache as it is.                                   *)
(***************************************************************************)
RefreshDone(r) ==
  /\ refresh[r] = "lookup"
  /\ \/ /\ \E p \in upstream[key[r]] : fresh' = [fresh EXCEPT ![r] = p]
        /\ refresh' = [refresh EXCEPT ![r] = "fill"]
     \/ /\ refresh' = [refresh EXCEPT ![r] = "over"]
        /\ UNCHANGED fresh
  /\ UNCHANGED <<flight, handler, caches, fanouts, history>>

\* Mutant of RefreshFill: the project is stored without its timestamp.
RefreshFillBare(r) ==
  /\ refresh[r] = "fill"
  /\ refresh' = [refresh EXCEPT ![r] = "fillImage"]
  /\ cache' = [cache EXCEPT ![key[r]] = fresh[r]]
  /\ UNCHANGED <<flight, handler, image, fanouts, fresh, history>>

RefreshFill(r) ==
  /\ refresh[r] = "fill"
  /\ refresh' = [refresh EXCEPT ![r] = "fillImage"]
  /\ cache' = [cache EXCEPT ![key[r]] = Fresh(fresh[r])]
  /\ UNCHANGED <<flight, handler, image, fanouts, fresh, history>>

RefreshFillImage(r) ==
  /\ refresh[r] = "fillImage"
  /\ refresh' = [refresh EXCEPT ![r] = "over"]
  /\ image' = fresh[r]
  /\ UNCHANGED <<flight, handler, cache, fanouts, fresh, history>>

-----------------------------------------------------------------------------
(***************************************************************************)
(* The environment: clients hang up, which drops the handler where it is   *)
(* suspended but not a refresh it has spawned; entries age and expire; the *)
(* content of the registry changes; time passes.                           *)
(***************************************************************************)
Cancel(r) ==
  /\ r \in Disconnecting
  /\ \/ stage[r] \in {"get", "fetch", "evict", "fillImage"} /\ UNCHANGED flight
     \/ At(r, "coalesce") /\ phase[r] = "returned" /\ answer[r] # Failed /\ UNCHANGED flight
     \/ At(r, "coalesce") /\ SF!Cancel(r)
  /\ stage' = [stage EXCEPT ![r] = "gone"]
  /\ UNCHANGED <<target, since, caches, fanouts, background, history>>

GrowStale(k) ==
  /\ Revalidate
  /\ cache[k] \in Mappings /\ ~cache[k].stale
  /\ cache' = [cache EXCEPT ![k].stale = TRUE]
  /\ UNCHANGED <<flight, handler, image, fanouts, background, history>>

\* With revalidation on, a mapping outlives the cache TTL.
Expire(k) ==
  /\ cache[k] # NoEntry
  /\ cache[k] \in Mappings => cache[k].stale = Revalidate
  /\ cache' = [cache EXCEPT ![k] = NoEntry]
  /\ UNCHANGED <<flight, handler, image, fanouts, background, history>>

ExpireImage ==
  /\ image # NoEntry
  /\ image' = NoEntry
  /\ UNCHANGED <<flight, handler, cache, fanouts, background, history>>

Change(k, p) ==
  /\ Len(history) <= MaxChanges
  /\ history' = Append(history, [upstream EXCEPT ![k] = IF p \in @ THEN @ \ {p} ELSE @ \cup {p}])
  /\ UNCHANGED <<flight, handler, caches, fanouts, background>>

Tick ==
  /\ SF!Tick
  /\ UNCHANGED <<handler, caches, fanouts, background, history>>

-----------------------------------------------------------------------------
Handle(r) ==
  \/ Get(r) \/ FetchServes(r) \/ FetchFails(r) \/ Evict(r)
  \/ Lead(r) \/ LookupDone(r) \/ Coalesce(r) \/ GiveUp(r) \/ Fill(r) \/ FillImage(r)

Refresh(r) == RefreshDone(r) \/ RefreshFill(r) \/ RefreshFillImage(r)

Environment ==
  \/ \E r \in Requests : Cancel(r)
  \/ \E k \in Keys : GrowStale(k) \/ Expire(k) \/ \E p \in Projects : Change(k, p)
  \/ ExpireImage

Next ==
  \/ \E r \in Requests : Handle(r) \/ Refresh(r)
  \/ \E r \in Requests, p \in Projects : CrossOff(r, p)
  \/ Environment \/ Tick

Spec == Init /\ [][Next]_vars

\* A request that has arrived is scheduled, projects answer within the probe
\* timeout, and time passes.
FairSpec ==
  /\ Spec
  /\ WF_vars(Tick)
  /\ \A r \in Requests : /\ WF_vars(Handle(r)) /\ WF_vars(Refresh(r))
                        /\ WF_vars(\E p \in Projects : CrossOff(r, p))

-----------------------------------------------------------------------------
(***************************************************************************)
(* Properties.                                                             *)
(***************************************************************************)
Final == {"served", "notfound", "failed", "gone"}

TypeOK ==
  /\ SF!TypeOK
  /\ stage \in [Requests -> Final \cup {"get", "fetch", "evict", "coalesce", "fillImage"}]
  /\ target \in [Requests -> Mappings \cup {NoEntry}]
  /\ since \in [Requests -> 1 .. Len(history)]
  /\ cache \in [Keys -> Mappings \cup {NoEntry, Negative}]
  /\ image \in Projects \cup {NoEntry}
  /\ left \in [Requests -> SUBSET Projects]
  /\ erred \in [Requests -> BOOLEAN]
  /\ refresh \in [Requests -> {"none", "lookup", "fill", "fillImage", "over"}]
  /\ fresh \in [Requests -> Projects \cup {NoEntry}]
  /\ history \in Seq([Keys -> SUBSET Projects])
  /\ Len(history) <= MaxChanges + 1

\* The projects that have held k at some moment, and at every moment, since
\* the history had length n.
HeldSince(k, n)   == UNION {history[i][k] : i \in n .. Len(history)}
SteadySince(k, n) == {p \in Projects : \A i \in n .. Len(history) : p \in history[i][k]}

\* The request whose lookup answered r: r itself or the leader it joined.
Source(r) == IF tx[r] = NoFlight THEN r ELSE tx[r]

\* What a request returns was held by its project while the request, or the
\* leader it shared the lookup with, was at work: the cache says where to
\* look and never answers by itself.
ServedWasHeld ==
  \A r \in Requests :
    stage[r] = "served" =>
      LET p == IF tx[r] = NoFlight THEN target[r].project ELSE answer[r].project
      IN  p \in HeldSince(key[r], since[Source(r)])

\* Every entry, for manifests or for blobs, names a project that held the
\* image at some time, whichever of the concurrent writers wrote it last.
EntriesWereTrue ==
  /\ \A k \in Keys : cache[k] \in Mappings => cache[k].project \in HeldSince(k, 1)
  /\ image # NoEntry => image \in UNION {HeldSince(k, 1) : k \in Keys}

\* An image that a healthy project holds all the while is found, even when
\* the cached mapping points elsewhere: `not found` is only the answer of a
\* lookup during which no such project held it, or of a negative entry.
SteadyImageIsFound ==
  \A r \in Requests :
    stage[r] = "notfound" /\ tx[r] # NoFlight =>
      SteadySince(key[r], since[Source(r)]) \subseteq Outages

\* The fan-out of request r, which asks every project once r leads.
Fanout(r) == INSTANCE Lookup
               WITH asked <- Projects,
                    left <- IF tx[r] = r THEN left[r] ELSE Projects,
                    erred <- tx[r] = r /\ erred[r],
                    outcome <- IF tx[r] = r THEN answer[r] ELSE NoValue,
                    NoOutcome <- NoValue

\* The composition uses its parts as their modules assume: singleflight, of
\* whose requests all that is proved there holds, and in each of them the
\* fan-out, of which Lookup says what Fanout keeps.
UsesItsParts ==
  /\ SF!Spec
  /\ \A r \in Requests : Fanout(r)!Init
  /\ [][\A r \in Requests : [Fanout(r)!Next]_(Fanout(r)!absvars)]_vars

\* Every request that reached the router is answered or dropped, through
\* retries, eviction, the fan-out and the writing back.
EveryRequestEnds == \A r \in Requests : <>(stage[r] \in Final)

=============================================================================
