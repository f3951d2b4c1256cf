------------------------------ MODULE HotImages ------------------------------
(***************************************************************************)
(* The most requested images of a pod: how requests are counted            *)
(* (src/src/metrics.rs), and how the mappings of the most requested images *)
(* are persisted at every tick and loaded again by a pod that starts       *)
(* (warm_cache_from_redis and its neighbours in src/src/resolver.rs), up   *)
(* to the moment the pod tells its warm-up task to stop (src/src/main.rs). *)
(*                                                                         *)
(* An image is a key image:reference; requests for blobs are counted in a  *)
(* map of their own by the same code.  The mapping img:image, which the    *)
(* warm-up writes after each entry, is Routing's.                          *)
(***************************************************************************)
EXTENDS Integers, FiniteSets, Sequences

CONSTANTS
  Threads,      \* those that serve requests
  Images,
  Requested,    \* the images each thread is asked for
  Cached,       \* those whose lookups end, in this pod or in another
  Shards,       \* the images in the order in which a scan of the map meets them
  Projects,
  MaxTracked,   \* MAX_TRACKED_IMAGES
  Batch,        \* MAX_TRACKED_IMAGES / 10, how many entries a scan collects
  MinRequests,  \* MIN_REQUESTS_FOR_TOP_N
  TopN,         \* CACHE_WARMUP_TOP_N
  MaxCount,     \* bound: counts are told apart up to this
  NoEntry

ASSUME LimitsAssumption ==
  /\ \A c \in {MaxTracked, Batch, MinRequests, MaxCount} : c \in Nat \ {0}
  /\ MinRequests <= MaxCount
  /\ TopN \in Nat
  /\ Requested \in [Threads -> SUBSET Images] /\ Cached \subseteq Images
ASSUME ShardsAssumption ==
  /\ Shards \in Seq(Images)
  /\ \A i \in Images : \E s \in DOMAIN Shards : Shards[s] = i
  /\ \A r, s \in DOMAIN Shards : Shards[r] = Shards[s] => r = s
ASSUME NoEntryAssumption == NoEntry \notin Projects \cup Images

Negative == "__NEGATIVE__"

VARIABLES
  counts,     \* image_manifest_requests; 0 for an image that is not in the map
  stage,      \* where each thread stands
  recorded,   \* the image it has counted
  cursor,     \* how far its scan is
  doomed,     \* what it is going to remove
  cache,      \* the manifest cache
  snapshot,   \* the entry warmup:mappings
  warmer,     \* where the warm-up task stands
  todo,       \* the images it still has to handle
  mappings,   \* what it has loaded or collected
  told,       \* whether it has been told to stop
  excess      \* history: the images that have escaped their eviction since the
              \* map was last within its limit

counting == <<counts, stage, recorded, cursor, doomed, excess>>
warming == <<warmer, todo, mappings, told>>
vars == <<counting, cache, snapshot, warming>>

Tracked == {i \in Images : counts[i] > 0}
NoMappings == [i \in Images |-> NoEntry]

Init ==
  /\ counts = [i \in Images |-> 0]
  /\ stage = [t \in Threads |-> "idle"]
  /\ recorded = [t \in Threads |-> NoEntry]
  /\ cursor = [t \in Threads |-> 1]
  /\ doomed = [t \in Threads |-> {}]
  /\ excess = {}
  /\ cache = NoMappings
  /\ snapshot = NoMappings
  /\ warmer = "load"
  /\ todo = {}
  /\ mappings = NoMappings
  /\ told = FALSE

-----------------------------------------------------------------------------
(***************************************************************************)
(* record_manifest_request and maybe_evict_manifest_entries.  An entry of  *)
(* the map is changed, visited or removed atomically, the map is not.      *)
(***************************************************************************)
Busy(t) == stage[t] # "idle"

\* The thread has returned.
Return(t) ==
  /\ stage' = [stage EXCEPT ![t] = "idle"]
  /\ recorded' = [recorded EXCEPT ![t] = NoEntry]
  /\ cursor' = [cursor EXCEPT ![t] = 1]

\* The images that escape in this step join those that have before, unless
\* the map is within its limit again.
Escaped(S) ==
  excess' = IF Cardinality(Tracked') <= MaxTracked THEN {} ELSE (excess \cup S) \cap Tracked'

\* An image that is requested again while its first request is still being
\* counted escapes the eviction that this request leads to.
Record(t, i) ==
  /\ ~Busy(t) /\ ~told
  /\ stage' = [stage EXCEPT ![t] = "check"]
  /\ recorded' = [recorded EXCEPT ![t] = i]
  /\ counts' = [counts EXCEPT ![i] = IF @ < MaxCount THEN @ + 1 ELSE @]
  /\ Escaped(IF counts[i] = 1 /\ \E u \in Threads : recorded[u] = i THEN {i} ELSE {})
  /\ UNCHANGED <<cursor, doomed, cache, snapshot, warming>>

\* Mutant of Check: the limit is off by one.
CheckLate(t) ==
  /\ stage[t] = "check"
  /\ IF Cardinality(Tracked) > MaxTracked + 1
       THEN stage' = [stage EXCEPT ![t] = "scan"] /\ UNCHANGED <<recorded, cursor>>
       ELSE Return(t)
  /\ UNCHANGED <<counts, doomed, excess, cache, snapshot, warming>>

Check(t) ==
  /\ stage[t] = "check"
  /\ IF Cardinality(Tracked) > MaxTracked
       THEN stage' = [stage EXCEPT ![t] = "scan"] /\ UNCHANGED <<recorded, cursor>>
       ELSE Return(t)
  /\ UNCHANGED <<counts, doomed, excess, cache, snapshot, warming>>

\* The scan meets the next image, and collects it if it was counted once only.
\* It ends with a full batch, even if it has not met the image just counted.
Scan(t) ==
  LET i == Shards[cursor[t]]
      met == {Shards[s] : s \in 1 .. cursor[t]} IN
  /\ stage[t] = "scan"
  /\ doomed' = [doomed EXCEPT ![t] = IF counts[i] = 1 THEN @ \cup {i} ELSE @]
  /\ cursor' = [cursor EXCEPT ![t] = @ + 1]
  /\ stage' = IF cursor[t] = Len(Shards) \/ Cardinality(doomed'[t]) = Batch
                THEN [stage EXCEPT ![t] = "evict"] ELSE stage
  /\ UNCHANGED <<counts, recorded, cache, snapshot, warming>>
  /\ Escaped(IF Cardinality(doomed'[t]) = Batch THEN {recorded[t]} \ met ELSE {})

\* What was collected is removed, whatever its count is by now.
Evict(t) ==
  /\ stage[t] = "evict"
  /\ \/ \E i \in doomed[t] :
          /\ counts' = [counts EXCEPT ![i] = 0]
          /\ Escaped({})
          /\ doomed' = [doomed EXCEPT ![t] = @ \ {i}]
          /\ UNCHANGED <<stage, recorded, cursor>>
     \/ /\ doomed[t] = {}
        /\ Return(t)
        /\ UNCHANGED <<counts, excess, doomed>>
  /\ UNCHANGED <<cache, snapshot, warming>>

-----------------------------------------------------------------------------
(***************************************************************************)
(* start_cache_warming.                                                    *)
(***************************************************************************)
\* warm_cache_from_redis: the snapshot is read once,
Load ==
  /\ warmer = "load"
  /\ mappings' = snapshot
  /\ todo' = {i \in Images : snapshot[i] # NoEntry}
  /\ warmer' = "warm"
  /\ UNCHANGED <<counting, cache, snapshot, told>>

\* and its mappings are written one by one over what the cache holds.
Warm ==
  /\ warmer = "warm"
  /\ \/ \E i \in todo :
          /\ cache' = [cache EXCEPT ![i] = mappings[i]]
          /\ todo' = todo \ {i}
          /\ UNCHANGED <<warmer, mappings>>
     \/ /\ todo = {}
        /\ warmer' = "wait"
        /\ mappings' = NoMappings
        /\ UNCHANGED <<cache, todo>>
  /\ UNCHANGED <<counting, snapshot, told>>

\* Mutant of TopImages: an image must have been requested more often than that.
TopImagesAbove ==
  LET hot == {i \in Images : counts[i] > MinRequests} IN
  {S \in SUBSET hot :
     /\ Cardinality(S) = IF Cardinality(hot) < TopN THEN Cardinality(hot) ELSE TopN
     /\ \A i \in S, j \in hot \ S : counts[i] >= counts[j]}

\* top_manifest_images: any choice among equals.
TopImages ==
  LET hot == {i \in Images : counts[i] >= MinRequests} IN
  {S \in SUBSET hot :
     /\ Cardinality(S) = IF Cardinality(hot) < TopN THEN Cardinality(hot) ELSE TopN
     /\ \A i \in S, j \in hot \ S : counts[i] >= counts[j]}

\* persist_hot_entries: the entries of the top images are read one by one,
Tick ==
  /\ warmer = "wait"
  /\ todo' \in TopImages \ {{}}
  /\ warmer' = "collect"
  /\ UNCHANGED <<counting, cache, snapshot, mappings, told>>

\* Mutants of Collect: a cached absence is collected as well; an image that is
\* not cached is waited for.
CollectAll ==
  /\ warmer = "collect"
  /\ \E i \in todo :
       /\ mappings' = [mappings EXCEPT ![i] = cache[i]]
       /\ todo' = todo \ {i}
  /\ UNCHANGED <<counting, cache, snapshot, warmer, told>>

CollectPresent ==
  /\ warmer = "collect"
  /\ \E i \in todo :
       /\ cache[i] # NoEntry
       /\ mappings' = [mappings EXCEPT ![i] = IF cache[i] = Negative THEN NoEntry ELSE cache[i]]
       /\ todo' = todo \ {i}
  /\ UNCHANGED <<counting, cache, snapshot, warmer, told>>

Collect ==
  /\ warmer = "collect"
  /\ \E i \in todo :
       /\ mappings' = [mappings EXCEPT ![i] = IF cache[i] = Negative THEN NoEntry ELSE cache[i]]
       /\ todo' = todo \ {i}
  /\ UNCHANGED <<counting, cache, snapshot, warmer, told>>

\* and replace the snapshot, unless there are none.
Persist ==
  /\ warmer = "collect"
  /\ todo = {}
  /\ snapshot' = IF mappings = NoMappings THEN snapshot ELSE mappings
  /\ warmer' = "wait"
  /\ mappings' = NoMappings
  /\ UNCHANGED <<counting, cache, todo, told>>

\* The signal is only looked at between two rounds.
Stop ==
  /\ told
  /\ warmer = "wait"
  /\ warmer' = "stopped"
  /\ UNCHANGED <<counting, cache, snapshot, todo, mappings, told>>

-----------------------------------------------------------------------------
(***************************************************************************)
(* The environment: main, lookups, the other pods, restarts, lifetimes.    *)
(***************************************************************************)
\* main tells the tasks to stop once its servers have returned, and the
\* requests with them.
Signal ==
  /\ ~told
  /\ \A t \in Threads : ~Busy(t)
  /\ told' = TRUE
  /\ UNCHANGED <<counting, cache, snapshot, warmer, todo, mappings>>

\* A lookup finds the image or caches its absence; an entry expires.
Lookup(i) ==
  /\ cache' \in {[cache EXCEPT ![i] = e] : e \in (Projects \cup {Negative, NoEntry}) \ {cache[i]}}
  /\ UNCHANGED <<counting, snapshot, warming>>

\* Another pod replaces the snapshot by its own top images, or it expires.
Replace ==
  /\ \E S \in SUBSET Cached, p \in Projects :
       snapshot' = [i \in Images |-> IF i \in S THEN p ELSE NoEntry]
  /\ UNCHANGED <<counting, cache, warming>>

\* The counts are the pod's own; the cache outlives it in Redis.
Restart ==
  /\ counts' = [i \in Images |-> 0]
  /\ stage' = [t \in Threads |-> "idle"]
  /\ recorded' = [t \in Threads |-> NoEntry]
  /\ cursor' = [t \in Threads |-> 1]
  /\ doomed' = [t \in Threads |-> {}]
  /\ excess' = {}
  /\ warmer' = "load"
  /\ todo' = {}
  /\ mappings' = NoMappings
  /\ told' = FALSE
  /\ UNCHANGED <<cache, snapshot>>

-----------------------------------------------------------------------------
Serve(t) == Check(t) \/ Scan(t) \/ Evict(t)
Warmer == Load \/ Warm \/ Tick \/ Collect \/ Persist

Next ==
  \/ \E t \in Threads : Serve(t) \/ \E i \in Requested[t] : Record(t, i)
  \/ Warmer \/ Signal \/ Stop
  \/ \E i \in Cached : Lookup(i)
  \/ Replace \/ Restart

Spec == Init /\ [][Next]_vars

\* The warm-up task is scheduled and its timer fires.  Between a tick and the
\* signal that are both ready tokio::select! chooses at random, so the signal
\* is not passed over for ever: strong fairness.
FairSpec == Spec /\ WF_vars(Warmer) /\ SF_vars(Stop)

-----------------------------------------------------------------------------
(***************************************************************************)
(* Properties.                                                             *)
(***************************************************************************)
TypeOK ==
  /\ counts \in [Images -> 0 .. MaxCount]
  /\ stage \in [Threads -> {"idle", "check", "scan", "evict"}]
  /\ recorded \in [Threads -> Images \cup {NoEntry}]
  /\ cursor \in [Threads -> 1 .. Len(Shards) + 1]
  /\ doomed \in [Threads -> SUBSET Images]
  /\ excess \subseteq Tracked
  /\ cache \in [Images -> Projects \cup {Negative, NoEntry}]
  /\ snapshot \in [Images -> Projects \cup {NoEntry}]
  /\ warmer \in {"load", "warm", "wait", "collect", "stopped"}
  /\ todo \subseteq Images
  /\ mappings \in [Images -> Projects \cup {NoEntry}]
  /\ told \in BOOLEAN

\* The map keeps within its limit, but for the images that have escaped since
\* it last was.  So once as many images as the limit have been counted twice,
\* every other image is forgotten as soon as it is counted, unless it escapes.
TrackedWithinLimit ==
  /\ Cardinality({i \in Images : counts[i] > 1}) <= MaxTracked + Cardinality(excess)
  /\ (\A t \in Threads : ~Busy(t)) => Cardinality(Tracked) <= MaxTracked + Cardinality(excess)

Leading(i) ==
  /\ counts[i] >= MinRequests
  /\ Cardinality({j \in Images \ {i} : counts[j] >= counts[i]}) < TopN

\* The mapping of an image that stays among the most requested ones, and in
\* the cache, is in the snapshot again and again, although other pods replace
\* it by their own and evictions go on.
HotImagesArePersisted ==
  \A i \in Images :
    <>[](Leading(i) /\ cache[i] \in Projects /\ warmer # "stopped")
      => []<>(snapshot[i] \in Projects)

\* main waits for the warm-up task (main.rs:293), so it must stop when it is
\* told to: wherever it then is, in the warm-up or in a round, and although
\* entries go and the ticks go on.  A pod killed meanwhile starts anew.
WarmUpStops == told ~> (warmer = "stopped" \/ ~told)

=============================================================================
