-------------------------- MODULE HotImagesProofs --------------------------
(***************************************************************************)
(* Proofs about HotImages: type correctness, and the limit on the tracked  *)
(* images, for any number of threads and images and any limit.             *)
(*                                                                         *)
(* TrackedWithinLimit speaks of the map between two requests, and is not   *)
(* inductive: while a request is being counted the map may be over its     *)
(* limit.  The invariant that is charges every tracked image that was      *)
(* counted once, and has not escaped, to a thread that is going to remove  *)
(* it: Kept are the images that nobody is charged with, and they are never *)
(* more than the limit.                                                    *)
(***************************************************************************)
EXTENDS HotImages, FiniteSetTheorems, TLAPS

\* What the scan of thread t has still to meet.
Ahead(t) == {Shards[s] : s \in cursor[t] .. Len(Shards)}

\* Thread t has counted i and will remove it, unless i is counted again
\* before the scan meets it.
Charged(t, i) ==
  /\ recorded[t] = i
  /\ \/ stage[t] = "check"
     \/ stage[t] = "scan" /\ i \in doomed[t] \cup Ahead(t)
     \/ stage[t] = "evict" /\ i \in doomed[t]

Kept ==
  {i \in Tracked \ excess : counts[i] > 1 \/ \A t \in Threads : ~Charged(t, i)}

\* Where the scan of each thread stands.
ScansInRange ==
  \A t \in Threads :
    /\ stage[t] \in {"idle", "check"} => cursor[t] = 1
    /\ stage[t] = "scan" => cursor[t] <= Len(Shards)

KeptWithinLimit == Cardinality(Kept) <= MaxTracked

IndInv == TypeOK /\ ScansInRange /\ KeptWithinLimit

-----------------------------------------------------------------------------
(***************************************************************************)
(* Cardinalities.                                                          *)
(***************************************************************************)
USE ShardsAssumption, NoEntryAssumption

LEMMA Limits ==
  /\ MaxTracked \in Nat \ {0} /\ MaxCount \in Nat \ {0}
  /\ Cached \subseteq Images /\ \A t \in Threads : Requested[t] \subseteq Images
BY LimitsAssumption

USE Limits

LEMMA ImagesFinite == IsFiniteSet(Images)
<1>1. Shards \in [1 .. Len(Shards) -> Images] /\ Len(Shards) \in Nat
  OBVIOUS
<1>2. Shards \in Surjection(1 .. Len(Shards), Images)
  BY <1>1 DEF Surjection
<1>3. IsFiniteSet(1 .. Len(Shards))
  BY <1>1, FS_Interval
<1> QED BY <1>2, <1>3, FS_Surjection

LEMMA SomeSize ==
  ASSUME NEW S \in SUBSET Images
  PROVE  IsFiniteSet(S) /\ Cardinality(S) \in Nat
BY ImagesFinite, FS_Subset, FS_CardinalityType

LEMMA SmallerSize ==
  ASSUME NEW S \in SUBSET Images, NEW T \in SUBSET S
  PROVE  Cardinality(T) <= Cardinality(S)
BY SomeSize, FS_Subset

LEMMA UnionSize ==
  ASSUME NEW S \in SUBSET Images, NEW T \in SUBSET Images
  PROVE  Cardinality(S \cup T) <= Cardinality(S) + Cardinality(T)
<1>1. Cardinality(S) \in Nat /\ Cardinality(T) \in Nat /\ Cardinality(S \cap T) \in Nat
  <2>1. S \cap T \in SUBSET Images
    OBVIOUS
  <2> QED BY <2>1, SomeSize
<1>2. Cardinality(S \cup T) = Cardinality(S) + Cardinality(T) - Cardinality(S \cap T)
  BY SomeSize, FS_Union
<1> QED BY <1>1, <1>2

-----------------------------------------------------------------------------
(***************************************************************************)
(* Types.                                                                  *)
(***************************************************************************)
LEMMA InitTyped == Init => TypeOK /\ ScansInRange
<1> SUFFICES ASSUME Init PROVE TypeOK /\ ScansInRange
  OBVIOUS
<1>1. told \in BOOLEAN
  BY Zenon DEF Init
<1>2. /\ counts = [i \in Images |-> 0] /\ stage = [t \in Threads |-> "idle"]
      /\ recorded = [t \in Threads |-> NoEntry] /\ cursor = [t \in Threads |-> 1]
      /\ doomed = [t \in Threads |-> {}] /\ excess = {}
      /\ cache = NoMappings /\ snapshot = NoMappings /\ mappings = NoMappings
      /\ warmer = "load" /\ todo = {}
  BY Zenon DEF Init
<1> QED
  BY <1>1, <1>2 DEF TypeOK, ScansInRange, Tracked, NoMappings

\* A map over its limit holds an image, so a scan has something to meet.
LEMMA ScanHasWork ==
  ASSUME Cardinality(Tracked) > MaxTracked
  PROVE  Len(Shards) >= 1
<1>1. Cardinality({}) = 0
  BY FS_EmptySet
<1>2. Tracked # {}
  BY <1>1
<1>3. PICK i \in Images : TRUE
  BY <1>2 DEF Tracked
<1> QED BY <1>3

LEMMA EscapedTyped ==
  ASSUME TypeOK, counts' \in [Images -> 0 .. MaxCount], NEW S, Escaped(S)
  PROVE  excess' \subseteq Tracked'
BY DEF Escaped

LEMMA CountingTyped ==
  ASSUME TypeOK, ScansInRange, NEW t \in Threads,
         Serve(t) \/ \E i \in Requested[t] : Record(t, i)
  PROVE  TypeOK' /\ ScansInRange'
<1> USE DEF TypeOK, ScansInRange, warming
<1>1. ASSUME NEW i \in Requested[t], Record(t, i) PROVE TypeOK' /\ ScansInRange'
  <2>1. i \in Images /\ counts' \in [Images -> 0 .. MaxCount]
    <3>0. i \in Images /\ MaxCount \in Nat
      OBVIOUS
    <3>1. counts' = [counts EXCEPT ![i] = IF @ < MaxCount THEN @ + 1 ELSE @]
      BY <1>1 DEF Record
    <3>2. (IF counts[i] < MaxCount THEN counts[i] + 1 ELSE counts[i]) \in 0 .. MaxCount
      BY <3>0
    <3> QED BY <3>0, <3>1, <3>2
  <2>2. excess' \subseteq Tracked'
    BY <1>1, <2>1, EscapedTyped DEF Record
  <2> QED BY <1>1, <2>1, <2>2 DEF Record, Busy
<1>2. ASSUME Check(t) PROVE TypeOK' /\ ScansInRange'
  <2>1. excess' \subseteq Tracked'
    BY <1>2 DEF Check, Tracked
  <2>2. CASE Cardinality(Tracked) > MaxTracked
    <3>1. /\ stage[t] = "check" /\ stage' = [stage EXCEPT ![t] = "scan"]
          /\ UNCHANGED <<counts, recorded, cursor, doomed, cache, snapshot, warming>>
      BY <1>2, <2>2 DEF Check
    <3>2. Len(Shards) >= 1
      BY <2>2, ScanHasWork
    <3> QED BY <2>1, <3>1, <3>2
  <2>3. CASE ~(Cardinality(Tracked) > MaxTracked)
    <3>1. Return(t) /\ UNCHANGED <<counts, doomed, cache, snapshot, warming>>
      BY <1>2, <2>3 DEF Check
    <3> QED BY <2>1, <3>1 DEF Return
  <2> QED BY <2>2, <2>3
<1>3. ASSUME Scan(t) PROVE TypeOK' /\ ScansInRange'
  <2>1. Shards[cursor[t]] \in Images /\ cursor[t] \in 1 .. Len(Shards)
    BY <1>3 DEF Scan
  <2>2. excess' \subseteq Tracked'
    BY <1>3, EscapedTyped DEF Scan
  <2>3. doomed' \in [Threads -> SUBSET Images]
    BY <1>3, <2>1 DEF Scan
  <2>4. /\ cursor' \in [Threads -> 1 .. Len(Shards) + 1]
        /\ stage' \in [Threads -> {"idle", "check", "scan", "evict"}]
    BY <1>3, <2>1 DEF Scan
  <2>5. ScansInRange'
    BY <1>3, <2>1, <2>4 DEF Scan
  <2> QED BY <1>3, <2>2, <2>3, <2>4, <2>5 DEF Scan
<1>4. ASSUME Evict(t) PROVE TypeOK' /\ ScansInRange'
  <2>1. CASE doomed[t] = {} /\ Return(t) /\ UNCHANGED <<counts, excess, doomed>>
    BY <1>4, <2>1 DEF Evict, Return, Tracked
  <2>2. ASSUME NEW i \in doomed[t],
               counts' = [counts EXCEPT ![i] = 0], Escaped({}),
               doomed' = [doomed EXCEPT ![t] = @ \ {i}],
               UNCHANGED <<stage, recorded, cursor>>
        PROVE  TypeOK' /\ ScansInRange'
    <3>1. counts' \in [Images -> 0 .. MaxCount]
      BY <2>2
    <3>2. excess' \subseteq Tracked'
      BY <2>2, <3>1, EscapedTyped
    <3> QED BY <1>4, <2>2, <3>1, <3>2 DEF Evict
  <2> QED BY <1>4, <2>1, <2>2 DEF Evict
<1> QED BY <1>1, <1>2, <1>3, <1>4 DEF Serve

LEMMA WarmerTyped ==
  ASSUME TypeOK, ScansInRange, Warmer \/ Stop
  PROVE  TypeOK' /\ ScansInRange'
<1> USE DEF TypeOK, ScansInRange, counting, Tracked, NoMappings
<1>1. CASE Load
  BY <1>1 DEF Load
<1>2. CASE Warm
  <2>1. UNCHANGED <<counting, snapshot, told>>
    BY <1>2 DEF Warm
  <2>2. CASE UNCHANGED <<cache, todo>>
    BY <1>2, <2>1, <2>2 DEF Warm
  <2>3. ASSUME NEW i \in todo, cache' = [cache EXCEPT ![i] = mappings[i]],
               todo' = todo \ {i}, UNCHANGED <<warmer, mappings>>
        PROVE  TypeOK' /\ ScansInRange'
    BY <2>1, <2>3
  <2> QED BY <1>2, <2>2, <2>3 DEF Warm
<1>3. CASE Tick
  BY <1>3 DEF Tick, TopImages
<1>4. CASE Collect
  BY <1>4 DEF Collect
<1>5. CASE Persist
  BY <1>5 DEF Persist
<1>6. CASE Stop
  BY <1>6 DEF Stop
<1> QED BY <1>1, <1>2, <1>3, <1>4, <1>5, <1>6 DEF Warmer

LEMMA EnvironmentTyped ==
  ASSUME TypeOK, ScansInRange, (\E i \in Cached : Lookup(i)) \/ Signal \/ Replace \/ Restart
  PROVE  TypeOK' /\ ScansInRange'
<1> USE DEF TypeOK, ScansInRange, counting, warming, Tracked, NoMappings
<1>1. ASSUME NEW i \in Cached, Lookup(i) PROVE TypeOK' /\ ScansInRange'
  <2>1. cache' \in [Images -> Projects \cup {Negative, NoEntry}]
    <3>1. PICK e \in Projects \cup {Negative, NoEntry} : cache' = [cache EXCEPT ![i] = e]
      BY <1>1 DEF Lookup
    <3> QED BY <3>1
  <2> QED BY <1>1, <2>1 DEF Lookup
<1>2. CASE Replace
  BY <1>2 DEF Replace
<1>3. CASE Restart
  <2>1. told' \in BOOLEAN
    BY <1>3, Zenon DEF Restart
  <2>2. /\ counts' = [i \in Images |-> 0] /\ stage' = [t \in Threads |-> "idle"]
        /\ recorded' = [t \in Threads |-> NoEntry] /\ cursor' = [t \in Threads |-> 1]
        /\ doomed' = [t \in Threads |-> {}] /\ excess' = {}
        /\ warmer' = "load" /\ todo' = {} /\ mappings' = NoMappings
        /\ UNCHANGED <<cache, snapshot>>
    BY <1>3, Zenon DEF Restart
  <2> QED BY <2>1, <2>2
<1>4. CASE Signal
  BY <1>4 DEF Signal
<1> QED BY <1>1, <1>2, <1>3, <1>4

LEMMA StepTyped == TypeOK /\ ScansInRange /\ [Next]_vars => TypeOK' /\ ScansInRange'
<1>1. ASSUME TypeOK, ScansInRange, UNCHANGED vars PROVE TypeOK' /\ ScansInRange'
  BY <1>1 DEF vars, counting, warming, TypeOK, ScansInRange, Tracked
<1> QED BY <1>1, CountingTyped, WarmerTyped, EnvironmentTyped DEF Next

-----------------------------------------------------------------------------
(***************************************************************************)
(* The limit.                                                              *)
(***************************************************************************)
LEMMA KeptIsTracked == Kept \subseteq Tracked /\ Tracked \subseteq Images
BY DEF Kept, Tracked

\* A step keeps the invariant if it leaves the map within its limit, or if
\* nothing is kept after it that was not kept before.
LEMMA KeptShrinks ==
  ASSUME KeptWithinLimit, Kept' \subseteq Kept \/ Cardinality(Tracked') <= MaxTracked
  PROVE  KeptWithinLimit'
<1>1. Kept' \in SUBSET Tracked' /\ Tracked' \in SUBSET Images /\ Kept \in SUBSET Images
  BY DEF Kept, Tracked
<1>2. CASE Cardinality(Tracked') <= MaxTracked
  <2>1. Cardinality(Kept') <= Cardinality(Tracked')
    BY <1>1, SmallerSize
  <2> QED BY <1>1, <1>2, <2>1, SomeSize DEF KeptWithinLimit
<1>3. CASE Kept' \subseteq Kept
  <2>1. Cardinality(Kept') <= Cardinality(Kept)
    BY <1>1, <1>3, SmallerSize
  <2> QED BY <1>1, <2>1, SomeSize DEF KeptWithinLimit
<1> QED BY <1>2, <1>3

LEMMA RecordKeeps ==
  ASSUME TypeOK, KeptWithinLimit, NEW t \in Threads, NEW i \in Images, Record(t, i)
  PROVE  KeptWithinLimit'
<1> SUFFICES ASSUME Cardinality(Tracked') > MaxTracked, NEW j \in Kept' PROVE j \in Kept
  <2>1. Cardinality(Tracked') <= MaxTracked \/ Cardinality(Tracked') > MaxTracked
    <3>1. Tracked' \in SUBSET Images
      BY DEF Tracked
    <3> QED BY <3>1, SomeSize
  <2> QED BY <2>1, KeptShrinks
<1>1. /\ excess' = (excess \cup (IF counts[i] = 1 /\ \E u \in Threads : recorded[u] = i
                                   THEN {i} ELSE {})) \cap Tracked'
      /\ counts' = [counts EXCEPT ![i] = IF @ < MaxCount THEN @ + 1 ELSE @]
      /\ stage' = [stage EXCEPT ![t] = "check"] /\ stage[t] = "idle"
      /\ recorded' = [recorded EXCEPT ![t] = i]
      /\ UNCHANGED <<cursor, doomed>>
  <2>1. ~(Cardinality(Tracked') <= MaxTracked)
    <3>1. Tracked' \in SUBSET Images
      BY DEF Tracked
    <3> QED BY <3>1, SomeSize
  <2> QED BY <2>1 DEF Record, Escaped, Busy
<1>2. /\ j \in Images /\ counts'[j] > 0 /\ j \notin excess' /\ j \in Tracked'
      /\ counts'[j] > 1 \/ \A u \in Threads : ~Charged(u, j)'
  BY DEF Kept, Tracked
<1>3. j \notin excess
  BY <1>1, <1>2
<1>4. CASE j # i
  <2>1. counts[j] = counts'[j]
    BY <1>1, <1>2, <1>4 DEF TypeOK
  <2>2. ASSUME NEW u \in Threads, Charged(u, j) PROVE Charged(u, j)'
    BY <1>1, <2>2 DEF Charged, Ahead, TypeOK
  <2> QED BY <1>2, <1>3, <2>1, <2>2 DEF Kept, Tracked
<1>5. CASE j = i
  <2>1. Charged(t, i)'
    BY <1>1 DEF Charged, TypeOK
  <2>2. counts'[i] > 1 /\ counts[i] \in 0 .. MaxCount
    BY <1>2, <1>5, <2>1 DEF TypeOK
  <2>3. counts[i] >= 1
    BY <1>1, <2>2 DEF TypeOK
  <2>4. counts[i] = 1 => \A u \in Threads : ~Charged(u, i)
    BY <1>1, <1>2, <1>5 DEF Charged
  <2> QED BY <1>2, <1>3, <1>5, <2>2, <2>3, <2>4 DEF Kept, Tracked
<1> QED BY <1>4, <1>5

\* A step that leaves the counts alone, keeps what has escaped, and leaves
\* every charge with a thread, or lets its image escape.
LEMMA ChargesKept ==
  ASSUME TypeOK, KeptWithinLimit, UNCHANGED counts, excess \subseteq excess',
         \A j \in Images \ excess', u \in Threads :
            Charged(u, j) /\ counts[j] = 1 => Charged(u, j)'
  PROVE  KeptWithinLimit'
<1>1. Tracked' = Tracked
  BY DEF Tracked
<1>2. ASSUME NEW j \in Kept' PROVE j \in Kept
  <2>1. /\ j \in Images /\ j \in Tracked /\ j \notin excess' /\ j \notin excess
        /\ counts[j] > 1 \/ \A u \in Threads : ~Charged(u, j)'
    BY <1>1, <1>2 DEF Kept, Tracked
  <2> QED BY <2>1 DEF Kept, Tracked, TypeOK
<1> QED BY <1>2, KeptShrinks

LEMMA CheckKeeps ==
  ASSUME TypeOK, ScansInRange, KeptWithinLimit, NEW t \in Threads, Check(t)
  PROVE  KeptWithinLimit'
<1>1. stage[t] = "check" /\ cursor[t] = 1 /\ UNCHANGED <<counts, doomed, excess>>
  BY DEF Check, ScansInRange
<1>2. CASE Cardinality(Tracked) > MaxTracked
  <2>1. stage' = [stage EXCEPT ![t] = "scan"] /\ UNCHANGED <<recorded, cursor>>
    BY <1>2 DEF Check
  <2>2. ASSUME NEW j \in Images, NEW u \in Threads, Charged(u, j) PROVE Charged(u, j)'
    <3>1. CASE u = t
      <4>1. PICK s \in 1 .. Len(Shards) : Shards[s] = j
        OBVIOUS
      <4> QED BY <1>1, <2>1, <2>2, <3>1, <4>1 DEF Charged, Ahead, TypeOK
    <3>2. CASE u # t
      BY <1>1, <2>1, <2>2, <3>2 DEF Charged, Ahead, TypeOK
    <3> QED BY <3>1, <3>2
  <2> QED BY <1>1, <2>2, ChargesKept
<1>3. CASE ~(Cardinality(Tracked) > MaxTracked)
  <2>1. Tracked' = Tracked /\ Tracked \in SUBSET Images
    BY <1>1 DEF Tracked
  <2>2. Cardinality(Tracked) \in Nat
    BY <2>1, SomeSize
  <2>3. Cardinality(Tracked') <= MaxTracked
    BY <1>3, <2>1, <2>2
  <2> QED BY <2>3, KeptShrinks
<1> QED BY <1>2, <1>3

LEMMA ScanKeeps ==
  ASSUME TypeOK, ScansInRange, KeptWithinLimit, NEW t \in Threads, Scan(t)
  PROVE  KeptWithinLimit'
<1> DEFINE i == Shards[cursor[t]]
           met == {Shards[s] : s \in 1 .. cursor[t]}
           full == Cardinality(doomed'[t]) = Batch
<1>1. /\ stage[t] = "scan" /\ cursor[t] \in 1 .. Len(Shards) /\ i \in Images
      /\ doomed' = [doomed EXCEPT ![t] = IF counts[i] = 1 THEN @ \cup {i} ELSE @]
      /\ cursor' = [cursor EXCEPT ![t] = @ + 1]
      /\ stage' = IF cursor[t] = Len(Shards) \/ full THEN [stage EXCEPT ![t] = "evict"] ELSE stage
      /\ UNCHANGED <<counts, recorded>>
      /\ Escaped(IF full THEN {recorded[t]} \ met ELSE {})
  BY DEF Scan, TypeOK, ScansInRange
<1> HIDE DEF full
<1>2. CASE Cardinality(Tracked') <= MaxTracked
  BY <1>2, KeptShrinks
<1>3. CASE ~(Cardinality(Tracked') <= MaxTracked)
  <2>1. excess' = (excess \cup IF full THEN {recorded[t]} \ met ELSE {}) \cap Tracked'
    BY <1>1, <1>3 DEF Escaped
  <2>2. Tracked' = Tracked /\ excess \subseteq excess'
    BY <1>1, <2>1 DEF Tracked, TypeOK
  <2>3. ASSUME NEW j \in Images \ excess', NEW u \in Threads, Charged(u, j), counts[j] = 1
        PROVE  Charged(u, j)'
    <3>1. CASE u # t
      BY <1>1, <2>3, <3>1 DEF Charged, Ahead, TypeOK
    <3>2. CASE u = t /\ (j \in doomed[t] \/ j = i)
      <4>1. j \in doomed'[t] /\ recorded'[t] = j
        BY <1>1, <2>3, <3>2 DEF Charged, TypeOK
      <4>2. stage'[t] \in {"scan", "evict"}
        BY <1>1 DEF TypeOK
      <4> QED BY <3>2, <4>1, <4>2 DEF Charged
    <3>3. CASE u = t /\ j \notin doomed[t] /\ j # i
      <4>1. recorded[t] = j /\ j \in Ahead(t)
        BY <1>1, <2>3, <3>3 DEF Charged
      <4>2. PICK s \in cursor[t] .. Len(Shards) : Shards[s] = j
        BY <4>1 DEF Ahead
      <4>3. s \in cursor[t] + 1 .. Len(Shards)
        BY <1>1, <3>3, <4>2
      <4>4. j \notin met
        BY <1>1, <4>2, <4>3
      <4>5. j \in Tracked'
        BY <1>1, <2>3 DEF Tracked
      <4>6. ~full
        BY <2>1, <2>3, <4>1, <4>4, <4>5
      <4>7. stage'[t] = "scan" /\ cursor'[t] = cursor[t] + 1
        BY <1>1, <4>3, <4>6 DEF TypeOK
      <4>8. j \in Ahead(t)'
        BY <4>2, <4>3, <4>7 DEF Ahead
      <4> QED BY <1>1, <3>3, <4>1, <4>7, <4>8 DEF Charged
    <3> QED BY <3>1, <3>2, <3>3
  <2> QED BY <1>1, <2>2, <2>3, ChargesKept
<1> QED BY <1>2, <1>3

LEMMA EvictKeeps ==
  ASSUME TypeOK, KeptWithinLimit, NEW t \in Threads, Evict(t)
  PROVE  KeptWithinLimit'
<1>1. stage[t] = "evict"
  BY DEF Evict
<1>2. CASE doomed[t] = {} /\ Return(t) /\ UNCHANGED <<counts, excess, doomed>>
  <2>1. ASSUME NEW j \in Images, NEW u \in Threads, Charged(u, j) PROVE Charged(u, j)'
    BY <1>1, <1>2, <2>1 DEF Charged, Ahead, Return, TypeOK
  <2> QED BY <1>2, <2>1, ChargesKept
<1>3. ASSUME NEW i \in doomed[t],
             counts' = [counts EXCEPT ![i] = 0], Escaped({}),
             doomed' = [doomed EXCEPT ![t] = @ \ {i}],
             UNCHANGED <<stage, recorded, cursor>>
      PROVE  KeptWithinLimit'
  <2>1. CASE Cardinality(Tracked') <= MaxTracked
    BY <2>1, KeptShrinks
  <2>2. CASE ~(Cardinality(Tracked') <= MaxTracked)
    <3>1. excess' = excess \cap Tracked'
      BY <1>3, <2>2 DEF Escaped
    <3>2. ASSUME NEW j \in Kept' PROVE j \in Kept
      <4>1. /\ j \in Images /\ counts'[j] > 0 /\ j \notin excess
            /\ counts'[j] > 1 \/ \A u \in Threads : ~Charged(u, j)'
        BY <3>1, <3>2 DEF Kept, Tracked
      <4>2. j # i /\ counts'[j] = counts[j]
        BY <1>3, <4>1 DEF TypeOK
      <4>3. ASSUME NEW u \in Threads, Charged(u, j) PROVE Charged(u, j)'
        BY <1>3, <4>2, <4>3 DEF Charged, Ahead, TypeOK
      <4> QED BY <4>1, <4>2, <4>3 DEF Kept, Tracked
    <3> QED BY <3>2, KeptShrinks
  <2> QED BY <2>1, <2>2
<1> QED BY <1>2, <1>3 DEF Evict

LEMMA InitLimit == Init => KeptWithinLimit
<1> SUFFICES ASSUME Init PROVE KeptWithinLimit
  OBVIOUS
<1>1. Kept = {}
  BY DEF Init, Kept, Tracked
<1> QED BY <1>1, FS_EmptySet DEF KeptWithinLimit

LEMMA StepLimit == TypeOK /\ ScansInRange /\ KeptWithinLimit /\ [Next]_vars => KeptWithinLimit'
<1> SUFFICES ASSUME TypeOK, ScansInRange, KeptWithinLimit, [Next]_vars PROVE KeptWithinLimit'
  OBVIOUS
<1>1. ASSUME NEW t \in Threads, NEW i \in Requested[t], Record(t, i) PROVE KeptWithinLimit'
  BY <1>1, RecordKeeps
<1>2. ASSUME NEW t \in Threads, Serve(t) PROVE KeptWithinLimit'
  BY <1>2, CheckKeeps, ScanKeeps, EvictKeeps DEF Serve
<1>3. CASE Restart
  <2>1. Tracked' = {}
    BY <1>3 DEF Restart, Tracked
  <2>2. Cardinality(Tracked') <= MaxTracked
    BY <2>1, FS_EmptySet
  <2> QED BY <2>2, KeptShrinks
<1>4. CASE UNCHANGED counting
  BY <1>4 DEF counting, KeptWithinLimit, Kept, Tracked, Charged, Ahead
<1>5. UNCHANGED counting \/ Restart
        \/ \E t \in Threads : Serve(t) \/ \E i \in Requested[t] : Record(t, i)
  BY DEF Next, Warmer, Load, Warm, Tick, Collect, Persist, Stop, Signal, Lookup, Replace, vars
<1> QED BY <1>1, <1>2, <1>3, <1>4, <1>5

-----------------------------------------------------------------------------
(***************************************************************************)
(* Theorems.                                                               *)
(***************************************************************************)
\* IndInv holds in every reachable state.
THEOREM Inductive == Spec => []IndInv
<1>1. Init => IndInv
  BY InitTyped, InitLimit DEF IndInv
<1>2. IndInv /\ [Next]_vars => IndInv'
  BY StepTyped, StepLimit DEF IndInv
<1> QED BY <1>1, <1>2, PTL DEF Spec

\* Every variable keeps its type: no cached absence is ever loaded from the
\* snapshot or persisted, and no scan runs past the end of the map.
THEOREM TypeCorrect == Spec => []TypeOK
<1>1. IndInv => TypeOK
  BY DEF IndInv
<1> QED BY <1>1, Inductive, PTL

\* The map of counted images keeps within its limit, but for the images that
\* have escaped their eviction, however the threads' scans and evictions
\* interleave.
THEOREM WithinLimit == Spec => []TrackedWithinLimit
<1>1. ASSUME IndInv PROVE TrackedWithinLimit
  <2> USE <1>1 DEF IndInv, TypeOK
  <2> DEFINE twice == {i \in Images : counts[i] > 1}
  <2>1. Kept \in SUBSET Images /\ excess \in SUBSET Images /\ Tracked \in SUBSET Images
    BY DEF Kept, Tracked
  <2>2. Cardinality(Kept \cup excess) <= Cardinality(Kept) + Cardinality(excess)
    BY <2>1, UnionSize
  <2>3. ASSUME NEW S \in SUBSET (Kept \cup excess)
        PROVE  Cardinality(S) <= MaxTracked + Cardinality(excess)
    <3>1. Kept \cup excess \in SUBSET Images /\ S \in SUBSET Images
      BY <2>1
    <3>2. Cardinality(S) <= Cardinality(Kept \cup excess)
      BY <3>1, SmallerSize
    <3>3. /\ Cardinality(S) \in Nat /\ Cardinality(Kept \cup excess) \in Nat
          /\ Cardinality(Kept) \in Nat /\ Cardinality(excess) \in Nat
      BY <2>1, <3>1, SomeSize
    <3> QED BY <2>2, <3>2, <3>3 DEF KeptWithinLimit
  <2>4. twice \subseteq Kept \cup excess
    BY DEF Kept, Tracked
  <2>5. (\A t \in Threads : ~Busy(t)) => Tracked \subseteq Kept \cup excess
    BY DEF Kept, Busy, Charged
  <2> QED BY <2>3, <2>4, <2>5 DEF TrackedWithinLimit
<1> QED BY <1>1, Inductive, PTL

=============================================================================
