------------------------------ MODULE Routing ------------------------------
(***************************************************************************)
(* The HTTP front end (src/src/proxy.rs, with the rate limiter of          *)
(* src/src/main.rs) and the two lookups that do without singleflight and   *)
(* circuit breaker: blobs, which follow the mappings that manifests have   *)
(* left, and tag lists (Resolver::resolve_tags).                           *)
(*                                                                         *)
(* All requests are about one image.  Of resolve_manifest this module has  *)
(* what Resolver shows: it finds the manifest in a project that holds it   *)
(* and writes the two mappings, or caches its absence.                     *)
(***************************************************************************)
EXTENDS Integers, FiniteSets, SequencesExt

CONSTANTS
  Requests,
  Paths,          \* the paths asked for, as sequences of segments
  References,     \* of manifests and blobs; a blob may have the digest of a manifest
  Lists,          \* what discovery may have found when a request looks
  Projects,
  Contents,       \* what the projects may hold of the image at first
  Outages,        \* projects that may answer with an error, or not in time
                  \* (for a manifest, whose circuit may be open)
  Disconnecting,  \* requests whose client may hang up
  Limiting,       \* whether RATE_LIMIT_PER_IP is set
  MaxFanout,
  MaxChanges,     \* bound: how often the content of the registry changes
  NoEntry

ASSUME RegistryAssumption ==
  /\ \A l \in Lists : l \in Seq(Projects)
  /\ Contents \subseteq [Projects -> SUBSET {"manifest", "blob"}]
  /\ Outages \subseteq Projects
  /\ Limiting \in BOOLEAN
  /\ MaxFanout \in Nat /\ MaxChanges \in Nat
  /\ NoEntry \notin Projects

ASSUME RequestsAssumption == IsFiniteSet(Requests) /\ Disconnecting \subseteq Requests

Negative == "__NEGATIVE__"

-----------------------------------------------------------------------------
(***************************************************************************)
(* Paths.  An empty segment stands for a doubled or trailing slash.        *)
(***************************************************************************)
BadPath == [kind |-> "bad", image |-> <<>>, ref |-> ""]

Named(path, i, kind) == [kind |-> kind, image |-> SubSeq(path, 1, i - 1),
                         ref |-> path[Len(path)]]

\* rfind("/manifests/"), rfind("/blobs/"): the last segment of that name that
\* is neither the first nor the last.
LastAt(path, name) ==
  LET S == {i \in 2 .. Len(path) - 1 : path[i] = name}
  IN  IF S = {} THEN 0 ELSE CHOOSE i \in S : \A j \in S : j <= i

\* No empty image, and no slash at either end of it; what follows the name is
\* a reference only if it is a single segment.
SafeImage(image) == image # <<>> /\ image[1] # "" /\ image[Len(image)] # ""

Reference(path, i, kind) ==
  IF i = Len(path) - 1 /\ path[Len(path)] # "" /\ SafeImage(SubSeq(path, 1, i - 1))
    THEN Named(path, i, kind) ELSE BadPath

\* parse_path: the suffix /tags/list first, then /manifests/, then /blobs/.
parse_path(path) ==
  LET n == Len(path)
      m == LastAt(path, "manifests")
      b == LastAt(path, "blobs")
  IN  CASE n > 2 /\ SubSeq(path, n - 1, n) = <<"tags", "list">> ->
             IF SafeImage(SubSeq(path, 1, n - 2)) THEN Named(path, n - 1, "tags") ELSE BadPath
        [] OTHER -> IF m # 0 THEN Reference(path, m, "manifest")
                    ELSE IF b # 0 THEN Reference(path, b, "blob") ELSE BadPath

\* What the path says by its last two segments.  An image name may have a
\* segment `manifests`, and its blobs are then refused.
UnderstoodAs(path) ==
  LET n == Len(path)  end == SubSeq(path, n - 1, n) IN
  CASE n < 3 \/ path[n] = "" \/ ~SafeImage(SubSeq(path, 1, n - 2)) -> "bad"
    [] OTHER -> CASE end = <<"tags", "list">> -> "tags"
                  [] end[1] = "manifests" -> "manifest"
                  [] end[1] = "blobs" /\ "manifests" \notin ToSet(SubSeq(path, 2, n - 2)) -> "blob"
                  [] OTHER -> "bad"

\* normalize_docker_library_image
Normalize(image) == IF Len(image) = 1 THEN <<"library">> \o image ELSE image

ASSUME OneImage ==
  Cardinality({Normalize(parse_path(p).image) : p \in Paths} \ {Normalize(<<>>)}) <= 1

ASSUME ReferencesAssumption ==
  \A p \in Paths : parse_path(p).kind \in {"manifest", "blob"} => parse_path(p).ref \in References

-----------------------------------------------------------------------------
VARIABLES
  stage,       \* where each request stands
  path,        \* what it asks for, once it is let in
  target,      \* the project it works with
  left,        \* the projects whose reply it still awaits
  status,      \* the status of its response, 0 before
  entry,       \* the cache entries image:reference
  image,       \* the entry img:image
  tags,        \* the entry tags:image
  inflight,    \* the gauge inflight_requests
  total,       \* the counter requests_total, by class of status
  discovered,  \* the project list
  content,     \* what each project holds of the image
  changes,     \* how often that has changed
  steady       \* history: the projects that have held all the while what a request asks for

request == <<stage, path, target, left, status>>
caches == <<entry, image, tags>>
counters == <<inflight, total>>
registry == <<discovered, content, changes>>
vars == <<request, caches, counters, registry, steady>>

Kind(r) == parse_path(path[r]).kind
Ref(r)  == parse_path(path[r]).ref

\* Manifests are asked for by tag or digest; a project lists tags if it has
\* the image.
Holds(p, kind) == IF kind = "tags" THEN content[p] # {} ELSE kind \in content[p]
Holding(kind)  == {p \in Projects : Holds(p, kind)}
Listed == ToSet(discovered)

\* The projects a lookup asks.
Considered == ToSet(SubSeq(discovered, 1, IF MaxFanout < Len(discovered)
                                       THEN MaxFanout ELSE Len(discovered)))

Classes == {"2xx", "3xx", "4xx", "5xx"}
Class(s) == CASE s \in 200 .. 299 -> "2xx"
              [] s \in 300 .. 399 -> "3xx"
              [] s \in 400 .. 499 -> "4xx"
              [] OTHER -> "5xx"

Init ==
  /\ stage = [r \in Requests |-> "new"]
  /\ path = [r \in Requests |-> <<>>]
  /\ target = [r \in Requests |-> NoEntry]
  /\ left = [r \in Requests |-> {}]
  /\ status = [r \in Requests |-> 0]
  /\ entry = [k \in References |-> NoEntry]
  /\ image = NoEntry
  /\ tags = NoEntry
  /\ inflight = 0
  /\ total = [c \in Classes |-> 0]
  /\ discovered \in Lists
  /\ content \in Contents
  /\ changes = 0
  /\ steady = [r \in Requests |-> {}]

At(r, s) == stage[r] = s
Move(r, from, to) == At(r, from) /\ stage' = [stage EXCEPT ![r] = to]
Count(s) == total' = [total EXCEPT ![Class(s)] = @ + 1]

\* The handler returns: its guard is dropped, and the middleware counts the
\* response.
Respond(r, s, to) ==
  /\ stage' = [stage EXCEPT ![r] = to]
  /\ status' = [status EXCEPT ![r] = s]
  /\ inflight' = inflight - 1
  /\ Count(s)

-----------------------------------------------------------------------------
(***************************************************************************)
(* The middleware and registry_handler.                                    *)
(***************************************************************************)
Limit(r) ==
  /\ Limiting
  /\ Move(r, "new", "done")
  /\ status' = [status EXCEPT ![r] = 429]
  /\ Count(429)
  /\ UNCHANGED <<path, target, left, inflight, caches, registry, steady>>

\* No Authorization header, or a path that cannot be parsed.
Refuse(r, p) ==
  /\ Move(r, "new", "done")
  /\ \E s \in {403} \cup (IF parse_path(p) = BadPath THEN {400} ELSE {}) :
       status' = [status EXCEPT ![r] = s]
  /\ Count(403)
  /\ UNCHANGED <<path, target, left, inflight, caches, registry, steady>>

FirstStage == [manifest |-> "manifest", blob |-> "digest", tags |-> "tags"]

Enter(r, p) ==
  /\ parse_path(p) # BadPath
  /\ Move(r, "new", FirstStage[parse_path(p).kind])
  /\ path' = [path EXCEPT ![r] = p]
  /\ inflight' = inflight + 1
  /\ steady' = [steady EXCEPT ![r] = Holding(parse_path(p).kind)]
  /\ UNCHANGED <<target, left, status, total, caches, registry>>

-----------------------------------------------------------------------------
(***************************************************************************)
(* handle_manifest, as far as the other two depend on it.                  *)
(***************************************************************************)
\* The manifest of a cached mapping that still holds, or the cached absence.
ManifestHit(r) ==
  LET e == entry[Ref(r)] IN
  /\ At(r, "manifest")
  /\ \/ e = Negative /\ Respond(r, 404, "done")
     \/ e \in Holding("manifest") /\ Respond(r, 200, "done")
  /\ UNCHANGED <<path, target, left, caches, registry, steady>>

\* A mapping that fails is evicted.  The lookup ends with a project that holds
\* the manifest or, if those that do are out of reach or not asked, with an
\* error, which may be cached.
ManifestLookup(r) ==
  /\ At(r, "manifest")
  /\ entry[Ref(r)] \notin Holding("manifest") \ Outages
  /\ entry[Ref(r)] # Negative
  /\ \/ \E p \in Holding("manifest") \cap Considered :
          /\ stage' = [stage EXCEPT ![r] = "fill"]
          /\ target' = [target EXCEPT ![r] = p]
          /\ entry' = [entry EXCEPT ![Ref(r)] = NoEntry]
          /\ UNCHANGED <<status, counters>>
     \/ /\ Holding("manifest") \cap Considered \subseteq Outages
        /\ Respond(r, 404, "done")
        /\ \E e \in {Negative, NoEntry} :
             /\ e = Negative => Considered # {}
             /\ entry' = [entry EXCEPT ![Ref(r)] = e]
        /\ UNCHANGED target
  /\ UNCHANGED <<path, left, image, tags, registry, steady>>

Fill(r) ==
  /\ Move(r, "fill", "fillImage")
  /\ entry' = [entry EXCEPT ![Ref(r)] = target[r]]
  /\ UNCHANGED <<path, target, left, status, image, tags, counters, registry, steady>>

FillImage(r) ==
  /\ At(r, "fillImage")
  /\ image' = target[r]
  /\ Respond(r, 200, "done")
  /\ UNCHANGED <<path, target, left, entry, tags, registry, steady>>

-----------------------------------------------------------------------------
(***************************************************************************)
(* handle_blob: the two mappings, the probe, the proxied request.          *)
(***************************************************************************)
Route(r, p) == stage' = [stage EXCEPT ![r] = "proxy"] /\ target' = [target EXCEPT ![r] = p]

\* cached_project: whatever the entry says, the sentinel included.
GetDigest(r) ==
  /\ At(r, "digest")
  /\ IF entry[Ref(r)] # NoEntry
       THEN Route(r, entry[Ref(r)])
       ELSE stage' = [stage EXCEPT ![r] = "image"] /\ UNCHANGED target
  /\ UNCHANGED <<path, left, status, caches, counters, registry, steady>>

\* Ask sends a request to each of the projects S and goes on in stage s, or
\* gives up when there is none.
Ask(r, S, s) ==
  /\ left' = [left EXCEPT ![r] = S]
  /\ steady' = [steady EXCEPT ![r] = @ \cap S]
  /\ IF S = {} THEN Respond(r, 404, "done")
               ELSE stage' = [stage EXCEPT ![r] = s] /\ UNCHANGED <<status, counters>>

GetImage(r) ==
  /\ At(r, "image")
  /\ \/ /\ image # NoEntry
        /\ Route(r, image)
        /\ UNCHANGED <<left, status, counters, steady>>
     \/ /\ image = NoEntry
        /\ Ask(r, Listed, "probe")
        /\ UNCHANGED target
  /\ UNCHANGED <<path, caches, registry>>

\* A reply to a request sent to all: p has what r asks for, and is taken, or
\* it is crossed off; an error on the way counts as no.  The last of them
\* decides.
Replied(r, p, s) ==
  /\ p \in left[r]
  /\ \/ /\ Holds(p, Kind(r))
        /\ stage' = [stage EXCEPT ![r] = s]
        /\ target' = [target EXCEPT ![r] = p]
        /\ left' = [left EXCEPT ![r] = {}]
        /\ UNCHANGED <<status, counters>>
     \/ /\ Holds(p, Kind(r)) => p \in Outages
        /\ left' = [left EXCEPT ![r] = @ \ {p}]
        /\ IF left[r] = {p} THEN Respond(r, 404, "done")
                            ELSE UNCHANGED <<stage, status, counters>>
        /\ UNCHANGED target
  /\ UNCHANGED <<path, caches, registry, steady>>

\* Mutant of ProbeReply: the first answer is taken for the verdict.
ProbeReplyFirst(r, p) ==
  /\ At(r, "probe")
  /\ p \in left[r]
  /\ left' = [left EXCEPT ![r] = {}]
  /\ IF Holds(p, Kind(r)) THEN Route(r, p) /\ UNCHANGED <<status, counters>>
                          ELSE Respond(r, 404, "done") /\ UNCHANGED target
  /\ UNCHANGED <<path, caches, registry, steady>>

\* probe_blob_project: neither breakers nor max_fanout apply.
ProbeReply(r, p) == At(r, "probe") /\ Replied(r, p, "proxy")

\* proxy_blob: the status of the project's reply is passed on, a 404 and a
\* redirection to Harbor's storage too, and the body is streamed after the
\* handler has returned.
Proxy(r) ==
  LET has == target[r] \in Projects /\ Holds(target[r], "blob") IN
  /\ At(r, "proxy")
  /\ \/ has /\ \E s \in {200, 307} : Respond(r, s, "streaming")
     \/ ~has /\ Respond(r, 404, "done")
     \/ target[r] \in Outages /\ Respond(r, 502, "done")
  /\ UNCHANGED <<path, target, left, caches, registry, steady>>

Stream(r) ==
  /\ Move(r, "streaming", "done")
  /\ UNCHANGED <<path, target, left, status, caches, counters, registry, steady>>

-----------------------------------------------------------------------------
(***************************************************************************)
(* resolve_tags.                                                           *)
(***************************************************************************)
GetTags(r) ==
  /\ At(r, "tags")
  /\ \/ /\ tags # NoEntry
        /\ stage' = [stage EXCEPT ![r] = "fetchTags"]
        /\ target' = [target EXCEPT ![r] = tags]
        /\ UNCHANGED <<left, status, counters, steady>>
     \/ /\ tags = NoEntry
        /\ Ask(r, Considered, "fanout")
        /\ UNCHANGED target
  /\ UNCHANGED <<path, caches, registry>>

\* Mutant of FetchTags: a project that no longer has the image is believed.
FetchTagsFinal(r) ==
  /\ At(r, "fetchTags")
  /\ Respond(r, IF Holds(target[r], "tags") THEN 200 ELSE 404, "done")
  /\ UNCHANGED <<path, target, left, caches, registry, steady>>

\* Anything but a 200 evicts the mapping and leads to the fan-out.
FetchTags(r) ==
  /\ At(r, "fetchTags")
  /\ \/ Holds(target[r], "tags") /\ Respond(r, 200, "done")
     \/ /\ Holds(target[r], "tags") => target[r] \in Outages
        /\ stage' = [stage EXCEPT ![r] = "evictTags"]
        /\ UNCHANGED <<status, counters>>
  /\ UNCHANGED <<path, target, left, caches, registry, steady>>

\* Mutant of EvictTags: the mapping is replaced by the sentinel.
EvictTagsNegative(r) ==
  /\ At(r, "evictTags")
  /\ tags' = Negative
  /\ Ask(r, Considered, "fanout")
  /\ UNCHANGED <<path, target, entry, image, registry>>

EvictTags(r) ==
  /\ At(r, "evictTags")
  /\ tags' = NoEntry
  /\ Ask(r, Considered, "fanout")
  /\ UNCHANGED <<path, target, entry, image, registry>>

TagsReply(r, p) == At(r, "fanout") /\ Replied(r, p, "storeTags")

StoreTags(r) ==
  /\ At(r, "storeTags")
  /\ tags' = target[r]
  /\ Respond(r, 200, "done")
  /\ UNCHANGED <<path, target, left, entry, image, registry, steady>>

-----------------------------------------------------------------------------
(***************************************************************************)
(* The environment.                                                        *)
(***************************************************************************)
Running == {r \in Requests : stage[r] \notin {"new", "streaming", "done", "gone"}}

\* Mutant of Cancel: the gauge is decremented where the handler returns.
CancelUnguarded(r) ==
  /\ r \in Disconnecting
  /\ r \in Running \/ At(r, "streaming")
  /\ stage' = [stage EXCEPT ![r] = "gone"]
  /\ UNCHANGED <<path, target, left, status, inflight, total, caches, registry, steady>>

\* The client hangs up: the handler is dropped with its guard, or the body.
Cancel(r) ==
  /\ r \in Disconnecting
  /\ r \in Running \/ At(r, "streaming")
  /\ stage' = [stage EXCEPT ![r] = "gone"]
  /\ inflight' = IF r \in Running THEN inflight - 1 ELSE inflight
  /\ UNCHANGED <<path, target, left, status, total, caches, registry, steady>>

ExpireEntry(k) ==
  /\ entry[k] # NoEntry
  /\ entry' = [entry EXCEPT ![k] = NoEntry]
  /\ UNCHANGED <<request, image, tags, counters, registry, steady>>

ExpireMapping ==
  /\ \/ image # NoEntry /\ image' = NoEntry /\ UNCHANGED tags
     \/ tags # NoEntry /\ tags' = NoEntry /\ UNCHANGED image
  /\ UNCHANGED <<request, entry, counters, registry, steady>>

\* The warm-up of a pod that starts: each mapping of its snapshot, of any age,
\* is written over the entry, then over img:image (HotImages).
Warm(p) ==
  /\ \/ \E k \in References : entry' = [entry EXCEPT ![k] = p] /\ UNCHANGED image
     \/ image' = p /\ UNCHANGED entry
  /\ UNCHANGED <<request, tags, counters, registry, steady>>

Change(p, what) ==
  /\ changes < MaxChanges
  /\ changes' = changes + 1
  /\ content' = [content EXCEPT ![p] = IF what \in @ THEN @ \ {what} ELSE @ \cup {what}]
  /\ steady' = [r \in Requests |->
                  {q \in steady[r] : IF Kind(r) = "tags" THEN content'[q] # {}
                                                          ELSE Kind(r) \in content'[q]}]
  /\ UNCHANGED <<request, caches, counters, discovered>>

Rediscover ==
  /\ discovered' \in Lists \ {discovered}
  /\ UNCHANGED <<request, caches, counters, content, changes, steady>>

-----------------------------------------------------------------------------
Handle(r) ==
  \/ ManifestHit(r) \/ ManifestLookup(r) \/ Fill(r) \/ FillImage(r)
  \/ GetDigest(r) \/ GetImage(r) \/ Proxy(r) \/ Stream(r)
  \/ GetTags(r) \/ FetchTags(r) \/ EvictTags(r) \/ StoreTags(r)
  \/ \E p \in Projects : ProbeReply(r, p) \/ TagsReply(r, p)

Next ==
  \/ \E r \in Requests :
       \/ Limit(r) \/ Handle(r) \/ Cancel(r)
       \/ \E p \in Paths : Refuse(r, p) \/ Enter(r, p)
  \/ \E k \in References : ExpireEntry(k)
  \/ ExpireMapping \/ Rediscover
  \/ \E p \in Projects : Warm(p)
  \/ \E p \in Projects, what \in {"manifest", "blob"} : Change(p, what)

Spec == Init /\ [][Next]_vars

-----------------------------------------------------------------------------
(***************************************************************************)
(* Properties.                                                             *)
(***************************************************************************)
Stages == {"new", "manifest", "fill", "fillImage", "digest", "image", "probe", "proxy",
           "streaming", "tags", "fetchTags", "evictTags", "fanout", "storeTags", "done", "gone"}

TypeOK ==
  /\ stage \in [Requests -> Stages]
  /\ path \in [Requests -> Paths \cup {<<>>}]
  /\ target \in [Requests -> Projects \cup {Negative, NoEntry}]
  /\ left \in [Requests -> SUBSET Projects]
  /\ status \in [Requests -> {0, 200, 307, 400, 403, 404, 429, 502}]
  /\ entry \in [References -> Projects \cup {Negative, NoEntry}]
  /\ image \in Projects \cup {NoEntry}
  /\ tags \in Projects \cup {NoEntry}
  /\ inflight \in Nat
  /\ total \in [Classes -> Nat]
  /\ discovered \in Lists
  /\ content \in [Projects -> SUBSET {"manifest", "blob"}]
  /\ changes \in 0 .. MaxChanges
  /\ steady \in [Requests -> SUBSET Projects]

\* The gauge inflight_requests counts the handlers that run, wherever requests
\* are refused, answered or dropped, and requests_total every response once.
\* A body that is still being streamed is not in flight.
RequestsAreCounted ==
  /\ inflight = Cardinality(Running)
  /\ \A c \in Classes :
       total[c] = Cardinality({r \in Requests : status[r] # 0 /\ Class(status[r]) = c})

Healthy(r) == steady[r] \ Outages

\* A blob that a healthy, discovered project holds all the while is only
\* missed by following a mapping, or a probe, to another project: the probe
\* itself overlooks nothing.  A mapping may be of another reference of the
\* image, or the sentinel of a manifest that was not found.
BlobMissesHaveCause ==
  \A r \in Requests :
    status[r] \in {404, 502} /\ Kind(r) = "blob" =>
      Healthy(r) = {} \/ target[r] \notin Healthy(r) \cup {NoEntry}

\* A tag list, in contrast, is found wherever a healthy project among the
\* first max_fanout has the image all the while: a mapping that fails is
\* evicted, and every project is asked.
TagsAreFound ==
  \A r \in Requests : status[r] = 404 /\ Kind(r) = "tags" => Healthy(r) = {}

=============================================================================
