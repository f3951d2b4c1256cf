--------------------------- MODULE RoutingProofs ---------------------------
(***************************************************************************)
(* Proofs about Routing, for any number of requests, paths, projects and   *)
(* project lists: type correctness, the gauge and the counters of          *)
(* requests, and what a blob or a tag list that is not found says about    *)
(* the projects.  How a path is parsed plays no part but for its kind and  *)
(* its reference: that is for the runs.                                    *)
(***************************************************************************)
EXTENDS Routing, FiniteSetTheorems, TLAPS

-----------------------------------------------------------------------------
(***************************************************************************)
(* The inductive invariant.                                                *)
(***************************************************************************)
\* A request that has been let in is handled as the kind its path says.
KindsMatch ==
  \A r \in Requests :
    /\ stage[r] \in {"manifest", "fill", "fillImage"} => Kind(r) = "manifest"
    /\ stage[r] \in {"digest", "image", "probe", "proxy", "streaming"} => Kind(r) = "blob"
    /\ stage[r] \in {"tags", "fetchTags", "evictTags", "fanout", "storeTags"} => Kind(r) = "tags"
    /\ Kind(r) \in {"manifest", "blob"} => Ref(r) \in References

\* A request has no response while its handler runs.
Pending == \A r \in Requests : stage[r] \notin {"streaming", "done", "gone"} => status[r] = 0

\* What a request works with when it uses it.
TargetsSet ==
  \A r \in Requests :
    /\ stage[r] \in {"fill", "fillImage", "fetchTags", "storeTags"} => target[r] \in Projects
    /\ stage[r] = "proxy" => target[r] # NoEntry

\* A project that has held all the while what a request asks for holds it now,
\* and if it is healthy its reply is awaited as long as any is.
SteadyAwaited ==
  \A r \in Requests :
    /\ steady[r] \subseteq Holding(Kind(r))
    /\ stage[r] \in {"probe", "fanout"} => Healthy(r) \subseteq left[r]

Answered(c) == {r \in Requests : status[r] # 0 /\ Class(status[r]) = c}

Typed == TypeOK /\ KindsMatch /\ Pending /\ TargetsSet /\ SteadyAwaited

IndInv == Typed /\ RequestsAreCounted /\ BlobMissesHaveCause /\ TagsAreFound

-----------------------------------------------------------------------------
(***************************************************************************)
(* Paths and project lists.                                                *)
(***************************************************************************)
USE RegistryAssumption, RequestsAssumption

LEMMA ParsedKinds ==
  /\ \A p : parse_path(p) # BadPath => parse_path(p).kind \in {"manifest", "blob", "tags"}
  /\ parse_path(<<>>).kind = "bad"
<1>1. \A p, i, k : Named(p, i, k).kind = k
  BY DEF Named
<1>2. \A p, i, k : Reference(p, i, k) = BadPath \/ Reference(p, i, k).kind = k
  BY <1>1 DEF Reference
<1>3. \A p : parse_path(p) # BadPath => parse_path(p).kind \in {"manifest", "blob", "tags"}
  BY <1>1, <1>2 DEF parse_path
<1>4. LastAt(<<>>, "manifests") = 0 /\ LastAt(<<>>, "blobs") = 0
  BY DEF LastAt
<1>5. parse_path(<<>>) = BadPath
  BY <1>4 DEF parse_path
<1>6. BadPath.kind = "bad"
  BY DEF BadPath
<1> QED BY <1>3, <1>5, <1>6

LEMMA AskedAreProjects ==
  ASSUME discovered \in Lists
  PROVE  Listed \subseteq Projects /\ Considered \subseteq Projects
<1>1. discovered \in Seq(Projects) /\ MaxFanout \in Nat
  OBVIOUS
<1> DEFINE m == IF MaxFanout < Len(discovered) THEN MaxFanout ELSE Len(discovered)
<1>2. m \in 0 .. Len(discovered)
  BY <1>1
<1>3. SubSeq(discovered, 1, m) \in Seq(Projects)
  BY <1>1, <1>2
<1>4. \A s \in Seq(Projects) : ToSet(s) \subseteq Projects
  BY DEF ToSet
<1> QED BY <1>1, <1>3, <1>4 DEF Listed, Considered

-----------------------------------------------------------------------------
(***************************************************************************)
(* Types.  That the gauge stays a natural number is what RequestsAreCounted*)
(* says; the lemmas of this part take it for granted.                      *)
(***************************************************************************)
LEMMA InitTyped == Init => TypeOK
BY DEF Init, TypeOK, Stages, Classes

LEMMA ClassTyped == \A s : Class(s) \in Classes
BY DEF Class, Classes

LEMMA RespondTyped ==
  ASSUME TypeOK, NEW r \in Requests, NEW s \in {200, 307, 404, 502}, NEW to \in Stages, Respond(r, s, to)
  PROVE  /\ stage' \in [Requests -> Stages]
         /\ status' \in [Requests -> {0, 200, 307, 400, 403, 404, 429, 502}]
         /\ total' \in [Classes -> Nat]
<1>1. Class(s) \in Classes
  BY ClassTyped
<1> QED BY <1>1 DEF Respond, Count, TypeOK

LEMMA AskTyped ==
  ASSUME TypeOK, NEW r \in Requests, NEW S \in SUBSET Projects, NEW s \in Stages, Ask(r, S, s)
  PROVE  /\ stage' \in [Requests -> Stages]
         /\ status' \in [Requests -> {0, 200, 307, 400, 403, 404, 429, 502}]
         /\ total' \in [Classes -> Nat]
         /\ left' \in [Requests -> SUBSET Projects]
         /\ steady' \in [Requests -> SUBSET Projects]
<1>1. left' \in [Requests -> SUBSET Projects] /\ steady' \in [Requests -> SUBSET Projects]
  BY DEF Ask, TypeOK
<1>2. CASE Respond(r, 404, "done")
  BY <1>1, <1>2, RespondTyped DEF Stages
<1>3. CASE stage' = [stage EXCEPT ![r] = s] /\ UNCHANGED <<status, counters>>
  BY <1>1, <1>3 DEF TypeOK, counters
<1> QED BY <1>2, <1>3 DEF Ask

LEMMA AdmissionTyped ==
  ASSUME TypeOK, inflight' \in Nat, NEW r \in Requests,
         Limit(r) \/ \E p \in Paths : Refuse(r, p) \/ Enter(r, p)
  PROVE  TypeOK'
<1> USE DEF TypeOK, caches, registry
<1>1. CASE Limit(r)
  <2>1. total' \in [Classes -> Nat]
    BY <1>1, ClassTyped DEF Limit, Count
  <2> QED BY <1>1, <2>1 DEF Limit, Move, Stages
<1>2. ASSUME NEW p \in Paths, Refuse(r, p) PROVE TypeOK'
  <2>1. total' \in [Classes -> Nat]
    BY <1>2, ClassTyped DEF Refuse, Count
  <2>2. status' \in [Requests -> {0, 200, 307, 400, 403, 404, 429, 502}]
    BY <1>2 DEF Refuse
  <2> QED BY <1>2, <2>1, <2>2 DEF Refuse, Move, Stages
<1>3. ASSUME NEW p \in Paths, Enter(r, p) PROVE TypeOK'
  <2>1. FirstStage[parse_path(p).kind] \in Stages
    BY <1>3, ParsedKinds DEF Enter, FirstStage, Stages
  <2>2. Holding(parse_path(p).kind) \subseteq Projects
    BY DEF Holding
  <2> QED BY <1>3, <2>1, <2>2 DEF Enter, Move
<1> QED BY <1>1, <1>2, <1>3

LEMMA ManifestTyped ==
  ASSUME TypeOK, KindsMatch, TargetsSet, inflight' \in Nat, NEW r \in Requests,
         ManifestHit(r) \/ ManifestLookup(r) \/ Fill(r) \/ FillImage(r)
  PROVE  TypeOK'
<1> USE DEF TypeOK, caches, registry
<1>0. "done" \in Stages /\ "fill" \in Stages /\ "fillImage" \in Stages
  BY DEF Stages
<1>1. CASE ManifestHit(r)
  BY <1>0, <1>1, RespondTyped DEF ManifestHit
<1>2. CASE ManifestLookup(r)
  <2>1. CASE Respond(r, 404, "done") /\ UNCHANGED target
    <3>1. entry' \in [References -> Projects \cup {Negative, NoEntry}]
      <4>1. PICK e \in Projects \cup {Negative, NoEntry} : entry' = [entry EXCEPT ![Ref(r)] = e]
        BY <1>2 DEF ManifestLookup
      <4> QED BY <4>1
    <3> QED BY <1>0, <1>2, <2>1, <3>1, RespondTyped DEF ManifestLookup
  <2>2. ASSUME NEW p \in Holding("manifest"),
               stage' = [stage EXCEPT ![r] = "fill"], target' = [target EXCEPT ![r] = p],
               entry' = [entry EXCEPT ![Ref(r)] = NoEntry], UNCHANGED <<status, counters>>
        PROVE  TypeOK'
    <3>1. p \in Projects
      BY DEF Holding
    <3> QED BY <1>0, <1>2, <2>2, <3>1 DEF ManifestLookup, counters
  <2> QED BY <1>2, <2>1, <2>2 DEF ManifestLookup
<1>3. CASE Fill(r)
  <2>1. stage' \in [Requests -> Stages]
    BY <1>0, <1>3 DEF Fill, Move
  <2>2. entry' \in [References -> Projects \cup {Negative, NoEntry}]
    <3>1. target[r] \in Projects
      BY <1>3 DEF Fill, Move, At, TargetsSet
    <3>2. entry' = [entry EXCEPT ![Ref(r)] = target[r]]
      BY <1>3 DEF Fill
    <3> QED BY <3>1, <3>2
  <2>3. UNCHANGED <<path, target, left, status, image, tags, counters, registry, steady>>
    BY <1>3 DEF Fill
  <2> QED BY <2>1, <2>2, <2>3 DEF counters
<1>4. CASE FillImage(r)
  <2>1. target[r] \in Projects
    BY <1>4 DEF FillImage, At, TargetsSet
  <2> QED BY <1>0, <1>4, <2>1, RespondTyped DEF FillImage
<1> QED BY <1>1, <1>2, <1>3, <1>4

LEMMA RepliedTyped ==
  ASSUME TypeOK, inflight' \in Nat, NEW r \in Requests, NEW p \in Projects, NEW s \in Stages,
         Replied(r, p, s)
  PROVE  TypeOK'
<1> USE DEF TypeOK, caches, registry
<1>1. CASE /\ stage' = [stage EXCEPT ![r] = s] /\ target' = [target EXCEPT ![r] = p]
           /\ left' = [left EXCEPT ![r] = {}] /\ UNCHANGED <<status, counters>>
  BY <1>1 DEF Replied, counters
<1>2. CASE /\ left' = [left EXCEPT ![r] = @ \ {p}] /\ UNCHANGED target
           /\ Respond(r, 404, "done") \/ UNCHANGED <<stage, status, counters>>
  <2>1. left' \in [Requests -> SUBSET Projects]
    BY <1>2
  <2>2. CASE Respond(r, 404, "done")
    <3>1. "done" \in Stages
      BY DEF Stages
    <3>2. UNCHANGED <<path, caches, registry, steady>>
      BY DEF Replied
    <3> QED BY <1>2, <2>1, <2>2, <3>1, <3>2, RespondTyped
  <2>3. CASE UNCHANGED <<stage, status, counters>>
    BY <1>2, <2>1, <2>3 DEF Replied, counters
  <2> QED BY <1>2, <2>2, <2>3
<1> QED BY <1>1, <1>2 DEF Replied

LEMMA BlobTyped ==
  ASSUME TypeOK, KindsMatch, TargetsSet, inflight' \in Nat, NEW r \in Requests,
         \/ GetDigest(r) \/ GetImage(r) \/ Proxy(r) \/ Stream(r)
         \/ \E p \in Projects : ProbeReply(r, p)
  PROVE  TypeOK'
<1> USE DEF TypeOK, caches, registry
<1>0. {"image", "probe", "proxy", "streaming", "done"} \subseteq Stages
  BY DEF Stages
<1>1. CASE GetDigest(r)
  <2>1. Ref(r) \in References
    BY <1>1 DEF GetDigest, At, KindsMatch
  <2>2. entry[Ref(r)] \in Projects \cup {Negative, NoEntry}
    BY <2>1
  <2>3. stage' \in [Requests -> Stages] /\ target' \in [Requests -> Projects \cup {Negative, NoEntry}]
    <3>1. CASE Route(r, entry[Ref(r)])
      BY <1>0, <2>2, <3>1 DEF Route
    <3>2. CASE stage' = [stage EXCEPT ![r] = "image"] /\ UNCHANGED target
      BY <1>0, <3>2
    <3> QED BY <1>1, <3>1, <3>2 DEF GetDigest
  <2> QED BY <1>1, <2>3 DEF GetDigest, counters
<1>2. CASE GetImage(r)
  <2>1. CASE Route(r, image) /\ UNCHANGED <<left, status, counters, steady>>
    BY <1>0, <1>2, <2>1 DEF GetImage, Route, counters
  <2>2. CASE Ask(r, Listed, "probe") /\ UNCHANGED target
    <3>1. Listed \in SUBSET Projects /\ "probe" \in Stages
      BY <1>0, AskedAreProjects
    <3>2. UNCHANGED <<path, caches, registry>>
      BY <1>2 DEF GetImage
    <3>3. /\ stage' \in [Requests -> Stages]
          /\ status' \in [Requests -> {0, 200, 307, 400, 403, 404, 429, 502}]
          /\ total' \in [Classes -> Nat]
          /\ left' \in [Requests -> SUBSET Projects]
          /\ steady' \in [Requests -> SUBSET Projects]
      BY <2>2, <3>1, AskTyped
    <3> QED BY <2>2, <3>2, <3>3
  <2> QED BY <1>2, <2>1, <2>2 DEF GetImage
<1>3. CASE Proxy(r)
  <2>1. \E s \in {200, 307, 404, 502}, to \in Stages : Respond(r, s, to)
    BY <1>0, <1>3 DEF Proxy
  <2> QED BY <1>3, <2>1, RespondTyped DEF Proxy
<1>4. CASE Stream(r)
  BY <1>0, <1>4 DEF Stream, Move, counters
<1>5. ASSUME NEW p \in Projects, ProbeReply(r, p) PROVE TypeOK'
  BY <1>0, <1>5, RepliedTyped DEF ProbeReply
<1> QED BY <1>1, <1>2, <1>3, <1>4, <1>5

LEMMA TagsTyped ==
  ASSUME TypeOK, TargetsSet, inflight' \in Nat, NEW r \in Requests,
         \/ GetTags(r) \/ FetchTags(r) \/ EvictTags(r) \/ StoreTags(r)
         \/ \E p \in Projects : TagsReply(r, p)
  PROVE  TypeOK'
<1> USE DEF TypeOK, caches, registry
<1>0. {"fetchTags", "evictTags", "fanout", "storeTags", "done"} \subseteq Stages
  BY DEF Stages
<1>1. CASE GetTags(r)
  <2>1. CASE /\ stage' = [stage EXCEPT ![r] = "fetchTags"] /\ target' = [target EXCEPT ![r] = tags]
             /\ UNCHANGED <<left, status, counters, steady>>
    BY <1>0, <1>1, <2>1 DEF GetTags, counters
  <2>2. CASE Ask(r, Considered, "fanout") /\ UNCHANGED target
    <3>1. Considered \in SUBSET Projects /\ "fanout" \in Stages
      BY <1>0, AskedAreProjects
    <3>2. UNCHANGED <<path, caches, registry>>
      BY <1>1 DEF GetTags
    <3>3. /\ stage' \in [Requests -> Stages]
          /\ status' \in [Requests -> {0, 200, 307, 400, 403, 404, 429, 502}]
          /\ total' \in [Classes -> Nat]
          /\ left' \in [Requests -> SUBSET Projects]
          /\ steady' \in [Requests -> SUBSET Projects]
      BY <2>2, <3>1, AskTyped
    <3> QED BY <2>2, <3>2, <3>3
  <2> QED BY <1>1, <2>1, <2>2 DEF GetTags
<1>2. CASE FetchTags(r)
  <2>1. CASE Respond(r, 200, "done")
    BY <1>0, <1>2, <2>1, RespondTyped DEF FetchTags
  <2>2. CASE stage' = [stage EXCEPT ![r] = "evictTags"] /\ UNCHANGED <<status, counters>>
    BY <1>0, <1>2, <2>2 DEF FetchTags, counters
  <2> QED BY <1>2, <2>1, <2>2 DEF FetchTags
<1>3. CASE EvictTags(r)
  <2>1. Considered \in SUBSET Projects /\ "fanout" \in Stages
    BY <1>0, AskedAreProjects
  <2>2. Ask(r, Considered, "fanout") /\ tags' = NoEntry /\ UNCHANGED <<path, target, entry, image, registry>>
    BY <1>3 DEF EvictTags
  <2>3. /\ stage' \in [Requests -> Stages]
        /\ status' \in [Requests -> {0, 200, 307, 400, 403, 404, 429, 502}]
        /\ total' \in [Classes -> Nat]
        /\ left' \in [Requests -> SUBSET Projects]
        /\ steady' \in [Requests -> SUBSET Projects]
    BY <2>1, <2>2, AskTyped
  <2> QED BY <2>2, <2>3
<1>4. CASE StoreTags(r)
  <2>1. target[r] \in Projects
    BY <1>4 DEF StoreTags, At, TargetsSet
  <2> QED BY <1>0, <1>4, <2>1, RespondTyped DEF StoreTags
<1>5. ASSUME NEW p \in Projects, TagsReply(r, p) PROVE TypeOK'
  BY <1>0, <1>5, RepliedTyped DEF TagsReply
<1> QED BY <1>1, <1>2, <1>3, <1>4, <1>5

Environment ==
  \/ \E r \in Requests : Cancel(r)
  \/ \E k \in References : ExpireEntry(k)
  \/ ExpireMapping \/ Rediscover
  \/ \E p \in Projects : Warm(p)
  \/ \E p \in Projects, what \in {"manifest", "blob"} : Change(p, what)

LEMMA EnvironmentTyped ==
  ASSUME TypeOK, inflight' \in Nat, Environment
  PROVE  TypeOK'
<1> USE DEF TypeOK, caches, registry, counters, request
<1>1. ASSUME NEW r \in Requests, Cancel(r) PROVE TypeOK'
  BY <1>1 DEF Cancel, Stages
<1>2. ASSUME NEW k \in References, ExpireEntry(k) PROVE TypeOK'
  BY <1>2 DEF ExpireEntry
<1>3. CASE ExpireMapping
  BY <1>3 DEF ExpireMapping
<1>4. CASE Rediscover
  BY <1>4 DEF Rediscover
<1>5. ASSUME NEW p \in Projects, Warm(p) PROVE TypeOK'
  <2>1. CASE image' = p /\ UNCHANGED entry
    BY <1>5, <2>1 DEF Warm
  <2>2. ASSUME NEW k \in References, entry' = [entry EXCEPT ![k] = p], UNCHANGED image PROVE TypeOK'
    BY <1>5, <2>2 DEF Warm
  <2> QED BY <1>5, <2>1, <2>2 DEF Warm
<1>6. ASSUME NEW p \in Projects, NEW what \in {"manifest", "blob"}, Change(p, what) PROVE TypeOK'
  <2>1. content' \in [Projects -> SUBSET {"manifest", "blob"}]
    BY <1>6 DEF Change
  <2>2. steady' \in [Requests -> SUBSET Projects]
    BY <1>6 DEF Change
  <2> QED BY <1>6, <2>1, <2>2 DEF Change
<1> QED BY <1>1, <1>2, <1>3, <1>4, <1>5, <1>6 DEF Environment

LEMMA StepTyped ==
  ASSUME TypeOK, KindsMatch, TargetsSet, inflight' \in Nat, [Next]_vars
  PROVE  TypeOK'
<1>1. CASE UNCHANGED vars
  BY <1>1 DEF vars, request, caches, counters, registry, TypeOK
<1>2. ASSUME NEW r \in Requests, Handle(r) PROVE TypeOK'
  BY <1>2, ManifestTyped, BlobTyped, TagsTyped DEF Handle
<1>3. ASSUME NEW r \in Requests, Limit(r) \/ \E p \in Paths : Refuse(r, p) \/ Enter(r, p) PROVE TypeOK'
  BY <1>3, AdmissionTyped
<1> QED BY <1>1, <1>2, <1>3, EnvironmentTyped DEF Next, Environment

-----------------------------------------------------------------------------
(***************************************************************************)
(* The counters.  Whatever a step does, it does one of these things to the *)
(* stage and the status of a request and to the counters.                  *)
(***************************************************************************)
RunningStages == Stages \ {"new", "streaming", "done", "gone"}

Answers(r) ==
  /\ stage[r] \in RunningStages
  /\ \E s \in {200, 307, 404, 502}, to \in {"streaming", "done"} : Respond(r, s, to)

Rejects(r) ==
  /\ Move(r, "new", "done")
  /\ \E s \in Nat : s # 0 /\ Class(s) = "4xx" /\ status' = [status EXCEPT ![r] = s]
  /\ total' = [total EXCEPT !["4xx"] = @ + 1]
  /\ UNCHANGED inflight

Enters(r) ==
  /\ \E s \in RunningStages : Move(r, "new", s)
  /\ inflight' = inflight + 1
  /\ UNCHANGED <<status, total>>

GoesOn(r) ==
  /\ \E s \in RunningStages : stage[r] \in RunningStages /\ stage' = [stage EXCEPT ![r] = s]
  /\ UNCHANGED <<status, counters>>

Leaves(r) ==
  /\ stage[r] \in RunningStages
  /\ stage' = [stage EXCEPT ![r] = "gone"]
  /\ inflight' = inflight - 1
  /\ UNCHANGED <<status, total>>

Ends(r) ==
  /\ \E s \in {"done", "gone"} : Move(r, "streaming", s)
  /\ UNCHANGED <<status, counters>>

LEMMA RunningDef == \A r \in Requests : TypeOK => (r \in Running <=> stage[r] \in RunningStages)
BY DEF Running, RunningStages, TypeOK

LEMMA ClassValues ==
  /\ Class(200) = "2xx" /\ Class(307) = "3xx" /\ Class(502) = "5xx"
  /\ \A s \in {400, 403, 404, 429} : Class(s) = "4xx"
BY DEF Class

LEMMA HandlerShapes ==
  ASSUME TypeOK, NEW r \in Requests, Handle(r)
  PROVE  Answers(r) \/ GoesOn(r) \/ Ends(r) \/ UNCHANGED <<stage, status, counters>>
<1> USE DEF Answers, GoesOn, Ends, RunningStages, Stages, At, Move
<1>1. CASE ManifestHit(r)
  BY <1>1 DEF ManifestHit
<1>2. CASE ManifestLookup(r)
  BY <1>2 DEF ManifestLookup
<1>3. CASE Fill(r)
  <2>1. stage[r] = "fill" /\ stage' = [stage EXCEPT ![r] = "fillImage"]
    BY <1>3 DEF Fill
  <2>2. UNCHANGED <<status, counters>>
    BY <1>3 DEF Fill
  <2>3. GoesOn(r)
    <3>1. "fill" \in RunningStages /\ "fillImage" \in RunningStages
      OBVIOUS
    <3> QED BY <2>1, <2>2, <3>1, Zenon DEF GoesOn
  <2> QED BY <2>3
<1>4. CASE FillImage(r)
  BY <1>4 DEF FillImage
<1>5. CASE GetDigest(r)
  BY <1>5 DEF GetDigest, Route
<1>6. CASE GetImage(r)
  BY <1>6 DEF GetImage, Ask, Route
<1>7. CASE Proxy(r)
  BY <1>7 DEF Proxy
<1>8. CASE Stream(r)
  BY <1>8 DEF Stream
<1>9. CASE GetTags(r)
  BY <1>9 DEF GetTags, Ask
<1>10. CASE FetchTags(r)
  BY <1>10 DEF FetchTags
<1>11. CASE EvictTags(r)
  BY <1>11 DEF EvictTags, Ask
<1>12. CASE StoreTags(r)
  BY <1>12 DEF StoreTags
<1>13. ASSUME NEW p \in Projects, ProbeReply(r, p)
       PROVE  Answers(r) \/ GoesOn(r) \/ UNCHANGED <<stage, status, counters>>
  BY <1>13 DEF ProbeReply, Replied
<1>14. ASSUME NEW p \in Projects, TagsReply(r, p)
       PROVE  Answers(r) \/ GoesOn(r) \/ UNCHANGED <<stage, status, counters>>
  BY <1>14 DEF TagsReply, Replied
<1> QED BY <1>1, <1>2, <1>3, <1>4, <1>5, <1>6, <1>7, <1>8, <1>9, <1>10, <1>11, <1>12, <1>13, <1>14
        DEF Handle

LEMMA Shapes ==
  ASSUME TypeOK, [Next]_vars
  PROVE  \/ UNCHANGED <<stage, status, counters>>
         \/ \E r \in Requests :
              Answers(r) \/ Rejects(r) \/ Enters(r) \/ GoesOn(r) \/ Leaves(r) \/ Ends(r)
<1>1. ASSUME NEW r \in Requests, Limit(r) PROVE Rejects(r)
  <2>1. Class(429) = "4xx"
    BY ClassValues
  <2>2. \E s \in Nat : s # 0 /\ Class(s) = "4xx" /\ status' = [status EXCEPT ![r] = s]
    <3>1. status' = [status EXCEPT ![r] = 429]
      BY <1>1 DEF Limit
    <3>2. 429 \in Nat /\ 429 # 0
      OBVIOUS
    <3> QED BY <2>1, <3>1, <3>2, Zenon
  <2> QED BY <1>1, <2>1, <2>2 DEF Limit, Rejects, Count
<1>2. ASSUME NEW r \in Requests, NEW p \in Paths, Refuse(r, p) PROVE Rejects(r)
  <2>1. Class(403) = "4xx" /\ Class(400) = "4xx"
    BY ClassValues
  <2>2. status' = [status EXCEPT ![r] = 403] \/ status' = [status EXCEPT ![r] = 400]
    <3>1. PICK s \in {403} \cup (IF parse_path(p) = BadPath THEN {400} ELSE {}) :
            status' = [status EXCEPT ![r] = s]
      BY <1>2 DEF Refuse
    <3> QED BY <3>1
  <2>3. \E s \in Nat : s # 0 /\ Class(s) = "4xx" /\ status' = [status EXCEPT ![r] = s]
    BY <2>1, <2>2
  <2> QED BY <1>2, <2>1, <2>3 DEF Refuse, Rejects, Count
<1>3. ASSUME NEW r \in Requests, NEW p \in Paths, Enter(r, p) PROVE Enters(r)
  <2>1. FirstStage[parse_path(p).kind] \in RunningStages
    BY <1>3, ParsedKinds DEF Enter, FirstStage, RunningStages, Stages
  <2> QED BY <1>3, <2>1 DEF Enter, Enters
<1>4. ASSUME NEW r \in Requests, Cancel(r) PROVE Leaves(r) \/ Ends(r)
  <2>1. CASE r \in Running
    BY <1>4, <2>1, RunningDef DEF Cancel, Leaves
  <2>2. CASE r \notin Running
    BY <1>4, <2>2 DEF Cancel, Ends, At, Move, counters
  <2> QED BY <2>1, <2>2
<1>5. \/ UNCHANGED <<stage, status, counters>>
      \/ \E r \in Requests : Limit(r) \/ Handle(r) \/ Cancel(r) \/ \E p \in Paths : Refuse(r, p) \/ Enter(r, p)
  BY DEF Next, vars, request, ExpireEntry, ExpireMapping, Rediscover, Warm, Change
<1> QED BY <1>1, <1>2, <1>3, <1>4, <1>5, HandlerShapes

LEMMA PendingKept ==
  ASSUME TypeOK, Pending, [Next]_vars
  PROVE  Pending'
<1> SUFFICES ASSUME NEW q \in Requests, stage'[q] \notin {"streaming", "done", "gone"}
             PROVE  status'[q] = 0
  BY DEF Pending
<1> USE DEF Pending, RunningStages, TypeOK
<1>1. CASE UNCHANGED <<stage, status, counters>>
  BY <1>1
<1>2. ASSUME NEW r \in Requests, Answers(r) PROVE status'[q] = 0
  BY <1>2 DEF Answers, Respond
<1>3. ASSUME NEW r \in Requests, Rejects(r) PROVE status'[q] = 0
  BY <1>3 DEF Rejects, Move, At
<1>4. ASSUME NEW r \in Requests, Enters(r) PROVE status'[q] = 0
  BY <1>4 DEF Enters, Move, At
<1>5. ASSUME NEW r \in Requests, GoesOn(r) \/ Leaves(r) \/ Ends(r) PROVE status'[q] = 0
  BY <1>5 DEF GoesOn, Leaves, Ends, Move, At
<1> QED BY <1>1, <1>2, <1>3, <1>4, <1>5, Shapes

LEMMA CountedParts ==
  /\ IsFiniteSet(Running) /\ Cardinality(Running) \in Nat
  /\ \A c : IsFiniteSet(Answered(c)) /\ Cardinality(Answered(c)) \in Nat
<1>1. Running \in SUBSET Requests /\ \A c : Answered(c) \in SUBSET Requests
  BY DEF Running, Answered
<1> QED BY <1>1, FS_Subset, FS_CardinalityType

GaugeIsRight  == inflight = Cardinality(Running)
TotalsAreRight == \A c \in Classes : total[c] = Cardinality(Answered(c))

LEMMA CountedDef == RequestsAreCounted <=> GaugeIsRight /\ TotalsAreRight
BY DEF RequestsAreCounted, GaugeIsRight, TotalsAreRight, Answered

\* A handler that returns or is dropped leaves the set of those that run.
LEMMA GaugeDrops ==
  ASSUME TypeOK, GaugeIsRight, NEW r \in Requests, stage[r] \in RunningStages,
         NEW to \in {"streaming", "done", "gone"},
         stage' = [stage EXCEPT ![r] = to], inflight' = inflight - 1
  PROVE  GaugeIsRight'
<1>1. r \in Running /\ Running' = Running \ {r}
  BY DEF Running, RunningStages, Stages, TypeOK
<1>2. Cardinality(Running') = Cardinality(Running) - 1
  BY <1>1, CountedParts, FS_RemoveElement
<1> QED BY <1>2 DEF GaugeIsRight

LEMMA GaugeRises ==
  ASSUME TypeOK, GaugeIsRight, NEW r \in Requests, stage[r] = "new", NEW s \in RunningStages,
         stage' = [stage EXCEPT ![r] = s], inflight' = inflight + 1
  PROVE  GaugeIsRight'
<1>1. r \notin Running /\ Running' = Running \cup {r}
  BY DEF Running, RunningStages, Stages, TypeOK
<1>2. Cardinality(Running') = Cardinality(Running) + 1
  BY <1>1, CountedParts, FS_AddElement
<1> QED BY <1>2 DEF GaugeIsRight

LEMMA GaugeStays ==
  ASSUME TypeOK, GaugeIsRight, NEW r \in Requests, NEW s \in Stages,
         stage[r] \in RunningStages <=> s \in RunningStages,
         stage' = [stage EXCEPT ![r] = s], UNCHANGED inflight
  PROVE  GaugeIsRight'
<1>1. Running' = Running
  BY DEF Running, RunningStages, Stages, TypeOK
<1> QED BY <1>1 DEF GaugeIsRight

\* The first response of a request is one more of its class.
LEMMA TotalRises ==
  ASSUME TypeOK, TotalsAreRight, NEW r \in Requests, status[r] = 0,
         NEW s \in Nat, s # 0, status' = [status EXCEPT ![r] = s],
         \A c \in Classes : total'[c] = IF c = Class(s) THEN total[c] + 1 ELSE total[c]
  PROVE  TotalsAreRight'
<1> SUFFICES ASSUME NEW c \in Classes PROVE total'[c] = Cardinality(Answered(c)')
  BY DEF TotalsAreRight
<1>1. CASE c = Class(s)
  <2>1. r \notin Answered(c) /\ Answered(c)' = Answered(c) \cup {r}
    BY <1>1 DEF Answered, TypeOK
  <2>2. Cardinality(Answered(c)') = Cardinality(Answered(c)) + 1
    <3>1. IsFiniteSet(Answered(c))
      BY CountedParts
    <3>2. Cardinality(Answered(c) \cup {r}) = Cardinality(Answered(c)) + 1
      BY <2>1, <3>1, FS_AddElement
    <3> QED BY <2>1, <3>2
  <2>3. total'[c] = total[c] + 1
    BY <1>1 DEF TypeOK
  <2> QED BY <2>2, <2>3 DEF TotalsAreRight
<1>2. CASE c # Class(s)
  <2>1. Answered(c)' = Answered(c)
    BY <1>2 DEF Answered, TypeOK
  <2>2. total'[c] = total[c]
    BY <1>2 DEF TypeOK
  <2> QED BY <2>1, <2>2 DEF TotalsAreRight
<1> QED BY <1>1, <1>2

LEMMA TotalStays ==
  ASSUME TotalsAreRight, UNCHANGED <<status, total>>
  PROVE  TotalsAreRight'
BY DEF TotalsAreRight, Answered

LEMMA InitCounted == Init => RequestsAreCounted
<1> SUFFICES ASSUME Init PROVE GaugeIsRight /\ TotalsAreRight
  BY CountedDef
<1>1. Running = {} /\ \A c : Answered(c) = {}
  BY DEF Init, Running, Answered
<1>2. inflight = 0 /\ \A c \in Classes : total[c] = 0
  BY DEF Init
<1> QED BY <1>1, <1>2, FS_EmptySet DEF GaugeIsRight, TotalsAreRight

LEMMA StepCounted ==
  ASSUME TypeOK, Pending, RequestsAreCounted, [Next]_vars
  PROVE  RequestsAreCounted' /\ inflight' \in Nat
<1>0. GaugeIsRight /\ TotalsAreRight
  BY CountedDef
<1>1. ASSUME UNCHANGED <<stage, status, counters>> PROVE GaugeIsRight' /\ TotalsAreRight'
  BY <1>0, <1>1, TotalStays DEF GaugeIsRight, Running, counters
<1>2. ASSUME NEW r \in Requests, Answers(r) PROVE GaugeIsRight' /\ TotalsAreRight'
  <2>1. PICK s \in Nat, to \in {"streaming", "done"} : s # 0 /\ Respond(r, s, to)
    BY <1>2 DEF Answers
  <2>2. stage[r] \in RunningStages /\ status[r] = 0
    BY <1>2 DEF Answers, Pending, RunningStages
  <2>3. GaugeIsRight'
    BY <1>0, <2>1, <2>2, GaugeDrops DEF Respond
  <2>4. TotalsAreRight'
    <3>1. /\ status' = [status EXCEPT ![r] = s]
          /\ \A c \in Classes : total'[c] = IF c = Class(s) THEN total[c] + 1 ELSE total[c]
      BY <2>1 DEF Respond, Count, TypeOK
    <3> QED BY <1>0, <2>1, <2>2, <3>1, TotalRises
  <2> QED BY <2>3, <2>4
<1>3. ASSUME NEW r \in Requests, Rejects(r) PROVE GaugeIsRight' /\ TotalsAreRight'
  <2>1. PICK s \in Nat : s # 0 /\ Class(s) = "4xx" /\ status' = [status EXCEPT ![r] = s]
    BY <1>3 DEF Rejects
  <2>2. stage[r] = "new" /\ stage' = [stage EXCEPT ![r] = "done"] /\ UNCHANGED inflight
        /\ total' = [total EXCEPT !["4xx"] = @ + 1]
    BY <1>3 DEF Rejects, Move, At
  <2>3. status[r] = 0
    BY <2>2 DEF Pending
  <2>4. GaugeIsRight'
    <3>1. Running' = Running
      BY <2>2 DEF Running, TypeOK
    <3> QED BY <1>0, <2>2, <3>1 DEF GaugeIsRight
  <2>5. TotalsAreRight'
    <3>1. \A c \in Classes : total'[c] = IF c = Class(s) THEN total[c] + 1 ELSE total[c]
      BY <2>1, <2>2 DEF TypeOK
    <3> QED BY <1>0, <2>1, <2>3, <3>1, TotalRises
  <2> QED BY <2>4, <2>5
<1>4. ASSUME NEW r \in Requests, Enters(r) PROVE GaugeIsRight' /\ TotalsAreRight'
  BY <1>0, <1>4, GaugeRises, TotalStays DEF Enters, Move, At
<1>5. ASSUME NEW r \in Requests, GoesOn(r) PROVE GaugeIsRight' /\ TotalsAreRight'
  <2>1. PICK s \in RunningStages : stage[r] \in RunningStages /\ stage' = [stage EXCEPT ![r] = s]
    BY <1>5 DEF GoesOn
  <2>2. s \in Stages /\ UNCHANGED <<status, inflight, total>>
    BY <1>5 DEF GoesOn, counters, RunningStages
  <2> QED BY <1>0, <2>1, <2>2, GaugeStays, TotalStays
<1>6. ASSUME NEW r \in Requests, Leaves(r) PROVE GaugeIsRight' /\ TotalsAreRight'
  BY <1>0, <1>6, GaugeDrops, TotalStays DEF Leaves
<1>7. ASSUME NEW r \in Requests, Ends(r) PROVE GaugeIsRight' /\ TotalsAreRight'
  <2>1. PICK s \in {"done", "gone"} : stage[r] = "streaming" /\ stage' = [stage EXCEPT ![r] = s]
    BY <1>7 DEF Ends, Move, At
  <2>2. s \in Stages /\ s \notin RunningStages /\ "streaming" \notin RunningStages
    BY DEF RunningStages, Stages
  <2>3. UNCHANGED <<status, inflight, total>>
    BY <1>7 DEF Ends, counters
  <2> QED BY <1>0, <2>1, <2>2, <2>3, GaugeStays, TotalStays
<1>8. GaugeIsRight' /\ TotalsAreRight'
  BY <1>1, <1>2, <1>3, <1>4, <1>5, <1>6, <1>7, Shapes
<1>9. RequestsAreCounted'
  BY <1>8 DEF RequestsAreCounted, GaugeIsRight, TotalsAreRight, Answered
<1>10. inflight' \in Nat
  <2>1. Running' \in SUBSET Requests
    BY DEF Running
  <2>2. Cardinality(Running') \in Nat
    BY <2>1, FS_Subset, FS_CardinalityType
  <2> QED BY <1>8, <2>2 DEF GaugeIsRight
<1> QED BY <1>9, <1>10

-----------------------------------------------------------------------------
(***************************************************************************)
(* Kinds and targets.                                                      *)
(***************************************************************************)
\* The handler of one kind goes from stage to stage of its own.
SameKind(s, t) ==
  \/ s \in {"manifest", "fill", "fillImage"} /\ t \in {"manifest", "fill", "fillImage"}
  \/ /\ s \in {"digest", "image", "probe", "proxy", "streaming"}
     /\ t \in {"digest", "image", "probe", "proxy", "streaming"}
  \/ /\ s \in {"tags", "fetchTags", "evictTags", "fanout", "storeTags"}
     /\ t \in {"tags", "fetchTags", "evictTags", "fanout", "storeTags"}

Advances(r) ==
  \/ UNCHANGED stage
  \/ stage' = [stage EXCEPT ![r] = "done"]
  \/ \E t \in Stages : SameKind(stage[r], t) /\ stage' = [stage EXCEPT ![r] = t]

LEMMA HandlerAdvances ==
  ASSUME TypeOK, NEW r \in Requests, Handle(r)
  PROVE  Advances(r) /\ UNCHANGED path
<1> USE DEF Advances, SameKind, Stages, At, Move, Respond
<1>1. CASE ManifestHit(r)
  BY <1>1 DEF ManifestHit
<1>2. CASE ManifestLookup(r)
  BY <1>2 DEF ManifestLookup
<1>3. CASE Fill(r)
  BY <1>3 DEF Fill
<1>4. CASE FillImage(r)
  BY <1>4 DEF FillImage
<1>5. CASE GetDigest(r)
  BY <1>5 DEF GetDigest, Route
<1>6. CASE GetImage(r)
  BY <1>6 DEF GetImage, Ask, Route
<1>7. CASE Proxy(r)
  BY <1>7 DEF Proxy
<1>8. CASE Stream(r)
  BY <1>8 DEF Stream
<1>9. CASE GetTags(r)
  BY <1>9 DEF GetTags, Ask
<1>10. CASE FetchTags(r)
  BY <1>10 DEF FetchTags
<1>11. CASE EvictTags(r)
  BY <1>11 DEF EvictTags, Ask
<1>12. CASE StoreTags(r)
  BY <1>12 DEF StoreTags
<1>13. ASSUME NEW p \in Projects, ProbeReply(r, p) PROVE Advances(r) /\ UNCHANGED path
  BY <1>13 DEF ProbeReply, Replied
<1>14. ASSUME NEW p \in Projects, TagsReply(r, p) PROVE Advances(r) /\ UNCHANGED path
  BY <1>14 DEF TagsReply, Replied
<1> QED BY <1>1, <1>2, <1>3, <1>4, <1>5, <1>6, <1>7, <1>8, <1>9, <1>10, <1>11, <1>12, <1>13, <1>14
        DEF Handle

\* What a step that is not a handler's, nor a request's first, does to a request.
LEMMA OtherSteps ==
  ASSUME [Next]_vars
  PROVE  \/ \E r \in Requests : Handle(r) \/ \E p \in Paths : Enter(r, p)
         \/ /\ UNCHANGED <<path, target, left>>
            /\ \/ UNCHANGED <<stage, status>>
               \/ \E r \in Requests, t \in {"done", "gone"} : stage' = [stage EXCEPT ![r] = t]
<1>1. ASSUME NEW r \in Requests, Limit(r) \/ Cancel(r) \/ \E p \in Paths : Refuse(r, p)
      PROVE  /\ UNCHANGED <<path, target, left>>
             /\ \E t \in {"done", "gone"} : stage' = [stage EXCEPT ![r] = t]
  BY <1>1 DEF Limit, Cancel, Refuse, Move
<1> QED BY <1>1 DEF Next, vars, request, ExpireEntry, ExpireMapping, Rediscover, Warm, Change

LEMMA InitKinds == Init => KindsMatch /\ TargetsSet
BY ParsedKinds DEF Init, KindsMatch, TargetsSet, Kind, Ref

LEMMA StepKinds ==
  ASSUME TypeOK, KindsMatch, [Next]_vars
  PROVE  KindsMatch'
<1> USE DEF TypeOK
<1>1. ASSUME NEW r \in Requests, Handle(r) PROVE KindsMatch'
  <2>1. Advances(r) /\ UNCHANGED path
    BY <1>1, HandlerAdvances
  <2> QED BY <2>1 DEF Advances, SameKind, KindsMatch, Kind, Ref
<1>2. ASSUME NEW r \in Requests, NEW p \in Paths, Enter(r, p) PROVE KindsMatch'
  <2>1. /\ parse_path(p).kind \in {"manifest", "blob", "tags"}
        /\ stage' = [stage EXCEPT ![r] = FirstStage[parse_path(p).kind]]
        /\ path' = [path EXCEPT ![r] = p]
    BY <1>2, ParsedKinds DEF Enter, Move
  <2>2. parse_path(p).kind \in {"manifest", "blob"} => parse_path(p).ref \in References
    BY ReferencesAssumption
  <2> QED BY <2>1, <2>2 DEF FirstStage, KindsMatch, Kind, Ref
<1>3. CASE /\ UNCHANGED path
           /\ \/ UNCHANGED stage
              \/ \E r \in Requests, t \in {"done", "gone"} : stage' = [stage EXCEPT ![r] = t]
  BY <1>3 DEF KindsMatch, Kind, Ref
<1> QED BY <1>1, <1>2, <1>3, OtherSteps

LEMMA StepTargets ==
  ASSUME TypeOK, KindsMatch, TargetsSet, [Next]_vars
  PROVE  TargetsSet'
<1> USE DEF TypeOK, TargetsSet
<1>1. ASSUME NEW r \in Requests, Handle(r) PROVE TargetsSet'
  <2> USE DEF At, Move, Respond
  <2>1. CASE ManifestHit(r)
    BY <2>1 DEF ManifestHit
  <2>2. CASE ManifestLookup(r)
    <3>1. ASSUME NEW p \in Projects, stage' = [stage EXCEPT ![r] = "fill"],
                 target' = [target EXCEPT ![r] = p]
          PROVE  TargetsSet'
      BY <3>1
    <3>2. CASE stage' = [stage EXCEPT ![r] = "done"] /\ UNCHANGED target
      BY <3>2
    <3> QED BY <2>2, <3>1, <3>2 DEF ManifestLookup, Holding
  <2>3. CASE Fill(r)
    BY <2>3 DEF Fill
  <2>4. CASE FillImage(r)
    BY <2>4 DEF FillImage
  <2>5. CASE GetDigest(r)
    <3>1. CASE /\ entry[Ref(r)] # NoEntry
               /\ stage' = [stage EXCEPT ![r] = "proxy"]
               /\ target' = [target EXCEPT ![r] = entry[Ref(r)]]
      BY <3>1
    <3>2. CASE stage' = [stage EXCEPT ![r] = "image"] /\ UNCHANGED target
      BY <3>2
    <3> QED BY <2>5, <3>1, <3>2 DEF GetDigest, Route
  <2>6. CASE GetImage(r)
    <3>1. CASE Route(r, image) /\ image # NoEntry
      BY <3>1 DEF Route
    <3>2. CASE Ask(r, Listed, "probe") /\ UNCHANGED target
      <4>1. stage' = [stage EXCEPT ![r] = "done"] \/ stage' = [stage EXCEPT ![r] = "probe"]
        BY <3>2 DEF Ask
      <4> QED BY <3>2, <4>1
    <3> QED BY <2>6, <3>1, <3>2 DEF GetImage
  <2>7. CASE Proxy(r)
    BY <2>7 DEF Proxy
  <2>8. CASE Stream(r)
    BY <2>8 DEF Stream
  <2>9. CASE GetTags(r)
    <3>1. CASE /\ tags # NoEntry
               /\ stage' = [stage EXCEPT ![r] = "fetchTags"]
               /\ target' = [target EXCEPT ![r] = tags]
      BY <3>1
    <3>2. CASE Ask(r, Considered, "fanout") /\ UNCHANGED target
      <4>1. stage' = [stage EXCEPT ![r] = "done"] \/ stage' = [stage EXCEPT ![r] = "fanout"]
        BY <3>2 DEF Ask
      <4> QED BY <3>2, <4>1
    <3> QED BY <2>9, <3>1, <3>2 DEF GetTags
  <2>10. CASE FetchTags(r)
    BY <2>10 DEF FetchTags
  <2>11. CASE EvictTags(r)
    BY <2>11 DEF EvictTags, Ask
  <2>12. CASE StoreTags(r)
    BY <2>12 DEF StoreTags
  <2>13. ASSUME NEW p \in Projects, ProbeReply(r, p) PROVE TargetsSet'
    <3>1. CASE stage' = [stage EXCEPT ![r] = "proxy"] /\ target' = [target EXCEPT ![r] = p]
      BY <3>1
    <3>2. CASE UNCHANGED target /\ (UNCHANGED stage \/ stage' = [stage EXCEPT ![r] = "done"])
      BY <3>2
    <3> QED BY <2>13, <3>1, <3>2 DEF ProbeReply, Replied
  <2>14. ASSUME NEW p \in Projects, TagsReply(r, p) PROVE TargetsSet'
    <3>1. CASE stage' = [stage EXCEPT ![r] = "storeTags"] /\ target' = [target EXCEPT ![r] = p]
      BY <3>1
    <3>2. CASE UNCHANGED target /\ (UNCHANGED stage \/ stage' = [stage EXCEPT ![r] = "done"])
      BY <3>2
    <3> QED BY <2>14, <3>1, <3>2 DEF TagsReply, Replied
  <2> QED BY <1>1, <2>1, <2>2, <2>3, <2>4, <2>5, <2>6, <2>7, <2>8, <2>9, <2>10, <2>11, <2>12, <2>13, <2>14
          DEF Handle
<1>2. ASSUME NEW r \in Requests, NEW p \in Paths, Enter(r, p) PROVE TargetsSet'
  <2>1. FirstStage[parse_path(p).kind] \in {"manifest", "digest", "tags"}
    BY <1>2, ParsedKinds DEF Enter, FirstStage
  <2> QED BY <1>2, <2>1 DEF Enter, Move
<1>3. CASE /\ UNCHANGED target
           /\ \/ UNCHANGED stage
              \/ \E r \in Requests, t \in {"done", "gone"} : stage' = [stage EXCEPT ![r] = t]
  BY <1>3
<1> QED BY <1>1, <1>2, <1>3, OtherSteps

-----------------------------------------------------------------------------
(***************************************************************************)
(* The projects that have held all the while what a request asks for.      *)
(***************************************************************************)
SteadyHolds == \A r \in Requests : steady[r] \subseteq Holding(Kind(r))

Awaited ==
  \A r \in Requests : stage[r] \in {"probe", "fanout"} => Healthy(r) \subseteq left[r]

LEMMA SteadyParts == SteadyAwaited <=> SteadyHolds /\ Awaited
BY DEF SteadyAwaited, SteadyHolds, Awaited

LEMMA HandlerSteady ==
  ASSUME TypeOK, NEW r \in Requests, Handle(r)
  PROVE  UNCHANGED <<path, content>> /\ \A q \in Requests : steady'[q] \subseteq steady[q]
<1> USE DEF registry, TypeOK
<1>1. CASE ManifestHit(r) \/ ManifestLookup(r) \/ Fill(r) \/ FillImage(r)
  BY <1>1 DEF ManifestHit, ManifestLookup, Fill, FillImage
<1>2. CASE GetDigest(r) \/ Proxy(r) \/ Stream(r) \/ FetchTags(r) \/ StoreTags(r)
  BY <1>2 DEF GetDigest, Proxy, Stream, FetchTags, StoreTags
<1>3. CASE GetImage(r) \/ GetTags(r) \/ EvictTags(r)
  <2>1. ASSUME NEW S, steady' = [steady EXCEPT ![r] = @ \cap S]
        PROVE  \A q \in Requests : steady'[q] \subseteq steady[q]
    BY <2>1
  <2>2. UNCHANGED <<path, content>>
    BY <1>3 DEF GetImage, GetTags, EvictTags
  <2>3. UNCHANGED steady \/ \E S : steady' = [steady EXCEPT ![r] = @ \cap S]
    BY <1>3 DEF GetImage, GetTags, EvictTags, Ask
  <2> QED BY <2>1, <2>2, <2>3
<1>4. CASE \E p \in Projects : ProbeReply(r, p) \/ TagsReply(r, p)
  BY <1>4 DEF ProbeReply, TagsReply, Replied
<1> QED BY <1>1, <1>2, <1>3, <1>4 DEF Handle

\* Only a request's first step, and a change of the registry, do more to the
\* sets of steady projects than to take some away.
LEMMA SteadySteps ==
  ASSUME TypeOK, [Next]_vars
  PROVE  \/ \E r \in Requests, p \in Paths : Enter(r, p)
         \/ \E p \in Projects, what \in {"manifest", "blob"} : Change(p, what)
         \/ UNCHANGED <<path, content>> /\ \A q \in Requests : steady'[q] \subseteq steady[q]
<1>1. \/ \E r \in Requests : Handle(r) \/ \E p \in Paths : Enter(r, p)
      \/ \E p \in Projects, what \in {"manifest", "blob"} : Change(p, what)
      \/ UNCHANGED <<path, content, steady>>
  BY DEF Next, Limit, Refuse, Cancel, ExpireEntry, ExpireMapping, Rediscover, Warm, vars, request, registry
<1> QED BY <1>1, HandlerSteady

LEMMA StepSteady ==
  ASSUME TypeOK, SteadyHolds, [Next]_vars
  PROVE  SteadyHolds'
<1> USE DEF TypeOK
<1>1. ASSUME NEW r \in Requests, NEW p \in Paths, Enter(r, p) PROVE SteadyHolds'
  BY <1>1 DEF Enter, SteadyHolds, Holding, Holds, Kind, registry
<1>2. ASSUME NEW p \in Projects, NEW what \in {"manifest", "blob"}, Change(p, what) PROVE SteadyHolds'
  <2>1. UNCHANGED path /\
        \A r \in Requests : steady'[r] =
          {q \in steady[r] : IF Kind(r) = "tags" THEN content'[q] # {} ELSE Kind(r) \in content'[q]}
    BY <1>2 DEF Change, request
  <2> QED BY <2>1 DEF SteadyHolds, Holding, Holds, Kind
<1>3. CASE UNCHANGED <<path, content>> /\ \A q \in Requests : steady'[q] \subseteq steady[q]
  BY <1>3 DEF SteadyHolds, Holding, Holds, Kind
<1> QED BY <1>1, <1>2, <1>3, SteadySteps

\* A request that asks all of S awaits the steady ones among them.
LEMMA AskAwaits ==
  ASSUME TypeOK, Awaited, NEW r \in Requests, NEW S \in SUBSET Projects, NEW s \in Stages,
         Ask(r, S, s)
  PROVE  Awaited'
<1>1. /\ left' = [left EXCEPT ![r] = S]
      /\ steady' = [steady EXCEPT ![r] = @ \cap S]
      /\ \A q \in Requests \ {r} : stage'[q] = stage[q]
  BY DEF Ask, Respond, TypeOK
<1> QED BY <1>1 DEF Awaited, Healthy, TypeOK

\* A reply that crosses a project off shows that it is not both healthy and
\* steady.
LEMMA ReplyAwaits ==
  ASSUME TypeOK, SteadyHolds, Awaited, NEW r \in Requests, NEW p \in Projects, NEW s,
         s \notin {"probe", "fanout"}, stage[r] \in {"probe", "fanout"}, Replied(r, p, s)
  PROVE  Awaited'
<1>1. CASE /\ stage' = [stage EXCEPT ![r] = s] /\ left' = [left EXCEPT ![r] = {}]
           /\ UNCHANGED steady
  BY <1>1 DEF Awaited, Healthy, TypeOK
<1>2. CASE /\ Holds(p, Kind(r)) => p \in Outages
           /\ left' = [left EXCEPT ![r] = @ \ {p}]
           /\ UNCHANGED steady
           /\ UNCHANGED stage \/ stage' = [stage EXCEPT ![r] = "done"]
  <2>1. p \notin Healthy(r)
    BY <1>2 DEF SteadyHolds, Holding, Healthy
  <2> QED BY <1>2, <2>1 DEF Awaited, Healthy, TypeOK
<1> QED BY <1>1, <1>2 DEF Replied, Respond

LEMMA StepAwaited ==
  ASSUME TypeOK, SteadyHolds, Awaited, [Next]_vars
  PROVE  Awaited'
<1>1. ASSUME UNCHANGED left, \A q \in Requests : steady'[q] \subseteq steady[q],
             \A q \in Requests : stage'[q] \in {"probe", "fanout"} => stage'[q] = stage[q]
      PROVE  Awaited'
  BY <1>1 DEF Awaited, Healthy
<1>2. ASSUME NEW r \in Requests, NEW p \in Projects, ProbeReply(r, p) \/ TagsReply(r, p) PROVE Awaited'
  <2>1. CASE ProbeReply(r, p)
    BY <2>1, ReplyAwaits DEF ProbeReply, At
  <2>2. CASE TagsReply(r, p)
    BY <2>2, ReplyAwaits DEF TagsReply, At
  <2> QED BY <1>2, <2>1, <2>2
<1>3. ASSUME NEW r \in Requests, \E S \in SUBSET Projects, s \in Stages : Ask(r, S, s) PROVE Awaited'
  BY <1>3, AskAwaits
<1>4. ASSUME NEW r \in Requests, Handle(r) PROVE Awaited'
  <2> DEFINE asks == \E S \in SUBSET Projects, s \in Stages : Ask(r, S, s)
             quiet == UNCHANGED <<left, steady>> /\ \A q \in Requests :
                        stage'[q] \in {"probe", "fanout"} => stage'[q] = stage[q]
  <2> USE DEF TypeOK, Respond, At, Move
  <2>1. CASE ManifestHit(r) \/ ManifestLookup(r) \/ Fill(r) \/ FillImage(r)
    BY <1>1, <2>1 DEF ManifestHit, ManifestLookup, Fill, FillImage
  <2>2. CASE GetDigest(r) \/ Proxy(r) \/ Stream(r) \/ FetchTags(r) \/ StoreTags(r)
    BY <1>1, <2>2 DEF GetDigest, Proxy, Stream, FetchTags, StoreTags, Route
  <2>3. CASE GetImage(r) \/ GetTags(r) \/ EvictTags(r)
    <3>1. Listed \in SUBSET Projects /\ Considered \in SUBSET Projects
          /\ "probe" \in Stages /\ "fanout" \in Stages
      BY AskedAreProjects DEF Stages
    <3>2. asks \/ quiet
      BY <2>3, <3>1 DEF GetImage, GetTags, EvictTags, Route
    <3> QED BY <1>1, <1>3, <3>2
  <2>4. CASE \E p \in Projects : ProbeReply(r, p) \/ TagsReply(r, p)
    BY <1>2, <2>4
  <2> QED BY <1>4, <2>1, <2>2, <2>3, <2>4 DEF Handle
<1>5. ASSUME NEW r \in Requests, NEW p \in Paths, Enter(r, p) PROVE Awaited'
  <2>1. FirstStage[parse_path(p).kind] \notin {"probe", "fanout"}
    BY <1>5, ParsedKinds DEF Enter, FirstStage
  <2> QED BY <1>5, <2>1 DEF Enter, Move, Awaited, Healthy, TypeOK
<1>6. CASE /\ UNCHANGED left
           /\ \/ UNCHANGED stage
              \/ \E r \in Requests, t \in {"done", "gone"} : stage' = [stage EXCEPT ![r] = t]
           /\ ~\E r \in Requests, p \in Paths : Enter(r, p)
  <2>1. \A q \in Requests : steady'[q] \subseteq steady[q]
    <3>1. ASSUME NEW p \in Projects, NEW what \in {"manifest", "blob"}, Change(p, what)
          PROVE  \A q \in Requests : steady'[q] \subseteq steady[q]
      BY <3>1 DEF Change
    <3> QED BY <1>6, <3>1, SteadySteps
  <2>2. \A q \in Requests : stage'[q] \in {"probe", "fanout"} => stage'[q] = stage[q]
    BY <1>6 DEF TypeOK
  <2> QED BY <1>1, <1>6, <2>1, <2>2
<1> QED BY <1>4, <1>5, <1>6, OtherSteps

-----------------------------------------------------------------------------
(***************************************************************************)
(* What is not found.                                                      *)
(***************************************************************************)
\* The response of r, if it is that nothing was found, has its cause.
Explained(r) ==
  /\ status[r] \in {404, 502} /\ Kind(r) = "blob" =>
       Healthy(r) = {} \/ target[r] \notin Healthy(r) \cup {NoEntry}
  /\ status[r] = 404 /\ Kind(r) = "tags" => Healthy(r) = {}

LEMMA ExplainedDef ==
  BlobMissesHaveCause /\ TagsAreFound <=> \A r \in Requests : Explained(r)
BY DEF BlobMissesHaveCause, TagsAreFound, Explained

\* A response keeps its cause as long as its request is left alone.
LEMMA StaysExplained ==
  ASSUME NEW r \in Requests, Explained(r), status'[r] = status[r], target'[r] = target[r],
         path'[r] = path[r], steady'[r] \subseteq steady[r]
  PROVE  Explained(r)'
BY DEF Explained, Healthy, Kind

\* So does a request that has no such response.
LEMMA FoundExplained ==
  ASSUME NEW r \in Requests, status'[r] \notin {404, 502}
  PROVE  Explained(r)'
BY DEF Explained

LEMMA AskExplained ==
  ASSUME TypeOK, NEW r \in Requests, status[r] = 0, NEW S, NEW s, Ask(r, S, s)
  PROVE  Explained(r)'
<1>1. CASE S = {}
  <2>1. steady'[r] = {}
    BY <1>1 DEF Ask, TypeOK
  <2> QED BY <2>1 DEF Explained, Healthy
<1>2. CASE S # {}
  BY <1>2, FoundExplained DEF Ask
<1> QED BY <1>1, <1>2

LEMMA ReplyExplained ==
  ASSUME TypeOK, SteadyHolds, Awaited, NEW r \in Requests, status[r] = 0,
         stage[r] \in {"probe", "fanout"}, NEW p \in Projects, NEW s, Replied(r, p, s)
  PROVE  Explained(r)'
<1>1. CASE UNCHANGED status
  BY <1>1, FoundExplained
<1>2. CASE left[r] = {p} /\ (Holds(p, Kind(r)) => p \in Outages) /\ UNCHANGED steady
  <2>1. Healthy(r) = {}
    BY <1>2 DEF SteadyHolds, Awaited, Holding, Healthy
  <2> QED BY <1>2, <2>1 DEF Explained, Healthy
<1> QED BY <1>1, <1>2 DEF Replied, counters

LEMMA ProxyExplained ==
  ASSUME TypeOK, KindsMatch, TargetsSet, SteadyHolds, NEW r \in Requests, Proxy(r)
  PROVE  Explained(r)'
<1>1. Kind(r) = "blob" /\ target[r] # NoEntry /\ UNCHANGED <<path, target, steady>>
  BY DEF Proxy, At, KindsMatch, TargetsSet
<1>2. CASE target[r] \in Projects /\ Holds(target[r], "blob")
            /\ \E s \in {200, 307} : Respond(r, s, "streaming")
  <2>1. status'[r] \in {200, 307}
    BY <1>2 DEF Respond, TypeOK
  <2>2. status'[r] \notin {404, 502}
    BY <2>1
  <2> QED BY <2>2, FoundExplained
<1>3. CASE ~(target[r] \in Projects /\ Holds(target[r], "blob"))
  <2>1. target[r] \notin steady[r]
    BY <1>1, <1>3 DEF SteadyHolds, Holding
  <2> QED BY <1>1, <2>1 DEF Explained, Healthy, Kind
<1>4. CASE target[r] \in Outages
  BY <1>1, <1>4 DEF Explained, Healthy, Kind
<1> QED BY <1>2, <1>3, <1>4 DEF Proxy

\* A handler of manifests gives no response that has to be explained.
LEMMA ManifestExplained ==
  ASSUME KindsMatch, NEW r \in Requests, stage[r] \in {"manifest", "fill", "fillImage"},
         UNCHANGED path
  PROVE  Explained(r)'
BY DEF KindsMatch, Explained, Kind

LEMMA HandlerExplained ==
  ASSUME Typed, NEW r \in Requests, Explained(r), Handle(r)
  PROVE  Explained(r)' /\ \A q \in Requests \ {r} : status'[q] = status[q] /\ target'[q] = target[q]
<1> USE DEF Typed, TypeOK
<1>0. SteadyHolds /\ Awaited
  BY SteadyParts
<1> USE <1>0 DEF At, Move, Respond, counters
<1>1. CASE ManifestHit(r) \/ ManifestLookup(r) \/ Fill(r) \/ FillImage(r)
  BY <1>1, ManifestExplained DEF ManifestHit, ManifestLookup, Fill, FillImage
<1>2. CASE GetDigest(r) \/ Stream(r)
  <2>1. CASE GetDigest(r)
    <3>1. status'[r] = 0
      BY <2>1 DEF GetDigest, Pending
    <3>2. status'[r] \notin {404, 502}
      BY <3>1
    <3>3. Explained(r)'
      BY <3>2, FoundExplained
    <3> QED BY <2>1, <3>3 DEF GetDigest, Route
  <2>2. CASE Stream(r)
    <3>1. UNCHANGED <<status, target, path, steady>>
      BY <2>2 DEF Stream
    <3> QED BY <3>1, StaysExplained
  <2> QED BY <1>2, <2>1, <2>2
<1>3. CASE Proxy(r)
  <2>1. Explained(r)'
    BY <1>3, ProxyExplained
  <2>2. UNCHANGED target /\ \A q \in Requests \ {r} : status'[q] = status[q]
    BY <1>3 DEF Proxy
  <2> QED BY <2>1, <2>2
<1>4. CASE GetImage(r) \/ GetTags(r) \/ EvictTags(r)
  <2>1. status[r] = 0
    BY <1>4 DEF GetImage, GetTags, EvictTags, Pending
  <2>2. CASE UNCHANGED status
    <3>1. status'[r] \notin {404, 502}
      BY <2>1, <2>2
    <3>2. Explained(r)'
      BY <3>1, FoundExplained
    <3> QED BY <1>4, <2>2, <3>2 DEF GetImage, GetTags, EvictTags, Route
  <2>3. ASSUME NEW S, NEW s, Ask(r, S, s) PROVE Explained(r)'
    BY <2>1, <2>3, AskExplained
  <2>4. CASE Ask(r, Listed, "probe") \/ Ask(r, Considered, "fanout")
    <3>1. Explained(r)'
      BY <2>3, <2>4
    <3>2. UNCHANGED target
      BY <1>4, <2>4 DEF GetImage, GetTags, EvictTags, Ask, Route
    <3>3. \A q \in Requests \ {r} : status'[q] = status[q]
      BY <2>4 DEF Ask
    <3> QED BY <3>1, <3>2, <3>3
  <2> QED BY <1>4, <2>2, <2>4 DEF GetImage, GetTags, EvictTags
<1>5. CASE FetchTags(r) \/ StoreTags(r)
  <2>1. status[r] = 0
    BY <1>5 DEF FetchTags, StoreTags, Pending
  <2>2. status'[r] \in {0, 200}
    BY <1>5, <2>1 DEF FetchTags, StoreTags
  <2>3. Explained(r)'
    <3>1. status'[r] \notin {404, 502}
      BY <2>2
    <3> QED BY <3>1, FoundExplained
  <2>4. UNCHANGED target /\ \A q \in Requests \ {r} : status'[q] = status[q]
    BY <1>5 DEF FetchTags, StoreTags
  <2> QED BY <2>3, <2>4
<1>6. ASSUME NEW p \in Projects, ProbeReply(r, p) \/ TagsReply(r, p)
      PROVE  Explained(r)' /\ \A q \in Requests \ {r} : status'[q] = status[q] /\ target'[q] = target[q]
  <2>1. PICK s : Replied(r, p, s) /\ stage[r] \in {"probe", "fanout"}
    BY <1>6 DEF ProbeReply, TagsReply
  <2>2. status[r] = 0
    BY <2>1 DEF Pending
  <2>3. Explained(r)'
    BY <2>1, <2>2, ReplyExplained
  <2> QED BY <2>1, <2>3 DEF Replied
<1> QED BY <1>1, <1>2, <1>3, <1>4, <1>5, <1>6 DEF Handle

LEMMA StepExplained ==
  ASSUME Typed, BlobMissesHaveCause, TagsAreFound, [Next]_vars
  PROVE  BlobMissesHaveCause' /\ TagsAreFound'
<1> SUFFICES ASSUME NEW q \in Requests PROVE Explained(q)'
  BY DEF BlobMissesHaveCause, TagsAreFound, Explained
<1>0. \A r \in Requests : Explained(r)
  BY ExplainedDef
<1> USE DEF Typed, TypeOK
<1>1. ASSUME NEW r \in Requests, Handle(r) PROVE Explained(q)'
  <2>1. CASE q = r
    BY <1>0, <1>1, <2>1, HandlerExplained
  <2>2. CASE q # r
    <3>1. status'[q] = status[q] /\ target'[q] = target[q]
      BY <1>0, <1>1, <2>2, HandlerExplained
    <3>2. path'[q] = path[q] /\ steady'[q] \subseteq steady[q]
      <4>1. UNCHANGED path
        BY <1>1, HandlerAdvances
      <4>2. steady'[q] \subseteq steady[q]
        BY <1>1, HandlerSteady
      <4> QED BY <4>1, <4>2
    <3> QED BY <1>0, <3>1, <3>2, StaysExplained
  <2> QED BY <2>1, <2>2
<1>2. ASSUME NEW r \in Requests, NEW p \in Paths, Enter(r, p) PROVE Explained(q)'
  <2>1. CASE q = r
    <3>1. status'[r] = 0
      BY <1>2 DEF Enter, Move, At, Pending
    <3>2. status'[q] \notin {404, 502}
      BY <2>1, <3>1
    <3> QED BY <3>2, FoundExplained
  <2>2. CASE q # r
    BY <1>0, <1>2, <2>2, StaysExplained DEF Enter
  <2> QED BY <2>1, <2>2
<1>3. ASSUME NEW r \in Requests, Limit(r) \/ \E p \in Paths : Refuse(r, p) PROVE Explained(q)'
  <2>1. CASE q = r
    <3>1. status'[r] \in {400, 403, 429}
      BY <1>3 DEF Limit, Refuse
    <3>2. status'[q] \notin {404, 502}
      BY <2>1, <3>1
    <3> QED BY <3>2, FoundExplained
  <2>2. CASE q # r
    BY <1>0, <1>3, <2>2, StaysExplained DEF Limit, Refuse
  <2> QED BY <2>1, <2>2
<1>4. CASE UNCHANGED <<status, target, path>> /\ \A r \in Requests : steady'[r] \subseteq steady[r]
  BY <1>0, <1>4, StaysExplained
<1>5. ASSUME NEW p \in Projects, NEW what \in {"manifest", "blob"}, Change(p, what)
      PROVE  UNCHANGED <<status, target, path>> /\ \A r \in Requests : steady'[r] \subseteq steady[r]
  BY <1>5 DEF Change, request
<1>6. \/ \E r \in Requests : Handle(r) \/ Limit(r) \/ \E p \in Paths : Enter(r, p) \/ Refuse(r, p)
      \/ \E p \in Projects, what \in {"manifest", "blob"} : Change(p, what)
      \/ UNCHANGED <<status, target, path, steady>>
  BY DEF Next, Cancel, ExpireEntry, ExpireMapping, Rediscover, Warm, vars, request, registry
<1> QED BY <1>1, <1>2, <1>3, <1>4, <1>5, <1>6

-----------------------------------------------------------------------------
(***************************************************************************)
(* Theorems.                                                               *)
(***************************************************************************)
LEMMA InitHolds == Init => IndInv
<1> SUFFICES ASSUME Init PROVE IndInv
  OBVIOUS
<1>1. Pending
  BY DEF Init, Pending
<1>2. SteadyAwaited
  BY DEF Init, SteadyAwaited
<1>3. BlobMissesHaveCause /\ TagsAreFound
  BY DEF Init, BlobMissesHaveCause, TagsAreFound
<1> QED BY <1>1, <1>2, <1>3, InitTyped, InitKinds, InitCounted DEF IndInv, Typed

LEMMA NextKeeps == IndInv /\ [Next]_vars => IndInv'
<1> SUFFICES ASSUME IndInv, [Next]_vars PROVE IndInv'
  OBVIOUS
<1>1. Typed /\ TypeOK /\ KindsMatch /\ Pending /\ TargetsSet /\ SteadyHolds /\ Awaited
      /\ RequestsAreCounted /\ BlobMissesHaveCause /\ TagsAreFound
  BY SteadyParts DEF IndInv, Typed
<1>2. RequestsAreCounted' /\ inflight' \in Nat
  BY <1>1, StepCounted
<1>3. TypeOK'
  BY <1>1, <1>2, StepTyped
<1>4. KindsMatch' /\ TargetsSet' /\ Pending'
  BY <1>1, StepKinds, StepTargets, PendingKept
<1>5. SteadyHolds' /\ Awaited'
  BY <1>1, StepSteady, StepAwaited
<1>6. SteadyAwaited'
  BY <1>5 DEF SteadyAwaited, SteadyHolds, Awaited
<1>7. BlobMissesHaveCause' /\ TagsAreFound'
  BY <1>1, StepExplained
<1> QED BY <1>2, <1>3, <1>4, <1>6, <1>7 DEF IndInv, Typed

\* IndInv holds in every reachable state.
THEOREM Inductive == Spec => []IndInv
  BY InitHolds, NextKeeps, PTL DEF Spec

\* Every variable keeps its type: no request is sent to a project that does
\* not exist, and no mapping names one.
THEOREM TypeCorrect == Spec => []TypeOK
<1>1. IndInv => TypeOK
  BY DEF IndInv, Typed
<1> QED BY <1>1, Inductive, PTL

\* The gauge counts the handlers that run, and the counters every response
\* once, wherever requests are refused, answered or dropped.
THEOREM Counted == Spec => []RequestsAreCounted
<1>1. IndInv => RequestsAreCounted
  BY DEF IndInv
<1> QED BY <1>1, Inductive, PTL

\* A blob that a healthy, discovered project holds all the while is missed
\* only by following a mapping or a probe to another project.
THEOREM MissesExplained == Spec => []BlobMissesHaveCause
<1>1. IndInv => BlobMissesHaveCause
  BY DEF IndInv
<1> QED BY <1>1, Inductive, PTL

\* A tag list is found wherever a healthy project that is asked has the image
\* all the while.
THEOREM TagsFound == Spec => []TagsAreFound
<1>1. IndInv => TagsAreFound
  BY DEF IndInv
<1> QED BY <1>1, Inductive, PTL

=============================================================================
