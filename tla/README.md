# harbor-router in TLA+

TLA+ models of [harbor-router](../src/README.md), a stateless pull-through
router in front of Harbor: a client asks it for `image:reference`, and the
router finds out which of Harbor's proxy-cache projects has the image, answers
from there and remembers the project. The models are checked with TLC on small
instances; every safety property the runs check, the invariants and the action
properties, is also proved with TLAPS for every value of the constants.

Paths are those of the repository; `resolver.rs` is `src/src/resolver.rs`.

## The system

| Part | Code | State | Operations | Who calls it |
|---|---|---|---|---|
| Front end | `proxy.rs`, `main.rs` | in-flight gauge, request counter | rate limit, manifests, tags, blobs, health | clients |
| Lifecycle | `main.rs:206-296, 376-401` | servers, background tasks, shutdown channel | start, drain, stop | the operating system |
| Manifest resolution | `resolver.rs:142-314` | mapping cache entries `image:reference`, `img:image` | `resolve_manifest`, background refresh | front end |
| Request coalescing | `resolver.rs:26-38, 334-412` | `flights` (DashMap of watch channels), gauge | `singleflight` | manifest resolution |
| Fan-out | `resolver.rs:416-601` | per call: running probes, fallback, last error | `parallel_lookup` | singleflight, background refresh |
| Circuit breaker | `circuit_breaker.rs` | per project: state, failure counter, time of the last failure; gauge | `is_available`, `record_success`, `record_failure` | fan-out |
| Tag lists | `resolver.rs:740-864` | entries `tags:image` | `resolve_tags` | front end |
| Blob routing | `proxy.rs:262-437`, `resolver.rs:316-325` | none, reads the mapping cache | `handle_blob`, `cached_project`, `probe_blob_project` | front end |
| Cache backends | `cache.rs` | Moka map, or Redis and a fallback map per pod | get, set, set_with_ttl, delete, reconnect | resolution, discovery, warm-up |
| Discovery | `discovery.rs` | the list of projects (ArcSwap), its copy in Redis | seed, refresh, persist | fan-out, tags, blobs, health |
| Warm-up | `resolver.rs:866-978` | entry `warmup:mappings` | warm, persist hot entries | timer |
| Popularity | `metrics.rs:366-462` | bounded maps of counters | record, top N, evict | front end, warm-up |
| Configuration | `config.rs` | none after start | load, parse durations | start |

How they interact: a handler task calls `resolve_manifest`; that reads the
cache, on a hit asks the cached project, and otherwise enters `singleflight`.
The leader of a flight runs `parallel_lookup`, which reads the discovered list,
asks the breaker of every project for permission, probes the rest as futures of
the same task, and reports to the breakers; followers wait on the leader's
watch channel. Every caller then writes the outcome to the cache itself. A hit
on a stale entry spawns a task of its own that repeats the fan-out. Discovery
and warm-up are periodic tasks; with Redis, pods share the cache.

What is hard in it:

- **interleaving**: a multi-threaded runtime; leader, followers, refreshes and
  breaker operations interleave between any two shared accesses;
- **dropped futures**: the HTTP server drops a handler whose client hangs up,
  at whatever `await` it is suspended, and nothing after it runs;
- **order of replies**: a fan-out returns at the first acceptable one, after a
  grace period for an unacceptable one, and drops the others;
- **stale data**: cached mappings of a registry that changes, lists read before
  an `await`, atomics read before they are compared;
- **partial failure**: projects out of reach, Redis out of reach;
- **restarts**: pods come and go, and start from what others have left in Redis.

What makes each part correct:

- *coalescing*: one lookup per key at a time; answers are the leader's, for the
  same key; every call ends; followers of a flight share its fate;
- *fan-out*: a 200 that was seen is returned; absence is only concluded when it
  is unanimous;
- *breaker*: no failure lost, state and counter agree, a closed circuit is never
  half-opened, a project that stops failing is served again, and none is given
  up because a probe reported nothing;
- *resolution*: the cache says where to look and is never the answer; entries
  were true once; an image that is steadily held is found;
- *tags*: a wrong mapping costs a detour, not an error; *blobs*: one is missed
  only by following a mapping elsewhere;
- *backends*: a pod's copy falls behind for a cause only, operations end and
  pods reconnect;
- *discovery*: a refresh yields what Harbor listed, lists never go back, and all
  pods converge; *lifecycle*: a pod that is told to stop does, and so do the
  tasks it waits for;
- *popularity*: the maps stay bounded; *warm-up*: hot mappings are persisted.

## The modules

| Module | What it is |
|---|---|
| `Singleflight` | `Resolver::singleflight`, one action per synchronous stretch |
| `Coalescing` | what callers may rely on: the abstract specification of the above |
| `CircuitBreaker` | one project's breaker, one action per atomic access, under concurrent probes |
| `Fanout` | one `parallel_lookup`: choice of projects, replies, grace, outcome |
| `Lookup` | what callers may rely on: the abstract specification of the above, and of the fan-outs of `Resolver` |
| `Resolver` | `resolve_manifest` for one image; composes `Singleflight` with cache, refresh, registry and clients |
| `RedisCache` | the Redis backend: shared store, local copies, connections of several pods |
| `Routing` | the front end, tag lists and blobs over the mappings of one image |
| `Discovery` | the discovery task in the life of several pods that start, stop and crash |
| `HotImages` | popularity counters with their eviction, and the warm-up that uses them |
| `SingleflightProofs`, `CircuitBreakerProofs`, `FanoutProofs`, `ResolverProofs`, `RedisCacheProofs`, `RoutingProofs`, `DiscoveryProofs`, `HotImagesProofs` | theorems about the module each is named after |
| `MC*` | model values for TLC |

Next to the definitions they vary, the modules hold operators introduced by a
comment `Mutant of ...`: plausible bugs, each of which makes TLC report the
property it is paired with in `PROJECT.json`. No specification uses them.

### Singleflight

`phase[r]` is where request `r` stands in the function, `tx[r]` the channel it
holds (named after the request that created it), `flights` the DashMap,
`channel` what each watch channel retains. `Lead` and `Join` are one step each
because `entry()` holds the shard's lock; `LookupDone`, `Publish` and `Remove`
are the leader's statements after its await, `Subscribe`, `CheckValue`, `Wake`
and `TimeOut` the follower's. The behaviour of `tokio::sync::watch` that
matters is external and stated where it is used: a send without receivers is
refused, and a value that was marked as seen does not wake. "leader dropped
channel" is no action: followers hold a clone of the *sender*, so the channel
cannot close.

Time is counted in units, for the requests that are suspended under a timeout
only. `MayWait` is what the code and the runtime give: all probes of a lookup
run under `timeout` from its start; a leader with its result is scheduled within
the five seconds a follower waits longer; a timer that has fired is polled.
`TimeoutHasCause` depends on the second of these; if the runtime could starve a
leader for longer, the property would be false of the code too.

`GaugeAccounts` is stated as the code behaves: the gauge counts the running
lookups *and* every leader ever dropped in one.

### CircuitBreaker

Projects share nothing but DashMap shards, so one project is enough. `pc[t]` is
the next access of thread `t`. A load/compare_exchange loop that ends with the
state set has one linearization point and is one action; `is_available`'s
exchange, which acts on values read before, is `Load`, `Compare`, `CasHalfOpen`.
`project_health` takes the shard's lock for writing and then again for reading:
an operation starts only while no other holds the entry, but several that are
past `entry()` run side by side, and those are the races. (Keys that share a
shard only wait more.)

Accesses interleave as if sequentially consistent. The code uses acquire and
release orderings; the one reordering they admit here, `record_success` reading
the state before others see its reset, leads to states the interleaving of the
reset with a failure's count reaches too.

The counter is counted up to the threshold (the code compares it with `>=`
only) and the elapsed seconds up to the timeout. `mixed` is a history variable:
a success and a failure were in progress at once. `Consistent` says what holds
until then, `Recovers` and `Closes` what holds whatever has happened.
`NeverGivenUp` is about the probes that report nothing, those dropped with their
lookup and those answered with a 4xx: a circuit that has let one through does
not wait for it.

### Fanout

All probes are futures of one task, so a reply is consumed in the poll that
reports it, and a lookup is sequential: what varies is the list, the tripped
breakers, the replies, their order and the end of the grace period. Replies are
the six kinds the code tells apart. `CachesNegative` and `CachesPositive` are
the decisions of the caller that depend on the outcome.

`Lookup` is the same without the order, the list, the breakers, the grace
period and the statuses: projects are crossed off one by one, and a lookup ends
with one that is left, or with an error when none is. `Fanout` implements it
with `left` the projects that have not replied or have replied with a 200
(`ImplementsLookup`). An error that comes before anybody was asked is mapped to
the error that is not cached.

### Resolver

`SF == INSTANCE Singleflight` shares its variables: every step of a flight here
is an action of that module, and the fan-out of each request is a `Lookup`, that
of a request which has not led yet having still everything left. `UsesItsParts`
states both; it is checked and proved, so what is proved about `Singleflight`
holds of the composition, and a fan-out is treated as `Fanout` is shown to
behave. `Resolver` adds what the projects hold to `Lookup`: a project that
holds the image may end it, a project that does not or cannot say is crossed off, at
the time it answers; the registry may change between two answers. The breaker
appears as a project that may be crossed off although it holds the image
(`Outages`). A fallback is returned up to 200 ms after its reply; here the
lookup ends with the reply, and publishing its outcome is a later step anyway.

The retries of `fetch_manifest_with_retry` change no state and are part of
`FetchFails`. Cache operations are atomic (Moka; a Redis command is, too) and
each is an action, since `cache.set().await` may suspend. `Fill` and
`FillImage` are the write-back, done by every caller on its own. `GrowStale`
and `Expire` are the two ages an entry can reach. The refresh's fan-out is not
followed project by project: it finds a project that holds the image, or fails.

### RedisCache

A task performs one operation at a time: `Begin` clones the pod's connection,
`Apply` is the command at the server, `Fail` its failure or the loss of its
reply (so a write may have been applied although it fails), `TryLock` and
`Reconnect` are `try_reconnect`, `FinishGet` and `FinishWrite` the local copy
and the return. A connection is the number of outages before it was made: it
works as long as there is no further one. The code takes every `Err` alike
(`cache.rs:245`), and so does `Fail`: a command fails on a connection that is
broken, and also on one that is alive, by an error reply or by one that comes
later than the client waits. So a local copy is read while Redis answers others.
`Drop` drops a task wherever it awaits, with the lock it may hold.

A write that its sender has given up, dropped or timed out, may have been on its
way: it is `lingering`, and `ApplyLate` applies it at any later time, also after
writes sent later on the same connection, which Redis would keep in order. That
is more than can happen; a write on its way when the connection breaks is
applied before or never, since it fails on no other connection.

Lifetimes are nondeterministic: a Redis entry expires at some time, a local one
too. So `set` and `set_with_ttl` are one operation, and the model does not show
what the code says plainly: the local copy is given no TTL (`cache.rs:302`), and
a negative entry outlives its own there, until the cache TTL. A get whose command
fails then returns it, against `docs/architecture.md:189`. What a get returns is
not kept: it is the entry of Redis or of the local copy at the time, and
`CopiesAgree` is about both. `clean` and `settled` are history: a write that
neither failed nor met another write or another pod's.

`Reconnects` holds for bounded mishaps only: if every request that reconnects is
dropped while it does, or Redis answers with nothing but errors, the pod never
gets a working connection. `MaxMishaps` is a bound of the model, and in this
property a premise: Redis can be reached when it answers, in the end, without
errors.

### Routing

A request is in one `stage` between two awaits. `parse_path` works on the
segments of the path, an empty segment standing for a doubled slash; the MC
module compares it, for all paths of up to five segments, with a grammar of its
own (`UnderstoodAs`). The comparison shows one corner: blobs of an image one of
whose inner segments is `manifests` are refused, because the last
`/manifests/` is looked for first.

Of manifests this module has what `Resolver` establishes: an entry that no
longer holds is evicted, a lookup ends with a project that has the manifest, or
with an error that may be cached; then the two mappings are written, in two
steps. Blobs follow `image:digest` and `img:image` unverified and pass on the
project's status; tag lists verify, evict and ask again. `Warm` is the warm-up
of a pod that starts, writing a mapping of any age over either entry. The
missing Authorization header and the path are checked in this order in the code;
`Refuse` leaves the status open for a request that fails both. A project answers
the probe for a blob with a 200 or a 307, which are the same, and the proxied
request with either, which is passed on; timeouts count as errors. The refusal
of unsafe project names is left out: names in the list have been checked
(`Discovery`), and those in the cache are the router's own.

### Discovery

`stage[p]` is where the discovery task of pod `p` stands, `main[p]` where
`main` does. Harbor's list is a sequence that may change between two pages.
`shared` is the entry in Redis, whose writes may be lost and whose reads may
miss; that also covers the in-memory backend, where discovery gets no cache.
The 500 ms before the servers start do not wait for anything: they start at once.
`Among` filters a list by a table over its places, a form the prover can unfold.
`age` and `began` are history: which state of Harbor's list a list was read
from. The tasks' `select!` between the ticker and the shutdown channel picks at
random when both are ready, hence the strong fairness of `Stop`; the channel
retains its value, so a task that is busy finds it later (the mutant of
`ServersExit`, a notification nobody keeps, never ends). `main` waits for the
warm-up task too: `warming` are the pods whose warm-up task has not returned,
and `WarmUpEnds` is its return some time after the signal. That it does return
is shown where the task is modelled (`WarmUpStops` of `HotImages`).

### HotImages

`Record`, `Check`, `Scan`, `Evict` are `record_manifest_request` and its
eviction, atomic per map entry only: a scan meets the entries one after the
other while they are changed, and what it has collected is removed whatever its
count is by then. `Load`, `Warm`, `Tick`, `Collect`, `Persist` and `Stop` are
the warm-up task. `Signal` is the send of `main.rs:291`, after the servers have
returned, so that no request is counted any more; `told` says that it has
happened, and the task looks at it between two rounds only. The counters of
blobs run the same code and are not repeated. Counts are told apart up to
`MaxCount`. Writes of the snapshot that Redis loses are left to `RedisCache`.
`Lookup` and `Replace` may cache and persist the images of `Cached` only;
restarts are not bounded. `excess` is history: the tracked images that have
escaped their eviction since the map was last within its limit, because they
were counted again while the first request was still being counted or because a
full batch ended the scan before it met them. Only these can exceed the limit,
and `TrackedWithinLimit` counts them.

## The runs

| Run | Instance | States | Shows |
|---|---|---|---|
| `sf_calls` | 3 requests, 2 keys, any may be dropped, timeout 1+2 | 191,792 | exclusive lookups, causes of timeouts, shared fate, gauge, termination, refinement |
| `sf_late_subscriber` | 3 requests, 1 key, none dropped | violation | finding 1 |
| `sf_dropped_leader` | 3 requests, 1 key | violation | finding 2 |
| `cb_races` | 2 probes, threshold 2, timeout 1 | 94,858 | agreement of counter and state, recovery, closing, no project given up; no deadlock |
| `cb_unearned_open` | as above | violation | finding 3 |
| `fo_lookup` | 3 projects, fan-out cut at 2 | 3,988 | every order of every kind of reply; refinement |
| `fo_negative_cache` | as above | violation | finding 4 |
| `rs_manifests` | 2 requests, 1 key, 2 projects (1 unreliable), 1 change | 545,526 | what is served, cached and concluded; termination; that the parts are used as specified |
| `rc_pods` | 2 tasks of one pod, 1 of another, 1 key, 1 outage, 1 mishap | 331,740 | local copies, termination, reconnection |
| `ro_requests` | 2 requests, 5 paths, 2 projects (1 unreliable), 1 change | 2,730,195 | gauge and counters, blobs, tags |
| `ds_pods` | 2 pods, 3 projects, pages of 1, 1 change, 1 mishap | 451,152 | refreshes, order, convergence, shutdown |
| `hi_images` | 2 threads, 3 images, 1 tracked, batches of 1 | 497,178 | bound on the map, hot mappings persisted, end of the warm-up task |

Bounds and why they are enough. *Three requests*: a leader, a follower that is
answered and one that is not is the most any property relates; *two keys* tell
an answer for the wrong key. *Two threads* at the breaker: every race is between
two operations; the threshold of 2 separates a first from a last failure. *Three
projects* with a cut at two: one skipped by the cut, one by its breaker and one
asked, or two replies in both orders. *Two requests and one change* of the
registry: a write-back that is older than the entry it overwrites needs two
writers and one change between them. In `rs_manifests` a lookup takes less than
a unit of time (`LookupTimeout = 0`): followers there only time out behind a
dropped leader or a lost value; `sf_calls` has lookups that take time.
`rc_pods`: two tasks of a pod race for the lock and for a key, the third writes
from outside; one outage separates old connections from new ones, and the mishap
leaves a write behind, or hits the task that reconnects. A write and a deletion
in the same pod are enough for an overlap, and another value from the other pod
tells whose write is read. `ro_requests`: `MaxFanout = 1` with two projects
separates what tag lists ask from what blobs ask; one request prepares the
mappings the other one follows. `ds_pods`: pages of one project put a page
boundary between any two, so one change can skip or repeat one; two pods are
needed for a late write to the shared list; the mishap is a failed page or a
crash. `hi_images`: with room for one image, the second is over the limit, and
the third is one that a batch of one does not reach; each thread asks for two of
them, so that an image is counted by both or by one.

Named bounds in guards: `MaxChanges` (changes of the registry, or of Harbor's
list), `MaxOutages` (`RedisCache`), `MaxMishaps` (in `RedisCache` dropped
requests, errors on a connection that is alive and reconnections that fail
though Redis can be reached; in `Discovery` failed pages and crashes), the
saturation of the counts at `MaxCount`, and the saturation of the counter and of
the elapsed time described above. Each request is made once, so the runs of
`Singleflight`, `Fanout` and `Resolver` stop when all are done, and deadlock is
not checked there. (A call that can never go on would violate `EveryCallEnds`,
`Ends` or `EveryRequestEnds`.) The other systems never stop as a whole, and
deadlock is checked.

Fairness. Tasks that can run are polled (tokio), timers fire (`Tick`, `Second`),
and probes end because they run under a timeout. No arrival of a request, no
reply in particular, no client and no change of the registry is assumed, but for
the breaker: requests for the project keep coming, since a breaker nobody asks
does not change. `Closes` also assumes what it says, successes. `RedisCache`
assumes that a command or a connection attempt without an answer fails (the
timeouts of the Redis client), and neither that Redis comes back nor that
operations are called. `Discovery` assumes that the ticker fires, that requests
in progress end, and the fair choice of `select!` described above; not that the
operating system restarts a pod or that Harbor answers. It assumes of the
warm-up task what `HotImages` shows, that it returns when told to. `HotImages`
assumes that the warm-up task runs, and the fair choice of its own `select!`.
`Routing` has safety properties only and no fairness.

## What the runs found

1. **A late subscriber does not see the result** (`resolver.rs:406`). `send`
   refuses the value when no receiver exists. A follower that has cloned the
   sender but not yet subscribed waits its full timeout and fails, against the
   comment at `resolver.rs:345-347`. (`send_replace` would retain it.)
2. **A dropped leader wedges its key** (`resolver.rs:398`). Nothing removes the
   flight; later callers join it and time out, until the process restarts.
   Also the gauge leaks.
3. **A circuit can be open with no failure counted** (`circuit_breaker.rs:84`):
   a success between a failure's count and its exchange. It recovers
   (`Recovers`).
4. **Absence is cached after partial failures** (`resolver.rs:567`): a 5xx, an
   open circuit and the cut at `max_fanout` all count as "not found", against
   `docs/architecture.md:191`.
5. **A blob follows the sentinel of a missing manifest** (`resolver.rs:318`).
   `cached_project` does not know `__NEGATIVE__`: when the manifest of a digest
   is cached as absent, a blob of that digest is asked of a project of that
   name, and missed although another project has it, against the comment at
   `resolver.rs:316`. `BlobMissesHaveCause` has to admit this cause.
6. **A download is not in flight** (`proxy.rs:100`): the gauge is decremented
   before the body is streamed; `docs/observability.md:16` calls it
   "Currently in-flight client requests".
7. **Shutdown waits for the discovery task** (`main.rs:292`), with a whole
   refresh if one is under way, and then for the warm-up task (`main.rs:293`);
   `docs/architecture.md:258` says the discovery task is aborted.
8. **Popularity is first come, first served** (`metrics.rs:432`): once the limit
   is reached by images counted twice, a newcomer is evicted by the request that
   counts it, unless a second request overlaps the first or a full batch ends
   the scan before the newcomer, and then the limit is exceeded for good.
   `metrics.rs:10` promises a bound and the most popular images.

Findings 1 to 4 are runs that end in a violation; 5 to 8 are stated by
properties that hold, and that would be simpler if the code did what the text
says.

## What is proved

Every invariant and every action property of the passing runs has a theorem, and
so have the refinements: `Singleflight` implements `Coalescing`, `Fanout`
implements `Lookup`, and `Resolver` uses both parts as specified. The proofs
assume what the modules name as assumptions, and TLC evaluates on every run:
constants of the right kind, disjoint from the marker values (`NoneAssumption`,
`NoEntryAssumption`), a positive `FollowerMargin` and `Threshold`, finite sets
of requests and of projects, an order in which a scan meets every image once
(`ShardsAssumption`), a registry that lists no name twice (`NamesAssumption`),
and, in `Resolver`, at least one reliable project, `Outages # Projects`
(`OptionsAssumption`).

**Singleflight** (`SingleflightProofs`). `OneLookupPerKey` is not inductive:
`Remove` deletes by key, so it must be known that the entry of a leader's key is
still the leader's own while it works (a second leader would lose its entry to
the first). The invariant ties the map, the channel each request holds and its
phase together; the key step is that as long as a leader has not removed its
flight the entry cannot change hands, because only a vacant entry is taken.
`TimeoutHasCause` and `AllOrNothing` need in addition that a follower is never
older than its leader, and so that its timer cannot fire while the leader works;
this is where `FollowerMargin > 0` is used. `GaugeAccounts` is a count over a
finite set. `Refines` shows that initial states map to initial states of
`Coalescing` and every step to a step or a stutter.

**CircuitBreaker** (`CircuitBreakerProofs`). `Consistent` speaks of quiet states;
the invariant `Agree` extends it to operations that are half done: a thread
between reset and close knows the counter to be 0, one between count and open
knows it to be at the threshold, and only such threads excuse a disagreement.
Any number of threads. `HalfOpenOnlyFromOpen` needs the types only.

**Fanout** (`FanoutProofs`). The invariant says that running and consumed probes
partition the probed projects and that fallback and last error agree with the
replies consumed; each property follows at the step that returns.
`Refines` maps each step to a step of `Lookup` or a stutter: an acceptable reply
and the end of the grace period end the lookup, another 200 changes nothing, any
other reply crosses a project off. That an error after replies is never the one of a
lookup that asked nobody needs `Asking`: who awaits replies has asked somebody.
`AbsenceIsUnanimous` says of the errors in terms of the replies what `Lookup`
says abstractly. Any set of projects, list, breakers and bound.

**Resolver** (`ResolverProofs`). Several things are proved at once. Every step
is a step of `Singleflight` or leaves the flights alone (`CallsCoalesced`), and
for each request a step of its `Lookup` or a stutter (`PartsFit`: its outcome is
fixed once, by its own lookup, because only a follower copies an answer). So the
invariant of `SingleflightProofs`, instantiated as `SFP`, is part of the one
here, and a follower's answer is known to be its leader's. The rest is about
time: `history` only grows, so what was held at some time stays so (`HeldStays`)
and what was held all the while can only become less (`SteadyShrinks`).
`ServedWasHeld` and `EntriesWereTrue` follow from `AnswersHeld` and
`RefreshesHeld`, which say the same of an answer and of a refresh before they
reach the client or the cache. `SteadyImageIsFound` needs `LookupsHonest`: while
a lookup runs, a project that held the image all the while is still to answer,
or was crossed off by an outage. Any requests, keys, projects and changes of the
registry.

**RedisCache** (`RedisCacheProofs`). `CopiesAgree` is about a write that is over;
`WritesLast` follows it from the moment Redis applies it: nobody else has
written the key since, so Redis has its value or, after its expiry, none, when
the local copy takes it. A write that is applied late is one more write of
somebody else (`ApplyLateCopies`). Any pods, tasks, keys and commands, any number
of outages and mishaps.

**Routing** (`RoutingProofs`). `RequestsAreCounted` compares the gauge and the counters
with cardinalities; it is inductive with the types and `Pending` (a handler that
runs has not responded), since a step moves one request into or out of the sets that
are counted. `TagsAreFound` and `BlobMissesHaveCause` rest on `SteadyAwaited`: a healthy
project that has held the image all the while has not been crossed off as long as
the request awaits replies, so "none of them has it" cannot be concluded. How a
path is parsed plays no part in the proofs but for its kind and its reference.

**Discovery** (`DiscoveryProofs`). `ListsMoveForward` holds because a pod reads the
shared list once, before its first refresh, when it has none, and because a
refresh begins after what it replaces was read (`InOrder`), however late other
pods write. It needs nothing of the lists but their ages. `RefreshIsComplete` is
about them: with `k` the number of places before the next page, `SoFar` says that
what was eligible all the while and stands among the first `k` has been taken,
unless a project was removed, and that what has been taken and is still listed
stands among the first `k`, unless one was created. A creation moves names to
the right and a removal to the left, so each change breaks one of the two only.
The lemmas about lists say what filtering, paging, joining, inserting and removing
do to the names before a place. That a filter takes what it should for lists of any length
needs an induction, which `Counting` gives as a statement about sets, from the
well-foundedness of the natural numbers.

**HotImages** (`HotImagesProofs`). The map may exceed its limit while requests are
being counted, so `TrackedWithinLimit` is not inductive. The invariant charges every
tracked image that was counted once, and has not escaped, to a thread that is going to
remove it: one that has still to check, whose scan is still to meet it, or that
has collected it (`Charged`). `Kept`, what nobody is charged with, never exceeds
the limit: a charge ends with the removal of the image, with a check that finds
the map within the limit, or with the image in `excess`. Any threads, images,
order of the scan, limit and batch.

Only model-checked: liveness (`EveryCallEnds`, `Ends`, `Recovers`, `Closes`,
`NeverGivenUp`, `EveryRequestEnds`, `OperationsEnd`, `Reconnects`, `Converges`,
`ShutdownCompletes`, `HotImagesArePersisted`, `WarmUpStops`), which needs
fairness and ENABLED and is out of the prover's reach; and that `parse_path`
agrees with the grammar it is compared with, for paths of up to five segments.
The four runs that end in a violation show that a statement is false, and have
nothing to prove.

## What is not modelled, and the plan

Left out for good: the configuration (text read once, before anything runs; its
results are the constants), HTTP and headers, media-type matching (its result is
an input of `Fanout`), logging, counters nothing reads, health and readiness
(each a look at the project list), sockets and TLS, the Helm chart. Durations are left
out of every module but `Singleflight` and `CircuitBreaker`.

`Resolver` and `Routing` use a cache that is one map. With Redis and several
pods the map of a pod whose commands fail is its local copy; `RedisCache` says how
far it may be behind, and the composition of the three is not checked as one
instance, which would be out of TLC's reach.

What connects `Fanout` and `Resolver` is `Lookup`: the one implements it, the
other's fan-outs are instances of it. That is as far as it is proved; that
every outcome `Lookup` allows is also one of `Resolver`, as long as the projects'
contents allow it, is plain from `CrossOff` and `Endings`, which are those of
`Lookup` with the contents as guard. `Routing` reduces the resolution of a
manifest to its outcome; that `Resolver` justifies this is argued here and not
proved.
