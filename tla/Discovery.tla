------------------------------ MODULE Discovery ------------------------------
(***************************************************************************)
(* Project discovery (src/src/discovery.rs) in the life of a pod           *)
(* (src/src/main.rs): a background task reads the projects of Harbor page  *)
(* by page, writes the list to the cache the pods share, then installs it; *)
(* a new pod is seeded from that cache; a pod that is told to stop drains  *)
(* its servers, then waits for the task and for the warm-up task.  Of the  *)
(* latter there is only whether it has returned: the rest is HotImages'.   *)
(*                                                                         *)
(* Harbor's list changes while it is read.  A cache that is not shared, or *)
(* cannot be reached, is one whose writes are lost and reads miss.         *)
(***************************************************************************)
EXTENDS Integers, FiniteSets, SequencesExt

CONSTANTS
  Pods,
  Stopping,     \* those that are told to stop
  Names,        \* of the projects in Harbor
  ProxyCache,   \* those with a registry_id
  Safe,         \* those that pass is_safe_project_name
  PageSize,
  Registries,   \* what Harbor may list at first
  MaxChanges,   \* bound: how often Harbor's list changes
  MaxMishaps,   \* bound: how many requests to Harbor fail, and pods are killed
  NoList

ASSUME NamesAssumption ==
  /\ ProxyCache \subseteq Names /\ Safe \subseteq Names
  /\ \A l \in Registries : l \in Seq(Names) /\ IsInjective(l)
  /\ Stopping \subseteq Pods
  /\ PageSize \in Nat \ {0}
  /\ NoList \notin Seq(Names)
ASSUME LimitsAssumption == MaxChanges \in Nat /\ MaxMishaps \in Nat

VARIABLES
  harbor,     \* the projects, as Harbor lists them
  changes,    \* how often that has changed
  mishaps,    \* how many requests to Harbor have failed, and pods been killed
  shared,     \* the entry discovery:projects
  main,       \* where main stands in each pod
  open,       \* the pods that stop and have requests in progress
  shutdown,   \* the pods whose background tasks have been told to stop
  warming,    \* the pods whose warm-up task has not returned
  stage,      \* where the discovery task stands
  page, result, \* of the refresh under way
  projects,   \* the list the pod routes by
  began,      \* history: the changes before the refresh under way
  age,        \* history: the changes before the refresh that read the list
  sharedAge,  \* history: the same for the shared list
  kept,       \* history: what has been eligible since the refresh began
  met,        \* history: what has been eligible at some time since
  shifts      \* history: the kinds of change since

bounds == <<changes, mishaps>>
lifecycle == <<main, open, shutdown, warming>>
reading == <<page, result, began>>
watch == <<kept, met, shifts>>
cache == <<shared, sharedAge>>
vars == <<harbor, bounds, cache, lifecycle, stage, reading, projects, age, watch>>

\* The names of a list that are in S, in their order.
Among(list, S) ==
  LET chosen[i \in 0 .. Len(list)] ==
        IF i = 0 THEN <<>>
        ELSE IF list[i] \in S THEN Append(chosen[i - 1], list[i])
        ELSE chosen[i - 1]
  IN  chosen[Len(list)]

\* Mutant of Proper: every project of Harbor is taken.
ProperSafe(list) == Among(list, Safe)

Proper(list) == Among(list, ProxyCache \cap Safe)
Eligible == ToSet(Proper(harbor))

Init ==
  /\ harbor \in Registries
  /\ changes = 0 /\ mishaps = 0
  /\ shared = NoList
  /\ main = [p \in Pods |-> "down"]
  /\ open = {}
  /\ shutdown = {}
  /\ warming = {}
  /\ stage = [p \in Pods |-> "off"]
  /\ page = [p \in Pods |-> 1]
  /\ result = [p \in Pods |-> <<>>]
  /\ projects = [p \in Pods |-> <<>>]
  /\ began = [p \in Pods |-> 0]
  /\ age = [p \in Pods |-> 0]
  /\ sharedAge = 0
  /\ kept = [p \in Pods |-> {}]
  /\ met = [p \in Pods |-> {}]
  /\ shifts = [p \in Pods |-> {}]

Move(p, from, to) == stage[p] = from /\ stage' = [stage EXCEPT ![p] = to]

\* The local variables of a refresh, and what is remembered about it, are gone.
Forget(p) ==
  /\ page' = [page EXCEPT ![p] = 1]
  /\ result' = [result EXCEPT ![p] = <<>>]
  /\ began' = [began EXCEPT ![p] = 0]
  /\ kept' = [kept EXCEPT ![p] = {}]
  /\ met' = [met EXCEPT ![p] = {}]
  /\ shifts' = [shifts EXCEPT ![p] = {}]

-----------------------------------------------------------------------------
(***************************************************************************)
(* The task: start, seed_from_cache, refresh with its pages.               *)
(***************************************************************************)
\* A refresh begins: the first one after the seed, the others by the ticker.
BeginRefresh(p) ==
  /\ stage' = [stage EXCEPT ![p] = "read"]
  /\ began' = [began EXCEPT ![p] = changes]
  /\ kept' = [kept EXCEPT ![p] = Eligible]
  /\ met' = [met EXCEPT ![p] = Eligible]
  /\ UNCHANGED <<page, result, shifts>>

\* A list from the cache is taken, safe names only, unless none is left.
Seeded(p) ==
  LET safe == Among(shared, Safe) IN
  /\ shared # NoList
  /\ safe # <<>>
  /\ projects' = [projects EXCEPT ![p] = safe]
  /\ age' = [age EXCEPT ![p] = sharedAge]

Seed(p) ==
  /\ stage[p] = "seed"
  /\ Seeded(p) \/ UNCHANGED <<projects, age>>
  /\ BeginRefresh(p)
  /\ UNCHANGED <<harbor, bounds, cache, lifecycle>>

Page(p) == LET first == (page[p] - 1) * PageSize + 1
               last  == page[p] * PageSize
           IN  SubSeq(harbor, first, IF last < Len(harbor) THEN last ELSE Len(harbor))

\* Mutant of ReadPage: the first page ends the list.
ReadPageFull(p) ==
  /\ stage[p] = "read"
  /\ result' = [result EXCEPT ![p] = @ \o Proper(Page(p))]
  /\ stage' = [stage EXCEPT ![p] = "persist"]
  /\ page' = [page EXCEPT ![p] = 1]
  /\ UNCHANGED <<harbor, bounds, cache, lifecycle, projects, began, age, watch>>

\* One page is fetched and filtered.  Only a page that is not full is the last.
ReadPage(p) ==
  /\ stage[p] = "read"
  /\ result' = [result EXCEPT ![p] = @ \o Proper(Page(p))]
  /\ \/ /\ Len(Page(p)) < PageSize
        /\ stage' = [stage EXCEPT ![p] = "persist"]
        /\ page' = [page EXCEPT ![p] = 1]
     \/ /\ Len(Page(p)) = PageSize
        /\ page' = [page EXCEPT ![p] = @ + 1]
        /\ UNCHANGED stage
  /\ UNCHANGED <<harbor, bounds, cache, lifecycle, projects, began, age, watch>>

\* Mutant of ReadFails: an error ends the task.
ReadFailsAndEnds(p) ==
  /\ mishaps < MaxMishaps
  /\ mishaps' = mishaps + 1
  /\ Move(p, "read", "done")
  /\ Forget(p)
  /\ UNCHANGED <<harbor, changes, cache, lifecycle, projects, age>>

\* An error on any page ends the refresh, and the list stays as it is.
ReadFails(p) ==
  /\ mishaps < MaxMishaps
  /\ mishaps' = mishaps + 1
  /\ Move(p, "read", "wait")
  /\ Forget(p)
  /\ UNCHANGED <<harbor, changes, cache, lifecycle, projects, age>>

\* persist_to_cache: the write may be lost.
Persist(p) ==
  /\ Move(p, "persist", "store")
  /\ \/ shared' = result[p] /\ sharedAge' = began[p]
     \/ UNCHANGED cache
  /\ UNCHANGED <<harbor, bounds, lifecycle, reading, projects, age, watch>>

\* Mutant of Store: the list is what the shared cache holds after the write.
StoreShared(p) ==
  /\ Move(p, "store", "wait")
  /\ projects' = [projects EXCEPT ![p] = IF shared = NoList THEN result[p] ELSE shared]
  /\ age' = [age EXCEPT ![p] = IF shared = NoList THEN began[p] ELSE sharedAge]
  /\ Forget(p)
  /\ UNCHANGED <<harbor, bounds, cache, lifecycle>>

\* The list is installed, an empty one too.
Store(p) ==
  /\ Move(p, "store", "wait")
  /\ projects' = [projects EXCEPT ![p] = result[p]]
  /\ age' = [age EXCEPT ![p] = began[p]]
  /\ Forget(p)
  /\ UNCHANGED <<harbor, bounds, cache, lifecycle>>

Tick(p) ==
  /\ stage[p] = "wait"
  /\ BeginRefresh(p)
  /\ UNCHANGED <<harbor, bounds, cache, lifecycle, projects, age>>

\* The signal to stop is only looked at between two refreshes.
Stop(p) ==
  /\ p \in shutdown
  /\ Move(p, "wait", "done")
  /\ UNCHANGED <<harbor, bounds, cache, lifecycle, reading, projects, age, watch>>

-----------------------------------------------------------------------------
(***************************************************************************)
(* main: the tasks are spawned, and 500 ms later the servers start,        *)
(* whatever has been found by then; here, at once.                         *)
(***************************************************************************)
Start(p) ==
  /\ main[p] = "down"
  /\ main' = [main EXCEPT ![p] = "serving"]
  /\ stage' = [stage EXCEPT ![p] = "seed"]
  /\ warming' = warming \cup {p}
  /\ UNCHANGED <<harbor, bounds, cache, open, shutdown, reading, projects, age, watch>>

Finish(p) ==
  /\ p \in open
  /\ open' = open \ {p}
  /\ UNCHANGED <<harbor, bounds, cache, main, shutdown, warming, stage, reading, projects, age, watch>>

\* SIGTERM or ctrl-c, once the servers listen for it: no new request is taken,
\* those in progress go on.
Signal(p) ==
  /\ p \in Stopping
  /\ main[p] = "serving"
  /\ main' = [main EXCEPT ![p] = "draining"]
  /\ open' \in {open, open \cup {p}}
  /\ UNCHANGED <<harbor, bounds, cache, shutdown, warming, stage, reading, projects, age, watch>>

\* Mutant of ServersExit: the signal wakes a task that waits, and is forgotten.
ServersExitNotify(p) ==
  /\ main[p] = "draining"
  /\ p \notin open
  /\ main' = [main EXCEPT ![p] = "stopping"]
  /\ shutdown' = IF stage[p] = "wait" THEN shutdown \cup {p} ELSE shutdown
  /\ UNCHANGED <<harbor, bounds, cache, open, warming, stage, reading, projects, age, watch>>

\* Both servers have returned.
ServersExit(p) ==
  /\ main[p] = "draining"
  /\ p \notin open
  /\ main' = [main EXCEPT ![p] = "stopping"]
  /\ shutdown' = shutdown \cup {p}
  /\ UNCHANGED <<harbor, bounds, cache, open, warming, stage, reading, projects, age, watch>>

\* The process is gone, with all it kept in memory.
Gone(p) ==
  /\ main' = [main EXCEPT ![p] = "down"]
  /\ stage' = [stage EXCEPT ![p] = "off"]
  /\ open' = open \ {p}
  /\ shutdown' = shutdown \ {p}
  /\ warming' = warming \ {p}
  /\ projects' = [projects EXCEPT ![p] = <<>>]
  /\ age' = [age EXCEPT ![p] = 0]
  /\ Forget(p)
  /\ UNCHANGED <<harbor, changes, cache>>

\* start_cache_warming returns some time after the signal.
WarmUpEnds(p) ==
  /\ p \in shutdown \cap warming
  /\ warming' = warming \ {p}
  /\ UNCHANGED <<harbor, bounds, cache, main, open, shutdown, stage, reading, projects, age, watch>>

\* main waits for one task, then for the other.
Exit(p) ==
  /\ main[p] = "stopping"
  /\ stage[p] = "done"
  /\ p \notin warming
  /\ Gone(p)
  /\ UNCHANGED mishaps

\* Killed, or signalled before the servers listen.
Crash(p) ==
  /\ main[p] # "down"
  /\ mishaps < MaxMishaps
  /\ mishaps' = mishaps + 1
  /\ Gone(p)

-----------------------------------------------------------------------------
(***************************************************************************)
(* The environment.                                                        *)
(***************************************************************************)
Becomes(list, kind) ==
  /\ changes < MaxChanges
  /\ changes' = changes + 1
  /\ harbor' = list
  /\ LET now == ToSet(Proper(list))
         running == {p \in Pods : stage[p] = "read"}
     IN /\ kept' = [p \in Pods |-> IF p \in running THEN kept[p] \cap now ELSE kept[p]]
        /\ met' = [p \in Pods |-> IF p \in running THEN met[p] \cup now ELSE met[p]]
        /\ shifts' = [p \in Pods |-> IF p \in running THEN shifts[p] \cup {kind} ELSE shifts[p]]
  /\ UNCHANGED <<mishaps, cache, lifecycle, stage, reading, projects, age>>

Create(n, i) == n \notin ToSet(harbor) /\ Becomes(InsertAt(harbor, i, n), "create")
Delete(i)    == Becomes(RemoveAt(harbor, i), "remove")

Expire ==
  /\ shared # NoList
  /\ shared' = NoList
  /\ sharedAge' = 0
  /\ UNCHANGED <<harbor, bounds, lifecycle, stage, reading, projects, age, watch>>

-----------------------------------------------------------------------------
Task(p) == Seed(p) \/ ReadPage(p) \/ Persist(p) \/ Store(p) \/ Tick(p)
Main(p) == Finish(p) \/ ServersExit(p) \/ Exit(p)

Next ==
  \/ \E p \in Pods :
       \/ Task(p) \/ ReadFails(p) \/ Stop(p)
       \/ Main(p) \/ WarmUpEnds(p) \/ Start(p) \/ Signal(p) \/ Crash(p)
  \/ \E n \in Names, i \in 1 .. Len(harbor) + 1 : Create(n, i)
  \/ \E i \in 1 .. Len(harbor) : Delete(i)
  \/ Expire

Spec == Init /\ [][Next]_vars

\* The tasks are scheduled, the timer fires, requests end by their timeouts.
\* Between a tick and the signal that are both ready tokio::select! chooses at
\* random, so the signal is not passed over for ever: strong fairness.  That
\* the warm-up task returns is WarmUpStops of HotImages.
FairSpec ==
  /\ Spec
  /\ \A p \in Pods :
       WF_vars(Task(p)) /\ WF_vars(Main(p) \/ WarmUpEnds(p)) /\ SF_vars(Stop(p))

-----------------------------------------------------------------------------
(***************************************************************************)
(* Properties.                                                             *)
(***************************************************************************)
Lists == Seq(ProxyCache \cap Safe)

TypeOK ==
  /\ harbor \in Seq(Names) /\ IsInjective(harbor)
  /\ changes \in 0 .. MaxChanges /\ mishaps \in 0 .. MaxMishaps
  /\ shared \in Lists \cup {NoList}
  /\ main \in [Pods -> {"down", "serving", "draining", "stopping"}]
  /\ open \subseteq Pods
  /\ shutdown \subseteq Pods /\ warming \subseteq Pods
  /\ stage \in [Pods -> {"off", "seed", "read", "persist", "store", "wait", "done"}]
  /\ page \in [Pods -> Nat \ {0}]
  /\ result \in [Pods -> Lists]
  /\ projects \in [Pods -> Lists]
  /\ began \in [Pods -> 0 .. MaxChanges] /\ age \in [Pods -> 0 .. MaxChanges]
  /\ sharedAge \in 0 .. MaxChanges
  /\ kept \in [Pods -> SUBSET Names] /\ met \in [Pods -> SUBSET Names]
  /\ shifts \in [Pods -> SUBSET {"create", "remove"}]

\* What a refresh collects page by page from a list that changes meanwhile is
\* at most what was there at some time.  A project that was there all the
\* while is only missed when another was removed before it, and only listed
\* twice when another was created.
RefreshIsComplete ==
  \A p \in Pods : stage[p] \in {"persist", "store"} =>
    /\ ToSet(result[p]) \subseteq met[p]
    /\ "remove" \notin shifts[p] => kept[p] \subseteq ToSet(result[p])
    /\ "create" \notin shifts[p] => IsInjective(result[p])

\* The list a pod routes by never goes back to an earlier state of Harbor's,
\* although the shared list does when a slow pod writes after a fast one: the
\* shared list is read once, before the pod's own first refresh.
ListsMoveForward ==
  [][\A p \in Pods : main'[p] # "down" => age'[p] >= age[p]]_vars

\* Once Harbor's list stays as it is, every pod that stays up ends with exactly
\* the eligible projects, each once, whatever it was seeded with.
Converges ==
  \A p \in Pods : <>[](main[p] = "serving")
                    => <>[](ToSet(projects[p]) = Eligible /\ IsInjective(projects[p]))

\* A pod that is told to stop serves what it has taken and does stop: the
\* discovery task notices the signal, whatever it is doing then, and main gets
\* past both the tasks it waits for.
ShutdownCompletes == \A p \in Pods : main[p] = "draining" ~> main[p] = "down"

=============================================================================
