---------------------------- MODULE RuleManager ----------------------------
(***************************************************************************)
(* The rule manager: from a source's update to the rule set handed to the  *)
(* proxy.  Three queues and the fetchers' own threads take part:           *)
(*                                                                         *)
(*   - managerQueue, serial: start, stop, new configurations, the end of   *)
(*     every update, and the publication of a merged rule set;             *)
(*   - updateOperationQueue: one operation per update, which looks at the  *)
(*     cache and starts the fetch; the rest of the update runs in the      *)
(*     fetch's completion block, on a thread of the fetcher;               *)
(*   - updateQueue, concurrent: the merging of all sources' rule sets,     *)
(*     whose result goes back to managerQueue to be published.             *)
(*                                                                         *)
(* sourceRuleSets, configuration and the caches are read and written from  *)
(* all of them.  The rules of a source are the number of the version that  *)
(* its server has served; a fetcher answers a second fetch with an error   *)
(* while it has one, and an HTTP one ever after (RuleFetcher).             *)
(***************************************************************************)
EXTENDS Integers, Sequences, FiniteSets

CONSTANTS
    Source,          \* the sources a configuration may name
    HttpSource,      \* those that are fetched over HTTP
    Configurations,  \* the sets of enabled sources there may be
    Update,          \* the updates under way at one time
    Free,            \* a fetcher that is not fetching
    MaxVersion,      \* bound on what a server serves
    MaxBlocks,       \* bound on the work outstanding when new work is asked for
    MaxRequests      \* bound on the calls of the manager's interface

ASSUME ManagerAssumption ==
    /\ Source # {} /\ HttpSource \subseteq Source
    /\ IsFiniteSet(Update)
    /\ Configurations \subseteq SUBSET Source
    /\ Free \notin Update
    /\ MaxVersion \in Nat \ {0} /\ MaxBlocks \in Nat /\ MaxRequests \in Nat

RuleManagerState == {"Stopped", "Starting", "Running", "Stopping", "Error"}

NoRules == 0
Version == NoRules .. MaxVersion
SourceRules == [Source -> Version]
NoneAtAll == [s \in Source |-> NoRules]

\* What the interface can be asked, and what else is queued on managerQueue.
Request == {"startUpdating", "stopUpdating", "updateConfiguration", "clearCache"}
ManagerBlock == [does: Request \cup {"completeUpdate", "publish"},
                 success: BOOLEAN, ruleSet: SourceRules, sources: SUBSET Source]

\* An update: its source, how far it has come, and the version it has in hand.
UpdateResult == [source: Source, stage: {"none", "queued", "fromCache", "fetching",
                                         "fallback", "fetched", "cached"},
                 version: Version]

VARIABLES
    managerState,
    configuration,   \* the enabled sources
    fetchers,        \* the update each source's fetcher works for
    sourceRuleSets,
    ruleCaches,      \* the version cached for a source
    currentRuleSet,  \* what was last published
    managerQueue,
    loading,         \* the caches as loadCachedRules has read them, while it runs
    updates,
    mergesQueued,    \* merges on updateQueue that have not read anything yet
    merged,          \* merges that have, before they are back on managerQueue
    served,          \* the version a server would serve
    reordered,       \* whether currentRuleSet may lag behind for good (see Merge)
    contended,       \* sources that several updates have ever worked on at a time
    requests

managerVars == <<managerState, configuration, fetchers, sourceRuleSets, ruleCaches,
                 currentRuleSet, managerQueue, loading, updates, mergesQueued, merged,
                 served, reordered, contended, requests>>
pipeline == <<sourceRuleSets, ruleCaches, fetchers, updates, served>>
published == <<currentRuleSet, merged, reordered>>

NotLoading == [s \in Source |-> -1]
NoUpdate == [source |-> CHOOSE s \in Source : TRUE, stage |-> "none", version |-> NoRules]
QueuedBlock(what) == [does |-> what, success |-> FALSE, ruleSet |-> NoneAtAll, sources |-> {}]

Outstanding == Len(managerQueue) + Len(merged) + mergesQueued

\* Who may write the rule set of a source at the moment.
Writers(s) ==
    Cardinality({u \in Update : updates[u].stage # "none" /\ updates[u].source = s})
    + (IF loading # NotLoading THEN 1 ELSE 0)

-----------------------------------------------------------------------------
(* Merging *)

\* The rule sets of the configured sources; a source's own priority and its
\* rules' decide between them, not here.
MergeOf(config, sets) == [s \in Source |-> IF s \in config THEN sets[s] ELSE NoRules]

\* mergeRuleSetsAndNotify on updateQueue: nothing is published when there is
\* nothing to merge.  "reordered" notes that another merge is not back yet, so
\* that the older of the two may be published last, and is lowered by a merge
\* that is alone again.
Merge ==
    /\ mergesQueued > 0
    /\ mergesQueued' = mergesQueued - 1
    /\ LET m == MergeOf(configuration, sourceRuleSets) IN
       IF m = NoneAtAll THEN UNCHANGED <<merged, reordered>>
       ELSE /\ merged' = Append(merged, m)
            /\ reordered' = (merged # <<>>)
    /\ UNCHANGED <<managerState, configuration, currentRuleSet, managerQueue, loading,
                   pipeline, requests>>

\* Its last statement: the merge that gets there first is published first.
MergeDone ==
    /\ \E i \in DOMAIN merged :
          /\ managerQueue' = Append(managerQueue,
                                    [QueuedBlock("publish") EXCEPT !.ruleSet = merged[i]])
          /\ merged' = [j \in 1 .. Len(merged) - 1 |-> merged[IF j < i THEN j ELSE j + 1]]
    /\ UNCHANGED <<managerState, configuration, currentRuleSet, loading, mergesQueued,
                   reordered, pipeline, requests>>

-----------------------------------------------------------------------------
(* The interface and the blocks of managerQueue *)

Ask(what, sources) ==
    /\ requests < MaxRequests /\ Outstanding < MaxBlocks
    /\ requests' = requests + 1
    /\ managerQueue' = Append(managerQueue, [QueuedBlock(what) EXCEPT !.sources = sources])
    /\ UNCHANGED <<managerState, configuration, loading, mergesQueued, pipeline, published>>

StartUpdating == Ask("startUpdating", {})
StopUpdating == Ask("stopUpdating", {})
ClearCache == Ask("clearCache", {})
UpdateConfiguration == \E c \in Configurations : Ask("updateConfiguration", c)

Turn(what) ==
    /\ managerQueue # <<>> /\ Head(managerQueue).does = what
    /\ loading = NotLoading
    /\ managerQueue' = Tail(managerQueue)

\* startUpdating: the caches of the configured sources are read ...
Start ==
    /\ Turn("startUpdating")
    /\ IF managerState = "Running" THEN UNCHANGED <<managerState, loading>>
       ELSE /\ managerState' = "Starting"
            /\ loading' = MergeOf(configuration, ruleCaches)
    /\ UNCHANGED <<configuration, mergesQueued, pipeline, published, requests>>

\* ... and become their rule sets, wherever there was one.
LoadCachedRules ==
    /\ loading # NotLoading
    /\ loading' = NotLoading
    /\ managerState' = "Running"
    /\ sourceRuleSets' = [s \in Source |-> IF loading[s] # NoRules THEN loading[s]
                                                                   ELSE sourceRuleSets[s]]
    /\ mergesQueued' = mergesQueued + 1
    /\ UNCHANGED <<configuration, ruleCaches, fetchers, updates, served, managerQueue,
                   published, requests>>

\* stopUpdating cancels the operations that have not begun and waits for the
\* others, but not for the fetches that they have started.
Stop ==
    /\ Turn("stopUpdating")
    /\ managerState # "Stopped" => \A u \in Update : updates[u].stage # "fromCache"
    /\ managerState' = "Stopped"
    /\ updates' = IF managerState = "Stopped" THEN updates
                  ELSE [u \in Update |-> IF updates[u].stage = "queued" THEN NoUpdate
                                                                        ELSE updates[u]]
    /\ UNCHANGED <<configuration, fetchers, sourceRuleSets, ruleCaches, served, loading,
                   mergesQueued, published, requests>>

\* updateConfiguration: new fetchers for the new sources.  The rule sets of the
\* old ones stay where they are, and nothing is merged.
Configure ==
    /\ Turn("updateConfiguration")
    /\ configuration' = Head(managerQueue).sources
    /\ fetchers' = [s \in Source |-> Free]
    /\ reordered' = TRUE
    /\ UNCHANGED <<managerState, sourceRuleSets, ruleCaches, updates, served, loading,
                   mergesQueued, currentRuleSet, merged, requests>>

ClearAllCaches ==
    /\ Turn("clearCache")
    /\ ruleCaches' = NoneAtAll
    /\ UNCHANGED <<managerState, configuration, fetchers, sourceRuleSets, updates, served,
                   loading, mergesQueued, published, requests>>

\* Fault: an update that completed is not merged.
CompleteUpdateUnmerged ==
    /\ Turn("completeUpdate")
    /\ UNCHANGED <<managerState, configuration, loading, mergesQueued, pipeline, published, requests>>

\* completeUpdateWithResult:task:
CompleteUpdate ==
    /\ Turn("completeUpdate")
    /\ mergesQueued' = IF Head(managerQueue).success THEN mergesQueued + 1 ELSE mergesQueued
    /\ UNCHANGED <<managerState, configuration, loading, pipeline, published, requests>>

Publish ==
    /\ Turn("publish")
    /\ currentRuleSet' = Head(managerQueue).ruleSet
    /\ UNCHANGED <<managerState, configuration, loading, mergesQueued, merged, reordered,
                   pipeline, requests>>

-----------------------------------------------------------------------------
(* One update of a source (performUpdateForSource:task:) *)

SetUpdate(u, stage, version) ==
    updates' = [updates EXCEPT ![u].stage = stage, ![u].version = version]

UpdateEnds(u, success) ==
    /\ updates' = [updates EXCEPT ![u] = NoUpdate]
    /\ managerQueue' = Append(managerQueue,
                              [QueuedBlock("completeUpdate") EXCEPT !.success = success])

UpdateUnchanged ==
    UNCHANGED <<managerState, configuration, loading, mergesQueued, published, requests>>

\* updateScheduler:shouldUpdateSource:withTask: queues the operation.
ShouldUpdateSource(u, s) ==
    /\ updates[u].stage = "none" /\ s \in configuration
    /\ requests < MaxRequests /\ Outstanding < MaxBlocks
    /\ requests' = requests + 1
    /\ updates' = [updates EXCEPT ![u] = [source |-> s, stage |-> "queued",
                                          version |-> NoRules]]
    /\ UNCHANGED <<managerState, configuration, fetchers, sourceRuleSets, ruleCaches,
                   served, managerQueue, loading, mergesQueued, published>>

\* The operation runs: a cached rule set may be fresh and do, unless the update
\* is urgent; a source without a fetcher fails; else a fetch begins, or is
\* refused by a fetcher that has one.
PerformUpdate(u) ==
    /\ updates[u].stage = "queued"
    /\ LET s == updates[u].source IN
       \/ /\ ruleCaches[s] # NoRules /\ s \in configuration
          /\ SetUpdate(u, "fromCache", ruleCaches[s])
          /\ UNCHANGED <<fetchers, managerQueue>>
       \/ /\ s \notin configuration
          /\ UpdateEnds(u, FALSE)
          /\ UNCHANGED fetchers
       \/ /\ s \in configuration /\ fetchers[s] = Free
          /\ fetchers' = [fetchers EXCEPT ![s] = u]
          /\ SetUpdate(u, "fetching", NoRules)
          /\ UNCHANGED managerQueue
       \/ /\ s \in configuration /\ fetchers[s] # Free
          /\ SetUpdate(u, "fallback", ruleCaches[s])
          /\ UNCHANGED <<fetchers, managerQueue>>
    /\ UNCHANGED <<sourceRuleSets, ruleCaches, served>>
    /\ UpdateUnchanged

\* The rule set that was found in the cache becomes the source's; after a
\* failed fetch there may be none.
UseCached(u) ==
    /\ updates[u].stage \in {"fromCache", "fallback"}
    /\ sourceRuleSets' = IF updates[u].version = NoRules THEN sourceRuleSets
                         ELSE [sourceRuleSets EXCEPT ![updates[u].source] = updates[u].version]
    /\ UpdateEnds(u, updates[u].version # NoRules)
    /\ UNCHANGED <<ruleCaches, fetchers, served>>
    /\ UpdateUnchanged

\* The fetch ends with data that parses, with data that does not, or with an
\* error, for which the cache is read; a file's fetcher is free again.
FetchEnds(u) ==
    /\ updates[u].stage = "fetching"
    /\ LET s == updates[u].source IN
       /\ fetchers' = IF fetchers[s] = u /\ s \notin HttpSource
                      THEN [fetchers EXCEPT ![s] = Free] ELSE fetchers
       /\ \/ SetUpdate(u, "fetched", served[s]) /\ UNCHANGED managerQueue
          \/ SetUpdate(u, "fallback", ruleCaches[s]) /\ UNCHANGED managerQueue
          \/ UpdateEnds(u, FALSE)
    /\ UNCHANGED <<sourceRuleSets, ruleCaches, served>>
    /\ UpdateUnchanged

\* Fault: the rule set does not get into the cache.
StoreNothing(u) ==
    /\ updates[u].stage = "fetched"
    /\ SetUpdate(u, "cached", updates[u].version)
    /\ UNCHANGED <<sourceRuleSets, ruleCaches, fetchers, served, managerQueue>>
    /\ UpdateUnchanged

StoreInCache(u) ==
    /\ updates[u].stage = "fetched"
    /\ ruleCaches' = [ruleCaches EXCEPT ![updates[u].source] = updates[u].version]
    /\ SetUpdate(u, "cached", updates[u].version)
    /\ UNCHANGED <<sourceRuleSets, fetchers, served, managerQueue>>
    /\ UpdateUnchanged

SetSourceRuleSet(u) ==
    /\ updates[u].stage = "cached"
    /\ sourceRuleSets' = [sourceRuleSets EXCEPT ![updates[u].source] = updates[u].version]
    /\ UpdateEnds(u, TRUE)
    /\ UNCHANGED <<ruleCaches, fetchers, served>>
    /\ UpdateUnchanged

\* The maintainers of a list publish a new version.
ServerChanges ==
    /\ \E s \in Source : served[s] < MaxVersion /\ served' = [served EXCEPT ![s] = @ + 1]
    /\ UNCHANGED <<sourceRuleSets, ruleCaches, fetchers, updates, managerQueue>>
    /\ UpdateUnchanged

-----------------------------------------------------------------------------
ManagerInit ==
    /\ managerState = "Stopped"
    /\ configuration \in Configurations
    /\ fetchers = [s \in Source |-> Free]
    /\ sourceRuleSets = NoneAtAll
    /\ ruleCaches \in {NoneAtAll, [s \in Source |-> 1]}
    /\ currentRuleSet = NoneAtAll
    /\ managerQueue = <<>>
    /\ loading = NotLoading
    /\ updates = [u \in Update |-> NoUpdate]
    /\ mergesQueued = 0
    /\ merged = <<>>
    /\ served = [s \in Source |-> 1]
    /\ reordered = FALSE
    /\ contended = {}
    /\ requests = 0

ManagerQueueStep ==
    Start \/ LoadCachedRules \/ Stop \/ Configure \/ ClearAllCaches \/ CompleteUpdate \/ Publish

UpdateStep ==
    \E u \in Update :
        \/ \E s \in Source : ShouldUpdateSource(u, s)
        \/ PerformUpdate(u) \/ UseCached(u) \/ FetchEnds(u) \/ StoreInCache(u) \/ SetSourceRuleSet(u)

Contend ==
    contended' = contended \cup {s \in Source : Writers(s)' > 1}

ManagerNext ==
    /\ \/ StartUpdating \/ StopUpdating \/ ClearCache \/ UpdateConfiguration
       \/ ManagerQueueStep
       \/ Merge \/ MergeDone
       \/ UpdateStep
       \/ ServerChanges
    /\ Contend

ManagerSpec == ManagerInit /\ [][ManagerNext]_managerVars

-----------------------------------------------------------------------------
(* Properties *)

ManagerTypeOK ==
    /\ managerState \in RuleManagerState
    /\ configuration \subseteq Source
    /\ fetchers \in [Source -> Update \cup {Free}]
    /\ sourceRuleSets \in SourceRules /\ ruleCaches \in SourceRules
    /\ currentRuleSet \in SourceRules /\ served \in SourceRules
    /\ managerQueue \in Seq(ManagerBlock)
    /\ loading \in SourceRules \cup {NotLoading}
    /\ updates \in [Update -> UpdateResult]
    /\ mergesQueued \in Nat /\ requests \in Nat
    /\ merged \in Seq(SourceRules)
    /\ reordered \in BOOLEAN
    /\ contended \subseteq Source

\* Nothing is under way on any queue or thread.
Settled ==
    /\ managerQueue = <<>> /\ merged = <<>> /\ mergesQueued = 0 /\ loading = NotLoading
    /\ \A u \in Update : updates[u].stage \in {"none", "fetching"}

\* Once everything has come to rest, the published rules are the sources' rules,
\* through all overtaking of fetches, fallbacks, loads and completions, unless
\* two merges were computed side by side or the configuration was replaced and
\* nothing was merged since (RuleManager.m:636-740).
SettledIsMerged ==
    Settled /\ ~reordered => currentRuleSet = MergeOf(configuration, sourceRuleSets)

\* A source whose updates have never overlapped never goes back to an older version,
\* whether it comes from its server, the cache or the cache after a failure
\* (RuleManager.m:516-634; with two updates at a time it can).
NoRollback ==
    [][\A s \in Source : s \notin contended => sourceRuleSets'[s] >= sourceRuleSets[s]]_managerVars

=============================================================================
