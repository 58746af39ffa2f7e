--------------------------- MODULE ManifestResolver ---------------------------
(***************************************************************************)
(* Manifests (DNSManifestResolver.m, RuleManager+Manifest.m): a manifest   *)
(* is asked for by an identifier, with the machine's serial number and     *)
(* "default" to fall back to; it includes others, some on a condition; its *)
(* rules and sources and those of all it includes become the manager's     *)
(* configuration.                                                          *)
(*                                                                         *)
(* Every resolution runs on a thread of the global queue, so several run   *)
(* at a time over one cache of manifests: the loads and reloads of the     *)
(* timer, the retries of a first load that failed, and, for every include  *)
(* that is not cached, a block that resolves it to have it cached.  The    *)
(* cache is on disk and outlives a restart.  Writing it does not fail      *)
(* here.  A worker's nested calls are its agenda: what is left to do, the  *)
(* innermost call's steps first.                                           *)
(***************************************************************************)
EXTENDS Integers, Sequences, SequencesExt, FiniteSets, Functions

CONSTANTS
    Identifier,
    ClientIdentifiers,  \* what the preference may be
    SerialNumber, DefaultIdentifier,
    LocalIdentifier,    \* manifests found under the search paths
    Sites,              \* what may be published: [Identifier -> manifest or NoManifest]
    Condition,          \* predicates that some context satisfies
    Worker,             \* bound: resolutions at a time
    NoManifest,
    MaxAttempts,
    MaxTimers,          \* bound: how often the timer fires
    MaxEvents           \* bound: failures, changes, expiries and restarts, together

\* DNSManifest and DNSConditionalItem.  A manifest bears the identifier it is
\* published under.
IsConditionalItem(item) ==
    /\ DOMAIN item = {"condition", "includes", "sources", "rules"}
    /\ item.includes \in Seq(Identifier)
IsManifest(manifest) ==
    /\ DOMAIN manifest = {"name", "includes", "items", "sources", "rules"}
    /\ manifest.name \in Identifier /\ manifest.includes \in Seq(Identifier)
    /\ manifest.items \in Seq(Range(manifest.items))
    /\ \A k \in DOMAIN manifest.items : IsConditionalItem(manifest.items[k])

Manifest == (UNION {Range(site) : site \in Sites}) \ {NoManifest}

ASSUME ManifestAssumption ==
    /\ {SerialNumber, DefaultIdentifier} \cup ClientIdentifiers \cup LocalIdentifier
          \subseteq Identifier
    /\ NoManifest \notin Identifier
    /\ Sites \subseteq [Identifier -> Manifest \cup {NoManifest}]
    /\ \A manifest \in Manifest : IsManifest(manifest)
    /\ {MaxAttempts, MaxTimers, MaxEvents} \subseteq Nat

\* A context is told by the conditions it satisfies.
EvaluationContext == SUBSET Condition

\* DNSResolvedManifest, of which the configuration takes the sources and rules.
Nothing == [sources |-> <<>>, rules |-> {}]

\* The codes; a resolution ends with one of the first two.
ManifestError ==
    {"CircularDependency", "ManifestNotFound", "InvalidFormat", "MissingRequired",
     "InvalidVersion", "InvalidCondition", "ValidationFailed", "Timeout"}

-----------------------------------------------------------------------------
VARIABLES
    documents,        \* what is published now
    manifestCache,    \* by identifier
    expired,          \* the identifiers whose cached manifest is too old
    negativeURLCache, \* identifiers that were not found in this session
    includesToCache,  \* how many blocks wait to cache an include
    workers,
    evaluationContext,       \* the conditions that hold
    clientIdentifier,
    configurationInForce,
    currentResolvedManifest,
    currentManifestIdentifier,
    bootstrap,               \* how far the retries of the first load are
    timers, events

manifestVars == <<documents, manifestCache, expired, negativeURLCache, includesToCache, workers,
                  evaluationContext, clientIdentifier, configurationInForce,
                  currentResolvedManifest, currentManifestIdentifier, bootstrap, timers, events>>
caches == <<manifestCache, expired, negativeURLCache, includesToCache>>
current == <<configurationInForce, currentResolvedManifest, currentManifestIdentifier>>
surroundings == <<documents, clientIdentifier, timers>>

Purpose == {"idle", "load", "bootstrap", "reload", "include", "publish", "republish"}

\* Fault: an include is asked for like a conditional one, for which nobody is warned.
GetUnwarned(identifier) == [does |-> "getConditional", of |-> identifier]

\* Steps that are left of a resolution; a call of resolveManifestHierarchy ends with
\* its "leave"; "answers", what each include was answered with, is history.
Get(identifier) == [does |-> "get", of |-> identifier]
GetConditional(identifier) == [does |-> "getConditional", of |-> identifier]
GetPrimary(identifier) == [does |-> "getPrimary", of |-> identifier]
Evaluate(item) == [does |-> "evaluate", of |-> item]
Leave(manifest) == [does |-> "leave", of |-> manifest]

\* performResolve: a resolution of one identifier, from its beginning.
PerformResolve(purpose, asked, identifier, fallbacks) ==
    [purpose |-> purpose, asked |-> asked, fallbacks |-> fallbacks,
     agenda |-> <<GetPrimary(identifier)>>, fetching |-> FALSE, primary |-> NoManifest,
     chain |-> <<>>, resolved |-> Nothing, warnings |-> {}, answers |-> {},
     error |-> "none"]

Idle == [PerformResolve("idle", DefaultIdentifier, DefaultIdentifier, <<>>) EXCEPT !.agenda = <<>>]

\* What was asked for, then the serial number, then "default", none of them twice.
FallbackIdentifiers(identifier) ==
    (IF SerialNumber = identifier THEN <<>> ELSE <<SerialNumber>>)
    \o (IF DefaultIdentifier \in {identifier, SerialNumber} THEN <<>> ELSE <<DefaultIdentifier>>)

ResolveManifestWithFallback(purpose, identifier) ==
    PerformResolve(purpose, identifier, identifier, FallbackIdentifiers(identifier))

GetSteps == {"get", "getConditional", "getPrimary"}
Gets(work) == work.agenda # <<>> /\ Head(work.agenda).does \in GetSteps

\* Fault: what a resolution has visited is not remembered.
NothingVisited(work) == {}

\* Being processed is what has a "leave" to come; visited is the rest of the chain.
ProcessingIdentifiers(work) ==
    {work.agenda[k].of.name : k \in {j \in DOMAIN work.agenda : work.agenda[j].does = "leave"}}
VisitedIdentifiers(work) ==
    {work.chain[k].name : k \in DOMAIN work.chain} \ ProcessingIdentifiers(work)

WithAdded(resolved, part) ==
    [sources |-> resolved.sources \o part.sources, rules |-> resolved.rules \cup part.rules]

\* resolveManifestHierarchy up to its first call: includes come first, then the
\* conditional items, then what is the manifest's own.
ResolveHierarchy(work, manifest, rest) ==
    IF manifest.name \in ProcessingIdentifiers(work)
    THEN [work EXCEPT !.agenda = <<>>, !.error = "CircularDependency"]
    ELSE IF manifest.name \in VisitedIdentifiers(work) THEN [work EXCEPT !.agenda = rest]
    ELSE [work EXCEPT
            !.chain = Append(@, manifest),
            !.agenda = [k \in DOMAIN manifest.includes |-> Get(manifest.includes[k])]
                       \o [k \in DOMAIN manifest.items |-> Evaluate(manifest.items[k])]
                       \o <<Leave(manifest)>> \o rest]

\* What getManifest's caller does with its answer.  Only an unconditional include
\* that is missing becomes a warning.
Obtained(work, manifest) ==
    LET step == Head(work.agenda)
        rest == Tail(work.agenda)
        back == [work EXCEPT !.fetching = FALSE,
                     !.answers = IF manifest # NoManifest /\ step.does = "get"
                                 THEN @ \cup {<<step.of, manifest.name>>} ELSE @] IN
    IF manifest # NoManifest
    THEN ResolveHierarchy(IF step.does = "getPrimary" THEN [back EXCEPT !.primary = manifest]
                          ELSE back, manifest, rest)
    ELSE CASE step.does = "getPrimary" ->
                [back EXCEPT !.agenda = <<>>, !.error = "ManifestNotFound"]
           [] step.does = "get" ->
                [back EXCEPT !.agenda = rest, !.warnings = @ \cup {step.of}]
           [] OTHER -> [back EXCEPT !.agenda = rest]

-----------------------------------------------------------------------------
(* getManifest *)

CachedIdentifiers(cache) == {i \in Identifier : cache[i] # NoManifest}

\* cacheManifest, then cacheIncludedManifestsAsync.
CacheManifest(manifest, identifier) ==
    LET cached == [manifestCache EXCEPT ![identifier] = manifest] IN
    /\ manifestCache' = cached
    /\ expired' = expired \ {identifier}
    /\ includesToCache' = [i \in Identifier |-> includesToCache[i]
          + IF i \in CachedIdentifiers(cached) THEN 0
            ELSE Cardinality({k \in DOMAIN manifest.includes : manifest.includes[k] = i})]

Obtain(w, manifest) == workers' = [workers EXCEPT ![w] = Obtained(@, manifest)]

\* A manifest that is cached and not too old is the answer; else it is looked for.
LookUp(w) ==
    /\ Gets(workers[w]) /\ ~workers[w].fetching
    /\ LET identifier == Head(workers[w].agenda).of IN
       IF manifestCache[identifier] # NoManifest /\ identifier \notin expired
       THEN Obtain(w, manifestCache[identifier])
       ELSE workers' = [workers EXCEPT ![w].fetching = TRUE]
    /\ UNCHANGED <<caches, evaluationContext, current, bootstrap, events, surroundings>>

\* A local file, or an answer over HTTP.
FetchFinds(w) ==
    /\ workers[w].fetching
    /\ LET identifier == Head(workers[w].agenda).of IN
       /\ documents[identifier] # NoManifest
       /\ identifier \notin negativeURLCache
       /\ CacheManifest(documents[identifier], identifier)
       /\ Obtain(w, documents[identifier])
    /\ UNCHANGED <<negativeURLCache, evaluationContext, current, bootstrap, events, surroundings>>

\* The cached manifest is fallen back to however old it is, and is as good as new
\* afterwards.
FallBackToCache(w, identifier) ==
    /\ Obtain(w, manifestCache[identifier])
    /\ expired' = expired \ {identifier}
    /\ UNCHANGED <<manifestCache, includesToCache>>

\* A URL that is not there is not asked for again in this session.
FetchNotFound(w) ==
    /\ workers[w].fetching
    /\ LET identifier == Head(workers[w].agenda).of IN
       /\ documents[identifier] = NoManifest \/ identifier \in negativeURLCache
       /\ negativeURLCache' = negativeURLCache \cup {identifier}
       /\ FallBackToCache(w, identifier)
    /\ UNCHANGED <<evaluationContext, current, bootstrap, events, surroundings>>

\* A timeout, which cancels the fetch, another error, or data that does not parse.
FetchFails(w) ==
    /\ workers[w].fetching /\ events < MaxEvents
    /\ LET identifier == Head(workers[w].agenda).of IN
       /\ identifier \notin LocalIdentifier
       /\ FallBackToCache(w, identifier)
    /\ events' = events + 1
    /\ UNCHANGED <<negativeURLCache, evaluationContext, current, bootstrap, surroundings>>

-----------------------------------------------------------------------------
(* The rest of resolveManifestHierarchy *)

\* A conditional item that applies adds its own before it includes anything.
EvaluateItem(w) ==
    /\ workers[w].agenda # <<>> /\ Head(workers[w].agenda).does = "evaluate"
    /\ LET work == workers[w]
           item == Head(work.agenda).of
           rest == Tail(work.agenda)
           includes == [k \in DOMAIN item.includes |-> GetConditional(item.includes[k])] IN
       workers' = [workers EXCEPT ![w] =
           IF item.condition \in evaluationContext
           THEN [work EXCEPT !.agenda = includes \o rest,
                             !.resolved = WithAdded(work.resolved, item)]
           ELSE [work EXCEPT !.agenda = rest]]
    /\ UNCHANGED <<caches, evaluationContext, current, bootstrap, events, surroundings>>

LeaveManifest(w) ==
    /\ workers[w].agenda # <<>> /\ Head(workers[w].agenda).does = "leave"
    /\ LET work == workers[w] IN
       workers' = [workers EXCEPT ![w] =
           [work EXCEPT !.agenda = Tail(work.agenda),
                        !.resolved = WithAdded(work.resolved, Head(work.agenda).of)]]
    /\ UNCHANGED <<caches, evaluationContext, current, bootstrap, events, surroundings>>

\* The next identifier is tried.  When none is left a load has failed, which only the
\* first load's completion block does something about.
ResolutionFails(w) ==
    /\ workers[w].error # "none"
    /\ LET work == workers[w] IN
       IF work.fallbacks # <<>>
       THEN /\ workers' = [workers EXCEPT ![w] =
                  PerformResolve(work.purpose, work.asked, Head(work.fallbacks), Tail(work.fallbacks))]
            /\ UNCHANGED bootstrap
       ELSE /\ workers' = [workers EXCEPT ![w] = Idle]
            /\ bootstrap' = IF work.purpose = "bootstrap"
                            THEN [bootstrap EXCEPT !.phase = "reporting"] ELSE bootstrap
    /\ UNCHANGED <<caches, evaluationContext, current, events, surroundings>>

Resolved(w, purposes) ==
    /\ workers[w].purpose \in purposes
    /\ workers[w].agenda = <<>> /\ workers[w].error = "none"

-----------------------------------------------------------------------------
(* RuleManager+Manifest *)

\* The source's URL is not compared.
IsResolvedManifestEqual(r1, r2) ==
    /\ [k \in DOMAIN r1.sources |-> r1.sources[k].id] = [k \in DOMAIN r2.sources |-> r2.sources[k].id]
    /\ r1.rules = r2.rules

\* loadManifest hands on the configuration, and then stores what it has loaded.
LoadManifest(w) ==
    /\ Resolved(w, {"load", "bootstrap"})
    /\ configurationInForce' = workers[w].resolved
    /\ workers' = [workers EXCEPT ![w].purpose = "publish"]
    /\ bootstrap' = IF workers[w].purpose = "bootstrap" THEN [bootstrap EXCEPT !.phase = "over"]
                    ELSE bootstrap
    /\ UNCHANGED <<caches, evaluationContext, currentResolvedManifest, currentManifestIdentifier,
                   events, surroundings>>

ReloadManifest(w) ==
    /\ Resolved(w, {"reload"})
    /\ IF IsResolvedManifestEqual(currentResolvedManifest.resolved, workers[w].resolved)
       THEN workers' = [workers EXCEPT ![w] = Idle] /\ UNCHANGED configurationInForce
       ELSE /\ configurationInForce' = workers[w].resolved
            /\ workers' = [workers EXCEPT ![w].purpose = "republish"]
    /\ UNCHANGED <<caches, evaluationContext, currentResolvedManifest, currentManifestIdentifier,
                   bootstrap, events, surroundings>>

StoreManifest(w) ==
    /\ Resolved(w, {"publish", "republish"})
    /\ currentResolvedManifest' = workers[w]
    /\ currentManifestIdentifier' = IF workers[w].purpose = "publish" THEN workers[w].asked
                                    ELSE currentManifestIdentifier
    /\ workers' = [workers EXCEPT ![w] = Idle]
    /\ UNCHANGED <<caches, evaluationContext, configurationInForce, bootstrap, events, surroundings>>

\* The block cacheIncludedManifestsAsync leaves behind; a resolution's primary
\* manifest is cached as the include, whichever identifier it was found by.
CacheInclude(w) ==
    /\ \E i \in Identifier :
          /\ includesToCache[i] > 0 /\ workers[w].purpose = "idle"
          /\ includesToCache' = [includesToCache EXCEPT ![i] = @ - 1]
          /\ workers' = [workers EXCEPT ![w] = ResolveManifestWithFallback("include", i)]
    /\ UNCHANGED <<manifestCache, expired, negativeURLCache, evaluationContext, current, bootstrap,
                   events, surroundings>>

IncludeCached(w) ==
    /\ Resolved(w, {"include"})
    /\ CacheManifest(workers[w].primary, workers[w].asked)
    /\ workers' = [workers EXCEPT ![w] = Idle]
    /\ UNCHANGED <<negativeURLCache, evaluationContext, current, bootstrap, events, surroundings>>

\* The unified timer: a full load when there is no manifest or another one is wanted,
\* else a reload, which looks at the time and so at the context first.
TimerFires(w) ==
    /\ workers[w].purpose = "idle" /\ ~(bootstrap.attempt = 0 /\ bootstrap.phase = "loading")
    /\ timers < MaxTimers /\ timers' = timers + 1
    /\ IF currentManifestIdentifier # clientIdentifier
       THEN /\ workers' = [workers EXCEPT ![w] = ResolveManifestWithFallback("load", clientIdentifier)]
            /\ UNCHANGED evaluationContext
       ELSE /\ workers' = [workers EXCEPT ![w] =
                  ResolveManifestWithFallback("reload", currentManifestIdentifier)]
            /\ evaluationContext' \in EvaluationContext
    /\ UNCHANGED <<caches, current, bootstrap, events, documents, clientIdentifier>>

\* scheduleManifestBootstrapRetry, called by init and by the completion of a retry.
ScheduleBootstrapRetry ==
    /\ bootstrap.phase = "reporting"
    /\ bootstrap' =
          IF currentManifestIdentifier # NoManifest \/ bootstrap.attempt = MaxAttempts
          THEN [bootstrap EXCEPT !.phase = "over"]
          ELSE [bootstrap EXCEPT !.phase = "waiting", !.attempt = @ + 1]
    /\ UNCHANGED <<workers, caches, evaluationContext, current, events, surroundings>>

\* The identifier is the one that init had.
BootstrapRetry(w) ==
    /\ bootstrap.phase = "waiting" /\ workers[w].purpose = "idle"
    /\ IF currentManifestIdentifier # NoManifest
       THEN bootstrap' = [bootstrap EXCEPT !.phase = "over"] /\ UNCHANGED workers
       ELSE /\ bootstrap' = [bootstrap EXCEPT !.phase = "loading"]
            /\ workers' = [workers EXCEPT ![w] =
                  ResolveManifestWithFallback("bootstrap", bootstrap.identifier)]
    /\ UNCHANGED <<caches, evaluationContext, current, events, surroundings>>

\* updateRulesFromCurrentManifest (a command): the sources go into the configuration.
UpdateRulesFromCurrentManifest ==
    /\ currentManifestIdentifier # NoManifest
    /\ configurationInForce' =
          [configurationInForce EXCEPT !.sources = currentResolvedManifest.resolved.sources]
    /\ UNCHANGED <<workers, caches, evaluationContext, currentResolvedManifest,
                   currentManifestIdentifier, bootstrap, events, surroundings>>

-----------------------------------------------------------------------------
(* Time passes, what is published and preferred changes, the proxy restarts *)

CacheExpires ==
    /\ \E i \in CachedIdentifiers(manifestCache) \ expired : expired' = expired \cup {i}
    /\ events < MaxEvents /\ events' = events + 1
    /\ UNCHANGED <<workers, manifestCache, negativeURLCache, includesToCache, evaluationContext,
                   current, bootstrap, documents, clientIdentifier, timers>>

SiteChanges ==
    /\ events < MaxEvents /\ events' = events + 1
    /\ documents' \in Sites /\ clientIdentifier' \in ClientIdentifiers
    /\ UNCHANGED <<workers, caches, evaluationContext, current, bootstrap, timers>>

\* initWithManifestIdentifier: its load runs before anything else, with the cache that
\* is on disk.  Until a manifest is loaded the default configuration holds.
Started(identifier) ==
    [w \in Worker |-> IF w = CHOOSE v \in Worker : TRUE
                      THEN ResolveManifestWithFallback("bootstrap", identifier) ELSE Idle]

RestartProxy ==
    /\ events < MaxEvents /\ events' = events + 1
    /\ workers' = Started(clientIdentifier)
    /\ bootstrap' = [attempt |-> 0, phase |-> "loading", identifier |-> clientIdentifier]
    /\ negativeURLCache' = {} /\ includesToCache' = [i \in Identifier |-> 0]
    /\ evaluationContext' \in EvaluationContext
    /\ configurationInForce' = Nothing /\ currentResolvedManifest' = Idle
    /\ currentManifestIdentifier' = NoManifest
    /\ UNCHANGED <<manifestCache, expired, documents, clientIdentifier, timers>>

ManifestInit ==
    /\ documents \in Sites /\ clientIdentifier \in ClientIdentifiers
    /\ manifestCache = [i \in Identifier |-> NoManifest] /\ expired = {}
    /\ negativeURLCache = {} /\ includesToCache = [i \in Identifier |-> 0]
    /\ workers = Started(clientIdentifier)
    /\ bootstrap = [attempt |-> 0, phase |-> "loading", identifier |-> clientIdentifier]
    /\ evaluationContext = {}
    /\ configurationInForce = Nothing /\ currentResolvedManifest = Idle
    /\ currentManifestIdentifier = NoManifest
    /\ timers = 0 /\ events = 0

ManifestNext ==
    \/ \E w \in Worker :
          \/ LookUp(w) \/ FetchFinds(w) \/ FetchNotFound(w) \/ FetchFails(w)
          \/ EvaluateItem(w) \/ LeaveManifest(w) \/ ResolutionFails(w)
          \/ LoadManifest(w) \/ ReloadManifest(w) \/ StoreManifest(w)
          \/ CacheInclude(w) \/ IncludeCached(w) \/ TimerFires(w) \/ BootstrapRetry(w)
    \/ ScheduleBootstrapRetry \/ UpdateRulesFromCurrentManifest
    \/ CacheExpires \/ SiteChanges \/ RestartProxy

ManifestSpec == ManifestInit /\ [][ManifestNext]_manifestVars

-----------------------------------------------------------------------------
(* Properties *)

ManifestTypeOK ==
    /\ documents \in Sites /\ clientIdentifier \in ClientIdentifiers
    /\ \A i \in Identifier : manifestCache[i] \in Manifest \cup {NoManifest}
    /\ expired \subseteq Identifier /\ negativeURLCache \subseteq Identifier
    /\ \A i \in Identifier : includesToCache[i] \in Nat
    /\ \A w \in Worker : /\ workers[w].purpose \in Purpose
                        /\ workers[w].error \in ManifestError \cup {"none"}
    /\ evaluationContext \in EvaluationContext
    /\ currentManifestIdentifier \in Identifier \cup {NoManifest}
    /\ bootstrap.attempt \in 0 .. MaxAttempts

\* However often and by whichever way a manifest is included, and whatever the cache
\* gives for an include, a resolution applies it once: what is in the chain has been
\* visited or is being processed (DNSManifestResolver.m:910-933).
AppliedOnce ==
    \A w \in Worker : LET chain == workers[w].chain IN
        \A j, k \in DOMAIN chain : chain[j].name = chain[k].name => j = k

\* A manifest in force lacks no include without a warning: each include of a manifest
\* of the chain has been asked for, and what it was answered with is in the chain,
\* too, or a warning names it (DNSManifestResolver.m:944-993).
MissingCostsItself ==
    LET chain == currentResolvedManifest.chain IN
    \A k \in DOMAIN chain : \A j \in DOMAIN chain[k].includes :
        \/ \E l \in DOMAIN chain :
              <<chain[k].includes[j], chain[l].name>> \in currentResolvedManifest.answers
        \/ chain[k].includes[j] \in currentResolvedManifest.warnings

=============================================================================
