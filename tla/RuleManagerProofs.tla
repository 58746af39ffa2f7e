-------------------------- MODULE RuleManagerProofs --------------------------
(***************************************************************************)
(* The rule manager keeps its types, a source that is worked on by one     *)
(* update at a time never gets an older version of its rules, and what is  *)
(* published in the end is the merge of what is there, for any sources,    *)
(* configurations, updates under way and bounds.                           *)
(***************************************************************************)
EXTENDS RuleManager, FiniteSetTheorems, SequenceTheorems, TLAPS

-----------------------------------------------------------------------------
(* The strengthening of NoRollback *)

Working(s) == {u \in Update : updates[u].stage # "none" /\ updates[u].source = s}

\* The one writer of a source's rules, when it has not been contended.
Alone(s) ==
    /\ \A u, v \in Working(s) : u = v
    /\ loading # NotLoading => Working(s) = {}

\* Nothing is newer than what the server serves.
NoneNewer ==
    \A s \in Source :
        /\ sourceRuleSets[s] <= served[s] /\ ruleCaches[s] <= served[s]
        /\ loading[s] <= served[s]
        /\ \A u \in Update : updates[u].source = s => updates[u].version <= served[s]

\* A version that came from the cache or is in it: no older than the source's rules, and
\* the cache is not older, unless it has been cleared.
Usable(s, v) ==
    v >= sourceRuleSets[s] /\ (ruleCaches[s] = NoRules \/ ruleCaches[s] >= v)

InOrder(s) ==
    /\ ruleCaches[s] # NoRules => ruleCaches[s] >= sourceRuleSets[s]
    /\ loading[s] > NoRules => Usable(s, loading[s])
    /\ \A u \in Working(s) :
          /\ updates[u].stage = "fetched" => updates[u].version >= sourceRuleSets[s]
          /\ updates[u].stage \in {"fromCache", "fallback"} /\ updates[u].version # NoRules
             => Usable(s, updates[u].version)
          /\ updates[u].stage = "cached" => Usable(s, updates[u].version)

OneAtATime == \A s \in Source : s \notin contended => Alone(s) /\ InOrder(s)

RollbackInv == ManagerTypeOK /\ NoneNewer /\ OneAtATime
-----------------------------------------------------------------------------
(* Types *)

LEMMA VersionFacts ==
    /\ NoRules \in Version /\ Version \subseteq Int /\ NoneAtAll \in SourceRules
    /\ \A v \in Version : v >= NoRules
    /\ \A s \in Source : NotLoading[s] = -1
    /\ NoUpdate \in UpdateResult /\ NoUpdate.stage = "none" /\ NoUpdate.version = NoRules
BY ManagerAssumption DEF NoRules, Version, NoneAtAll, SourceRules, NotLoading, NoUpdate,
    UpdateResult

LEMMA MergeOfIsSourceRules ==
    ASSUME NEW config, NEW sets \in SourceRules
    PROVE  /\ MergeOf(config, sets) \in SourceRules
           /\ \A s \in Source : MergeOf(config, sets)[s] \in {NoRules, sets[s]}
BY VersionFacts DEF MergeOf, SourceRules

LEMMA QueuedBlockIsManagerBlock ==
    ASSUME NEW what \in Request \cup {"completeUpdate", "publish"}
    PROVE  QueuedBlock(what) \in ManagerBlock
BY VersionFacts DEF QueuedBlock, ManagerBlock

\* The types that an update changes.
UpdateTypes ==
    /\ fetchers \in [Source -> Update \cup {Free}]
    /\ sourceRuleSets \in SourceRules /\ ruleCaches \in SourceRules
    /\ served \in SourceRules
    /\ managerQueue \in Seq(ManagerBlock)
    /\ updates \in [Update -> UpdateResult]

LEMMA UpdateTypesFacts ==
    ASSUME UpdateTypes
    PROVE  /\ \A s \in Source :
                 /\ sourceRuleSets[s] \in Version /\ ruleCaches[s] \in Version
                 /\ served[s] \in Version
           /\ \A u \in Update :
                 /\ updates[u].source \in Source /\ updates[u].version \in Version
BY DEF UpdateTypes, SourceRules, UpdateResult

LEMMA SetUpdateTypes ==
    ASSUME UpdateTypes, NEW u \in Update, NEW v \in Version,
           NEW stage \in {"fromCache", "fetching", "fallback", "fetched", "cached"},
           SetUpdate(u, stage, v)
    PROVE  updates' \in [Update -> UpdateResult]
BY DEF UpdateTypes, SetUpdate, UpdateResult

LEMMA UpdateEndsTypes ==
    ASSUME UpdateTypes, NEW u \in Update, NEW success \in BOOLEAN, UpdateEnds(u, success)
    PROVE  updates' \in [Update -> UpdateResult] /\ managerQueue' \in Seq(ManagerBlock)
<1>1. [QueuedBlock("completeUpdate") EXCEPT !.success = success] \in ManagerBlock
  BY QueuedBlockIsManagerBlock DEF ManagerBlock
<1> QED  BY <1>1, VersionFacts DEF UpdateTypes, UpdateEnds

LEMMA UpdateStepTypes ==
    ASSUME ManagerTypeOK, UpdateStep \/ ServerChanges
    PROVE  UpdateTypes' /\ UNCHANGED <<managerState, configuration, loading, mergesQueued,
                                       currentRuleSet, merged, reordered>> /\ requests' \in Nat
<1> USE DEF UpdateUnchanged, published
<1>1. UpdateTypes /\ requests \in Nat
  BY DEF ManagerTypeOK, UpdateTypes
<1>2. ASSUME NEW u \in Update, NEW s \in Source, ShouldUpdateSource(u, s)
      PROVE  UpdateTypes' /\ UNCHANGED <<managerState, configuration, loading, mergesQueued,
                                         currentRuleSet, merged, reordered>> /\ requests' \in Nat
  <2>1. [source |-> s, stage |-> "queued", version |-> NoRules] \in UpdateResult
    BY VersionFacts DEF UpdateResult
  <2> QED  BY <1>1, <1>2, <2>1 DEF ShouldUpdateSource, UpdateTypes
<1>3. ASSUME NEW u \in Update, PerformUpdate(u)
      PROVE  UpdateTypes' /\ UpdateUnchanged
  <2> DEFINE s == updates[u].source
  <2>1. s \in Source /\ ruleCaches[s] \in Version
    BY <1>1, UpdateTypesFacts
  <2>2. CASE UpdateEnds(u, FALSE) /\ UNCHANGED fetchers
    <3>1. updates' \in [Update -> UpdateResult] /\ managerQueue' \in Seq(ManagerBlock)
      BY <1>1, <2>2, UpdateEndsTypes
    <3> QED  BY <1>1, <1>3, <2>2, <3>1 DEF PerformUpdate, UpdateTypes
  <2>3. CASE SetUpdate(u, "fromCache", ruleCaches[s]) /\ UNCHANGED <<fetchers, managerQueue>>
    <3>1. updates' \in [Update -> UpdateResult]
      BY <1>1, <2>1, <2>3, SetUpdateTypes
    <3> QED  BY <1>1, <1>3, <2>3, <3>1 DEF PerformUpdate, UpdateTypes
  <2>4. CASE /\ SetUpdate(u, "fetching", NoRules) /\ UNCHANGED managerQueue
             /\ fetchers' = [fetchers EXCEPT ![s] = u]
    <3>1. updates' \in [Update -> UpdateResult]
      BY <1>1, <2>1, <2>4, SetUpdateTypes, VersionFacts
    <3> QED  BY <1>1, <1>3, <2>1, <2>4, <3>1 DEF PerformUpdate, UpdateTypes
  <2>5. CASE SetUpdate(u, "fallback", ruleCaches[s]) /\ UNCHANGED <<fetchers, managerQueue>>
    <3>1. updates' \in [Update -> UpdateResult]
      BY <1>1, <2>1, <2>5, SetUpdateTypes
    <3> QED  BY <1>1, <1>3, <2>5, <3>1 DEF PerformUpdate, UpdateTypes
  <2> QED  BY <1>3, <2>2, <2>3, <2>4, <2>5 DEF PerformUpdate
<1>4. ASSUME NEW u \in Update, UseCached(u)
      PROVE  UpdateTypes' /\ UpdateUnchanged
  <2>1. sourceRuleSets' \in SourceRules
    BY <1>1, <1>4, UpdateTypesFacts DEF UseCached, UpdateTypes, SourceRules
  <2>2. updates' \in [Update -> UpdateResult] /\ managerQueue' \in Seq(ManagerBlock)
    BY <1>1, <1>4, UpdateEndsTypes DEF UseCached
  <2> QED  BY <1>1, <1>4, <2>1, <2>2 DEF UseCached, UpdateTypes
<1>5. ASSUME NEW u \in Update, FetchEnds(u)
      PROVE  UpdateTypes' /\ UpdateUnchanged
  <2> DEFINE s == updates[u].source
  <2>1. s \in Source /\ ruleCaches[s] \in Version /\ served[s] \in Version
    BY <1>1, UpdateTypesFacts
  <2>2. fetchers' \in [Source -> Update \cup {Free}]
    BY <1>1, <1>5, <2>1 DEF FetchEnds, UpdateTypes
  <2>3. updates' \in [Update -> UpdateResult] /\ managerQueue' \in Seq(ManagerBlock)
    <3>1. CASE UpdateEnds(u, FALSE)
      BY <1>1, <3>1, UpdateEndsTypes
    <3>2. CASE SetUpdate(u, "fetched", served[s]) /\ UNCHANGED managerQueue
      BY <1>1, <2>1, <3>2, SetUpdateTypes DEF UpdateTypes
    <3>3. CASE SetUpdate(u, "fallback", ruleCaches[s]) /\ UNCHANGED managerQueue
      BY <1>1, <2>1, <3>3, SetUpdateTypes DEF UpdateTypes
    <3> QED  BY <1>5, <3>1, <3>2, <3>3 DEF FetchEnds
  <2> QED  BY <1>1, <1>5, <2>2, <2>3 DEF FetchEnds, UpdateTypes
<1>6. ASSUME NEW u \in Update, StoreInCache(u)
      PROVE  UpdateTypes' /\ UpdateUnchanged
  <2>1. ruleCaches' \in SourceRules
    BY <1>1, <1>6, UpdateTypesFacts DEF StoreInCache, UpdateTypes, SourceRules
  <2>2. updates' \in [Update -> UpdateResult]
    BY <1>1, <1>6, UpdateTypesFacts, SetUpdateTypes DEF StoreInCache
  <2> QED  BY <1>1, <1>6, <2>1, <2>2 DEF StoreInCache, UpdateTypes
<1>7. ASSUME NEW u \in Update, SetSourceRuleSet(u)
      PROVE  UpdateTypes' /\ UpdateUnchanged
  <2>1. sourceRuleSets' \in SourceRules
    BY <1>1, <1>7, UpdateTypesFacts DEF SetSourceRuleSet, UpdateTypes, SourceRules
  <2>2. updates' \in [Update -> UpdateResult] /\ managerQueue' \in Seq(ManagerBlock)
    BY <1>1, <1>7, UpdateEndsTypes DEF SetSourceRuleSet
  <2> QED  BY <1>1, <1>7, <2>1, <2>2 DEF SetSourceRuleSet, UpdateTypes
<1>8. ASSUME ServerChanges
      PROVE  UpdateTypes' /\ UpdateUnchanged
  <2>1. served' \in SourceRules
    BY <1>1, <1>8, UpdateTypesFacts, ManagerAssumption
       DEF ServerChanges, UpdateTypes, SourceRules, Version, NoRules
  <2> QED  BY <1>1, <1>8, <2>1 DEF ServerChanges, UpdateTypes
<1> QED  BY <1>1, <1>2, <1>3, <1>4, <1>5, <1>6, <1>7, <1>8 DEF UpdateStep

LEMMA AskTypes ==
    ASSUME ManagerTypeOK, StartUpdating \/ StopUpdating \/ ClearCache \/ UpdateConfiguration
    PROVE  managerQueue' \in Seq(ManagerBlock) /\ requests' \in Nat
           /\ UNCHANGED <<managerState, configuration, loading, mergesQueued, pipeline, published>>
<1>1. ASSUME NEW what \in Request, NEW sources \in SUBSET Source, Ask(what, sources)
      PROVE  managerQueue' \in Seq(ManagerBlock) /\ requests' \in Nat
             /\ UNCHANGED <<managerState, configuration, loading, mergesQueued, pipeline,
                            published>>
  <2>1. [QueuedBlock(what) EXCEPT !.sources = sources] \in ManagerBlock
    BY QueuedBlockIsManagerBlock DEF ManagerBlock
  <2> QED  BY <1>1, <2>1 DEF Ask, ManagerTypeOK
<1> QED
  BY <1>1, ManagerAssumption
     DEF StartUpdating, StopUpdating, ClearCache, UpdateConfiguration, Request

LEMMA TurnTypes ==
    ASSUME ManagerTypeOK, NEW what, Turn(what)
    PROVE  managerQueue' \in Seq(ManagerBlock) /\ Head(managerQueue) \in ManagerBlock
BY HeadTailProperties DEF Turn, ManagerTypeOK

LEMMA ManagerQueueStepTypes ==
    ASSUME ManagerTypeOK, ManagerQueueStep
    PROVE  /\ managerState' \in RuleManagerState /\ configuration' \subseteq Source
           /\ UpdateTypes'
           /\ currentRuleSet' \in SourceRules
           /\ loading' \in SourceRules \cup {NotLoading}
           /\ mergesQueued' \in Nat /\ merged' = merged /\ requests' = requests
           /\ reordered' \in BOOLEAN
<1> USE DEF ManagerTypeOK, UpdateTypes, pipeline, published
<1>1. CASE Start
  <2>1. MergeOf(configuration, ruleCaches) \in SourceRules
    BY MergeOfIsSourceRules
  <2> QED  BY <1>1, <2>1, TurnTypes DEF Start, RuleManagerState
<1>2. CASE LoadCachedRules
  <2>1. sourceRuleSets' \in SourceRules
    <3>1. ASSUME NEW s \in Source
          PROVE  (IF loading[s] # NoRules THEN loading[s] ELSE sourceRuleSets[s]) \in Version
      BY <1>2 DEF LoadCachedRules, SourceRules
    <3> QED  BY <1>2, <3>1 DEF LoadCachedRules, SourceRules
  <2> QED  BY <1>2, <2>1, VersionFacts DEF LoadCachedRules, RuleManagerState
<1>3. CASE Stop
  <2>1. updates' \in [Update -> UpdateResult]
    BY <1>3, VersionFacts DEF Stop
  <2> QED  BY <1>3, <2>1, TurnTypes DEF Stop, RuleManagerState
<1>4. CASE Configure
  <2>1. Head(managerQueue).sources \subseteq Source
    BY <1>4, TurnTypes DEF Configure, ManagerBlock
  <2> QED  BY <1>4, <2>1, TurnTypes DEF Configure
<1>5. CASE ClearAllCaches
  BY <1>5, TurnTypes, VersionFacts DEF ClearAllCaches
<1>6. CASE CompleteUpdate
  BY <1>6, TurnTypes DEF CompleteUpdate
<1>7. CASE Publish
  <2>1. Head(managerQueue).ruleSet \in SourceRules
    BY <1>7, TurnTypes DEF Publish, ManagerBlock
  <2> QED  BY <1>7, <2>1, TurnTypes DEF Publish
<1> QED  BY <1>1, <1>2, <1>3, <1>4, <1>5, <1>6, <1>7 DEF ManagerQueueStep

LEMMA MergeTypes ==
    ASSUME ManagerTypeOK, Merge \/ MergeDone
    PROVE  /\ merged' \in Seq(SourceRules) /\ managerQueue' \in Seq(ManagerBlock)
           /\ mergesQueued' \in Nat /\ reordered' \in BOOLEAN
           /\ UNCHANGED <<managerState, configuration, currentRuleSet, loading, pipeline, requests>>
<1> USE DEF ManagerTypeOK
<1>1. CASE Merge
  <2>1. mergesQueued' \in Nat
    BY <1>1 DEF Merge
  <2>2. MergeOf(configuration, sourceRuleSets) \in SourceRules
    BY MergeOfIsSourceRules
  <2>3. merged' \in Seq(SourceRules) /\ reordered' \in BOOLEAN
    <3>1. CASE UNCHANGED <<merged, reordered>>
      BY <3>1
    <3>2. CASE /\ merged' = Append(merged, MergeOf(configuration, sourceRuleSets))
               /\ reordered' = (merged # <<>>)
      BY <2>2, <3>2
    <3> QED  BY <1>1, <3>1, <3>2 DEF Merge
  <2> QED  BY <1>1, <2>1, <2>3 DEF Merge
<1>2. CASE MergeDone
  <2>1. PICK i \in DOMAIN merged :
            /\ managerQueue' = Append(managerQueue,
                                      [QueuedBlock("publish") EXCEPT !.ruleSet = merged[i]])
            /\ merged' = [j \in 1 .. Len(merged) - 1 |-> merged[IF j < i THEN j ELSE j + 1]]
    BY <1>2 DEF MergeDone
  <2>2. /\ Len(merged) \in Nat /\ i \in 1 .. Len(merged)
        /\ \A j \in 1 .. Len(merged) : merged[j] \in SourceRules
    BY LenProperties, ElementOfSeq
  <2>3. [QueuedBlock("publish") EXCEPT !.ruleSet = merged[i]] \in ManagerBlock
    BY <2>2, QueuedBlockIsManagerBlock DEF ManagerBlock
  <2>4. merged' \in Seq(SourceRules)
    <3>1. ASSUME NEW j \in 1 .. Len(merged) - 1
          PROVE  merged[IF j < i THEN j ELSE j + 1] \in SourceRules
      BY <2>2
    <3>2. Len(merged) - 1 \in Nat
      BY <2>2
    <3> QED  BY <2>1, <3>1, <3>2, IsASeq
  <2> QED  BY <1>2, <2>1, <2>3, <2>4 DEF MergeDone
<1> QED  BY <1>1, <1>2

\* The rule manager's variables keep their types.
THEOREM ManagerTypeCorrect == ManagerSpec => []ManagerTypeOK
<1>1. ManagerInit => ManagerTypeOK
  <2>1. 1 \in Version
    BY ManagerAssumption DEF Version, NoRules
  <2>2. [s \in Source |-> 1] \in SourceRules
    BY <2>1 DEF SourceRules
  <2> SUFFICES ASSUME ManagerInit PROVE ManagerTypeOK
    OBVIOUS
  <2>3. /\ sourceRuleSets \in SourceRules /\ ruleCaches \in SourceRules
        /\ currentRuleSet \in SourceRules /\ served \in SourceRules
    BY <2>2, VersionFacts DEF ManagerInit
  <2>4. /\ fetchers \in [Source -> Update \cup {Free}]
        /\ updates \in [Update -> UpdateResult]
    BY VersionFacts DEF ManagerInit
  <2>5. configuration \subseteq Source
    BY ManagerAssumption DEF ManagerInit
  <2>6. managerQueue \in Seq(ManagerBlock) /\ merged \in Seq(SourceRules)
    BY EmptySeq DEF ManagerInit
  <2> QED  BY <2>3, <2>4, <2>5, <2>6 DEF ManagerInit, ManagerTypeOK, RuleManagerState
<1>2. ManagerTypeOK /\ [ManagerNext]_managerVars => ManagerTypeOK'
  <2> SUFFICES ASSUME ManagerTypeOK, [ManagerNext]_managerVars
               PROVE  ManagerTypeOK'
    OBVIOUS
  <2>1. CASE ManagerNext
    <3>1. contended' \subseteq Source
      BY <2>1 DEF ManagerNext, Contend, ManagerTypeOK
    <3>2. CASE StartUpdating \/ StopUpdating \/ ClearCache \/ UpdateConfiguration
      BY <3>1, <3>2, AskTypes DEF ManagerTypeOK, pipeline, published
    <3>3. CASE ManagerQueueStep
      BY <3>1, <3>3, ManagerQueueStepTypes DEF ManagerTypeOK, UpdateTypes
    <3>4. CASE Merge \/ MergeDone
      BY <3>1, <3>4, MergeTypes DEF ManagerTypeOK, pipeline
    <3>5. CASE UpdateStep \/ ServerChanges
      BY <3>1, <3>5, UpdateStepTypes DEF ManagerTypeOK, UpdateTypes
    <3> QED  BY <2>1, <3>2, <3>3, <3>4, <3>5 DEF ManagerNext
  <2>2. CASE UNCHANGED managerVars
    BY <2>2 DEF ManagerTypeOK, managerVars
  <2> QED  BY <2>1, <2>2
<1> QED  BY <1>1, <1>2, PTL DEF ManagerSpec

-----------------------------------------------------------------------------
(* One writer at a time *)

LEMMA FewWriters ==
    ASSUME NEW W, IsFiniteSet(W), NEW n \in {0, 1}, ~(Cardinality(W) + n > 1)
    PROVE  (\A u, v \in W : u = v) /\ (n = 1 => W = {})
<1>1. Cardinality(W) \in Nat
  BY FS_CardinalityType
<1>. DEFINE k == Cardinality(W)
<1>2. k \in Nat /\ k <= 1
  <2>1. k \in Nat /\ ~(k + n > 1) /\ n \in {0, 1}
    BY <1>1
  <2>. HIDE DEF k
  <2> QED  BY <2>1
<1>3. ASSUME NEW u \in W, NEW v \in W, u # v
      PROVE  FALSE
  <2>1. IsFiniteSet({u}) /\ Cardinality({u}) = 1
    BY FS_Singleton
  <2>2. Cardinality({u} \cup {v}) = Cardinality({u}) + 1
    BY <1>3, <2>1, FS_AddElement
  <2>3. Cardinality({u} \cup {v}) <= Cardinality(W)
    BY FS_Subset
  <2>4. 2 <= k
    BY <2>1, <2>2, <2>3
  <2>. HIDE DEF k
  <2> QED  BY <1>2, <2>4
<1>4. ASSUME n = 1
      PROVE  W = {}
  BY <1>1, <1>4, FS_EmptySet
<1> QED  BY <1>3, <1>4

\* A step that leaves a source uncontended leaves it with one writer.
LEMMA UncontendedIsAlone ==
    ASSUME ManagerNext, NEW s \in Source, s \notin contended'
    PROVE  s \notin contended /\ Alone(s)'
<1>1. s \notin contended /\ ~(Writers(s)' > 1)
  BY DEF ManagerNext, Contend
<1>2. IsFiniteSet(Working(s)')
  BY ManagerAssumption, FS_Subset DEF Working
<1> DEFINE n == IF loading' # NotLoading THEN 1 ELSE 0
<1>3. Writers(s)' = Cardinality(Working(s)') + n
  BY DEF Writers, Working
<1>4. (\A u, v \in Working(s)' : u = v) /\ (n = 1 => Working(s)' = {})
  BY <1>1, <1>2, <1>3, FewWriters
<1> QED  BY <1>1, <1>4 DEF Alone

-----------------------------------------------------------------------------
(* What the steps do to the order of versions *)

\* What the invariant says of one source, and what it promises of a step.
StepKeepsOrder(s) == InOrder(s)' /\ sourceRuleSets'[s] >= sourceRuleSets[s]

LEMMA LoadingTypes ==
    ASSUME NEW l \in SourceRules \cup {NotLoading}, NEW s \in Source
    PROVE  /\ l[s] \in Int
           /\ l[s] > NoRules => l # NotLoading
           /\ l # NotLoading => l[s] >= NoRules
<1>1. Version \subseteq Int /\ NoRules = 0 /\ (\A v \in Version : v >= NoRules) /\ -1 \in Int
  BY VersionFacts DEF NoRules
<1>2. CASE l = NotLoading
  BY <1>1, <1>2, VersionFacts
<1>3. CASE l # NotLoading
  <2>1. l[s] \in Version
    BY <1>3 DEF SourceRules
  <2> QED  BY <1>1, <1>3, <2>1
<1> QED  BY <1>2, <1>3

LEMMA SourceTypes ==
    ASSUME ManagerTypeOK
    PROVE  /\ UpdateTypes
           /\ \A s \in Source :
                 /\ sourceRuleSets[s] \in Int /\ ruleCaches[s] \in Int /\ served[s] \in Int
                 /\ loading[s] \in Int /\ (loading[s] > NoRules => loading # NotLoading)
           /\ \A u \in Update : updates[u].version \in Int
<1>1. UpdateTypes
  BY DEF ManagerTypeOK, UpdateTypes
<1>2. ASSUME NEW s \in Source
      PROVE  loading[s] \in Int /\ (loading[s] > NoRules => loading # NotLoading)
  BY LoadingTypes DEF ManagerTypeOK
<1> QED  BY <1>1, <1>2, UpdateTypesFacts, VersionFacts

\* A step that leaves a source's versions alone, and its updates or ends them.
LEMMA ElsewhereKeepsOrder ==
    ASSUME ManagerTypeOK, NEW s \in Source, InOrder(s),
           sourceRuleSets'[s] = sourceRuleSets[s],
           ruleCaches'[s] \in {NoRules, ruleCaches[s]},
           loading'[s] > NoRules => loading'[s] = loading[s],
           \A u \in Working(s)' : \/ updates'[u].stage \in {"queued", "fetching"}
                                  \/ u \in Working(s) /\ updates'[u] = updates[u]
    PROVE  StepKeepsOrder(s)
BY SourceTypes DEF StepKeepsOrder, InOrder, Usable

\* An update of a source that no other update works on.
LEMMA OwnUpdateKeepsOrder ==
    ASSUME ManagerTypeOK, ManagerTypeOK', NEW s \in Source, Alone(s), InOrder(s),
           NEW u \in Working(s), loading' = loading,
           \A v \in Update : v # u => updates'[v] = updates[v],
           sourceRuleSets'[s] >= sourceRuleSets[s],
           ruleCaches'[s] # NoRules => ruleCaches'[s] >= sourceRuleSets'[s],
           \/ updates'[u].stage \in {"none", "queued", "fetching"}
           \/ updates'[u].stage = "fetched" /\ updates'[u].version >= sourceRuleSets'[s]
           \/ /\ updates'[u].stage \in {"fromCache", "fallback", "cached"}
              /\ Usable(s, updates[u].version)'
           \/ updates'[u].stage \in {"fromCache", "fallback"} /\ updates'[u].version = NoRules
    PROVE  StepKeepsOrder(s)
<1>1. Working(s) = {u} /\ loading' = NotLoading
  BY DEF Alone
<1>2. ~(loading'[s] > NoRules)
  BY <1>1, VersionFacts DEF NoRules
<1>3. Working(s)' \subseteq {u}
  BY <1>1 DEF Working
<1>4. InOrder(s)'
  <2> SUFFICES ASSUME NEW v \in Working(s)'
               PROVE  /\ updates'[v].stage = "fetched"
                         => updates'[v].version >= sourceRuleSets'[s]
                      /\ /\ updates'[v].stage \in {"fromCache", "fallback"}
                         /\ updates'[v].version # NoRules
                         => Usable(s, updates[v].version)'
                      /\ updates'[v].stage = "cached" => Usable(s, updates[v].version)'
    BY <1>2 DEF InOrder
  <2>1. v = u
    BY <1>3
  <2> QED  BY <2>1
<1> QED  BY <1>4 DEF StepKeepsOrder

\* The steps of an update, each with the versions it writes for its source.
UpdateWrites(u) ==
    LET s == updates[u].source IN
    /\ u \in Working(s)
    /\ loading' = loading /\ served' = served
    /\ \A v \in Update : v # u => updates'[v] = updates[v]
    /\ \A t \in Source : t # s => /\ sourceRuleSets'[t] = sourceRuleSets[t]
                                  /\ ruleCaches'[t] = ruleCaches[t]
    /\ \/ /\ updates'[u].source = s
          /\ sourceRuleSets'[s] = sourceRuleSets[s]
          /\ \/ /\ ruleCaches'[s] = ruleCaches[s]
                /\ \/ /\ updates'[u].stage \in {"fromCache", "fallback"}
                      /\ updates'[u].version = ruleCaches[s]
                   \/ /\ updates'[u].stage = "fetching"
                      /\ updates'[u].version = NoRules
                   \/ /\ updates'[u].stage = "fetched"
                      /\ updates'[u].version = served[s]
             \/ /\ updates[u].stage = "fetched" /\ updates'[u].stage = "cached"
                /\ ruleCaches'[s] = updates[u].version
                /\ updates'[u].version = updates[u].version
       \/ /\ updates'[u] = NoUpdate
          /\ ruleCaches'[s] = ruleCaches[s]
          /\ \/ sourceRuleSets'[s] = sourceRuleSets[s]
             \/ /\ sourceRuleSets'[s] = updates[u].version
                /\ \/ /\ updates[u].stage \in {"fromCache", "fallback"}
                      /\ updates[u].version # NoRules
                   \/ updates[u].stage = "cached"

LEMMA UpdateStepsWrite ==
    ASSUME ManagerTypeOK, NEW u \in Update,
           \/ PerformUpdate(u) \/ UseCached(u) \/ FetchEnds(u)
           \/ StoreInCache(u) \/ SetSourceRuleSet(u)
    PROVE  UpdateWrites(u)
<1> DEFINE s == updates[u].source
<1>1. s \in Source /\ updates[u].stage # "none" => u \in Working(s)
  BY DEF Working
<1>2. /\ s \in Source
      /\ updates \in [Update -> UpdateResult]
      /\ sourceRuleSets \in [Source -> Version] /\ ruleCaches \in [Source -> Version]
  BY DEF ManagerTypeOK, SourceRules, UpdateResult
<1>3. ASSUME NEW stage, NEW v, SetUpdate(u, stage, v)
      PROVE  /\ updates'[u].source = s /\ updates'[u].stage = stage /\ updates'[u].version = v
             /\ \A w \in Update : w # u => updates'[w] = updates[w]
  BY <1>2, <1>3 DEF SetUpdate, UpdateResult
<1>4. ASSUME NEW success, UpdateEnds(u, success)
      PROVE  /\ updates'[u] = NoUpdate
             /\ \A w \in Update : w # u => updates'[w] = updates[w]
  BY <1>2, <1>4 DEF UpdateEnds
<1> USE DEF UpdateUnchanged, UpdateWrites
<1>5. CASE PerformUpdate(u)
  <2>1. CASE UpdateEnds(u, FALSE)
    BY <1>1, <1>2, <1>4, <1>5, <2>1 DEF PerformUpdate
  <2>2. UNCHANGED <<loading, served, sourceRuleSets, ruleCaches>> /\ u \in Working(s)
    BY <1>1, <1>2, <1>5 DEF PerformUpdate
  <2>3. CASE SetUpdate(u, "fromCache", ruleCaches[s]) \/ SetUpdate(u, "fallback", ruleCaches[s])
    <3>1. /\ updates'[u].stage \in {"fromCache", "fallback"} /\ updates'[u].source = s
          /\ updates'[u].version = ruleCaches[s]
          /\ \A w \in Update : w # u => updates'[w] = updates[w]
      BY <1>3, <2>3
    <3> QED  BY <2>2, <3>1
  <2>4. CASE SetUpdate(u, "fetching", NoRules)
    <3>1. /\ updates'[u].stage = "fetching" /\ updates'[u].source = s
          /\ updates'[u].version = NoRules
          /\ \A w \in Update : w # u => updates'[w] = updates[w]
      BY <1>3, <2>4
    <3> QED  BY <2>2, <3>1
  <2> QED  BY <1>5, <2>1, <2>3, <2>4 DEF PerformUpdate
<1>6. CASE UseCached(u)
  BY <1>1, <1>2, <1>4, <1>6 DEF UseCached
<1>7. CASE FetchEnds(u)
  <2>1. CASE UpdateEnds(u, FALSE)
    BY <1>1, <1>2, <1>4, <1>7, <2>1 DEF FetchEnds
  <2>2. UNCHANGED <<loading, served, sourceRuleSets, ruleCaches>> /\ u \in Working(s)
    BY <1>1, <1>2, <1>7 DEF FetchEnds
  <2>3. CASE SetUpdate(u, "fetched", served[s])
    <3>1. /\ updates'[u].stage = "fetched" /\ updates'[u].source = s
          /\ updates'[u].version = served[s]
          /\ \A w \in Update : w # u => updates'[w] = updates[w]
      BY <1>3, <2>3
    <3> QED  BY <2>2, <3>1
  <2>4. CASE SetUpdate(u, "fallback", ruleCaches[s])
    <3>1. /\ updates'[u].stage = "fallback" /\ updates'[u].source = s
          /\ updates'[u].version = ruleCaches[s]
          /\ \A w \in Update : w # u => updates'[w] = updates[w]
      BY <1>3, <2>4
    <3> QED  BY <2>2, <3>1
  <2> QED  BY <1>7, <2>1, <2>3, <2>4 DEF FetchEnds
<1>8. CASE StoreInCache(u)
  <2>1. /\ u \in Working(s) /\ updates[u].stage = "fetched"
        /\ ruleCaches' = [ruleCaches EXCEPT ![s] = updates[u].version]
        /\ UNCHANGED <<loading, served, sourceRuleSets>>
    BY <1>1, <1>2, <1>8 DEF StoreInCache
  <2>2. /\ updates'[u].stage = "cached" /\ updates'[u].source = s
        /\ updates'[u].version = updates[u].version
        /\ \A w \in Update : w # u => updates'[w] = updates[w]
    BY <1>3, <1>8 DEF StoreInCache
  <2> QED  BY <1>2, <2>1, <2>2
<1>9. CASE SetSourceRuleSet(u)
  BY <1>1, <1>2, <1>4, <1>9 DEF SetSourceRuleSet
<1> QED  BY <1>5, <1>6, <1>7, <1>8, <1>9

LEMMA UpdateKeepsOrder ==
    ASSUME ManagerTypeOK, ManagerTypeOK', NoneNewer, NEW u \in Update, UpdateWrites(u),
           NEW s \in Source, Alone(s), InOrder(s)
    PROVE  StepKeepsOrder(s)
<1>1. /\ sourceRuleSets[s] \in Int /\ ruleCaches[s] \in Int /\ served[s] \in Int
      /\ updates[u].version \in Int
      /\ sourceRuleSets[s] <= served[s]
  BY SourceTypes DEF NoneNewer
<1>2. CASE updates[u].source = s
  <2>1. u \in Working(s) /\ loading' = loading
        /\ \A v \in Update : v # u => updates'[v] = updates[v]
    BY <1>2 DEF UpdateWrites
  <2>2. /\ ruleCaches[s] # NoRules => ruleCaches[s] >= sourceRuleSets[s]
        /\ updates[u].stage = "fetched" => updates[u].version >= sourceRuleSets[s]
        /\ updates[u].stage \in {"fromCache", "fallback"} /\ updates[u].version # NoRules
           => Usable(s, updates[u].version)
        /\ updates[u].stage = "cached" => Usable(s, updates[u].version)
    BY <2>1 DEF InOrder
  <2>3. /\ sourceRuleSets'[s] >= sourceRuleSets[s]
        /\ ruleCaches'[s] # NoRules => ruleCaches'[s] >= sourceRuleSets'[s]
    BY <1>1, <1>2, <2>2 DEF UpdateWrites, Usable
  <2>4. \/ updates'[u].stage \in {"none", "queued", "fetching"}
        \/ updates'[u].stage = "fetched" /\ updates'[u].version >= sourceRuleSets'[s]
        \/ /\ updates'[u].stage \in {"fromCache", "fallback", "cached"}
           /\ Usable(s, updates[u].version)'
        \/ updates'[u].stage \in {"fromCache", "fallback"} /\ updates'[u].version = NoRules
    BY <1>1, <1>2, <2>2, VersionFacts DEF UpdateWrites, Usable
  <2> QED  BY <2>1, <2>3, <2>4, OwnUpdateKeepsOrder
<1>3. CASE updates[u].source # s
  <2>1. /\ sourceRuleSets'[s] = sourceRuleSets[s] /\ ruleCaches'[s] = ruleCaches[s]
        /\ loading' = loading
    BY <1>3 DEF UpdateWrites
  <2>2. ASSUME NEW v \in Working(s)'
        PROVE  v \in Working(s) /\ updates'[v] = updates[v]
    BY <1>3, <2>2, VersionFacts DEF UpdateWrites, Working
  <2> QED  BY <2>1, <2>2, ElsewhereKeepsOrder
<1> QED  BY <1>2, <1>3

\* Whatever else happens, but for the two steps that read the caches at the start.
OtherStep ==
    \/ StartUpdating \/ StopUpdating \/ ClearCache \/ UpdateConfiguration
    \/ Stop \/ Configure \/ ClearAllCaches \/ CompleteUpdate \/ Publish
    \/ Merge \/ MergeDone
    \/ \E u \in Update, s \in Source : ShouldUpdateSource(u, s)
    \/ ServerChanges

LEMMA OtherStepsWrite ==
    ASSUME ManagerTypeOK, OtherStep
    PROVE  /\ sourceRuleSets' = sourceRuleSets /\ loading' = loading
           /\ ruleCaches' \in {NoneAtAll, ruleCaches}
           /\ \A s \in Source : served'[s] >= served[s]
           /\ \A u \in Update : \/ updates'[u] = updates[u] \/ updates'[u] = NoUpdate
                                \/ /\ updates'[u].stage = "queued"
                                   /\ updates'[u].version = NoRules
<1> USE DEF pipeline, published, UpdateUnchanged, ManagerTypeOK
<1>1. \A s \in Source : served[s] >= served[s]
  BY SourceTypes
<1>2. CASE StartUpdating \/ StopUpdating \/ ClearCache \/ UpdateConfiguration
  BY <1>1, <1>2, AskTypes
<1>3. CASE Stop
  BY <1>1, <1>3 DEF Stop
<1>4. CASE Configure \/ CompleteUpdate \/ Publish
  BY <1>1, <1>4 DEF Configure, CompleteUpdate, Publish
<1>5. CASE ClearAllCaches
  BY <1>1, <1>5 DEF ClearAllCaches
<1>6. CASE Merge \/ MergeDone
  BY <1>1, <1>6, MergeTypes
<1>7. CASE \E u \in Update, s \in Source : ShouldUpdateSource(u, s)
  BY <1>1, <1>7 DEF ShouldUpdateSource
<1>8. CASE ServerChanges
  BY <1>8, SourceTypes DEF ServerChanges, SourceRules
<1> QED  BY <1>2, <1>3, <1>4, <1>5, <1>6, <1>7, <1>8 DEF OtherStep

LEMMA OtherStepsKeepOrder ==
    ASSUME ManagerTypeOK, OtherStep, NEW s \in Source, InOrder(s)
    PROVE  StepKeepsOrder(s)
<1>1. ruleCaches'[s] \in {NoRules, ruleCaches[s]}
  BY OtherStepsWrite DEF NoneAtAll
<1>2. ASSUME NEW u \in Working(s)'
      PROVE  \/ updates'[u].stage \in {"queued", "fetching"}
             \/ u \in Working(s) /\ updates'[u] = updates[u]
  BY <1>2, OtherStepsWrite, VersionFacts DEF Working
<1>3. sourceRuleSets'[s] = sourceRuleSets[s] /\ loading'[s] = loading[s]
  BY OtherStepsWrite
<1> QED  BY <1>1, <1>2, <1>3, ElsewhereKeepsOrder

LEMMA LoadingKeepsOrder ==
    ASSUME ManagerTypeOK, ManagerTypeOK', Start \/ LoadCachedRules,
           NEW s \in Source, Alone(s), InOrder(s)
    PROVE  StepKeepsOrder(s)
<1>1. /\ sourceRuleSets[s] \in Int /\ ruleCaches[s] \in Int /\ loading[s] \in Int
      /\ loading'[s] \in Int
  BY SourceTypes, LoadingTypes DEF ManagerTypeOK
<1>2. ruleCaches' = ruleCaches /\ updates' = updates
  BY DEF Start, LoadCachedRules, pipeline
<1>3. CASE Start
  <2>1. sourceRuleSets' = sourceRuleSets
    BY <1>3 DEF Start, pipeline
  <2>2. loading'[s] > NoRules => loading'[s] \in {loading[s], ruleCaches[s]}
    <3>1. MergeOf(configuration, ruleCaches)[s] \in {NoRules, ruleCaches[s]}
      BY MergeOfIsSourceRules DEF ManagerTypeOK
    <3> QED  BY <1>1, <1>3, <3>1, VersionFacts DEF Start, NoRules
  <2> QED  BY <1>1, <1>2, <2>1, <2>2 DEF StepKeepsOrder, InOrder, Usable, Working, NoRules
<1>4. CASE LoadCachedRules
  <2>1. Working(s)' = {} /\ ~(loading'[s] > NoRules)
    BY <1>2, <1>4, VersionFacts DEF LoadCachedRules, Alone, Working, NoRules
  <2>2. sourceRuleSets'[s] = IF loading[s] # NoRules THEN loading[s] ELSE sourceRuleSets[s]
    BY <1>4 DEF LoadCachedRules
  <2>3. loading[s] # NoRules => loading[s] > NoRules
    BY <1>1, <1>4, LoadingTypes DEF LoadCachedRules, ManagerTypeOK, NoRules
  <2> QED  BY <1>1, <1>2, <2>1, <2>2, <2>3 DEF StepKeepsOrder, InOrder, Usable
<1> QED  BY <1>3, <1>4

\* Every step of the rule manager is of one of these kinds.
LEMMA KindsOfStep ==
    ASSUME ManagerTypeOK, ManagerNext
    PROVE  \/ OtherStep \/ Start \/ LoadCachedRules
           \/ \E u \in Update : UpdateWrites(u)
BY UpdateStepsWrite DEF ManagerNext, ManagerQueueStep, UpdateStep, OtherStep

LEMMA NoneNewerIsKept ==
    ASSUME ManagerTypeOK, ManagerTypeOK', ManagerNext, NoneNewer
    PROVE  NoneNewer'
<1>1. /\ \A s \in Source :
            /\ sourceRuleSets[s] \in Int /\ ruleCaches[s] \in Int /\ served[s] \in Int
            /\ served[s] >= NoRules /\ loading[s] \in Int
      /\ \A u \in Update : updates[u].version \in Int /\ updates[u].source \in Source
  BY SourceTypes, UpdateTypesFacts, VersionFacts
<1>2. /\ \A s \in Source : served'[s] \in Int /\ served'[s] >= NoRules
      /\ \A u \in Update : updates'[u].version \in Int
  BY SourceTypes, UpdateTypesFacts, VersionFacts DEF ManagerTypeOK, SourceRules, UpdateResult
<1>3. CASE OtherStep
  <2>1. ASSUME NEW s \in Source
        PROVE  /\ sourceRuleSets'[s] <= served'[s] /\ ruleCaches'[s] <= served'[s]
               /\ loading'[s] <= served'[s]
    BY <1>1, <1>2, <1>3, OtherStepsWrite DEF NoneNewer, NoneAtAll
  <2>2. ASSUME NEW u \in Update, NEW s \in Source, updates'[u].source = s
        PROVE  updates'[u].version <= served'[s]
    <3>1. \/ updates'[u] = updates[u] \/ updates'[u].version = NoRules
      BY <1>3, OtherStepsWrite, VersionFacts
    <3>2. served'[s] >= served[s]
      BY <1>3, OtherStepsWrite
    <3> QED  BY <1>1, <1>2, <2>2, <3>1, <3>2 DEF NoneNewer, NoRules
  <2> QED  BY <2>1, <2>2 DEF NoneNewer
<1>4. CASE Start
  <2>1. UNCHANGED <<sourceRuleSets, ruleCaches, served, updates>>
    BY <1>4 DEF Start, pipeline
  <2>2. ASSUME NEW s \in Source
        PROVE  loading'[s] <= served[s]
    <3>1. MergeOf(configuration, ruleCaches)[s] \in {NoRules, ruleCaches[s]}
      BY MergeOfIsSourceRules DEF ManagerTypeOK
    <3> QED  BY <1>1, <1>4, <3>1 DEF Start, NoneNewer
  <2> QED  BY <2>1, <2>2 DEF NoneNewer
<1>5. CASE LoadCachedRules
  <2>1. UNCHANGED <<ruleCaches, served, updates>>
    BY <1>5 DEF LoadCachedRules
  <2>2. ASSUME NEW s \in Source
        PROVE  loading'[s] <= served[s] /\ sourceRuleSets'[s] <= served[s]
    BY <1>1, <1>5, VersionFacts DEF LoadCachedRules, NoneNewer, NoRules
  <2> QED  BY <2>1, <2>2 DEF NoneNewer
<1>6. ASSUME NEW u \in Update, UpdateWrites(u)
      PROVE  NoneNewer'
  <2> DEFINE t == updates[u].source
  <2>1. t \in Source /\ served' = served /\ loading' = loading
    BY <1>1, <1>6 DEF UpdateWrites
  <2>2. updates[u].version <= served[t] /\ sourceRuleSets[t] <= served[t]
        /\ ruleCaches[t] <= served[t]
    BY <2>1 DEF NoneNewer
  <2>3. ASSUME NEW s \in Source
        PROVE  sourceRuleSets'[s] <= served[s] /\ ruleCaches'[s] <= served[s]
    BY <1>6, <2>2 DEF UpdateWrites, NoneNewer
  <2>4. ASSUME NEW v \in Update, NEW s \in Source, updates'[v].source = s
        PROVE  updates'[v].version <= served[s]
    BY <1>1, <1>6, <2>1, <2>2, <2>4, VersionFacts DEF UpdateWrites, NoneNewer
  <2> QED  BY <2>1, <2>3, <2>4 DEF NoneNewer
<1> QED  BY <1>3, <1>4, <1>5, <1>6, KindsOfStep

-----------------------------------------------------------------------------
(* The theorem *)

LEMMA RollbackInvInit == ManagerInit /\ ManagerTypeOK => NoneNewer /\ OneAtATime
<1> SUFFICES ASSUME ManagerInit, ManagerTypeOK
             PROVE  NoneNewer /\ OneAtATime
  OBVIOUS
<1>1. \A s \in Source : /\ sourceRuleSets[s] = NoRules /\ ruleCaches[s] \in {NoRules, 1}
                        /\ served[s] = 1 /\ loading[s] = -1
  BY VersionFacts DEF ManagerInit, NoneAtAll
<1>2. \A u \in Update : updates[u].stage = "none" /\ updates[u].version = NoRules
  BY VersionFacts DEF ManagerInit
<1>3. NoneNewer
  BY <1>1, <1>2 DEF NoneNewer, NoRules
<1>4. \A s \in Source : Working(s) = {}
  BY <1>2 DEF Working
<1> QED  BY <1>1, <1>3, <1>4 DEF OneAtATime, Alone, InOrder, NoRules

LEMMA StepInOrder ==
    ASSUME RollbackInv, ManagerTypeOK', ManagerNext, NEW s \in Source, s \notin contended
    PROVE  StepKeepsOrder(s)
<1>1. /\ ManagerTypeOK /\ NoneNewer /\ Alone(s) /\ InOrder(s)
  BY DEF RollbackInv, OneAtATime
<1> QED
  BY <1>1, KindsOfStep, OtherStepsKeepOrder, LoadingKeepsOrder, UpdateKeepsOrder

\* The invariant holds of every reachable state.
LEMMA RollbackInvHolds == ManagerSpec => []RollbackInv
<1>1. ManagerInit /\ ManagerTypeOK => RollbackInv
  BY RollbackInvInit DEF RollbackInv
<1>2. RollbackInv /\ ManagerTypeOK' /\ [ManagerNext]_managerVars => RollbackInv'
  <2> SUFFICES ASSUME RollbackInv, ManagerTypeOK', [ManagerNext]_managerVars
               PROVE  RollbackInv'
    OBVIOUS
  <2>1. CASE ManagerNext
    <3>1. NoneNewer'
      BY <2>1, NoneNewerIsKept DEF RollbackInv
    <3>2. ASSUME NEW s \in Source, s \notin contended'
          PROVE  Alone(s)' /\ InOrder(s)'
      <4>1. s \notin contended /\ Alone(s)'
        BY <2>1, <3>2, UncontendedIsAlone
      <4> QED  BY <2>1, <4>1, StepInOrder DEF StepKeepsOrder
    <3> QED  BY <3>1, <3>2 DEF RollbackInv, OneAtATime
  <2>2. CASE UNCHANGED managerVars
    BY <2>2 DEF managerVars, RollbackInv, NoneNewer, OneAtATime, Alone, InOrder, Usable, Working
  <2> QED  BY <2>1, <2>2
<1> QED  BY <1>1, <1>2, ManagerTypeCorrect, PTL DEF ManagerSpec

\* A source whose updates have never overlapped never goes back to an older version of its
\* rules, from wherever it gets the next one: its server, its cache at the start or in an
\* update, or its cache after a failed fetch (RuleManager.m:516-634).
THEOREM NoRollbackHolds == ManagerSpec => NoRollback
<1>1. RollbackInv /\ ManagerTypeOK' /\ [ManagerNext]_managerVars
      => [\A s \in Source : s \notin contended
                          => sourceRuleSets'[s] >= sourceRuleSets[s]]_managerVars
  BY StepInOrder DEF StepKeepsOrder
<1> QED  BY <1>1, RollbackInvHolds, ManagerTypeCorrect, PTL DEF ManagerSpec, NoRollback

-----------------------------------------------------------------------------
(* The strengthening of SettledIsMerged *)

\* The publications that are queued: the last of them, none, and an update's success.
LastOut(q, x) ==
    \E k \in DOMAIN q :
        /\ q[k].does = "publish" /\ q[k].ruleSet = x
        /\ \A j \in DOMAIN q : j > k => q[j].does # "publish"
NoneOut(q) == \A k \in DOMAIN q : q[k].does # "publish"
Succeeds(block) == block.does = "completeUpdate" /\ block.success
SuccessIn(q) == \E k \in DOMAIN q : Succeeds(q[k])

\* What will have been published when all that was merged has been.
Final(x) ==
    \/ merged # <<>> /\ x = merged[1]
    \/ merged = <<>> /\ LastOut(managerQueue, x)
    \/ merged = <<>> /\ NoneOut(managerQueue) /\ x = currentRuleSet

MergeAhead == mergesQueued > 0 \/ SuccessIn(managerQueue)

\* No source of x is without rules now.
StillThere(x) ==
    \A s \in Source : x[s] # NoRules => s \in configuration /\ sourceRuleSets[s] # NoRules

Versions ==
    /\ \A s \in Source : served[s] # NoRules
    /\ \A u \in Update : updates[u].stage \in {"fetched", "cached"}
                         => updates[u].version # NoRules

\* Unless merges overtook each other, that is what would be merged now, or another merge
\* will come; and a merge that finds no rules at all has nothing to take back.
InSequence ==
    ~reordered =>
        /\ Len(merged) <= 1
        /\ \A x \in SourceRules : Final(x) =>
              /\ StillThere(x)
              /\ MergeAhead \/ x = MergeOf(configuration, sourceRuleSets)

MergeInv == Versions /\ InSequence

\* A queue with the same publications in it, or fewer at its front.
GoesOn(q, r) ==
    /\ \A x \in SourceRules : LastOut(r, x) => LastOut(q, x)
    /\ NoneOut(r) => NoneOut(q)
    /\ SuccessIn(q) => SuccessIn(r)

LEMMA QueuedBehind ==
    ASSUME NEW q \in Seq(ManagerBlock), NEW block \in ManagerBlock
    PROVE  /\ block.does # "publish" => GoesOn(q, Append(q, block))
           /\ Succeeds(block) => SuccessIn(Append(q, block))
           /\ SuccessIn(q) => SuccessIn(Append(q, block))
           /\ block.does = "publish"
              => /\ ~NoneOut(Append(q, block))
                 /\ \A x : LastOut(Append(q, block), x) => x = block.ruleSet
<1> PICK r : r = Append(q, block)
  OBVIOUS
<1>1. /\ Len(q) \in Nat /\ DOMAIN q = 1 .. Len(q) /\ DOMAIN r = 1 .. Len(q) + 1
      /\ \A k \in 1 .. Len(q) : r[k] = q[k]
      /\ r[Len(q) + 1] = block
  BY AppendProperties, LenProperties
<1>2. /\ \A k \in DOMAIN q : k \in DOMAIN r /\ r[k] = q[k] /\ Len(q) + 1 > k
      /\ Len(q) + 1 \in DOMAIN r
      /\ \A k \in DOMAIN r : k \in DOMAIN q \/ k = Len(q) + 1
  BY <1>1
<1>3. (SuccessIn(q) => SuccessIn(r)) /\ (Succeeds(block) => SuccessIn(r))
  BY <1>1, <1>2 DEF SuccessIn
<1>4. ASSUME block.does # "publish"
      PROVE  GoesOn(q, r)
  <2>1. ASSUME NEW x \in SourceRules, LastOut(r, x)
        PROVE  LastOut(q, x)
    <3>1. PICK k \in DOMAIN r : /\ r[k].does = "publish" /\ r[k].ruleSet = x
                                /\ \A j \in DOMAIN r : j > k => r[j].does # "publish"
      BY <2>1 DEF LastOut
    <3>2. k \in DOMAIN q
      BY <1>1, <1>2, <1>4, <3>1
    <3> QED  BY <1>2, <3>1, <3>2 DEF LastOut
  <2>2. NoneOut(r) => NoneOut(q)
    BY <1>2 DEF NoneOut
  <2> QED  BY <1>3, <2>1, <2>2 DEF GoesOn
<1>5. ASSUME block.does = "publish"
      PROVE  ~NoneOut(r) /\ \A x : LastOut(r, x) => x = block.ruleSet
  <2>1. ~NoneOut(r)
    BY <1>1, <1>2, <1>5 DEF NoneOut
  <2>2. ASSUME NEW x, LastOut(r, x)
        PROVE  x = block.ruleSet
    <3>1. PICK k \in DOMAIN r : /\ r[k].does = "publish" /\ r[k].ruleSet = x
                                /\ \A j \in DOMAIN r : j > k => r[j].does # "publish"
      BY <2>2 DEF LastOut
    <3>2. k = Len(q) + 1
      BY <1>1, <1>2, <1>5, <3>1
    <3> QED  BY <1>1, <3>1, <3>2
  <2> QED  BY <2>1, <2>2
<1> QED  BY <1>3, <1>4, <1>5

LEMMA TakenInFront ==
    ASSUME NEW q \in Seq(ManagerBlock), q # <<>>
    PROVE  /\ \A x : LastOut(Tail(q), x) => LastOut(q, x)
           /\ Head(q).does # "publish" /\ NoneOut(Tail(q)) => NoneOut(q)
           /\ Head(q).does = "publish" /\ NoneOut(Tail(q)) => LastOut(q, Head(q).ruleSet)
           /\ SuccessIn(q) => SuccessIn(Tail(q)) \/ Succeeds(Head(q))
<1> PICK r : r = Tail(q)
  OBVIOUS
<1>1. /\ Len(q) \in Nat \ {0} /\ DOMAIN q = 1 .. Len(q) /\ DOMAIN r = 1 .. Len(q) - 1
      /\ \A k \in 1 .. Len(q) - 1 : r[k] = q[k + 1]
      /\ Head(q) = q[1]
  <2>1. /\ r \in Seq(ManagerBlock) /\ Len(r) = Len(q) - 1 /\ Head(q) = q[1]
        /\ \A k \in 1 .. Len(q) - 1 : r[k] = q[k + 1]
    BY HeadTailProperties
  <2>2. Len(q) \in Nat /\ DOMAIN q = 1 .. Len(q) /\ DOMAIN r = 1 .. Len(r)
    BY <2>1, LenProperties
  <2>3. Len(q) # 0
    BY EmptySeq, LenProperties
  <2> QED  BY <2>1, <2>2, <2>3
<1>2. /\ 1 \in DOMAIN q
      /\ \A k \in DOMAIN r : k \in Nat /\ k + 1 \in DOMAIN q /\ r[k] = q[k + 1]
  BY <1>1
<1>3. \A k \in DOMAIN q : k = 1 \/ (k - 1 \in DOMAIN r /\ r[k - 1] = q[k] /\ k \in Nat)
  <2> SUFFICES ASSUME NEW k \in DOMAIN q, k # 1
               PROVE  k - 1 \in DOMAIN r /\ r[k - 1] = q[k] /\ k \in Nat
    OBVIOUS
  <2>1. k - 1 \in 1 .. Len(q) - 1 /\ k - 1 + 1 = k
    BY <1>1
  <2> QED  BY <1>1, <2>1
<1>4. ASSUME NEW x, LastOut(r, x)
      PROVE  LastOut(q, x)
  <2>1. PICK k \in DOMAIN r : /\ r[k].does = "publish" /\ r[k].ruleSet = x
                              /\ \A j \in DOMAIN r : j > k => r[j].does # "publish"
    BY <1>4 DEF LastOut
  <2>2. k + 1 \in DOMAIN q /\ q[k + 1].does = "publish" /\ q[k + 1].ruleSet = x
    BY <1>2, <2>1
  <2>3. ASSUME NEW j \in DOMAIN q, j > k + 1
        PROVE  q[j].does # "publish"
    <3>1. j # 1 /\ j - 1 > k
      BY <1>1, <1>2, <2>3
    <3> QED  BY <1>3, <2>1, <3>1
  <2> QED  BY <2>2, <2>3 DEF LastOut
<1>5. Head(q).does # "publish" /\ NoneOut(r) => NoneOut(q)
  BY <1>1, <1>3 DEF NoneOut
<1>6. ASSUME Head(q).does = "publish", NoneOut(r)
      PROVE  LastOut(q, Head(q).ruleSet)
  <2>1. \A j \in DOMAIN q : j > 1 => q[j].does # "publish"
    BY <1>3, <1>6 DEF NoneOut
  <2> QED  BY <1>1, <1>2, <1>6, <2>1 DEF LastOut
<1>7. SuccessIn(q) => SuccessIn(r) \/ Succeeds(Head(q))
  BY <1>1, <1>3 DEF SuccessIn
<1> QED  BY <1>4, <1>5, <1>6, <1>7

\* Nothing else is published in the end, and a change of the rules is followed by a merge.
LEMMA InSequenceKept ==
    ASSUME InSequence, configuration' = configuration, reordered' = reordered,
           Len(merged') <= 1 \/ merged' = merged,
           \A x \in SourceRules : Final(x)' => Final(x),
           MergeAhead => MergeAhead',
           \A s \in Source : sourceRuleSets[s] # NoRules => sourceRuleSets'[s] # NoRules,
           sourceRuleSets' = sourceRuleSets \/ MergeAhead'
    PROVE  InSequence'
<1> SUFFICES ASSUME ~reordered
             PROVE  /\ Len(merged') <= 1
                    /\ \A x \in SourceRules : Final(x)' =>
                          /\ StillThere(x)'
                          /\ MergeAhead' \/ x = MergeOf(configuration', sourceRuleSets')
  BY DEF InSequence
<1>1. Len(merged') <= 1
  BY DEF InSequence
<1>2. ASSUME NEW x \in SourceRules, Final(x)'
      PROVE  StillThere(x)' /\ (MergeAhead' \/ x = MergeOf(configuration', sourceRuleSets'))
  <2>1. StillThere(x) /\ (MergeAhead \/ x = MergeOf(configuration, sourceRuleSets))
    BY <1>2 DEF InSequence
  <2>2. StillThere(x)'
    BY <2>1 DEF StillThere
  <2> QED  BY <2>1, <2>2
<1> QED  BY <1>1, <1>2

\* The queue goes on, and nothing is merged or published.
LEMMA QueueKept ==
    ASSUME InSequence, configuration' = configuration, UNCHANGED published,
           GoesOn(managerQueue, managerQueue'),
           mergesQueued' = mergesQueued, sourceRuleSets' = sourceRuleSets
    PROVE  InSequence'
<1>1. \A x \in SourceRules : Final(x)' => Final(x)
  BY DEF Final, GoesOn, published
<1>2. MergeAhead => MergeAhead'
  BY DEF MergeAhead, GoesOn
<1> QED  BY <1>1, <1>2, InSequenceKept DEF published

LEMMA SameQueue == ASSUME NEW q PROVE GoesOn(q, q)
BY DEF GoesOn

LEMMA AskInSequence ==
    ASSUME ManagerTypeOK, InSequence,
           StartUpdating \/ StopUpdating \/ ClearCache \/ UpdateConfiguration
    PROVE  InSequence'
<1>1. /\ configuration' = configuration /\ UNCHANGED published
      /\ mergesQueued' = mergesQueued /\ sourceRuleSets' = sourceRuleSets
  BY AskTypes DEF pipeline, published
<1>2. ASSUME NEW what \in Request, NEW sources \in SUBSET Source, Ask(what, sources)
      PROVE  GoesOn(managerQueue, managerQueue')
  <2>1. PICK block : block = [QueuedBlock(what) EXCEPT !.sources = sources]
    OBVIOUS
  <2>2. block \in ManagerBlock /\ block.does # "publish"
    BY <2>1, VersionFacts DEF QueuedBlock, ManagerBlock, Request
  <2> QED  BY <1>2, <2>1, <2>2, QueuedBehind DEF Ask, ManagerTypeOK
<1>3. GoesOn(managerQueue, managerQueue')
  BY <1>2, ManagerAssumption
     DEF StartUpdating, StopUpdating, ClearCache, UpdateConfiguration, Request
<1> QED  BY <1>1, <1>3, QueueKept

LEMMA QueueStepInSequence ==
    ASSUME ManagerTypeOK, InSequence, ManagerQueueStep
    PROVE  InSequence'
<1>0. managerQueue \in Seq(ManagerBlock) /\ mergesQueued \in Nat
  BY DEF ManagerTypeOK
<1>1. CASE Start \/ Stop \/ ClearAllCaches
  <2>1. /\ managerQueue # <<>> /\ managerQueue' = Tail(managerQueue)
        /\ Head(managerQueue).does \notin {"publish", "completeUpdate"}
    BY <1>1 DEF Start, Stop, ClearAllCaches, Turn
  <2>2. GoesOn(managerQueue, managerQueue')
    BY <1>0, <2>1, TakenInFront DEF GoesOn, Succeeds
  <2> QED  BY <1>1, <2>2, QueueKept DEF Start, Stop, ClearAllCaches, pipeline
<1>2. CASE LoadCachedRules
  <2>1. /\ configuration' = configuration /\ UNCHANGED published
        /\ managerQueue' = managerQueue /\ mergesQueued' = mergesQueued + 1
    BY <1>2 DEF LoadCachedRules
  <2>2. MergeAhead'
    BY <1>0, <2>1 DEF MergeAhead
  <2>3. \A s \in Source : sourceRuleSets[s] # NoRules => sourceRuleSets'[s] # NoRules
    BY <1>2 DEF LoadCachedRules
  <2>4. \A x \in SourceRules : Final(x)' => Final(x)
    BY <2>1 DEF Final, published
  <2> QED  BY <2>1, <2>2, <2>3, <2>4, InSequenceKept DEF published
<1>3. CASE Configure
  BY <1>3 DEF Configure, InSequence
<1>4. CASE CompleteUpdate
  <2>1. /\ managerQueue # <<>> /\ managerQueue' = Tail(managerQueue)
        /\ Head(managerQueue).does = "completeUpdate"
        /\ configuration' = configuration /\ UNCHANGED published
        /\ sourceRuleSets' = sourceRuleSets
    BY <1>4 DEF CompleteUpdate, Turn, pipeline
  <2>2. \A x \in SourceRules : Final(x)' => Final(x)
    BY <1>0, <2>1, TakenInFront DEF Final, published
  <2>3. MergeAhead => MergeAhead'
    <3>1. CASE Head(managerQueue).success
      BY <1>0, <1>4, <3>1 DEF CompleteUpdate, MergeAhead
    <3>2. CASE ~Head(managerQueue).success
      BY <1>0, <1>4, <2>1, <3>2, TakenInFront DEF CompleteUpdate, MergeAhead, Succeeds
    <3> QED  BY <3>1, <3>2
  <2> QED  BY <2>1, <2>2, <2>3, InSequenceKept DEF published
<1>5. CASE Publish
  <2>1. /\ managerQueue # <<>> /\ managerQueue' = Tail(managerQueue)
        /\ Head(managerQueue).does = "publish"
        /\ currentRuleSet' = Head(managerQueue).ruleSet
        /\ configuration' = configuration /\ merged' = merged /\ reordered' = reordered
        /\ mergesQueued' = mergesQueued /\ sourceRuleSets' = sourceRuleSets
    BY <1>5 DEF Publish, Turn, pipeline
  <2>2. \A x \in SourceRules : Final(x)' => Final(x)
    BY <1>0, <2>1, TakenInFront DEF Final
  <2>3. MergeAhead => MergeAhead'
    BY <1>0, <2>1, TakenInFront DEF MergeAhead, Succeeds
  <2> QED  BY <2>1, <2>2, <2>3, InSequenceKept
<1> QED  BY <1>1, <1>2, <1>3, <1>4, <1>5 DEF ManagerQueueStep

\* A merge that finds no rules is one of rules that are not there any more either.
LEMMA NothingToTakeBack ==
    ASSUME NEW x \in SourceRules, StillThere(x),
           MergeOf(configuration, sourceRuleSets) = NoneAtAll
    PROVE  x = NoneAtAll
<1>1. ASSUME NEW s \in Source
      PROVE  x[s] = NoRules
  <2>1. MergeOf(configuration, sourceRuleSets)[s] = NoRules
    BY DEF NoneAtAll
  <2> QED  BY <2>1 DEF MergeOf, StillThere
<1> QED  BY <1>1 DEF SourceRules, NoneAtAll

LEMMA MergeInSequence ==
    ASSUME ManagerTypeOK, InSequence, Merge
    PROVE  InSequence'
<1> PICK m : m = MergeOf(configuration, sourceRuleSets)
  OBVIOUS
<1>1. /\ configuration' = configuration /\ sourceRuleSets' = sourceRuleSets
      /\ managerQueue' = managerQueue /\ currentRuleSet' = currentRuleSet
  BY DEF Merge, pipeline
<1>2. CASE m = NoneAtAll
  <2>1. merged' = merged /\ reordered' = reordered
    BY <1>2 DEF Merge
  <2>2. \A x : Final(x)' <=> Final(x)
    BY <1>1, <2>1 DEF Final
  <2>3. ASSUME ~reordered, NEW x \in SourceRules, Final(x)
        PROVE  StillThere(x) /\ x = m
    BY <1>2, <2>3, NothingToTakeBack DEF InSequence
  <2>4. \A x : StillThere(x)' <=> StillThere(x)
    BY <1>1 DEF StillThere
  <2> QED  BY <1>1, <2>1, <2>2, <2>3, <2>4 DEF InSequence
<1>3. CASE m # NoneAtAll
  <2>1. merged' = Append(merged, m) /\ reordered' = (merged # <<>>)
    BY <1>3 DEF Merge
  <2> SUFFICES ASSUME merged = <<>>
               PROVE  InSequence'
    BY <2>1 DEF InSequence
  <2>2. merged' = <<m>> /\ Len(merged') = 1 /\ merged'[1] = m /\ merged' # <<>>
    BY <2>1
  <2>3. \A x : Final(x)' => x = m
    BY <2>2 DEF Final
  <2>4. StillThere(m)'
    BY <1>1 DEF StillThere, MergeOf
  <2> QED  BY <1>1, <2>2, <2>3, <2>4 DEF InSequence
<1> QED  BY <1>2, <1>3

LEMMA MergeDoneInSequence ==
    ASSUME ManagerTypeOK, InSequence, MergeDone
    PROVE  InSequence'
<1>1. PICK i \in DOMAIN merged :
          /\ managerQueue' = Append(managerQueue,
                                    [QueuedBlock("publish") EXCEPT !.ruleSet = merged[i]])
          /\ merged' = [j \in 1 .. Len(merged) - 1 |-> merged[IF j < i THEN j ELSE j + 1]]
  BY DEF MergeDone
<1>2. /\ configuration' = configuration /\ sourceRuleSets' = sourceRuleSets
      /\ mergesQueued' = mergesQueued /\ reordered' = reordered
  BY DEF MergeDone, pipeline
<1> SUFFICES ASSUME ~reordered
             PROVE  InSequence'
  BY <1>2 DEF InSequence
<1>3. /\ Len(merged) = 1 /\ i = 1 /\ merged # <<>> /\ merged[1] \in SourceRules
      /\ managerQueue \in Seq(ManagerBlock)
  <2>1. Len(merged) \in Nat /\ DOMAIN merged = 1 .. Len(merged) /\ Len(merged) <= 1
    BY LenProperties DEF ManagerTypeOK, InSequence
  <2> QED  BY <2>1 DEF ManagerTypeOK
<1>4. merged' = <<>>
  <2>1. merged' = [j \in 1 .. 0 |-> merged[IF j < i THEN j ELSE j + 1]]
    BY <1>1, <1>3
  <2> QED  BY <2>1
<1> PICK block : block = [QueuedBlock("publish") EXCEPT !.ruleSet = merged[1]]
  OBVIOUS
<1>5. block \in ManagerBlock /\ block.does = "publish" /\ block.ruleSet = merged[1]
  BY <1>3, VersionFacts DEF QueuedBlock, ManagerBlock
<1>6. /\ managerQueue' = Append(managerQueue, block)
      /\ ~NoneOut(managerQueue') /\ \A x : LastOut(managerQueue', x) => x = merged[1]
      /\ SuccessIn(managerQueue) => SuccessIn(managerQueue')
  BY <1>1, <1>3, <1>5, QueuedBehind
<1>7. \A x \in SourceRules : Final(x)' => Final(x)
  BY <1>3, <1>4, <1>6 DEF Final
<1>8. MergeAhead => MergeAhead'
  BY <1>2, <1>6 DEF MergeAhead
<1>9. Len(merged') <= 1
  BY <1>4
<1> QED  BY <1>2, <1>7, <1>8, <1>9, InSequenceKept

LEMMA UpdateInSequence ==
    ASSUME ManagerTypeOK, Versions, InSequence, NEW u \in Update,
           \/ \E s \in Source : ShouldUpdateSource(u, s)
           \/ PerformUpdate(u) \/ UseCached(u) \/ FetchEnds(u) \/ StoreInCache(u)
           \/ SetSourceRuleSet(u)
    PROVE  InSequence'
<1>0. /\ managerQueue \in Seq(ManagerBlock)
      /\ sourceRuleSets \in SourceRules /\ updates \in [Update -> UpdateResult]
  BY DEF ManagerTypeOK
<1>1. /\ configuration' = configuration /\ UNCHANGED published
      /\ mergesQueued' = mergesQueued
  BY DEF ShouldUpdateSource, PerformUpdate, UseCached, FetchEnds, StoreInCache,
         SetSourceRuleSet, UpdateUnchanged
<1>2. ASSUME NEW success \in BOOLEAN, UpdateEnds(u, success)
      PROVE  /\ GoesOn(managerQueue, managerQueue')
             /\ success => SuccessIn(managerQueue')
  <2>1. PICK block : block = [QueuedBlock("completeUpdate") EXCEPT !.success = success]
    OBVIOUS
  <2>2. /\ block \in ManagerBlock /\ block.does # "publish"
        /\ success => Succeeds(block)
    BY <2>1, VersionFacts DEF QueuedBlock, ManagerBlock, Succeeds
  <2> QED  BY <1>0, <1>2, <2>1, <2>2, QueuedBehind DEF UpdateEnds
<1>3. CASE \/ \E s \in Source : ShouldUpdateSource(u, s)
           \/ PerformUpdate(u) \/ FetchEnds(u) \/ StoreInCache(u)
  <2>1. sourceRuleSets' = sourceRuleSets
    BY <1>3 DEF ShouldUpdateSource, PerformUpdate, FetchEnds, StoreInCache
  <2>2. managerQueue' = managerQueue \/ UpdateEnds(u, FALSE)
    BY <1>3 DEF ShouldUpdateSource, PerformUpdate, FetchEnds, StoreInCache
  <2>3. GoesOn(managerQueue, managerQueue')
    BY <1>2, <2>2, SameQueue
  <2> QED  BY <1>1, <2>1, <2>3, QueueKept
<1>4. CASE UseCached(u) \/ SetSourceRuleSet(u)
  <2>1. /\ \E success \in BOOLEAN : UpdateEnds(u, success)
        /\ UseCached(u) => UpdateEnds(u, updates[u].version # NoRules)
        /\ SetSourceRuleSet(u) => UpdateEnds(u, TRUE)
    BY <1>4 DEF UseCached, SetSourceRuleSet
  <2>2. GoesOn(managerQueue, managerQueue')
    BY <1>2, <2>1
  <2>3. \A s \in Source : sourceRuleSets[s] # NoRules => sourceRuleSets'[s] # NoRules
    <3>1. DOMAIN sourceRuleSets = Source
      BY <1>0 DEF SourceRules
    <3>2. CASE UseCached(u)
      BY <3>1, <3>2 DEF UseCached
    <3>3. CASE SetSourceRuleSet(u)
      <4>1. updates[u].version # NoRules
        BY <3>3 DEF SetSourceRuleSet, Versions
      <4> QED  BY <3>1, <3>3, <4>1 DEF SetSourceRuleSet
    <3> QED  BY <1>4, <3>2, <3>3
  <2>4. sourceRuleSets' = sourceRuleSets \/ SuccessIn(managerQueue')
    <3>1. CASE UseCached(u)
      <4>1. CASE updates[u].version = NoRules
        BY <3>1, <4>1 DEF UseCached
      <4>2. CASE updates[u].version # NoRules
        <5>1. UpdateEnds(u, TRUE)
          BY <2>1, <3>1, <4>2
        <5> QED  BY <1>2, <5>1
      <4> QED  BY <4>1, <4>2
    <3>2. CASE SetSourceRuleSet(u)
      BY <1>2, <2>1, <3>2
    <3> QED  BY <1>4, <3>1, <3>2
  <2>5. \A x \in SourceRules : Final(x)' => Final(x)
    BY <1>1, <2>2 DEF Final, GoesOn, published
  <2>6. MergeAhead => MergeAhead'
    BY <1>1, <2>2 DEF MergeAhead, GoesOn
  <2>7. sourceRuleSets' = sourceRuleSets \/ MergeAhead'
    BY <2>4 DEF MergeAhead
  <2> QED  BY <1>1, <2>3, <2>5, <2>6, <2>7, InSequenceKept DEF published
<1> QED  BY <1>3, <1>4

\* A server serves some version from the start, and later ones follow it.
LEMMA VersionsKept == ASSUME ManagerTypeOK, Versions, ManagerNext PROVE Versions'
<1>0. /\ served \in SourceRules /\ updates \in [Update -> UpdateResult]
      /\ NoUpdate.stage = "none"
  BY VersionFacts DEF ManagerTypeOK
<1>1. CASE ServerChanges
  <2>1. updates' = updates
    BY <1>1 DEF ServerChanges
  <2>2. PICK s \in Source : served' = [served EXCEPT ![s] = @ + 1]
    BY <1>1 DEF ServerChanges
  <2>3. served[s] \in Nat /\ DOMAIN served = Source
    BY <1>0, ManagerAssumption DEF SourceRules, Version, NoRules
  <2> QED  BY <2>1, <2>2, <2>3 DEF Versions, NoRules
<1>2. CASE UpdateStep
  <2>1. served' = served
    BY <1>2 DEF UpdateStep, ShouldUpdateSource, PerformUpdate, UseCached, FetchEnds,
                StoreInCache, SetSourceRuleSet
  <2>2. PICK u \in Update :
            \/ \E s \in Source : ShouldUpdateSource(u, s)
            \/ PerformUpdate(u) \/ UseCached(u) \/ FetchEnds(u) \/ StoreInCache(u)
            \/ SetSourceRuleSet(u)
    BY <1>2 DEF UpdateStep
  <2>3. /\ \A v \in Update \ {u} : updates'[v] = updates[v]
        /\ updates'[u].stage \in {"fetched", "cached"} => updates'[u].version # NoRules
    <3>1. CASE \E s \in Source : ShouldUpdateSource(u, s)
      BY <1>0, <3>1 DEF ShouldUpdateSource
    <3>2. CASE PerformUpdate(u)
      BY <1>0, <3>2 DEF PerformUpdate, SetUpdate, UpdateEnds, UpdateResult
    <3>3. CASE UseCached(u) \/ SetSourceRuleSet(u)
      BY <1>0, <3>3 DEF UseCached, SetSourceRuleSet, UpdateEnds
    <3>4. CASE FetchEnds(u)
      <4>1. served[updates[u].source] # NoRules
        BY <1>0 DEF Versions, UpdateResult
      <4> QED  BY <1>0, <3>4, <4>1 DEF FetchEnds, SetUpdate, UpdateEnds, UpdateResult
    <3>5. CASE StoreInCache(u)
      BY <1>0, <3>5 DEF StoreInCache, SetUpdate, Versions, UpdateResult
    <3> QED  BY <2>2, <3>1, <3>2, <3>3, <3>4, <3>5
  <2> QED  BY <2>1, <2>3 DEF Versions
<1>3. CASE Stop
  <2>1. served' = served /\ \A u \in Update : updates'[u] \in {updates[u], NoUpdate}
    BY <1>3 DEF Stop
  <2> QED  BY <1>0, <2>1 DEF Versions
<1>4. CASE UNCHANGED <<served, updates>>
  BY <1>4 DEF Versions
<1>5. \/ ServerChanges \/ UpdateStep \/ Stop \/ UNCHANGED <<served, updates>>
  BY DEF ManagerNext, ManagerQueueStep, StartUpdating, StopUpdating, ClearCache,
         UpdateConfiguration, Ask, Start, LoadCachedRules, Configure, ClearAllCaches,
         CompleteUpdate, Publish, Merge, MergeDone, pipeline
<1> QED  BY <1>1, <1>2, <1>3, <1>4, <1>5

LEMMA MergeInvHolds == ManagerSpec => [](ManagerTypeOK /\ MergeInv)
<1>1. ManagerInit /\ ManagerTypeOK => MergeInv
  <2> SUFFICES ASSUME ManagerInit, ManagerTypeOK
               PROVE  MergeInv
    OBVIOUS
  <2>1. Versions
    BY VersionFacts DEF ManagerInit, Versions, NoRules
  <2>2. /\ currentRuleSet = NoneAtAll /\ merged = <<>> /\ managerQueue = <<>>
        /\ sourceRuleSets = NoneAtAll /\ Len(merged) = 0
    BY EmptySeq DEF ManagerInit
  <2>3. \A x : Final(x) => x = NoneAtAll
    BY <2>2 DEF Final, LastOut
  <2>4. MergeOf(configuration, sourceRuleSets) = NoneAtAll
    BY <2>2 DEF MergeOf, NoneAtAll
  <2>5. StillThere(NoneAtAll)
    BY DEF StillThere, NoneAtAll
  <2>6. Len(merged) <= 1
    BY <2>2
  <2> QED  BY <2>1, <2>3, <2>4, <2>5, <2>6 DEF MergeInv, InSequence
<1>2. ManagerTypeOK /\ MergeInv /\ [ManagerNext]_managerVars => MergeInv'
  <2> SUFFICES ASSUME ManagerTypeOK, MergeInv, [ManagerNext]_managerVars
               PROVE  MergeInv'
    OBVIOUS
  <2>1. Versions /\ InSequence
    BY DEF MergeInv
  <2>2. CASE ManagerNext
    <3>1. Versions'
      BY <2>1, <2>2, VersionsKept
    <3>2. CASE StartUpdating \/ StopUpdating \/ ClearCache \/ UpdateConfiguration
      BY <2>1, <3>1, <3>2, AskInSequence DEF MergeInv
    <3>3. CASE ManagerQueueStep
      BY <2>1, <3>1, <3>3, QueueStepInSequence DEF MergeInv
    <3>4. CASE Merge \/ MergeDone
      BY <2>1, <3>1, <3>4, MergeInSequence, MergeDoneInSequence DEF MergeInv
    <3>5. CASE UpdateStep
      <4>1. InSequence'
        BY <2>1, <3>5, UpdateInSequence DEF UpdateStep
      <4> QED  BY <3>1, <4>1 DEF MergeInv
    <3>6. CASE ServerChanges
      <4>1. InSequence'
        BY <2>1, <3>6, QueueKept, SameQueue DEF ServerChanges, UpdateUnchanged
      <4> QED  BY <3>1, <4>1 DEF MergeInv
    <3> QED  BY <2>2, <3>2, <3>3, <3>4, <3>5, <3>6 DEF ManagerNext
  <2>3. CASE UNCHANGED managerVars
    BY <2>1, <2>3 DEF managerVars, MergeInv, Versions, InSequence, Final, StillThere, MergeAhead
  <2> QED  BY <2>2, <2>3
<1> QED  BY <1>1, <1>2, ManagerTypeCorrect, PTL DEF ManagerSpec

\* Once all queues are empty, the rules that answer queries are the merge of the
\* configured sources' rules, whatever overtook what, unless two merges were computed
\* side by side or the configuration has not been merged yet (RuleManager.m:636-740).
THEOREM SettledIsMergedHolds == ManagerSpec => []SettledIsMerged
<1>1. ManagerTypeOK /\ MergeInv => SettledIsMerged
  <2> SUFFICES ASSUME ManagerTypeOK, InSequence, Settled, ~reordered
               PROVE  currentRuleSet = MergeOf(configuration, sourceRuleSets)
    BY DEF MergeInv, SettledIsMerged
  <2>1. /\ currentRuleSet \in SourceRules /\ merged = <<>> /\ managerQueue = <<>>
        /\ mergesQueued = 0
    BY DEF ManagerTypeOK, Settled
  <2>2. Final(currentRuleSet) /\ ~MergeAhead
    BY <2>1 DEF Final, NoneOut, MergeAhead, SuccessIn
  <2> QED  BY <2>1, <2>2 DEF InSequence
<1> QED  BY <1>1, MergeInvHolds, PTL

=============================================================================
