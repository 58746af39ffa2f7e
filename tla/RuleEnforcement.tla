-------------------------- MODULE RuleEnforcement --------------------------
(***************************************************************************)
(* The rules table, the two caches in front of it, and everything that     *)
(* changes or reads them at the same time:                                 *)
(*                                                                         *)
(*   - queries: UDP ones on the serial dnsQueue, TCP ones on the callback  *)
(*     threads of their flows (FlowManagement.m, processDNSQuery);         *)
(*   - upstream answers, on the queue of their connection;                 *)
(*   - the user's changes, the clearing of caches, the migration of old    *)
(*     rules and the delivery of merged rules, on dnsQueue (XPC.m,         *)
(*     Telemetry.m, Migration.m, Delegates.m);                             *)
(*   - imports of a manifest's managed rules, on any thread and several at *)
(*     a time (ConfigurationManager.m, importManagedRules).                *)
(*                                                                         *)
(* All share ONE SQLite connection (DNSRuleDatabase.m), hence one          *)
(* transaction.  Statements run on the serial databaseQueue; BEGIN, COMMIT *)
(* and ROLLBACK called from outside run on their caller's thread, between  *)
(* the statements of anybody else.                                         *)
(*                                                                         *)
(* A rule covers one name here: wildcards and precedence choose among the  *)
(* rules of the table and change neither who writes it nor when.           *)
(***************************************************************************)
EXTENDS Integers, FiniteSets

CONSTANTS
    Name,            \* the names that are asked and that rules are about
    NoTransaction,   \* what "saved" is while no transaction is open
    Free,            \* what "databaseQueue" is while no import holds it
    Import,          \* the calls of importManagedRules that may be in progress
    Manifests,       \* what resolved manifests say: an action for every name
    Legacy,          \* the old lists in the shared defaults, the same way
    StartTables,     \* the tables the program may find when it starts
    TcpNames,        \* the names asked over TCP
    BatchSize,       \* rules inserted by one addRules of an import
    MaxUserChanges,  \* bound on the user's changes
    MaxNotices,      \* bound on notices outstanding when new work starts
    MaxFaults        \* bound on I/O errors of the database

Action == {"none", "block", "allow"}
Source == {"none", "user", "manifest", "system"}

\* A row of dns_rules; NoRule where the table has none for a name.
Rule == [action: Action, source: Source]
NoRule == [action |-> "none", source |-> "none"]
Table == [Name -> Rule]
Empty == [n \in Name |-> NoRule]

ASSUME ManifestsAssumption == Manifests \subseteq [Name -> Action]
ASSUME LegacyAssumption == Legacy \in [Name -> Action]
ASSUME StartTablesAssumption == StartTables \subseteq Table
ASSUME TcpAssumption == TcpNames \subseteq Name
ASSUME ImportAssumption == Free \notin Import
ASSUME NoTransactionAssumption == NoTransaction \notin Table
ASSUME BatchAssumption == BatchSize \in Nat \ {0}
ASSUME BoundsAssumption ==
    MaxUserChanges \in Nat /\ MaxNotices \in Nat /\ MaxFaults \in Nat

VARIABLES
    rules,          \* the table as the shared connection shows it
    saved,          \* the table when the open transaction began, if one is open
    databaseQueue,  \* the import whose addRules is under way, or Free
    dnsQueue,       \* the block under way on dnsQueue, or "idle"
    imports,        \* how far each import has come
    lookups,        \* lookups that read the table and have not acted on it
    inflight,       \* names sent upstream whose answers are still to come
    ruleCache,      \* the action cached for a name
    dnsCache,       \* the names with a cached answer
    notices,        \* RuleDatabaseDidChange notices not handled yet
    warming,        \* whether a warmCache block is queued
    migration,      \* "no", "queued", or how far the migration has come
    userChanges,    \* how many changes the user has made
    faults          \* how many I/O errors the database has met

vars == <<rules, saved, databaseQueue, dnsQueue, imports, lookups, inflight,
          ruleCache, dnsCache, notices, warming, migration, userChanges, faults>>

table == <<rules, saved>>
caches == <<ruleCache, dnsCache>>
startup == <<warming, migration>>
counts == <<userChanges, faults>>

Asked(m) == {n \in Name : m[n] # "none"}

Idle == [phase |-> "idle", manifest |-> [n \in Name |-> "none"],
         todo |-> {}, batch |-> {}]

Lookup == [name: Name, action: Action, via: {"udp", "tcp"}]

-----------------------------------------------------------------------------
(* The database *)

\* rules as they are after the rows of those names are inserted or replaced.
Inserted(names, m, src) ==
    [n \in Name |-> IF n \in names THEN [action |-> m[n], source |-> src]
                                   ELSE rules[n]]

\* DELETE FROM dns_rules WHERE source = src
Without(src) == [n \in Name |-> IF rules[n].source = src THEN NoRule ELSE rules[n]]

InTransaction == saved # NoTransaction

\* BEGIN fails inside a transaction; its caller may look at that or not.
BeginTransaction ==
    /\ saved' = IF InTransaction THEN saved ELSE rules
    /\ UNCHANGED rules

\* COMMIT posts a notice when there was something to commit.
CommitTransaction ==
    /\ saved' = NoTransaction
    /\ notices' = IF InTransaction THEN notices + 1 ELSE notices
    /\ UNCHANGED rules

RollbackTransaction ==
    /\ rules' = IF InTransaction THEN saved ELSE rules
    /\ saved' = NoTransaction

\* addRules where nothing can come between its BEGIN and its COMMIT: inside a
\* transaction its BEGIN fails and it gives up, leaving that one open.
AddRules(names, m, src) ==
    /\ databaseQueue = Free
    /\ rules' = IF InTransaction THEN rules ELSE Inserted(names, m, src)
    /\ notices' = IF InTransaction THEN notices ELSE notices + 1
    /\ UNCHANGED saved

\* An I/O error in any statement: the database file is removed and a new one
\* opened, then the statement is tried again.  An addRules that was inserting
\* starts over; one that was committing finds no transaction.
Recover ==
    /\ faults < MaxFaults
    /\ faults' = faults + 1
    /\ rules' = Empty
    /\ saved' = NoTransaction
    /\ databaseQueue' = IF \E i \in Import : imports[i].phase = "insert"
                        THEN Free ELSE databaseQueue
    /\ imports' = [i \in Import |-> IF imports[i].phase = "insert"
                                    THEN [imports[i] EXCEPT !.phase = "add"]
                                    ELSE imports[i]]
    /\ UNCHANGED <<dnsQueue, lookups, inflight, caches, notices, startup, userChanges>>

\* A block gets its turn on dnsQueue.  The migration is the first one there
\* after a start, before any query is taken.
Turn == dnsQueue = "idle" /\ migration # "queued"

-----------------------------------------------------------------------------
(* Queries and answers *)

Forward(n) == inflight' = inflight \cup {n}

\* A query whose answer is not cached.  A cached block is answered at once, a
\* cached allow forwarded; else the table is read.  A cached answer is sent
\* before the rules are looked at, so it changes nothing here.
Ask(n, via) ==
    /\ n \notin dnsCache
    /\ \/ /\ ruleCache[n] = "allow"
          /\ Forward(n)
          /\ UNCHANGED <<lookups, dnsQueue>>
       \/ /\ ruleCache[n] = "none"
          /\ databaseQueue = Free
          /\ lookups' = lookups \cup
                {[name |-> n, action |-> rules[n].action, via |-> via]}
          /\ dnsQueue' = IF via = "udp" THEN "lookup" ELSE dnsQueue
          /\ UNCHANGED inflight
    /\ UNCHANGED <<table, databaseQueue, imports, caches, notices, startup, counts>>

AskUdp == Turn /\ \E n \in Name : Ask(n, "udp")

AskTcp == \E n \in TcpNames : Ask(n, "tcp")

\* The rest of processDNSQuery: an action that was found is cached, and what is
\* not blocked is forwarded.
Decide(l) ==
    /\ lookups' = lookups \ {l}
    /\ ruleCache' = IF l.action = "none" THEN ruleCache
                    ELSE [ruleCache EXCEPT ![l.name] = l.action]
    /\ IF l.action = "block" THEN UNCHANGED inflight ELSE Forward(l.name)
    /\ dnsQueue' = IF l.via = "udp" THEN "idle" ELSE dnsQueue
    /\ UNCHANGED <<table, databaseQueue, imports, dnsCache, notices, startup, counts>>

\* processUpstreamResponse caches an answer, whatever the rules say by now.
\* Several queries of a name may be in flight.
Answer(n) ==
    /\ n \in inflight
    /\ dnsCache' = dnsCache \cup {n}
    /\ inflight' \in {inflight, inflight \ {n}}
    /\ UNCHANGED <<table, databaseQueue, dnsQueue, imports, lookups, ruleCache,
                   notices, startup, counts>>

\* No answer comes, or one that is not to be cached.
Drop(n) ==
    /\ n \in inflight
    /\ inflight' = inflight \ {n}
    /\ UNCHANGED <<table, databaseQueue, dnsQueue, imports, lookups, caches,
                   notices, startup, counts>>

\* Fault: a hit renews an entry, so that one in use never expires.
ExpireRuleUnused(n) ==
    /\ ruleCache[n] # "none"
    /\ n \notin inflight
    /\ ruleCache' = [ruleCache EXCEPT ![n] = "none"]
    /\ UNCHANGED <<table, databaseQueue, dnsQueue, imports, lookups, inflight,
                   dnsCache, notices, startup, counts>>

\* An entry of the rule cache expires or is evicted.
ExpireRule(n) ==
    /\ ruleCache[n] # "none"
    /\ ruleCache' = [ruleCache EXCEPT ![n] = "none"]
    /\ UNCHANGED <<table, databaseQueue, dnsQueue, imports, lookups, inflight,
                   dnsCache, notices, startup, counts>>

ExpireAnswer(n) ==
    /\ n \in dnsCache
    /\ dnsCache' = dnsCache \ {n}
    /\ UNCHANGED <<table, databaseQueue, dnsQueue, imports, lookups, inflight,
                   ruleCache, notices, startup, counts>>

-----------------------------------------------------------------------------
(* Clearing and warming the caches *)

Cleared ==
    /\ ruleCache' = [n \in Name |-> "none"]
    /\ dnsCache' = {}

\* The clearCache command, which runs beside dnsQueue, clears both caches; the same
\* call over XPC, and clearAllDNSFlows, only the answers.
ClearCaches ==
    /\ dnsCache' = {}
    /\ ruleCache' \in {ruleCache, [n \in Name |-> "none"]}
    /\ UNCHANGED <<table, databaseQueue, dnsQueue, imports, lookups, inflight,
                   notices, startup, counts>>

\* Fault: the notice is handled before it is posted.
HandleDatabaseChangeEarly ==
    /\ dnsQueue = "idle"
    /\ notices' = notices - 1
    /\ Cleared
    /\ warming' = TRUE
    /\ UNCHANGED <<table, databaseQueue, dnsQueue, imports, lookups, inflight,
                   migration, counts>>

\* Fault: only the answers are cleared.
HandleDatabaseChangeAnswers ==
    /\ dnsQueue = "idle"
    /\ notices > 0
    /\ notices' = notices - 1
    /\ dnsCache' = {}
    /\ warming' = TRUE
    /\ UNCHANGED <<table, databaseQueue, dnsQueue, imports, lookups, inflight,
                   ruleCache, migration, counts>>

\* A notice of the database, by way of the main queue.
HandleDatabaseChange ==
    /\ dnsQueue = "idle"
    /\ notices > 0
    /\ notices' = notices - 1
    /\ Cleared
    /\ warming' = TRUE
    /\ UNCHANGED <<table, databaseQueue, dnsQueue, imports, lookups, inflight,
                   migration, counts>>

\* Some names that are often asked get the action the table has for them.
WarmCache ==
    /\ Turn
    /\ warming
    /\ databaseQueue = Free
    /\ warming' = FALSE
    /\ \E names \in SUBSET {n \in Name : rules[n] # NoRule} :
          ruleCache' = [n \in Name |-> IF n \in names THEN rules[n].action
                                                      ELSE ruleCache[n]]
    /\ UNCHANGED <<table, databaseQueue, dnsQueue, imports, lookups, inflight,
                   dnsCache, notices, migration, counts>>

\* The hourly maintenance.  No rule that the program writes has an expiry date.
PeriodicMaintenance ==
    /\ Turn
    /\ databaseQueue = Free
    /\ Cleared
    /\ warming' = TRUE
    /\ UNCHANGED <<table, databaseQueue, dnsQueue, imports, lookups, inflight,
                   notices, migration, counts>>

-----------------------------------------------------------------------------
(* The user's changes *)

UserMayChange ==
    /\ Turn
    /\ databaseQueue = Free
    /\ userChanges < MaxUserChanges
    /\ notices < MaxNotices
    /\ userChanges' = userChanges + 1

\* addUserBlockedDomain, addUserAllowedDomain
AddUserDomain(n, action) ==
    /\ UserMayChange
    /\ AddRules({n}, [x \in {n} |-> action], "user")
    /\ IF InTransaction THEN UNCHANGED caches ELSE Cleared
    /\ UNCHANGED <<databaseQueue, dnsQueue, imports, lookups, inflight, startup, faults>>

\* removeUserBlockedDomain, removeUserAllowedDomain: the rule of the name goes,
\* whoever made it.
RemoveUserDomain(n) ==
    /\ UserMayChange
    /\ rules' = [rules EXCEPT ![n] = NoRule]
    /\ Cleared
    /\ UNCHANGED <<saved, databaseQueue, dnsQueue, imports, lookups, inflight,
                   notices, startup, faults>>

-----------------------------------------------------------------------------
(* Migration: one block on dnsQueue with a transaction around addRules, which *)
(* begins one of its own.                                                     *)

MigrateBegin ==
    /\ dnsQueue = "idle"
    /\ migration = "queued"
    /\ dnsQueue' = "migrate"
    /\ migration' = "begun"
    /\ BeginTransaction
    /\ UNCHANGED <<databaseQueue, imports, lookups, inflight, caches, notices,
                   warming, counts>>

MigrateAdd ==
    /\ migration = "begun"
    /\ AddRules(Asked(Legacy), Legacy, "system")
    /\ migration' = IF InTransaction THEN "failed" ELSE "added"
    /\ UNCHANGED <<databaseQueue, dnsQueue, imports, lookups, inflight, caches,
                   warming, counts>>

\* Fault: a migration that failed does not roll back.
MigrateEndOpen ==
    /\ \/ migration = "added" /\ CommitTransaction
       \/ migration = "failed" /\ UNCHANGED <<table, notices>>
    /\ migration' = "no"
    /\ dnsQueue' = "idle"
    /\ UNCHANGED <<databaseQueue, imports, lookups, inflight, caches, warming, counts>>

MigrateEnd ==
    /\ \/ migration = "added" /\ CommitTransaction
       \/ migration = "failed" /\ RollbackTransaction /\ UNCHANGED notices
    /\ migration' = "no"
    /\ dnsQueue' = "idle"
    /\ UNCHANGED <<databaseQueue, imports, lookups, inflight, caches, warming, counts>>

-----------------------------------------------------------------------------
(* Imports of managed rules *)

SetImport(i, next) == imports' = [imports EXCEPT ![i] = next]

\* The old managed rules go, in a statement of its own that posts no notice.
ImportBegin(i, m) ==
    /\ imports[i].phase = "idle"
    /\ databaseQueue = Free
    /\ notices < MaxNotices
    /\ rules' = Without("manifest")
    /\ SetImport(i, [phase |-> "add", manifest |-> m, todo |-> Asked(m), batch |-> {}])
    /\ UNCHANGED <<saved, databaseQueue, dnsQueue, lookups, inflight, caches,
                   notices, startup, counts>>

\* addRules for the next batch: a BEGIN that fails loses the batch, and the
\* import goes on with the next one.
BatchBegin(i) ==
    /\ imports[i].phase = "add"
    /\ imports[i].todo # {}
    /\ databaseQueue = Free
    /\ \E b \in SUBSET imports[i].todo :
          /\ b # {}
          /\ Cardinality(b) <= BatchSize
          /\ Cardinality(b) = BatchSize \/ b = imports[i].todo
          /\ SetImport(i, [imports[i] EXCEPT
                            !.phase = IF InTransaction THEN "add" ELSE "insert",
                            !.batch = IF InTransaction THEN {} ELSE b,
                            !.todo = @ \ b])
    /\ databaseQueue' = IF InTransaction THEN Free ELSE i
    /\ BeginTransaction
    /\ UNCHANGED <<dnsQueue, lookups, inflight, caches, notices, startup, counts>>

BatchInsert(i) ==
    /\ imports[i].phase = "insert"
    /\ rules' = Inserted(imports[i].batch, imports[i].manifest, "manifest")
    /\ SetImport(i, [imports[i] EXCEPT !.phase = "commit"])
    /\ UNCHANGED <<saved, databaseQueue, dnsQueue, lookups, inflight, caches,
                   notices, startup, counts>>

BatchCommit(i) ==
    /\ imports[i].phase = "commit"
    /\ CommitTransaction
    /\ databaseQueue' = Free
    /\ SetImport(i, [imports[i] EXCEPT !.phase = "add", !.batch = {}])
    /\ UNCHANGED <<dnsQueue, lookups, inflight, caches, startup, counts>>

ImportEnd(i) ==
    /\ imports[i].phase = "add"
    /\ imports[i].todo = {}
    /\ SetImport(i, Idle)
    /\ UNCHANGED <<table, databaseQueue, dnsQueue, lookups, inflight, caches,
                   notices, startup, counts>>

-----------------------------------------------------------------------------
(* The end of the process and its start *)

\* What is on disk is the table without the open transaction.  At the start an
\* empty table queues the migration, and the warming of the cache follows.
StartWith(disk) ==
    /\ rules' = disk
    /\ saved' = NoTransaction
    /\ databaseQueue' = Free
    /\ dnsQueue' = "idle"
    /\ imports' = [i \in Import |-> Idle]
    /\ lookups' = {}
    /\ inflight' = {}
    /\ Cleared
    /\ notices' = 0
    /\ warming' = TRUE
    /\ migration' = IF disk = Empty THEN "queued" ELSE "no"

Restart ==
    /\ StartWith(IF InTransaction THEN saved ELSE rules)
    /\ UNCHANGED counts

\* The rule manager delivers a merged rule set: a block on dnsQueue begins a
\* transaction, removes the manifest rules, and hands the set to addRules.
\* It is a RuleSet where addRules takes an array: its first message to it, count,
\* raises an exception that nothing catches, and the process ends.
DeliverBegin ==
    /\ Turn
    /\ dnsQueue' = "deliver"
    /\ BeginTransaction
    /\ UNCHANGED <<databaseQueue, imports, lookups, inflight, caches, notices,
                   startup, counts>>

\* Fault: the DELETE has lost its WHERE.
DeliverRemoveAll ==
    /\ dnsQueue = "deliver"
    /\ databaseQueue = Free
    /\ rules' = Empty
    /\ dnsQueue' = "delivered"
    /\ UNCHANGED <<saved, databaseQueue, imports, lookups, inflight, caches,
                   notices, startup, counts>>

DeliverRemove ==
    /\ dnsQueue = "deliver"
    /\ databaseQueue = Free
    /\ rules' = Without("manifest")
    /\ dnsQueue' = "delivered"
    /\ UNCHANGED <<saved, databaseQueue, imports, lookups, inflight, caches,
                   notices, startup, counts>>

DeliverRaise ==
    /\ dnsQueue = "delivered"
    /\ databaseQueue = Free
    /\ StartWith(IF InTransaction THEN saved ELSE rules)
    /\ UNCHANGED counts

-----------------------------------------------------------------------------

Init ==
    /\ rules \in StartTables
    /\ saved = NoTransaction
    /\ databaseQueue = Free
    /\ dnsQueue = "idle"
    /\ imports = [i \in Import |-> Idle]
    /\ lookups = {}
    /\ inflight = {}
    /\ ruleCache = [n \in Name |-> "none"]
    /\ dnsCache = {}
    /\ notices = 0
    /\ warming = TRUE
    /\ migration = IF rules = Empty THEN "queued" ELSE "no"
    /\ userChanges = 0
    /\ faults = 0

NameStep(n) ==
    \/ Answer(n) \/ Drop(n) \/ ExpireRule(n) \/ ExpireAnswer(n)
    \/ RemoveUserDomain(n)
    \/ \E action \in {"block", "allow"} : AddUserDomain(n, action)

ImportStep(i) ==
    \/ \E m \in Manifests : ImportBegin(i, m)
    \/ BatchBegin(i) \/ BatchInsert(i) \/ BatchCommit(i) \/ ImportEnd(i)

Next ==
    \/ AskUdp
    \/ AskTcp
    \/ \E l \in lookups : Decide(l)
    \/ \E n \in Name : NameStep(n)
    \/ \E i \in Import : ImportStep(i)
    \/ ClearCaches
    \/ HandleDatabaseChange
    \/ WarmCache
    \/ PeriodicMaintenance
    \/ MigrateBegin
    \/ MigrateAdd
    \/ MigrateEnd
    \/ DeliverBegin
    \/ DeliverRemove
    \/ DeliverRaise
    \/ Recover
    \/ Restart

Spec == Init /\ [][Next]_vars

\* A lookup that has read the table goes on, a query in flight is answered or
\* given up (the cleanup of stuck queries), and cached entries get old.
Fairness ==
    /\ \A l \in Lookup : WF_vars(l \in lookups /\ Decide(l))
    /\ \A n \in Name : /\ WF_vars(Drop(n))
                       /\ WF_vars(ExpireRule(n))
                       /\ WF_vars(ExpireAnswer(n))

FairSpec == Spec /\ Fairness

-----------------------------------------------------------------------------
(* Properties *)

\* The tables, the caches and what is under way keep their types.
TypeOK ==
    /\ rules \in Table
    /\ saved \in Table \cup {NoTransaction}
    /\ databaseQueue \in Import \cup {Free}
    /\ dnsQueue \in {"idle", "lookup", "migrate", "deliver", "delivered"}
    /\ imports \in [Import -> [phase: {"idle", "add", "insert", "commit"},
                               manifest: [Name -> Action],
                               todo: SUBSET Name, batch: SUBSET Name]]
    /\ lookups \subseteq Lookup
    /\ inflight \subseteq Name
    /\ ruleCache \in [Name -> Action]
    /\ dnsCache \subseteq Name
    /\ notices \in Nat
    /\ warming \in BOOLEAN
    /\ migration \in {"no", "queued", "begun", "added", "failed"}
    /\ userChanges \in Nat
    /\ faults \in Nat

\* No transaction is left open: one is open only while the block or the addRules
\* that ends it is under way.  One left open would make every later addRules
\* fail at its BEGIN, and a restart would undo what was confirmed since.
TransactionOwned ==
    InTransaction => \/ dnsQueue \in {"migrate", "deliver", "delivered"}
                     \/ databaseQueue # Free

\* A user's rule changes only by a change of the user, by an import or by old
\* lists that name its domain, or with the loss of the database: no rollback,
\* restart, delivery or removal of managed rules takes it along.
UserRulesSurvive ==
    [][\A n \in Name :
          /\ rules[n].source = "user"
          /\ rules'[n] # rules[n]
          /\ \A i \in Import : n \notin imports[i].batch
          /\ Legacy[n] = "none"
          => userChanges' # userChanges \/ faults' # faults]_vars

\* Nothing is under way that is about to change the table or to clear a cache.
Quiet ==
    /\ notices = 0
    /\ dnsQueue = "idle"
    /\ \A i \in Import : imports[i] = Idle

\* When nothing is under way, the rule cache says what the table says of the names that
\* are not asked over TCP ("Observe database changes to clear cache", Provider.m); a
\* lookup for TCP may be overtaken by the clearing and cache what it read before.
CacheFollowsRules ==
    Quiet => \A n \in Name \ TcpNames :
        ruleCache[n] # "none" => ruleCache[n] = rules[n].action

\* The same of cached answers: a name the rules block has none ("Clear cache to
\* reflect changes", XPC.m).
AnswersFollowRules ==
    Quiet => \A n \in dnsCache : rules[n].action # "block"

\* A query of the name would be answered, or one is on its way to be.
Resolves(n) ==
    \/ n \in dnsCache
    \/ n \in inflight
    \/ ruleCache[n] = "allow"
    \/ \E l \in lookups : l.name = n /\ l.action # "block"

\* A name that the table blocks for good stops resolving for good, whatever was
\* in flight and whatever the caches held when it was blocked.
BlockTakesHold ==
    \A n \in Name : <>[](rules[n].action = "block") => <>[]~Resolves(n)

=============================================================================
