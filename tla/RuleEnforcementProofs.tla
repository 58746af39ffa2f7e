----------------------- MODULE RuleEnforcementProofs -----------------------
(***************************************************************************)
(* Theorems about RuleEnforcement, for any names, imports, manifests and   *)
(* bounds.                                                                 *)
(***************************************************************************)
EXTENDS RuleEnforcement, TLAPS

-----------------------------------------------------------------------------
(* The table *)

LEMMA EmptyIsTable == Empty \in Table /\ NoRule \in Rule
BY DEF Empty, Table, NoRule, Rule, Action, Source

LEMMA InsertedIsTable ==
    ASSUME rules \in Table, NEW names \in SUBSET Name, NEW m, NEW src \in Source,
           \A n \in names : m[n] \in Action
    PROVE  Inserted(names, m, src) \in Table
BY DEF Inserted, Table, Rule

LEMMA WithoutIsTable ==
    ASSUME rules \in Table, NEW src
    PROVE  Without(src) \in Table
BY EmptyIsTable DEF Without, Table

LEMMA ManifestSource == {"user", "manifest", "system"} \subseteq Source
BY DEF Source

-----------------------------------------------------------------------------
(* Types *)

\* The phases of imports, the shape of TypeOK's longest conjunct.
Imports == [Import -> [phase: {"idle", "add", "insert", "commit"},
                       manifest: [Name -> Action],
                       todo: SUBSET Name, batch: SUBSET Name]]

LEMMA ClearedTypes ==
    ASSUME Cleared
    PROVE  ruleCache' \in [Name -> Action] /\ dnsCache' \subseteq Name
BY DEF Cleared, Action

LEMMA StartTypes ==
    ASSUME NEW disk \in Table, StartWith(disk), UNCHANGED counts, TypeOK
    PROVE  TypeOK'
<1>1. Idle \in [phase: {"idle", "add", "insert", "commit"}, manifest: [Name -> Action],
                todo: SUBSET Name, batch: SUBSET Name]
  BY DEF Idle, Action
<1>2. ruleCache' \in [Name -> Action] /\ dnsCache' \subseteq Name
  BY ClearedTypes DEF StartWith
<1>3. imports' \in Imports
  BY <1>1 DEF StartWith, Imports
<1>4. /\ rules' \in Table /\ saved' \in Table \cup {NoTransaction}
      /\ databaseQueue' \in Import \cup {Free} /\ dnsQueue' = "idle"
      /\ lookups' \subseteq Lookup /\ inflight' \subseteq Name
      /\ notices' \in Nat /\ warming' \in BOOLEAN
      /\ migration' \in {"no", "queued", "begun", "added", "failed"}
  BY DEF StartWith
<1>5. userChanges' \in Nat /\ faults' \in Nat
  BY DEF counts, TypeOK
<1> QED  BY <1>2, <1>3, <1>4, <1>5 DEF TypeOK, Imports

LEMMA DiskIsTable ==
    ASSUME TypeOK
    PROVE  (IF InTransaction THEN saved ELSE rules) \in Table
BY DEF TypeOK, InTransaction

LEMMA AddRulesTypes ==
    ASSUME TypeOK, NEW names \in SUBSET Name, NEW m, NEW src \in Source,
           \A n \in names : m[n] \in Action, AddRules(names, m, src)
    PROVE  rules' \in Table /\ saved' \in Table \cup {NoTransaction} /\ notices' \in Nat
<1>1. Inserted(names, m, src) \in Table
  BY InsertedIsTable DEF TypeOK
<1> QED  BY <1>1 DEF TypeOK, AddRules

LEMMA TypeInit == Init => TypeOK
<1> SUFFICES ASSUME Init PROVE TypeOK
  OBVIOUS
<1>1. rules \in Table
  BY StartTablesAssumption DEF Init
<1>2. imports \in Imports
  BY DEF Init, Imports, Idle, Action
<1>3. ruleCache \in [Name -> Action]
  BY DEF Init, Action
<1> QED  BY <1>1, <1>2, <1>3 DEF Init, TypeOK, Imports

LEMMA QueriesType ==
    ASSUME TypeOK,
           \/ AskUdp \/ AskTcp \/ (\E l \in lookups : Decide(l))
           \/ \E n \in Name : Answer(n) \/ Drop(n) \/ ExpireRule(n) \/ ExpireAnswer(n)
    PROVE  TypeOK'
<1>1. ASSUME NEW n \in Name, NEW via \in {"udp", "tcp"}, Ask(n, via)
      PROVE  TypeOK'
  <2>1. rules[n].action \in Action
    BY DEF TypeOK, Table, Rule
  <2>2. [name |-> n, action |-> rules[n].action, via |-> via] \in Lookup
    BY <2>1 DEF Lookup
  <2>3. lookups' \subseteq Lookup /\ inflight' \subseteq Name
    BY <1>1, <2>2 DEF TypeOK, Ask, Forward
  <2>4. dnsQueue' \in {"idle", "lookup", "migrate", "deliver", "delivered"}
    BY <1>1 DEF TypeOK, Ask
  <2> QED  BY <1>1, <2>3, <2>4 DEF TypeOK, Ask, table, caches, startup, counts
<1>2. ASSUME NEW l \in lookups, Decide(l)
      PROVE  TypeOK'
  <2>1. l.name \in Name /\ l.action \in Action
    BY DEF TypeOK, Lookup
  <2>2. ruleCache' \in [Name -> Action] /\ inflight' \subseteq Name
    BY <1>2, <2>1 DEF TypeOK, Decide, Forward
  <2>3. lookups' \subseteq Lookup /\ dnsQueue' \in {"idle", "lookup", "migrate", "deliver", "delivered"}
    BY <1>2 DEF TypeOK, Decide
  <2> QED  BY <1>2, <2>2, <2>3 DEF TypeOK, Decide, table, startup, counts
<1>3. ASSUME NEW n \in Name, Answer(n) \/ Drop(n) \/ ExpireAnswer(n)
      PROVE  TypeOK'
  BY <1>3 DEF TypeOK, Answer, Drop, ExpireAnswer, table, caches, startup, counts
<1>4. ASSUME NEW n \in Name, ExpireRule(n)
      PROVE  TypeOK'
  <2>1. ruleCache' \in [Name -> Action]
    BY <1>4 DEF TypeOK, ExpireRule, Action
  <2> QED  BY <1>4, <2>1 DEF TypeOK, ExpireRule, table, startup, counts
<1>5. CASE AskUdp
  BY <1>1, <1>5 DEF AskUdp
<1>6. CASE AskTcp
  BY <1>1, <1>6, TcpAssumption DEF AskTcp
<1> QED  BY <1>2, <1>3, <1>4, <1>5, <1>6

LEMMA CachesType ==
    ASSUME TypeOK, ClearCaches \/ HandleDatabaseChange \/ WarmCache \/ PeriodicMaintenance
    PROVE  TypeOK'
<1>1. CASE ClearCaches
  <2>1. ruleCache' \in [Name -> Action] /\ dnsCache' \subseteq Name
    BY <1>1 DEF TypeOK, ClearCaches, Action
  <2> QED  BY <1>1, <2>1 DEF TypeOK, ClearCaches, table, startup, counts
<1>2. CASE HandleDatabaseChange
  <2>1. ruleCache' \in [Name -> Action] /\ dnsCache' \subseteq Name
    BY <1>2, ClearedTypes DEF HandleDatabaseChange
  <2>2. notices' \in Nat
    BY <1>2 DEF TypeOK, HandleDatabaseChange
  <2> QED  BY <1>2, <2>1, <2>2 DEF TypeOK, HandleDatabaseChange, table, counts
<1>3. CASE WarmCache
  <2>1. ruleCache' \in [Name -> Action]
    <3>1. \A n \in Name : rules[n].action \in Action
      BY DEF TypeOK, Table, Rule
    <3> QED  BY <1>3, <3>1 DEF TypeOK, WarmCache
  <2> QED  BY <1>3, <2>1 DEF TypeOK, WarmCache, table, counts
<1>4. CASE PeriodicMaintenance
  <2>1. ruleCache' \in [Name -> Action] /\ dnsCache' \subseteq Name
    BY <1>4, ClearedTypes DEF PeriodicMaintenance
  <2> QED  BY <1>4, <2>1 DEF TypeOK, PeriodicMaintenance, table, counts
<1> QED  BY <1>1, <1>2, <1>3, <1>4

LEMMA UserType ==
    ASSUME TypeOK, NEW n \in Name,
           RemoveUserDomain(n) \/ \E action \in {"block", "allow"} : AddUserDomain(n, action)
    PROVE  TypeOK'
<1>1. ASSUME NEW action \in {"block", "allow"}, AddUserDomain(n, action)
      PROVE  TypeOK'
  <2>1. rules' \in Table /\ saved' \in Table \cup {NoTransaction} /\ notices' \in Nat
    <3> DEFINE m == [x \in {n} |-> action]
    <3>1. \A x \in {n} : m[x] \in Action
      BY DEF Action
    <3>2. AddRules({n}, m, "user")
      BY <1>1 DEF AddUserDomain
    <3> HIDE DEF m
    <3> QED  BY <3>1, <3>2, AddRulesTypes, ManifestSource
  <2>2. ruleCache' \in [Name -> Action] /\ dnsCache' \subseteq Name
    BY <1>1, ClearedTypes DEF TypeOK, AddUserDomain, caches
  <2>3. userChanges' \in Nat
    BY <1>1 DEF TypeOK, AddUserDomain, UserMayChange
  <2> QED  BY <1>1, <2>1, <2>2, <2>3 DEF TypeOK, AddUserDomain, startup
<1>2. CASE RemoveUserDomain(n)
  <2>1. rules' \in Table
    BY <1>2, EmptyIsTable DEF TypeOK, RemoveUserDomain, Table
  <2>2. ruleCache' \in [Name -> Action] /\ dnsCache' \subseteq Name
    BY <1>2, ClearedTypes DEF RemoveUserDomain
  <2>3. userChanges' \in Nat
    BY <1>2 DEF TypeOK, RemoveUserDomain, UserMayChange
  <2> QED  BY <1>2, <2>1, <2>2, <2>3 DEF TypeOK, RemoveUserDomain, startup
<1> QED  BY <1>1, <1>2

LEMMA BeginTypes ==
    ASSUME TypeOK, BeginTransaction
    PROVE  rules' \in Table /\ saved' \in Table \cup {NoTransaction}
BY DEF TypeOK, BeginTransaction

LEMMA CommitTypes ==
    ASSUME TypeOK, CommitTransaction
    PROVE  rules' \in Table /\ saved' \in Table \cup {NoTransaction} /\ notices' \in Nat
BY DEF TypeOK, CommitTransaction

LEMMA MigrationType ==
    ASSUME TypeOK, MigrateBegin \/ MigrateAdd \/ MigrateEnd
    PROVE  TypeOK'
<1>1. CASE MigrateBegin
  <2>1. rules' \in Table /\ saved' \in Table \cup {NoTransaction}
    BY <1>1, BeginTypes DEF MigrateBegin
  <2> QED  BY <1>1, <2>1 DEF TypeOK, MigrateBegin, caches, counts
<1>2. CASE MigrateAdd
  <2>1. rules' \in Table /\ saved' \in Table \cup {NoTransaction} /\ notices' \in Nat
    <3>1. Asked(Legacy) \in SUBSET Name /\ \A n \in Asked(Legacy) : Legacy[n] \in Action
      BY LegacyAssumption DEF Asked
    <3> QED  BY <1>2, <3>1, AddRulesTypes, ManifestSource DEF MigrateAdd
  <2> QED  BY <1>2, <2>1 DEF TypeOK, MigrateAdd, caches, counts
<1>3. CASE MigrateEnd
  <2>1. rules' \in Table /\ saved' \in Table \cup {NoTransaction} /\ notices' \in Nat
    <3>1. CASE CommitTransaction
      BY <3>1, CommitTypes
    <3>2. CASE RollbackTransaction /\ UNCHANGED notices
      BY <3>2 DEF TypeOK, RollbackTransaction, InTransaction
    <3> QED  BY <1>3, <3>1, <3>2 DEF MigrateEnd
  <2> QED  BY <1>3, <2>1 DEF TypeOK, MigrateEnd, caches, counts
<1> QED  BY <1>1, <1>2, <1>3

LEMMA ImportType ==
    ASSUME TypeOK, NEW i \in Import, ImportStep(i)
    PROVE  TypeOK'
<1> DEFINE One == [phase: {"idle", "add", "insert", "commit"}, manifest: [Name -> Action],
                   todo: SUBSET Name, batch: SUBSET Name]
<1>1. imports[i] \in One
  BY DEF TypeOK
<1>2. ASSUME NEW next \in One, SetImport(i, next)
      PROVE  imports' \in Imports
  BY <1>2 DEF TypeOK, SetImport, Imports
<1>3. ASSUME NEW m \in Manifests, ImportBegin(i, m)
      PROVE  TypeOK'
  <2>1. [phase |-> "add", manifest |-> m, todo |-> Asked(m), batch |-> {}] \in One
    BY ManifestsAssumption DEF Asked
  <2>2. imports' \in Imports
    BY <1>2, <1>3, <2>1 DEF ImportBegin
  <2>3. rules' \in Table
    BY <1>3, WithoutIsTable DEF TypeOK, ImportBegin
  <2> QED  BY <1>3, <2>2, <2>3 DEF TypeOK, ImportBegin, Imports, caches, startup, counts
<1>4. CASE BatchBegin(i)
  <2>1. imports' \in Imports
    <3>1. PICK b \in SUBSET imports[i].todo :
              SetImport(i, [imports[i] EXCEPT
                               !.phase = IF InTransaction THEN "add" ELSE "insert",
                               !.batch = IF InTransaction THEN {} ELSE b,
                               !.todo = @ \ b])
      BY <1>4 DEF BatchBegin
    <3>2. [imports[i] EXCEPT !.phase = IF InTransaction THEN "add" ELSE "insert",
                             !.batch = IF InTransaction THEN {} ELSE b,
                             !.todo = @ \ b] \in One
      BY <1>1
    <3> QED  BY <1>2, <3>1, <3>2
  <2>2. rules' \in Table /\ saved' \in Table \cup {NoTransaction}
    BY <1>4, BeginTypes DEF BatchBegin
  <2>3. databaseQueue' \in Import \cup {Free}
    BY <1>4 DEF BatchBegin
  <2> QED  BY <1>4, <2>1, <2>2, <2>3 DEF TypeOK, BatchBegin, Imports, caches, startup, counts
<1>5. CASE BatchInsert(i)
  <2>1. imports' \in Imports
    <3>1. [imports[i] EXCEPT !.phase = "commit"] \in One
      BY <1>1
    <3> QED  BY <1>2, <1>5, <3>1 DEF BatchInsert
  <2>2. rules' \in Table
    <3>1. /\ imports[i].batch \in SUBSET Name
          /\ \A n \in imports[i].batch : imports[i].manifest[n] \in Action
      BY <1>1
    <3>2. Inserted(imports[i].batch, imports[i].manifest, "manifest") \in Table
      BY <3>1, InsertedIsTable, ManifestSource DEF TypeOK
    <3> QED  BY <1>5, <3>2 DEF BatchInsert
  <2> QED  BY <1>5, <2>1, <2>2 DEF TypeOK, BatchInsert, Imports, caches, startup, counts
<1>6. CASE BatchCommit(i)
  <2>1. imports' \in Imports
    <3>1. [imports[i] EXCEPT !.phase = "add", !.batch = {}] \in One
      BY <1>1
    <3> QED  BY <1>2, <1>6, <3>1 DEF BatchCommit
  <2>2. rules' \in Table /\ saved' \in Table \cup {NoTransaction} /\ notices' \in Nat
    BY <1>6, CommitTypes DEF BatchCommit
  <2> QED  BY <1>6, <2>1, <2>2 DEF TypeOK, BatchCommit, Imports, caches, startup, counts
<1>7. CASE ImportEnd(i)
  <2>1. Idle \in One
    BY DEF Idle, Action
  <2>2. imports' \in Imports
    BY <1>2, <1>7, <2>1 DEF ImportEnd
  <2> QED  BY <1>7, <2>2 DEF TypeOK, ImportEnd, Imports, table, caches, startup, counts
<1> QED  BY <1>3, <1>4, <1>5, <1>6, <1>7 DEF ImportStep

LEMMA RestType ==
    ASSUME TypeOK, DeliverBegin \/ DeliverRemove \/ DeliverRaise \/ Recover \/ Restart
    PROVE  TypeOK'
<1>1. CASE DeliverBegin
  <2>1. rules' \in Table /\ saved' \in Table \cup {NoTransaction}
    BY <1>1, BeginTypes DEF DeliverBegin
  <2> QED  BY <1>1, <2>1 DEF TypeOK, DeliverBegin, caches, startup, counts
<1>2. CASE DeliverRemove
  <2>1. rules' \in Table
    BY <1>2, WithoutIsTable DEF TypeOK, DeliverRemove
  <2> QED  BY <1>2, <2>1 DEF TypeOK, DeliverRemove, caches, startup, counts
<1>3. CASE DeliverRaise
  BY <1>3, StartTypes, DiskIsTable DEF DeliverRaise
<1>4. CASE Recover
  <2>1. imports' \in Imports
    <3>1. \A i \in Import : [imports[i] EXCEPT !.phase = "add"] \in
              [phase: {"idle", "add", "insert", "commit"}, manifest: [Name -> Action],
               todo: SUBSET Name, batch: SUBSET Name]
      BY DEF TypeOK
    <3> QED  BY <1>4, <3>1 DEF TypeOK, Recover, Imports
  <2>2. faults' \in Nat /\ databaseQueue' \in Import \cup {Free}
    BY <1>4 DEF TypeOK, Recover
  <2> QED  BY <1>4, <2>1, <2>2, EmptyIsTable DEF TypeOK, Recover, Imports, caches, startup
<1>5. CASE Restart
  BY <1>5, StartTypes, DiskIsTable DEF Restart
<1> QED  BY <1>1, <1>2, <1>3, <1>4, <1>5

LEMMA TypeStep == TypeOK /\ [Next]_vars => TypeOK'
<1> SUFFICES ASSUME TypeOK, [Next]_vars PROVE TypeOK'
  OBVIOUS
<1>1. ASSUME NEW n \in Name, NameStep(n)
      PROVE  TypeOK'
  BY <1>1, QueriesType, UserType DEF NameStep
<1>2. ASSUME NEW i \in Import, ImportStep(i)
      PROVE  TypeOK'
  BY <1>2, ImportType
<1>3. CASE UNCHANGED vars
  BY <1>3 DEF TypeOK, vars
<1> QED  BY <1>1, <1>2, <1>3, QueriesType, CachesType, MigrationType, RestType DEF Next

\* The variables keep their types: an import holds the database with a batch of
\* names, and the caches hold actions and names (DNSRuleDatabase.m, DNSRuleCache.m).
THEOREM TypeCorrect == Spec => []TypeOK
<1> QED  BY TypeInit, TypeStep, PTL DEF Spec

-----------------------------------------------------------------------------
(* Whose transaction it is *)

\* The migration's states are those of its block on dnsQueue.
MigrationInv == migration \in {"begun", "added", "failed"} => dnsQueue = "migrate"

\* At most one lookup is on dnsQueue, and dnsQueue waits for it.
LookupInv ==
    /\ \A l \in lookups : l.via = "udp" => dnsQueue = "lookup"
    /\ \A l, k \in lookups : l.via = "udp" /\ k.via = "udp" => l = k

\* An import that has begun an addRules holds databaseQueue.
HolderInv == \A i \in Import : imports[i].phase \in {"insert", "commit"} => databaseQueue = i

OwnInv == MigrationInv /\ LookupInv /\ HolderInv /\ TransactionOwned

LEMMA OwnInit == Init => OwnInv
BY DEF Init, OwnInv, MigrationInv, LookupInv, HolderInv, TransactionOwned, InTransaction, Idle

LEMMA StartOwn ==
    ASSUME NEW disk, StartWith(disk)
    PROVE  OwnInv'
<1>1. MigrationInv' /\ LookupInv'
  BY DEF StartWith, MigrationInv, LookupInv
<1>2. HolderInv'
  BY DEF StartWith, HolderInv, Idle
<1>3. TransactionOwned'
  BY DEF StartWith, TransactionOwned, InTransaction
<1> QED  BY <1>1, <1>2, <1>3 DEF OwnInv

LEMMA QueriesOwn ==
    ASSUME TypeOK, OwnInv,
           \/ AskUdp \/ AskTcp \/ (\E l \in lookups : Decide(l))
           \/ \E n \in Name : Answer(n) \/ Drop(n) \/ ExpireRule(n) \/ ExpireAnswer(n)
    PROVE  OwnInv'
<1>1. ASSUME Turn, NEW n \in Name, Ask(n, "udp")
      PROVE  OwnInv'
  <2>1. LookupInv'
    <3>1. \A l \in lookups : l.via # "udp"
      BY <1>1 DEF OwnInv, LookupInv, Turn
    <3>2. \/ UNCHANGED <<lookups, dnsQueue>>
          \/ /\ lookups' = lookups \cup {[name |-> n, action |-> rules[n].action, via |-> "udp"]}
             /\ dnsQueue' = "lookup"
      BY <1>1 DEF Ask
    <3> QED  BY <3>1, <3>2 DEF OwnInv, LookupInv
  <2>2. MigrationInv' /\ TransactionOwned'
    BY <1>1 DEF OwnInv, MigrationInv, TransactionOwned, InTransaction, Turn, Ask, table, startup
  <2>3. HolderInv'
    BY <1>1 DEF OwnInv, HolderInv, Ask
  <2> QED  BY <2>1, <2>2, <2>3 DEF OwnInv
<1>2. ASSUME NEW n \in Name, Ask(n, "tcp")
      PROVE  OwnInv'
  <2>1. LookupInv'
    <3>1. /\ lookups' \in {lookups, lookups \cup {[name |-> n, action |-> rules[n].action, via |-> "tcp"]}}
          /\ dnsQueue' = dnsQueue
      BY <1>2 DEF Ask
    <3> QED  BY <3>1 DEF OwnInv, LookupInv
  <2>2. MigrationInv' /\ TransactionOwned'
    BY <1>2 DEF OwnInv, MigrationInv, TransactionOwned, InTransaction, Ask, table, startup
  <2>3. HolderInv'
    BY <1>2 DEF OwnInv, HolderInv, Ask
  <2> QED  BY <2>1, <2>2, <2>3 DEF OwnInv
<1>3. ASSUME NEW l \in lookups, Decide(l)
      PROVE  OwnInv'
  <2>1. /\ lookups' = lookups \ {l}
        /\ dnsQueue' = IF l.via = "udp" THEN "idle" ELSE dnsQueue
        /\ UNCHANGED <<rules, saved, databaseQueue, imports, migration>>
    BY <1>3 DEF Decide, table, startup
  <2>2. LookupInv'
    BY <2>1 DEF OwnInv, LookupInv
  <2>3. l.via = "udp" => dnsQueue = "lookup"
    BY DEF OwnInv, LookupInv
  <2>4. MigrationInv'
    BY <2>1, <2>3 DEF OwnInv, MigrationInv
  <2>5. TransactionOwned'
    BY <2>1, <2>3 DEF OwnInv, TransactionOwned, InTransaction
  <2>6. HolderInv'
    BY <2>1 DEF OwnInv, HolderInv
  <2> QED  BY <2>2, <2>4, <2>5, <2>6 DEF OwnInv
<1>4. ASSUME NEW n \in Name, Answer(n) \/ Drop(n) \/ ExpireRule(n) \/ ExpireAnswer(n)
      PROVE  OwnInv'
  <2>1. UNCHANGED <<saved, databaseQueue, dnsQueue, imports, lookups, migration>>
    BY <1>4 DEF Answer, Drop, ExpireRule, ExpireAnswer, table, startup
  <2> QED  BY <2>1 DEF OwnInv, MigrationInv, LookupInv, HolderInv, TransactionOwned, InTransaction
<1>5. CASE AskUdp
  BY <1>1, <1>5 DEF AskUdp
<1>6. CASE AskTcp
  BY <1>2, <1>6, TcpAssumption DEF AskTcp
<1> QED  BY <1>3, <1>4, <1>5, <1>6

LEMMA CachesOwn ==
    ASSUME OwnInv, ClearCaches \/ HandleDatabaseChange \/ WarmCache \/ PeriodicMaintenance
    PROVE  OwnInv'
<1>1. UNCHANGED <<saved, databaseQueue, dnsQueue, imports, lookups, migration>>
  BY DEF ClearCaches, HandleDatabaseChange, WarmCache, PeriodicMaintenance, table, startup
<1> QED  BY <1>1 DEF OwnInv, MigrationInv, LookupInv, HolderInv, TransactionOwned, InTransaction

LEMMA UserOwn ==
    ASSUME OwnInv, NEW n \in Name,
           RemoveUserDomain(n) \/ \E action \in {"block", "allow"} : AddUserDomain(n, action)
    PROVE  OwnInv'
<1>1. UNCHANGED <<saved, databaseQueue, dnsQueue, imports, lookups, migration>>
  BY DEF RemoveUserDomain, AddUserDomain, AddRules, startup
<1> QED  BY <1>1 DEF OwnInv, MigrationInv, LookupInv, HolderInv, TransactionOwned, InTransaction

LEMMA MigrationOwn ==
    ASSUME OwnInv, MigrateBegin \/ MigrateAdd \/ MigrateEnd
    PROVE  OwnInv'
<1>1. CASE MigrateBegin
  <2>1. dnsQueue = "idle" /\ dnsQueue' = "migrate" /\ UNCHANGED <<databaseQueue, imports, lookups>>
    BY <1>1 DEF MigrateBegin
  <2>2. LookupInv'
    BY <2>1 DEF OwnInv, LookupInv
  <2> QED  BY <2>1, <2>2 DEF OwnInv, MigrationInv, HolderInv, TransactionOwned
<1>2. CASE MigrateAdd
  <2>1. UNCHANGED <<saved, databaseQueue, dnsQueue, imports, lookups>>
    BY <1>2 DEF MigrateAdd, AddRules
  <2>2. MigrationInv'
    BY <1>2, <2>1 DEF OwnInv, MigrationInv, MigrateAdd
  <2> QED  BY <2>1, <2>2 DEF OwnInv, LookupInv, HolderInv, TransactionOwned, InTransaction
<1>3. CASE MigrateEnd
  <2>1. /\ dnsQueue = "migrate" /\ dnsQueue' = "idle" /\ migration' = "no"
        /\ UNCHANGED <<databaseQueue, imports, lookups>>
    BY <1>3 DEF OwnInv, MigrationInv, MigrateEnd
  <2>2. saved' = NoTransaction
    BY <1>3 DEF MigrateEnd, CommitTransaction, RollbackTransaction
  <2>3. LookupInv'
    BY <2>1 DEF OwnInv, LookupInv
  <2> QED  BY <2>1, <2>2, <2>3 DEF OwnInv, MigrationInv, HolderInv, TransactionOwned, InTransaction
<1> QED  BY <1>1, <1>2, <1>3

LEMMA ImportOwn ==
    ASSUME TypeOK, OwnInv, NEW i \in Import, ImportStep(i)
    PROVE  OwnInv'
<1>0. i # Free
  BY ImportAssumption
<1>1. UNCHANGED <<dnsQueue, lookups, migration>>
  BY DEF ImportStep, ImportBegin, BatchBegin, BatchInsert, BatchCommit, ImportEnd, startup
<1>2. MigrationInv' /\ LookupInv'
  BY <1>1 DEF OwnInv, MigrationInv, LookupInv
<1>3. ASSUME NEW next, SetImport(i, next)
      PROVE  /\ imports'[i] = next
             /\ \A j \in Import : j # i => imports'[j] = imports[j]
  BY <1>3 DEF TypeOK, SetImport
<1>4. ASSUME NEW m \in Manifests, ImportBegin(i, m)
      PROVE  HolderInv' /\ TransactionOwned'
  <2>1. imports'[i].phase = "add" /\ \A j \in Import : j # i => imports'[j] = imports[j]
    BY <1>3, <1>4 DEF ImportBegin
  <2> QED  BY <1>1, <1>4, <2>1 DEF OwnInv, HolderInv, TransactionOwned, InTransaction, ImportBegin
<1>5. CASE BatchBegin(i)
  <2>1. \A j \in Import : imports[j].phase \notin {"insert", "commit"}
    BY <1>5, ImportAssumption DEF OwnInv, HolderInv, BatchBegin
  <2>2. PICK b \in SUBSET imports[i].todo :
            SetImport(i, [imports[i] EXCEPT
                             !.phase = IF InTransaction THEN "add" ELSE "insert",
                             !.batch = IF InTransaction THEN {} ELSE b,
                             !.todo = @ \ b])
    BY <1>5 DEF BatchBegin
  <2>3. imports'[i].phase = IF InTransaction THEN "add" ELSE "insert"
    <3>1. imports[i] \in [phase: {"idle", "add", "insert", "commit"}, manifest: [Name -> Action],
                          todo: SUBSET Name, batch: SUBSET Name]
      BY DEF TypeOK
    <3>2. imports'[i] = [imports[i] EXCEPT
                             !.phase = IF InTransaction THEN "add" ELSE "insert",
                             !.batch = IF InTransaction THEN {} ELSE b,
                             !.todo = @ \ b]
      BY <1>3, <2>2
    <3> QED  BY <3>1, <3>2
  <2>4. \A j \in Import : j # i => imports'[j] = imports[j]
    BY <1>3, <2>2
  <2>5. databaseQueue' = IF InTransaction THEN Free ELSE i
    BY <1>5 DEF BatchBegin
  <2>6. HolderInv'
    BY <2>1, <2>3, <2>4, <2>5 DEF HolderInv
  <2>7. TransactionOwned'
    <3>1. CASE InTransaction
      <4>1. saved' = saved /\ databaseQueue' = databaseQueue
        BY <1>5, <2>5, <3>1 DEF BatchBegin, BeginTransaction
      <4> QED  BY <1>1, <4>1 DEF OwnInv, TransactionOwned, InTransaction
    <3>2. CASE ~InTransaction
      BY <1>0, <2>5, <3>2 DEF TransactionOwned
    <3> QED  BY <3>1, <3>2
  <2> QED  BY <1>2, <2>6, <2>7 DEF OwnInv
<1>6. CASE BatchInsert(i)
  <2>1. /\ imports[i].phase = "insert"
        /\ imports'[i] = [imports[i] EXCEPT !.phase = "commit"]
        /\ \A j \in Import : j # i => imports'[j] = imports[j]
        /\ UNCHANGED <<saved, databaseQueue>>
    BY <1>3, <1>6 DEF BatchInsert
  <2> QED  BY <1>1, <1>2, <2>1 DEF OwnInv, HolderInv, TransactionOwned, InTransaction
<1>7. CASE BatchCommit(i)
  <2>1. /\ imports[i].phase = "commit" /\ saved' = NoTransaction
        /\ imports'[i] = [imports[i] EXCEPT !.phase = "add", !.batch = {}]
        /\ \A j \in Import : j # i => imports'[j] = imports[j]
    BY <1>3, <1>7 DEF BatchCommit, CommitTransaction
  <2>2. imports'[i].phase = "add"
    <3>1. imports[i] \in [phase: {"idle", "add", "insert", "commit"}, manifest: [Name -> Action],
                          todo: SUBSET Name, batch: SUBSET Name]
      BY DEF TypeOK
    <3> QED  BY <2>1, <3>1
  <2>3. \A j \in Import : j # i => imports[j].phase \notin {"insert", "commit"}
    BY <2>1 DEF OwnInv, HolderInv
  <2> QED  BY <1>2, <2>1, <2>2, <2>3 DEF OwnInv, HolderInv, TransactionOwned, InTransaction
<1>8. CASE ImportEnd(i)
  <2>1. /\ imports'[i] = Idle
        /\ \A j \in Import : j # i => imports'[j] = imports[j]
        /\ UNCHANGED <<saved, databaseQueue>>
    BY <1>3, <1>8 DEF ImportEnd, table
  <2> QED  BY <1>1, <1>2, <2>1 DEF OwnInv, HolderInv, TransactionOwned, InTransaction, Idle
<1> QED  BY <1>2, <1>4, <1>5, <1>6, <1>7, <1>8 DEF ImportStep, OwnInv

LEMMA RestOwn ==
    ASSUME TypeOK, OwnInv, DeliverBegin \/ DeliverRemove \/ DeliverRaise \/ Recover \/ Restart
    PROVE  OwnInv'
<1>1. CASE DeliverBegin \/ DeliverRemove
  <2>1. /\ dnsQueue' \in {"deliver", "delivered"} /\ dnsQueue \in {"idle", "deliver"}
        /\ UNCHANGED <<databaseQueue, imports, lookups, migration>>
    BY <1>1 DEF DeliverBegin, DeliverRemove, Turn, startup
  <2>2. LookupInv' /\ MigrationInv'
    BY <2>1 DEF OwnInv, LookupInv, MigrationInv
  <2> QED  BY <2>1, <2>2 DEF OwnInv, HolderInv, TransactionOwned
<1>2. CASE DeliverRaise
  BY <1>2, StartOwn DEF DeliverRaise
<1>3. CASE Recover
  <2>1. saved' = NoTransaction /\ UNCHANGED <<dnsQueue, lookups, migration>>
    BY <1>3 DEF Recover, startup
  <2>2. ASSUME NEW i \in Import, imports'[i].phase \in {"insert", "commit"}
        PROVE  databaseQueue' = i
    <3>1. imports'[i] = IF imports[i].phase = "insert"
                        THEN [imports[i] EXCEPT !.phase = "add"] ELSE imports[i]
      BY <1>3 DEF Recover
    <3>2. imports[i] \in [phase: {"idle", "add", "insert", "commit"}, manifest: [Name -> Action],
                          todo: SUBSET Name, batch: SUBSET Name]
      BY DEF TypeOK
    <3>3. imports[i].phase = "commit"
      BY <2>2, <3>1, <3>2
    <3>4. databaseQueue = i
      BY <3>3 DEF OwnInv, HolderInv
    <3>5. \A j \in Import : imports[j].phase # "insert"
      BY <3>3, <3>4 DEF OwnInv, HolderInv
    <3> QED  BY <1>3, <3>4, <3>5 DEF Recover
  <2>3. HolderInv'
    BY <2>2 DEF HolderInv
  <2> QED  BY <2>1, <2>3 DEF OwnInv, LookupInv, MigrationInv, TransactionOwned, InTransaction
<1>4. CASE Restart
  BY <1>4, StartOwn DEF Restart
<1> QED  BY <1>1, <1>2, <1>3, <1>4

LEMMA OwnStep == TypeOK /\ OwnInv /\ [Next]_vars => OwnInv'
<1> SUFFICES ASSUME TypeOK, OwnInv, [Next]_vars PROVE OwnInv'
  OBVIOUS
<1>1. ASSUME NEW n \in Name, NameStep(n)
      PROVE  OwnInv'
  BY <1>1, QueriesOwn, UserOwn DEF NameStep
<1>2. ASSUME NEW i \in Import, ImportStep(i)
      PROVE  OwnInv'
  BY <1>2, ImportOwn
<1>3. CASE UNCHANGED vars
  BY <1>3 DEF vars, OwnInv, MigrationInv, LookupInv, HolderInv, TransactionOwned, InTransaction
<1> QED  BY <1>1, <1>2, <1>3, QueriesOwn, CachesOwn, MigrationOwn, RestOwn DEF Next

\* No transaction is left open on the shared connection, whichever threads begin,
\* commit and roll back on it, and wherever an I/O error or the end of the process
\* comes (DNSRuleDatabase.m, beginTransaction and its callers).
THEOREM NoneLeftOpen == Spec => []TransactionOwned
<1>1. Init => TypeOK /\ OwnInv
  BY TypeInit, OwnInit
<1>2. TypeOK /\ OwnInv /\ [Next]_vars => (TypeOK /\ OwnInv)'
  BY TypeStep, OwnStep
<1>3. OwnInv => TransactionOwned
  BY DEF OwnInv
<1> QED  BY <1>1, <1>2, <1>3, PTL DEF Spec

-----------------------------------------------------------------------------
(* What a rollback gives back *)

\* The user's rules are the same in the table and in what a rollback or a restart
\* puts in its place: nothing that runs inside a transaction makes or changes one.
SavedInv == InTransaction => \A n \in Name : rules[n].source = "user" => saved[n] = rules[n]

LEMMA UserNotInTransaction ==
    ASSUME OwnInv, UserMayChange
    PROVE  ~InTransaction
BY DEF OwnInv, TransactionOwned, UserMayChange, Turn

\* A step that leaves the open transaction alone and gives no name a user's rule.
LEMMA KeptSaved ==
    ASSUME SavedInv, saved' = saved,
           \A n \in Name : rules'[n].source = "user" => rules'[n] = rules[n]
    PROVE  SavedInv'
BY DEF SavedInv, InTransaction

LEMMA BegunSaved ==
    ASSUME SavedInv, BeginTransaction
    PROVE  SavedInv'
BY DEF SavedInv, InTransaction, BeginTransaction

LEMMA ClosedSaved ==
    ASSUME saved' = NoTransaction
    PROVE  SavedInv'
BY DEF SavedInv, InTransaction

LEMMA WithoutKeepsUsers ==
    ASSUME NEW n \in Name, NEW src
    PROVE  /\ rules[n].source # src => Without(src)[n] = rules[n]
           /\ Without(src)[n].source = "user" => Without(src)[n] = rules[n]
BY DEF Without, NoRule

LEMMA InsertedKeepsUsers ==
    ASSUME NEW n \in Name, NEW names, NEW m, NEW src, src # "user"
    PROVE  /\ n \notin names => Inserted(names, m, src)[n] = rules[n]
           /\ Inserted(names, m, src)[n].source = "user" => Inserted(names, m, src)[n] = rules[n]
BY DEF Inserted

\* The steps that write the table neither for the user nor after an I/O error.
Writes == \/ MigrateBegin \/ MigrateAdd \/ MigrateEnd
          \/ \E i \in Import : ImportStep(i)
          \/ DeliverBegin \/ DeliverRemove \/ DeliverRaise \/ Restart

LEMMA WritesSaved ==
    ASSUME TypeOK, SavedInv, Writes
    PROVE  SavedInv'
<1>1. CASE MigrateBegin \/ DeliverBegin
  BY <1>1, BegunSaved DEF MigrateBegin, DeliverBegin
<1>2. CASE MigrateAdd
  <2>1. saved' = saved
    BY <1>2 DEF MigrateAdd, AddRules
  <2>2. rules' \in {rules, Inserted(Asked(Legacy), Legacy, "system")}
    BY <1>2 DEF MigrateAdd, AddRules
  <2>3. \A n \in Name : rules'[n].source = "user" => rules'[n] = rules[n]
    BY <2>2, InsertedKeepsUsers
  <2> QED  BY <2>1, <2>3, KeptSaved
<1>3. CASE MigrateEnd
  BY <1>3, ClosedSaved DEF MigrateEnd, CommitTransaction, RollbackTransaction
<1>4. CASE DeliverRaise \/ Restart
  BY <1>4, ClosedSaved DEF DeliverRaise, Restart, StartWith
<1>5. CASE DeliverRemove
  <2>1. saved' = saved /\ rules' = Without("manifest")
    BY <1>5 DEF DeliverRemove
  <2> QED  BY <2>1, KeptSaved, WithoutKeepsUsers
<1>6. ASSUME NEW i \in Import, ImportStep(i)
      PROVE  SavedInv'
  <2>1. ASSUME NEW m \in Manifests, ImportBegin(i, m)
        PROVE  SavedInv'
    <3>1. saved' = saved /\ rules' = Without("manifest")
      BY <2>1 DEF ImportBegin
    <3> QED  BY <3>1, KeptSaved, WithoutKeepsUsers
  <2>2. CASE BatchBegin(i)
    BY <2>2, BegunSaved DEF BatchBegin
  <2>3. CASE BatchInsert(i)
    <3>1. saved' = saved /\ rules' = Inserted(imports[i].batch, imports[i].manifest, "manifest")
      BY <2>3 DEF BatchInsert
    <3>2. \A n \in Name : rules'[n].source = "user" => rules'[n] = rules[n]
      BY <3>1, InsertedKeepsUsers
    <3> QED  BY <3>1, <3>2, KeptSaved
  <2>4. CASE BatchCommit(i)
    BY <2>4, ClosedSaved DEF BatchCommit, CommitTransaction
  <2>5. CASE ImportEnd(i)
    <3>1. saved' = saved /\ rules' = rules
      BY <2>5 DEF ImportEnd, table
    <3> QED  BY <3>1, KeptSaved
  <2> QED  BY <1>6, <2>1, <2>2, <2>3, <2>4, <2>5 DEF ImportStep
<1> QED  BY <1>1, <1>2, <1>3, <1>4, <1>5, <1>6 DEF Writes

\* Every other step leaves the table alone, or is the user's, or meets an error.
LEMMA StepKinds ==
    ASSUME [Next]_vars
    PROVE  \/ UNCHANGED <<rules, saved>>
           \/ Writes
           \/ \E n \in Name : \/ RemoveUserDomain(n)
                              \/ \E action \in {"block", "allow"} : AddUserDomain(n, action)
           \/ Recover
<1>1. ASSUME \/ AskUdp \/ AskTcp \/ (\E l \in lookups : Decide(l))
             \/ ClearCaches \/ HandleDatabaseChange \/ WarmCache \/ PeriodicMaintenance
      PROVE  UNCHANGED <<rules, saved>>
  BY <1>1 DEF AskUdp, AskTcp, Ask, Decide, ClearCaches, HandleDatabaseChange, WarmCache,
              PeriodicMaintenance, table
<1>2. ASSUME NEW n \in Name, Answer(n) \/ Drop(n) \/ ExpireRule(n) \/ ExpireAnswer(n)
      PROVE  UNCHANGED <<rules, saved>>
  BY <1>2 DEF Answer, Drop, ExpireRule, ExpireAnswer, table
<1>3. CASE UNCHANGED vars
  BY <1>3 DEF vars
<1>4. ASSUME NEW n \in Name, NameStep(n)
      PROVE  \/ UNCHANGED <<rules, saved>>
             \/ RemoveUserDomain(n)
             \/ \E action \in {"block", "allow"} : AddUserDomain(n, action)
  BY <1>2, <1>4 DEF NameStep
<1> QED  BY <1>1, <1>3, <1>4 DEF Next, Writes

LEMMA SavedStep == TypeOK /\ OwnInv /\ SavedInv /\ [Next]_vars => SavedInv'
<1> SUFFICES ASSUME TypeOK, OwnInv, SavedInv, [Next]_vars PROVE SavedInv'
  OBVIOUS
<1>1. CASE UNCHANGED <<rules, saved>>
  BY <1>1 DEF SavedInv, InTransaction
<1>2. ASSUME NEW n \in Name,
             RemoveUserDomain(n) \/ \E action \in {"block", "allow"} : AddUserDomain(n, action)
      PROVE  SavedInv'
  <2>1. UserMayChange /\ saved' = saved
    BY <1>2 DEF RemoveUserDomain, AddUserDomain, AddRules
  <2>2. saved' = NoTransaction
    BY <2>1, UserNotInTransaction DEF InTransaction
  <2> QED  BY <2>2, ClosedSaved
<1>3. CASE Recover
  BY <1>3, ClosedSaved DEF Recover
<1> QED  BY <1>1, <1>2, <1>3, WritesSaved, StepKinds

\* A user's rule goes only by the user's own hand, by an import or old lists that
\* name its domain, or with the database.
SurvivesStep(n) ==
    (/\ rules[n].source = "user"
     /\ rules'[n] # rules[n]
     /\ \A i \in Import : n \notin imports[i].batch
     /\ Legacy[n] = "none")
    => userChanges' # userChanges \/ faults' # faults

LEMMA WritesSurvive ==
    ASSUME TypeOK, SavedInv, Writes, NEW n \in Name, rules[n].source = "user",
           \A i \in Import : n \notin imports[i].batch, Legacy[n] = "none"
    PROVE  rules'[n] = rules[n]
<1>1. (IF InTransaction THEN saved ELSE rules)[n] = rules[n]
  BY DEF SavedInv
<1>2. CASE MigrateBegin \/ DeliverBegin
  BY <1>2 DEF MigrateBegin, DeliverBegin, BeginTransaction
<1>3. CASE MigrateAdd
  <2>1. rules' \in {rules, Inserted(Asked(Legacy), Legacy, "system")}
    BY <1>3 DEF MigrateAdd, AddRules
  <2>2. n \notin Asked(Legacy)
    BY DEF Asked
  <2> QED  BY <2>1, <2>2, InsertedKeepsUsers
<1>4. CASE MigrateEnd
  <2>1. rules' \in {rules, IF InTransaction THEN saved ELSE rules}
    BY <1>4 DEF MigrateEnd, CommitTransaction, RollbackTransaction
  <2> QED  BY <1>1, <2>1
<1>5. CASE DeliverRaise \/ Restart
  <2>1. rules' = IF InTransaction THEN saved ELSE rules
    BY <1>5 DEF DeliverRaise, Restart, StartWith
  <2> QED  BY <1>1, <2>1
<1>6. CASE DeliverRemove
  BY <1>6, WithoutKeepsUsers DEF DeliverRemove
<1>7. ASSUME NEW i \in Import, ImportStep(i)
      PROVE  rules'[n] = rules[n]
  <2>1. \/ rules' = rules
        \/ rules' = Without("manifest")
        \/ rules' = Inserted(imports[i].batch, imports[i].manifest, "manifest")
    BY <1>7 DEF ImportStep, ImportBegin, BatchBegin, BatchInsert, BatchCommit, ImportEnd,
                BeginTransaction, CommitTransaction, table
  <2> QED  BY <2>1, WithoutKeepsUsers, InsertedKeepsUsers
<1> QED  BY <1>2, <1>3, <1>4, <1>5, <1>6, <1>7 DEF Writes

LEMMA Survives ==
    ASSUME TypeOK, SavedInv, [Next]_vars, NEW n \in Name
    PROVE  SurvivesStep(n)
<1>1. CASE UNCHANGED <<rules, saved>>
  BY <1>1 DEF SurvivesStep
<1>2. CASE Writes
  BY <1>2, WritesSurvive DEF SurvivesStep
<1>3. ASSUME NEW k \in Name,
             RemoveUserDomain(k) \/ \E action \in {"block", "allow"} : AddUserDomain(k, action)
      PROVE  userChanges' # userChanges
  <2>1. userChanges' = userChanges + 1
    BY <1>3 DEF RemoveUserDomain, AddUserDomain, UserMayChange
  <2> QED  BY <2>1 DEF TypeOK
<1>4. CASE Recover
  <2>1. faults' = faults + 1
    BY <1>4 DEF Recover
  <2>2. faults' # faults
    BY <2>1 DEF TypeOK
  <2> QED  BY <2>2 DEF SurvivesStep
<1> QED  BY <1>1, <1>2, <1>3, <1>4, StepKinds DEF SurvivesStep

\* No rollback, restart, delivery or removal of managed rules takes a user's rule
\* along (DNSRuleDatabase.m; Migration.m, Delegates.m, ConfigurationManager.m).
THEOREM UsersKeepTheirRules == Spec => UserRulesSurvive
<1>1. Init => TypeOK /\ OwnInv /\ SavedInv
  BY TypeInit, OwnInit DEF Init, SavedInv, InTransaction
<1>2. TypeOK /\ OwnInv /\ SavedInv /\ [Next]_vars => (TypeOK /\ OwnInv /\ SavedInv)'
  BY TypeStep, OwnStep, SavedStep
<1>3. TypeOK /\ SavedInv /\ [Next]_vars =>
        [\A n \in Name :
            (/\ rules[n].source = "user"
             /\ rules'[n] # rules[n]
             /\ \A i \in Import : n \notin imports[i].batch
             /\ Legacy[n] = "none")
            => userChanges' # userChanges \/ faults' # faults]_vars
  BY Survives DEF SurvivesStep
<1> QED  BY <1>1, <1>2, <1>3, PTL DEF Spec, UserRulesSurvive

-----------------------------------------------------------------------------
(* What the rule cache says *)

\* The names that are only asked over UDP: one lookup at a time, on dnsQueue.
UdpNames == Name \ TcpNames

\* Neither the cache nor a lookup says anything of those names.
Blank == \A n \in UdpNames : ruleCache[n] = "none" /\ \A l \in lookups : l.name # n

\* What they say is what the table says.
Agrees ==
    \A n \in UdpNames :
        /\ ruleCache[n] # "none" => ruleCache[n] = rules[n].action
        /\ \A l \in lookups : l.name = n /\ l.action # "none" => l.action = rules[n].action

\* A clearing of the caches is still to come: a notice is on its way, an import has
\* a batch left to commit, or a delivery is about to end the process.
Owed ==
    \/ notices > 0
    \/ dnsQueue \in {"deliver", "delivered"}
    \/ \E i \in Import : \/ imports[i].phase \in {"insert", "commit"}
                         \/ imports[i].phase = "add" /\ imports[i].todo # {}

UdpInv == \A l \in lookups : l.name \in UdpNames => l.via = "udp"

MigratingInv == dnsQueue = "migrate" => migration # "no"

\* Nothing is cached before an old installation has been migrated.
UnmigratedInv == migration # "no" => Blank

\* The COMMIT of an import posts a notice, unless the migration has committed in its place.
OpenInv == \A i \in Import : imports[i].phase \in {"insert", "commit"} => InTransaction \/ Blank

FollowInv == UdpInv /\ MigratingInv /\ UnmigratedInv /\ OpenInv /\ (Owed \/ Agrees)

LEMMA BlankFollows ==
    ASSUME Blank', UdpInv', MigratingInv'
    PROVE  FollowInv'
<1>1. UnmigratedInv' /\ OpenInv'
  BY DEF UnmigratedInv, OpenInv
<1>2. Agrees'
  BY DEF Blank, Agrees
<1> QED  BY <1>1, <1>2 DEF FollowInv

LEMMA FollowInit == Init => FollowInv
<1> SUFFICES ASSUME Init PROVE FollowInv
  OBVIOUS
<1>1. Blank
  BY DEF Init, Blank, UdpNames
<1>2. UdpInv /\ MigratingInv
  BY DEF Init, UdpInv, MigratingInv
<1>3. UnmigratedInv /\ OpenInv
  BY <1>1 DEF UnmigratedInv, OpenInv
<1>4. Agrees
  BY <1>1 DEF Blank, Agrees
<1> QED  BY <1>2, <1>3, <1>4 DEF FollowInv

\* What is owed stays owed while nothing it depends on changes.
LEMMA StillOwed ==
    ASSUME Owed, UNCHANGED <<notices, imports>>,
           dnsQueue \in {"deliver", "delivered"} => dnsQueue' = dnsQueue
    PROVE  Owed'
BY DEF Owed

LEMMA IdleHasNoLookup ==
    ASSUME OwnInv, FollowInv, dnsQueue = "idle", NEW n \in UdpNames
    PROVE  \A l \in lookups : l.name # n
BY DEF OwnInv, LookupInv, FollowInv, UdpInv

LEMMA TurnIsMigrated ==
    ASSUME TypeOK, OwnInv, Turn
    PROVE  migration = "no" /\ dnsQueue = "idle"
BY DEF TypeOK, OwnInv, MigrationInv, Turn

LEMMA FreeHoldsNone ==
    ASSUME OwnInv, databaseQueue = Free
    PROVE  \A i \in Import : imports[i].phase \notin {"insert", "commit"}
BY ImportAssumption DEF OwnInv, HolderInv

\* A step that clears the rule cache while dnsQueue is idle.
LEMMA ClearedFollows ==
    ASSUME OwnInv, FollowInv, dnsQueue = "idle",
           ruleCache' = [n \in Name |-> "none"], UNCHANGED <<lookups, dnsQueue>>
    PROVE  FollowInv'
<1>1. Blank'
  BY IdleHasNoLookup DEF Blank, UdpNames
<1>2. UdpInv' /\ MigratingInv'
  BY DEF FollowInv, UdpInv, MigratingInv
<1> QED  BY <1>1, <1>2, BlankFollows

\* A step that caches nothing and changes neither the table nor what is owed.
LEMMA NoneCached ==
    ASSUME FollowInv, UNCHANGED <<rules, saved, imports, notices, dnsQueue, migration, lookups>>,
           \A n \in UdpNames : ruleCache'[n] \in {ruleCache[n], "none"}
    PROVE  FollowInv'
<1>1. Blank => Blank'
  BY DEF Blank
<1>2. UdpInv' /\ MigratingInv' /\ UnmigratedInv'
  BY <1>1 DEF FollowInv, UdpInv, MigratingInv, UnmigratedInv
<1>3. OpenInv'
  BY <1>1 DEF FollowInv, OpenInv, InTransaction
<1>4. Owed => Owed'
  BY StillOwed
<1>5. Agrees => Agrees'
  BY DEF Agrees
<1> QED  BY <1>2, <1>3, <1>4, <1>5 DEF FollowInv

LEMMA AskFollows ==
    ASSUME TypeOK, OwnInv, FollowInv, AskUdp \/ AskTcp
    PROVE  FollowInv'
<1>1. PICK n \in Name, via \in {"udp", "tcp"} :
          /\ Ask(n, via)
          /\ via = "udp" => Turn
          /\ via = "tcp" => n \in TcpNames
  BY TcpAssumption DEF AskUdp, AskTcp
<1>2. UNCHANGED <<rules, saved, imports, notices, ruleCache, migration>>
  BY <1>1 DEF Ask, table, caches, startup
<1>3. CASE UNCHANGED <<lookups, dnsQueue>>
  BY <1>2, <1>3, NoneCached
<1>4. CASE ~UNCHANGED <<lookups, dnsQueue>>
  <2> DEFINE new == [name |-> n, action |-> rules[n].action, via |-> via]
  <2>1. /\ databaseQueue = Free
        /\ lookups' = lookups \cup {new}
        /\ dnsQueue' = IF via = "udp" THEN "lookup" ELSE dnsQueue
    BY <1>1, <1>4 DEF Ask
  <2>2. UdpInv'
    BY <1>1, <2>1 DEF FollowInv, UdpInv, UdpNames
  <2>3. MigratingInv'
    BY <1>1, <1>2, <2>1 DEF FollowInv, MigratingInv
  <2>4. migration # "no" => n \in TcpNames
    BY <1>1, TurnIsMigrated
  <2>5. UnmigratedInv'
    BY <1>2, <2>1, <2>4 DEF FollowInv, UnmigratedInv, Blank, UdpNames
  <2>6. OpenInv'
    BY <1>2, <2>1, FreeHoldsNone DEF OpenInv
  <2>7. Owed => Owed'
    BY <1>1, <1>2, <2>1, StillOwed DEF Turn
  <2>8. Agrees => Agrees'
    BY <1>2, <2>1 DEF Agrees
  <2> QED  BY <2>2, <2>3, <2>5, <2>6, <2>7, <2>8 DEF FollowInv
<1> QED  BY <1>3, <1>4

LEMMA DecideFollows ==
    ASSUME TypeOK, OwnInv, FollowInv, NEW l \in lookups, Decide(l)
    PROVE  FollowInv'
<1>1. /\ lookups' = lookups \ {l}
      /\ ruleCache' = IF l.action = "none" THEN ruleCache
                      ELSE [ruleCache EXCEPT ![l.name] = l.action]
      /\ dnsQueue' = IF l.via = "udp" THEN "idle" ELSE dnsQueue
      /\ UNCHANGED <<rules, saved, imports, notices, migration>>
  BY DEF Decide, table, startup
<1>2. ruleCache \in [Name -> Action] /\ UdpNames \subseteq Name
  BY DEF TypeOK, UdpNames
<1>3. l.via = "udp" => dnsQueue = "lookup"
  BY DEF OwnInv, LookupInv
<1>4. UdpInv' /\ MigratingInv'
  BY <1>1, <1>3 DEF FollowInv, UdpInv, MigratingInv
<1>5. Blank => Blank'
  BY <1>1, <1>2 DEF Blank
<1>6. UnmigratedInv' /\ OpenInv'
  BY <1>1, <1>5 DEF FollowInv, UnmigratedInv, OpenInv, InTransaction
<1>7. Owed => Owed'
  BY <1>1, <1>3, StillOwed
<1>8. Agrees => Agrees'
  BY <1>1, <1>2 DEF Agrees
<1> QED  BY <1>4, <1>6, <1>7, <1>8 DEF FollowInv

LEMMA CachesFollow ==
    ASSUME TypeOK, OwnInv, FollowInv,
           \/ ClearCaches \/ HandleDatabaseChange \/ WarmCache \/ PeriodicMaintenance
           \/ \E n \in Name : Answer(n) \/ Drop(n) \/ ExpireRule(n) \/ ExpireAnswer(n)
    PROVE  FollowInv'
<1>1. CASE HandleDatabaseChange \/ PeriodicMaintenance
  <2>1. /\ dnsQueue = "idle" /\ ruleCache' = [n \in Name |-> "none"]
        /\ UNCHANGED <<lookups, dnsQueue>>
    BY <1>1 DEF HandleDatabaseChange, PeriodicMaintenance, Turn, Cleared
  <2> QED  BY <2>1, ClearedFollows
<1>2. CASE WarmCache
  <2>1. /\ databaseQueue = Free /\ Turn
        /\ UNCHANGED <<rules, saved, imports, notices, dnsQueue, migration, lookups>>
    BY <1>2 DEF WarmCache, table
  <2>2. \A n \in Name : ruleCache'[n] \in {ruleCache[n], rules[n].action}
    BY <1>2 DEF WarmCache
  <2>3. UdpInv' /\ MigratingInv' /\ UnmigratedInv'
    BY <2>1, TurnIsMigrated DEF FollowInv, UdpInv, MigratingInv, UnmigratedInv
  <2>4. OpenInv'
    BY <2>1, FreeHoldsNone DEF OpenInv
  <2>5. Owed => Owed'
    BY <2>1, StillOwed
  <2>6. Agrees => Agrees'
    BY <2>1, <2>2 DEF Agrees, UdpNames
  <2> QED  BY <2>3, <2>4, <2>5, <2>6 DEF FollowInv
<1>3. CASE ClearCaches \/ \E n \in Name : Answer(n) \/ Drop(n) \/ ExpireRule(n) \/ ExpireAnswer(n)
  <2>1. UNCHANGED <<rules, saved, imports, notices, dnsQueue, migration, lookups>>
    BY <1>3 DEF ClearCaches, Answer, Drop, ExpireRule, ExpireAnswer, table, startup
  <2>2. \A n \in UdpNames : ruleCache'[n] \in {ruleCache[n], "none"}
    BY <1>3 DEF ClearCaches, Answer, Drop, ExpireRule, ExpireAnswer, caches, TypeOK, UdpNames
  <2> QED  BY <2>1, <2>2, NoneCached
<1> QED  BY <1>1, <1>2, <1>3

LEMMA UserFollows ==
    ASSUME TypeOK, OwnInv, FollowInv, NEW n \in Name,
           RemoveUserDomain(n) \/ \E action \in {"block", "allow"} : AddUserDomain(n, action)
    PROVE  FollowInv'
<1>1. UserMayChange /\ UNCHANGED <<lookups, dnsQueue>>
  BY DEF RemoveUserDomain, AddUserDomain
<1>2. dnsQueue = "idle" /\ databaseQueue = Free
  BY <1>1 DEF UserMayChange, Turn
<1>3. ~InTransaction
  BY <1>2 DEF OwnInv, TransactionOwned
<1>4. ruleCache' = [x \in Name |-> "none"]
  BY <1>3 DEF RemoveUserDomain, AddUserDomain, Cleared
<1> QED  BY <1>1, <1>2, <1>4, ClearedFollows

LEMMA MigrationFollows ==
    ASSUME TypeOK, OwnInv, FollowInv, MigrateBegin \/ MigrateAdd \/ MigrateEnd
    PROVE  FollowInv'
<1>1. migration # "no" /\ UNCHANGED <<lookups, ruleCache>>
  BY DEF MigrateBegin, MigrateAdd, MigrateEnd, caches
<1>2. Blank'
  BY <1>1 DEF FollowInv, UnmigratedInv, Blank
<1>3. UdpInv'
  BY <1>1 DEF FollowInv, UdpInv
<1>4. MigratingInv'
  BY DEF MigrateBegin, MigrateAdd, MigrateEnd, MigratingInv
<1> QED  BY <1>2, <1>3, <1>4, BlankFollows

LEMMA ImportFollows ==
    ASSUME TypeOK, OwnInv, FollowInv, \A m \in Manifests : Asked(m) # {},
           NEW i \in Import, ImportStep(i)
    PROVE  FollowInv'
<1>1. UNCHANGED <<dnsQueue, lookups, ruleCache, migration>>
  BY DEF ImportStep, ImportBegin, BatchBegin, BatchInsert, BatchCommit, ImportEnd, startup, caches
<1>2. UdpInv' /\ MigratingInv' /\ UnmigratedInv' /\ Blank' = Blank
  BY <1>1 DEF FollowInv, UdpInv, MigratingInv, UnmigratedInv, Blank
<1>3. ASSUME NEW next, SetImport(i, next)
      PROVE  /\ imports'[i] = next
             /\ \A j \in Import : j # i => imports'[j] = imports[j]
  BY <1>3 DEF TypeOK, SetImport
<1>4. imports[i] \in [phase: {"idle", "add", "insert", "commit"}, manifest: [Name -> Action],
                      todo: SUBSET Name, batch: SUBSET Name]
  BY DEF TypeOK
<1>5. ASSUME NEW m \in Manifests, ImportBegin(i, m)
      PROVE  FollowInv'
  <2>1. /\ imports'[i] = [phase |-> "add", manifest |-> m, todo |-> Asked(m), batch |-> {}]
        /\ \A j \in Import : j # i => imports'[j] = imports[j]
        /\ saved' = saved
    BY <1>3, <1>5 DEF ImportBegin
  <2>2. imports'[i].phase = "add" /\ imports'[i].todo # {}
    BY <2>1
  <2>3. Owed'
    BY <2>2 DEF Owed
  <2>4. OpenInv'
    BY <1>2, <2>1, <2>2 DEF FollowInv, OpenInv, InTransaction
  <2> QED  BY <1>2, <2>3, <2>4 DEF FollowInv
<1>6. CASE BatchBegin(i)
  <2>1. PICK b \in SUBSET imports[i].todo :
            SetImport(i, [imports[i] EXCEPT
                             !.phase = IF InTransaction THEN "add" ELSE "insert",
                             !.batch = IF InTransaction THEN {} ELSE b,
                             !.todo = @ \ b])
    BY <1>6 DEF BatchBegin
  <2>2. /\ imports'[i] = [imports[i] EXCEPT
                             !.phase = IF InTransaction THEN "add" ELSE "insert",
                             !.batch = IF InTransaction THEN {} ELSE b,
                             !.todo = @ \ b]
        /\ \A j \in Import : j # i => imports'[j] = imports[j]
    BY <1>3, <2>1
  <2>3. imports'[i].phase = IF InTransaction THEN "add" ELSE "insert"
    BY <1>4, <2>2
  <2>4. /\ databaseQueue = Free /\ rules' = rules /\ notices' = notices
        /\ saved' = IF InTransaction THEN saved ELSE rules
    BY <1>6 DEF BatchBegin, BeginTransaction
  <2>5. ~InTransaction => InTransaction'
    BY <2>4, NoTransactionAssumption DEF TypeOK, InTransaction
  <2>6. OpenInv'
    BY <2>2, <2>3, <2>5, <2>4, FreeHoldsNone DEF OpenInv
  <2>7. CASE ~InTransaction
    <3>1. Owed'
      BY <2>3, <2>7 DEF Owed
    <3> QED  BY <1>2, <2>6, <3>1 DEF FollowInv
  <2>8. CASE InTransaction
    <3>1. dnsQueue \in {"migrate", "deliver", "delivered"}
      BY <2>4, <2>8 DEF OwnInv, TransactionOwned
    <3>2. CASE dnsQueue = "migrate"
      <4>1. Blank'
        BY <1>2, <3>2 DEF FollowInv, MigratingInv, UnmigratedInv
      <4> QED  BY <1>2, <4>1, BlankFollows
    <3>3. CASE dnsQueue \in {"deliver", "delivered"}
      <4>1. Owed'
        BY <1>1, <3>3 DEF Owed
      <4> QED  BY <1>2, <2>6, <4>1 DEF FollowInv
    <3> QED  BY <3>1, <3>2, <3>3
  <2> QED  BY <2>7, <2>8
<1>7. CASE BatchInsert(i)
  <2>1. /\ imports[i].phase = "insert"
        /\ imports'[i] = [imports[i] EXCEPT !.phase = "commit"]
        /\ \A j \in Import : j # i => imports'[j] = imports[j]
        /\ saved' = saved
    BY <1>3, <1>7 DEF BatchInsert
  <2>2. imports'[i].phase = "commit"
    BY <1>4, <2>1
  <2>3. OpenInv'
    BY <1>2, <2>1 DEF FollowInv, OpenInv, InTransaction
  <2>4. Owed'
    BY <2>2 DEF Owed
  <2> QED  BY <1>2, <2>3, <2>4 DEF FollowInv
<1>8. CASE BatchCommit(i)
  <2>1. /\ imports[i].phase = "commit"
        /\ imports'[i] = [imports[i] EXCEPT !.phase = "add", !.batch = {}]
        /\ \A j \in Import : j # i => imports'[j] = imports[j]
        /\ notices' = IF InTransaction THEN notices + 1 ELSE notices
    BY <1>3, <1>8 DEF BatchCommit, CommitTransaction
  <2>2. CASE InTransaction
    <3>1. notices' > 0
      BY <2>1, <2>2 DEF TypeOK
    <3>2. \A j \in Import : j # i => imports[j].phase \notin {"insert", "commit"}
      BY <2>1 DEF OwnInv, HolderInv
    <3>3. imports'[i].phase = "add"
      BY <1>4, <2>1
    <3>4. OpenInv'
      BY <2>1, <3>2, <3>3 DEF OpenInv
    <3>5. Owed'
      BY <3>1 DEF Owed
    <3> QED  BY <1>2, <3>4, <3>5 DEF FollowInv
  <2>3. CASE ~InTransaction
    <3>1. Blank'
      BY <1>2, <2>1, <2>3 DEF FollowInv, OpenInv
    <3> QED  BY <1>2, <3>1, BlankFollows
  <2> QED  BY <2>2, <2>3
<1>9. CASE ImportEnd(i)
  <2>1. /\ imports[i].phase = "add" /\ imports[i].todo = {}
        /\ imports'[i] = Idle
        /\ \A j \in Import : j # i => imports'[j] = imports[j]
        /\ UNCHANGED <<rules, saved, notices>>
    BY <1>3, <1>9 DEF ImportEnd, table
  <2>2. imports'[i].phase = "idle"
    BY <2>1 DEF Idle
  <2>3. OpenInv'
    BY <1>2, <2>1, <2>2 DEF FollowInv, OpenInv, InTransaction
  <2>4. Owed => Owed'
    BY <1>1, <2>1 DEF Owed
  <2>5. Agrees => Agrees'
    BY <1>1, <2>1 DEF Agrees
  <2> QED  BY <1>2, <2>3, <2>4, <2>5 DEF FollowInv
<1> QED  BY <1>5, <1>6, <1>7, <1>8, <1>9 DEF ImportStep

LEMMA RestFollows ==
    ASSUME TypeOK, OwnInv, FollowInv, DeliverBegin \/ DeliverRemove \/ DeliverRaise \/ Restart
    PROVE  FollowInv'
<1>1. CASE DeliverBegin
  <2>1. /\ Turn /\ dnsQueue' = "deliver"
        /\ saved' = IF InTransaction THEN saved ELSE rules
        /\ UNCHANGED <<imports, lookups, ruleCache, migration>>
    BY <1>1 DEF DeliverBegin, BeginTransaction, caches, startup
  <2>2. InTransaction'
    BY <2>1, NoTransactionAssumption DEF TypeOK, InTransaction
  <2>3. UdpInv' /\ MigratingInv' /\ UnmigratedInv' /\ OpenInv'
    BY <2>1, <2>2, TurnIsMigrated DEF FollowInv, UdpInv, MigratingInv, UnmigratedInv, OpenInv
  <2>4. Owed'
    BY <2>1 DEF Owed
  <2> QED  BY <2>3, <2>4 DEF FollowInv
<1>2. CASE DeliverRemove
  <2>1. dnsQueue' = "delivered" /\ UNCHANGED <<saved, imports, lookups, ruleCache, migration>>
    BY <1>2 DEF DeliverRemove, caches, startup
  <2>2. Blank' = Blank
    BY <2>1 DEF Blank
  <2>3. UdpInv' /\ MigratingInv' /\ UnmigratedInv'
    BY <2>1, <2>2 DEF FollowInv, UdpInv, MigratingInv, UnmigratedInv
  <2>4. OpenInv'
    BY <2>1, <2>2 DEF FollowInv, OpenInv, InTransaction
  <2>5. Owed'
    BY <2>1 DEF Owed
  <2> QED  BY <2>3, <2>4, <2>5 DEF FollowInv
<1>3. CASE DeliverRaise \/ Restart
  <2>1. lookups' = {} /\ ruleCache' = [n \in Name |-> "none"] /\ dnsQueue' = "idle"
    BY <1>3 DEF DeliverRaise, Restart, StartWith, Cleared
  <2>2. Blank' /\ UdpInv' /\ MigratingInv'
    BY <2>1 DEF Blank, UdpInv, MigratingInv, UdpNames
  <2> QED  BY <2>2, BlankFollows
<1> QED  BY <1>1, <1>2, <1>3

LEMMA FollowStep ==
    ASSUME \A m \in Manifests : Asked(m) # {}, TypeOK, OwnInv, FollowInv, [Next]_vars,
           ~Recover
    PROVE  FollowInv'
<1>1. ASSUME NEW n \in Name, NameStep(n)
      PROVE  FollowInv'
  BY <1>1, CachesFollow, UserFollows DEF NameStep
<1>2. ASSUME NEW i \in Import, ImportStep(i)
      PROVE  FollowInv'
  BY <1>2, ImportFollows
<1>3. CASE UNCHANGED vars
  <2>1. UNCHANGED <<rules, saved, imports, notices, dnsQueue, migration, lookups, ruleCache>>
    BY <1>3 DEF vars
  <2> QED  BY <2>1, NoneCached
<1>4. CASE AskUdp \/ AskTcp
  BY <1>4, AskFollows
<1>5. CASE \E l \in lookups : Decide(l)
  BY <1>5, DecideFollows
<1>6. CASE ClearCaches \/ HandleDatabaseChange \/ WarmCache \/ PeriodicMaintenance
  BY <1>6, CachesFollow
<1>7. CASE MigrateBegin \/ MigrateAdd \/ MigrateEnd
  BY <1>7, MigrationFollows
<1>8. CASE DeliverBegin \/ DeliverRemove \/ DeliverRaise \/ Restart
  BY <1>8, RestFollows
<1> QED  BY <1>1, <1>2, <1>3, <1>4, <1>5, <1>6, <1>7, <1>8 DEF Next

LEMMA FaultsStay ==
    ASSUME [Next]_vars, ~Recover
    PROVE  faults' = faults
BY DEF Next, vars, counts, AskUdp, AskTcp, Ask, Decide, NameStep, Answer, Drop, ExpireRule,
       ExpireAnswer, RemoveUserDomain, AddUserDomain, ImportStep, ImportBegin, BatchBegin,
       BatchInsert, BatchCommit, ImportEnd, ClearCaches, HandleDatabaseChange, WarmCache,
       PeriodicMaintenance, MigrateBegin, MigrateAdd, MigrateEnd, DeliverBegin,
       DeliverRemove, DeliverRaise, Restart

LEMMA FollowInvAgrees ==
    ASSUME FollowInv
    PROVE  CacheFollowsRules
<1> SUFFICES ASSUME Quiet PROVE CacheFollowsRules
  BY DEF CacheFollowsRules
<1>1. ~Owed
  BY DEF Quiet, Owed, Idle
<1> QED  BY <1>1 DEF FollowInv, Agrees, UdpNames, CacheFollowsRules

\* As long as the database has not been lost, an action of the rule cache agrees with the
\* table whenever nothing is under way, for any number of imports at a time: whatever
\* overtakes the clearing of the caches is overtaken by another one.  Manifests must
\* name something: the import of an empty one deletes without a notice
\* (ConfigurationManager.m, importManagedRules; Provider.m's database observer).
THEOREM CacheFollowsUntilLoss ==
    ASSUME \A m \in Manifests : Asked(m) # {}
    PROVE  Spec => [](faults = 0 => CacheFollowsRules)
<1> DEFINE Inv == TypeOK /\ OwnInv /\ (faults = 0 => FollowInv)
<1>1. Init => Inv
  BY TypeInit, OwnInit, FollowInit
<1>2. Inv /\ [Next]_vars => Inv'
  <2> SUFFICES ASSUME Inv, [Next]_vars PROVE Inv'
    OBVIOUS
  <2>1. TypeOK' /\ OwnInv'
    BY TypeStep, OwnStep
  <2>2. ASSUME faults' = 0
        PROVE  ~Recover /\ faults = 0
    <3>1. faults \in Nat
      BY DEF TypeOK
    <3>2. ~Recover
      BY <2>2, <3>1 DEF Recover
    <3>3. faults' = faults
      BY <3>2, FaultsStay
    <3> QED  BY <2>2, <3>2, <3>3
  <2>3. faults' = 0 => FollowInv'
    BY <2>2, FollowStep
  <2> QED  BY <2>1, <2>3
<1>3. Inv => (faults = 0 => CacheFollowsRules)
  BY FollowInvAgrees
<1> QED  BY <1>1, <1>2, <1>3, PTL DEF Spec

\* Hence always, where the database meets no I/O error.
COROLLARY CacheFollowsHolds ==
    ASSUME \A m \in Manifests : Asked(m) # {}, MaxFaults = 0
    PROVE  Spec => []CacheFollowsRules
<1> DEFINE Inv == TypeOK /\ OwnInv /\ FollowInv /\ faults = 0
<1>1. Init => Inv
  BY TypeInit, OwnInit, FollowInit DEF Init
<1>2. Inv /\ [Next]_vars => Inv'
  <2> SUFFICES ASSUME Inv, [Next]_vars PROVE Inv'
    OBVIOUS
  <2>1. ~Recover
    BY DEF Recover
  <2> QED  BY <2>1, TypeStep, OwnStep, FollowStep, FaultsStay
<1>3. Inv => CacheFollowsRules
  BY FollowInvAgrees
<1> QED  BY <1>1, <1>2, <1>3, PTL DEF Spec

=============================================================================
