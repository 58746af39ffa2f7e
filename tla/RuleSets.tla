------------------------------ MODULE RuleSets ------------------------------
(***************************************************************************)
(* The rule sets that parsers make and the manager merges (RuleSet.m):     *)
(* an entry and the names it matches, looking a name up with and without   *)
(* the index, duplicates, statistics, and RuleSetMerger.                   *)
(***************************************************************************)
EXTENDS RulePrecedence, Selection, FiniteSets, SequencesExt

RuleAction == {"Block", "Allow", "Redirect", "Monitor"}
RulePriority == {0, 50, 100, 999}   \* Low, Medium, High, Override

NoDate == -1

\* Comment and source are left out; the date only matters to PreferNewer.
RuleEntry == [domain: Pattern, action: RuleAction, priority: Int, addedDate: Int]

\* Of the metadata, what merging looks at; version, author, URL, description,
\* license and custom fields are carried along.
RuleSetMetadata == [names: Seq(STRING), updatedDate: Int]
NoMetadata == [names |-> <<>>, updatedDate |-> NoDate]

RuleSet == [rules: Seq(RuleEntry), metadata: RuleSetMetadata]
RuleSetMergeOptions ==
    SUBSET {"PreferHigherPriority", "PreferNewer", "KeepDuplicates", "CombineMetadata"}

\* isEqual:, which sets of rules go by.
SameRule(r, s) ==
    r.domain = s.domain /\ r.action = s.action /\ r.priority = s.priority

\* -[RuleEntry matchesDomain:]: unlike a row of the database, an entry without a
\* wildcard matches what is below it, too.
EntryMatches(r, d, mode) ==
    \/ r.domain = Exactly(d)
    \/ r.domain.wild /\ WildcardShouldMatchRoot(mode) /\ r.domain.name = d
    \/ IsBelow(d, r.domain.name)

-----------------------------------------------------------------------------
(* Looking up *)

\* Fault: wildcards have no key of their own.
IndexExactly(rules) ==
    [exact |-> [p \in {rules[i].domain : i \in DOMAIN rules} |->
                  Those(rules, {r \in Range(rules) : r.domain = p})],
     wildcards |-> <<>>]

\* buildIndex: the rules of a domain in their order, the wildcards under a key
\* of their own.
Index(rules) ==
    [exact |-> [p \in {rules[i].domain : i \in DOMAIN rules} |->
                  Those(rules, {r \in Range(rules) : r.domain = p /\ ~p.wild})],
     wildcards |-> Those(rules, {r \in Range(rules) : r.domain.wild})]

Indexed(index, p) == IF p \in DOMAIN index.exact THEN index.exact[p] ELSE <<>>

\* rulesForDomain: with an index, the name's own rules, those of its parents from
\* the nearest, then the wildcards ...
RulesByIndex(rules, d, mode) ==
    LET index == Index(rules) IN
    FlattenSeq([i \in 1 .. Len(d) |-> Indexed(index, Exactly(From(d, i)))])
    \o Those(index.wildcards, {r \in Range(rules) : EntryMatches(r, d, mode)})

\* ... without, all that match in their order.
RulesByScan(rules, d, mode) ==
    Those(rules, {r \in Range(rules) : EntryMatches(r, d, mode)})

\* ruleForDomain takes the first of the highest priority.
HighestPriority(found) ==
    {found[i] : i \in {j \in DOMAIN found :
        /\ \A k \in DOMAIN found : found[k].priority <= found[j].priority
        /\ \A k \in 1 .. j - 1 : found[k].priority < found[j].priority}}

ShouldBlockDomain(found) == \E r \in HighestPriority(found) : r.action = "Block"

-----------------------------------------------------------------------------
(* Duplicates, statistics, merging *)

RemovingDuplicates(rules) ==
    FoldLeft(LAMBDA unique, r :
                 IF \E i \in DOMAIN unique : SameRule(unique[i], r) THEN unique
                                                                  ELSE Append(unique, r),
             <<>>, rules)

Counting(rules, counted) == Cardinality({i \in DOMAIN rules : rules[i] \in counted})

\* invalidRules is never counted.
RuleSetStatistics(rules) ==
    [totalRules     |-> Len(rules),
     blockRules     |-> Counting(rules, {r \in Range(rules) : r.action = "Block"}),
     allowRules     |-> Counting(rules, {r \in Range(rules) : r.action = "Allow"}),
     wildcardRules  |-> Counting(rules, {r \in Range(rules) : r.domain.wild}),
     uniqueDomains  |-> Cardinality({rules[i].domain : i \in DOMAIN rules}),
     duplicateRules |-> Cardinality({i \in DOMAIN rules :
                                        \E j \in 1 .. i - 1 : SameRule(rules[i], rules[j])}),
     invalidRules   |-> 0]

\* Two rules about one domain that do the same contend for one place in ruleMap.
SameKey(r, s) == r.domain = s.domain /\ r.action = s.action

\* Fault: the comparison of the priorities is the other way round.
ShouldReplaceBetter(r, existing, options) == r.priority < existing.priority

\* A missing date compares as the same.
ShouldReplace(r, existing, options) ==
    IF "PreferHigherPriority" \in options THEN r.priority > existing.priority
    ELSE /\ "PreferNewer" \in options
         /\ NoDate \notin {r.addedDate, existing.addedDate}
         /\ r.addedDate > existing.addedDate

\* One turn of the loop; "kept" is ruleMap's values.
Absorb(kept, r, options) ==
    LET rivals == {x \in kept : SameKey(x, r)} IN
    IF rivals = {} THEN kept \cup {r}
    ELSE IF \A x \in rivals : ShouldReplace(r, x, options) THEN (kept \ rivals) \cup {r}
    ELSE kept

MergeMetadata(ruleSets, options) ==
    IF "CombineMetadata" \notin options THEN NoMetadata
    ELSE [names |-> FlattenSeq([i \in DOMAIN ruleSets |-> ruleSets[i].metadata.names]),
          updatedDate |-> Max({ruleSets[i].metadata.updatedDate : i \in DOMAIN ruleSets})]

\* mergeRuleSets:options:error:.  No rule set is an error; a single one is handed
\* on as it is; of several, the rules come in the order of a dictionary's values,
\* that is in any order.
MergeRuleSets(ruleSets, options) ==
    IF ruleSets = <<>> THEN {}
    ELSE IF Len(ruleSets) = 1 THEN {ruleSets[1]}
    ELSE LET kept == FoldLeft(LAMBDA k, r : Absorb(k, r, options), {},
                              FlattenSeq([i \in DOMAIN ruleSets |-> ruleSets[i].rules]))
         IN {[rules |-> IF "KeepDuplicates" \in options THEN order
                        ELSE RemovingDuplicates(order),
              metadata |-> MergeMetadata(ruleSets, options)] : order \in SetToSeqs(kept)}

-----------------------------------------------------------------------------
(* Properties, of rule sets and a name *)

RulesOf(ruleSets) == UNION {ToSet(ruleSets[i].rules) : i \in DOMAIN ruleSets}

\* With the manager's option a merge keeps of each domain and action just one rule,
\* one of the highest priority any source gives it, and invents none, in whatever
\* order the dictionary holds them (RuleSet.m:686-717).
MergeKeepsTheBest(ruleSets) ==
    Len(ruleSets) > 1 =>
    \A merged \in MergeRuleSets(ruleSets, {"PreferHigherPriority"}) :
        /\ ToSet(merged.rules) \subseteq RulesOf(ruleSets)
        /\ \A r \in RulesOf(ruleSets) :
              /\ Counting(merged.rules, {x \in Range(merged.rules) : SameKey(x, r)}) = 1
              /\ \A x \in ToSet(merged.rules) : SameKey(x, r) => x.priority >= r.priority

\* The index finds what the scan finds, as often; only the order differs, so that
\* rules of one priority that disagree may be decided differently (RuleSet.m:394-438).
IndexFindsTheSame(rules, d, mode) ==
    LET byIndex == RulesByIndex(rules, d, mode)
        byScan  == RulesByScan(rules, d, mode) IN
    \A r \in ToSet(rules) :
        Counting(byIndex, {r}) = Counting(byScan, {r})

=============================================================================
