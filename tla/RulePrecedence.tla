--------------------------- MODULE RulePrecedence ---------------------------
(***************************************************************************)
(* What the rules in the database say of a domain name: the lookup of      *)
(* RuleDatabase, the collection of the rules that may apply and the        *)
(* resolution of their conflicts by RulePrecedence (DNSRulePrecedence.m),  *)
(* and DNSWildcardConfig with the two matchers that ask it.                *)
(*                                                                         *)
(* A name is the sequence of its labels, <<"www", "example", "com">>.  A   *)
(* pattern is a name, or a name with "*." before it.  The table holds one  *)
(* row per pattern (domain is its primary key); a row's type need not fit  *)
(* its pattern: the rules added by command keep the type Exact that        *)
(* ruleWithDomain gives them, whatever they start with.                    *)
(***************************************************************************)
EXTENDS Integers, Sequences

CONSTANT Label

DNSRuleAction == {"Block", "Allow", "Unknown"}
DNSRuleType == {"Exact", "Wildcard", "Regex"}
DNSRuleSource == {"User", "Manifest", "Remote", "System"}
DNSWildcardMode == {"SubdomainsOnly", "IncludeRoot", "Smart"}

Domain == Seq(Label) \ {<<>>}
Pattern == [wild: BOOLEAN, name: Domain]
Exactly(d) == [wild |-> FALSE, name |-> d]
Below(d) == [wild |-> TRUE, name |-> d]

\* A row; message, dates and comment are left out.
DNSRule == [domain: Pattern, action: {"Block", "Allow"}, type: DNSRuleType,
            priority: Int, source: DNSRuleSource]
OneRowPerDomain(table) == \A r, s \in table : r.domain = s.domain => r = s

\* The name from its i-th label on.
From(d, i) == SubSeq(d, i, Len(d))

-----------------------------------------------------------------------------
(* The lookup.  Everything here is the set of the one row that is found,   *)
(* or empty.                                                               *)

RowFor(table, p) == {r \in table : r.domain = p}
WildcardRowFor(table, d) == {r \in RowFor(table, Below(d)) : r.type = "Wildcard"}

\* The nearest of the parents' wildcards, "*." and the name from label i on,
\* i from first.
NearestWildcard(table, d, first) ==
    UNION {WildcardRowFor(table, From(d, i)) :
           i \in {j \in first .. Len(d) : \A h \in first .. j - 1 :
                                             WildcardRowFor(table, From(d, h)) = {}}}

\* lookupRuleForDomainUnlocked: the pattern's own row, whatever its type, then the
\* wildcard on the whole of it, in every wildcard mode, then its parents'.  The
\* program asks it for patterns, too; the "*" is then the first label, and no row
\* stands below it.
RuleForDomain(table, p) ==
    IF RowFor(table, p) # {} THEN RowFor(table, p)
    ELSE NearestWildcard(table, p.name, 1)

\* allMatchingRulesForDomain:inDatabase:
AllMatchingRules(table, d) ==
    RuleForDomain(table, Exactly(d))
    \cup (UNION {RuleForDomain(table, Below(From(d, i))) : i \in 2 .. Len(d)})
    \cup RuleForDomain(table, Below(From(d, Len(d))))

-----------------------------------------------------------------------------
(* The resolution *)

\* The number of dots, not counting the one of "*.".
Specificity(p) == Len(p.name) - 1

\* Fault: the more specific rule comes first, whatever it does.
PrecedesByDepth(r, s, d) ==
    IF (r.domain = Exactly(d)) # (s.domain = Exactly(d)) THEN r.domain = Exactly(d)
    ELSE IF Specificity(r.domain) # Specificity(s.domain)
         THEN Specificity(r.domain) > Specificity(s.domain)
    ELSE r.action = "Allow" /\ s.action # "Allow"

\* The comparator of sortRulesByPrecedence: r is sorted before s.
Precedes(r, s, d) ==
    IF (r.domain = Exactly(d)) # (s.domain = Exactly(d)) THEN r.domain = Exactly(d)
    ELSE IF r.action # s.action THEN r.action = "Allow"
    ELSE IF Specificity(r.domain) # Specificity(s.domain)
         THEN Specificity(r.domain) > Specificity(s.domain)
    ELSE IF r.priority # s.priority THEN r.priority > s.priority
    ELSE r.source = "User" /\ s.source # "User"

\* resolveConflictBetweenRules: the action of the rule that is sorted first.
Resolutions(rules, d) ==
    IF rules = {} THEN {"Unknown"}
    ELSE {r.action : r \in {x \in rules : \A y \in rules : ~Precedes(y, x, d)}}

\* The action of a query's name, as processDNSQuery finds it on a cache miss.
ResolvedActions(table, d) == Resolutions(AllMatchingRules(table, d), d)

-----------------------------------------------------------------------------
(* The wildcard mode, and the matchers that ask for it *)

\* wildcardShouldMatchRoot: of a wildcard; Smart does not look at the allowlist.
WildcardShouldMatchRoot(mode) == mode # "SubdomainsOnly"

IsBelow(d, s) == \E i \in 2 .. Len(d) : From(d, i) = s

\* -[DNSRule matchesDomain:]; a Regex rule has none of the patterns here.
MatchesDomain(r, d, mode) ==
    \/ r.type = "Exact" /\ r.domain = Exactly(d)
    \/ /\ r.type = "Wildcard" /\ r.domain.wild
       /\ \/ WildcardShouldMatchRoot(mode) /\ r.domain.name = d
          \/ IsBelow(d, r.domain.name)

IsWildcardNeedingRootCoverage(r, mode) ==
    r.type = "Wildcard" /\ r.domain.wild /\ WildcardShouldMatchRoot(mode)

RootDomainFromWildcard(p) == Exactly(p.name)

\* processWildcardRule:includeRoot:
ProcessWildcardRule(r, includeRoot, mode) ==
    {r} \cup IF includeRoot /\ IsWildcardNeedingRootCoverage(r, mode)
             THEN {[r EXCEPT !.domain = RootDomainFromWildcard(r.domain), !.type = "Exact"]}
             ELSE {}

-----------------------------------------------------------------------------
(* Properties, of a table *)

\* The rules that bear on a name: its own, else the wildcards above it, its own
\* wildcard only if it is typed as one or the name is a single label.
Bearing(table, d) ==
    IF RowFor(table, Exactly(d)) # {} THEN RowFor(table, Exactly(d))
    ELSE {r \in table : /\ r.domain.wild
                        /\ \/ IsBelow(d, r.domain.name)
                           \/ r.domain.name = d /\ (r.type = "Wildcard" \/ Len(d) = 1)}

\* What Precedence.h promises (Precedence.h:25-29): an exact rule decides; else a
\* wildcard allows before any wildcard blocks.
DocumentedAction(table, d) ==
    LET bearing == Bearing(table, d) IN
    IF \E r \in bearing : r.action = "Allow" THEN "Allow"
    ELSE IF bearing # {} THEN "Block"
    ELSE "Unknown"

\* The lookups that skip, repeat and shadow one another lose nothing and add nothing:
\* every name gets exactly the action of the documented order, whichever of the rules
\* found are sorted first (DNSRulePrecedence.m:27-168, DNSRuleDatabase.m:572-731).
ResolvesAsDocumented(table, d) == ResolvedActions(table, d) = {DocumentedAction(table, d)}

=============================================================================
