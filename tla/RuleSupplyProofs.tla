--------------------------- MODULE RuleSupplyProofs ---------------------------
(***************************************************************************)
(* What the run of the components that supply the rules checks, for any    *)
(* values of the constants.                                                *)
(*                                                                         *)
(* The three components that are functions of their input come first: the  *)
(* precedence of the rules in any table, the merge of any rule sets and    *)
(* the two ways of looking a name up in one, and what the parsers make of  *)
(* any document: in JSON first, then in the other formats beside it.       *)
(* Their loops are folds; each gets a lemma that says where the loop       *)
(* stands after every turn (...Turns), and what it computes is then shown  *)
(* turn by turn (UpTo, from SupplyProofs).                                 *)
(*                                                                         *)
(* The last sections are about the run itself: it is a behaviour of every  *)
(* component, so what is proved of them holds of it.                       *)
(***************************************************************************)
EXTENDS MCRuleSupply, RuleManagerProofs, FetchingProofs, FunctionTheorems, WellFoundedInduction

-----------------------------------------------------------------------------
(* Names and the names above them *)

\* The name from a label on is a name, and so is what is left of it.
LEMMA FromIsName ==
    ASSUME NEW d \in Domain, NEW i \in 1 .. Len(d)
    PROVE  /\ From(d, i) \in Domain /\ Len(From(d, i)) = Len(d) - i + 1
           /\ Len(d) \in Nat \ {0}
           /\ \A j \in 1 .. Len(d) - i + 1 : From(From(d, i), j) = From(d, i + j - 1)
<1>1. d \in Seq(Label) /\ Len(d) \in Nat /\ Len(d) # 0
  BY LenProperties, EmptySeq DEF Domain
<1>2. \A k \in i .. Len(d) : d[k] \in Label
  BY <1>1, ElementOfSeq
<1>3. From(d, i) \in Seq(Label) /\ Len(From(d, i)) = Len(d) - i + 1
  BY <1>1, <1>2, SubSeqProperties DEF From
<1>4. From(d, i) # <<>>
  BY <1>1, <1>3, EmptySeq
<1>5. ASSUME NEW j \in 1 .. Len(d) - i + 1
      PROVE  From(From(d, i), j) = From(d, i + j - 1)
  <2>1. SubSeq(SubSeq(d, i, Len(d)), j, Len(d) - i + 1)
            = SubSeq(d, i + j - 1, i + (Len(d) - i + 1) - 1)
    BY <1>1, <1>3, SubSeqOfSubSeq DEF From
  <2>2. i + (Len(d) - i + 1) - 1 = Len(d)
    BY <1>1
  <2> QED  BY <1>3, <2>1, <2>2 DEF From
<1> QED  BY <1>1, <1>3, <1>4, <1>5 DEF Domain

\* The first and the last label of a name.
LEMMA FromFirst ==
    ASSUME NEW d \in Domain
    PROVE  From(d, 1) = d /\ 1 \in 1 .. Len(d) /\ Len(d) \in 1 .. Len(d)
<1>1. d \in Seq(Label) /\ Len(d) \in Nat /\ Len(d) # 0
  BY LenProperties, EmptySeq DEF Domain
<1> QED  BY <1>1, SubSeqFull DEF From

-----------------------------------------------------------------------------
(* The rules that are found *)

\* What the search from a name upwards finds is a wildcard on the name or above it.
LEMMA NearestIsAbove ==
    ASSUME NEW table \in SUBSET DNSRule, NEW d \in Domain,
           NEW r \in NearestWildcard(table, d, 1)
    PROVE  /\ r \in table /\ r.type = "Wildcard"
           /\ \E i \in 1 .. Len(d) : r.domain = Below(From(d, i))
BY DEF NearestWildcard, WildcardRowFor, RowFor

\* The wildcard on the name itself is nearest.
LEMMA NearestIsOwn ==
    ASSUME NEW table \in SUBSET DNSRule, NEW d \in Domain
    PROVE  WildcardRowFor(table, d) \subseteq NearestWildcard(table, d, 1)
<1>1. From(d, 1) = d /\ 1 \in 1 .. Len(d)
  BY FromFirst
<1>2. \A h \in 1 .. 1 - 1 : WildcardRowFor(table, From(d, h)) = {}
  OBVIOUS
<1> QED  BY <1>1, <1>2 DEF NearestWildcard

\* Looking up the pattern below a name finds its row, else wildcards on it or above.
LEMMA PatternFinds ==
    ASSUME NEW table \in SUBSET DNSRule, NEW d \in Domain, NEW i \in 1 .. Len(d),
           NEW r \in RuleForDomain(table, Below(From(d, i)))
    PROVE  /\ r \in table
           /\ \/ r.domain = Below(From(d, i))
              \/ r.type = "Wildcard" /\ \E k \in i .. Len(d) : r.domain = Below(From(d, k))
<1>1. CASE RowFor(table, Below(From(d, i))) # {}
  BY <1>1 DEF RuleForDomain, RowFor
<1>2. CASE RowFor(table, Below(From(d, i))) = {}
  <2>1. r \in NearestWildcard(table, From(d, i), 1)
    BY <1>2 DEF RuleForDomain, Below
  <2>2. From(d, i) \in Domain /\ Len(From(d, i)) = Len(d) - i + 1 /\ Len(d) \in Nat
    BY FromIsName
  <2>3. r \in table /\ r.type = "Wildcard"
    BY <2>1, <2>2, NearestIsAbove
  <2>4. PICK j \in 1 .. Len(d) - i + 1 : r.domain = Below(From(From(d, i), j))
    BY <2>1, <2>2, NearestIsAbove
  <2>5. From(From(d, i), j) = From(d, i + j - 1) /\ i + j - 1 \in i .. Len(d)
    BY <2>2, FromIsName
  <2> QED  BY <2>3, <2>4, <2>5
<1> QED  BY <1>1, <1>2

\* Without a row of its own, a name is found exactly the rules that bear on it.
LEMMA FoundAreBearing ==
    ASSUME NEW table \in SUBSET DNSRule, OneRowPerDomain(table), NEW d \in Domain,
           RowFor(table, Exactly(d)) = {}
    PROVE  AllMatchingRules(table, d) = Bearing(table, d)
<1>n. PICK n : n = Len(d)
  OBVIOUS
<1>0. n \in Nat \ {0} /\ From(d, 1) = d
  BY <1>n, FromFirst, FromIsName
<1>1. AllMatchingRules(table, d) =
          NearestWildcard(table, d, 1)
          \cup (UNION {RuleForDomain(table, Below(From(d, i))) : i \in 2 .. n})
          \cup RuleForDomain(table, Below(From(d, n)))
  BY <1>n DEF AllMatchingRules, RuleForDomain, Exactly
<1>2. \A r : r \in Bearing(table, d) <=>
          /\ r \in table /\ r.domain.wild
          /\ \/ IsBelow(d, r.domain.name)
             \/ r.domain.name = d /\ (r.type = "Wildcard" \/ n = 1)
  BY <1>n DEF Bearing
<1>3. \A i \in 1 .. n : Below(From(d, i)).wild /\ Below(From(d, i)).name = From(d, i)
  BY DEF Below
<1>4. \A i \in 2 .. n : IsBelow(d, From(d, i))
  BY <1>n DEF IsBelow
<1>5. ASSUME NEW r \in AllMatchingRules(table, d)
      PROVE  r \in Bearing(table, d)
  <2>1. CASE r \in NearestWildcard(table, d, 1)
    <3>1. r \in table /\ r.type = "Wildcard"
      BY <1>n, <2>1, NearestIsAbove
    <3>2. PICK i \in 1 .. n : r.domain = Below(From(d, i))
      BY <1>n, <2>1, NearestIsAbove
    <3>3. i = 1 \/ i \in 2 .. n
      BY <1>0
    <3> QED  BY <1>0, <1>2, <1>3, <1>4, <3>1, <3>2, <3>3
  <2>2. ASSUME NEW i \in 1 .. n, i \in 2 .. n \/ n = 1,
               r \in RuleForDomain(table, Below(From(d, i)))
        PROVE  r \in Bearing(table, d)
    <3>1. r \in table
      BY <1>n, <2>2, PatternFinds
    <3>2. PICK k \in i .. n : r.domain = Below(From(d, k))
      BY <1>0, <1>n, <2>2, PatternFinds
    <3>3. k \in 1 .. n /\ (k \in 2 .. n \/ (k = 1 /\ n = 1))
      BY <1>0, <2>2
    <3> QED  BY <1>0, <1>2, <1>3, <1>4, <3>1, <3>2, <3>3
  <2>3. n \in 1 .. n /\ (n \in 2 .. n \/ n = 1) /\ \A i \in 2 .. n : i \in 1 .. n
    BY <1>0
  <2> QED  BY <1>1, <2>1, <2>2, <2>3
<1>6. ASSUME NEW r \in Bearing(table, d)
      PROVE  r \in AllMatchingRules(table, d)
  <2>1. r \in table /\ r.domain \in Pattern /\ r.domain.wild
    BY <1>2 DEF DNSRule
  <2>2. r.domain = Below(r.domain.name)
    BY <2>1 DEF Pattern, Below
  <2>3. \A x : r.domain = Below(x) => RuleForDomain(table, Below(x)) = {r}
    BY <2>1 DEF RuleForDomain, RowFor, OneRowPerDomain
  <2>4. CASE IsBelow(d, r.domain.name)
    <3>1. PICK i \in 2 .. n : From(d, i) = r.domain.name
      BY <1>n, <2>4 DEF IsBelow
    <3>2. r \in RuleForDomain(table, Below(From(d, i)))
      BY <2>2, <2>3, <3>1
    <3> QED  BY <1>1, <3>2
  <2>5. CASE r.domain.name = d /\ r.type = "Wildcard"
    <3>1. r \in WildcardRowFor(table, d)
      BY <2>1, <2>2, <2>5 DEF WildcardRowFor, RowFor
    <3> QED  BY <1>1, <3>1, NearestIsOwn
  <2>6. CASE r.domain.name = d /\ n = 1
    <3>1. r \in RuleForDomain(table, Below(From(d, n)))
      BY <1>0, <2>2, <2>3, <2>6
    <3> QED  BY <1>1, <3>1
  <2> QED  BY <1>2, <2>4, <2>5, <2>6
<1> QED  BY <1>5, <1>6

-----------------------------------------------------------------------------
(* The rule that is sorted first *)

\* Wildcards above one name are told apart by how deep they are.
LEMMA DepthsDiffer ==
    ASSUME NEW table \in SUBSET DNSRule, OneRowPerDomain(table), NEW d \in Domain,
           NEW r \in Bearing(table, d), NEW s \in Bearing(table, d),
           RowFor(table, Exactly(d)) = {},
           Specificity(r.domain) = Specificity(s.domain)
    PROVE  r = s
<1>1. \A x \in Bearing(table, d) :
          /\ x \in table
          /\ \E i \in 1 .. Len(d) : x.domain = Below(From(d, i))
  <2> TAKE x \in Bearing(table, d)
  <2>1. x \in table /\ x.domain \in Pattern /\ x.domain.wild
    BY DEF Bearing, DNSRule
  <2>2. x.domain = Below(x.domain.name)
    BY <2>1 DEF Pattern, Below
  <2>3. IsBelow(d, x.domain.name) \/ x.domain.name = d
    BY DEF Bearing
  <2>4. Len(d) \in Nat \ {0} /\ From(d, 1) = d /\ 1 \in 1 .. Len(d)
    BY FromFirst, FromIsName
  <2>5. \E i \in 1 .. Len(d) : x.domain.name = From(d, i)
    BY <2>3, <2>4 DEF IsBelow
  <2> QED  BY <2>1, <2>2, <2>5
<1>2. PICK i \in 1 .. Len(d) : r.domain = Below(From(d, i))
  BY <1>1
<1>3. PICK j \in 1 .. Len(d) : s.domain = Below(From(d, j))
  BY <1>1
<1>4. Specificity(r.domain) = Len(d) - i /\ Specificity(s.domain) = Len(d) - j
  <2>1. /\ Len(From(d, i)) = Len(d) - i + 1 /\ Len(From(d, j)) = Len(d) - j + 1
        /\ Len(d) \in Nat
    BY FromIsName
  <2>2. r.domain.name = From(d, i) /\ s.domain.name = From(d, j)
    BY <1>2, <1>3 DEF Below
  <2> QED  BY <2>1, <2>2 DEF Specificity
<1>5. i = j
  <2>1. Len(d) \in Nat
    BY FromIsName
  <2>2. Len(d) - i = Len(d) - j
    BY <1>4
  <2> QED  BY <2>1, <2>2
<1> QED  BY <1>1, <1>2, <1>3, <1>5 DEF OneRowPerDomain

\* Of any of the rules that bear on a name, one is the most specific.
LEMMA MostSpecific ==
    ASSUME NEW table \in SUBSET DNSRule, NEW d \in Domain,
           NEW rules \in SUBSET Bearing(table, d), rules # {},
           RowFor(table, Exactly(d)) = {}
    PROVE  /\ \A x \in rules : Specificity(x.domain) \in Nat
           /\ \E r \in rules : \A x \in rules : Specificity(x.domain) <= Specificity(r.domain)
<1>1. ASSUME NEW x \in rules
      PROVE  Specificity(x.domain) \in Nat /\ Specificity(x.domain) <= Len(d)
  <2>1. x.domain.name = d \/ \E i \in 2 .. Len(d) : From(d, i) = x.domain.name
    BY DEF Bearing, IsBelow
  <2>2. Len(d) \in Nat \ {0}
    BY FromFirst, FromIsName
  <2>3. \A i \in 2 .. Len(d) : Len(From(d, i)) = Len(d) - i + 1
    BY <2>2, FromIsName
  <2> QED  BY <2>1, <2>2, <2>3 DEF Specificity
<1> DEFINE Gaps == {Len(d) - Specificity(x.domain) : x \in rules}
<1>2. Len(d) \in Nat
  BY FromFirst, FromIsName
<1>3. Gaps \in SUBSET Nat /\ Gaps # {}
  BY <1>1, <1>2
<1>4. PICK g \in Gaps : \A y \in Gaps : g <= y
  BY <1>3, LeastOf
<1>5. PICK r \in rules : g = Len(d) - Specificity(r.domain)
  BY <1>4
<1>6. \A x \in rules : Len(d) - Specificity(r.domain) <= Len(d) - Specificity(x.domain)
  BY <1>4, <1>5
<1>7. \A x \in rules : Specificity(x.domain) <= Specificity(r.domain)
  BY <1>1, <1>2, <1>6
<1> QED  BY <1>1, <1>7

\* A row of its own decides for a name.
LEMMA OwnDecides ==
    ASSUME NEW table \in SUBSET DNSRule, OneRowPerDomain(table), NEW d \in Domain,
           RowFor(table, Exactly(d)) # {}
    PROVE  ResolvesAsDocumented(table, d)
<1>1. PICK r \in table : r.domain = Exactly(d)
  BY DEF RowFor
<1>2. RowFor(table, Exactly(d)) = {r}
  BY <1>1 DEF RowFor, OneRowPerDomain
<1> DEFINE found == AllMatchingRules(table, d)
<1>3. r \in found
  BY <1>2 DEF AllMatchingRules, RuleForDomain
<1>4. found \subseteq table
  <2>1. \A x : RowFor(table, x) \subseteq table /\ WildcardRowFor(table, x) \subseteq table
    BY DEF RowFor, WildcardRowFor
  <2>2. \A x, f : NearestWildcard(table, x, f) \subseteq table
    BY <2>1 DEF NearestWildcard
  <2>3. \A x : RuleForDomain(table, x) \subseteq table
    BY <2>1, <2>2 DEF RuleForDomain
  <2> QED  BY <2>3 DEF AllMatchingRules
<1>5. \A x \in found : x.domain = Exactly(d) => x = r
  BY <1>1, <1>4 DEF OneRowPerDomain
<1>6. \A y \in found : ~Precedes(y, r, d)
  BY <1>1, <1>5 DEF Precedes
<1>7. \A x \in found : x # r => Precedes(r, x, d)
  BY <1>1, <1>5 DEF Precedes
<1>8. {x \in found : \A y \in found : ~Precedes(y, x, d)} = {r}
  BY <1>3, <1>6, <1>7
<1>9. ResolvedActions(table, d) = {r.action}
  BY <1>3, <1>8 DEF ResolvedActions, Resolutions
<1>10. Bearing(table, d) = {r}
  BY <1>2 DEF Bearing
<1>11. r.action \in {"Block", "Allow"}
  BY DEF DNSRule
<1> QED  BY <1>9, <1>10, <1>11 DEF ResolvesAsDocumented, DocumentedAction

\* Else the wildcards that bear on it do: one that allows before any that blocks.
LEMMA WildcardsDecide ==
    ASSUME NEW table \in SUBSET DNSRule, OneRowPerDomain(table), NEW d \in Domain,
           RowFor(table, Exactly(d)) = {}
    PROVE  ResolvesAsDocumented(table, d)
<1> DEFINE found == Bearing(table, d)
<1>1. AllMatchingRules(table, d) = found
  BY FoundAreBearing
<1>2. \A x \in found : x.domain # Exactly(d) /\ x.action \in {"Block", "Allow"}
  <2>1. \A x \in found : x \in table /\ x.domain.wild
    BY DEF Bearing
  <2>2. Exactly(d).wild = FALSE
    BY DEF Exactly
  <2>3. \A x \in table : x.action \in {"Block", "Allow"}
    BY DEF DNSRule
  <2> QED  BY <2>1, <2>2, <2>3
<1>3. CASE found = {}
  BY <1>1, <1>3 DEF ResolvesAsDocumented, ResolvedActions, Resolutions, DocumentedAction
<1>4. ASSUME found # {}
      PROVE  ResolvesAsDocumented(table, d)
  <2> DEFINE best == IF \E x \in found : x.action = "Allow"
                     THEN {x \in found : x.action = "Allow"} ELSE found
             decision == DocumentedAction(table, d)
  <2>1. best # {} /\ best \subseteq found
    BY <1>4
  <2>2. \A x \in best : x.action = decision
    BY <1>2 DEF DocumentedAction
  <2>3. /\ \A x \in best : Specificity(x.domain) \in Nat
        /\ \E r \in best : \A x \in best : Specificity(x.domain) <= Specificity(r.domain)
    BY <2>1, MostSpecific
  <2>4. PICK r \in best : \A x \in best : Specificity(x.domain) <= Specificity(r.domain)
    BY <2>3
  <2>5. \A x \in found \ best : x.action # "Allow" /\ r.action = "Allow"
    BY <2>2
  <2>6. ASSUME NEW y \in found
        PROVE  ~Precedes(y, r, d)
    <3>1. CASE y \notin best
      BY <1>2, <2>1, <2>5, <3>1 DEF Precedes
    <3>2. CASE y = r
      BY <2>3, <3>2 DEF Precedes
    <3>3. CASE y \in best /\ y # r
      <4>1. Specificity(y.domain) # Specificity(r.domain)
        BY <2>1, <3>3, DepthsDiffer
      <4>2. ~(Specificity(y.domain) > Specificity(r.domain))
        BY <2>3, <2>4, <3>3
      <4>3. y.action = r.action
        BY <2>2, <3>3
      <4> QED  BY <1>2, <2>1, <4>1, <4>2, <4>3 DEF Precedes
    <3> QED  BY <3>1, <3>2, <3>3
  <2>7. \A x \in found \ best : Precedes(r, x, d)
    BY <1>2, <2>1, <2>5 DEF Precedes
  <2>8. \A x \in found : (\A y \in found : ~Precedes(y, x, d)) => x.action = decision
    BY <2>1, <2>2, <2>7
  <2>9. r.action = decision /\ r \in found
    BY <2>1, <2>2
  <2> HIDE DEF found, best, decision
  <2>10. {x.action : x \in {z \in found : \A y \in found : ~Precedes(y, z, d)}} = {decision}
    BY <2>6, <2>8, <2>9
  <2>11. ResolvedActions(table, d) = {decision}
    BY <1>1, <1>4, <2>10 DEF ResolvedActions, Resolutions
  <2> QED  BY <2>11 DEF ResolvesAsDocumented, decision
<1> QED  BY <1>3, <1>4

\* For every table that holds one row per domain, and every name, the lookups that skip,
\* repeat and shadow one another and the sorting of what they find give the name exactly
\* the action of the documented order (DNSRulePrecedence.m:27-168, DNSRuleDatabase.m:572-731).
THEOREM NamesResolveForAnyTable ==
    ASSUME NEW table \in SUBSET DNSRule, OneRowPerDomain(table), NEW d \in Domain
    PROVE  ResolvesAsDocumented(table, d)
BY OwnDecides, WildcardsDecide

-----------------------------------------------------------------------------
(* Rule sets: loops over a list *)

\* What the loop over all rules leaves in ruleMap.
Kept(rules, options) == FoldLeft(LAMBDA k, x : Absorb(k, x, options), {}, rules)

\* Where RuleSetMerger's loop over all rules stands after each of them.
LEMMA AbsorbingTurns ==
    ASSUME NEW S, NEW rules \in Seq(S), NEW options
    PROVE  \E r : /\ r[0] = {}
                  /\ \A k \in 1 .. Len(rules) : r[k] = Absorb(r[k - 1], rules[k], options)
                  /\ Kept(rules, options) = r[Len(rules)]
<1>n. PICK n : n = Len(rules)
  OBVIOUS
<1>1. n \in Nat /\ DOMAIN rules = 1 .. n /\ \A i \in 1 .. n : rules[i] \in S
  BY <1>n, LenProperties, ElementOfSeq
<1> DEFINE Loop(f) ==
               f = [s \in SUBSET (DOMAIN rules) |->
                       IF s = {} THEN {} ELSE Absorb(f[s \ {Max(s)}], rules[Max(s)], options)]
           st == [x \in (1 .. n) \X SUBSET S |-> Absorb(x[2], rules[x[1]], options)]
<1>2. Kept(rules, options) = (CHOOSE f : Loop(f))[DOMAIN rules]
  BY DEF Kept, FoldLeft, MapThenFoldSet
<1>3. /\ st \in [(1 .. n) \X SUBSET S -> SUBSET S]
      /\ \A i \in 1 .. n, q \in SUBSET S : st[<<i, q>>] = Absorb(q, rules[i], options)
      /\ {} \in SUBSET S
  <2>1. \A q \in SUBSET S, i \in 1 .. n : Absorb(q, rules[i], options) \in SUBSET S
    BY <1>1 DEF Absorb
  <2> QED  BY <2>1
<1> HIDE DEF st
<1>4. \E f : Loop(f)
  <2>1. PICK g : Folding(g, n, SUBSET S, {}, st)
    BY <1>1, <1>3, FoldingExists
  <2>2. /\ g \in [SUBSET (1 .. n) -> SUBSET S] /\ g[{}] = {}
        /\ \A s \in SUBSET (1 .. n) : s # {} => g[s] = st[<<Max(s), g[s \ {Max(s)}]>>]
    BY <2>1 DEF Folding
  <2>3. \A s \in SUBSET (1 .. n) :
            s # {} => g[s] = Absorb(g[s \ {Max(s)}], rules[Max(s)], options)
    BY <1>1, <1>3, <2>2, GreatestOf
  <2>4. Loop(g)
    BY <1>1, <2>2, <2>3
  <2> QED  BY <2>4
<1>5. PICK g : Loop(g) /\ Kept(rules, options) = g[DOMAIN rules]
  BY <1>2, <1>4
<1>6. FoldsIn(g, n, SUBSET S, {}, st)
  <2>1. g[{}] = {} /\ \A s \in SUBSET (1 .. n) :
            s # {} => g[s] = Absorb(g[s \ {Max(s)}], rules[Max(s)], options)
    BY <1>1, <1>5
  <2>2. \A s \in SUBSET (1 .. n) : s # {} => Max(s) \in 1 .. n
    BY <1>1, GreatestOf
  <2> QED  BY <1>3, <2>1, <2>2 DEF FoldsIn
<1>7. PICK r : Run(r, g, n, SUBSET S, {}, st)
  BY <1>1, <1>3, <1>6, FoldRuns
<1>8. \A k \in 1 .. n : r[k] = Absorb(r[k - 1], rules[k], options)
  <2> TAKE k \in 1 .. n
  <2>1. k - 1 \in 0 .. n
    BY <1>1
  <2> QED  BY <1>3, <1>7, <2>1 DEF Run
<1> QED  BY <1>n, <1>1, <1>5, <1>7, <1>8 DEF Run

\* One turn of ruleSetByRemovingDuplicates.
AddingUnique(unique, r) ==
    IF \E i \in DOMAIN unique : SameRule(unique[i], r) THEN unique ELSE Append(unique, r)

\* Where its loop stands after each rule.
LEMMA UniqueTurns ==
    ASSUME NEW S, NEW rules \in Seq(S)
    PROVE  \E r : /\ r[0] = <<>>
                  /\ \A k \in 1 .. Len(rules) : r[k] = AddingUnique(r[k - 1], rules[k])
                  /\ RemovingDuplicates(rules) = r[Len(rules)]
<1>n. PICK n : n = Len(rules)
  OBVIOUS
<1>1. /\ n \in Nat /\ DOMAIN rules = 1 .. n /\ \A i \in 1 .. n : rules[i] \in S
      /\ <<>> \in Seq(S)
  BY <1>n, LenProperties, ElementOfSeq, EmptySeq
<1> DEFINE Loop(f) ==
               f = [s \in SUBSET (DOMAIN rules) |->
                       IF s = {} THEN <<>> ELSE AddingUnique(f[s \ {Max(s)}], rules[Max(s)])]
           st == [x \in (1 .. n) \X Seq(S) |-> AddingUnique(x[2], rules[x[1]])]
<1>2. RemovingDuplicates(rules) = (CHOOSE f : Loop(f))[DOMAIN rules]
  BY DEF RemovingDuplicates, FoldLeft, MapThenFoldSet, AddingUnique
<1>3. /\ st \in [(1 .. n) \X Seq(S) -> Seq(S)]
      /\ \A i \in 1 .. n, q \in Seq(S) : st[<<i, q>>] = AddingUnique(q, rules[i])
  <2>1. \A q \in Seq(S), i \in 1 .. n : AddingUnique(q, rules[i]) \in Seq(S)
    BY <1>1 DEF AddingUnique
  <2> QED  BY <2>1
<1> HIDE DEF st
<1>4. \E f : Loop(f)
  <2>1. PICK g : Folding(g, n, Seq(S), <<>>, st)
    BY <1>1, <1>3, FoldingExists
  <2>2. /\ g \in [SUBSET (1 .. n) -> Seq(S)] /\ g[{}] = <<>>
        /\ \A s \in SUBSET (1 .. n) : s # {} => g[s] = st[<<Max(s), g[s \ {Max(s)}]>>]
    BY <2>1 DEF Folding
  <2>3. \A s \in SUBSET (1 .. n) :
            s # {} => g[s] = AddingUnique(g[s \ {Max(s)}], rules[Max(s)])
    BY <1>1, <1>3, <2>2, GreatestOf
  <2> QED  BY <1>1, <2>2, <2>3
<1>5. PICK g : Loop(g) /\ RemovingDuplicates(rules) = g[DOMAIN rules]
  BY <1>2, <1>4
<1>6. FoldsIn(g, n, Seq(S), <<>>, st)
  <2>1. g[{}] = <<>> /\ \A s \in SUBSET (1 .. n) :
            s # {} => g[s] = AddingUnique(g[s \ {Max(s)}], rules[Max(s)])
    BY <1>1, <1>5
  <2>2. \A s \in SUBSET (1 .. n) : s # {} => Max(s) \in 1 .. n
    BY <1>1, GreatestOf
  <2> QED  BY <1>3, <2>1, <2>2 DEF FoldsIn
<1>7. PICK r : Run(r, g, n, Seq(S), <<>>, st)
  BY <1>1, <1>3, <1>6, FoldRuns
<1>8. \A k \in 1 .. n : r[k] = AddingUnique(r[k - 1], rules[k])
  <2> TAKE k \in 1 .. n
  <2>1. k - 1 \in 0 .. n
    BY <1>1
  <2> QED  BY <1>3, <1>7, <2>1 DEF Run
<1> QED  BY <1>n, <1>1, <1>5, <1>7, <1>8 DEF Run

\* A list without duplicates stays as it is.
LEMMA NothingRemoved ==
    ASSUME NEW S, NEW rules \in Seq(S),
           \A i, j \in 1 .. Len(rules) : SameRule(rules[i], rules[j]) => i = j
    PROVE  RemovingDuplicates(rules) = rules
<1>n. PICK n : n = Len(rules)
  OBVIOUS
<1>1. n \in Nat /\ DOMAIN rules = 1 .. n /\ \A i \in 1 .. n : rules[i] \in S
  BY <1>n, LenProperties, ElementOfSeq
<1>2. PICK r : /\ r[0] = <<>>
               /\ \A k \in 1 .. Len(rules) : r[k] = AddingUnique(r[k - 1], rules[k])
               /\ RemovingDuplicates(rules) = r[Len(rules)]
  BY UniqueTurns
<1> DEFINE P == {k \in 0 .. n : r[k] = SubSeq(rules, 1, k)}
<1>3. 0 \in P
  <2>1. SubSeq(rules, 1, 0) = <<>>
    BY SubSeqEmpty
  <2>2. r[0] = SubSeq(rules, 1, 0) /\ 0 \in 0 .. n
    BY <1>1, <1>2, <2>1
  <2> QED  BY <2>2
<1>4. ASSUME NEW k \in 0 .. n - 1, k \in P
      PROVE  k + 1 \in P
  <2>p. PICK q : q = r[k]
    OBVIOUS
  <2>1. q = SubSeq(rules, 1, k) /\ k + 1 \in 1 .. n /\ (k + 1) - 1 = k
    BY <1>1, <1>4, <2>p
  <2>2. r[k + 1] = AddingUnique(q, rules[k + 1])
    BY <1>n, <1>2, <2>1, <2>p
  <2>3. \A i \in 1 .. k : rules[i] \in S
    BY <1>1
  <2>4. q \in Seq(S) /\ Len(q) = k /\ \A i \in 1 .. k : q[i] = rules[i]
    BY <2>1, <2>3, SubSeqProperties
  <2>5. DOMAIN q = 1 .. k
    BY <2>4, LenProperties
  <2>6. r[k + 1] = Append(q, rules[k + 1])
    BY <1>n, <1>1, <2>1, <2>2, <2>4, <2>5 DEF AddingUnique
  <2>7. SubSeq(rules, 1, k + 1) = SubSeq(rules, 1, k) \o <<rules[k + 1]>>
    BY <1>n, <1>1, <2>1, SubSeqRecursiveSecond
  <2>8. Append(q, rules[k + 1]) = q \o <<rules[k + 1]>>
    BY <1>1, <2>1, <2>4, AppendIsConcat
  <2>9. k + 1 \in 0 .. n
    BY <1>1
  <2> QED  BY <2>1, <2>6, <2>7, <2>8, <2>9
<1>5. n \in P
  <2> HIDE DEF P
  <2> QED  BY <1>1, <1>3, <1>4, UpTo
<1>6. SubSeq(rules, 1, n) = rules
  BY <1>n, SubSeqFull
<1> QED  BY <1>n, <1>2, <1>5, <1>6

\* After each part, what has been put together so far.
LEMMA FlatteningTurns ==
    ASSUME NEW S, NEW parts \in Seq(Seq(S))
    PROVE  \E f : /\ f[0] = <<>>
                  /\ \A k \in 1 .. Len(parts) : f[k] = f[k - 1] \o parts[k]
                  /\ \A k \in 0 .. Len(parts) : f[k] \in Seq(S)
                  /\ FlattenSeq(parts) = f[Len(parts)]
<1>n. PICK n : n = Len(parts)
  OBVIOUS
<1>1. n \in Nat /\ \A i \in 1 .. n : parts[i] \in Seq(S)
  BY <1>n, LenProperties, ElementOfSeq
<1> DEFINE st == [x \in (1 .. n) \X Seq(S) |-> x[2] \o parts[x[1]]]
<1>2. st \in [(1 .. n) \X Seq(S) -> Seq(S)] /\ <<>> \in Seq(S)
  BY <1>1, ConcatProperties, EmptySeq
<1>3. \A i \in 1 .. n, q \in Seq(S) : st[<<i, q>>] = q \o parts[i]
  OBVIOUS
<1> HIDE DEF st
<1>4. PICK g : Folding(g, n, Seq(S), <<>>, st)
  BY <1>1, <1>2, FoldingExists
<1>5. FoldsIn(g, n, Seq(S), <<>>, st)
  BY <1>4 DEF Folding, FoldsIn
<1>6. PICK f : Run(f, g, n, Seq(S), <<>>, st)
  BY <1>1, <1>2, <1>5, FoldRuns
<1>7. /\ f[0] = <<>> /\ \A k \in 0 .. n : f[k] \in Seq(S)
      /\ \A k \in 1 .. n : f[k] = f[k - 1] \o parts[k]
  <2>1. \A k \in 1 .. n : k - 1 \in 0 .. n
    BY <1>1
  <2> QED  BY <1>3, <1>6, <2>1 DEF Run
<1>8. FlattenSeq(parts) = f[n]
  <2>1. CASE n = 0
    <3>1. parts = <<>>
      BY <1>n, <2>1, EmptySeq
    <3> QED  BY <1>n, <1>7, <2>1, <3>1 DEF FlattenSeq
  <2>2. CASE n # 0
    <3> DEFINE Loop(h) == h = [i \in 1 .. n |-> IF i = 1 THEN parts[i] ELSE h[i - 1] \o parts[i]]
               e == [i \in 1 .. n |-> f[i]]
    <3>1. FlattenSeq(parts) = (CHOOSE h : Loop(h))[n]
      BY <1>n, <2>2 DEF FlattenSeq
    <3>2. Loop(e)
      <4>1. ASSUME NEW i \in 1 .. n
            PROVE  f[i] = IF i = 1 THEN parts[i] ELSE e[i - 1] \o parts[i]
        <5>1. CASE i = 1
          <6>0. 1 \in 1 .. n /\ 1 - 1 = 0
            BY <5>1
          <6>1. f[1] = <<>> \o parts[1]
            BY <1>7, <6>0
          <6> QED  BY <1>1, <5>1, <6>1, ConcatEmptySeq
        <5>2. CASE i # 1
          <6>1. e[i - 1] = f[i - 1]
            BY <1>1, <5>2
          <6> QED  BY <1>7, <5>2, <6>1
        <5> QED  BY <5>1, <5>2
      <4> QED  BY <4>1
    <3>3. PICK h : Loop(h) /\ FlattenSeq(parts) = h[n]
      BY <3>1, <3>2
    <3> DEFINE P == {0} \cup {k \in 1 .. n : h[k] = f[k]}
    <3>4. ASSUME NEW k \in 0 .. n - 1, k \in P
          PROVE  k + 1 \in P
      <4>1. k + 1 \in 1 .. n /\ (k + 1) - 1 = k
        BY <1>1
      <4>2. f[k + 1] = f[k] \o parts[k + 1]
        BY <1>7, <4>1
      <4>3. CASE k = 0
        <5>1. h[1] = parts[1] /\ 1 \in 1 .. n
          BY <3>3, <4>1, <4>3
        <5>0. k + 1 = 1
          BY <4>3
        <5>2. f[1] = <<>> \o parts[1]
          BY <1>7, <4>2, <4>3, <5>0
        <5>3. f[1] = parts[1]
          BY <1>1, <5>1, <5>2, ConcatEmptySeq
        <5> QED  BY <4>3, <5>1, <5>3
      <4>4. CASE k # 0
        <5>1. h[k] = f[k]
          BY <3>4, <4>4
        <5>0. k + 1 # 1
          BY <4>4
        <5>2. h[k + 1] = h[k] \o parts[k + 1]
          BY <3>3, <4>1, <5>0
        <5> QED  BY <4>1, <4>2, <5>1, <5>2
      <4> QED  BY <4>3, <4>4
    <3>5. n \in P
      <4>1. 0 \in P
        OBVIOUS
      <4>2. n \in 0 .. n /\ n \in Nat
        BY <1>1
      <4> HIDE DEF P
      <4>3. \A k \in 0 .. n - 1 : k \in P => k + 1 \in P
        BY <3>4
      <4> QED  BY <4>1, <4>2, <4>3, UpTo
    <3> QED  BY <2>2, <3>3, <3>5
  <2> QED  BY <2>1, <2>2
<1> QED  BY <1>n, <1>7, <1>8

\* What is in two lists is in them joined.
LEMMA ConcatElements ==
    ASSUME NEW S, NEW q \in Seq(S), NEW r \in Seq(S)
    PROVE  ToSet(q \o r) = ToSet(q) \cup ToSet(r)
<1>q. PICK m : m = Len(q)
  OBVIOUS
<1>r. PICK n : n = Len(r)
  OBVIOUS
<1>1. /\ m \in Nat /\ n \in Nat /\ DOMAIN q = 1 .. m /\ DOMAIN r = 1 .. n
      /\ DOMAIN (q \o r) = 1 .. m + n
      /\ \A i \in 1 .. m + n : (q \o r)[i] = IF i <= m THEN q[i] ELSE r[i - m]
  BY <1>q, <1>r, LenProperties, ConcatProperties
<1>2. ASSUME NEW i \in 1 .. m + n
      PROVE  (q \o r)[i] \in ToSet(q) \cup ToSet(r)
  <2>1. CASE i <= m
    BY <1>1, <2>1 DEF ToSet
  <2>2. CASE ~(i <= m)
    <3>1. i - m \in 1 .. n /\ (q \o r)[i] = r[i - m]
      BY <1>1, <2>2
    <3> QED  BY <1>1, <3>1 DEF ToSet
  <2> QED  BY <2>1, <2>2
<1>3. ASSUME NEW i \in 1 .. m
      PROVE  q[i] \in ToSet(q \o r)
  <2>1. i \in 1 .. m + n /\ (q \o r)[i] = q[i]
    BY <1>1
  <2> QED  BY <1>1, <2>1 DEF ToSet
<1>4. ASSUME NEW i \in 1 .. n
      PROVE  r[i] \in ToSet(q \o r)
  <2>1. i + m \in 1 .. m + n /\ ~(i + m <= m) /\ (i + m) - m = i
    BY <1>1
  <2>2. (q \o r)[i + m] = r[i]
    BY <1>1, <2>1
  <2> QED  BY <1>1, <2>1, <2>2 DEF ToSet
<1> QED  BY <1>1, <1>2, <1>3, <1>4 DEF ToSet

\* What is in several lists is in them put together.
LEMMA FlatteningElements ==
    ASSUME NEW S, NEW parts \in Seq(Seq(S))
    PROVE  /\ FlattenSeq(parts) \in Seq(S)
           /\ ToSet(FlattenSeq(parts)) = UNION {ToSet(parts[k]) : k \in 1 .. Len(parts)}
<1>n. PICK n : n = Len(parts)
  OBVIOUS
<1>1. n \in Nat /\ \A i \in 1 .. n : parts[i] \in Seq(S)
  BY <1>n, LenProperties, ElementOfSeq
<1>2. PICK f : /\ f[0] = <<>>
               /\ \A k \in 1 .. Len(parts) : f[k] = f[k - 1] \o parts[k]
               /\ \A k \in 0 .. Len(parts) : f[k] \in Seq(S)
               /\ FlattenSeq(parts) = f[Len(parts)]
  BY FlatteningTurns
<1> DEFINE P == {k \in 0 .. n : ToSet(f[k]) = UNION {ToSet(parts[j]) : j \in 1 .. k}}
<1>3. 0 \in P
  <2>1. ToSet(f[0]) = {} /\ 0 \in 0 .. n
    BY <1>1, <1>2, EmptySeq DEF ToSet
  <2>2. UNION {ToSet(parts[j]) : j \in 1 .. 0} = {}
    OBVIOUS
  <2> QED  BY <2>1, <2>2
<1>4. ASSUME NEW k \in 0 .. n - 1, k \in P
      PROVE  k + 1 \in P
  <2>1. k + 1 \in 1 .. n /\ (k + 1) - 1 = k /\ k \in 0 .. n /\ k + 1 \in 0 .. n
    BY <1>1
  <2>2. f[k + 1] = f[k] \o parts[k + 1] /\ f[k] \in Seq(S) /\ parts[k + 1] \in Seq(S)
    BY <1>1, <1>2, <1>n, <2>1
  <2>3. ToSet(f[k + 1]) = ToSet(f[k]) \cup ToSet(parts[k + 1])
    BY <2>2, ConcatElements
  <2>4. ToSet(f[k]) = UNION {ToSet(parts[j]) : j \in 1 .. k}
    BY <1>4
  <2>5. 1 .. k + 1 = (1 .. k) \cup {k + 1}
    BY <2>1
  <2>6. UNION {ToSet(parts[j]) : j \in 1 .. k + 1}
            = (UNION {ToSet(parts[j]) : j \in 1 .. k}) \cup ToSet(parts[k + 1])
    BY <2>5
  <2> QED  BY <2>1, <2>3, <2>4, <2>6
<1>5. n \in P
  <2>1. n \in 0 .. n /\ n \in Nat
    BY <1>1
  <2> HIDE DEF P
  <2>2. \A k \in 0 .. n - 1 : k \in P => k + 1 \in P
    BY <1>4
  <2> QED  BY <1>3, <2>1, <2>2, UpTo
<1> QED  BY <1>1, <1>2, <1>5, <1>n

-----------------------------------------------------------------------------
(* Rule sets: what a merge keeps *)

\* Of the rules so far, one of each domain and action, of the highest priority.
Best(kept, seen) ==
    /\ kept \subseteq seen /\ IsFiniteSet(kept)
    /\ \A x, y \in kept : SameKey(x, y) => x = y
    /\ \A r \in seen : \E x \in kept : SameKey(x, r) /\ x.priority >= r.priority

LEMMA AbsorbKeepsBest ==
    ASSUME NEW seen \in SUBSET RuleEntry, NEW kept, NEW r \in RuleEntry, Best(kept, seen)
    PROVE  Best(Absorb(kept, r, {"PreferHigherPriority"}), seen \cup {r})
<1> DEFINE rivals == {x \in kept : SameKey(x, r)}
           new == Absorb(kept, r, {"PreferHigherPriority"})
<1>1. /\ kept \subseteq seen /\ IsFiniteSet(kept)
      /\ \A x, y \in kept : SameKey(x, y) => x = y
      /\ \A y \in seen : \E x \in kept : SameKey(x, y) /\ x.priority >= y.priority
  BY DEF Best
<1>2. \A x \in seen \cup {r} : x.priority \in Int
  BY DEF RuleEntry
<1>3. \A x, y, z : /\ SameKey(x, x)
                   /\ SameKey(x, y) => SameKey(y, x)
                   /\ SameKey(x, y) /\ SameKey(y, z) => SameKey(x, z)
  BY DEF SameKey
<1>4. CASE rivals = {}
  <2>1. new = kept \cup {r}
    BY <1>4 DEF Absorb
  <2>2. \A x \in kept : ~SameKey(x, r)
    BY <1>4
  <2>3. IsFiniteSet(new) /\ new \subseteq seen \cup {r}
    BY <1>1, <2>1, FS_AddElement
  <2>4. \A x, y \in new : SameKey(x, y) => x = y
    BY <1>1, <1>3, <2>1, <2>2
  <2>5. \A y \in seen \cup {r} : \E x \in new : SameKey(x, y) /\ x.priority >= y.priority
    BY <1>1, <1>2, <1>3, <2>1
  <2> QED  BY <2>3, <2>4, <2>5 DEF Best
<1>5. CASE rivals # {} /\ \A x \in rivals : r.priority > x.priority
  <2>1. new = (kept \ rivals) \cup {r}
    BY <1>5 DEF Absorb, ShouldReplace
  <2>2. \A x \in kept \ rivals : ~SameKey(x, r)
    OBVIOUS
  <2>3. new \subseteq seen \cup {r}
    BY <1>1, <2>1
  <2>4. IsFiniteSet(new)
    <3>1. kept \ rivals \in SUBSET kept
      OBVIOUS
    <3>2. IsFiniteSet(kept \ rivals)
      BY <1>1, <3>1, FS_Subset
    <3> QED  BY <2>1, <3>2, FS_AddElement
  <2>5. \A x, y \in new : SameKey(x, y) => x = y
    BY <1>1, <1>3, <2>1, <2>2
  <2>6. ASSUME NEW y \in seen \cup {r}
        PROVE  \E x \in new : SameKey(x, y) /\ x.priority >= y.priority
    <3>1. CASE y = r
      BY <1>2, <1>3, <2>1, <3>1
    <3>2. CASE y \in seen
      <4>1. PICK x \in kept : SameKey(x, y) /\ x.priority >= y.priority
        BY <1>1, <3>2
      <4>2. CASE x \in rivals
        <5>1. SameKey(r, y) /\ r.priority > x.priority
          BY <1>3, <1>5, <4>1, <4>2
        <5>2. r.priority >= y.priority
          BY <1>1, <1>2, <3>2, <4>1, <5>1
        <5> QED  BY <2>1, <5>1, <5>2
      <4>3. CASE x \notin rivals
        BY <2>1, <4>1, <4>3
      <4> QED  BY <4>2, <4>3
    <3> QED  BY <3>1, <3>2
  <2> QED  BY <2>3, <2>4, <2>5, <2>6 DEF Best
<1>6. CASE rivals # {} /\ \E x \in rivals : ~(r.priority > x.priority)
  <2>1. new = kept
    BY <1>6 DEF Absorb, ShouldReplace
  <2>2. PICK x \in kept : SameKey(x, r) /\ ~(r.priority > x.priority)
    BY <1>6
  <2>3. x.priority >= r.priority
    BY <1>1, <1>2, <2>2
  <2>4. \A y \in seen \cup {r} : \E z \in new : SameKey(z, y) /\ z.priority >= y.priority
    BY <1>1, <2>1, <2>2, <2>3
  <2> QED  BY <1>1, <2>1, <2>4 DEF Best
<1> QED  BY <1>4, <1>5, <1>6

\* The loop over all rules ends with the best of them.
LEMMA MergedAreBest ==
    ASSUME NEW rules \in Seq(RuleEntry)
    PROVE  Best(Kept(rules, {"PreferHigherPriority"}), ToSet(rules))
<1>n. PICK n : n = Len(rules)
  OBVIOUS
<1>1. n \in Nat /\ DOMAIN rules = 1 .. n /\ \A i \in 1 .. n : rules[i] \in RuleEntry
  BY <1>n, LenProperties, ElementOfSeq
<1>2. PICK r :
          /\ r[0] = {}
          /\ \A k \in 1 .. Len(rules) :
                r[k] = Absorb(r[k - 1], rules[k], {"PreferHigherPriority"})
          /\ Kept(rules, {"PreferHigherPriority"}) = r[Len(rules)]
  BY AbsorbingTurns
<1> DEFINE P == {k \in 0 .. n : Best(r[k], {rules[i] : i \in 1 .. k})}
<1>3. 0 \in P
  <2>1. 0 \in 0 .. n /\ {rules[i] : i \in 1 .. 0} = {}
    BY <1>1
  <2>2. Best({}, {})
    BY FS_EmptySet DEF Best
  <2>3. r[0] = {}
    BY <1>2, Zenon
  <2> QED  BY <2>1, <2>2, <2>3
<1>4. ASSUME NEW k \in 0 .. n - 1, k \in P
      PROVE  k + 1 \in P
  <2> DEFINE seen == {rules[i] : i \in 1 .. k}
  <2>1. k + 1 \in 1 .. n /\ (k + 1) - 1 = k /\ k + 1 \in 0 .. n
    BY <1>1
  <2>2. \A j \in 1 .. n : r[j] = Absorb(r[j - 1], rules[j], {"PreferHigherPriority"})
    BY <1>2, <1>n, Zenon
  <2>3. r[k + 1] = Absorb(r[k], rules[k + 1], {"PreferHigherPriority"})
    BY <2>1, <2>2
  <2>4. seen \in SUBSET RuleEntry /\ rules[k + 1] \in RuleEntry
    BY <1>1, <2>1
  <2>5. Best(r[k], seen)
    BY <1>4
  <2>6. Best(r[k + 1], seen \cup {rules[k + 1]})
    BY <2>3, <2>4, <2>5, AbsorbKeepsBest
  <2>7. 1 .. k + 1 = (1 .. k) \cup {k + 1}
    BY <2>1
  <2>8. {rules[i] : i \in 1 .. k + 1} = seen \cup {rules[k + 1]}
    BY <2>7
  <2> QED  BY <2>1, <2>6, <2>8
<1>5. n \in P
  <2>1. n \in 0 .. n /\ n \in Nat
    BY <1>1
  <2> HIDE DEF P
  <2>2. \A k \in 0 .. n - 1 : k \in P => k + 1 \in P
    BY <1>4
  <2> QED  BY <1>3, <2>1, <2>2, UpTo
<1>6. Best(r[n], ToSet(rules))
  BY <1>1, <1>5 DEF ToSet
<1> QED  BY <1>n, <1>2, <1>6, Zenon

\* The orders of a finite set have all its elements, each once.
LEMMA OrdersAreOnto ==
    ASSUME NEW S, IsFiniteSet(S), NEW order \in SetToSeqs(S)
    PROVE  /\ order \in Seq(S) /\ ToSet(order) = S /\ Len(order) = Cardinality(S)
           /\ \A i, j \in 1 .. Len(order) : order[i] = order[j] => i = j
<1>c. PICK c : c = Cardinality(S)
  OBVIOUS
<1>1. c \in Nat
  BY <1>c, FS_CardinalityType
<1>2. order \in [1 .. c -> S] /\ \A i, j \in 1 .. c : i # j => order[i] # order[j]
  BY <1>c DEF SetToSeqs
<1>3. order \in Injection(1 .. c, S)
  BY <1>2 DEF Injection, IsInjective
<1>4. Cardinality(1 .. c) = c
  BY <1>1, FS_Interval
<1>5. order \in Surjection(1 .. c, S)
  BY <1>3, <1>4, <1>c, FS_Injection
<1>6. \A x \in S : \E i \in 1 .. c : order[i] = x
  BY <1>5 DEF Surjection
<1>7. order \in Seq(S) /\ Len(order) = c /\ DOMAIN order = 1 .. c
  BY <1>1, <1>2
<1>8. ToSet(order) = S
  BY <1>2, <1>6, <1>7 DEF ToSet
<1> QED  BY <1>2, <1>7, <1>8, <1>c

\* A merge with the manager's option keeps of each domain and action just one rule, one
\* of the highest priority any source gives it, and invents none, whatever the rule
\* sets and however many (RuleSet.m:686-717).
THEOREM AnyMergeKeepsTheBest ==
    ASSUME NEW sets \in Seq(RuleSet)
    PROVE  MergeKeepsTheBest(sets)
<1> DEFINE parts == [i \in DOMAIN sets |-> sets[i].rules]
           all == FlattenSeq(parts)
           kept == Kept(all, {"PreferHigherPriority"})
<1>n. PICK n : n = Len(sets)
  OBVIOUS
<1>1. n \in Nat /\ DOMAIN sets = 1 .. n /\ \A i \in 1 .. n : sets[i] \in RuleSet
  BY <1>n, LenProperties, ElementOfSeq
<1>2. \A i \in 1 .. n : sets[i].rules \in Seq(RuleEntry)
  BY <1>1 DEF RuleSet
<1>3. parts \in Seq(Seq(RuleEntry)) /\ Len(parts) = n
  BY <1>1, <1>2
<1>4. all \in Seq(RuleEntry) /\ ToSet(all) = UNION {ToSet(parts[k]) : k \in 1 .. n}
  BY <1>3, FlatteningElements
<1>5. ToSet(all) = RulesOf(sets)
  BY <1>1, <1>4 DEF RulesOf
<1> HIDE DEF all
<1>6. Best(kept, RulesOf(sets))
  BY <1>4, <1>5, MergedAreBest, Zenon
<1>7. Len(sets) > 1 =>
          MergeRuleSets(sets, {"PreferHigherPriority"}) =
              {[rules |-> RemovingDuplicates(order),
                metadata |-> MergeMetadata(sets, {"PreferHigherPriority"})] :
               order \in SetToSeqs(kept)}
  <2>1. Len(sets) > 1 => sets # <<>> /\ Len(sets) # 1
    BY <1>1, <1>n, EmptySeq
  <2>2. "KeepDuplicates" \notin {"PreferHigherPriority"}
    OBVIOUS
  <2> QED  BY <2>1, <2>2 DEF MergeRuleSets, all, Kept
<1> HIDE DEF kept
<1>8. /\ kept \subseteq RulesOf(sets) /\ IsFiniteSet(kept)
      /\ \A x, y \in kept : SameKey(x, y) => x = y
      /\ \A r \in RulesOf(sets) : \E x \in kept : SameKey(x, r) /\ x.priority >= r.priority
  BY <1>6 DEF Best
<1>9. ASSUME Len(sets) > 1, NEW result \in MergeRuleSets(sets, {"PreferHigherPriority"})
      PROVE  /\ ToSet(result.rules) \subseteq RulesOf(sets)
             /\ \A r \in RulesOf(sets) :
                   /\ Counting(result.rules, {x \in Range(result.rules) : SameKey(x, r)}) = 1
                   /\ \A x \in ToSet(result.rules) : SameKey(x, r) => x.priority >= r.priority
  <2>1. PICK order \in SetToSeqs(kept) : result.rules = RemovingDuplicates(order)
    BY <1>7, <1>9
  <2>2. /\ order \in Seq(kept) /\ ToSet(order) = kept
        /\ \A i, j \in 1 .. Len(order) : order[i] = order[j] => i = j
    BY <1>8, OrdersAreOnto
  <2>3. DOMAIN order = 1 .. Len(order) /\ \A i \in 1 .. Len(order) : order[i] \in kept
    BY <2>2, LenProperties, ElementOfSeq
  <2>4. \A i, j \in 1 .. Len(order) : SameRule(order[i], order[j]) => i = j
    BY <1>8, <2>2, <2>3 DEF SameRule, SameKey
  <2>5. result.rules = order
    BY <2>1, <2>2, <2>4, NothingRemoved
  <2>6. ASSUME NEW r \in RulesOf(sets)
        PROVE  Counting(order, {x \in Range(order) : SameKey(x, r)}) = 1
    <3>1. PICK x \in kept : SameKey(x, r) /\ x.priority >= r.priority
      BY <1>8
    <3>2. PICK i \in 1 .. Len(order) : order[i] = x
      BY <2>2, <2>3, <3>1 DEF ToSet
    <3>3. \A y \in kept : SameKey(y, r) => y = x
      BY <1>8, <3>1 DEF SameKey
    <3>4. {j \in DOMAIN order : order[j] \in {y \in Range(order) : SameKey(y, r)}} = {i}
      BY <2>2, <2>3, <3>1, <3>2, <3>3 DEF Range
    <3> QED  BY <3>4, FS_Singleton DEF Counting
  <2>7. ASSUME NEW r \in RulesOf(sets), NEW x \in kept, SameKey(x, r)
        PROVE  x.priority >= r.priority
    BY <1>8, <2>7 DEF SameKey
  <2> QED  BY <1>8, <2>2, <2>5, <2>6, <2>7
<1> QED  BY <1>9 DEF MergeKeepsTheBest

-----------------------------------------------------------------------------
(* Rule sets: how often a rule is found *)

Count(list, r) == Counting(list, {r})

\* One more, or as many as before.
LEMMA CountAppended ==
    ASSUME NEW S, NEW list \in Seq(S), NEW x \in S, NEW r
    PROVE  /\ Count(list, r) \in Nat
           /\ Count(Append(list, x), r)
                  = IF x = r THEN Count(list, r) + 1 ELSE Count(list, r)
<1>n. PICK n : n = Len(list)
  OBVIOUS
<1>1. n \in Nat /\ DOMAIN list = 1 .. n /\ DOMAIN Append(list, x) = 1 .. n + 1
      /\ \A i \in 1 .. n + 1 : Append(list, x)[i] = IF i = n + 1 THEN x ELSE list[i]
  BY <1>n, LenProperties
<1> DEFINE old == {i \in 1 .. n : list[i] = r}
           new == {i \in 1 .. n + 1 : Append(list, x)[i] = r}
<1>2. Count(list, r) = Cardinality(old)
  <2>1. {i \in DOMAIN list : list[i] \in {r}} = old
    BY <1>1
  <2> QED  BY <2>1 DEF Count, Counting
<1>3. Count(Append(list, x), r) = Cardinality(new)
  <2>1. {i \in DOMAIN Append(list, x) : Append(list, x)[i] \in {r}} = new
    BY <1>1
  <2> QED  BY <2>1 DEF Count, Counting
<1>4. IsFiniteSet(old) /\ n + 1 \notin old
  <2>1. IsFiniteSet(1 .. n) /\ old \in SUBSET (1 .. n)
    BY <1>1, FS_Interval
  <2>2. IsFiniteSet(old)
    BY <2>1, FS_Subset
  <2> QED  BY <1>1, <2>2
<1>5. new = IF x = r THEN old \cup {n + 1} ELSE old
  BY <1>1
<1> HIDE DEF old, new
<1>6. Cardinality(old) \in Nat /\ Cardinality(old \cup {n + 1}) = Cardinality(old) + 1
  BY <1>4, FS_CardinalityType, FS_AddElement
<1> QED  BY <1>2, <1>3, <1>5, <1>6

LEMMA CountNothing ==
    ASSUME NEW r
    PROVE  Count(<<>>, r) = 0
<1>1. {i \in DOMAIN <<>> : <<>>[i] \in {r}} = {}
  BY EmptySeq
<1> QED  BY <1>1, FS_EmptySet DEF Count, Counting

\* How often an element is among the first k.
CountsUp(c, list, r) ==
    /\ c[0] = 0 /\ c[Len(list)] = Count(list, r)
    /\ \A k \in 0 .. Len(list) : c[k] \in Nat
    /\ \A k \in 1 .. Len(list) : c[k] = IF list[k] = r THEN c[k - 1] + 1 ELSE c[k - 1]

LEMMA CountFirst ==
    ASSUME NEW S, NEW list \in Seq(S), NEW r
    PROVE  \E c : CountsUp(c, list, r)
<1>n. PICK n : n = Len(list)
  OBVIOUS
<1>1. n \in Nat /\ DOMAIN list = 1 .. n /\ \A i \in 1 .. n : list[i] \in S
  BY <1>n, LenProperties, ElementOfSeq
<1> DEFINE c == [k \in 0 .. n |-> Count(SubSeq(list, 1, k), r)]
<1>2. c[0] = 0
  <2>1. SubSeq(list, 1, 0) = <<>> /\ 0 \in 0 .. n
    BY <1>1, SubSeqEmpty
  <2> QED  BY <2>1, CountNothing
<1>3. c[n] = Count(list, r)
  <2>1. SubSeq(list, 1, n) = list /\ n \in 0 .. n
    BY <1>n, <1>1, SubSeqFull
  <2> QED  BY <2>1
<1>4. ASSUME NEW k \in 0 .. n
      PROVE  /\ SubSeq(list, 1, k) \in Seq(S) /\ c[k] \in Nat
             /\ c[k] = Count(SubSeq(list, 1, k), r)
  <2>1. \A i \in 1 .. k : list[i] \in S
    BY <1>1
  <2>2. SubSeq(list, 1, k) \in Seq(S)
    BY <2>1, SubSeqProperties
  <2>3. CASE S = {}
    <3>1. k = 0
      BY <2>1, <2>3
    <3>2. SubSeq(list, 1, k) = <<>>
      BY <3>1, SubSeqEmpty
    <3>3. c[k] = Count(SubSeq(list, 1, k), r)
      OBVIOUS
    <3>4. Count(SubSeq(list, 1, k), r) = 0
      BY <3>2, CountNothing, Zenon
    <3> QED  BY <2>2, <3>3, <3>4
  <2>4. CASE S # {}
    <3>1. PICK x \in S : TRUE
      BY <2>4
    <3>2. Count(SubSeq(list, 1, k), r) \in Nat
      BY <2>2, <3>1, CountAppended
    <3> QED  BY <2>2, <3>2
  <2> QED  BY <2>3, <2>4
<1>5. ASSUME NEW k \in 1 .. n
      PROVE  c[k] = IF list[k] = r THEN c[k - 1] + 1 ELSE c[k - 1]
  <2>1. k \in 0 .. n /\ k - 1 \in 0 .. n /\ list[k] \in S
    BY <1>1
  <2>p. PICK q : q = SubSeq(list, 1, k - 1)
    OBVIOUS
  <2>2. q \in Seq(S)
    BY <1>4, <2>1, <2>p
  <2>3. SubSeq(list, 1, k) = q \o <<list[k]>>
    BY <1>n, <1>1, <2>p, SubSeqRecursiveSecond
  <2>4. q \o <<list[k]>> = Append(q, list[k])
    BY <2>1, <2>2
  <2>5. c[k] = Count(Append(q, list[k]), r) /\ c[k - 1] = Count(q, r)
    BY <1>4, <2>1, <2>3, <2>4, <2>p
  <2>6. Count(Append(q, list[k]), r)
            = IF list[k] = r THEN Count(q, r) + 1 ELSE Count(q, r)
    BY <2>1, <2>2, CountAppended
  <2> QED  BY <2>5, <2>6
<1> HIDE DEF c
<1>6. CountsUp(c, list, r)
  BY <1>n, <1>2, <1>3, <1>4, <1>5 DEF CountsUp
<1> QED  BY <1>6

LEMMA CountIsNat ==
    ASSUME NEW S, NEW list \in Seq(S), NEW r
    PROVE  Count(list, r) \in Nat
<1>1. PICK c : CountsUp(c, list, r)
  BY CountFirst
<1>2. Len(list) \in 0 .. Len(list)
  BY LenProperties
<1> QED  BY <1>1, <1>2 DEF CountsUp

\* A selection has what is wanted as often as the list.
LEMMA CountSelected ==
    ASSUME NEW S, NEW list \in Seq(S), NEW wanted, NEW r
    PROVE  Count(Those(list, wanted), r) = IF r \in wanted THEN Count(list, r) ELSE 0
<1>n. PICK n : n = Len(list)
  OBVIOUS
<1>1. n \in Nat /\ DOMAIN list = 1 .. n /\ \A i \in 1 .. n : list[i] \in S
  BY <1>n, LenProperties, ElementOfSeq
<1>2. PICK t : /\ t[0] = <<>>
               /\ \A k \in 1 .. Len(list) : t[k] = Selecting(t[k - 1], list[k], wanted)
               /\ \A k \in 0 .. Len(list) : t[k] \in Seq(S)
               /\ Those(list, wanted) = t[Len(list)]
  BY SelectionTurns
<1>3. PICK c : CountsUp(c, list, r)
  BY CountFirst
<1>9. /\ c[0] = 0 /\ c[n] = Count(list, r)
      /\ \A k \in 0 .. n : c[k] \in Nat
      /\ \A k \in 1 .. n : c[k] = IF list[k] = r THEN c[k - 1] + 1 ELSE c[k - 1]
  BY <1>3, <1>n DEF CountsUp
<1> DEFINE P == {k \in 0 .. n : Count(t[k], r) = IF r \in wanted THEN c[k] ELSE 0}
<1>4. 0 \in P
  <2>1. Count(t[0], r) = 0
    BY <1>2, CountNothing, Zenon
  <2>2. c[0] = 0 /\ 0 \in 0 .. n
    BY <1>1, <1>9
  <2> QED  BY <2>1, <2>2
<1>5. ASSUME NEW k \in 0 .. n - 1, k \in P
      PROVE  k + 1 \in P
  <2>1. k + 1 \in 1 .. n /\ (k + 1) - 1 = k /\ k \in 0 .. n /\ k + 1 \in 0 .. n
    BY <1>1
  <2>p. PICK q : q = t[k]
    OBVIOUS
  <2>x. PICK x : x = list[k + 1]
    OBVIOUS
  <2>2. t[k + 1] = Selecting(q, x, wanted) /\ q \in Seq(S) /\ x \in S
    BY <1>1, <1>2, <1>n, <2>1, <2>p, <2>x
  <2>3. c[k + 1] = (IF x = r THEN c[k] + 1 ELSE c[k]) /\ c[k] \in Nat
    BY <1>9, <2>1, <2>x
  <2>4. Count(q, r) = IF r \in wanted THEN c[k] ELSE 0
    BY <1>5, <2>p
  <2>5. Count(Append(q, x), r) = IF x = r THEN Count(q, r) + 1 ELSE Count(q, r)
    BY <2>2, CountAppended
  <2>6. Count(t[k + 1], r) = IF r \in wanted THEN c[k + 1] ELSE 0
    <3>1. CASE x \in wanted
      <4>1. t[k + 1] = Append(q, x)
        BY <2>2, <3>1 DEF Selecting
      <4> QED  BY <2>3, <2>4, <2>5, <3>1, <4>1
    <3>2. CASE x \notin wanted
      <4>1. t[k + 1] = q
        BY <2>2, <3>2 DEF Selecting
      <4> QED  BY <2>3, <2>4, <3>2, <4>1
    <3> QED  BY <3>1, <3>2
  <2> QED  BY <2>1, <2>6
<1>6. n \in P
  <2>1. n \in 0 .. n /\ n \in Nat
    BY <1>1
  <2> HIDE DEF P
  <2>2. \A k \in 0 .. n - 1 : k \in P => k + 1 \in P
    BY <1>5
  <2> QED  BY <1>4, <2>1, <2>2, UpTo
<1> QED  BY <1>n, <1>2, <1>9, <1>6

\* Two lists joined have an element as often as the two of them together.
LEMMA CountConcat ==
    ASSUME NEW S, NEW q \in Seq(S), NEW s \in Seq(S), NEW r
    PROVE  Count(q \o s, r) = Count(q, r) + Count(s, r)
<1>n. PICK n : n = Len(s)
  OBVIOUS
<1>1. n \in Nat /\ DOMAIN s = 1 .. n /\ \A i \in 1 .. n : s[i] \in S
  BY <1>n, LenProperties, ElementOfSeq
<1>3. PICK c : CountsUp(c, s, r)
  BY CountFirst
<1>9. /\ c[0] = 0 /\ c[n] = Count(s, r)
      /\ \A k \in 0 .. n : c[k] \in Nat
      /\ \A k \in 1 .. n : c[k] = IF s[k] = r THEN c[k - 1] + 1 ELSE c[k - 1]
  BY <1>3, <1>n DEF CountsUp
<1> DEFINE P == {k \in 0 .. n : Count(q \o SubSeq(s, 1, k), r) = Count(q, r) + c[k]}
<1>0. Count(q, r) \in Nat
  BY CountIsNat
<1>4. 0 \in P
  <2>1. SubSeq(s, 1, 0) = <<>> /\ q \o <<>> = q
    BY SubSeqEmpty, ConcatEmptySeq
  <2>2. c[0] = 0 /\ 0 \in 0 .. n
    BY <1>1, <1>9
  <2>3. Count(q \o SubSeq(s, 1, 0), r) = Count(q, r)
    BY <2>1
  <2> QED  BY <1>0, <2>2, <2>3
<1>5. ASSUME NEW k \in 0 .. n - 1, k \in P
      PROVE  k + 1 \in P
  <2>1. k + 1 \in 1 .. n /\ (k + 1) - 1 = k /\ k \in 0 .. n /\ k + 1 \in 0 .. n
    BY <1>1
  <2>p. PICK t : t = SubSeq(s, 1, k)
    OBVIOUS
  <2>x. PICK x : x = s[k + 1]
    OBVIOUS
  <2>2. t \in Seq(S) /\ x \in S
    <3>1. \A i \in 1 .. k : s[i] \in S
      BY <1>1
    <3> QED  BY <1>1, <2>1, <2>p, <2>x, <3>1, SubSeqProperties
  <2>3. SubSeq(s, 1, k + 1) = t \o <<x>>
    BY <1>1, <1>n, <2>1, <2>p, <2>x, SubSeqRecursiveSecond
  <2>4. q \o (t \o <<x>>) = (q \o t) \o <<x>> /\ q \o t \in Seq(S) /\ <<x>> \in Seq(S)
    BY <2>2, ConcatAssociative, ConcatProperties
  <2>u. PICK u : u = q \o t
    OBVIOUS
  <2>5. u \in Seq(S) /\ u \o <<x>> = Append(u, x)
    BY <2>2, <2>4, <2>u
  <2>6. Count(Append(u, x), r) = IF x = r THEN Count(u, r) + 1 ELSE Count(u, r)
    BY <2>2, <2>5, CountAppended
  <2>7. c[k + 1] = (IF x = r THEN c[k] + 1 ELSE c[k]) /\ c[k] \in Nat
    BY <1>9, <2>1, <2>x
  <2>8. Count(u, r) = Count(q, r) + c[k]
    BY <1>5, <2>p, <2>u
  <2>9. q \o SubSeq(s, 1, k + 1) = Append(u, x)
    BY <2>3, <2>4, <2>5, <2>u
  <2>10. Count(Append(u, x), r) = Count(q, r) + c[k + 1]
    BY <1>0, <2>6, <2>7, <2>8
  <2> QED  BY <2>1, <2>9, <2>10
<1>6. n \in P
  <2>1. n \in 0 .. n /\ n \in Nat
    BY <1>1
  <2> HIDE DEF P
  <2>2. \A k \in 0 .. n - 1 : k \in P => k + 1 \in P
    BY <1>5
  <2> QED  BY <1>4, <2>1, <2>2, UpTo
<1>7. SubSeq(s, 1, n) = s
  BY <1>n, SubSeqFull
<1> QED  BY <1>n, <1>9, <1>6, <1>7

\* What only one part has, the whole has as often.
LEMMA CountFlattened ==
    ASSUME NEW S, NEW parts \in Seq(Seq(S)), NEW r, NEW m \in 1 .. Len(parts),
           \A k \in 1 .. Len(parts) : k # m => Count(parts[k], r) = 0
    PROVE  Count(FlattenSeq(parts), r) = Count(parts[m], r)
<1>n. PICK n : n = Len(parts)
  OBVIOUS
<1>c. PICK c : c = Count(parts[m], r)
  OBVIOUS
<1>1. n \in Nat /\ m \in 1 .. n /\ \A i \in 1 .. n : parts[i] \in Seq(S)
  BY <1>n, LenProperties, ElementOfSeq
<1>0. c \in Nat
  BY <1>1, <1>c, CountIsNat
<1>2. PICK f : /\ f[0] = <<>>
               /\ \A k \in 1 .. Len(parts) : f[k] = f[k - 1] \o parts[k]
               /\ \A k \in 0 .. Len(parts) : f[k] \in Seq(S)
               /\ FlattenSeq(parts) = f[Len(parts)]
  BY FlatteningTurns
<1> DEFINE P == {k \in 0 .. n : Count(f[k], r) = IF m <= k THEN c ELSE 0}
<1>3. 0 \in P
  <2>1. Count(f[0], r) = 0
    BY <1>2, CountNothing, Zenon
  <2> QED  BY <1>1, <2>1
<1>4. ASSUME NEW k \in 0 .. n - 1, k \in P
      PROVE  k + 1 \in P
  <2>1. k + 1 \in 1 .. n /\ (k + 1) - 1 = k /\ k \in 0 .. n /\ k + 1 \in 0 .. n
    BY <1>1
  <2>2. f[k + 1] = f[k] \o parts[k + 1] /\ f[k] \in Seq(S) /\ parts[k + 1] \in Seq(S)
    BY <1>1, <1>2, <1>n, <2>1
  <2>3. Count(f[k + 1], r) = Count(f[k], r) + Count(parts[k + 1], r)
    BY <2>2, CountConcat
  <2>4. Count(f[k], r) = IF m <= k THEN c ELSE 0
    BY <1>4
  <2>5. CASE m = k + 1
    <3>1. Count(parts[k + 1], r) = c /\ ~(m <= k) /\ m <= k + 1
      BY <1>c, <2>1, <2>5
    <3>2. Count(f[k + 1], r) = c
      BY <1>0, <2>3, <2>4, <3>1
    <3> QED  BY <2>1, <3>1, <3>2
  <2>6. CASE m # k + 1
    <3>1. Count(parts[k + 1], r) = 0 /\ (m <= k <=> m <= k + 1)
      BY <1>1, <1>n, <2>1, <2>6
    <3>2. Count(f[k + 1], r) = Count(f[k], r)
      BY <1>0, <2>3, <2>4, <3>1
    <3> QED  BY <2>1, <2>4, <3>1, <3>2
  <2> QED  BY <2>5, <2>6
<1>5. n \in P
  <2>1. n \in 0 .. n /\ n \in Nat
    BY <1>1
  <2> HIDE DEF P
  <2>2. \A k \in 0 .. n - 1 : k \in P => k + 1 \in P
    BY <1>4
  <2> QED  BY <1>3, <2>1, <2>2, UpTo
<1> QED  BY <1>1, <1>2, <1>5, <1>c, <1>n

LEMMA SelectionsHave ==
    ASSUME NEW rules \in Seq(RuleEntry), NEW r \in ToSet(rules)
    PROVE  r \in Range(rules) /\ r \in RuleEntry /\ \E i \in DOMAIN rules : rules[i] = r
BY ElementOfSeq, LenProperties DEF ToSet, Range

\* The index finds what the scan finds, as often, whatever the rules, the name and the
\* wildcard mode (RuleSet.m:394-438).
THEOREM IndexFindsTheSameAlways ==
    ASSUME NEW rules \in Seq(RuleEntry), NEW d \in Domain, NEW mode
    PROVE  IndexFindsTheSame(rules, d, mode)
<1> DEFINE Matching == {x \in Range(rules) : EntryMatches(x, d, mode)}
           OfDomain(p) == {x \in Range(rules) : x.domain = p /\ ~p.wild}
           Wild == {x \in Range(rules) : x.domain.wild}
           parts == [i \in 1 .. Len(d) |-> Indexed(Index(rules), Exactly(From(d, i)))]
<1>n. PICK n : n = Len(d)
  OBVIOUS
<1>0. n \in Nat \ {0} /\ n \in 1 .. n
  BY <1>n, FromFirst, FromIsName
<1>1. ASSUME NEW i \in 1 .. n
      PROVE  parts[i] = IF \E j \in DOMAIN rules : rules[j].domain = Exactly(From(d, i))
                        THEN Those(rules, OfDomain(Exactly(From(d, i)))) ELSE <<>>
  <2>p. PICK p : p = Exactly(From(d, i))
    OBVIOUS
  <2>1. parts[i] = Indexed(Index(rules), p)
    BY <1>n, <2>p
  <2>2. DOMAIN Index(rules).exact = {rules[j].domain : j \in DOMAIN rules}
    BY DEF Index
  <2>3. p \in {rules[j].domain : j \in DOMAIN rules} =>
            Index(rules).exact[p] = Those(rules, OfDomain(p))
    BY DEF Index
  <2> HIDE DEF parts
  <2> QED  BY <2>1, <2>2, <2>3, <2>p DEF Indexed
<1>2. Index(rules).wildcards = Those(rules, Wild)
  BY DEF Index
<1>3. parts \in Seq(Seq(RuleEntry)) /\ Len(parts) = n
  <2>1. \A i \in 1 .. n : parts[i] \in Seq(RuleEntry)
    <3> TAKE i \in 1 .. n
    <3>1. <<>> \in Seq(RuleEntry) /\ \A T : Those(rules, T) \in Seq(RuleEntry)
      BY EmptySeq, SelectionIsList
    <3> HIDE DEF parts
    <3> QED  BY <1>1, <3>1
  <2>2. parts = [i \in 1 .. n |-> parts[i]]
    BY <1>n
  <2> HIDE DEF parts
  <2>3. parts \in [1 .. n -> Seq(RuleEntry)]
    BY <2>1, <2>2
  <2>4. n \in Nat
    BY <1>0
  <2> QED  BY <2>3, <2>4
<1> HIDE DEF parts
<1>4. Those(rules, Wild) \in Seq(RuleEntry) /\ FlattenSeq(parts) \in Seq(RuleEntry)
  BY <1>3, SelectionIsList, FlatteningElements
<1>5. /\ RulesByIndex(rules, d, mode) = FlattenSeq(parts) \o Those(Those(rules, Wild), Matching)
      /\ RulesByScan(rules, d, mode) = Those(rules, Matching)
  BY <1>2 DEF RulesByIndex, RulesByScan, parts
<1>6. SUFFICES ASSUME NEW r \in ToSet(rules)
               PROVE  Count(RulesByIndex(rules, d, mode), r) = Count(RulesByScan(rules, d, mode), r)
  BY DEF IndexFindsTheSame, Count
<1>7. /\ r \in Range(rules) /\ r \in RuleEntry /\ r.domain \in Pattern
      /\ \E j \in DOMAIN rules : rules[j] = r
  BY SelectionsHave DEF RuleEntry
<1>c. PICK c : c = Count(rules, r)
  OBVIOUS
<1>8. c \in Nat /\ \A T : Count(Those(rules, T), r) = IF r \in T THEN c ELSE 0
  BY <1>c, CountIsNat, CountSelected
<1>9. Count(RulesByScan(rules, d, mode), r) = IF EntryMatches(r, d, mode) THEN c ELSE 0
  BY <1>5, <1>7, <1>8
<1>10. Count(Those(Those(rules, Wild), Matching), r)
           = IF EntryMatches(r, d, mode) /\ r.domain.wild THEN c ELSE 0
  <2>1. Count(Those(rules, Wild), r) = IF r.domain.wild THEN c ELSE 0
    BY <1>7, <1>8
  <2>2. Count(Those(Those(rules, Wild), Matching), r)
            = IF r \in Matching THEN Count(Those(rules, Wild), r) ELSE 0
    BY <1>4, CountSelected
  <2> QED  BY <1>7, <2>1, <2>2
<1>11. Those(Those(rules, Wild), Matching) \in Seq(RuleEntry)
  BY <1>4, SelectionIsList
<1>12. Count(RulesByIndex(rules, d, mode), r)
           = Count(FlattenSeq(parts), r) + Count(Those(Those(rules, Wild), Matching), r)
  BY <1>4, <1>5, <1>11, CountConcat
<1>13. ASSUME NEW i \in 1 .. n
       PROVE  Count(parts[i], r) = IF r.domain = Exactly(From(d, i)) THEN c ELSE 0
  <2>p. PICK p : p = Exactly(From(d, i))
    OBVIOUS
  <2>1. p.wild = FALSE
    BY <2>p DEF Exactly
  <2>2. r \in OfDomain(p) <=> r.domain = p
    BY <1>7, <2>1
  <2>3. CASE \E j \in DOMAIN rules : rules[j].domain = p
    <3>1. parts[i] = Those(rules, OfDomain(p))
      BY <1>1, <2>3, <2>p
    <3> QED  BY <1>8, <2>2, <2>p, <3>1
  <2>4. CASE ~\E j \in DOMAIN rules : rules[j].domain = p
    <3>1. parts[i] = <<>> /\ r.domain # p
      BY <1>1, <1>7, <2>4, <2>p
    <3>2. Count(parts[i], r) = 0
      BY <3>1, CountNothing, Zenon
    <3> QED  BY <2>p, <3>1, <3>2
  <2> QED  BY <2>3, <2>4
<1>14. \A i, j \in 1 .. n : Exactly(From(d, i)) = Exactly(From(d, j)) => i = j
  <2> SUFFICES ASSUME NEW i \in 1 .. n, NEW j \in 1 .. n,
                      Exactly(From(d, i)) = Exactly(From(d, j))
               PROVE  i = j
    OBVIOUS
  <2>1. From(d, i) = From(d, j)
    BY DEF Exactly
  <2>2. Len(From(d, i)) = n - i + 1 /\ Len(From(d, j)) = n - j + 1
    BY <1>n, FromIsName
  <2> QED  BY <1>0, <2>1, <2>2
<1>15. CASE \E m \in 1 .. n : r.domain = Exactly(From(d, m))
  <2>1. PICK m \in 1 .. n : r.domain = Exactly(From(d, m))
    BY <1>15
  <2>2. Count(parts[m], r) = c /\ \A k \in 1 .. n : k # m => Count(parts[k], r) = 0
    BY <1>13, <1>14, <2>1
  <2>3. Count(FlattenSeq(parts), r) = c
    BY <1>3, <2>2, CountFlattened
  <2>4. ~r.domain.wild
    BY <2>1 DEF Exactly
  <2>5. EntryMatches(r, d, mode)
    <3>1. CASE m = 1
      BY <2>1, <3>1, FromFirst DEF EntryMatches
    <3>2. CASE m # 1
      <4>1. m \in 2 .. Len(d) /\ r.domain.name = From(d, m)
        BY <1>n, <1>0, <2>1, <3>2 DEF Exactly
      <4> QED  BY <4>1 DEF EntryMatches, IsBelow
    <3> QED  BY <3>1, <3>2
  <2> QED  BY <1>8, <1>9, <1>10, <1>12, <2>3, <2>4, <2>5
<1>16. CASE \A m \in 1 .. n : r.domain # Exactly(From(d, m))
  <2>1. \A k \in 1 .. n : Count(parts[k], r) = 0
    BY <1>13, <1>16
  <2>2. Count(FlattenSeq(parts), r) = 0
    BY <1>0, <1>3, <2>1, CountFlattened
  <2>3. EntryMatches(r, d, mode) => r.domain.wild
    <3> SUFFICES ASSUME EntryMatches(r, d, mode), ~r.domain.wild
                 PROVE  FALSE
      OBVIOUS
    <3>1. r.domain = Exactly(r.domain.name)
      BY <1>7 DEF Pattern, Exactly
    <3>2. r.domain = Exactly(d) \/ IsBelow(d, r.domain.name)
      BY DEF EntryMatches
    <3>3. From(d, 1) = d /\ 1 \in 1 .. n /\ \A i \in 2 .. n : i \in 1 .. n
      BY <1>0, FromFirst
    <3> QED  BY <1>16, <1>n, <3>1, <3>2, <3>3 DEF IsBelow
  <2> QED  BY <1>8, <1>9, <1>10, <1>12, <2>2, <2>3
<1> QED  BY <1>15, <1>16

-----------------------------------------------------------------------------
(* Parsers: nothing listed is lost *)

Rule == [domain: Text, action: {"Block", "Allow"}, priority: Int]

ArrayState == [rules: Seq(Rule), full: BOOLEAN]

\* One turn of parseRuleArray.
ArrayTurn(acc, item, action, options) ==
    IF acc.full THEN acc
    ELSE LET rules == Adding(acc.rules, ItemRule(item, action, options), options)
         IN [rules |-> rules, full |-> Full(rules, options)]

\* An item becomes one rule or none.
LEMMA ItemRuleIsRules ==
    ASSUME NEW item \in Item, NEW action \in {"Block", "Allow"},
           NEW options \in RuleParserOptions
    PROVE  ItemRule(item, action, options) \in Seq(Rule)
<1> DEFINE rule == [domain   |-> Normal(item.domain, options),
                    action   |-> IF item.kind = "dictionary" /\ item.action # "none"
                                 THEN item.action ELSE action,
                    priority |-> IF item.kind = "dictionary" /\ item.priority # NoPriority
                                 THEN item.priority ELSE options.defaultPriority]
<1>1. CASE ItemRule(item, action, options) = <<>>
  BY <1>1, EmptySeq
<1>2. CASE ItemRule(item, action, options) # <<>>
  <2>1. ItemRule(item, action, options) = <<rule>> /\ item.domain \in Text
    BY <1>2 DEF ItemRule, Item
  <2>2. rule.domain \in Text
    BY <2>1, ParserAssumption DEF Normal
  <2>3. rule \in Rule
    BY <2>2 DEF Rule, Item, RuleParserOptions
  <2> HIDE DEF rule
  <2> QED  BY <2>1, <2>3
<1> QED  BY <1>1, <1>2

\* Where parseRuleArray's loop stands after each item.
LEMMA ArrayTurns ==
    ASSUME NEW parsed \in Seq(Rule), NEW items \in Seq(Item),
           NEW action \in {"Block", "Allow"}, NEW options \in RuleParserOptions
    PROVE  \E r : /\ r[0] = [rules |-> parsed, full |-> FALSE]
                  /\ \A k \in 1 .. Len(items) :
                        r[k] = ArrayTurn(r[k - 1], items[k], action, options)
                  /\ \A k \in 0 .. Len(items) : r[k] \in ArrayState
                  /\ ParseRuleArray(parsed, items, action, options) = r[Len(items)].rules
<1>n. PICK n : n = Len(items)
  OBVIOUS
<1>b. PICK base : base = [rules |-> parsed, full |-> FALSE]
  OBVIOUS
<1>1. /\ n \in Nat /\ DOMAIN items = 1 .. n /\ \A i \in 1 .. n : items[i] \in Item
      /\ base \in ArrayState
  BY <1>b, <1>n, LenProperties, ElementOfSeq DEF ArrayState
<1>2. \A q \in ArrayState, i \in 1 .. n : ArrayTurn(q, items[i], action, options) \in ArrayState
  <2> TAKE q \in ArrayState, i \in 1 .. n
  <2>1. ItemRule(items[i], action, options) \in Seq(Rule)
    BY <1>1, ItemRuleIsRules
  <2>2. Adding(q.rules, ItemRule(items[i], action, options), options) \in Seq(Rule)
    BY <2>1, ConcatProperties DEF Adding, ArrayState
  <2>3. \A rules \in Seq(Rule) : Full(rules, options) \in BOOLEAN
    BY DEF Full
  <2> QED  BY <2>2, <2>3 DEF ArrayTurn, ArrayState
<1> DEFINE Loop(f) ==
               f = [s \in SUBSET (DOMAIN items) |->
                       IF s = {} THEN base
                       ELSE ArrayTurn(f[s \ {Max(s)}], items[Max(s)], action, options)]
           st == [x \in (1 .. n) \X ArrayState |->
                     ArrayTurn(x[2], items[x[1]], action, options)]
<1>3. ParseRuleArray(parsed, items, action, options) = (CHOOSE f : Loop(f))[DOMAIN items].rules
  BY <1>b DEF ParseRuleArray, FoldLeft, MapThenFoldSet, ArrayTurn
<1>4. /\ st \in [(1 .. n) \X ArrayState -> ArrayState]
      /\ \A i \in 1 .. n, q \in ArrayState :
            st[<<i, q>>] = ArrayTurn(q, items[i], action, options)
  BY <1>2
<1> HIDE DEF st
<1>5. \E f : Loop(f)
  <2>1. PICK g : Folding(g, n, ArrayState, base, st)
    BY <1>1, <1>4, FoldingExists
  <2>2. /\ g \in [SUBSET (1 .. n) -> ArrayState] /\ g[{}] = base
        /\ \A s \in SUBSET (1 .. n) : s # {} => g[s] = st[<<Max(s), g[s \ {Max(s)}]>>]
    BY <2>1 DEF Folding
  <2>3. \A s \in SUBSET (1 .. n) :
            s # {} => g[s] = ArrayTurn(g[s \ {Max(s)}], items[Max(s)], action, options)
    BY <1>1, <1>4, <2>2, GreatestOf
  <2> QED  BY <1>1, <2>2, <2>3
<1>6. PICK g : /\ Loop(g)
               /\ ParseRuleArray(parsed, items, action, options) = g[DOMAIN items].rules
  BY <1>3, <1>5
<1>7. FoldsIn(g, n, ArrayState, base, st)
  <2>1. g[{}] = base /\ \A s \in SUBSET (1 .. n) :
            s # {} => g[s] = ArrayTurn(g[s \ {Max(s)}], items[Max(s)], action, options)
    BY <1>1, <1>6
  <2>2. \A s \in SUBSET (1 .. n) : s # {} => Max(s) \in 1 .. n
    BY <1>1, GreatestOf
  <2> QED  BY <1>4, <2>1, <2>2 DEF FoldsIn
<1>8. PICK r : Run(r, g, n, ArrayState, base, st)
  BY <1>1, <1>4, <1>7, FoldRuns
<1>9. \A k \in 1 .. n : r[k] = ArrayTurn(r[k - 1], items[k], action, options)
  <2> TAKE k \in 1 .. n
  <2>1. k - 1 \in 0 .. n
    BY <1>1
  <2> QED  BY <1>4, <1>8, <2>1 DEF Run
<1> QED  BY <1>b, <1>n, <1>1, <1>6, <1>8, <1>9 DEF Run

\* The domains with what is done to them, none of them twice.
Pairs(rules) == {<<rules[i].domain, rules[i].action>> : i \in DOMAIN rules}

NoPairTwice(rules) ==
    \A i, j \in DOMAIN rules :
       rules[i].domain = rules[j].domain /\ rules[i].action = rules[j].action => i = j

\* The entries that become rules, what each becomes, and the first k of a list.
Readable(item) ==
    /\ item.kind # "other" /\ item.domain # NoText
    /\ NormalForm[item.domain] \in ValidText

Says(item, action) ==
    <<NormalForm[item.domain],
      IF item.kind = "dictionary" /\ item.action # "none" THEN item.action ELSE action>>

ListedUpTo(items, action, k) ==
    {Says(items[i], action) : i \in {j \in 1 .. k : Readable(items[j])}}

\* A readable item becomes a rule that says so, any other nothing.
LEMMA ItemRuleSays ==
    ASSUME NEW item \in Item, NEW action \in {"Block", "Allow"}
    PROVE  /\ ~Readable(item) => ItemRule(item, action, DefaultOptions) = <<>>
           /\ Readable(item) =>
                 \E rule \in Rule : /\ ItemRule(item, action, DefaultOptions) = <<rule>>
                                    /\ <<rule.domain, rule.action>> = Says(item, action)
<1>1. Normal(item.domain, DefaultOptions) = NormalForm[item.domain]
  BY DEF Normal, DefaultOptions
<1>2. Admitted(Normal(item.domain, DefaultOptions), DefaultOptions)
        <=> NormalForm[item.domain] \in ValidText
  BY <1>1 DEF Admitted, DefaultOptions
<1>3. CASE ~Readable(item)
  BY <1>2, <1>3 DEF Readable, ItemRule
<1>4. CASE Readable(item)
  <2> DEFINE rule == [domain   |-> Normal(item.domain, DefaultOptions),
                      action   |-> IF item.kind = "dictionary" /\ item.action # "none"
                                   THEN item.action ELSE action,
                      priority |-> IF item.kind = "dictionary" /\ item.priority # NoPriority
                                   THEN item.priority ELSE DefaultOptions.defaultPriority]
  <2>1. ItemRule(item, action, DefaultOptions) = <<rule>>
    BY <1>2, <1>4 DEF Readable, ItemRule
  <2>2. item.domain \in Text
    BY <1>4 DEF Readable, Item
  <2>3. rule \in Rule
    BY <2>2, <1>1, ParserAssumption DEF Rule, Item, DefaultOptions
  <2>4. <<rule.domain, rule.action>> = Says(item, action)
    BY <1>1 DEF Says
  <2> HIDE DEF rule
  <2> QED  BY <1>4, <2>1, <2>3, <2>4
<1> QED  BY <1>3, <1>4

\* One item adds what it says, unless that is there, and nothing twice.
LEMMA AddingPairs ==
    ASSUME NEW rules \in Seq(Rule), NoPairTwice(rules),
           NEW item \in Item, NEW action \in {"Block", "Allow"}
    PROVE  LET more == Adding(rules, ItemRule(item, action, DefaultOptions), DefaultOptions) IN
           /\ NoPairTwice(more)
           /\ Pairs(more) = Pairs(rules)
                            \cup (IF Readable(item) THEN {Says(item, action)} ELSE {})
<1> DEFINE new == ItemRule(item, action, DefaultOptions)
           more == Adding(rules, new, DefaultOptions)
<1>1. CASE ~Readable(item)
  <2>1. new = <<>>
    BY <1>1, ItemRuleSays
  <2>2. rules \o <<>> = rules
    BY ConcatEmptySeq
  <2>3. more = rules
    BY <2>1, <2>2 DEF Adding
  <2> QED  BY <1>1, <2>3
<1>2. CASE Readable(item)
  <2>1. PICK rule \in Rule : new = <<rule>> /\ <<rule.domain, rule.action>> = Says(item, action)
    BY <1>2, ItemRuleSays
  <2>p. rule.domain = Says(item, action)[1] /\ rule.action = Says(item, action)[2]
    BY <2>1 DEF Says
  <2> HIDE DEF new
  <2>2. DOMAIN <<rule>> = {1} /\ <<rule>>[1] = rule
    OBVIOUS
  <2>d. DefaultOptions.allowDuplicates = FALSE
    BY DEF DefaultOptions
  <2>3. CASE \E j \in DOMAIN rules : rule.domain = rules[j].domain /\ rule.action = rules[j].action
    <3>1. more = rules
      BY <2>1, <2>2, <2>d, <2>3 DEF Adding
    <3>2. Says(item, action) \in Pairs(rules)
      BY <2>1, <2>3 DEF Pairs
    <3> QED  BY <1>2, <3>1, <3>2 DEF new
  <2>4. CASE ~\E j \in DOMAIN rules :
                  rule.domain = rules[j].domain /\ rule.action = rules[j].action
    <3>1. more = rules \o <<rule>>
      BY <2>1, <2>2, <2>d, <2>4 DEF Adding
    <3>2. PICK n : n = Len(rules)
      OBVIOUS
    <3>3. PICK q : q = rules \o <<rule>>
      OBVIOUS
    <3>4. /\ n \in Nat /\ DOMAIN rules = 1 .. n /\ DOMAIN q = 1 .. n + 1
          /\ \A i \in 1 .. n : q[i] = rules[i]
          /\ q[n + 1] = rule
      BY <3>2, <3>3
    <3> DEFINE D == 1 .. n
    <3>d. DOMAIN q = D \cup {n + 1} /\ DOMAIN rules = D /\ n + 1 \notin D
      BY <3>4
    <3>4a. (\A i \in D : q[i] = rules[i]) /\ q[n + 1] = rule
      BY <3>4
    <3> HIDE DEF D
    <3>5. NoPairTwice(q)
      BY <2>4, <3>d, <3>4a DEF NoPairTwice
    <3>6. Pairs(q) = Pairs(rules) \cup {<<rule.domain, rule.action>>}
      BY <3>d, <3>4a, Zenon DEF Pairs
    <3> QED  BY <1>2, <2>1, <3>1, <3>3, <3>5, <3>6 DEF new
  <2> QED  BY <2>3, <2>4
<1> QED  BY <1>1, <1>2

\* A list adds all that it lists, and nothing twice.
AddsAllListed(more, parsed, items, action) ==
    /\ more \in Seq(Rule) /\ NoPairTwice(more)
    /\ Pairs(more) = Pairs(parsed) \cup Listed(items, action)

LEMMA ArrayPairs ==
    ASSUME NEW parsed \in Seq(Rule), NoPairTwice(parsed),
           NEW items \in Seq(Item), NEW action \in {"Block", "Allow"}
    PROVE  AddsAllListed(ParseRuleArray(parsed, items, action, DefaultOptions),
                         parsed, items, action)
<1>n. PICK n : n = Len(items)
  OBVIOUS
<1>1. n \in Nat /\ DOMAIN items = 1 .. n /\ \A i \in 1 .. n : items[i] \in Item
  BY <1>n, LenProperties, ElementOfSeq
<1>o. DefaultOptions \in RuleParserOptions
  BY DEF DefaultOptions, RuleParserOptions
<1>2. PICK r : /\ r[0] = [rules |-> parsed, full |-> FALSE]
               /\ \A k \in 1 .. Len(items) :
                     r[k] = ArrayTurn(r[k - 1], items[k], action, DefaultOptions)
               /\ \A k \in 0 .. Len(items) : r[k] \in ArrayState
               /\ ParseRuleArray(parsed, items, action, DefaultOptions) = r[Len(items)].rules
  BY <1>o, ArrayTurns
<1> DEFINE Good(k) == /\ ~r[k].full /\ NoPairTwice(r[k].rules)
                      /\ Pairs(r[k].rules) = Pairs(parsed) \cup ListedUpTo(items, action, k)
           P == {k \in 0 .. n : Good(k)}
<1>3. Good(0)
  <2>1. ListedUpTo(items, action, 0) = {}
    BY DEF ListedUpTo
  <2> QED  BY <1>2, <2>1
<1>4. ASSUME NEW k \in 0 .. n - 1, Good(k)
      PROVE  Good(k + 1)
  <2>1. /\ k + 1 \in 1 .. n /\ (k + 1) - 1 = k /\ k \in 0 .. n /\ k + 1 \in 0 .. n
    BY <1>1
  <2>2. PICK item \in Item : item = items[k + 1]
    BY <1>1, <2>1
  <2>3. r[k] \in ArrayState /\ r[k].rules \in Seq(Rule)
    BY <1>2, <1>n, <2>1 DEF ArrayState
  <2>4. r[k + 1] = ArrayTurn(r[k], item, action, DefaultOptions)
    BY <1>2, <1>n, <2>1, <2>2
  <2>5. PICK more :
            more = Adding(r[k].rules, ItemRule(item, action, DefaultOptions), DefaultOptions)
    OBVIOUS
  <2>6. NoPairTwice(more) /\ Pairs(more) = Pairs(r[k].rules)
                            \cup (IF Readable(item) THEN {Says(item, action)} ELSE {})
    BY <1>4, <2>3, <2>5, AddingPairs
  <2>7. r[k + 1] = [rules |-> more, full |-> Full(more, DefaultOptions)]
    BY <1>4, <2>4, <2>5 DEF ArrayTurn
  <2>8. ~Full(more, DefaultOptions)
    BY DEF Full, DefaultOptions
  <2>9. ListedUpTo(items, action, k + 1) = ListedUpTo(items, action, k)
              \cup (IF Readable(item) THEN {Says(item, action)} ELSE {})
    <3>1. 1 .. k + 1 = (1 .. k) \cup {k + 1}
      BY <2>1, <1>1
    <3> QED  BY <2>2, <3>1 DEF ListedUpTo
  <2> QED  BY <1>4, <2>6, <2>7, <2>8, <2>9
<1>5. \A k \in 0 .. n : Good(k)
  <2>1. 0 \in P
    BY <1>1, <1>3
  <2>2. \A k \in 0 .. n - 1 : k \in P => k + 1 \in P
    BY <1>1, <1>4
  <2>3. n \in Nat
    BY <1>1
  <2> HIDE DEF P
  <2>4. \A k \in 0 .. n : k \in P
    BY <2>1, <2>2, <2>3, UpTo
  <2> QED  BY <2>4 DEF P
<1>6. Good(n)
  BY <1>1, <1>5
<1>7. ListedUpTo(items, action, n) = Listed(items, action)
  BY <1>1 DEF ListedUpTo, Listed, Says, Readable
<1>8. n \in 0 .. n
  BY <1>1
<1> QED  BY <1>2, <1>6, <1>7, <1>8, <1>n DEF ArrayState, AddsAllListed

\* RuleParsers!NothingListedIsLost, of every document: what an accepted one lists in its two
\* fields becomes rules, once each, whatever is in the lists besides, and nothing else does
\* (JSONRuleParser.m:132-316).
THEOREM NothingListedIsEverLost ==
    ASSUME NEW json \in JSONDocument
    PROVE  NothingListedIsLost(json)
<1> DEFINE whitelist == FirstOf(json.whitelist, FirstOf(json.allowlist, json.allowed))
           blocked == ParseRuleArray(<<>>, json.blocked.items, "Block", DefaultOptions)
           both == ParseRuleArray(blocked, whitelist.items, "Allow", DefaultOptions)
           result == ParseJSON(json, DefaultOptions)
<1>1. json.blocked \in Field /\ whitelist \in Field
  BY DEF JSONDocument, FirstOf
<1>2. json.blocked.items \in Seq(Item) /\ whitelist.items \in Seq(Item)
  BY <1>1 DEF Field
<1>3. <<>> \in Seq(Rule) /\ NoPairTwice(<<>>) /\ Pairs(<<>>) = {}
  BY EmptySeq DEF NoPairTwice, Pairs
<1> HIDE DEF whitelist
<1>4. /\ blocked \in Seq(Rule) /\ NoPairTwice(blocked)
      /\ Pairs(blocked) = Listed(json.blocked.items, "Block")
  <2>1. AddsAllListed(blocked, <<>>, json.blocked.items, "Block")
    BY <1>2, <1>3, ArrayPairs
  <2> HIDE DEF blocked
  <2> QED  BY <1>3, <2>1 DEF AddsAllListed
<1> HIDE DEF blocked
<1>5. /\ both \in Seq(Rule) /\ NoPairTwice(both)
      /\ Pairs(both) = Listed(json.blocked.items, "Block") \cup Listed(whitelist.items, "Allow")
  <2>1. AddsAllListed(both, blocked, whitelist.items, "Allow")
    BY <1>2, <1>4, ArrayPairs
  <2> HIDE DEF both
  <2> QED  BY <1>4, <2>1 DEF AddsAllListed
<1> HIDE DEF both
<1>6. ASSUME json.form = "dictionary", result.error = "none"
      PROVE  result.rules = both
  BY <1>6 DEF ParseJSON, Refuse, Accept, both, blocked, whitelist
<1> QED  BY <1>5, <1>6 DEF NothingListedIsLost, Pairs, NoPairTwice, whitelist

-----------------------------------------------------------------------------
(* Parsers: the formats agree *)

\* Selecting from a longer list goes on from where the shorter ended.
LEMMA SelectionAppended ==
    ASSUME NEW S, NEW list \in Seq(S), NEW x \in S, NEW wanted
    PROVE  Those(Append(list, x), wanted) = Selecting(Those(list, wanted), x, wanted)
<1>n. PICK n : n = Len(list)
  OBVIOUS
<1>m. PICK more : more = Append(list, x)
  OBVIOUS
<1>1. /\ n \in Nat /\ more \in Seq(S) /\ Len(more) = n + 1
      /\ \A i \in 1 .. n : more[i] = list[i]
      /\ more[n + 1] = x
  BY <1>n, <1>m, LenProperties, AppendProperties
<1>2. PICK t : /\ t[0] = <<>>
               /\ \A k \in 1 .. Len(list) : t[k] = Selecting(t[k - 1], list[k], wanted)
               /\ \A k \in 0 .. Len(list) : t[k] \in Seq(S)
               /\ Those(list, wanted) = t[Len(list)]
  BY SelectionTurns
<1>3. PICK u : /\ u[0] = <<>>
               /\ \A k \in 1 .. Len(more) : u[k] = Selecting(u[k - 1], more[k], wanted)
               /\ \A k \in 0 .. Len(more) : u[k] \in Seq(S)
               /\ Those(more, wanted) = u[Len(more)]
  BY <1>1, SelectionTurns
<1> DEFINE P == {k \in 0 .. n : u[k] = t[k]}
<1>4. 0 \in P
  BY <1>1, <1>2, <1>3
<1>5. \A k \in 0 .. n - 1 : k \in P => k + 1 \in P
  <2> SUFFICES ASSUME NEW k \in 0 .. n - 1, k \in P
               PROVE  k + 1 \in P
    OBVIOUS
  <2>1. k + 1 \in 1 .. n /\ k + 1 \in 1 .. n + 1 /\ (k + 1) - 1 = k /\ k + 1 \in 0 .. n
    BY <1>1
  <2>2. u[k + 1] = Selecting(u[k], more[k + 1], wanted)
        /\ t[k + 1] = Selecting(t[k], list[k + 1], wanted)
    BY <1>1, <1>2, <1>3, <1>n, <2>1
  <2>3. more[k + 1] = list[k + 1]
    BY <1>1, <2>1
  <2> QED  BY <2>1, <2>2, <2>3
<1>6. n \in P
  <2> HIDE DEF P
  <2>1. n \in 0 .. n
    BY <1>1
  <2> QED  BY <1>1, <1>4, <1>5, <2>1, UpTo
<1>7. n + 1 \in 1 .. Len(more) /\ (n + 1) - 1 = n
  BY <1>1
<1>8. u[n + 1] = Selecting(u[n], x, wanted)
  BY <1>1, <1>3, <1>7
<1> QED  BY <1>1, <1>2, <1>3, <1>6, <1>8, <1>m, <1>n

\* What stands in a list that is one longer.
LEMMA AppendedElements ==
    ASSUME NEW S, NEW list \in Seq(S), NEW x \in S
    PROVE  ToSet(Append(list, x)) = ToSet(list) \cup {x}
<1>0. PICK one : one = <<x>>
  OBVIOUS
<1>1. one \in Seq(S) /\ Append(list, x) = list \o one
  BY <1>0, AppendIsConcat
<1>2. ToSet(one) = {x}
  BY <1>0 DEF ToSet
<1>3. ToSet(list \o one) = ToSet(list) \cup ToSet(one)
  BY <1>1, ConcatElements
<1> QED  BY <1>1, <1>2, <1>3

\* What a selection has is what is wanted of the list.
LEMMA SelectionElements ==
    ASSUME NEW S, NEW list \in Seq(S), NEW wanted
    PROVE  ToSet(Those(list, wanted)) = ToSet(list) \cap wanted
<1>n. PICK n : n = Len(list)
  OBVIOUS
<1>1. n \in Nat /\ DOMAIN list = 1 .. n /\ \A i \in 1 .. n : list[i] \in S
  BY <1>n, LenProperties, ElementOfSeq
<1>2. PICK t : /\ t[0] = <<>>
               /\ \A k \in 1 .. Len(list) : t[k] = Selecting(t[k - 1], list[k], wanted)
               /\ \A k \in 0 .. Len(list) : t[k] \in Seq(S)
               /\ Those(list, wanted) = t[Len(list)]
  BY SelectionTurns
<1> DEFINE First(k) == {list[i] : i \in 1 .. k}
           P == {k \in 0 .. n : ToSet(t[k]) = First(k) \cap wanted}
<1>3. 0 \in P
  <2>1. ToSet(<<>>) = {}
    BY EmptySeq DEF ToSet
  <2>2. First(0) = {} /\ 0 \in 0 .. n
    BY <1>1
  <2> QED  BY <1>2, <2>1, <2>2
<1>4. \A k \in 0 .. n - 1 : k \in P => k + 1 \in P
  <2> SUFFICES ASSUME NEW k \in 0 .. n - 1, k \in P
               PROVE  k + 1 \in P
    OBVIOUS
  <2>1. k + 1 \in 1 .. n /\ (k + 1) - 1 = k /\ k + 1 \in 0 .. n /\ k \in 0 .. n
        /\ 1 .. k + 1 = (1 .. k) \cup {k + 1}
    BY <1>1
  <2>2. PICK q \in Seq(S) : q = t[k]
    BY <1>2, <1>n, <2>1
  <2>3. PICK x \in S : x = list[k + 1]
    BY <1>1, <2>1
  <2>4. t[k + 1] = Selecting(q, x, wanted)
    BY <1>2, <1>n, <2>1, <2>2, <2>3
  <2>5. First(k + 1) = First(k) \cup {x}
    BY <2>1, <2>3
  <2>6. ToSet(Append(q, x)) = ToSet(q) \cup {x}
    BY AppendedElements
  <2>7. ToSet(q) = First(k) \cap wanted
    BY <2>2
  <2> HIDE DEF First
  <2>8. ToSet(t[k + 1]) = First(k + 1) \cap wanted
    BY <2>4, <2>5, <2>6, <2>7 DEF Selecting
  <2> QED  BY <2>1, <2>8
<1>5. n \in P
  <2> HIDE DEF P
  <2>1. n \in 0 .. n
    BY <1>1
  <2> QED  BY <1>1, <1>3, <1>4, <2>1, UpTo
<1>6. ToSet(list) = First(n)
  BY <1>1 DEF ToSet
<1> QED  BY <1>2, <1>5, <1>6, <1>n

\* Two sets that want the same of a list select the same.
LEMMA SameSelection ==
    ASSUME NEW S, NEW list \in Seq(S), NEW wanted, NEW others,
           \A x \in ToSet(list) : x \in wanted <=> x \in others
    PROVE  Those(list, wanted) = Those(list, others)
<1>n. PICK n : n = Len(list)
  OBVIOUS
<1>1. n \in Nat /\ DOMAIN list = 1 .. n
  BY <1>n, LenProperties
<1>2. PICK t : /\ t[0] = <<>>
               /\ \A k \in 1 .. Len(list) : t[k] = Selecting(t[k - 1], list[k], wanted)
               /\ \A k \in 0 .. Len(list) : t[k] \in Seq(S)
               /\ Those(list, wanted) = t[Len(list)]
  BY SelectionTurns
<1>3. PICK u : /\ u[0] = <<>>
               /\ \A k \in 1 .. Len(list) : u[k] = Selecting(u[k - 1], list[k], others)
               /\ \A k \in 0 .. Len(list) : u[k] \in Seq(S)
               /\ Those(list, others) = u[Len(list)]
  BY SelectionTurns
<1> DEFINE P == {k \in 0 .. n : u[k] = t[k]}
<1>4. 0 \in P
  BY <1>1, <1>2, <1>3
<1>5. \A k \in 0 .. n - 1 : k \in P => k + 1 \in P
  <2> SUFFICES ASSUME NEW k \in 0 .. n - 1, k \in P
               PROVE  k + 1 \in P
    OBVIOUS
  <2>1. k + 1 \in 1 .. n /\ (k + 1) - 1 = k /\ k + 1 \in 0 .. n
    BY <1>1
  <2>2. u[k + 1] = Selecting(u[k], list[k + 1], others)
        /\ t[k + 1] = Selecting(t[k], list[k + 1], wanted)
    BY <1>2, <1>3, <1>n, <2>1
  <2>3. list[k + 1] \in ToSet(list)
    BY <1>1, <2>1 DEF ToSet
  <2>4. list[k + 1] \in wanted <=> list[k + 1] \in others
    BY <2>3
  <2>5. u[k] = t[k]
    OBVIOUS
  <2> QED  BY <2>1, <2>2, <2>4, <2>5 DEF Selecting
<1>6. n \in P
  <2> HIDE DEF P
  <2>1. n \in 0 .. n
    BY <1>1
  <2> QED  BY <1>1, <1>4, <1>5, <2>1, UpTo
<1> QED  BY <1>2, <1>3, <1>6, <1>n

\* A rule that is added, or one for the same domain and action that is there.
LEMMA AddingOne ==
    ASSUME NEW rules \in Seq(Rule), NEW rule \in Rule
    PROVE  Adding(rules, <<rule>>, DefaultOptions)
             = IF \E s \in ToSet(rules) : s.domain = rule.domain /\ s.action = rule.action
               THEN rules ELSE Append(rules, rule)
<1>0. PICK one : one = <<rule>>
  OBVIOUS
<1>1. DOMAIN one = {1} /\ one[1] = rule /\ Append(rules, rule) = rules \o one
  BY <1>0, AppendIsConcat
<1>2. (\E i \in DOMAIN one, j \in DOMAIN rules :
          one[i].domain = rules[j].domain /\ one[i].action = rules[j].action)
      <=> \E s \in ToSet(rules) : s.domain = rule.domain /\ s.action = rule.action
  <2>1. \A s : s \in ToSet(rules) <=> \E j \in DOMAIN rules : s = rules[j]
    BY DEF ToSet
  <2> QED  BY <1>1, <2>1
<1>3. DefaultOptions.allowDuplicates = FALSE
  BY DEF DefaultOptions
<1>4. Adding(rules, one, DefaultOptions)
        = IF \E s \in ToSet(rules) : s.domain = rule.domain /\ s.action = rule.action
          THEN rules ELSE rules \o one
  BY <1>2, <1>3 DEF Adding
<1> QED  BY <1>0, <1>1, <1>4

\* Nothing adds nothing.
LEMMA AddingNone ==
    ASSUME NEW rules \in Seq(Rule)
    PROVE  Adding(rules, <<>>, DefaultOptions) = rules
<1>1. rules \o <<>> = rules
  BY ConcatEmptySeq
<1> QED  BY <1>1 DEF Adding

\* The rules that are not about this machine, which a hosts file has, too.
Elsewhere == {rule \in Rule : rule.domain \notin Localhost}

\* A name adds to what is kept of the rules what is kept of what it adds in JSON.
LEMMA HostAdds ==
    ASSUME NEW rules \in Seq(Rule), NEW item \in Item, item.kind = "string",
           NEW action \in {"Block", "Allow"}
    PROVE  Adding(Those(rules, Elsewhere), HostRule(item.domain, action, DefaultOptions),
                  DefaultOptions)
             = Those(Adding(rules, ItemRule(item, action, DefaultOptions), DefaultOptions),
                     Elsewhere)
<1>d. PICK d : d = NormalForm[item.domain]
  OBVIOUS
<1>k. PICK kept : kept = Those(rules, Elsewhere)
  OBVIOUS
<1>r. PICK rule : rule = [domain |-> d, action |-> action,
                          priority |-> DefaultOptions.defaultPriority]
  OBVIOUS
<1>1. item.domain \in Text /\ item.domain # NoText
  BY DEF Item
<1>2. Normal(item.domain, DefaultOptions) = d /\ d \in Text
  BY <1>1, <1>d, ParserAssumption DEF Normal, DefaultOptions
<1>3. rule \in Rule /\ rule.domain = d /\ rule.action = action
  BY <1>2, <1>r DEF Rule, DefaultOptions
<1>4. kept \in Seq(Rule) /\ ToSet(kept) = ToSet(rules) \cap Elsewhere
  BY <1>k, SelectionIsList, SelectionElements
<1>5. Admitted(d, DefaultOptions) <=> d \in ValidText
  BY DEF Admitted, DefaultOptions
<1>6. /\ d \in ValidText => ItemRule(item, action, DefaultOptions) = <<rule>>
      /\ d \notin ValidText => ItemRule(item, action, DefaultOptions) = <<>>
  BY <1>1, <1>2, <1>5, <1>r DEF ItemRule
<1>7. /\ d \in ValidText /\ d \notin Localhost
            => HostRule(item.domain, action, DefaultOptions) = <<rule>>
      /\ d \notin ValidText \/ d \in Localhost
            => HostRule(item.domain, action, DefaultOptions) = <<>>
  BY <1>2, <1>5, <1>r DEF HostRule
<1>8. CASE d \notin ValidText
  BY <1>4, <1>6, <1>7, <1>8, <1>k, AddingNone
<1>9. CASE d \in ValidText
  <2>1. Those(Append(rules, rule), Elsewhere)
          = IF d \in Localhost THEN kept ELSE Append(kept, rule)
    <3>1. Those(Append(rules, rule), Elsewhere) = Selecting(kept, rule, Elsewhere)
      BY <1>3, <1>k, SelectionAppended
    <3>2. rule \in Elsewhere <=> d \notin Localhost
      BY <1>3 DEF Elsewhere
    <3> QED  BY <3>1, <3>2 DEF Selecting
  <2>2. CASE d \in Localhost
    <3>1. Adding(kept, <<>>, DefaultOptions) = kept
      BY <1>4, AddingNone
    <3>2. Those(Adding(rules, <<rule>>, DefaultOptions), Elsewhere) = kept
      <4>1. Adding(rules, <<rule>>, DefaultOptions) \in {rules, Append(rules, rule)}
        BY <1>3, AddingOne
      <4> QED  BY <1>k, <2>1, <2>2, <4>1
    <3> QED  BY <1>6, <1>7, <1>9, <1>k, <2>2, <3>1, <3>2
  <2>3. CASE d \notin Localhost
    <3>1. (\E s \in ToSet(kept) : s.domain = rule.domain /\ s.action = rule.action)
          <=> \E s \in ToSet(rules) : s.domain = rule.domain /\ s.action = rule.action
      <4>1. \A s \in ToSet(rules) : s \in Rule
        BY ElementOfSeq, LenProperties DEF ToSet
      <4>2. \A s \in ToSet(rules) : s.domain = rule.domain => s \in Elsewhere
        BY <1>3, <2>3, <4>1 DEF Elsewhere
      <4> QED  BY <1>4, <4>2
    <3>2. Adding(kept, <<rule>>, DefaultOptions)
            = IF \E s \in ToSet(kept) : s.domain = rule.domain /\ s.action = rule.action
              THEN kept ELSE Append(kept, rule)
      BY <1>3, <1>4, AddingOne
    <3>3. Adding(rules, <<rule>>, DefaultOptions)
            = IF \E s \in ToSet(rules) : s.domain = rule.domain /\ s.action = rule.action
              THEN rules ELSE Append(rules, rule)
      BY <1>3, AddingOne
    <3>4. Adding(kept, <<rule>>, DefaultOptions)
            = Those(Adding(rules, <<rule>>, DefaultOptions), Elsewhere)
      BY <1>k, <2>1, <2>3, <3>1, <3>2, <3>3
    <3> QED  BY <1>6, <1>7, <1>9, <1>k, <2>3, <3>4
  <2> QED  BY <2>2, <2>3
<1> QED  BY <1>8, <1>9

\* What a name of a hosts file adds leaves a list of rules.
LEMMA HostRuleIsRules ==
    ASSUME NEW text \in Text, NEW action \in {"Block", "Allow"}, NEW rules \in Seq(Rule)
    PROVE  Adding(rules, HostRule(text, action, DefaultOptions), DefaultOptions) \in Seq(Rule)
<1>1. PICK rule : rule = [domain |-> Normal(text, DefaultOptions), action |-> action,
                          priority |-> DefaultOptions.defaultPriority]
  OBVIOUS
<1>2. Normal(text, DefaultOptions) \in Text
  BY ParserAssumption DEF Normal
<1>3. rule \in Rule
  BY <1>1, <1>2 DEF Rule, DefaultOptions
<1>4. HostRule(text, action, DefaultOptions) \in {<<>>, <<rule>>}
  BY <1>1 DEF HostRule
<1>5. /\ Adding(rules, <<>>, DefaultOptions) \in Seq(Rule)
      /\ Adding(rules, <<rule>>, DefaultOptions) \in Seq(Rule)
  BY <1>3, AddingNone, AddingOne, AppendProperties
<1> QED  BY <1>4, <1>5

\* A line with one name.
OneName(kind, text) == [kind |-> kind, names |-> <<text>>]

KindOf(action) == IF action = "Block" THEN "entry" ELSE "allow"

\* A line with one name adds that name's rule.
LEMMA OneNameTurn ==
    ASSUME NEW parsed \in Seq(Rule), NEW text \in Text, NEW action \in {"Block", "Allow"}
    PROVE  ParseHostsLine(parsed, OneName(KindOf(action), text), DefaultOptions)
             = Adding(parsed, HostRule(text, action, DefaultOptions), DefaultOptions)
<1>n. PICK line : line = OneName(KindOf(action), text)
  OBVIOUS
<1> DEFINE names == IF line.kind \in {"entry", "whitelist", "allow"} THEN line.names ELSE <<>>
           HostTurn(q, t) == Adding(q, HostRule(t, IF line.kind = "entry" THEN "Block" ELSE "Allow",
                                            DefaultOptions), DefaultOptions)
           Loop(f) == f = [s \in SUBSET (DOMAIN names) |->
                              IF s = {} THEN parsed ELSE HostTurn(f[s \ {Max(s)}], names[Max(s)])]
           st == [x \in (1 .. 1) \X Seq(Rule) |-> HostTurn(x[2], names[x[1]])]
<1>1. /\ DOMAIN names = 1 .. 1 /\ names[1] = text
      /\ \A q, t : HostTurn(q, t) = Adding(q, HostRule(t, action, DefaultOptions), DefaultOptions)
  <2>1. /\ line.kind \in {"entry", "whitelist", "allow"} /\ line.names = <<text>>
        /\ (IF line.kind = "entry" THEN "Block" ELSE "Allow") = action
    BY <1>n DEF OneName, KindOf
  <2> QED  BY <2>1
<1>2. ParseHostsLine(parsed, line, DefaultOptions) = (CHOOSE f : Loop(f))[DOMAIN names]
  BY DEF ParseHostsLine, FoldLeft, MapThenFoldSet
<1> HIDE DEF names, HostTurn
<1>3. \A q \in Seq(Rule), i \in 1 .. 1 : HostTurn(q, names[i]) \in Seq(Rule)
  BY <1>1, HostRuleIsRules
<1>4. /\ st \in [(1 .. 1) \X Seq(Rule) -> Seq(Rule)]
      /\ \A i \in 1 .. 1, q \in Seq(Rule) : st[<<i, q>>] = HostTurn(q, names[i])
  BY <1>3
<1> HIDE DEF st
<1>5. \E f : Loop(f)
  <2>1. PICK g : Folding(g, 1, Seq(Rule), parsed, st)
    BY <1>4, FoldingExists
  <2>2. /\ g \in [SUBSET (1 .. 1) -> Seq(Rule)] /\ g[{}] = parsed
        /\ \A s \in SUBSET (1 .. 1) : s # {} => g[s] = st[<<Max(s), g[s \ {Max(s)}]>>]
    BY <2>1 DEF Folding
  <2>3. \A s \in SUBSET (1 .. 1) : s # {} => g[s] = HostTurn(g[s \ {Max(s)}], names[Max(s)])
    BY <1>1, <1>4, <2>2, GreatestOf
  <2> QED  BY <1>1, <2>2, <2>3
<1>6. PICK g : Loop(g) /\ ParseHostsLine(parsed, line, DefaultOptions) = g[DOMAIN names]
  BY <1>2, <1>5
<1>7. g[{}] = parsed /\ g[1 .. 1] = HostTurn(g[(1 .. 1) \ {Max(1 .. 1)}], names[Max(1 .. 1)])
  <2>1. 1 .. 1 # {} /\ {} \in SUBSET (1 .. 1) /\ 1 .. 1 \in SUBSET (1 .. 1)
    OBVIOUS
  <2>2. \A s \in SUBSET (1 .. 1) : g[s] = IF s = {} THEN parsed
                                          ELSE HostTurn(g[s \ {Max(s)}], names[Max(s)])
    BY <1>1, <1>6
  <2> QED  BY <2>1, <2>2
<1>8. Max(1 .. 1) = 1 /\ (1 .. 1) \ {1} = {}
  <2>1. 1 \in Nat /\ 1 \in 1 .. 1
    OBVIOUS
  <2>2. Max(1 .. 1) = 1
    BY <2>1, FirstPositions
  <2> QED  BY <2>2
<1> QED  BY <1>1, <1>6, <1>7, <1>8, <1>n

\* Where the loop over the lines of a hosts file stands after each line.
LEMMA HostsTurns ==
    ASSUME NEW lines, NEW n \in Nat, DOMAIN lines = 1 .. n, Len(lines) = n,
           \A i \in 1 .. n, q \in Seq(Rule) :
              ParseHostsLine(q, lines[i], DefaultOptions) \in Seq(Rule)
    PROVE  \E r : /\ r[0] = <<>>
                  /\ \A k \in 1 .. n : r[k] = ParseHostsLine(r[k - 1], lines[k], DefaultOptions)
                  /\ \A k \in 0 .. n : r[k] \in Seq(Rule)
                  /\ n # 0 => ParseHosts(lines, DefaultOptions).rules = r[n]
<1> DEFINE HostTurn(q, line) == IF Full(q, DefaultOptions) THEN q
                            ELSE ParseHostsLine(q, line, DefaultOptions)
           Loop(f) == f = [s \in SUBSET (DOMAIN lines) |->
                              IF s = {} THEN <<>> ELSE HostTurn(f[s \ {Max(s)}], lines[Max(s)])]
           st == [x \in (1 .. n) \X Seq(Rule) |-> HostTurn(x[2], lines[x[1]])]
<1>1. <<>> \in Seq(Rule) /\ (n # 0 => lines # <<>>)
  BY EmptySeq
<1>2. n # 0 => ParseHosts(lines, DefaultOptions).rules = (CHOOSE f : Loop(f))[DOMAIN lines]
  BY <1>1 DEF ParseHosts, Accept, FoldLeft, MapThenFoldSet
<1>3. \A q \in Seq(Rule), i \in 1 .. n :
         /\ HostTurn(q, lines[i]) = ParseHostsLine(q, lines[i], DefaultOptions)
         /\ HostTurn(q, lines[i]) \in Seq(Rule)
  BY DEF Full, DefaultOptions
<1> HIDE DEF HostTurn
<1>4. /\ st \in [(1 .. n) \X Seq(Rule) -> Seq(Rule)]
      /\ \A i \in 1 .. n, q \in Seq(Rule) : st[<<i, q>>] = HostTurn(q, lines[i])
  BY <1>3
<1> HIDE DEF st
<1>5. \E f : Loop(f)
  <2>1. PICK g : Folding(g, n, Seq(Rule), <<>>, st)
    BY <1>1, <1>4, FoldingExists
  <2>2. /\ g \in [SUBSET (1 .. n) -> Seq(Rule)] /\ g[{}] = <<>>
        /\ \A s \in SUBSET (1 .. n) : s # {} => g[s] = st[<<Max(s), g[s \ {Max(s)}]>>]
    BY <2>1 DEF Folding
  <2>3. \A s \in SUBSET (1 .. n) : s # {} => g[s] = HostTurn(g[s \ {Max(s)}], lines[Max(s)])
    BY <1>4, <2>2, GreatestOf
  <2> QED  BY <2>2, <2>3
<1>6. PICK g : /\ Loop(g)
               /\ n # 0 => ParseHosts(lines, DefaultOptions).rules = g[DOMAIN lines]
  BY <1>2, <1>5
<1>7. FoldsIn(g, n, Seq(Rule), <<>>, st)
  <2>1. g[{}] = <<>> /\ \A s \in SUBSET (1 .. n) :
            s # {} => g[s] = HostTurn(g[s \ {Max(s)}], lines[Max(s)])
    BY <1>6
  <2>2. \A s \in SUBSET (1 .. n) : s # {} => Max(s) \in 1 .. n
    BY GreatestOf
  <2> QED  BY <1>4, <2>1, <2>2 DEF FoldsIn
<1>8. PICK r : Run(r, g, n, Seq(Rule), <<>>, st)
  BY <1>1, <1>4, <1>7, FoldRuns
<1>9. \A k \in 1 .. n : r[k] = ParseHostsLine(r[k - 1], lines[k], DefaultOptions)
  <2> TAKE k \in 1 .. n
  <2>1. k - 1 \in 0 .. n
    OBVIOUS
  <2> QED  BY <1>3, <1>4, <1>8, <2>1 DEF Run
<1> QED  BY <1>6, <1>8, <1>9 DEF Run

\* The lines of one list do to what is kept of the rules what the list does in JSON.
LEMMA HostsListAdds ==
    ASSUME NEW parsed \in Seq(Rule), NEW items \in Seq(Item), NEW action \in {"Block", "Allow"},
           \A i \in DOMAIN items : items[i].kind = "string",
           NEW m \in Nat, NEW r, r[m] = Those(parsed, Elsewhere),
           \A k \in 1 .. Len(items) :
              r[m + k] = ParseHostsLine(r[m + k - 1], OneName(KindOf(action), items[k].domain),
                                        DefaultOptions)
    PROVE  r[m + Len(items)] = Those(ParseRuleArray(parsed, items, action, DefaultOptions),
                                     Elsewhere)
<1>n. PICK n : n = Len(items)
  OBVIOUS
<1>1. n \in Nat /\ DOMAIN items = 1 .. n /\ \A i \in 1 .. n : items[i] \in Item
  BY <1>n, LenProperties, ElementOfSeq
<1>o. DefaultOptions \in RuleParserOptions
  BY DEF DefaultOptions, RuleParserOptions
<1>2. PICK x : /\ x[0] = [rules |-> parsed, full |-> FALSE]
               /\ \A k \in 1 .. Len(items) :
                     x[k] = ArrayTurn(x[k - 1], items[k], action, DefaultOptions)
               /\ \A k \in 0 .. Len(items) : x[k] \in ArrayState
               /\ ParseRuleArray(parsed, items, action, DefaultOptions) = x[Len(items)].rules
  BY <1>o, ArrayTurns
<1> DEFINE Good(k) == ~x[k].full /\ r[m + k] = Those(x[k].rules, Elsewhere)
           P == {k \in 0 .. n : Good(k)}
<1>3. Good(0)
  BY <1>2
<1>4. ASSUME NEW k \in 0 .. n - 1, Good(k)
      PROVE  Good(k + 1)
  <2>1. /\ k + 1 \in 1 .. n /\ (k + 1) - 1 = k /\ k \in 0 .. n
        /\ m + (k + 1) - 1 = m + k
    BY <1>1
  <2>2. PICK item \in Item : item = items[k + 1]
    BY <1>1, <2>1
  <2>3. item.kind = "string" /\ item.domain \in Text
    <3>1. item.kind = "string"
      BY <1>1, <2>1, <2>2
    <3> QED  BY <3>1 DEF Item
  <2>4. PICK rules \in Seq(Rule) : rules = x[k].rules
    BY <1>2, <1>n, <2>1 DEF ArrayState
  <2>5. PICK more :
            more = Adding(rules, ItemRule(item, action, DefaultOptions), DefaultOptions)
    OBVIOUS
  <2>6. x[k + 1] = ArrayTurn(x[k], item, action, DefaultOptions)
    BY <1>2, <1>n, <2>1, <2>2
  <2>7. x[k + 1] = [rules |-> more, full |-> Full(more, DefaultOptions)]
    BY <1>4, <2>4, <2>5, <2>6 DEF ArrayTurn
  <2>8. ~Full(more, DefaultOptions)
    BY DEF Full, DefaultOptions
  <2>9. r[m + (k + 1)] = ParseHostsLine(r[m + k], OneName(KindOf(action), item.domain),
                                        DefaultOptions)
    BY <1>n, <2>1, <2>2
  <2>10. PICK kept : kept = Those(rules, Elsewhere)
    OBVIOUS
  <2>11. kept \in Seq(Rule) /\ r[m + k] = kept
    BY <1>4, <2>4, <2>10, SelectionIsList
  <2>12. r[m + (k + 1)] = Adding(kept, HostRule(item.domain, action, DefaultOptions),
                                 DefaultOptions)
    BY <2>3, <2>9, <2>11, OneNameTurn
  <2>13. r[m + (k + 1)] = Those(more, Elsewhere)
    BY <2>3, <2>5, <2>10, <2>12, HostAdds
  <2> QED  BY <2>7, <2>8, <2>13
<1>5. \A k \in 0 .. n : Good(k)
  <2>1. 0 \in P
    BY <1>1, <1>3
  <2>2. \A k \in 0 .. n - 1 : k \in P => k + 1 \in P
    BY <1>1, <1>4
  <2>3. n \in Nat
    BY <1>1
  <2> HIDE DEF P
  <2>4. \A k \in 0 .. n : k \in P
    BY <2>1, <2>2, <2>3, UpTo
  <2> QED  BY <2>4 DEF P
<1>6. Good(n)
  BY <1>1, <1>5
<1> QED  BY <1>2, <1>6, <1>n

\* Nothing is added by an empty list.
LEMMA EmptyArray ==
    ASSUME NEW parsed \in Seq(Rule), NEW action \in {"Block", "Allow"}
    PROVE  ParseRuleArray(parsed, <<>>, action, DefaultOptions) = parsed
<1>n. PICK items : items = <<>>
  OBVIOUS
<1>1. items \in Seq(Item) /\ Len(items) = 0
  BY <1>n, EmptySeq
<1>o. DefaultOptions \in RuleParserOptions
  BY DEF DefaultOptions, RuleParserOptions
<1>2. PICK x : /\ x[0] = [rules |-> parsed, full |-> FALSE]
               /\ \A k \in 1 .. Len(items) :
                     x[k] = ArrayTurn(x[k - 1], items[k], action, DefaultOptions)
               /\ \A k \in 0 .. Len(items) : x[k] \in ArrayState
               /\ ParseRuleArray(parsed, items, action, DefaultOptions) = x[Len(items)].rules
  BY <1>o, <1>1, ArrayTurns
<1> QED  BY <1>1, <1>2, <1>n

\* What parseRuleArray leaves is a list of rules.
LEMMA ArrayIsRules ==
    ASSUME NEW parsed \in Seq(Rule), NEW items \in Seq(Item), NEW action \in {"Block", "Allow"}
    PROVE  ParseRuleArray(parsed, items, action, DefaultOptions) \in Seq(Rule)
<1>o. DefaultOptions \in RuleParserOptions
  BY DEF DefaultOptions, RuleParserOptions
<1>2. PICK x : /\ x[0] = [rules |-> parsed, full |-> FALSE]
               /\ \A k \in 1 .. Len(items) :
                     x[k] = ArrayTurn(x[k - 1], items[k], action, DefaultOptions)
               /\ \A k \in 0 .. Len(items) : x[k] \in ArrayState
               /\ ParseRuleArray(parsed, items, action, DefaultOptions) = x[Len(items)].rules
  BY <1>o, ArrayTurns
<1>3. Len(items) \in 0 .. Len(items)
  BY LenProperties
<1> QED  BY <1>2, <1>3 DEF ArrayState

\* Two lists joined, position by position.
IsJoined(lines, first, second, m, n) ==
    /\ DOMAIN lines = 1 .. m + n /\ Len(lines) = m + n /\ m + n \in Nat
    /\ \A i \in 1 .. m : lines[i] = first[i]
    /\ \A i \in 1 .. n : lines[m + i] = second[i]

\* Two lists put together are the first, then the second.
LEMMA Joined ==
    ASSUME NEW S, NEW first \in Seq(S), NEW second \in Seq(S),
           NEW m \in Nat, m = Len(first), NEW n \in Nat, n = Len(second)
    PROVE  IsJoined(first \o second, first, second, m, n)
<1> DEFINE lines == first \o second
<1>1. lines \in Seq(S) /\ Len(lines) = m + n
  BY ConcatProperties
<1>2. DOMAIN lines = 1 .. m + n
  BY <1>1, LenProperties
<1>3. \A i \in 1 .. m + n : lines[i] = IF i <= m THEN first[i] ELSE second[i - m]
  BY ConcatProperties
<1>4. \A i \in 1 .. n : m + i \in 1 .. m + n /\ ~(m + i <= m) /\ (m + i) - m = i
  OBVIOUS
<1>5. \A i \in 1 .. m : i \in 1 .. m + n /\ i <= m
  OBVIOUS
<1> HIDE DEF lines
<1>6. (\A i \in 1 .. m : lines[i] = first[i]) /\ \A i \in 1 .. n : lines[m + i] = second[i]
  BY <1>3, <1>4, <1>5
<1>7. IsJoined(lines, first, second, m, n)
  BY <1>1, <1>2, <1>6 DEF IsJoined
<1> QED  BY <1>7 DEF lines

\* What JSON makes of a blocked and an allowed list.
BothLists(blocked, allowed) ==
    ParseRuleArray(ParseRuleArray(<<>>, blocked, "Block", DefaultOptions),
                   allowed, "Allow", DefaultOptions)

\* The same names in a hosts file: the same rules, but for those of this machine.
LEMMA HostsAgree ==
    ASSUME NEW blocked \in Seq(Item), NEW allowed \in Seq(Item),
           \A i \in DOMAIN blocked : blocked[i].kind = "string",
           \A i \in DOMAIN allowed : allowed[i].kind = "string"
    PROVE  ParseHosts(HostsList("entry", blocked) \o HostsList("allow", allowed),
                      DefaultOptions).rules
             = Those(BothLists(blocked, allowed), Elsewhere)
<1>b. PICK m : m = Len(blocked)
  OBVIOUS
<1>a. PICK n : n = Len(allowed)
  OBVIOUS
<1>1. /\ m \in Nat /\ DOMAIN blocked = 1 .. m /\ \A i \in 1 .. m : blocked[i] \in Item
      /\ n \in Nat /\ DOMAIN allowed = 1 .. n /\ \A i \in 1 .. n : allowed[i] \in Item
  BY <1>a, <1>b, LenProperties, ElementOfSeq
<1>p. PICK first : first = HostsList("entry", blocked)
  OBVIOUS
<1>q. PICK second : second = HostsList("allow", allowed)
  OBVIOUS
<1>l. PICK lines : lines = first \o second
  OBVIOUS
<1>k. KindOf("Block") = "entry" /\ KindOf("Allow") = "allow"
  BY DEF KindOf
<1>2. /\ first = [i \in 1 .. m |-> OneName(KindOf("Block"), blocked[i].domain)]
      /\ second = [i \in 1 .. n |-> OneName(KindOf("Allow"), allowed[i].domain)]
  BY <1>1, <1>k, <1>p, <1>q DEF HostsList, OneName
<1> DEFINE S == {first[i] : i \in 1 .. m} \cup {second[i] : i \in 1 .. n}
<1>3. first \in Seq(S) /\ second \in Seq(S) /\ Len(first) = m /\ Len(second) = n
  <2>1. (\A i \in 1 .. m : first[i] \in S) /\ \A i \in 1 .. n : second[i] \in S
    OBVIOUS
  <2> HIDE DEF S
  <2>2. first \in [1 .. m -> S]
    BY <1>2, <2>1
  <2>3. second \in [1 .. n -> S]
    BY <1>2, <2>1
  <2> QED  BY <1>1, <2>2, <2>3
<1> HIDE DEF S
<1>4. /\ DOMAIN lines = 1 .. m + n /\ Len(lines) = m + n /\ m + n \in Nat
      /\ \A i \in 1 .. m : lines[i] = first[i]
      /\ \A i \in 1 .. n : lines[m + i] = second[i]
  <2>1. IsJoined(first \o second, first, second, m, n)
    BY <1>1, <1>3, Joined
  <2> QED  BY <1>l, <2>1 DEF IsJoined
<1>5. /\ \A i \in 1 .. m : lines[i] = OneName(KindOf("Block"), blocked[i].domain)
      /\ \A i \in 1 .. n : lines[m + i] = OneName(KindOf("Allow"), allowed[i].domain)
  BY <1>2, <1>4
<1>6. \A i \in 1 .. m : blocked[i].domain \in Text
  BY <1>1 DEF Item
<1>7. \A i \in 1 .. n : allowed[i].domain \in Text
  BY <1>1 DEF Item
<1>8. \A i \in 1 .. m + n, q \in Seq(Rule) :
         ParseHostsLine(q, lines[i], DefaultOptions) \in Seq(Rule)
  <2> SUFFICES ASSUME NEW i \in 1 .. m + n, NEW q \in Seq(Rule)
               PROVE  ParseHostsLine(q, lines[i], DefaultOptions) \in Seq(Rule)
    OBVIOUS
  <2>1. \A text \in Text, action \in {"Block", "Allow"} :
           ParseHostsLine(q, OneName(KindOf(action), text), DefaultOptions) \in Seq(Rule)
    BY OneNameTurn, HostRuleIsRules
  <2>2. CASE i \in 1 .. m
    BY <1>5, <1>6, <2>1, <2>2
  <2>3. CASE i \notin 1 .. m
    <3>1. PICK j \in 1 .. n : i = m + j
      <4>1. i - m \in 1 .. n /\ i = m + (i - m)
        BY <1>1, <2>3
      <4> QED  BY <4>1
    <3> QED  BY <1>5, <1>7, <2>1, <3>1
  <2> QED  BY <2>2, <2>3
<1>9. PICK r : /\ r[0] = <<>>
               /\ \A k \in 1 .. m + n :
                     r[k] = ParseHostsLine(r[k - 1], lines[k], DefaultOptions)
               /\ \A k \in 0 .. m + n : r[k] \in Seq(Rule)
               /\ m + n # 0 => ParseHosts(lines, DefaultOptions).rules = r[m + n]
  BY <1>4, <1>8, HostsTurns
<1>10. PICK half : half = ParseRuleArray(<<>>, blocked, "Block", DefaultOptions)
  OBVIOUS
<1>e. <<>> \in Seq(Rule) /\ Those(<<>>, Elsewhere) = <<>>
  <2>1. <<>> \in Seq(Rule) /\ Len(<<>>) = 0
    BY EmptySeq
  <2>2. PICK none : none = <<>>
    OBVIOUS
  <2>3. none \in Seq(Rule)
    BY <2>1, <2>2
  <2>4. PICK t : /\ t[0] = <<>>
                 /\ \A k \in 1 .. Len(none) : t[k] = Selecting(t[k - 1], none[k], Elsewhere)
                 /\ \A k \in 0 .. Len(none) : t[k] \in Seq(Rule)
                 /\ Those(none, Elsewhere) = t[Len(none)]
    BY <2>3, SelectionTurns
  <2> QED  BY <2>1, <2>2, <2>4
<1>11. r[m] = Those(half, Elsewhere)
  <2>1. PICK none \in Seq(Rule) : none = <<>>
    BY <1>e
  <2>2. r[0] = Those(none, Elsewhere)
    BY <1>9, <1>e, <2>1
  <2>3. \A k \in 1 .. m : r[0 + k] = ParseHostsLine(r[0 + k - 1],
                             OneName(KindOf("Block"), blocked[k].domain), DefaultOptions)
    <3> TAKE k \in 1 .. m
    <3>1. k \in 1 .. m + n /\ 0 + k = k /\ 0 + k - 1 = k - 1
      BY <1>1
    <3> QED  BY <1>5, <1>9, <3>1
  <2>4. r[0 + m] = Those(ParseRuleArray(none, blocked, "Block", DefaultOptions), Elsewhere)
    BY <1>b, <2>2, <2>3, HostsListAdds
  <2> QED  BY <1>1, <1>10, <2>1, <2>4
<1>12. half \in Seq(Rule)
  BY <1>10, <1>e, ArrayIsRules
<1>13. r[m + n] = Those(ParseRuleArray(half, allowed, "Allow", DefaultOptions), Elsewhere)
  <2>1. \A k \in 1 .. n : r[m + k] = ParseHostsLine(r[m + k - 1],
                             OneName(KindOf("Allow"), allowed[k].domain), DefaultOptions)
    <3> TAKE k \in 1 .. n
    <3>1. PICK j \in 1 .. m + n : j = m + k
      BY <1>1
    <3>2. r[j] = ParseHostsLine(r[j - 1], lines[j], DefaultOptions)
      BY <1>9
    <3>3. lines[j] = OneName(KindOf("Allow"), allowed[k].domain)
      BY <1>5, <3>1
    <3>4. m + k - 1 = j - 1
      BY <1>1, <3>1
    <3> QED  BY <3>1, <3>2, <3>3, <3>4
  <2> QED  BY <1>1, <1>a, <1>11, <1>12, <2>1, HostsListAdds
<1>14. ParseHosts(lines, DefaultOptions).rules = r[m + n]
  <2>1. CASE m + n = 0
    <3>1. lines = <<>>
      BY <1>1, <1>3, <1>l, <2>1, EmptySeq, ConcatEmptySeq
    <3>2. ParseHosts(lines, DefaultOptions).rules = <<>>
      BY <3>1 DEF ParseHosts, Refuse
    <3> QED  BY <1>9, <2>1, <3>2
  <2> QED  BY <1>9, <2>1
<1> QED  BY <1>10, <1>13, <1>14, <1>l, <1>p, <1>q DEF BothLists

YAMLKey == {"blocked", "blocklist", "whitelist", "allowlist", "allowed", "priority", "none"}

YAMLState == [fields : [YAMLKey -> Field], currentKey : YAMLKey, inArray : BOOLEAN,
              currentIndent : Nat]

Reading(fields, key, inArray) ==
    [fields |-> fields, currentKey |-> key, inArray |-> inArray, currentIndent |-> 0]

\* The lines of a list.
KeyLine(key) == [kind |-> "key", indent |-> 0, key |-> key, item |-> NoItem]
ItemLine(item) == [kind |-> "item", indent |-> 2, key |-> "none", item |-> item]

ListOf(items) == [form |-> "list", items |-> items]

\* A key starts its list.
LEMMA ReadKey ==
    ASSUME NEW q \in YAMLState, NEW key \in {"blocked", "allowed"}
    PROVE  ReadLine(q, KeyLine(key)) = Reading(q.fields, key, FALSE)
<1>1. KeyLine(key).kind = "key" /\ KeyLine(key).key = key /\ KeyLine(key).indent = 0
  BY DEF KeyLine
<1>2. ReadLine(q, KeyLine(key))
        = [q EXCEPT !.currentKey = key, !.inArray = FALSE, !.currentIndent = 0]
  BY <1>1 DEF ReadLine
<1> QED  BY <1>2 DEF YAMLState, Reading

Filed(fields, key, items) == [fields EXCEPT ![key] = ListOf(items)]

\* An item below a key goes to the key's list, the first one to a new list.
LEMMA ReadFirst ==
    ASSUME NEW fields \in [YAMLKey -> Field], NEW key \in {"blocked", "allowed"},
           NEW item \in Item
    PROVE  ReadLine(Reading(fields, key, FALSE), ItemLine(item))
             = Reading(Filed(fields, key, Append(<<>>, item)), key, TRUE)
<1>1. ItemLine(item).kind = "item" /\ ItemLine(item).indent = 2 /\ ItemLine(item).item = item
  BY DEF ItemLine
<1>2. PICK q : q = Reading(fields, key, FALSE)
  OBVIOUS
<1>3. q.currentKey = key /\ q.currentIndent = 0 /\ q.fields = fields /\ ~q.inArray
  BY <1>2 DEF Reading
<1>4. ReadLine(q, ItemLine(item))
        = [q EXCEPT !.fields[key] = ListOf(Append(<<>>, item)), !.inArray = TRUE]
  BY <1>1, <1>3 DEF ReadLine, ListOf
<1> QED  BY <1>2, <1>4 DEF Reading, Filed

\* Further items go to the end of the list that the first has begun.
LEMMA ReadNext ==
    ASSUME NEW fields \in [YAMLKey -> Field], NEW key \in {"blocked", "allowed"},
           NEW item \in Item
    PROVE  ReadLine(Reading(fields, key, TRUE), ItemLine(item))
             = Reading(Filed(fields, key, Append(fields[key].items, item)), key, TRUE)
<1>1. ItemLine(item).kind = "item" /\ ItemLine(item).indent = 2 /\ ItemLine(item).item = item
  BY DEF ItemLine
<1>2. PICK q : q = Reading(fields, key, TRUE)
  OBVIOUS
<1>3. q.currentKey = key /\ q.currentIndent = 0 /\ q.fields = fields /\ q.inArray
  BY <1>2 DEF Reading
<1>4. ReadLine(q, ItemLine(item))
        = [q EXCEPT !.fields[key] = ListOf(Append(fields[key].items, item)), !.inArray = TRUE]
  BY <1>1, <1>3 DEF ReadLine, ListOf
<1> QED  BY <1>2, <1>4 DEF Reading, Filed

\* A list is a field.
LEMMA ListIsField ==
    ASSUME NEW items \in Seq(Item) PROVE ListOf(items) \in Field
BY DEF ListOf, Field

\* Whatever line of a list comes, the state stays one.
LEMMA KeyStays ==
    ASSUME NEW q \in YAMLState, NEW key \in {"blocked", "allowed"}
    PROVE  ReadLine(q, KeyLine(key)) \in YAMLState
<1>1. q.fields \in [YAMLKey -> Field]
  BY DEF YAMLState
<1>2. key \in YAMLKey
  BY DEF YAMLKey
<1>3. Reading(q.fields, key, FALSE) \in YAMLState
  BY <1>1, <1>2 DEF YAMLState, Reading
<1> QED  BY <1>3, ReadKey

\* After an item the state is one still.
LEMMA ItemStays ==
    ASSUME NEW q \in YAMLState, NEW item \in Item
    PROVE  ReadLine(q, ItemLine(item)) \in YAMLState
<1>1. ItemLine(item).kind = "item" /\ ItemLine(item).item = item
  BY DEF ItemLine
<1>2. PICK more : more = Append(IF q.inArray THEN q.fields[q.currentKey].items ELSE <<>>, item)
  OBVIOUS
<1>3. more \in Seq(Item)
  <2>1. q.fields[q.currentKey].items \in Seq(Item)
    BY DEF YAMLState, Field
  <2> QED  BY <1>2, <2>1, EmptySeq, AppendProperties
<1>4. \/ ReadLine(q, ItemLine(item)) = q
      \/ ReadLine(q, ItemLine(item))
           = [q EXCEPT !.fields[q.currentKey] = ListOf(more), !.inArray = TRUE]
  BY <1>1, <1>2 DEF ReadLine, ListOf
<1>5. [q EXCEPT !.fields[q.currentKey] = ListOf(more), !.inArray = TRUE] \in YAMLState
  BY <1>3, ListIsField DEF YAMLState
<1> QED  BY <1>4, <1>5

\* Where parseYAMLString's loop stands after each line.
NoFields == [k \in YAMLKey |-> Missing]

\* Where parseYAMLString stands after each line.
LEMMA ReadTurns ==
    ASSUME NEW lines, NEW n \in Nat, DOMAIN lines = 1 .. n,
           \A i \in 1 .. n, q \in YAMLState : ReadLine(q, lines[i]) \in YAMLState
    PROVE  \E r : /\ r[0] = Reading(NoFields, "none", FALSE)
                  /\ \A k \in 1 .. n : r[k] = ReadLine(r[k - 1], lines[k])
                  /\ \A k \in 0 .. n : r[k] \in YAMLState
                  /\ YAMLFields(lines) = r[n].fields
<1> DEFINE Loop(f) == f = [s \in SUBSET (DOMAIN lines) |->
                              IF s = {} THEN Reading(NoFields, "none", FALSE)
                              ELSE ReadLine(f[s \ {Max(s)}], lines[Max(s)])]
           st == [x \in (1 .. n) \X YAMLState |-> ReadLine(x[2], lines[x[1]])]
<1>1. Reading(NoFields, "none", FALSE) \in YAMLState
  <2>1. Missing \in Field
    BY EmptySeq DEF Missing, Field
  <2> QED  BY <2>1 DEF Reading, NoFields, YAMLState, YAMLKey
<1>2. YAMLFields(lines) = (CHOOSE f : Loop(f))[DOMAIN lines].fields
  BY DEF YAMLFields, FoldLeft, MapThenFoldSet, Reading, NoFields, YAMLKey
<1>4. /\ st \in [(1 .. n) \X YAMLState -> YAMLState]
      /\ \A i \in 1 .. n, q \in YAMLState : st[<<i, q>>] = ReadLine(q, lines[i])
  OBVIOUS
<1> HIDE DEF st
<1>b. PICK base \in YAMLState : base = Reading(NoFields, "none", FALSE)
  BY <1>1
<1>5. \E f : Loop(f)
  <2>1. PICK g : Folding(g, n, YAMLState, base, st)
    BY <1>4, FoldingExists
  <2>2. /\ g \in [SUBSET (1 .. n) -> YAMLState] /\ g[{}] = base
        /\ \A s \in SUBSET (1 .. n) : s # {} => g[s] = st[<<Max(s), g[s \ {Max(s)}]>>]
    BY <2>1 DEF Folding
  <2>3. \A s \in SUBSET (1 .. n) : s # {} => g[s] = ReadLine(g[s \ {Max(s)}], lines[Max(s)])
    BY <1>4, <2>2, GreatestOf
  <2> QED  BY <1>b, <2>2, <2>3
<1>6. PICK g : Loop(g) /\ YAMLFields(lines) = g[DOMAIN lines].fields
  BY <1>2, <1>5
<1>7. FoldsIn(g, n, YAMLState, base, st)
  <2>1. g[{}] = base /\ \A s \in SUBSET (1 .. n) :
            s # {} => g[s] = ReadLine(g[s \ {Max(s)}], lines[Max(s)])
    BY <1>6, <1>b
  <2>2. \A s \in SUBSET (1 .. n) : s # {} => Max(s) \in 1 .. n
    BY GreatestOf
  <2> QED  BY <1>4, <2>1, <2>2 DEF FoldsIn
<1>8. PICK r : Run(r, g, n, YAMLState, base, st)
  BY <1>4, <1>7, FoldRuns
<1>9. \A k \in 1 .. n : r[k] = ReadLine(r[k - 1], lines[k])
  <2> TAKE k \in 1 .. n
  <2>1. k - 1 \in 0 .. n
    OBVIOUS
  <2> QED  BY <1>4, <1>8, <2>1 DEF Run
<1> QED  BY <1>6, <1>8, <1>9, <1>b DEF Run

\* The lines of a list, from where they begin: its key gets its items.
LEMMA ReadList ==
    ASSUME NEW items \in Seq(Item), NEW key \in {"blocked", "allowed"}, NEW m \in Nat,
           NEW r, r[m] \in YAMLState,
           r[m + 1] = ReadLine(r[m], KeyLine(key)),
           \A k \in 1 .. Len(items) : r[m + 1 + k] = ReadLine(r[m + k], ItemLine(items[k]))
    PROVE  r[m + 1 + Len(items)].fields
             = IF items = <<>> THEN r[m].fields
               ELSE Filed(r[m].fields, key, items)
<1>n. PICK n : n = Len(items)
  OBVIOUS
<1>f. PICK fields \in [YAMLKey -> Field] : fields = r[m].fields
  BY DEF YAMLState
<1>1. n \in Nat /\ DOMAIN items = 1 .. n /\ \A i \in 1 .. n : items[i] \in Item
  BY <1>n, LenProperties, ElementOfSeq
<1> DEFINE First(k) == SubSeq(items, 1, k)
           Read(k) == IF k = 0 THEN Reading(fields, key, FALSE)
                      ELSE Reading(Filed(fields, key, First(k)), key, TRUE)
           P == {k \in 0 .. n : r[m + 1 + k] = Read(k)}
<1>2. 0 \in P
  <2>1. r[m + 1] = Reading(fields, key, FALSE)
    BY <1>f, ReadKey
  <2>2. m + 1 + 0 = m + 1 /\ 0 \in 0 .. n
    BY <1>1
  <2> QED  BY <2>1, <2>2
<1>3. ASSUME NEW k \in 0 .. n - 1, k \in P
      PROVE  k + 1 \in P
  <2>1. k + 1 \in 1 .. n /\ k + 1 \in 0 .. n /\ k \in 0 .. n /\ m + (k + 1) = m + 1 + k
        /\ k + 1 # 0
    BY <1>1
  <2>2. PICK item \in Item : item = items[k + 1]
    BY <1>1, <2>1
  <2>3. r[m + 1 + (k + 1)] = ReadLine(Read(k), ItemLine(item))
    <3>1. r[m + 1 + (k + 1)] = ReadLine(r[m + (k + 1)], ItemLine(items[k + 1]))
      BY <1>n, <2>1
    <3>2. r[m + 1 + k] = Read(k)
      BY <1>3
    <3> HIDE DEF Read
    <3> QED  BY <2>1, <2>2, <3>1, <3>2
  <2>4. First(k + 1) = Append(First(k), item) /\ First(k) \in Seq(Item)
    <3>1. First(k + 1) = First(k) \o <<items[k + 1]>>
      BY <1>n, <1>1, <2>1, SubSeqRecursiveSecond
    <3>2. First(k) \in Seq(Item)
      BY <1>1, <2>1, SubSeqProperties
    <3> HIDE DEF First
    <3> QED  BY <2>2, <3>1, <3>2, AppendIsConcat
  <2>5. PICK q : q = First(k)
    OBVIOUS
  <2>k. key \in YAMLKey
    BY DEF YAMLKey
  <2>6. ReadLine(Read(k), ItemLine(item))
          = Reading(Filed(fields, key, Append(q, item)), key, TRUE)
    <3>1. CASE k = 0
      <4>1. q = <<>>
        BY <2>5, <3>1, SubSeqEmpty
      <4>2. ReadLine(Reading(fields, key, FALSE), ItemLine(item))
              = Reading(Filed(fields, key, Append(q, item)), key, TRUE)
        BY <4>1, ReadFirst
      <4> QED  BY <3>1, <4>1, <4>2
    <3>2. CASE k # 0
      <4>1. PICK before : before = Filed(fields, key, q)
        OBVIOUS
      <4>2. /\ before \in [YAMLKey -> Field] /\ before[key] = ListOf(q)
            /\ \A x : Filed(before, key, x) = Filed(fields, key, x)
        <5>1. ListOf(q) \in Field
          BY <2>4, <2>5, ListIsField
        <5>2. before \in [YAMLKey -> Field] /\ before[key] = ListOf(q)
          BY <2>k, <4>1, <5>1 DEF Filed
        <5> QED  BY <4>1, <5>2 DEF Filed
      <4>3. before[key].items = q
        BY <4>2 DEF ListOf
      <4>4. ReadLine(Reading(before, key, TRUE), ItemLine(item))
              = Reading(Filed(before, key, Append(q, item)), key, TRUE)
        BY <4>2, <4>3, ReadNext
      <4>5. Read(k) = Reading(before, key, TRUE)
        BY <2>5, <3>2, <4>1
      <4> QED  BY <4>2, <4>4, <4>5
    <3> QED  BY <3>1, <3>2
  <2>7. Read(k + 1) = Reading(Filed(fields, key, Append(q, item)), key, TRUE)
    BY <2>1, <2>4, <2>5
  <2> HIDE DEF Read
  <2> QED  BY <2>1, <2>3, <2>6, <2>7
<1>4. n \in P
  <2>1. n \in 0 .. n
    BY <1>1
  <2>2. \A k \in 0 .. n - 1 : k \in P => k + 1 \in P
    BY <1>3
  <2> HIDE DEF P
  <2> QED  BY <1>1, <1>2, <2>1, <2>2, UpTo
<1>5. First(n) = items
  BY <1>n, SubSeqFull
<1>6. n = 0 <=> items = <<>>
  BY <1>n, EmptySeq
<1>7. Read(n).fields = IF n = 0 THEN fields ELSE Filed(fields, key, items)
  BY <1>5 DEF Reading
<1> QED  BY <1>4, <1>6, <1>7, <1>f, <1>n

\* The lines that stand for a list.
Line == {KeyLine(key) : key \in {"blocked", "allowed"}} \cup {ItemLine(item) : item \in Item}

ListLines(lines, key, items) ==
    /\ lines \in Seq(Line) /\ Len(lines) = Len(items) + 1 /\ lines[1] = KeyLine(key)
    /\ \A i \in 1 .. Len(items) : lines[1 + i] = ItemLine(items[i])

\* The lines for a list are its key and its items.
LEMMA YAMLListLines ==
    ASSUME NEW items \in Seq(Item), NEW key \in {"blocked", "allowed"}
    PROVE  ListLines(YAMLList(key, items), key, items)
<1>n. PICK n : n = Len(items)
  OBVIOUS
<1>1. n \in Nat /\ DOMAIN items = 1 .. n /\ \A i \in 1 .. n : items[i] \in Item
  BY <1>n, LenProperties, ElementOfSeq
<1>f. PICK first : first = <<KeyLine(key)>>
  OBVIOUS
<1>s. PICK second : second = [i \in 1 .. n |-> ItemLine(items[i])]
  OBVIOUS
<1>2. KeyLine(key) \in Line /\ \A i \in 1 .. n : ItemLine(items[i]) \in Line
  BY <1>1 DEF Line
<1>3. second \in [1 .. n -> Line]
  BY <1>2, <1>s
<1>4. first \in Seq(Line) /\ Len(first) = 1 /\ first[1] = KeyLine(key)
  BY <1>2, <1>f
<1>5. second \in Seq(Line) /\ Len(second) = n
  BY <1>1, <1>3
<1>6. YAMLList(key, items) = first \o second
  BY <1>1, <1>f, <1>s DEF YAMLList, KeyLine, ItemLine
<1>7. IsJoined(first \o second, first, second, 1, n)
  BY <1>1, <1>4, <1>5, Joined
<1>8. first \o second \in Seq(Line)
  BY <1>4, <1>5, ConcatProperties
<1>l. PICK lines : lines = first \o second
  OBVIOUS
<1>9. /\ lines \in Seq(Line) /\ Len(lines) = n + 1 /\ lines[1] = KeyLine(key)
      /\ \A i \in 1 .. n : lines[1 + i] = ItemLine(items[i])
  <2>1. /\ Len(lines) = 1 + n /\ (\A i \in 1 .. 1 : lines[i] = first[i])
        /\ \A i \in 1 .. n : lines[1 + i] = second[i]
    BY <1>7, <1>l DEF IsJoined
  <2>2. 1 \in 1 .. 1
    OBVIOUS
  <2> QED  BY <1>1, <1>4, <1>8, <1>l, <1>s, <2>1, <2>2
<1> QED  BY <1>6, <1>9, <1>l, <1>n DEF ListLines

\* What the two fields of the lines are read as.
YAMLReads(fields, blocked, allowed) ==
    /\ fields["blocked"] = IF blocked = <<>> THEN Missing ELSE ListOf(blocked)
    /\ fields["allowed"] = IF allowed = <<>> THEN Missing ELSE ListOf(allowed)
    /\ \A key \in {"blocklist", "whitelist", "allowlist"} : fields[key] = Missing

\* Each list is read as itself, and nothing else is.
LEMMA ReadBoth ==
    ASSUME NEW blocked \in Seq(Item), NEW allowed \in Seq(Item)
    PROVE  YAMLReads(YAMLFields(YAMLList("blocked", blocked) \o YAMLList("allowed", allowed)),
                     blocked, allowed)
<1>b. PICK m : m = Len(blocked) + 1
  OBVIOUS
<1>a. PICK n : n = Len(allowed) + 1
  OBVIOUS
<1>1. m \in Nat /\ n \in Nat /\ m > 0 /\ n > 0 /\ m - 1 = Len(blocked) /\ n - 1 = Len(allowed)
  BY <1>a, <1>b, LenProperties
<1>f. PICK first : first = YAMLList("blocked", blocked)
  OBVIOUS
<1>s. PICK second : second = YAMLList("allowed", allowed)
  OBVIOUS
<1>2. /\ first \in Seq(Line) /\ Len(first) = m /\ first[1] = KeyLine("blocked")
      /\ \A i \in 1 .. Len(blocked) : first[1 + i] = ItemLine(blocked[i])
  <2>1. ListLines(first, "blocked", blocked)
    BY <1>f, YAMLListLines
  <2> QED  BY <1>b, <2>1 DEF ListLines
<1>3. /\ second \in Seq(Line) /\ Len(second) = n /\ second[1] = KeyLine("allowed")
      /\ \A i \in 1 .. Len(allowed) : second[1 + i] = ItemLine(allowed[i])
  <2>1. ListLines(second, "allowed", allowed)
    BY <1>s, YAMLListLines
  <2> QED  BY <1>a, <2>1 DEF ListLines
<1>l. PICK lines : lines = first \o second
  OBVIOUS
<1>4. /\ DOMAIN lines = 1 .. m + n /\ m + n \in Nat /\ lines \in Seq(Line)
      /\ \A i \in 1 .. m : lines[i] = first[i]
      /\ \A i \in 1 .. n : lines[m + i] = second[i]
  <2>1. IsJoined(first \o second, first, second, m, n)
    BY <1>1, <1>2, <1>3, Joined
  <2>2. first \o second \in Seq(Line)
    BY <1>2, <1>3, ConcatProperties
  <2> QED  BY <1>l, <2>1, <2>2 DEF IsJoined
<1>5. \A i \in 1 .. m + n, q \in YAMLState : ReadLine(q, lines[i]) \in YAMLState
  <2> SUFFICES ASSUME NEW i \in 1 .. m + n, NEW q \in YAMLState
               PROVE  ReadLine(q, lines[i]) \in YAMLState
    OBVIOUS
  <2>1. lines[i] \in Line
    BY <1>4, ElementOfSeq, LenProperties
  <2>2. CASE \E key \in {"blocked", "allowed"} : lines[i] = KeyLine(key)
    BY <2>2, KeyStays
  <2>3. CASE \E item \in Item : lines[i] = ItemLine(item)
    BY <2>3, ItemStays
  <2> QED  BY <2>1, <2>2, <2>3 DEF Line
<1>6. PICK r : /\ r[0] = Reading(NoFields, "none", FALSE)
               /\ \A k \in 1 .. m + n : r[k] = ReadLine(r[k - 1], lines[k])
               /\ \A k \in 0 .. m + n : r[k] \in YAMLState
               /\ YAMLFields(lines) = r[m + n].fields
  BY <1>4, <1>5, ReadTurns
<1>7. r[m].fields = IF blocked = <<>> THEN NoFields ELSE Filed(NoFields, "blocked", blocked)
  <2>1. r[0] \in YAMLState /\ r[0].fields = NoFields
    BY <1>1, <1>6 DEF Reading
  <2>2. r[0 + 1] = ReadLine(r[0], KeyLine("blocked"))
    <3>1. 1 \in 1 .. m + n /\ 1 \in 1 .. m /\ 1 - 1 = 0 /\ 0 + 1 = 1
      BY <1>1
    <3>2. r[1] = ReadLine(r[0], lines[1]) /\ lines[1] = first[1]
      BY <1>4, <1>6, <3>1
    <3> QED  BY <1>2, <3>1, <3>2
  <2>3. \A k \in 1 .. Len(blocked) : r[0 + 1 + k] = ReadLine(r[0 + k], ItemLine(blocked[k]))
    <3> TAKE k \in 1 .. Len(blocked)
    <3>1. PICK j : j = 1 + k
      OBVIOUS
    <3>2. j \in 1 .. m + n /\ j \in 1 .. m /\ j - 1 = 0 + k /\ 0 + 1 + k = j
      BY <1>1, <3>1
    <3>3. r[j] = ReadLine(r[j - 1], lines[j]) /\ lines[j] = first[j]
      BY <1>4, <1>6, <3>2
    <3>4. first[j] = ItemLine(blocked[k])
      BY <1>2, <3>1
    <3> QED  BY <3>2, <3>3, <3>4
  <2>4. PICK z \in Nat : z = 0
    OBVIOUS
  <2>5. r[z + 1 + Len(blocked)].fields
          = IF blocked = <<>> THEN r[z].fields ELSE Filed(r[z].fields, "blocked", blocked)
    BY <2>1, <2>2, <2>3, <2>4, ReadList
  <2>6. z + 1 + Len(blocked) = m
    BY <1>1, <2>4
  <2> QED  BY <2>1, <2>4, <2>5, <2>6
<1>8. r[m + n].fields = IF allowed = <<>> THEN r[m].fields
                        ELSE Filed(r[m].fields, "allowed", allowed)
  <2>1. r[m] \in YAMLState
    BY <1>1, <1>6
  <2>2. r[m + 1] = ReadLine(r[m], KeyLine("allowed"))
    <3>1. PICK j : j = m + 1
      OBVIOUS
    <3>2. j \in 1 .. m + n /\ 1 \in 1 .. n /\ j - 1 = m
      BY <1>1, <3>1
    <3>3. r[j] = ReadLine(r[j - 1], lines[j]) /\ lines[m + 1] = second[1]
      BY <1>4, <1>6, <3>2
    <3> QED  BY <1>3, <3>1, <3>2, <3>3
  <2>3. \A k \in 1 .. Len(allowed) : r[m + 1 + k] = ReadLine(r[m + k], ItemLine(allowed[k]))
    <3> TAKE k \in 1 .. Len(allowed)
    <3>1. PICK i : i = 1 + k
      OBVIOUS
    <3>2. PICK j : j = m + i
      OBVIOUS
    <3>3. j \in 1 .. m + n /\ i \in 1 .. n /\ j - 1 = m + k /\ m + 1 + k = j
      BY <1>1, <3>1, <3>2
    <3>4. r[j] = ReadLine(r[j - 1], lines[j]) /\ lines[j] = second[i]
      BY <1>4, <1>6, <3>2, <3>3
    <3>5. second[i] = ItemLine(allowed[k])
      BY <1>3, <3>1
    <3> QED  BY <3>3, <3>4, <3>5
  <2>4. r[m + 1 + Len(allowed)].fields
          = IF allowed = <<>> THEN r[m].fields ELSE Filed(r[m].fields, "allowed", allowed)
    BY <1>1, <2>1, <2>2, <2>3, ReadList
  <2>5. m + 1 + Len(allowed) = m + n
    BY <1>1
  <2> QED  BY <2>4, <2>5
<1>9. PICK g : g = r[m].fields
  OBVIOUS
<1>10. g \in [YAMLKey -> Field] /\ NoFields \in [YAMLKey -> Field]
  <2>0. m \in 0 .. m + n /\ 0 \in 0 .. m + n
    BY <1>1
  <2>1. r[m] \in YAMLState /\ r[0] \in YAMLState
    BY <1>6, <2>0
  <2>2. r[m].fields \in [YAMLKey -> Field] /\ r[0].fields \in [YAMLKey -> Field]
    BY <2>1 DEF YAMLState
  <2> QED  BY <1>6, <1>9, <2>2 DEF Reading
<1>11. \A key \in YAMLKey : NoFields[key] = Missing
  BY DEF NoFields
<1>12. YAMLReads(r[m + n].fields, blocked, allowed)
  BY <1>7, <1>8, <1>9, <1>10, <1>11 DEF YAMLReads, Filed, YAMLKey
<1> QED  BY <1>6, <1>12, <1>f, <1>l, <1>s

\* The same lists in YAML: the same rules.
LEMMA YAMLAgrees ==
    ASSUME NEW blocked \in Seq(Item), NEW allowed \in Seq(Item)
    PROVE  ParseYAML(YAMLList("blocked", blocked) \o YAMLList("allowed", allowed),
                     DefaultOptions).rules
             = BothLists(blocked, allowed)
<1>l. PICK lines : lines = YAMLList("blocked", blocked) \o YAMLList("allowed", allowed)
  OBVIOUS
<1>f. PICK fields : fields = YAMLFields(lines)
  OBVIOUS
<1>1. YAMLReads(fields, blocked, allowed)
  BY <1>f, <1>l, ReadBoth
<1>2. lines # <<>> /\ ~\A i \in DOMAIN lines : lines[i].kind = "blank"
  <2>1. /\ ListLines(YAMLList("blocked", blocked), "blocked", blocked)
        /\ ListLines(YAMLList("allowed", allowed), "allowed", allowed)
    BY YAMLListLines
  <2>2. PICK m \in Nat : m = Len(blocked) + 1
    BY LenProperties
  <2>3. PICK n \in Nat : n = Len(allowed) + 1
    BY LenProperties
  <2>4. IsJoined(lines, YAMLList("blocked", blocked), YAMLList("allowed", allowed), m, n)
    BY <1>l, <2>1, <2>2, <2>3, Joined DEF ListLines
  <2>5. 1 \in 1 .. m /\ 1 \in 1 .. m + n
    BY <2>2, <2>3, LenProperties
  <2>6. lines[1] = KeyLine("blocked") /\ 1 \in DOMAIN lines
    BY <2>1, <2>4, <2>5 DEF IsJoined, ListLines
  <2>7. lines[1].kind # "blank"
    BY <2>6 DEF KeyLine
  <2>8. lines # <<>>
    BY <2>6, EmptySeq
  <2> QED  BY <2>6, <2>7, <2>8
<1>3. /\ FirstOf(fields["blocked"], fields["blocklist"])
           = IF blocked = <<>> THEN Missing ELSE ListOf(blocked)
      /\ FirstOf(fields["whitelist"], FirstOf(fields["allowlist"], fields["allowed"]))
           = IF allowed = <<>> THEN Missing ELSE ListOf(allowed)
  BY <1>1 DEF YAMLReads, FirstOf, Missing, ListOf
<1>4. ASSUME NEW parsed \in Seq(Rule), NEW items \in Seq(Item), NEW action \in {"Block", "Allow"}
      PROVE  ParseRuleValue(parsed, IF items = <<>> THEN Missing ELSE ListOf(items), action,
                            DefaultOptions)
               = ParseRuleArray(parsed, items, action, DefaultOptions)
  BY EmptyArray DEF ParseRuleValue, Missing, ListOf
<1>5. <<>> \in Seq(Rule)
  BY EmptySeq
<1>6. PICK none \in Seq(Rule) : none = <<>>
  BY <1>5
<1>7. PICK half : half = ParseRuleArray(none, blocked, "Block", DefaultOptions)
  OBVIOUS
<1>8. half \in Seq(Rule)
  BY <1>7, ArrayIsRules
<1>9. ParseYAML(lines, DefaultOptions).rules
        = ParseRuleValue(ParseRuleValue(<<>>, FirstOf(fields["blocked"], fields["blocklist"]),
                                        "Block", DefaultOptions),
                         FirstOf(fields["whitelist"],
                                 FirstOf(fields["allowlist"], fields["allowed"])),
                         "Allow", DefaultOptions)
  BY <1>2, <1>f DEF ParseYAML, Accept
<1>10. /\ ParseRuleValue(none, IF blocked = <<>> THEN Missing ELSE ListOf(blocked), "Block",
                         DefaultOptions) = half
       /\ ParseRuleValue(half, IF allowed = <<>> THEN Missing ELSE ListOf(allowed), "Allow",
                         DefaultOptions)
            = ParseRuleArray(half, allowed, "Allow", DefaultOptions)
  BY <1>4, <1>7, <1>8
<1> QED  BY <1>3, <1>6, <1>7, <1>9, <1>10, <1>l DEF BothLists

-----------------------------------------------------------------------------
(* Parsers: property lists *)

\* Where parseRulesFromArray stands between two items: under the default options nothing
\* ends it.
Going(rules) == [error |-> "none", rules |-> rules, full |-> FALSE]

\* An item adds its rule when what is written is a domain, and a new one.
PlistAdds(rules, item, action) ==
    IF item.domain \in ValidText /\ ~\E s \in ToSet(rules) : s.domain = NormalForm[item.domain]
    THEN Append(rules, PlistRule(item, action, DefaultOptions)) ELSE rules

PlistTurn(acc, item, action, options) ==
    LET rule == PlistRule(item, action, options) IN
    IF acc.full \/ acc.error # "none" THEN acc
    ELSE IF PlistFault(item, options) # "none"
         THEN [acc EXCEPT !.error = IF options.strictMode
                                    THEN PlistFault(item, options) ELSE "none"]
    ELSE IF ~options.allowDuplicates
            /\ \E i \in DOMAIN acc.rules : acc.rules[i].domain = rule.domain
         THEN acc
    ELSE [error |-> "none", rules |-> Append(acc.rules, rule),
          full |-> Full(Append(acc.rules, rule), options)]

\* An item that is a domain becomes a rule for the domain's normal form.
LEMMA PlistRuleIsRule ==
    ASSUME NEW item \in Item, NEW action \in {"Block", "Allow"}, item.domain \in ValidText
    PROVE  /\ PlistRule(item, action, DefaultOptions) \in Rule
           /\ PlistRule(item, action, DefaultOptions).domain = NormalForm[item.domain]
<1>1. /\ item.domain \in Text
      /\ Normal(item.domain, DefaultOptions) = NormalForm[item.domain]
  BY ParserAssumption DEF Normal, DefaultOptions
<1>2. NormalForm[item.domain] \in Text
  BY <1>1, ParserAssumption
<1>3. (IF item.kind = "dictionary" /\ item.priority # NoPriority
       THEN item.priority ELSE DefaultOptions.defaultPriority) \in Int
  BY DEF Item, DefaultOptions
<1> QED  BY <1>1, <1>2, <1>3 DEF PlistRule, Rule

\* What an item of a property list leaves is a list of rules.
LEMMA PlistAddsRules ==
    ASSUME NEW rules \in Seq(Rule), NEW item \in Item, NEW action \in {"Block", "Allow"}
    PROVE  PlistAdds(rules, item, action) \in Seq(Rule)
BY PlistRuleIsRule, AppendProperties DEF PlistAdds

\* One turn of the loop.
LEMMA OnePlistTurn ==
    ASSUME NEW rules \in Seq(Rule), NEW item \in Item, NEW action \in {"Block", "Allow"}
    PROVE  PlistTurn(Going(rules), item, action, DefaultOptions)
             = Going(PlistAdds(rules, item, action))
<1>q. PICK q : q = Going(rules)
  OBVIOUS
<1>r. PICK rule : rule = PlistRule(item, action, DefaultOptions)
  OBVIOUS
<1>0. q.full = FALSE /\ q.error = "none" /\ q.rules = rules
  BY <1>q DEF Going
<1>1. /\ DefaultOptions.strictMode = FALSE /\ DefaultOptions.allowDuplicates = FALSE
      /\ DefaultOptions.validateDomains = TRUE /\ \A s : ~Full(s, DefaultOptions)
  BY DEF DefaultOptions, Full
<1>2. CASE item.domain \notin ValidText
  <2>1. PlistFault(item, DefaultOptions) # "none"
    BY <1>1, <1>2 DEF PlistFault, Admitted
  <2>2. PlistTurn(q, item, action, DefaultOptions) = [q EXCEPT !.error = "none"]
    BY <1>0, <1>1, <2>1 DEF PlistTurn
  <2>3. [q EXCEPT !.error = "none"] = q
    <3>1. q \in [error: {"none"}, rules: Seq(Rule), full: {FALSE}]
      BY <1>q DEF Going
    <3> QED  BY <3>1
  <2>4. PlistAdds(rules, item, action) = rules
    BY <1>2 DEF PlistAdds
  <2> QED  BY <1>q, <2>2, <2>3, <2>4
<1>3. CASE item.domain \in ValidText
  <2>1. item.domain # NoText /\ item.kind # "other"
    BY <1>3, ParserAssumption DEF Item
  <2>2. PlistFault(item, DefaultOptions) = "none"
    BY <1>3, <2>1 DEF PlistFault, Admitted
  <2>3. rule.domain = NormalForm[item.domain]
    BY <1>3, <1>r, PlistRuleIsRule
  <2>4. (\E i \in DOMAIN rules : rules[i].domain = rule.domain)
        <=> \E s \in ToSet(rules) : s.domain = NormalForm[item.domain]
    <3>1. \A s : s \in ToSet(rules) <=> \E j \in DOMAIN rules : s = rules[j]
      BY DEF ToSet
    <3> QED  BY <2>3, <3>1
  <2>5. PlistTurn(q, item, action, DefaultOptions)
          = IF \E i \in DOMAIN rules : rules[i].domain = rule.domain THEN q
            ELSE [error |-> "none", rules |-> Append(rules, rule),
                  full |-> Full(Append(rules, rule), DefaultOptions)]
    BY <1>0, <1>1, <1>r, <2>2 DEF PlistTurn
  <2>6. Full(Append(rules, rule), DefaultOptions) = FALSE
    BY DEF DefaultOptions, Full
  <2>7. CASE \E i \in DOMAIN rules : rules[i].domain = rule.domain
    <3>1. PlistTurn(q, item, action, DefaultOptions) = q
      BY <2>5, <2>7
    <3>2. PlistAdds(rules, item, action) = rules
      BY <2>4, <2>7 DEF PlistAdds
    <3> QED  BY <1>q, <3>1, <3>2
  <2>8. CASE ~\E i \in DOMAIN rules : rules[i].domain = rule.domain
    <3>1. PlistTurn(q, item, action, DefaultOptions)
            = [error |-> "none", rules |-> Append(rules, rule), full |-> FALSE]
      BY <2>5, <2>6, <2>8
    <3>2. PlistAdds(rules, item, action) = Append(rules, rule)
      BY <1>3, <1>r, <2>4, <2>8 DEF PlistAdds
    <3> QED  BY <1>q, <3>1, <3>2 DEF Going
  <2> QED  BY <2>7, <2>8
<1> QED  BY <1>2, <1>3

\* Where the loop stands after each item.
LEMMA PlistTurns ==
    ASSUME NEW parsed \in Seq(Rule), NEW items \in Seq(Item), NEW action \in {"Block", "Allow"}
    PROVE  \E t : /\ t[0] = parsed
                  /\ \A k \in 1 .. Len(items) : t[k] = PlistAdds(t[k - 1], items[k], action)
                  /\ \A k \in 0 .. Len(items) : t[k] \in Seq(Rule)
                  /\ ParseRulesFromArray(Going(parsed), items, action, DefaultOptions)
                       = Going(t[Len(items)])
<1>n. PICK n : n = Len(items)
  OBVIOUS
<1>b. PICK before : before = Going(parsed)
  OBVIOUS
<1> DEFINE State == [error: {"none"}, rules: Seq(Rule), full: {FALSE}]
           base == [before EXCEPT !.full = FALSE]
           Loop(f) ==
               f = [s \in SUBSET (DOMAIN items) |->
                       IF s = {} THEN base
                       ELSE PlistTurn(f[s \ {Max(s)}], items[Max(s)], action, DefaultOptions)]
           st == [x \in (1 .. n) \X State |->
                     PlistTurn(x[2], items[x[1]], action, DefaultOptions)]
<1>1. n \in Nat /\ DOMAIN items = 1 .. n /\ \A i \in 1 .. n : items[i] \in Item
  BY <1>n, LenProperties, ElementOfSeq
<1>2. base = Going(parsed) /\ base \in State
  <2>1. base = Going(parsed)
    <3>1. before \in State
      BY <1>b DEF Going
    <3>2. [before EXCEPT !.full = FALSE] = before
      BY <3>1
    <3> QED  BY <1>b, <3>2
  <2> HIDE DEF base
  <2> QED  BY <2>1 DEF Going
<1>3. \A q \in State, i \in 1 .. n : PlistTurn(q, items[i], action, DefaultOptions) \in State
  <2> TAKE q \in State, i \in 1 .. n
  <2>1. PICK rules \in Seq(Rule) : rules = q.rules
    OBVIOUS
  <2>2. q = Going(rules)
    BY <2>1 DEF Going
  <2>3. PICK item \in Item : item = items[i]
    BY <1>1
  <2>4. PICK more \in Seq(Rule) : more = PlistAdds(rules, item, action)
    BY PlistAddsRules
  <2>5. PlistTurn(q, item, action, DefaultOptions) = Going(more)
    BY <2>2, <2>4, OnePlistTurn
  <2>6. Going(more) \in State
    BY DEF Going
  <2> QED  BY <2>3, <2>5, <2>6
<1>4. ParseRulesFromArray(before, items, action, DefaultOptions)
        = (CHOOSE f : Loop(f))[DOMAIN items]
  BY DEF ParseRulesFromArray, FoldLeft, MapThenFoldSet, PlistTurn
<1>5. /\ st \in [(1 .. n) \X State -> State]
      /\ \A i \in 1 .. n, q \in State :
            st[<<i, q>>] = PlistTurn(q, items[i], action, DefaultOptions)
  BY <1>3
<1> HIDE DEF st, base, State
<1>6. \E f : Loop(f)
  <2>1. PICK g : Folding(g, n, State, base, st)
    BY <1>1, <1>2, <1>5, FoldingExists
  <2>2. /\ g \in [SUBSET (1 .. n) -> State] /\ g[{}] = base
        /\ \A s \in SUBSET (1 .. n) : s # {} => g[s] = st[<<Max(s), g[s \ {Max(s)}]>>]
    BY <2>1 DEF Folding
  <2>3. \A s \in SUBSET (1 .. n) :
            s # {} => g[s] = PlistTurn(g[s \ {Max(s)}], items[Max(s)], action, DefaultOptions)
    BY <1>1, <1>5, <2>2, GreatestOf
  <2> QED  BY <1>1, <2>2, <2>3
<1>7. PICK g : /\ Loop(g)
               /\ ParseRulesFromArray(before, items, action, DefaultOptions) = g[DOMAIN items]
  BY <1>4, <1>6
<1>8. FoldsIn(g, n, State, base, st)
  <2>1. g[{}] = base /\ \A s \in SUBSET (1 .. n) :
            s # {} => g[s] = PlistTurn(g[s \ {Max(s)}], items[Max(s)], action, DefaultOptions)
    BY <1>1, <1>7
  <2>2. \A s \in SUBSET (1 .. n) : s # {} => Max(s) \in 1 .. n
    BY <1>1, GreatestOf
  <2> QED  BY <1>5, <2>1, <2>2 DEF FoldsIn
<1>9. PICK r : Run(r, g, n, State, base, st)
  BY <1>1, <1>2, <1>5, <1>8, FoldRuns
<1>10. /\ r[0] = Going(parsed) /\ r[n] = g[1 .. n]
       /\ \A k \in 0 .. n : r[k] \in State
       /\ \A k \in 1 .. n : r[k] = PlistTurn(r[k - 1], items[k], action, DefaultOptions)
  <2>1. \A k \in 1 .. n : r[k] = PlistTurn(r[k - 1], items[k], action, DefaultOptions)
    <3> TAKE k \in 1 .. n
    <3>1. k - 1 \in 0 .. n
      BY <1>1
    <3> QED  BY <1>5, <1>9, <3>1 DEF Run
  <2> QED  BY <1>2, <1>9, <2>1 DEF Run
<1>t. PICK t : t = [k \in 0 .. n |-> r[k].rules]
  OBVIOUS
<1>11. \A k \in 0 .. n : r[k] = Going(t[k]) /\ t[k] \in Seq(Rule)
  <2> TAKE k \in 0 .. n
  <2>1. PICK q \in State : q = r[k]
    BY <1>10
  <2>2. q = [error |-> "none", rules |-> q.rules, full |-> FALSE] /\ q.rules \in Seq(Rule)
    BY DEF State
  <2>3. t[k] = q.rules
    BY <1>t, <2>1
  <2> QED  BY <2>1, <2>2, <2>3 DEF Going
<1>12. t[0] = parsed
  BY <1>1, <1>10, <1>t DEF Going
<1>13. \A k \in 1 .. n : t[k] = PlistAdds(t[k - 1], items[k], action)
  <2> TAKE k \in 1 .. n
  <2>1. k - 1 \in 0 .. n /\ k \in 0 .. n /\ items[k] \in Item
    BY <1>1
  <2>2. r[k] = Going(PlistAdds(t[k - 1], items[k], action))
    BY <1>10, <1>11, <2>1, OnePlistTurn
  <2> QED  BY <1>t, <2>1, <2>2 DEF Going
<1>14. n \in 0 .. n
  BY <1>1
<1> QED  BY <1>1, <1>7, <1>10, <1>11, <1>12, <1>13, <1>14, <1>b, <1>n

\* Where parseRuleArray stands after each item, when no limit is set.
ArrayAt(t, parsed, items, action) ==
    /\ t[0] = parsed
    /\ \A k \in 1 .. Len(items) :
          t[k] = Adding(t[k - 1], ItemRule(items[k], action, DefaultOptions), DefaultOptions)
    /\ \A k \in 0 .. Len(items) : t[k] \in Seq(Rule)
    /\ ParseRuleArray(parsed, items, action, DefaultOptions) = t[Len(items)]

\* The loop goes through these lists of rules.
LEMMA ArrayAdds ==
    ASSUME NEW parsed \in Seq(Rule), NEW items \in Seq(Item), NEW action \in {"Block", "Allow"}
    PROVE  \E t : ArrayAt(t, parsed, items, action)
<1>n. PICK n : n = Len(items)
  OBVIOUS
<1>1. n \in Nat
  BY <1>n, LenProperties
<1>o. DefaultOptions \in RuleParserOptions
  BY DEF DefaultOptions, RuleParserOptions
<1>2. PICK r : /\ r[0] = [rules |-> parsed, full |-> FALSE]
               /\ \A k \in 1 .. Len(items) :
                     r[k] = ArrayTurn(r[k - 1], items[k], action, DefaultOptions)
               /\ \A k \in 0 .. Len(items) : r[k] \in ArrayState
               /\ ParseRuleArray(parsed, items, action, DefaultOptions) = r[Len(items)].rules
  BY <1>o, ArrayTurns
<1> DEFINE t == [k \in 0 .. n |-> r[k].rules]
           P == {k \in 0 .. n : ~r[k].full}
<1>3. \A rules, new : ~Full(Adding(rules, new, DefaultOptions), DefaultOptions)
  BY DEF Full, DefaultOptions
<1>4. 0 \in P
  BY <1>1, <1>2
<1>5. \A k \in 0 .. n - 1 : k \in P => k + 1 \in P
  <2> SUFFICES ASSUME NEW k \in 0 .. n - 1, k \in P
               PROVE  k + 1 \in P
    OBVIOUS
  <2>1. k + 1 \in 1 .. n /\ (k + 1) - 1 = k /\ k + 1 \in 0 .. n
    BY <1>1
  <2>2. r[k + 1] = ArrayTurn(r[k], items[k + 1], action, DefaultOptions)
    BY <1>2, <1>n, <2>1
  <2> QED  BY <1>3, <2>1, <2>2 DEF ArrayTurn
<1>6. \A k \in 0 .. n : ~r[k].full
  <2> HIDE DEF P
  <2>1. \A k \in 0 .. n : k \in P
    BY <1>1, <1>4, <1>5, UpTo
  <2> QED  BY <2>1 DEF P
<1>7. \A k \in 1 .. n :
         t[k] = Adding(t[k - 1], ItemRule(items[k], action, DefaultOptions), DefaultOptions)
  <2> TAKE k \in 1 .. n
  <2>1. k - 1 \in 0 .. n /\ k \in 0 .. n
    BY <1>1
  <2>2. r[k] = ArrayTurn(r[k - 1], items[k], action, DefaultOptions) /\ ~r[k - 1].full
    BY <1>2, <1>6, <1>n, <2>1
  <2>3. r[k].rules = Adding(r[k - 1].rules, ItemRule(items[k], action, DefaultOptions),
                            DefaultOptions)
    BY <2>2 DEF ArrayTurn
  <2> QED  BY <2>1, <2>3
<1>8. t[0] = parsed /\ t[n] = r[n].rules
  BY <1>1, <1>2
<1>9. \A k \in 0 .. n : t[k] \in Seq(Rule)
  BY <1>2, <1>n DEF ArrayState
<1> HIDE DEF t
<1>10. ArrayAt(t, parsed, items, action)
  BY <1>2, <1>7, <1>8, <1>9, <1>n DEF ArrayAt
<1> QED  BY <1>10

\* What is written as a domain becomes the same rule in JSON.
LEMMA SameRuleInJSON ==
    ASSUME NEW item \in Item, NEW action \in {"Block", "Allow"},
           item.domain \in ValidText, item.action = "none"
    PROVE  ItemRule(item, action, DefaultOptions)
             = <<PlistRule(item, action, DefaultOptions)>>
<1>1. item.domain # NoText /\ item.kind # "other" /\ item.domain \in Text
  BY ParserAssumption DEF Item
<1>2. Normal(item.domain, DefaultOptions) \in ValidText
  BY ParserAssumption DEF Normal, DefaultOptions
<1>3. Admitted(Normal(item.domain, DefaultOptions), DefaultOptions)
  BY <1>2 DEF Admitted
<1> QED  BY <1>1, <1>3 DEF ItemRule, PlistRule

\* A property list and JSON half way through the same lists: what the first says of a
\* domain the second says, too, and they will add the next rule for it together.
Follows(plist, json, d, action) ==
    /\ \A rule \in ToSet(plist) : rule.domain = d => rule \in ToSet(json)
    /\ (\E rule \in ToSet(json) : rule.domain = d /\ rule.action = action)
         => \E rule \in ToSet(plist) : rule.domain = d

\* What a property list makes of a list: all that was there, and a rule for each text in
\* it that is a domain.
HasAllDomains(more, parsed, items) ==
    /\ ToSet(parsed) \subseteq ToSet(more)
    /\ \A i \in DOMAIN items :
          items[i].domain \in ValidText
          => \E rule \in ToSet(more) : rule.domain = NormalForm[items[i].domain]

\* An item takes nothing away, and its domain is there afterwards.
LEMMA PlistAddsDomain ==
    ASSUME NEW rules \in Seq(Rule), NEW item \in Item, NEW action \in {"Block", "Allow"}
    PROVE  /\ ToSet(rules) \subseteq ToSet(PlistAdds(rules, item, action))
           /\ item.domain \in ValidText
                => \E rule \in ToSet(PlistAdds(rules, item, action)) :
                      rule.domain = NormalForm[item.domain]
<1>1. CASE item.domain \in ValidText
           /\ ~\E s \in ToSet(rules) : s.domain = NormalForm[item.domain]
  <2>1. PICK rule \in Rule :
            /\ rule = PlistRule(item, action, DefaultOptions)
            /\ rule.domain = NormalForm[item.domain]
    BY <1>1, PlistRuleIsRule
  <2>2. PlistAdds(rules, item, action) = Append(rules, rule)
    BY <1>1, <2>1 DEF PlistAdds
  <2>3. ToSet(Append(rules, rule)) = ToSet(rules) \cup {rule}
    BY AppendedElements
  <2> QED  BY <2>1, <2>2, <2>3
<1>2. CASE ~(item.domain \in ValidText
             /\ ~\E s \in ToSet(rules) : s.domain = NormalForm[item.domain])
  BY <1>2 DEF PlistAdds
<1> QED  BY <1>1, <1>2

\* So at the end of a list all its domains are there.
LEMMA PlistHasAll ==
    ASSUME NEW parsed \in Seq(Rule), NEW items \in Seq(Item), NEW action \in {"Block", "Allow"}
    PROVE  \E more \in Seq(Rule) :
              /\ ParseRulesFromArray(Going(parsed), items, action, DefaultOptions) = Going(more)
              /\ HasAllDomains(more, parsed, items)
<1>n. PICK n : n = Len(items)
  OBVIOUS
<1>1. n \in Nat /\ DOMAIN items = 1 .. n /\ \A i \in 1 .. n : items[i] \in Item
  BY <1>n, LenProperties, ElementOfSeq
<1>2. PICK t : /\ t[0] = parsed
               /\ \A k \in 1 .. Len(items) : t[k] = PlistAdds(t[k - 1], items[k], action)
               /\ \A k \in 0 .. Len(items) : t[k] \in Seq(Rule)
               /\ ParseRulesFromArray(Going(parsed), items, action, DefaultOptions)
                    = Going(t[Len(items)])
  BY PlistTurns
<1> DEFINE HasSoFar(k) == /\ ToSet(parsed) \subseteq ToSet(t[k])
                     /\ \A i \in 1 .. k :
                           items[i].domain \in ValidText
                           => \E rule \in ToSet(t[k]) : rule.domain = NormalForm[items[i].domain]
           P == {k \in 0 .. n : HasSoFar(k)}
<1>3. 0 \in P
  BY <1>1, <1>2
<1>4. \A k \in 0 .. n - 1 : k \in P => k + 1 \in P
  <2> SUFFICES ASSUME NEW k \in 0 .. n - 1, k \in P
               PROVE  k + 1 \in P
    OBVIOUS
  <2>1. /\ k + 1 \in 1 .. n /\ (k + 1) - 1 = k /\ k + 1 \in 0 .. n /\ k \in 0 .. n
        /\ 1 .. k + 1 = (1 .. k) \cup {k + 1}
    BY <1>1
  <2>2. PICK item \in Item : item = items[k + 1]
    BY <1>1, <2>1
  <2>3. PICK q \in Seq(Rule) : q = t[k]
    BY <1>2, <1>n, <2>1
  <2>4. t[k + 1] = PlistAdds(q, item, action)
    BY <1>2, <1>n, <2>1, <2>2, <2>3
  <2>5. /\ ToSet(q) \subseteq ToSet(t[k + 1])
        /\ item.domain \in ValidText
             => \E rule \in ToSet(t[k + 1]) : rule.domain = NormalForm[item.domain]
    BY <2>4, PlistAddsDomain
  <2>6. HasSoFar(k)
    OBVIOUS
  <2>7. HasSoFar(k + 1)
    BY <2>1, <2>2, <2>3, <2>5, <2>6
  <2> QED  BY <2>1, <2>7
<1>5. n \in P
  <2> HIDE DEF P
  <2>1. n \in 0 .. n
    BY <1>1
  <2> QED  BY <1>1, <1>3, <1>4, <2>1, UpTo
<1>6. HasAllDomains(t[n], parsed, items)
  BY <1>1, <1>5 DEF HasAllDomains
<1>7. t[n] \in Seq(Rule)
  BY <1>1, <1>2, <1>n
<1> QED  BY <1>2, <1>6, <1>7, <1>n

\* One item keeps them so.
LEMMA OneFollows ==
    ASSUME NEW plist \in Seq(Rule), NEW json \in Seq(Rule), NEW item \in Item,
           NEW action \in {"Block", "Allow"}, NEW d, Follows(plist, json, d, action),
           item.action = "none",
           item.domain # NoText /\ NormalForm[item.domain] = d => item.domain \in ValidText
    PROVE  Follows(PlistAdds(plist, item, action),
                   Adding(json, ItemRule(item, action, DefaultOptions), DefaultOptions),
                   d, action)
<1>p. PICK more : more = PlistAdds(plist, item, action)
  OBVIOUS
<1>j. PICK also : also = Adding(json, ItemRule(item, action, DefaultOptions), DefaultOptions)
  OBVIOUS
<1>0. /\ \A rule \in ToSet(plist) : rule.domain = d => rule \in ToSet(json)
      /\ (\E rule \in ToSet(json) : rule.domain = d /\ rule.action = action)
           => \E rule \in ToSet(plist) : rule.domain = d
  BY DEF Follows
<1>1. CASE item.domain # NoText /\ NormalForm[item.domain] = d
  <2>1. item.domain \in ValidText
    BY <1>1
  <2>2. PICK rule \in Rule : /\ rule = PlistRule(item, action, DefaultOptions)
                             /\ rule.domain = d
    BY <1>1, <2>1, PlistRuleIsRule
  <2>3. rule.action = action
    BY <2>2 DEF PlistRule
  <2>4. more = IF \E s \in ToSet(plist) : s.domain = d THEN plist ELSE Append(plist, rule)
    BY <1>1, <1>p, <2>1, <2>2 DEF PlistAdds
  <2>5. ItemRule(item, action, DefaultOptions) = <<rule>>
    BY <2>1, <2>2, SameRuleInJSON
  <2>6. also = IF \E s \in ToSet(json) : s.domain = d /\ s.action = action
               THEN json ELSE Append(json, rule)
    <3>1. Adding(json, <<rule>>, DefaultOptions)
            = IF \E s \in ToSet(json) : s.domain = rule.domain /\ s.action = rule.action
              THEN json ELSE Append(json, rule)
      BY AddingOne
    <3> QED  BY <1>j, <2>2, <2>3, <2>5, <3>1
  <2>7. /\ ToSet(Append(plist, rule)) = ToSet(plist) \cup {rule}
        /\ ToSet(Append(json, rule)) = ToSet(json) \cup {rule}
    BY AppendedElements
  <2>8. ToSet(json) \subseteq ToSet(also)
    BY <2>6, <2>7
  <2>9. \E s \in ToSet(more) : s.domain = d
    <3>1. CASE \E s \in ToSet(plist) : s.domain = d
      BY <2>4, <3>1
    <3>2. CASE ~\E s \in ToSet(plist) : s.domain = d
      BY <2>2, <2>4, <2>7, <3>2
    <3> QED  BY <3>1, <3>2
  <2>10. \A s \in ToSet(more) : s.domain = d => s \in ToSet(also)
    <3>1. CASE \E s \in ToSet(plist) : s.domain = d
      BY <1>0, <2>4, <2>8, <3>1
    <3>2. CASE ~\E s \in ToSet(plist) : s.domain = d
      <4>1. rule \in ToSet(also)
        BY <1>0, <2>6, <2>7, <3>2
      <4> QED  BY <2>4, <2>7, <3>2, <4>1
    <3> QED  BY <3>1, <3>2
  <2> QED  BY <1>j, <1>p, <2>9, <2>10 DEF Follows
<1>2. CASE ~(item.domain # NoText /\ NormalForm[item.domain] = d)
  <2>1. /\ \A s \in ToSet(more) : s.domain = d => s \in ToSet(plist)
        /\ ToSet(plist) \subseteq ToSet(more)
    <3>1. CASE item.domain \in ValidText
               /\ ~\E s \in ToSet(plist) : s.domain = NormalForm[item.domain]
      <4>1. PICK rule \in Rule : /\ rule = PlistRule(item, action, DefaultOptions)
                                 /\ rule.domain = NormalForm[item.domain]
        BY <3>1, PlistRuleIsRule
      <4>2. rule.domain # d
        BY <1>2, <3>1, <4>1, ParserAssumption
      <4>3. more = Append(plist, rule)
        BY <1>p, <3>1, <4>1 DEF PlistAdds
      <4>4. ToSet(Append(plist, rule)) = ToSet(plist) \cup {rule}
        BY AppendedElements
      <4> QED  BY <4>2, <4>3, <4>4
    <3>2. CASE ~(item.domain \in ValidText
                 /\ ~\E s \in ToSet(plist) : s.domain = NormalForm[item.domain])
      BY <1>p, <3>2 DEF PlistAdds
    <3> QED  BY <3>1, <3>2
  <2>2. /\ \A s \in ToSet(also) : s.domain = d => s \in ToSet(json)
        /\ ToSet(json) \subseteq ToSet(also)
    <3>1. CASE ~Readable(item)
      <4>1. ItemRule(item, action, DefaultOptions) = <<>>
        BY <3>1, ItemRuleSays
      <4>2. also = json
        BY <1>j, <4>1, AddingNone
      <4> QED  BY <4>2
    <3>2. CASE Readable(item)
      <4>1. PICK rule \in Rule : /\ ItemRule(item, action, DefaultOptions) = <<rule>>
                                 /\ <<rule.domain, rule.action>> = Says(item, action)
        BY <3>2, ItemRuleSays
      <4>2. rule.domain = NormalForm[item.domain]
        BY <4>1 DEF Says
      <4>3. rule.domain # d
        BY <1>2, <3>2, <4>2 DEF Readable
      <4>4. Adding(json, <<rule>>, DefaultOptions)
              = IF \E s \in ToSet(json) : s.domain = rule.domain /\ s.action = rule.action
                THEN json ELSE Append(json, rule)
        BY AddingOne
      <4>5. ToSet(Append(json, rule)) = ToSet(json) \cup {rule}
        BY AppendedElements
      <4> QED  BY <1>j, <4>1, <4>3, <4>4, <4>5
    <3> QED  BY <3>1, <3>2
  <2> QED  BY <1>0, <1>j, <1>p, <2>1, <2>2 DEF Follows
<1> QED  BY <1>1, <1>2

\* At the end of a list, too.
LEMMA ListFollows ==
    ASSUME NEW plist \in Seq(Rule), NEW json \in Seq(Rule), NEW items \in Seq(Item),
           NEW action \in {"Block", "Allow"}, NEW d, Follows(plist, json, d, action),
           \A i \in DOMAIN items : items[i].action = "none",
           \A i \in DOMAIN items :
              items[i].domain # NoText /\ NormalForm[items[i].domain] = d
              => items[i].domain \in ValidText
    PROVE  Follows(ParseRulesFromArray(Going(plist), items, action, DefaultOptions).rules,
                   ParseRuleArray(json, items, action, DefaultOptions), d, action)
<1>n. PICK n : n = Len(items)
  OBVIOUS
<1>1. n \in Nat /\ DOMAIN items = 1 .. n /\ \A i \in 1 .. n : items[i] \in Item
  BY <1>n, LenProperties, ElementOfSeq
<1>2. PICK t : /\ t[0] = plist
               /\ \A k \in 1 .. Len(items) : t[k] = PlistAdds(t[k - 1], items[k], action)
               /\ \A k \in 0 .. Len(items) : t[k] \in Seq(Rule)
               /\ ParseRulesFromArray(Going(plist), items, action, DefaultOptions)
                    = Going(t[Len(items)])
  BY PlistTurns
<1>3. PICK u : ArrayAt(u, json, items, action)
  BY ArrayAdds
<1>a. /\ u[0] = json
      /\ \A k \in 1 .. Len(items) :
            u[k] = Adding(u[k - 1], ItemRule(items[k], action, DefaultOptions), DefaultOptions)
      /\ \A k \in 0 .. Len(items) : u[k] \in Seq(Rule)
      /\ ParseRuleArray(json, items, action, DefaultOptions) = u[Len(items)]
  BY <1>3 DEF ArrayAt
<1> DEFINE P == {k \in 0 .. n : Follows(t[k], u[k], d, action)}
<1>4. 0 \in P
  BY <1>1, <1>2, <1>a
<1>5. \A k \in 0 .. n - 1 : k \in P => k + 1 \in P
  <2> SUFFICES ASSUME NEW k \in 0 .. n - 1, k \in P
               PROVE  k + 1 \in P
    OBVIOUS
  <2>1. k + 1 \in 1 .. n /\ (k + 1) - 1 = k /\ k + 1 \in 0 .. n /\ k \in 0 .. n
    BY <1>1
  <2>2. PICK item \in Item : item = items[k + 1]
    BY <1>1, <2>1
  <2>3. PICK p \in Seq(Rule) : p = t[k]
    BY <1>2, <1>n, <2>1
  <2>4. PICK j \in Seq(Rule) : j = u[k]
    BY <1>a, <1>n, <2>1
  <2>5. /\ t[k + 1] = PlistAdds(p, item, action)
        /\ u[k + 1] = Adding(j, ItemRule(item, action, DefaultOptions), DefaultOptions)
    BY <1>2, <1>a, <1>n, <2>1, <2>2, <2>3, <2>4
  <2>6. Follows(p, j, d, action)
    BY <2>3, <2>4
  <2>7. /\ item.action = "none"
        /\ item.domain # NoText /\ NormalForm[item.domain] = d => item.domain \in ValidText
    BY <1>1, <2>1, <2>2
  <2>8. Follows(t[k + 1], u[k + 1], d, action)
    BY <2>5, <2>6, <2>7, OneFollows
  <2> QED  BY <2>1, <2>8
<1>6. n \in P
  <2> HIDE DEF P
  <2>1. n \in 0 .. n
    BY <1>1
  <2> QED  BY <1>1, <1>4, <1>5, <2>1, UpTo
<1>7. Follows(t[n], u[n], d, action)
  BY <1>6
<1>8. Going(t[n]).rules = t[n]
  BY DEF Going
<1> QED  BY <1>2, <1>a, <1>7, <1>8, <1>n

-----------------------------------------------------------------------------
(* Parsers: the four formats *)

\* With no actions of their own, what is listed as blocked is only blocked.
LEMMA BlockedAreBlocked ==
    ASSUME NEW items \in Seq(Item), \A i \in DOMAIN items : items[i].action = "none"
    PROVE  \A rule \in ToSet(ParseRuleArray(<<>>, items, "Block", DefaultOptions)) :
              rule.action = "Block"
<1>r. PICK rules : rules = ParseRuleArray(<<>>, items, "Block", DefaultOptions)
  OBVIOUS
<1>1. PICK none \in Seq(Rule) : none = <<>>
  BY EmptySeq
<1>2. NoPairTwice(none) /\ Pairs(none) = {}
  BY <1>1, EmptySeq DEF NoPairTwice, Pairs
<1>3. AddsAllListed(ParseRuleArray(none, items, "Block", DefaultOptions), none, items, "Block")
  BY <1>2, ArrayPairs
<1>4. Pairs(rules) = Listed(items, "Block")
  BY <1>1, <1>2, <1>3, <1>r DEF AddsAllListed
<1>5. \A i \in DOMAIN rules : <<rules[i].domain, rules[i].action>> \in Listed(items, "Block")
  BY <1>4 DEF Pairs
<1>6. \A x \in Listed(items, "Block") : x[2] = "Block"
  BY DEF Listed
<1>7. \A i \in DOMAIN rules : rules[i].action = "Block"
  <2> TAKE i \in DOMAIN rules
  <2>1. PICK x : x = <<rules[i].domain, rules[i].action>>
    OBVIOUS
  <2>2. x[2] = "Block"
    BY <1>5, <1>6, <2>1
  <2> QED  BY <2>1, <2>2
<1> QED  BY <1>7, <1>r DEF ToSet

\* A property list says no more of a domain than JSON, if all that stands for the domain
\* is one.
LEMMA PlistSaysNoMore ==
    ASSUME NEW blocked \in Seq(Item), NEW allowed \in Seq(Item), NEW d,
           NEW half \in Seq(Rule),
           ParseRulesFromArray(Going(<<>>), blocked, "Block", DefaultOptions) = Going(half),
           \A i \in DOMAIN blocked : blocked[i].action = "none",
           \A i \in DOMAIN allowed : allowed[i].action = "none",
           \A i \in DOMAIN blocked :
              blocked[i].domain # NoText /\ NormalForm[blocked[i].domain] = d
              => blocked[i].domain \in ValidText,
           \A i \in DOMAIN allowed :
              allowed[i].domain # NoText /\ NormalForm[allowed[i].domain] = d
              => allowed[i].domain \in ValidText
    PROVE  \A rule \in ToSet(ParseRulesFromArray(Going(half), allowed, "Allow",
                                                 DefaultOptions).rules) :
              rule.domain = d => rule \in ToSet(BothLists(blocked, allowed))
<1>0. PICK none \in Seq(Rule) : none = <<>>
  BY EmptySeq
<1>1. none = <<>> /\ ToSet(none) = {}
  BY <1>0, EmptySeq DEF ToSet
<1>2. PICK first : first = ParseRuleArray(none, blocked, "Block", DefaultOptions)
  OBVIOUS
<1>3. first \in Seq(Rule)
  BY <1>2, ArrayIsRules
<1>4. Follows(none, none, d, "Block")
  BY <1>1 DEF Follows
<1>5. Follows(ParseRulesFromArray(Going(none), blocked, "Block", DefaultOptions).rules,
              ParseRuleArray(none, blocked, "Block", DefaultOptions), d, "Block")
  BY <1>4, ListFollows
<1>6. Follows(half, first, d, "Block")
  BY <1>1, <1>2, <1>5 DEF Going
<1>7. \A rule \in ToSet(first) : rule.action = "Block"
  BY <1>1, <1>2, BlockedAreBlocked
<1>8. Follows(half, first, d, "Allow")
  BY <1>6, <1>7 DEF Follows
<1>9. Follows(ParseRulesFromArray(Going(half), allowed, "Allow", DefaultOptions).rules,
              ParseRuleArray(first, allowed, "Allow", DefaultOptions), d, "Allow")
  BY <1>3, <1>8, ListFollows
<1>10. ParseRuleArray(first, allowed, "Allow", DefaultOptions) = BothLists(blocked, allowed)
  BY <1>1, <1>2 DEF BothLists
<1> QED  BY <1>9, <1>10 DEF Follows

\* RuleParsers!FormatsAgree, of every document: names alone become the same rules in JSON,
\* YAML and a hosts file; a property list says nothing that JSON does not, and has every
\* domain that JSON has, but for texts that become domains only when they are normalised
\* (PlistRuleParser.m:254-356, JSONRuleParser.m:174-316,
\* YAMLRuleParser.m:391-468, HostsFileParser.m:151-262).
THEOREM FormatsAgreeAlways ==
    ASSUME NEW json \in JSONDocument
    PROVE  FormatsAgree(json)
<1>w. PICK whitelist : whitelist = FirstOf(json.whitelist, FirstOf(json.allowlist, json.allowed))
  OBVIOUS
<1>p. PICK plist : plist = [form |-> json.form, items |-> <<>>, blocked |-> json.blocked,
                            whitelist |-> whitelist]
  OBVIOUS
<1>b. PICK blocked : blocked = json.blocked.items
  OBVIOUS
<1>a. PICK allowed : allowed = whitelist.items
  OBVIOUS
<1>e. PICK entries : entries = ToSet(blocked) \cup ToSet(allowed)
  OBVIOUS
<1>j. PICK fromJSON : fromJSON = ParseJSON(json, DefaultOptions)
  OBVIOUS
<1>f. PICK fromPlist : fromPlist = ParsePlist(plist, DefaultOptions)
  OBVIOUS
<1>r. PICK rules : rules = BothLists(blocked, allowed)
  OBVIOUS
<1>1. json.blocked \in Field /\ whitelist \in Field
  BY <1>w DEF JSONDocument, FirstOf
<1>2. blocked \in Seq(Item) /\ allowed \in Seq(Item)
  BY <1>1, <1>a, <1>b DEF Field
<1>3. PICK none \in Seq(Rule) : none = <<>>
  BY EmptySeq
<1>4. rules \in Seq(Rule)
  <2>1. PICK first : first = ParseRuleArray(none, blocked, "Block", DefaultOptions)
    OBVIOUS
  <2>2. first \in Seq(Rule)
    BY <1>2, <2>1, ArrayIsRules
  <2>3. ParseRuleArray(first, allowed, "Allow", DefaultOptions) \in Seq(Rule)
    BY <1>2, <2>2, ArrayIsRules
  <2> QED  BY <1>3, <1>r, <2>1, <2>3 DEF BothLists
<1>5. /\ \A i \in DOMAIN blocked : blocked[i] \in entries
      /\ \A i \in DOMAIN allowed : allowed[i] \in entries
      /\ \A e \in entries : \/ \E i \in DOMAIN blocked : e = blocked[i]
                            \/ \E i \in DOMAIN allowed : e = allowed[i]
  BY <1>e DEF ToSet
<1>6. json.form = "dictionary" /\ fromJSON.error = "none" => fromJSON.rules = rules
  BY <1>a, <1>b, <1>j, <1>r, <1>w DEF ParseJSON, Refuse, Accept, BothLists
<1>7. PICK half \in Seq(Rule) :
          /\ ParseRulesFromArray(Going(none), blocked, "Block", DefaultOptions) = Going(half)
          /\ HasAllDomains(half, none, blocked)
  BY <1>2, PlistHasAll
<1>8. PICK both \in Seq(Rule) :
          /\ ParseRulesFromArray(Going(half), allowed, "Allow", DefaultOptions) = Going(both)
          /\ HasAllDomains(both, half, allowed)
  BY <1>2, PlistHasAll
<1>9. /\ fromPlist.error = "none" =>
           /\ json.form = "dictionary"
           /\ ~(blocked = <<>> /\ allowed = <<>>)
           /\ {json.blocked.form, whitelist.form} \cap {"string", "other"} = {}
           /\ fromPlist.rules = both
      /\ fromPlist.error # "none" => fromPlist.rules = <<>>
  <2>1. Going(none) = [error |-> "none", rules |-> <<>>, full |-> FALSE]
    BY <1>3 DEF Going
  <2>2. /\ plist.form = json.form /\ plist.blocked = json.blocked /\ plist.whitelist = whitelist
        /\ plist.blocked.items = blocked /\ plist.whitelist.items = allowed
    BY <1>a, <1>b, <1>p
  <2>3. Going(both).error = "none" /\ Going(both).rules = both
    BY DEF Going
  <2> QED  BY <1>7, <1>8, <1>f, <2>1, <2>2, <2>3 DEF ParsePlist, Refuse, Accept
<1>10. fromPlist.error = "none" => fromJSON.error = "none"
  <2> SUFFICES ASSUME fromPlist.error = "none"
               PROVE  fromJSON.error = "none"
    OBVIOUS
  <2>1. HasRequiredFields(json)
    <3>1. json.blocked.form # "missing" \/ whitelist.form # "missing"
      BY <1>1, <1>9, <1>a, <1>b DEF Field
    <3> QED  BY <1>w, <3>1 DEF HasRequiredFields, FirstOf
  <2> QED  BY <1>9, <1>j, <1>w, <2>1 DEF ParseJSON, Accept
<1>11. ASSUME json.form = "dictionary", fromJSON.error = "none",
              \A e \in entries : e.kind = "string"
       PROVE  /\ ParseYAML(YAMLList("blocked", blocked) \o YAMLList("allowed", allowed),
                           DefaultOptions).rules = fromJSON.rules
              /\ ParseHosts(HostsList("entry", blocked) \o HostsList("allow", allowed),
                            DefaultOptions).rules
                   = Those(fromJSON.rules,
                           {r \in ToSet(fromJSON.rules) : r.domain \notin Localhost})
  <2>1. fromJSON.rules = rules
    BY <1>6, <1>11
  <2>2. /\ \A i \in DOMAIN blocked : blocked[i].kind = "string"
        /\ \A i \in DOMAIN allowed : allowed[i].kind = "string"
    BY <1>5, <1>11
  <2>3. ParseYAML(YAMLList("blocked", blocked) \o YAMLList("allowed", allowed),
                  DefaultOptions).rules = rules
    BY <1>2, <1>r, YAMLAgrees
  <2>4. ParseHosts(HostsList("entry", blocked) \o HostsList("allow", allowed),
                   DefaultOptions).rules = Those(rules, Elsewhere)
    BY <1>2, <1>r, <2>2, HostsAgree
  <2>5. PICK wanted : wanted = {r \in ToSet(rules) : r.domain \notin Localhost}
    OBVIOUS
  <2>6. \A x \in ToSet(rules) : x \in Elsewhere <=> x \in wanted
    <3>1. \A x \in ToSet(rules) : x \in Rule
      BY <1>4, ElementOfSeq, LenProperties DEF ToSet
    <3> QED  BY <2>5, <3>1 DEF Elsewhere
  <2>7. Those(rules, Elsewhere) = Those(rules, wanted)
    BY <1>4, <2>6, SameSelection
  <2> QED  BY <2>1, <2>3, <2>4, <2>5, <2>7
<1>12. ASSUME \A e \in entries : e.action = "none",
              NEW rule \in ToSet(fromPlist.rules) \ ToSet(fromJSON.rules)
       PROVE  \E e \in entries : /\ e.domain # NoText /\ e.domain \notin ValidText
                                 /\ NormalForm[e.domain] = rule.domain
  <2>1. fromPlist.error = "none"
    <3>1. ToSet(<<>>) = {}
      BY EmptySeq DEF ToSet
    <3> QED  BY <1>9, <1>12, <3>1
  <2>2. fromPlist.rules = both /\ fromJSON.rules = rules
    BY <1>6, <1>9, <1>10, <2>1
  <2>3. PICK d : d = rule.domain
    OBVIOUS
  <2> SUFFICES ASSUME \A e \in entries : e.domain # NoText /\ NormalForm[e.domain] = d
                                         => e.domain \in ValidText
               PROVE  FALSE
    BY <2>3
  <2>4. /\ \A i \in DOMAIN blocked : blocked[i].action = "none"
        /\ \A i \in DOMAIN allowed : allowed[i].action = "none"
    BY <1>5, <1>12
  <2>5. /\ \A i \in DOMAIN blocked :
              blocked[i].domain # NoText /\ NormalForm[blocked[i].domain] = d
              => blocked[i].domain \in ValidText
        /\ \A i \in DOMAIN allowed :
              allowed[i].domain # NoText /\ NormalForm[allowed[i].domain] = d
              => allowed[i].domain \in ValidText
    BY <1>5
  <2>6. \A x \in ToSet(ParseRulesFromArray(Going(half), allowed, "Allow",
                                           DefaultOptions).rules) :
           x.domain = d => x \in ToSet(BothLists(blocked, allowed))
    BY <1>2, <1>3, <1>7, <2>4, <2>5, PlistSaysNoMore
  <2>7. ToSet(ParseRulesFromArray(Going(half), allowed, "Allow", DefaultOptions).rules)
          = ToSet(both)
    BY <1>8 DEF Going
  <2> QED  BY <1>12, <1>r, <2>2, <2>3, <2>6, <2>7
<1>13. ASSUME fromPlist.error = "none", NEW d,
              d \notin {fromPlist.rules[i].domain : i \in DOMAIN fromPlist.rules},
              NEW e \in entries, e.domain # NoText, NormalForm[e.domain] = d
       PROVE  e.domain \notin ValidText
  <2> SUFFICES ASSUME e.domain \in ValidText
               PROVE  FALSE
    OBVIOUS
  <2>1. fromPlist.rules = both
    BY <1>9, <1>13
  <2>2. \E x \in ToSet(both) : x.domain = d
    <3>1. CASE \E i \in DOMAIN allowed : e = allowed[i]
      BY <1>8, <1>13, <3>1 DEF HasAllDomains
    <3>2. CASE \E i \in DOMAIN blocked : e = blocked[i]
      <4>1. \E x \in ToSet(half) : x.domain = d
        BY <1>7, <1>13, <3>2 DEF HasAllDomains
      <4> QED  BY <1>8, <4>1 DEF HasAllDomains
    <3> QED  BY <1>5, <3>1, <3>2
  <2> QED  BY <1>13, <2>1, <2>2 DEF ToSet
<1>14. fromPlist.error = "none" =>
         \A d \in {fromJSON.rules[i].domain : i \in DOMAIN fromJSON.rules}
                    \ {fromPlist.rules[i].domain : i \in DOMAIN fromPlist.rules} :
            \A e \in entries : e.domain # NoText /\ NormalForm[e.domain] = d
                               => e.domain \notin ValidText
  BY <1>13
<1>15. PICK yaml : yaml = YAMLList("blocked", blocked) \o YAMLList("allowed", allowed)
  OBVIOUS
<1>16. PICK hosts : hosts = HostsList("entry", blocked) \o HostsList("allow", allowed)
  OBVIOUS
<1>s. PICK elsewhere :
          elsewhere = {r \in ToSet(ParseJSON(json, DefaultOptions).rules) :
                           r.domain \notin Localhost}
  OBVIOUS
<1>17. /\ json.form = "dictionary" /\ fromJSON.error = "none"
          /\ (\A e \in entries : e.kind = "string") =>
             /\ ParseYAML(yaml, DefaultOptions).rules = fromJSON.rules
             /\ ParseHosts(hosts, DefaultOptions).rules = Those(fromJSON.rules, elsewhere)
       /\ fromPlist.error = "none" => fromJSON.error = "none"
       /\ (\A e \in entries : e.action = "none") =>
             \A rule \in ToSet(fromPlist.rules) \ ToSet(fromJSON.rules) :
                \E e \in entries : /\ e.domain # NoText /\ e.domain \notin ValidText
                                   /\ NormalForm[e.domain] = rule.domain
       /\ fromPlist.error = "none" =>
             \A d \in {fromJSON.rules[i].domain : i \in DOMAIN fromJSON.rules}
                        \ {fromPlist.rules[i].domain : i \in DOMAIN fromPlist.rules} :
                \A e \in entries : e.domain # NoText /\ NormalForm[e.domain] = d
                                   => e.domain \notin ValidText
  <2>1. elsewhere = {r \in ToSet(fromJSON.rules) : r.domain \notin Localhost}
    BY <1>j, <1>s
  <2> QED  BY <1>10, <1>11, <1>12, <1>14, <1>15, <1>16, <2>1
<1> DEFINE W == FirstOf(json.whitelist, FirstOf(json.allowlist, json.allowed))
           L == [form |-> json.form, items |-> <<>>, blocked |-> json.blocked, whitelist |-> W]
           Y == YAMLList("blocked", json.blocked.items) \o YAMLList("allowed", W.items)
           H == HostsList("entry", json.blocked.items) \o HostsList("allow", W.items)
           E == ToSet(json.blocked.items) \cup ToSet(W.items)
           J == ParseJSON(json, DefaultOptions)
           P == ParsePlist(L, DefaultOptions)
           D(r) == {r.rules[i].domain : i \in DOMAIN r.rules}
<1>18. E = entries /\ J = fromJSON /\ P = fromPlist /\ Y = yaml /\ H = hosts
  BY <1>15, <1>16, <1>a, <1>b, <1>e, <1>f, <1>j, <1>p, <1>w
<1>19. elsewhere = {r \in ToSet(J.rules) : r.domain \notin Localhost}
  BY <1>s
<1>20. D(J) = {fromJSON.rules[i].domain : i \in DOMAIN fromJSON.rules}
       /\ D(P) = {fromPlist.rules[i].domain : i \in DOMAIN fromPlist.rules}
  BY <1>18
<1> HIDE DEF E, J, P, Y, H, D
<1>21. json.form = "dictionary" /\ J.error = "none"
       /\ (\A e \in E : e.kind = "string") =>
             /\ ParseYAML(Y, DefaultOptions).rules = J.rules
             /\ ParseHosts(H, DefaultOptions).rules
                   = Those(J.rules, {r \in ToSet(J.rules) : r.domain \notin Localhost})
  BY <1>17, <1>18, <1>19
<1>22. P.error = "none" => J.error = "none"
  BY <1>17, <1>18
<1>23. (\A e \in E : e.action = "none") =>
             \A rule \in ToSet(P.rules) \ ToSet(J.rules) :
                \E e \in E : /\ e.domain # NoText /\ e.domain \notin ValidText
                             /\ NormalForm[e.domain] = rule.domain
  BY <1>17, <1>18
<1>24. P.error = "none" =>
             \A d \in D(J) \ D(P) :
                \A e \in E : e.domain # NoText /\ NormalForm[e.domain] = d
                             => e.domain \notin ValidText
  BY <1>17, <1>18, <1>20
<1> QED  BY <1>21, <1>22, <1>23, <1>24 DEF FormatsAgree, E, J, P, Y, H, D

-----------------------------------------------------------------------------
(* The run: every component behaves as its own specification says *)

supplyVars ==
    <<component, inputs, fetcherVars, managerVars, strategyVars, manifestVars, cacheVars,
      networkVars, configurationVars, commandVars>>

\* The run begins as each of its components does ...
LEMMA EachBegins ==
    ASSUME Init
    PROVE  /\ FetcherInit /\ ManagerInit /\ StrategyInit /\ ManifestInit
           /\ CacheInit /\ NetworkInit /\ ConfigurationInit /\ CommandInit
BY DEF Init, FetcherRestsAt, ManagerRestsAt, StrategyRestsAt, ManifestRestsAt,
       ConfigurationRestsAt

\* ... and goes on as each of them does, or lets it rest.
LEMMA EachGoesOn ==
    ASSUME [Next]_supplyVars
    PROVE  /\ [FetcherNext]_fetcherVars /\ [ManagerNext]_managerVars
           /\ [StrategyNext]_strategyVars /\ [ManifestNext]_manifestVars
           /\ [CacheNext]_cacheVars /\ [NetworkNext]_networkVars
           /\ [ConfigurationNext]_configurationVars /\ [CommandNext]_commandVars
           /\ UNCHANGED <<component, inputs>>
BY DEF Next, OthersRest, supplyVars

\* Each part of the supply behaves as its own specification says, whichever is at work
\* (MCRuleSupply composes the eight of them).
THEOREM EachIsItself ==
    Spec => /\ FetcherSpec /\ ManagerSpec /\ StrategySpec /\ ManifestSpec
            /\ CacheSpec /\ NetworkSpec /\ ConfigurationSpec /\ CommandSpec
BY EachBegins, EachGoesOn, PTL
   DEF Spec, supplyVars, FetcherSpec, ManagerSpec, StrategySpec, ManifestSpec, CacheSpec,
       NetworkSpec, ConfigurationSpec, CommandSpec

-----------------------------------------------------------------------------
(* The run: names *)

\* The rows of the run are among those enumerated.
LEMMA InputsAreTables ==
    ASSUME Init PROVE rows \in MCRows
<1>1. [p \in MCPatterns |-> MCNone] \in MCRows
  BY DEF MCRows, MCNone
<1> QED  BY <1>1 DEF Init, InputsRestAt, AllRows

\* The table of the run is one that the program can hold.
LEMMA TableIsTable ==
    ASSUME rows \in MCRows
    PROVE  MCTable \in SUBSET DNSRule /\ OneRowPerDomain(MCTable)
<1>1. MCNames \subseteq Domain
  BY MCAssumption, EmptySeq DEF MCNames, Domain
<1>2. MCPatterns \subseteq Pattern
  <2>1. \A d \in MCNames : Exactly(d) \in Pattern /\ Below(d) \in Pattern
    BY <1>1 DEF Pattern, Exactly, Below
  <2> QED  BY <2>1 DEF MCPatterns
<1>3. \A p \in MCPatterns : rows[p] # MCNone =>
          MCRow(p, rows[p]) \in DNSRule /\ MCRow(p, rows[p]).domain = p
  <2> SUFFICES ASSUME NEW p \in MCPatterns, rows[p] # MCNone
               PROVE  MCRow(p, rows[p]) \in DNSRule /\ MCRow(p, rows[p]).domain = p
    OBVIOUS
  <2>1. rows[p] \in [action : {"Block", "Allow"}, type : {"Exact", "Wildcard"}]
    BY DEF MCRows
  <2>2. rows[p].action \in {"Block", "Allow"} /\ rows[p].type \in DNSRuleType
    BY <2>1 DEF DNSRuleType
  <2> QED  BY <1>2, <2>2 DEF MCRow, DNSRule, DNSRuleSource
<1> QED  BY <1>3 DEF MCTable, OneRowPerDomain

\* RulePrecedence!ResolvesAsDocumented, of the tables and names of the run
\* (DNSRulePrecedence.m:27-168).
THEOREM NamesResolveHolds == Spec => []NamesResolveAsDocumented
<1>1. Init => rows \in MCRows
  BY InputsAreTables
<1>2. rows \in MCRows /\ [Next]_supplyVars => (rows \in MCRows)'
  BY EachGoesOn DEF inputs
<1>3. rows \in MCRows => NamesResolveAsDocumented
  <2>1. MCNames \subseteq Domain
    BY MCAssumption, EmptySeq DEF MCNames, Domain
  <2> QED  BY <2>1, TableIsTable, NamesResolveForAnyTable DEF NamesResolveAsDocumented
<1> QED  BY <1>1, <1>2, <1>3, PTL DEF Spec, supplyVars
-----------------------------------------------------------------------------
(* The run: merging and looking up rule sets *)

\* The rule sets of the run are rule sets.
LEMMA SetsAreRuleSets == MCRuleSets \subseteq RuleSet
<1>1. MCEntries \subseteq RuleEntry
  <2>1. <<"y", "z">> \in Domain
    BY MCAssumption, EmptySeq DEF Domain
  <2>2. Exactly(<<"y", "z">>) \in Pattern /\ Below(<<"y", "z">>) \in Pattern
    BY <2>1 DEF Pattern, Exactly, Below
  <2>3. {"Block", "Allow"} \subseteq RuleAction /\ NoDate \in Int
    BY DEF RuleAction, NoDate
  <2> QED  BY <2>2, <2>3 DEF MCEntries, RuleEntry
<1>2. ASSUME NEW n \in 0 .. 2, NEW r \in [1 .. n -> MCEntries]
      PROVE  [rules |-> r, metadata |-> NoMetadata] \in RuleSet
  <2>1. r \in Seq(RuleEntry)
    BY <1>1
  <2>2. NoMetadata \in RuleSetMetadata
    BY EmptySeq DEF NoMetadata, RuleSetMetadata, NoDate
  <2> QED  BY <2>1, <2>2 DEF RuleSet
<1> QED  BY <1>2 DEF MCRuleSets

\* The rule sets of a behaviour that is about them are two of those of the run.
SetsOfRun == component = "ruleSets" => ruleSets \in MCRuleSets \X MCRuleSets

LEMMA SetsStay == Spec => []SetsOfRun
<1>1. Init => SetsOfRun
  BY DEF Init, SetsOfRun, AllRuleSets, StateComponents
<1>2. SetsOfRun /\ [Next]_supplyVars => SetsOfRun'
  BY EachGoesOn DEF SetsOfRun, inputs
<1> QED  BY <1>1, <1>2, PTL DEF Spec, supplyVars

\* RuleSets!MergeKeepsTheBest, of the rule sets of the run.
THEOREM MergesKeepTheBestHolds == Spec => []MergesKeepTheBest
<1>1. SetsOfRun => MergesKeepTheBest
  <2> SUFFICES ASSUME ruleSets \in MCRuleSets \X MCRuleSets
               PROVE  MergeKeepsTheBest(ruleSets)
    BY DEF SetsOfRun, MergesKeepTheBest
  <2>1. /\ ruleSets = <<ruleSets[1], ruleSets[2]>>
        /\ ruleSets[1] \in RuleSet /\ ruleSets[2] \in RuleSet
    BY SetsAreRuleSets
  <2>2. \A s, t : s \in RuleSet /\ t \in RuleSet => <<s, t>> \in Seq(RuleSet)
    OBVIOUS
  <2>3. ruleSets \in Seq(RuleSet)
    BY <2>1, <2>2, Zenon
  <2> QED  BY <2>3, AnyMergeKeepsTheBest
<1> QED  BY <1>1, SetsStay, PTL

\* RuleSets!IndexFindsTheSame, of all the rules of the run's rule sets.
THEOREM IndexesFindTheSameHolds == Spec => []IndexesFindTheSame
<1>1. SetsOfRun => IndexesFindTheSame
  <2> SUFFICES ASSUME ruleSets \in MCRuleSets \X MCRuleSets,
                      NEW d \in MCNames \ {<<"z">>}
               PROVE  IndexFindsTheSame(ruleSets[1].rules \o ruleSets[2].rules, d, "Smart")
    BY DEF SetsOfRun, IndexesFindTheSame
  <2>1. ruleSets[1] \in RuleSet /\ ruleSets[2] \in RuleSet
    BY SetsAreRuleSets
  <2>2. ruleSets[1].rules \in Seq(RuleEntry) /\ ruleSets[2].rules \in Seq(RuleEntry)
    BY <2>1 DEF RuleSet
  <2>3. ruleSets[1].rules \o ruleSets[2].rules \in Seq(RuleEntry)
    BY <2>2, ConcatProperties
  <2>4. MCNames \subseteq Domain
    BY MCAssumption, EmptySeq DEF MCNames, Domain
  <2> QED  BY <2>3, <2>4, IndexFindsTheSameAlways
<1> QED  BY <1>1, SetsStay, PTL

-----------------------------------------------------------------------------
(* The run: documents *)

\* The documents of the run are documents.
LEMMA FieldsAreFields ==
    /\ MCFields \subseteq Field
    /\ Missing \in Field /\ MCList(<<MCItem("string", b, NoPriority, "none")>>) \in Field
<1>1. {a, A, b, junk} \subseteq Text /\ NoText \notin Text
  BY MCAssumption, ParserAssumption
<1>2. \A t \in Text : MCItem("string", t, NoPriority, "none") \in Item
  BY <1>1 DEF MCItem, Item, NoPriority
<1>3. /\ \A t \in Text : MCItem("dictionary", t, 7, "none") \in Item
      /\ MCItem("dictionary", a, NoPriority, "Allow") \in Item
      /\ MCItem("other", NoText, NoPriority, "none") \in Item
  BY <1>1 DEF MCItem, Item, NoPriority
<1>4. MCItems \subseteq Item
  BY <1>1, <1>2, <1>3 DEF MCItems
<1>5. Missing \in Field
  BY EmptySeq DEF Missing, Field
<1>6. \A items \in Seq(Item) : MCList(items) \in Field
  BY DEF MCList, Field
<1>7. ASSUME NEW n \in 0 .. 2, NEW items \in [1 .. n -> MCItems]
      PROVE  items \in Seq(Item)
  BY <1>4
<1>8. \A item \in Item : <<item>> \in Seq(Item)
  OBVIOUS
<1>9. [form |-> "string", items |-> <<MCItem("string", a, NoPriority, "none")>>] \in Field
  <2>1. <<MCItem("string", a, NoPriority, "none")>> \in Seq(Item)
    BY <1>1, <1>2, <1>8
  <2> QED  BY <2>1 DEF Field
<1>10. MCList(<<MCItem("string", b, NoPriority, "none")>>) \in Field
  BY <1>1, <1>2, <1>6, <1>8
<1> QED  BY <1>5, <1>6, <1>7, <1>9, <1>10 DEF MCFields

\* The document of a behaviour that is about parsers is one.
DocumentOfRun == component = "parsers" => document \in JSONDocument

LEMMA DocumentStays == Spec => []DocumentOfRun
<1>1. Init => DocumentOfRun
  <2>1. ASSUME NEW blocked \in MCFields, NEW whitelist \in MCFields,
               NEW allowlist \in {Missing, MCList(<<MCItem("string", b, NoPriority, "none")>>)}
        PROVE  MCDocument(blocked, whitelist, allowlist) \in JSONDocument
    <3>1. /\ blocked \in Field /\ whitelist \in Field /\ allowlist \in Field
          /\ Missing \in Field /\ <<>> \in Seq(Item)
      BY FieldsAreFields, EmptySeq
    <3> QED  BY <3>1 DEF MCDocument, JSONDocument
  <2>2. AllDocuments => document \in JSONDocument
    BY <2>1 DEF AllDocuments
  <2> QED  BY <2>2 DEF Init, DocumentOfRun, StateComponents
<1>2. DocumentOfRun /\ [Next]_supplyVars => DocumentOfRun'
  BY EachGoesOn DEF DocumentOfRun, inputs
<1> QED  BY <1>1, <1>2, PTL DEF Spec, supplyVars

\* RuleParsers!NothingListedIsLost and RuleParsers!FormatsAgree, of the documents of the run.
THEOREM NothingParsedIsLostHolds == Spec => []NothingParsedIsLost
<1>1. DocumentOfRun => NothingParsedIsLost
  BY NothingListedIsEverLost, FormatsAgreeAlways DEF DocumentOfRun, NothingParsedIsLost
<1> QED  BY <1>1, DocumentStays, PTL

-----------------------------------------------------------------------------
(* The run: types *)

\* The variables of the component at work keep their types, whichever it is.
THEOREM SupplyTypeCorrect == Spec => []TypeOK
<1>1. /\ FetcherTypeOK /\ ManagerTypeOK /\ StrategyTypeOK /\ ManifestTypeOK
      /\ CacheTypeOK /\ NetworkTypeOK /\ ConfigurationTypeOK /\ CommandTypeOK
      => TypeOK
  BY DEF TypeOK
<1> QED  BY <1>1, EachIsItself, FetcherTypeCorrect, ManagerTypeCorrect, StrategyTypeCorrect,
            ManifestTypeCorrect, CacheTypeCorrect, NetworkTypeCorrect,
            ConfigurationTypeCorrect, CommandTypeCorrect, PTL

=============================================================================
