---------------------------- MODULE MCRuleSupply ----------------------------
(***************************************************************************)
(* The components that supply the rules, and the commands that ask for     *)
(* them, checked in one run.  They share no variables, so a behaviour of   *)
(* the run is one of a single component, chosen at the start, while the    *)
(* others rest.  The three that are functions of their input, the          *)
(* precedence of rules, rule sets and parsers, take every input there is   *)
(* at the start and do nothing.                                            *)
(***************************************************************************)
EXTENDS RuleFetcher, RuleManager, RulePrecedence, RuleSets, RuleParsers, UpdateStrategies,
        ManifestResolver, RuleSetCaches, NetworkReachability, ConfigurationManager,
        CommandProcessor

CONSTANTS s1, s2, a, A, b, junk, w1, w2

VARIABLES component, rows, ruleSets, document

inputs == <<rows, ruleSets, document>>

-----------------------------------------------------------------------------
(* Values of the constants *)

MCConfigurations == {{s1, s2}, {s1}}

MCSchedules ==
    {NoSchedule, [times |-> {1}, days |-> {}], [times |-> {0, 2, 5}, days |-> {}],
     [times |-> {0, 1}, days |-> {0, 2}], [times |-> {1}, days |-> {1}]}

\* "A" is "a" before it is normalised; "junk" is no domain.
MCNormalForm == [t \in {a, A, b, junk} |-> IF t = A THEN a ELSE t]

MCLeaf(name) ==
    [name |-> name, includes |-> <<>>, items |-> <<>>,
     sources |-> <<[id |-> name, url |-> name]>>, rules |-> {name}]
MCIncluding(name, includes) == [MCLeaf(name) EXCEPT !.includes = includes]
MCNoSite == [i \in Identifier |-> NoManifest]
MCOnVPN(includes) ==
    [condition |-> "vpn", includes |-> includes, sources |-> <<>>, rules |-> {"vpn"}]

\* A site with a conditional include, one that is served by its default manifest only,
\* which lacks its include, and one whose includes go round.
MCSites ==
    {[MCNoSite EXCEPT
        !["site"] = [MCIncluding("site", <<"default">>) EXCEPT !.items = <<MCOnVPN(<<"extra">>)>>],
        !["default"] = MCIncluding("default", <<"extra">>), !["extra"] = MCLeaf("extra")],
     [MCNoSite EXCEPT !["default"] = MCIncluding("default", <<"extra">>)],
     [MCNoSite EXCEPT !["site"] = MCIncluding("site", <<"extra">>),
                      !["extra"] = MCIncluding("extra", <<"site">>)]}

MCPaths ==
    {[satisfied |-> FALSE, interfaces |-> {}],
     [satisfied |-> TRUE, interfaces |-> {"WiFi", "Cellular"}],
     [satisfied |-> TRUE, interfaces |-> {"Wired"}]}

MCHosts == [type |-> "https", located |-> TRUE, enabled |-> "true"]
MCNoPath == [type |-> "file", located |-> FALSE, enabled |-> "missing"]
MCDictionaries == {MCHosts, MCNoPath}
MCSourceLists == {{}, {MCHosts}, {MCHosts, MCNoPath}}

-----------------------------------------------------------------------------
(* Inputs of the functions *)

ASSUME MCAssumption == {"x", "y", "z"} \subseteq Label /\ {a, A, b, junk} \subseteq Text

\* Every table over three nested names and the wildcards below them.
MCNames == {<<"x", "y", "z">>, <<"y", "z">>, <<"z">>}
MCPatterns == {Exactly(d) : d \in MCNames} \cup {Below(d) : d \in MCNames}
MCRow(p, row) ==
    [domain |-> p, action |-> row.action, type |-> row.type, priority |-> 1, source |-> "User"]
MCNone == [action |-> "none", type |-> "Exact"]
MCRows ==
    {f \in [MCPatterns -> {MCNone} \cup [action : {"Block", "Allow"}, type : {"Exact", "Wildcard"}]] :
        \A p \in MCPatterns : p.wild \/ f[p].type = "Exact"}
MCTable == {MCRow(p, rows[p]) : p \in {q \in MCPatterns : rows[q] # MCNone}}

\* Two rule sets of at most two rules.
MCEntries ==
    [domain : {Exactly(<<"y", "z">>), Below(<<"y", "z">>)}, action : {"Block", "Allow"},
     priority : {50, 100}, addedDate : {NoDate}]
MCRuleSets ==
    {[rules |-> r, metadata |-> NoMetadata] : r \in UNION {[1 .. n -> MCEntries] : n \in 0 .. 2}}

\* A JSON document with its two lists, and the other name for the second of them.
MCItem(kind, text, priority, action) ==
    [kind |-> kind, domain |-> text, priority |-> priority, action |-> action]
MCItems ==
    {MCItem("string", t, NoPriority, "none") : t \in {a, A, junk}}
    \cup {MCItem("dictionary", b, 7, "none"), MCItem("dictionary", A, 7, "none"),
          MCItem("dictionary", a, NoPriority, "Allow"), MCItem("other", NoText, NoPriority, "none")}
MCList(items) == [form |-> "list", items |-> items]
MCFields ==
    {Missing, [form |-> "string", items |-> <<MCItem("string", a, NoPriority, "none")>>]}
    \cup {MCList(items) : items \in UNION {[1 .. n -> MCItems] : n \in 0 .. 2}}
MCDocument(blocked, whitelist, allowlist) ==
    [form |-> "dictionary", items |-> <<>>, blocked |-> blocked, whitelist |-> whitelist,
     allowlist |-> allowlist, allowed |-> Missing]

AllRows == rows \in MCRows
AllRuleSets == ruleSets \in MCRuleSets \X MCRuleSets
AllDocuments ==
    \E blocked, whitelist \in MCFields :
       \E allowlist \in {Missing, MCList(<<MCItem("string", b, NoPriority, "none")>>)} :
          document = MCDocument(blocked, whitelist, allowlist)

-----------------------------------------------------------------------------
(* One component at work *)

FetcherRestsAt == FetcherInit /\ fetcherClass = "file" /\ fetcherUser = "manager"
ManagerRestsAt == ManagerInit /\ configuration = {s1} /\ ruleCaches = NoneAtAll
StrategyRestsAt == StrategyInit /\ strategyClass = "manual" /\ updateInterval = 0
ManifestRestsAt ==
    ManifestInit /\ documents = [MCNoSite EXCEPT !["default"] = MCIncluding("default", <<"extra">>)]
ConfigurationRestsAt ==
    /\ ConfigurationInit
    /\ managedMode = NotSet /\ managedPreferences["RuleSources"] = NotSet
    /\ sharedDefaults["useManifest"] = NotSet /\ legacyDomain["RuleSources"] = NotSet
InputsRestAt ==
    /\ rows = [p \in MCPatterns |-> MCNone] /\ ruleSets = <<>>
    /\ document = MCDocument(Missing, Missing, Missing)

StateComponents ==
    {"fetcher", "manager", "strategy", "manifest", "caches", "network", "configuration",
     "commands"}

Init ==
    \/ /\ component \in StateComponents
       /\ InputsRestAt
       /\ IF component = "fetcher" THEN FetcherInit ELSE FetcherRestsAt
       /\ IF component = "manager" THEN ManagerInit ELSE ManagerRestsAt
       /\ IF component = "strategy" THEN StrategyInit ELSE StrategyRestsAt
       /\ IF component = "manifest" THEN ManifestInit ELSE ManifestRestsAt
       /\ IF component = "configuration" THEN ConfigurationInit ELSE ConfigurationRestsAt
       /\ CacheInit /\ NetworkInit /\ CommandInit
    \/ /\ \/ component = "precedence" /\ AllRows
             /\ ruleSets = <<>> /\ document = MCDocument(Missing, Missing, Missing)
          \/ component = "ruleSets" /\ AllRuleSets
             /\ rows = [p \in MCPatterns |-> MCNone] /\ document = MCDocument(Missing, Missing, Missing)
          \/ component = "parsers" /\ AllDocuments
             /\ rows = [p \in MCPatterns |-> MCNone] /\ ruleSets = <<>>
       /\ FetcherRestsAt /\ ManagerRestsAt /\ StrategyRestsAt /\ ManifestRestsAt
       /\ ConfigurationRestsAt /\ CacheInit /\ NetworkInit /\ CommandInit

OthersRest ==
    /\ UNCHANGED <<component, inputs>>
    /\ component # "fetcher" => UNCHANGED fetcherVars
    /\ component # "manager" => UNCHANGED managerVars
    /\ component # "strategy" => UNCHANGED strategyVars
    /\ component # "manifest" => UNCHANGED manifestVars
    /\ component # "caches" => UNCHANGED cacheVars
    /\ component # "network" => UNCHANGED networkVars
    /\ component # "configuration" => UNCHANGED configurationVars
    /\ component # "commands" => UNCHANGED commandVars

Next ==
    \/ component = "fetcher" /\ FetcherNext /\ OthersRest
    \/ component = "manager" /\ ManagerNext /\ OthersRest
    \/ component = "strategy" /\ StrategyNext /\ OthersRest
    \/ component = "manifest" /\ ManifestNext /\ OthersRest
    \/ component = "caches" /\ CacheNext /\ OthersRest
    \/ component = "network" /\ NetworkNext /\ OthersRest
    \/ component = "configuration" /\ ConfigurationNext /\ OthersRest
    \/ component = "commands" /\ CommandNext /\ OthersRest

Spec == Init /\ [][Next]_<<component, inputs, fetcherVars, managerVars, strategyVars,
                          manifestVars, cacheVars, networkVars, configurationVars, commandVars>>

-----------------------------------------------------------------------------
(* Properties *)

\* The variables of the component at work keep their types; the others' never change.
TypeOK ==
    CASE component = "fetcher" -> FetcherTypeOK
      [] component = "manager" -> ManagerTypeOK
      [] component = "strategy" -> StrategyTypeOK
      [] component = "manifest" -> ManifestTypeOK
      [] component = "caches" -> CacheTypeOK
      [] component = "network" -> NetworkTypeOK
      [] component = "configuration" -> ConfigurationTypeOK
      [] component = "commands" -> CommandTypeOK
      [] OTHER -> TRUE

\* For every table, each name gets the action of the documented order
\* (RulePrecedence!ResolvesAsDocumented).
NamesResolveAsDocumented ==
    component = "precedence" => \A d \in MCNames : ResolvesAsDocumented(MCTable, d)

\* A merge keeps the best rule of each domain and action (RuleSets!MergeKeepsTheBest).
MergesKeepTheBest == component = "ruleSets" => MergeKeepsTheBest(ruleSets)

\* The index finds what the scan finds (RuleSets!IndexFindsTheSame).
IndexesFindTheSame ==
    component = "ruleSets" =>
        \A d \in MCNames \ {<<"z">>} :
            IndexFindsTheSame(ruleSets[1].rules \o ruleSets[2].rules, d, "Smart")

\* An accepted JSON list becomes what it lists, and the other formats make the same of it
\* (RuleParsers!NothingListedIsLost, RuleParsers!FormatsAgree).
NothingParsedIsLost ==
    component = "parsers" => NothingListedIsLost(document) /\ FormatsAgree(document)

=============================================================================
