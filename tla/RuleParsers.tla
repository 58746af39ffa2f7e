---------------------------- MODULE RuleParsers ----------------------------
(***************************************************************************)
(* From a document to rules: the JSON, property list, YAML and hosts       *)
(* parsers, their options and the factory that chooses among them          *)
(* (RuleParser.m, Parser/, HostsFileParser.m).                             *)
(*                                                                         *)
(* Texts stand where a document writes a domain.  What normalizeDomain     *)
(* makes of a text and whether isValidDomain accepts it are constants; the *)
(* order in which a parser asks for the two is the parser's.  A rule here  *)
(* is its domain, action and priority; metadata and comments are left out, *)
(* and so is the index that performanceOptions ask for.                    *)
(***************************************************************************)
EXTENDS Integers, Sequences, SequencesExt, FiniteSets, Selection

CONSTANTS
    Text,        \* what may stand for a domain
    NoText,      \* a missing field, or one that is no string
    NormalForm,  \* normalizeDomain
    ValidText,   \* isValidDomain
    Localhost    \* texts that name this machine, skipped in a hosts file

\* isValidDomain takes letters, digits, dashes, dots and stars, none of the dots at an end,
\* and of such a text normalizeDomain changes the case alone (RuleParser.m:163-245).
ASSUME ParserAssumption ==
    /\ NoText \notin Text /\ ValidText \subseteq Text /\ Localhost \subseteq Text
    /\ NormalForm \in [Text -> Text]
    /\ \A t \in ValidText : NormalForm[t] \in ValidText

RuleParserCapabilities ==
    {"Streaming", "Metadata", "Validation", "Comments", "Priorities", "Wildcards", "Compressed"}

\* defaultAction, parseTimeout and batchSize are never looked at, or only for
\* the progress that is reported.
RuleParserOptions ==
    [strictMode: BOOLEAN, allowDuplicates: BOOLEAN, normalizeCase: BOOLEAN,
     validateDomains: BOOLEAN, maxRuleCount: Nat, defaultPriority: Int]

DefaultOptions ==
    [strictMode |-> FALSE, allowDuplicates |-> FALSE, normalizeCase |-> TRUE,
     validateDomains |-> TRUE, maxRuleCount |-> 0, defaultPriority |-> 50]
StrictOptions == [DefaultOptions EXCEPT !.strictMode = TRUE]
PerformanceOptions == [DefaultOptions EXCEPT !.validateDomains = FALSE]

\* What parseData returns: rules, or the code of an error.
Accept(rules) == [error |-> "none", rules |-> rules]
Refuse(code) == [error |-> code, rules |-> <<>>]

-----------------------------------------------------------------------------
(* Documents *)

NoPriority == -1
Item ==
    {item \in [kind: {"string", "dictionary", "other"}, domain: Text \cup {NoText},
               priority: Int, action: {"none", "Block", "Allow"}] :
        /\ item.kind = "string" => item.domain # NoText
        /\ item.kind = "other" => item.domain = NoText}

\* A field: missing, a list, one string, or something else.
Field ==
    {field \in [form: {"missing", "list", "string", "other"}, items: Seq(Item)] :
        field.form = "missing" => field.items = <<>>}
Missing == [form |-> "missing", items |-> <<>>]

\* form is "empty" for no data, "garbage" for what the format's reader rejects,
\* "fragment" for a bare number or string.
JSONDocument ==
    [form: {"empty", "garbage", "fragment", "array", "dictionary"}, items: Seq(Item),
     blocked: Field, whitelist: Field, allowlist: Field, allowed: Field]

\* A property list has no bare arrays of rules, and no other names for whitelist.
PlistDocument ==
    [form: {"empty", "garbage", "fragment", "array", "dictionary"}, items: Seq(Item),
     blocked: Field, whitelist: Field]

\* A YAML document is its lines.  "key" has nothing after its colon, "pair" has;
\* "item" is "- text", "itemPair" is "- domain: text" with, on the same line, all
\* that is in its item.
YAMLLine == [kind: {"blank", "marker", "key", "pair", "item", "itemPair"}, indent: Nat,
             key: {"blocked", "blocklist", "whitelist", "allowlist", "allowed",
                   "priority", "none"},
             item: Item]

\* A line of a hosts file: an address, blocking or not, with its names; a comment
\* that allows a name; anything else.
HostsLine == [kind: {"entry", "whitelist", "allow", "allowlist", "other"}, names: Seq(Text)]

\* The first of several names of a field that is there.
FirstOf(f, g) == IF f.form # "missing" THEN f ELSE g

-----------------------------------------------------------------------------
(* JSON and YAML: what they share *)

Admitted(text, options) == ~options.validateDomains \/ text \in ValidText
Normal(text, options) == IF options.normalizeCase THEN NormalForm[text] ELSE text

\* parseStringRule and parseDictionaryRule: no rule for an entry that is no good,
\* in strict mode, too.
ItemRule(item, action, options) ==
    IF item.kind = "other" \/ item.domain = NoText THEN <<>>
    ELSE IF ~Admitted(Normal(item.domain, options), options) THEN <<>>
    ELSE <<[domain   |-> Normal(item.domain, options),
            action   |-> IF item.kind = "dictionary" /\ item.action # "none" THEN item.action
                         ELSE action,
            priority |-> IF item.kind = "dictionary" /\ item.priority # NoPriority
                         THEN item.priority ELSE options.defaultPriority]>>

\* Fault: a rule is a duplicate when there is one for its domain.
AddingOnePerDomain(parsed, new, options) ==
    IF ~options.allowDuplicates
       /\ \E i \in DOMAIN new, j \in DOMAIN parsed : new[i].domain = parsed[j].domain
    THEN parsed ELSE parsed \o new

\* A rule is a duplicate when there is one that does the same to its domain.
Adding(parsed, new, options) ==
    IF ~options.allowDuplicates
       /\ \E i \in DOMAIN new, j \in DOMAIN parsed :
             new[i].domain = parsed[j].domain /\ new[i].action = parsed[j].action
    THEN parsed ELSE parsed \o new

Full(rules, options) == options.maxRuleCount > 0 /\ Len(rules) >= options.maxRuleCount

\* parseRuleArray: the limit is looked at after an item, so each list adds one
\* more to a set that is full already.
ParseRuleArray(parsed, items, action, options) ==
    FoldLeft(LAMBDA acc, item :
                 IF acc.full THEN acc
                 ELSE LET rules == Adding(acc.rules, ItemRule(item, action, options), options)
                      IN [rules |-> rules, full |-> Full(rules, options)],
             [rules |-> parsed, full |-> FALSE], items).rules

-----------------------------------------------------------------------------
(* JSON *)

HasRequiredFields(json) ==
    \E f \in {json.blocked, json.whitelist, json.allowlist, json.allowed} : f.form # "missing"

ParseJSON(json, options) ==
    LET whitelist == FirstOf(json.whitelist, FirstOf(json.allowlist, json.allowed)) IN
    IF json.form = "empty" THEN Refuse("EmptyData")
    ELSE IF json.form = "garbage" THEN Refuse("SyntaxError")
    ELSE IF json.form = "fragment" THEN Refuse("InvalidFormat")
    ELSE IF json.form = "array"
         THEN Accept(ParseRuleArray(<<>>, json.items, "Block", options))
    ELSE IF ~HasRequiredFields(json) THEN Refuse("MissingRequiredField")
    ELSE IF {json.blocked.form, whitelist.form} \cap {"string", "other"} # {}
         THEN Refuse("InvalidFormat")
    ELSE Accept(ParseRuleArray(ParseRuleArray(<<>>, json.blocked.items, "Block", options),
                               whitelist.items, "Allow", options))

-----------------------------------------------------------------------------
(* Property lists *)

\* An item is validated as it is written and normalised afterwards; there is no
\* action of its own.
PlistRule(item, action, options) ==
    [domain   |-> Normal(item.domain, options), action |-> action,
     priority |-> IF item.kind = "dictionary" /\ item.priority # NoPriority
                  THEN item.priority ELSE options.defaultPriority]

\* What is wrong with an item: it ends parsing in strict mode, else the item is
\* skipped.
PlistFault(item, options) ==
    IF item.kind = "other" \/ item.domain = NoText THEN "InvalidFormat"
    ELSE IF ~Admitted(item.domain, options) THEN "InvalidDomain"
    ELSE "none"

\* parseRulesFromArray: here a domain is a duplicate whatever is done to it.
ParseRulesFromArray(before, items, action, options) ==
    FoldLeft(LAMBDA acc, item :
                 LET rule == PlistRule(item, action, options) IN
                 IF acc.full \/ acc.error # "none" THEN acc
                 ELSE IF PlistFault(item, options) # "none"
                      THEN [acc EXCEPT !.error = IF options.strictMode
                                                 THEN PlistFault(item, options) ELSE "none"]
                 ELSE IF ~options.allowDuplicates
                         /\ \E i \in DOMAIN acc.rules : acc.rules[i].domain = rule.domain
                      THEN acc
                 ELSE [error |-> "none", rules |-> Append(acc.rules, rule),
                       full |-> Full(Append(acc.rules, rule), options)],
             [before EXCEPT !.full = FALSE], items)

ParsePlist(plist, options) ==
    LET nothing == [error |-> "none", rules |-> <<>>, full |-> FALSE]
        blocked == ParseRulesFromArray(nothing, plist.blocked.items, "Block", options)
        both == ParseRulesFromArray(blocked, plist.whitelist.items, "Allow", options) IN
    IF plist.form = "empty" THEN Refuse("EmptyData")
    ELSE IF plist.form # "dictionary" THEN Refuse("InvalidFormat")
    ELSE IF plist.blocked.items = <<>> /\ plist.whitelist.items = <<>>
         THEN Refuse("InvalidFormat")
    ELSE IF {plist.blocked.form, plist.whitelist.form} \cap {"string", "other"} # {}
         THEN Refuse("InvalidFormat")
    ELSE IF both.error # "none" THEN Refuse(both.error)
    ELSE Accept(both.rules)

-----------------------------------------------------------------------------
(* YAML *)

\* One line of parseYAMLString.  Any pair ends the list it stands in, the further
\* fields of an item included, and items that are not indented below a key go.
ReadLine(acc, line) ==
    CASE line.kind \in {"item", "itemPair"} ->
             IF acc.currentKey = "none" \/ line.indent <= acc.currentIndent THEN acc
             ELSE [acc EXCEPT !.fields[acc.currentKey] =
                       [form |-> "list",
                        items |-> Append(IF acc.inArray THEN @.items ELSE <<>>, line.item)],
                              !.inArray = TRUE]
      [] line.kind = "key" ->
             [acc EXCEPT !.currentKey = line.key, !.inArray = FALSE,
                         !.currentIndent = line.indent]
      [] line.kind = "pair" ->
             [acc EXCEPT !.fields[line.key] =
                             [form |-> IF line.item.kind = "string" THEN "string" ELSE "other",
                              items |-> <<line.item>>],
                         !.currentKey = "none", !.inArray = FALSE]
      [] OTHER -> acc

YAMLFields(lines) ==
    FoldLeft(ReadLine,
             [fields |-> [k \in {"blocked", "blocklist", "whitelist", "allowlist", "allowed",
                                 "priority", "none"} |-> Missing],
              currentKey |-> "none", inArray |-> FALSE, currentIndent |-> 0],
             lines).fields

\* parseRuleValue: a single string is added without a look at what is there.
ParseRuleValue(parsed, field, action, options) ==
    IF field.form = "list" THEN ParseRuleArray(parsed, field.items, action, options)
    ELSE IF field.form = "string" THEN parsed \o ItemRule(field.items[1], action, options)
    ELSE parsed

\* What has no rules in it is a rule set without rules.
ParseYAML(lines, options) ==
    LET f == YAMLFields(lines)
        blocked == FirstOf(f["blocked"], f["blocklist"])
        whitelist == FirstOf(f["whitelist"], FirstOf(f["allowlist"], f["allowed"])) IN
    IF lines = <<>> THEN Refuse("EmptyData")
    ELSE IF \A i \in DOMAIN lines : lines[i].kind = "blank" THEN Refuse("SyntaxError")
    ELSE Accept(ParseRuleValue(ParseRuleValue(<<>>, blocked, "Block", options),
                               whitelist, "Allow", options))

-----------------------------------------------------------------------------
(* Hosts files *)

\* createRuleForDomain
HostRule(text, action, options) ==
    IF Normal(text, options) \in Localhost THEN <<>>
    ELSE IF ~Admitted(Normal(text, options), options) THEN <<>>
    ELSE <<[domain |-> Normal(text, options), action |-> action,
            priority |-> options.defaultPriority]>>

\* parseLine: whatever the address is, its names are blocked.  "@allowlist" is
\* taken for "@allow", and "list" then for a part of the name, which makes it
\* invalid.
ParseHostsLine(parsed, line, options) ==
    FoldLeft(LAMBDA rules, text :
                 Adding(rules,
                        HostRule(text, IF line.kind = "entry" THEN "Block" ELSE "Allow", options),
                        options),
             parsed,
             IF line.kind \in {"entry", "whitelist", "allow"} THEN line.names ELSE <<>>)

ParseHosts(lines, options) ==
    IF lines = <<>> THEN Refuse("EmptyData")
    ELSE Accept(FoldLeft(LAMBDA rules, line :
                             IF Full(rules, options) THEN rules
                             ELSE ParseHostsLine(rules, line, options),
                         <<>>, lines))

-----------------------------------------------------------------------------
(* The factory: formats, and the file extensions of each *)

RegisteredFormats == {"json", "plist", "yaml", "yml", "hosts", "txt"}
SupportedExtensions ==
    [json |-> {"json", "jsonl"}, plist |-> {"plist"}, yaml |-> {"yaml", "yml"},
     hosts |-> {"hosts", "txt", "conf", "list"}]
ParserForFormat(format) ==
    CASE format = "yml" -> "yaml" [] format = "txt" -> "hosts" [] OTHER -> format

-----------------------------------------------------------------------------
(* Properties, of a document *)

Listed(items, action) ==
    {<<NormalForm[items[i].domain],
       IF items[i].kind = "dictionary" /\ items[i].action # "none" THEN items[i].action
       ELSE action>> :
     i \in {j \in DOMAIN items : /\ items[j].kind # "other" /\ items[j].domain # NoText
                                 /\ NormalForm[items[j].domain] \in ValidText}}

\* A JSON list that is accepted becomes exactly what it lists: every entry that can be
\* read, and one that cannot costs nothing but itself; a domain twice only when it
\* stands under both actions (JSONRuleParser.m:132-316).
NothingListedIsLost(json) ==
    LET result == ParseJSON(json, DefaultOptions)
        whitelist == FirstOf(json.whitelist, FirstOf(json.allowlist, json.allowed)) IN
    json.form = "dictionary" /\ result.error = "none" =>
        /\ {<<result.rules[i].domain, result.rules[i].action>> : i \in DOMAIN result.rules}
             = Listed(json.blocked.items, "Block") \cup Listed(whitelist.items, "Allow")
        /\ \A i, j \in DOMAIN result.rules :
              result.rules[i].domain = result.rules[j].domain
              /\ result.rules[i].action = result.rules[j].action => i = j

\* The same lists as the lines of the other two formats.
NoItem == [kind |-> "other", domain |-> NoText, priority |-> NoPriority, action |-> "none"]
YAMLList(key, items) ==
    <<[kind |-> "key", indent |-> 0, key |-> key, item |-> NoItem]>>
    \o [i \in DOMAIN items |->
            [kind |-> "item", indent |-> 2, key |-> "none", item |-> items[i]]]
HostsList(kind, items) == [i \in DOMAIN items |-> [kind |-> kind, names |-> <<items[i].domain>>]]

\* The same lists in the four formats.  Names alone become the same rules in JSON, YAML
\* and a hosts file, but for those of this machine, which only a hosts file leaves out.
\* With no actions of their own, what a property list says JSON says, too, unless a text
\* that only normalising makes a domain stands for it as well: the property list skips it,
\* in JSON it may be the one that counts.  Where JSON has a domain that a property list
\* has not, only such texts stand for it (PlistRuleParser.m:254-356,
\* JSONRuleParser.m:174-316, YAMLRuleParser.m:391-468, HostsFileParser.m:151-262).
FormatsAgree(json) ==
    LET whitelist == FirstOf(json.whitelist, FirstOf(json.allowlist, json.allowed))
        plist == [form |-> json.form, items |-> <<>>, blocked |-> json.blocked,
                  whitelist |-> whitelist]
        yaml == YAMLList("blocked", json.blocked.items) \o YAMLList("allowed", whitelist.items)
        hosts == HostsList("entry", json.blocked.items) \o HostsList("allow", whitelist.items)
        entries == ToSet(json.blocked.items) \cup ToSet(whitelist.items)
        fromJSON == ParseJSON(json, DefaultOptions)
        fromPlist == ParsePlist(plist, DefaultOptions)
        domains(r) == {r.rules[i].domain : i \in DOMAIN r.rules} IN
    /\ json.form = "dictionary" /\ fromJSON.error = "none"
       /\ (\A e \in entries : e.kind = "string") =>
          /\ ParseYAML(yaml, DefaultOptions).rules = fromJSON.rules
          /\ ParseHosts(hosts, DefaultOptions).rules
                = Those(fromJSON.rules, {r \in ToSet(fromJSON.rules) : r.domain \notin Localhost})
    /\ fromPlist.error = "none" => fromJSON.error = "none"
    /\ (\A e \in entries : e.action = "none") =>
          \A rule \in ToSet(fromPlist.rules) \ ToSet(fromJSON.rules) :
             \E e \in entries : /\ e.domain # NoText /\ e.domain \notin ValidText
                                /\ NormalForm[e.domain] = rule.domain
    /\ fromPlist.error = "none" =>
          \A d \in domains(fromJSON) \ domains(fromPlist) :
             \A e \in entries : e.domain # NoText /\ NormalForm[e.domain] = d
                                => e.domain \notin ValidText

=============================================================================
