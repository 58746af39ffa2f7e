----------------------- MODULE ConfigurationManager -----------------------
(***************************************************************************)
(* The configuration manager: where the configuration comes from when the  *)
(* extension starts, what a resolved manifest makes of it, and what is     *)
(* saved.  The rule manager works with a configuration of its own; once    *)
(* that is saved, the two hold the same object, and what one changes the   *)
(* other sees.                                                             *)
(*                                                                         *)
(* Preferences are read through one accessor, which knows a fixed set of   *)
(* keys and looks for each in the managed preferences, the shared defaults *)
(* of the app group, the legacy domain and the defaults, in that order.    *)
(***************************************************************************)
EXTENDS Integers, Sequences, FiniteSets

CONSTANTS
    Dictionaries,       \* what preferences and manifests say of a rule source
    SourceLists,        \* the lists of them there may be: sets of dictionaries
    Settings,           \* what else is set: servers, timeouts, caches, updates
    DefaultSettings,
    MaxConfigurations,  \* bound on the configurations on their way to the rule manager
    MaxLoads,           \* bound on the manifests loaded
    MaxRestarts

RuleSourceType == {"HTTPS", "File", "Unknown"}
SourceDictionary == [type: {"https", "file", "s3"}, located: BOOLEAN,
                     enabled: {"missing", "true", "false"}]

ASSUME ConfigurationAssumption ==
    /\ Dictionaries \subseteq SourceDictionary
    /\ SourceLists \subseteq SUBSET Dictionaries
    /\ DefaultSettings \in Settings
    /\ MaxConfigurations \in Nat /\ MaxLoads \in Nat /\ MaxRestarts \in Nat

\* "located" stands for the url of an HTTPS source and the path of a file.
ConfiguredSource == [type: RuleSourceType, located: BOOLEAN, enabled: BOOLEAN]

DNSConfiguration ==
    [ruleSources: SUBSET ConfiguredSource, settings: Settings, isTransitionState: BOOLEAN,
     isManagedByProfile: BOOLEAN, allowRuleEditing: BOOLEAN]

\* A value that may be missing is a set of one element or none.
NotSet == {}
Maybe(S) == {NotSet} \cup {{v} : v \in S}
Content(value) == CHOOSE v \in value : TRUE

-----------------------------------------------------------------------------
(* Configurations *)

\* sourceFromDictionary: a source nobody says is enabled is not.
SourceFromDictionary(dict) ==
    [type |-> CASE dict.type = "https" -> "HTTPS"
                [] dict.type = "file" -> "File"
                [] OTHER -> "Unknown",
     located |-> dict.type \in {"https", "file"} /\ dict.located,
     enabled |-> dict.enabled = "true"]

SourceIsValid(source) == source.type # "Unknown" /\ source.located

DefaultConfiguration ==
    [ruleSources |-> {}, settings |-> DefaultSettings, isTransitionState |-> FALSE,
     isManagedByProfile |-> FALSE, allowRuleEditing |-> TRUE]

\* isValid, and the error it gives.
ConfigurationError(config) ==
    CASE config.ruleSources = {} /\ ~config.isTransitionState -> "MissingRequired"
      [] \E s \in config.ruleSources : ~SourceIsValid(s) -> "InvalidRuleSource"
      [] OTHER -> "none"

IsValid(config) == ConfigurationError(config) = "none"

\* encodeWithCoder and initWithCoder: a source keeps neither url nor path.
Decoded(config) ==
    [config EXCEPT !.ruleSources = {[s EXCEPT !.located = FALSE] : s \in @}]

LegacyConfiguration(list) ==
    [DefaultConfiguration EXCEPT !.ruleSources = {SourceFromDictionary(d) : d \in list}]

ManagedModeConfiguration(settings) ==
    [DefaultConfiguration EXCEPT !.settings = settings, !.isManagedByProfile = TRUE,
                                 !.allowRuleEditing = FALSE]

Locked(config) == [config EXCEPT !.isManagedByProfile = TRUE, !.allowRuleEditing = FALSE]

-----------------------------------------------------------------------------
(* State *)

Key == {"Configuration", "RuleSources", "useManifest"}

VARIABLES
    managedPreferences,    \* what a profile sets
    managedMode,           \* the settings of a machine in ManagedMode, if it is
    sharedDefaults,
    legacyDomain,
    currentConfiguration,  \* of the configuration manager
    managerConfiguration,  \* of the rule manager
    sameObject,            \* whether these two are one object
    rulesLoaded,           \* whether any source has rules
    converted,             \* configurations on their way to the rule manager
    running,
    lastSaved,             \* what the last successful save was given
    loads, restarts

preferences == <<managedPreferences, managedMode, sharedDefaults, legacyDomain>>
configurations == <<currentConfiguration, managerConfiguration, sameObject>>
progress == <<rulesLoaded, running, loads, restarts>>
configurationVars == <<preferences, configurations, converted, progress, lastSaved>>

\* DNPreferenceKeySet: the keys that have a default.
PreferenceKeySet == {"RuleSources"}
DefaultValue(key) == IF key = "RuleSources" THEN {{}} ELSE NotSet

\* DNPreferenceCopyValue
PreferenceValue(key) ==
    IF key \notin PreferenceKeySet THEN NotSet
    ELSE IF managedPreferences[key] # NotSet THEN managedPreferences[key]
    ELSE IF sharedDefaults[key] # NotSet THEN sharedDefaults[key]
    ELSE IF legacyDomain[key] # NotSet THEN legacyDomain[key]
    ELSE DefaultValue(key)

\* It copies to the shared defaults what it finds in the legacy domain only.
SharedAfterReading(key) ==
    IF /\ key \in PreferenceKeySet
       /\ managedPreferences[key] = NotSet /\ sharedDefaults[key] = NotSet
    THEN [sharedDefaults EXCEPT ![key] = legacyDomain[key]]
    ELSE sharedDefaults

\* isPreferenceManagedForKey knows every key.
IsManaged(key) == managedPreferences[key] # NotSet

\* loadConfiguration; the rule sources are read only when nothing else is found.
LoadedConfiguration ==
    LET archive == PreferenceValue("Configuration")
        config == Decoded(Content(archive))
    IN  IF archive # NotSet
        THEN IF IsManaged("Configuration") THEN Locked(config) ELSE config
        ELSE IF ~IsManaged("Configuration") /\ managedMode # NotSet
        THEN ManagedModeConfiguration(Content(managedMode))
        ELSE IF PreferenceValue("RuleSources") # NotSet
        THEN LegacyConfiguration(Content(PreferenceValue("RuleSources")))
        ELSE DefaultConfiguration

\* saveConfiguration: the archive goes to the legacy domain; what is refused is
\* only logged by both callers.
SaveConfiguration(config) ==
    IF IsValid(config)
    THEN /\ legacyDomain' = [legacyDomain EXCEPT !["Configuration"] = {config}]
         /\ lastSaved' = {config}
         /\ currentConfiguration' = config
         /\ sameObject' = TRUE
    ELSE UNCHANGED <<legacyDomain, lastSaved>>

-----------------------------------------------------------------------------
(* Steps *)

\* The extension starts: the configuration is loaded, and the rule manager gets
\* it when manifests are turned off, and the default one otherwise.
StartExtension ==
    /\ ~running
    /\ running' = TRUE
    /\ currentConfiguration' = LoadedConfiguration
    /\ sharedDefaults' = SharedAfterReading("RuleSources")
    /\ LET manifests == sharedDefaults["useManifest"] # {"NO"} IN
       /\ managerConfiguration' = IF manifests THEN DefaultConfiguration
                                               ELSE LoadedConfiguration
       /\ sameObject' = ~manifests
    /\ UNCHANGED <<managedPreferences, managedMode, legacyDomain, converted, rulesLoaded,
                   lastSaved, loads, restarts>>

\* Fault: the servers and timeouts in force are not carried over.
InheritingNothing(list) ==
    [Locked(DefaultConfiguration) EXCEPT
        !.ruleSources = {SourceFromDictionary(d) : d \in list}]

\* configurationFromResolvedManifest
FromResolvedManifest(list) ==
    [Locked(DefaultConfiguration) EXCEPT
        !.ruleSources = {SourceFromDictionary(d) : d \in list},
        !.settings = currentConfiguration.settings]

\* loadManifest, on the thread that resolved it: at startup unless manifests are
\* turned off, and at every reload, which asks shouldUseManifest; that looks for a
\* key the accessor does not know and so never finds it turned off.
ConvertManifest(list) ==
    /\ running /\ loads < MaxLoads /\ Len(converted) < MaxConfigurations
    /\ loads' = loads + 1
    /\ converted' = Append(converted, FromResolvedManifest(list))
    /\ UNCHANGED <<preferences, configurations, lastSaved, rulesLoaded, running, restarts>>

\* updateConfiguration, on managerQueue
ApplyConfiguration ==
    /\ running /\ converted # <<>>
    /\ LET next == Head(converted)
           config == [next EXCEPT !.isTransitionState = @ \/ next.ruleSources = {}]
       IN  /\ managerConfiguration' = config
           /\ SaveConfiguration(config)
           /\ ~IsValid(config) => UNCHANGED currentConfiguration /\ sameObject' = FALSE
    /\ converted' = Tail(converted)
    /\ UNCHANGED <<managedPreferences, managedMode, sharedDefaults, progress>>

\* mergeRuleSetsAndNotify, when a source has rules: the transition is over, for
\* the object in the configuration manager, too, when it is the same.
MergeEndsTransition ==
    /\ running
    /\ rulesLoaded' = TRUE
    /\ IF managerConfiguration.isTransitionState
       THEN LET config == [managerConfiguration EXCEPT !.isTransitionState = FALSE]
            IN  /\ managerConfiguration' = config
                /\ SaveConfiguration(config)
                /\ ~IsValid(config) =>
                      /\ currentConfiguration' = IF sameObject THEN config
                                                               ELSE currentConfiguration
                      /\ UNCHANGED sameObject
       ELSE UNCHANGED <<configurations, legacyDomain, lastSaved>>
    /\ UNCHANGED <<managedPreferences, managedMode, sharedDefaults, converted, running,
                   loads, restarts>>

StopExtension ==
    /\ running /\ restarts < MaxRestarts
    /\ restarts' = restarts + 1
    /\ running' = FALSE /\ rulesLoaded' = FALSE
    /\ converted' = <<>>
    /\ UNCHANGED <<preferences, configurations, lastSaved, loads>>

ConfigurationInit ==
    /\ managedPreferences \in
           {[k \in Key |-> IF k = "RuleSources" THEN v ELSE NotSet] :
                v \in {NotSet} \cup {{l} : l \in SourceLists}}
    /\ managedMode \in Maybe(Settings)
    /\ sharedDefaults \in
           {[k \in Key |-> IF k = "useManifest" THEN v ELSE NotSet] :
                v \in Maybe({"NO", "YES"})}
    /\ legacyDomain \in
           {[k \in Key |-> IF k = "RuleSources" THEN v ELSE NotSet] :
                v \in {NotSet} \cup {{l} : l \in SourceLists}}
    /\ currentConfiguration = DefaultConfiguration
    /\ managerConfiguration = DefaultConfiguration
    /\ sameObject = FALSE /\ rulesLoaded = FALSE /\ converted = <<>>
    /\ running = FALSE /\ lastSaved = NotSet /\ loads = 0 /\ restarts = 0

ConfigurationNext ==
    \/ StartExtension
    \/ \E list \in SourceLists : ConvertManifest(list)
    \/ ApplyConfiguration
    \/ MergeEndsTransition
    \/ StopExtension

ConfigurationSpec == ConfigurationInit /\ [][ConfigurationNext]_configurationVars

-----------------------------------------------------------------------------
(* Properties *)

\* The variables keep their types.
ConfigurationTypeOK ==
    /\ currentConfiguration \in DNSConfiguration /\ managerConfiguration \in DNSConfiguration
    /\ converted \in Seq(DNSConfiguration)
    /\ \A config \in lastSaved \cup legacyDomain["Configuration"] : config \in DNSConfiguration
    /\ {sameObject, rulesLoaded, running} \subseteq BOOLEAN
    /\ loads \in 0 .. MaxLoads /\ restarts \in 0 .. MaxRestarts

\* Whatever manifests are loaded, refused or saved while the extension runs, the
\* servers, timeouts and limits it started with stay in force.
SettingsAreKept ==
    [][running /\ running'
        => currentConfiguration'.settings = currentConfiguration.settings]_configurationVars

=============================================================================
