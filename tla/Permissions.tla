---------------------------- MODULE Permissions ----------------------------
(* What an assistant may do: the capabilities a person consents to, the     *)
(* organization's profile that limits them, and the tools the server lists  *)
(* (worklogger-mcp/src/configuration.rs, server.rs and main.rs,             *)
(* worklogger-profile/src, desktop-app/src/mcp_management.rs, defaults.rs). *)
(* Consent is given in the desktop application, in the setup of a provider  *)
(* and by the import of a file.  Each reads the settings, restricts them to *)
(* a profile and writes them in one step here; how such steps interleave is *)
(* the subject of SharedSettings, and what becomes of their tokens that of   *)
(* CredentialTransactions.                                                  *)
EXTENDS FiniteSets

CONSTANTS Capabilities,
          ModuleOf,         \* "jira" or "bitbucket"
          RequiredRead,     \* the capability another needs, or NoCapability
          NoCapability,
          ReadOwnTimeEntries, WriteOwnTimeEntries,
          Profiles,         \* profiles an organization may hand out
          Embedded,         \* the profile in the program
          Imports,          \* configurations in files
          NoConfiguration, NoProfile

Modules == {"jira", "bitbucket"}

\* A provider's settings, or the hours': incomplete, or complete and within or
\* beyond the scopes and limits of the profiles that restrict them.
Extents == {"missing", "within", "beyond"}

Closed(capabilities) == \A c \in capabilities : RequiredRead[c] \in capabilities \cup {NoCapability}
OfModule(module) == {c \in Capabilities : ModuleOf[c] = module}

\* IntegrationModuleId, ModuleConfiguration, McpConfiguration.
Consents ==
    [Modules -> [enabled : BOOLEAN, capabilities : {s \in SUBSET Capabilities : Closed(s)}]]
Configurations ==
    [jira : Extents, hours : Extents, bitbucket : Extents, modules : Consents]

\* OrganizationProfile: validate_capabilities refuses one that is not closed.
ProfileSet ==
    {p \in [modules : SUBSET Modules, allowed : SUBSET Capabilities, strict : BOOLEAN] :
        /\ Closed(p.allowed)
        /\ \A c \in p.allowed : ModuleOf[c] \in p.modules}

ASSUME PermissionsAssumption ==
    /\ ModuleOf \in [Capabilities -> Modules]
    /\ NoCapability \notin Capabilities
    /\ RequiredRead \in [Capabilities -> Capabilities \cup {NoCapability}]
    /\ {ReadOwnTimeEntries, WriteOwnTimeEntries} \subseteq OfModule("jira")
    /\ \A c \in Capabilities : RequiredRead[c] # NoCapability =>
           /\ ModuleOf[RequiredRead[c]] = ModuleOf[c]
           /\ RequiredRead[RequiredRead[c]] = NoCapability
    /\ Embedded \in Profiles /\ "jira" \in Embedded.modules /\ Profiles \subseteq ProfileSet
    /\ Imports \subseteq Configurations
    /\ NoConfiguration \notin Configurations /\ NoProfile \notin Profiles

VARIABLES
    document,   \* the shared settings, as a configuration
    profile,    \* the profile that is installed
    desktop,    \* the profile the desktop application read when it started
    arriving    \* the profile that a setup or an import has yet to install

permissionVars == <<document, profile, desktop, arriving>>

---------------------------------------------------------------------------
(* Configurations.                                                          *)

Enabled(configuration, c) ==
    /\ configuration.modules[ModuleOf[c]].enabled
    /\ c \in configuration.modules[ModuleOf[c]].capabilities

Granted(configuration) == {c \in Capabilities : Enabled(configuration, c)}

\* validate_persisted_modules, validate_module_connections
Valid(configuration) ==
    /\ \A m \in Modules : /\ configuration.modules[m].capabilities \subseteq OfModule(m)
                          /\ Closed(configuration.modules[m].capabilities)
    /\ configuration.modules["jira"].enabled => configuration.jira # "missing"
    /\ Enabled(configuration, ReadOwnTimeEntries) => configuration.hours # "missing"
    /\ configuration.modules["bitbucket"].enabled => configuration.bitbucket # "missing"

\* from_shared: nothing is on, or something that is on is incomplete.
Loaded ==
    IF (\A m \in Modules : ~document.modules[m].enabled) \/ ~Valid(document)
    THEN NoConfiguration ELSE document

\* apply_organization_profile: what it takes away.
Restricted(configuration, p) ==
    [configuration EXCEPT !.modules =
        [m \in Modules |->
            LET kept == configuration.modules[m].capabilities \cap p.allowed
            IN  [enabled |-> configuration.modules[m].enabled /\ kept # {},
                 capabilities |-> kept]]]

\* apply_organization_profile: what it refuses.
WithinProfile(configuration, p) ==
    /\ p.strict =>
         /\ configuration.modules["jira"].enabled => configuration.jira # "beyond"
         /\ Enabled(configuration, ReadOwnTimeEntries) => configuration.hours # "beyond"
         /\ configuration.modules["bitbucket"].enabled => configuration.bitbucket # "beyond"
    /\ Valid(configuration)

\* update_shared: a provider without settings leaves those of the document.
Stored(configuration) ==
    LET over(new, old) == IF new = "missing" THEN old ELSE new
    IN  [jira      |-> over(configuration.jira, document.jira),
         hours     |-> over(IF configuration.jira = "missing" THEN "missing"
                            ELSE configuration.hours, document.hours),
         bitbucket |-> over(configuration.bitbucket, document.bitbucket),
         modules   |-> configuration.modules]

\* What the document becomes when one of the configurations is restricted to a profile
\* and saved.  Nothing changes when it is refused.
Saved(configurations, p) ==
    {Stored(Restricted(configuration, p)) :
        configuration \in {k \in configurations : Valid(k) /\ WithinProfile(Restricted(k, p), p)}}

---------------------------------------------------------------------------
(* The server.                                                              *)

\* Mutant: the server trusts what was saved.
LoadedAsSaved == Loaded

\* effective_configuration
Effective == IF Loaded = NoConfiguration THEN Loaded ELSE Restricted(Loaded, profile)

\* serve ends with an error.
CanServe == Effective # NoConfiguration /\ WithinProfile(Effective, profile)

\* configured_tool_router, tool_capabilities: every capability has its tools.
Tools == Granted(Effective)

\* with_jira_backends, with_bitbucket_backend
Backends ==
    {b \in {"issues", "worklogs", "hours", "pullRequests"} :
        CASE b = "issues"   -> Effective.modules["jira"].enabled
          [] b = "worklogs" -> Enabled(Effective, WriteOwnTimeEntries)
          [] b = "hours"    -> Enabled(Effective, ReadOwnTimeEntries)
          [] b = "pullRequests" -> Effective.modules["bitbucket"].enabled}

\* The backend that the tools of a capability call.
BackendOf(c) ==
    IF ModuleOf[c] = "bitbucket" THEN "pullRequests"
    ELSE IF c = ReadOwnTimeEntries THEN "hours"
    ELSE IF c = WriteOwnTimeEntries THEN "worklogs"
    ELSE "issues"

---------------------------------------------------------------------------
(* Consent.                                                                 *)

\* What can be chosen for a module: disable_dependent_jira_capabilities and _bitbucket_
\* take away what lacks its read.
Selections(module) == {s \in SUBSET OfModule(module) : Closed(s)}

NothingConsented == [m \in Modules |-> [enabled |-> FALSE, capabilities |-> {}]]

\* Mutant: the other module is forgotten.
NoModules == NothingConsented

\* Without a configuration there are no modules to start from.
CurrentModules == IF Loaded = NoConfiguration THEN NothingConsented ELSE Loaded.modules

Needing(c) == {c} \cup {d \in Capabilities : RequiredRead[d] = c}
WithRead(c) == {c} \cup ({RequiredRead[c]} \ {NoCapability})

\* set_capability: what is granted brings the read it needs, and a read that is
\* withdrawn takes along what needs it.
WithCapability(modules, c, on) ==
    LET now == modules[ModuleOf[c]].capabilities
        capabilities == IF on THEN now \cup WithRead(c) ELSE now \ Needing(c)
    IN  [modules EXCEPT ![ModuleOf[c]] =
            [enabled |-> capabilities # {}, capabilities |-> capabilities]]

\* configure: a switch on the consent page.  The settings of Jira are those that are
\* saved or the application's own, which also lend the hours where they are needed.
Consented(c, on) ==
    LET current == IF Loaded = NoConfiguration
                   THEN [jira |-> "missing", hours |-> "missing", bitbucket |-> "missing"]
                   ELSE Loaded
        jiras == IF current.jira = "missing" THEN {"within", "beyond"} ELSE {current.jira}
        borrowed == \/ current.jira = "missing"
                    \/ on /\ c = ReadOwnTimeEntries /\ current.hours = "missing"
        hours == IF borrowed THEN {"within", "beyond"} ELSE {current.hours}
    IN  IF on /\ c \notin desktop.allowed THEN {}
        ELSE Saved([jira : jiras, hours : hours, bitbucket : {current.bitbucket},
                    modules : {WithCapability(CurrentModules, c, on)}], desktop)

Consent(c, on) ==
    /\ document' \in Consented(c, on)
    /\ UNCHANGED <<profile, desktop, arriving>>

\* The profile of a command: the one it is given, which it installs at its end, or the
\* installed one.
CommandProfiles ==
    {[used |-> p, arriving |-> p] : p \in Profiles} \cup {[used |-> profile, arriving |-> NoProfile]}

\* persist_jira_setup and persist_bitbucket_setup: what is chosen replaces what the
\* module had; scope and limits are chosen among those of the profile.
SetUpWith(module, chosen, p) ==
    LET modules == [CurrentModules EXCEPT ![module] =
                       [enabled |-> chosen # {}, capabilities |-> chosen]]
        current == IF Loaded = NoConfiguration
                   THEN [jira |-> "missing", hours |-> "missing", bitbucket |-> "missing"]
                   ELSE Loaded
        offered == IF p.strict THEN {"within"} ELSE {"within", "beyond"}
    IN  IF module \notin p.modules \/ ~(chosen \subseteq p.allowed) THEN {}
        ELSE IF module = "jira"
        THEN Saved([jira : offered,
                    hours : IF ReadOwnTimeEntries \in chosen THEN offered ELSE {"missing"},
                    bitbucket : {current.bitbucket}, modules : {modules}], p)
        ELSE Saved([jira : {current.jira}, hours : {current.hours}, bitbucket : offered,
                    modules : {modules}], p)

SetUp(module, chosen, command) ==
    /\ arriving = NoProfile
    /\ document' \in SetUpWith(module, chosen, command.used)
    /\ arriving' = command.arriving
    /\ UNCHANGED <<profile, desktop>>

\* install: a configuration from a file.
Import(configuration, command) ==
    /\ arriving = NoProfile
    /\ document' \in Saved({configuration}, command.used)
    /\ arriving' = command.arriving
    /\ UNCHANGED <<profile, desktop>>

\* install_selected_profile, after the settings; or the command ends before it.
ProfileArrives ==
    /\ arriving # NoProfile
    /\ profile' \in {arriving, profile}
    /\ arriving' = NoProfile
    /\ UNCHANGED <<document, desktop>>

\* install_defaults: the desktop application installs a profile and uses it.
DesktopInstalls(p) ==
    /\ "jira" \in p.modules
    /\ profile' = p /\ desktop' = p
    /\ UNCHANGED <<document, arriving>>

\* load_defaults: a profile the desktop application cannot use is not used.
DesktopStarts ==
    /\ desktop' = IF "jira" \in profile.modules THEN profile ELSE Embedded
    /\ UNCHANGED <<document, profile, arriving>>

\* What a settings editor offers for its module: what the profile allows, and what is on.
EditorSelections(module) ==
    {s \in Selections(module) :
        s \ (Granted(document) \cap OfModule(module)) \subseteq profile.allowed}

\* save_draft: the settings of the provider, complete or not, and its grants.  Hours that
\* are not complete are left as they are.
Drafts(module, chosen) ==
    LET modules == [document.modules EXCEPT ![module] =
                       [enabled |-> chosen # {}, capabilities |-> chosen]]
    IN  IF module = "jira"
        THEN [jira : Extents, hours : {"within", "beyond", document.hours},
              bitbucket : {document.bitbucket}, modules : {modules}]
        ELSE [jira : {document.jira}, hours : {document.hours},
              bitbucket : Extents, modules : {modules}]

\* can_apply, configuration: where nothing is on or something is incomplete, there is no
\* configuration that the other module could be taken from.
Applied(draft, module) ==
    IF draft[module] = "missing" THEN {}
    ELSE {[draft EXCEPT !.modules =
              IF Valid(draft) /\ \E m \in Modules : draft.modules[m].enabled THEN draft.modules
              ELSE [NothingConsented EXCEPT ![module] = draft.modules[module]]]}

\* save: the draft, and, once it can be applied and the profile does not refuse it, the
\* configuration made of it.
EditSettings(module, chosen) ==
    /\ \E draft \in Drafts(module, chosen) :
         document' \in {draft} \cup Saved(Applied(draft, module), profile)
    /\ UNCHANGED <<profile, desktop, arriving>>

\* clear
Withdraw ==
    /\ document' = [document EXCEPT !.modules = NothingConsented]
    /\ UNCHANGED <<profile, desktop, arriving>>

PermissionsInit ==
    /\ document = [jira |-> "missing", hours |-> "missing", bitbucket |-> "missing",
                   modules |-> NothingConsented]
    /\ profile = Embedded /\ desktop = Embedded /\ arriving = NoProfile

PermissionsNext ==
    \/ \E c \in Capabilities, on \in BOOLEAN : Consent(c, on)
    \/ \E m \in Modules : \E chosen \in Selections(m), command \in CommandProfiles :
         SetUp(m, chosen, command)
    \/ \E configuration \in Imports, command \in CommandProfiles : Import(configuration, command)
    \/ \E p \in Profiles : DesktopInstalls(p)
    \/ \E m \in Modules : \E chosen \in EditorSelections(m) : EditSettings(m, chosen)
    \/ ProfileArrives \/ DesktopStarts \/ Withdraw

PermissionsSpec == PermissionsInit /\ [][PermissionsNext]_permissionVars

---------------------------------------------------------------------------
(* Properties.                                                              *)

PermissionsTypeOK ==
    /\ document \in Configurations
    /\ profile \in Profiles /\ desktop \in Profiles
    /\ arriving \in Profiles \cup {NoProfile}

\* Whatever was consented to under whatever profile: a server that starts now lists
\* only tools that the person granted and the profile installed now allows, lists the
\* read that a tool needs, and has the backend that the tool calls.
ListedToolsWork ==
    CanServe =>
        /\ Tools \subseteq Granted(document) \cap profile.allowed
        /\ \A c \in Tools : /\ BackendOf(c) \in Backends
                            /\ RequiredRead[c] \in Tools \cup {NoCapability}

\* What a module lists while it is off.
Dormant(module) == document.modules[module].capabilities \ Granted(document)

\* A switch grants nothing but what it names, with its read, and what its module
\* listed while it was off; switched off, neither it nor what needs it is left.  A setup
\* grants of its module what was chosen.  Neither takes anything else away than what
\* the profile forbids -- unless the settings were incomplete, when the other module
\* loses all it had.
GrantsAreAskedFor ==
    LET before == Granted(document)
        keepsOthers(after, module, p) ==
            Loaded # NoConfiguration =>
                (before \ OfModule(module)) \cap p.allowed \subseteq after
    IN  /\ \A c \in Capabilities, on \in BOOLEAN : \A new \in Consented(c, on) :
             /\ Granted(new) \subseteq before \cup Dormant(ModuleOf[c])
                                       \cup (IF on THEN WithRead(c) ELSE {})
             /\ on \/ Granted(new) \cap Needing(c) = {}
             /\ keepsOthers(Granted(new), ModuleOf[c], desktop)
        /\ \A m \in Modules, p \in Profiles : \A chosen \in Selections(m) :
             \A new \in SetUpWith(m, chosen, p) :
                 /\ Granted(new) \subseteq (before \ OfModule(m)) \cup chosen
                 /\ keepsOthers(Granted(new), m, p)
=============================================================================
