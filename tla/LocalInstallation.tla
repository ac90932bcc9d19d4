------------------------- MODULE LocalInstallation -------------------------
(* What Worklogger puts on a person's computer: the MCP executable, its     *)
(* registration in the assistants' configuration files, and the skills      *)
(* (runtime_installation.rs, client_registration.rs, skill_installation.rs  *)
(* and the commands of main.rs and mcp_management.rs that use them).        *)
(*                                                                          *)
(* Terminals and the desktop work at the same time without a common lock,   *)
(* and so do the assistants and the person, who write the same files.  A    *)
(* file is replaced at once (AtomicWriteFile); between two file operations  *)
(* anything may happen, and the process may end.                            *)
EXTENDS Naturals, Sequences, FiniteSets

CONSTANTS Processes,
          Files,        \* clients registered in a JSON or TOML file
          Commands,     \* clients registered by their own command line (Codex)
          Skills,       \* number of skill directories: destinations times skills
          MaxEdits      \* changes by others in a behaviour

ASSUME InstallationAssumption ==
    /\ Files \cap Commands = {} /\ "none" \notin Files \cup Commands
    /\ Skills \in Nat /\ MaxEdits \in Nat

VARIABLES
    server,     \* the installed executable is there
    client,     \* the configuration of each client
    skill,      \* the skill directories, in the order of their installation
    work,       \* what each process is doing
    edits       \* changes made by others

vars == <<server, client, skill, work, edits>>

Clients == Files \cup Commands
Targets == 1 .. Skills

\* The entry "worklogger" of a configuration; the rest of it belongs to others.
Entries == {"none", "current", "outdated", "other", "invalid", "unavailable"}
Configurations == [entry : Entries, rest : {0, 1}]

\* A skill directory: its SKILL.md and the marker that makes it Worklogger's.
Absent == [file |-> "absent", marker |-> FALSE]
Directories == [file : {"none", "old", "bundled"}, marker : BOOLEAN] \cup {Absent}

States == {"unavailable", "available", "registered", "broken", "outdated",
           "conflict", "invalid"}

\* registration_state_for_command, and the lack of an entry, a client or a readable file.
State(c) == CASE client[c].entry = "none"     -> "available"
              [] client[c].entry = "current"  -> IF server THEN "registered" ELSE "broken"
              [] client[c].entry = "other"    -> "conflict"
              [] OTHER                        -> client[c].entry

Owned == {"registered", "broken", "outdated"}

\* skill_state
SkillState(t) == IF skill[t] = Absent THEN "missing"
                 ELSE IF ~skill[t].marker THEN "conflict"
                 ELSE IF skill[t].file = "bundled" THEN "current" ELSE "update"

Idle == [stage |-> "idle"]
NoItem == [client |-> "none", do |-> "none", step |-> "none"]

NotSeen    == [c \in Clients |-> "unavailable"]
NoSnapshot == [t \in Targets |-> Absent]
NoOriginal == [entry |-> "none", rest |-> 0]

Kinds == {"headless", "skills", "manage", "configure", "desktop", "uninstall"}

Plan(kind, skills) ==
    CASE kind = "headless"  -> <<"inspect", "server", "clients">>
                               \o IF skills THEN <<"validate">> ELSE <<>>
      [] kind = "skills"    -> <<"inspect", "validate">>
      [] kind = "uninstall" -> <<"inspect", "clients">>
      [] kind = "desktop"   -> <<"inspect", "server", "clients">>
      [] OTHER              -> <<"server", "inspect", "clients">>

\* What may be done with a client that is in this state: headless_client_is_safe and
\* register_headless_clients, apply_client_action, setup_candidate, owned_registration,
\* mcp_client_actions.
Doable(kind, state) ==
    CASE kind = "headless"  -> IF state \in {"available", "broken", "outdated"}
                               THEN {"register"} ELSE {}
      [] kind = "manage"    -> IF state = "registered" THEN {"unregister"}
                               ELSE IF state \in {"unavailable", "invalid"} THEN {}
                               ELSE {"register"}
      [] kind = "configure" -> IF state \in {"available", "broken", "outdated", "conflict"}
                               THEN {"register"} ELSE {}
      [] kind = "uninstall" -> IF state \in Owned THEN {"unregister"} ELSE {}
      [] kind = "desktop"   -> (IF state \in Owned THEN {"unregister"} ELSE {})
                               \cup (IF state \in {"available", "broken", "outdated", "conflict"}
                                     THEN {"register"} ELSE {})
      [] OTHER              -> {}

\* What a process intends after it has looked: one client from the menu and in the
\* desktop, several from the setup, the named ones or all without asking, the owned ones.
Intended(kind, named, seen) ==
    LET Available == {c \in Clients : seen[c] # "unavailable"}
        Items(cs) == {item \in [client : cs, do : {"register", "unregister"}, step : {"look"}] :
                        item.do \in Doable(kind, seen[item.client])}
    IN  CASE kind = "headless" ->
               LET selected == IF named = {} THEN Available ELSE named
                   safe == selected # {} /\ \A c \in selected :
                             seen[c] \notin {"unavailable", "conflict", "invalid"}
               IN  IF safe THEN {Items(selected)} ELSE {}
          [] kind = "uninstall" ->
               IF \E c \in Clients : seen[c] = "invalid" THEN {} ELSE {Items(Clients)}
          [] kind = "skills"    -> {{}}
          [] kind = "configure" -> SUBSET Items(Clients)
          [] OTHER              -> {{item} : item \in Items(Clients)}

Init ==
    /\ server \in BOOLEAN
    /\ client \in [Clients -> {configuration \in Configurations : configuration.rest = 0}]
    /\ skill \in [Targets -> {Absent, [file |-> "old", marker |-> TRUE],
                              [file |-> "old", marker |-> FALSE]}]
    /\ work = [p \in Processes |-> Idle]
    /\ edits = 0

---------------------------------------------------------------------------
(* What changes is noticed, for the properties, by those who looked before. *)

\* A change of a client's configuration by p; the others keep what they saw.
ClientChanged(p, c, w) ==
    [q \in Processes |-> IF q = p \/ w[q] = Idle THEN w[q]
                         ELSE [w[q] EXCEPT !.stale = @ \cup {c}, !.late = @ \cup {c}]]

SkillChanged(p, t, w) ==
    [q \in Processes |-> IF q = p \/ w[q] = Idle THEN w[q]
                         ELSE [w[q] EXCEPT !.touched = @ \cup {t}]]

ServerChanged(w) ==
    [q \in Processes |-> IF w[q] = Idle THEN Idle ELSE [w[q] EXCEPT !.stale = Clients]]

Stage(p) == IF work[p] = Idle THEN "idle" ELSE work[p].stage

\* The stage after this one in the plan of p; what was looked at is dropped.
Onward(w) == [w EXCEPT !.plan = Tail(@),
                       !.stage = IF Tail(w.plan) = <<>> THEN "succeeded" ELSE Head(Tail(w.plan)),
                       !.seen = NotSeen, !.snapshot = NoSnapshot]

Becomes(p, w) == work' = [work EXCEPT ![p] = w]

---------------------------------------------------------------------------
(* The commands.                                                            *)

Begin(p, kind, named, skills) ==
    /\ work[p] = Idle
    /\ Becomes(p, [stage |-> Head(Plan(kind, skills)), kind |-> kind, named |-> named,
                   skills |-> skills, plan |-> Plan(kind, skills),
                   seen |-> NotSeen, todo |-> {}, now |-> NoItem, original |-> NoOriginal,
                   snapshot |-> NoSnapshot, at |-> 0, exact |-> TRUE,
                   stale |-> {}, late |-> {}, touched |-> {}])
    /\ UNCHANGED <<server, client, skill, edits>>

\* statuses, inspect and the person's choice.  A file that cannot be read and a
\* command that fails or does not answer in time count as invalid.
Inspect(p) ==
    /\ Stage(p) = "inspect"
    /\ \E seen \in [Clients -> States] :
         /\ \A c \in Clients : \/ seen[c] = State(c)
                               \/ seen[c] = "invalid" /\ State(c) # "unavailable"
         /\ work[p].skills => \A t \in Targets : SkillState(t) # "conflict"
         /\ work[p].kind = "skills" => \E t \in Targets : SkillState(t) # "current"
         /\ \E todo \in Intended(work[p].kind, work[p].named, seen) :
              LET removes == work[p].kind = "desktop"
                             /\ \E item \in todo : item.do = "unregister"
                  w == IF removes THEN Onward(work[p]) ELSE work[p]
              IN  Becomes(p, [Onward(w) EXCEPT !.seen = seen, !.todo = todo,
                                               !.stale = {}, !.late = {}, !.touched = {}])
    /\ UNCHANGED <<server, client, skill, edits>>

\* install_current_server, install_server: the executable is copied, or is there.
InstallServer(p) ==
    /\ Stage(p) = "server"
    /\ server' = TRUE
    /\ Becomes(p, [Onward(work[p]) EXCEPT !.seen = work[p].seen])
    /\ UNCHANGED <<client, skill, edits>>

\* An error in an installation of skills: it is undone first.
Fail(p) ==
    /\ Stage(p) = "install"
    /\ Becomes(p, [work[p] EXCEPT !.stage = "restore", !.at = Skills])
    /\ UNCHANGED <<server, client, skill, edits>>

\* The command returns, with an error or without, or its process ends at any moment.
Return(p) ==
    /\ work[p] # Idle
    /\ Becomes(p, Idle)
    /\ UNCHANGED <<server, client, skill, edits>>

---------------------------------------------------------------------------
(* Registration.                                                            *)

Working(p, clients, step) ==
    /\ Stage(p) = "clients"
    /\ work[p].now.client \in clients
    /\ work[p].now.step = step

Registering(p) == work[p].now.do = "register"

\* The end of one registration, and an error in it.
EndItem(p)    == Becomes(p, [work[p] EXCEPT !.now = NoItem, !.original = NoOriginal])
FailItem(p)   == Becomes(p, Idle)

Take(p) ==
    /\ Stage(p) = "clients" /\ work[p].now = NoItem
    /\ \E item \in work[p].todo :
         Becomes(p, [work[p] EXCEPT !.todo = @ \ {item}, !.now = item])
    /\ UNCHANGED <<server, client, skill, edits>>

\* Mutant: the command goes on after the first of several clients.
ClientsDoneEarly(p) ==
    /\ Stage(p) = "clients" /\ work[p].now = NoItem
    /\ Becomes(p, Onward(work[p]))
    /\ UNCHANGED <<server, client, skill, edits>>

ClientsDone(p) ==
    /\ Stage(p) = "clients" /\ work[p].now = NoItem /\ work[p].todo = {}
    /\ Becomes(p, Onward(work[p]))
    /\ UNCHANGED <<server, client, skill, edits>>

\* register wants the executable and the client to be there.  unregister wants the
\* client, and looks whether the registration is Worklogger's.
Look(p) ==
    LET state == State(work[p].now.client)
    IN  /\ Working(p, Clients, "look")
        /\ IF state = "unavailable" \/ (Registering(p) /\ ~server)
              \/ (~Registering(p) /\ state = "invalid")
           THEN FailItem(p)
           ELSE IF Registering(p) \/ state \in Owned
           THEN Becomes(p, [work[p] EXCEPT !.now.step = "read", !.late = {}])
           ELSE EndItem(p)
        /\ UNCHANGED <<server, client, skill, edits>>

\* Mutant: unregister trusts what it saw when it looked.
ReadTrusting(p) ==
    LET c == work[p].now.client
    IN  /\ Working(p, Files, "read")
        /\ IF State(c) = "invalid" THEN FailItem(p)
           ELSE Becomes(p, [work[p] EXCEPT !.now.step = "recheck", !.original = client[c]])
        /\ UNCHANGED <<server, client, skill, edits>>

\* read_json, read_toml; unregister_from_json and _toml remove their own entry only.
Read(p) ==
    LET c == work[p].now.client
    IN  /\ Working(p, Files, "read")
        /\ IF State(c) = "invalid" THEN FailItem(p)
           ELSE IF ~Registering(p) /\ State(c) \notin Owned THEN EndItem(p)
           ELSE Becomes(p, [work[p] EXCEPT !.now.step = "recheck", !.original = client[c]])
        /\ UNCHANGED <<server, client, skill, edits>>

\* Mutant: the file is written without looking at it again.
RecheckNothing(p) ==
    /\ Working(p, Files, "recheck")
    /\ Becomes(p, [work[p] EXCEPT !.now.step = "commit", !.late = {}])
    /\ UNCHANGED <<server, client, skill, edits>>

\* ensure_unchanged, ensure_toml_unchanged
Recheck(p) ==
    /\ Working(p, Files, "recheck")
    /\ IF client[work[p].now.client] = work[p].original
       THEN Becomes(p, [work[p] EXCEPT !.now.step = "commit", !.late = {}])
       ELSE FailItem(p)
    /\ UNCHANGED <<server, client, skill, edits>>

Registration(p, rest) ==
    [entry |-> IF Registering(p) THEN "current" ELSE "none", rest |-> rest]

\* write_json, write_toml: the document that was read, with the entry in or out.
Commit(p) ==
    LET c == work[p].now.client
    IN  /\ Working(p, Files, "commit")
        /\ client[c].entry # "unavailable"
        /\ client' = [client EXCEPT ![c] = Registration(p, work[p].original.rest)]
        /\ work' = ClientChanged(p, c, [work EXCEPT ![p].now = NoItem, ![p].original = NoOriginal])
        /\ UNCHANGED <<server, skill, edits>>

\* The client's command changes its own configuration; when it is stopped after
\* client_command_timeout, or its answer cannot be used, it may have done so.
Run(p) ==
    LET c == work[p].now.client
    IN  /\ Working(p, Commands, "read")
        /\ client[c].entry \notin {"unavailable", "invalid"}
        /\ client' = [client EXCEPT ![c] = Registration(p, client[c].rest)]
        /\ \E failed \in BOOLEAN :
             work' = ClientChanged(p, c, IF failed THEN [work EXCEPT ![p] = Idle]
                                         ELSE [work EXCEPT ![p].now = NoItem])
        /\ UNCHANGED <<server, skill, edits>>

---------------------------------------------------------------------------
(* Skills.                                                                  *)

\* Mutant: what was seen before the executable was installed still counts.
ValidateNothing(p) ==
    /\ Stage(p) = "validate"
    /\ Becomes(p, [work[p] EXCEPT !.stage = "snapshot", !.touched = {}])
    /\ UNCHANGED <<server, client, skill, edits>>

\* validate_destinations: what is there must be Worklogger's.
Validate(p) ==
    /\ Stage(p) = "validate"
    /\ Becomes(p, IF \A t \in Targets : SkillState(t) # "conflict"
                  THEN [work[p] EXCEPT !.stage = "snapshot", !.touched = {}] ELSE Idle)
    /\ UNCHANGED <<server, client, skill, edits>>

Snapshot(p) ==
    /\ Stage(p) = "snapshot"
    /\ Becomes(p, [work[p] EXCEPT !.stage = "install", !.snapshot = skill, !.at = 0])
    /\ UNCHANGED <<server, client, skill, edits>>

\* install_skill writes the directory, SKILL.md and the marker of one after the other.
Target(at) == (at \div 3) + 1

\* Mutant: the marker is written when the directory is made only.
WrittenUnmarked(directory, part) ==
    CASE part = 0 -> IF directory = Absent THEN [file |-> "none", marker |-> FALSE] ELSE directory
      [] part = 1 -> [directory EXCEPT !.file = "bundled"]
      [] part = 2 -> directory

Written(directory, part) ==
    CASE part = 0 -> IF directory = Absent THEN [file |-> "none", marker |-> FALSE] ELSE directory
      [] part = 1 -> [directory EXCEPT !.file = "bundled"]
      [] part = 2 -> [directory EXCEPT !.marker = TRUE]

Install(p) ==
    LET at == work[p].at
        t == Target(at)
    IN  /\ Stage(p) = "install" /\ at < 3 * Skills
        /\ at % 3 = 0 \/ skill[t] # Absent
        /\ skill' = [skill EXCEPT ![t] = Written(@, at % 3)]
        /\ work' = (LET w == [work EXCEPT ![p].at = at + 1]
                    IN  IF skill' = skill THEN w ELSE SkillChanged(p, t, w))
        /\ UNCHANGED <<server, client, edits>>

Installed(p) ==
    /\ Stage(p) = "install" /\ work[p].at = 3 * Skills
    /\ Becomes(p, Onward(work[p]))
    /\ UNCHANGED <<server, client, skill, edits>>

\* Mutant: a directory that was created is left where it is.
RestoredKeepingNew(directory, before) == IF before = Absent THEN directory ELSE before

\* restore_snapshot: a directory that was not there goes, with all it holds; the
\* files of another one come back as they were.
RestoredTo(directory, before) == before

\* restore_snapshots goes back through the targets and stops at the first error,
\* which may leave SKILL.md restored and the marker not.
Restore(p) ==
    LET t == work[p].at
        before == work[p].snapshot[t]
        half == [file |-> before.file, marker |-> skill[t].marker]
    IN  /\ Stage(p) = "restore" /\ t > 0
        /\ \/ /\ before = Absent \/ skill[t] # Absent
              /\ skill' = [skill EXCEPT ![t] = RestoredTo(@, before)]
              /\ work' = SkillChanged(p, t, [work EXCEPT ![p].at = t - 1])
           \/ /\ skill' \in {skill} \cup (IF before # Absent /\ skill[t] # Absent
                                          THEN {[skill EXCEPT ![t] = half]} ELSE {})
              /\ work' = SkillChanged(p, t, [work EXCEPT ![p].at = 0, ![p].exact = FALSE])
        /\ UNCHANGED <<server, client, edits>>

Restored(p) ==
    /\ Stage(p) = "restore" /\ work[p].at = 0
    /\ Becomes(p, Idle)
    /\ UNCHANGED <<server, client, skill, edits>>

---------------------------------------------------------------------------
(* The assistants and the person.                                           *)

ClientEdited(c) ==
    /\ edits < MaxEdits /\ edits' = edits + 1
    /\ \E configuration \in Configurations \ {client[c]} :
         client' = [client EXCEPT ![c] = configuration]
    /\ work' = [p \in Processes |-> IF work[p] = Idle THEN Idle
                ELSE [work[p] EXCEPT !.stale = @ \cup {c}, !.late = @ \cup {c}]]
    /\ UNCHANGED <<server, skill>>

\* A directory of the same name is made by somebody else, or a skill is removed.
SkillEdited(t) ==
    /\ edits < MaxEdits /\ edits' = edits + 1
    /\ skill' \in {[skill EXCEPT ![t] = [file |-> "old", marker |-> FALSE]],
                   [skill EXCEPT ![t] = Absent]}
    /\ skill' # skill
    /\ work' = [p \in Processes |-> IF work[p] = Idle THEN Idle
                ELSE [work[p] EXCEPT !.touched = @ \cup {t}]]
    /\ UNCHANGED <<server, client>>

ServerRemoved ==
    /\ edits < MaxEdits /\ edits' = edits + 1
    /\ server /\ server' = FALSE
    /\ work' = ServerChanged(work)
    /\ UNCHANGED <<client, skill>>

Works(p) ==
    \/ Inspect(p) \/ InstallServer(p) \/ Fail(p) \/ Return(p)
    \/ Take(p) \/ ClientsDone(p) \/ Look(p) \/ Read(p) \/ Recheck(p) \/ Commit(p) \/ Run(p)
    \/ Validate(p) \/ Snapshot(p) \/ Install(p) \/ Installed(p) \/ Restore(p) \/ Restored(p)

Next ==
    \/ \E p \in Processes :
         \/ \E kind \in Kinds, named \in SUBSET Clients, skills \in BOOLEAN :
              /\ kind # "headless" => named = {} /\ skills = (kind = "skills")
              /\ Begin(p, kind, named, skills)
         \/ Works(p)
    \/ \E c \in Clients : ClientEdited(c)
    \/ \E t \in Targets : SkillEdited(t)
    \/ ServerRemoved

Spec == Init /\ [][Next]_vars

---------------------------------------------------------------------------
(* Properties.                                                              *)

TypeOK ==
    /\ server \in BOOLEAN
    /\ client \in [Clients -> Configurations]
    /\ skill \in [Targets -> Directories]
    /\ edits \in 0 .. MaxEdits
    /\ \A p \in Processes : work[p] # Idle =>
         /\ work[p].seen \in [Clients -> States]
         /\ work[p].snapshot \in [Targets -> Directories]
         /\ work[p].stage = "clients" \/ work[p].todo = {} \/ work[p].stage = "server"
         /\ work[p].now # NoItem => work[p].stage = "clients"

\* p changes the configuration of a client in this step.
Changes(p, c) ==
    /\ client'[c] # client[c]
    /\ work[p] # Idle /\ work[p].now.client = c
    /\ work'[p] = Idle \/ work'[p].now = NoItem

\* A registration of somebody else is replaced only where a person was shown the
\* conflict or it came up after they were asked, and never removed, unless it
\* appeared in the moment between the last look and the write.
RegistrationsKept ==
    \A p \in Processes, c \in Clients :
        Changes(p, c) /\ client[c].entry = "other" =>
            IF Registering(p) THEN work[p].seen[c] = "conflict" \/ c \in work[p].stale
                              ELSE c \in work[p].late

\* What an assistant writes into its own file is never lost, again with the
\* exception of that moment.
SettingsKept ==
    \A p \in Processes, c \in Clients :
        Changes(p, c) /\ client'[c].rest # client[c].rest => c \in work[p].late

\* A directory without marker is never written or removed unless somebody else
\* touched it since the installer looked, or the installer has just created it.
\* This holds across processes that end halfway and rollbacks that fail.
UnownedSkillsKept ==
    \A t \in Targets :
        skill'[t] # skill[t] /\ skill[t] # Absent /\ ~skill[t].marker /\ edits' = edits =>
            \E p \in Processes : /\ Stage(p) \in {"install", "restore"}
                                 /\ work'[p] # Idle /\ work'[p].at # work[p].at
                                 /\ \/ t \in work[p].touched
                                    \/ work[p].snapshot[t] = Absent

\* No step of the installation destroys what is not Worklogger's: registrations
\* (RegistrationsKept), the rest of the files (SettingsKept) and skills without
\* its marker (UnownedSkillsKept).
OthersKept == [][RegistrationsKept /\ SettingsKept /\ UnownedSkillsKept]_vars

\* An installation of skills that fails leaves every skill as it was, whichever of
\* the writes failed, except what others changed meanwhile.
SkillsRestored ==
    \A p \in Processes :
        /\ Stage(p) = "restore" /\ work[p].at = 0 /\ work[p].exact
        => \A t \in Targets \ work[p].touched : skill[t] = work[p].snapshot[t]

\* A command that reports success has done what it was asked for, except what
\* others changed since it looked.
SuccessIsInstalled ==
    \A p \in Processes : Stage(p) = "succeeded" =>
        /\ work[p].kind = "headless" =>
             \A c \in work[p].named \ work[p].stale : State(c) = "registered"
        /\ work[p].kind = "uninstall" =>
             \A c \in Clients \ work[p].stale : State(c) \notin Owned
        /\ work[p].skills => \A t \in Targets \ work[p].touched : SkillState(t) = "current"

\* A command ends as it is told: a failed installation has changed no skill
\* (SkillsRestored), a successful one has installed them and what else it was asked
\* for (SuccessIsInstalled).
EndsAsReported == SkillsRestored /\ SuccessIsInstalled
=============================================================================
