--------------------------- MODULE SharedSettings ---------------------------
(***************************************************************************)
(* settings.json and the frontends that edit it at the same time: the      *)
(* store of worklogger-settings (load, save under the writer lock with a   *)
(* revision check), the desktop's persist and MCP consent, the Jira and    *)
(* Bitbucket editors of the terminal interface, the language selection of  *)
(* both, and the part of uninstalling that concerns this file.             *)
(*                                                                         *)
(* Every frontend works from values it read at some time (its draft), puts *)
(* the sections it writes on top of a document it read later (its base),   *)
(* and asks the store to save that against the revision of the base.  The  *)
(* file is replaced by a rename, so a reader sees one whole document.      *)
(***************************************************************************)
EXTENDS Naturals, FiniteSets

CONSTANTS Frontends,    \* open windows and editors, in any number of processes
          Kind,         \* Frontends -> Kinds
          Values,       \* what a section may contain
          MaxRevision   \* the largest revision that can be represented (u64::MAX)

Kinds == {"preferences", "consent", "jiraEditor", "bitbucketEditor", "language", "uninstall"}

Free == "free"   \* the writer lock when nobody holds it

ASSUME SettingsAssumption ==
    /\ Kind \in [Frontends -> Kinds]
    /\ Free \notin Frontends
    /\ Values # {}
    /\ MaxRevision \in Nat

Grants == {"jiraGrants", "bitbucketGrants"}
\* hours: what MCP and the desktop share; reports: what only the desktop's
\* preferences write (report access, the default start of a worklog).
Sections == {"language", "jira", "hours", "reports", "bitbucket"} \cup Grants

\* The sections of McpConfiguration::update_shared.
McpSections == {"jira", "hours", "bitbucket"} \cup Grants

\* The sections a frontend lets the user edit.  Uninstalling sets both grants.
Owned(kind) == CASE kind = "preferences"     -> {"jira", "hours", "reports"}
                 [] kind = "jiraEditor"      -> {"jira", "hours", "jiraGrants"}
                 [] kind = "bitbucketEditor" -> {"bitbucket", "bitbucketGrants"}
                 [] kind = "language"        -> {"language"}
                 [] OTHER                    -> Grants

Editors == {"jiraEditor", "bitbucketEditor"}
Pages == Editors \cup {"preferences"}   \* these keep a draft while the user edits

Documents == [revision : 0 .. MaxRevision, values : [Sections -> Values]]

-----------------------------------------------------------------------------
VARIABLES file,      \* the document on disk
          lock,      \* who holds the writer lock
          pc,        \* where each frontend is
          draft,     \* values each frontend works from
          base,      \* document each frontend is about to replace
          writing,   \* sections each frontend is about to write
          stale      \* history: sections each frontend edits that others changed since

local == <<draft, base, writing>>
vars == <<file, lock, pc, draft, base, writing, stale>>

Places == {"closed", "editing", "current", "rebase", "lock", "check", "commit"}

Goes(f, place) == pc' = [pc EXCEPT ![f] = place]

\* What a frontend holds that has read nothing.
Nothing == [revision |-> 0, values |-> [s \in Sections |-> CHOOSE value \in Values : TRUE]]

\* A save is over: an editor keeps its page and its draft, the other
\* operations end.
Back(f) == IF Kind[f] \in Editors THEN "editing" ELSE "closed"

Ends(f, place) ==
    /\ Goes(f, place)
    /\ base' = [base EXCEPT ![f] = Nothing]
    /\ writing' = [writing EXCEPT ![f] = {}]
    /\ draft' = IF place = "closed" THEN [draft EXCEPT ![f] = Nothing.values] ELSE draft

\* Mutant: saved without comparing revisions.
AnyRevision(f) == TRUE

\* SettingsStore::save: the revision on disk is the one the caller names.
RevisionMatches(f) == base[f].revision = file.revision

\* Mutant: the revision wraps around.
NextRevisionWrapping == (file.revision + 1) % (MaxRevision + 1)

\* SettingsStore::save: checked_add was possible.
NextRevision == file.revision + 1

\* Mutant: the lock file is opened and not locked.
LockIgnored(f) == TRUE

\* WriteLock::acquire, without waiting.
LockAvailable(f) == lock = Free

\* Mutant: an early return keeps the lock.
LockKept(f) == f

\* SettingsStore::save: the lock is released on every way out.
LockAfter(f) == Free

\* Mutant: the document is written from the draft alone.
DocumentFromDraft(f) == draft[f]

\* update_shared and update_shared_draft: the sections of the frontend from
\* its draft, all others as in the base.
DocumentToSave(f) == [s \in Sections |-> IF s \in writing[f] THEN draft[f][s]
                                         ELSE base[f].values[s]]

Init == /\ \E value \in Values : file = [revision |-> 0, values |-> [s \in Sections |-> value]]
        /\ lock = Free
        /\ pc = [f \in Frontends |-> "closed"]
        /\ draft = [f \in Frontends |-> Nothing.values]
        /\ base = [f \in Frontends |-> Nothing]
        /\ writing = [f \in Frontends |-> {}]
        /\ stale = [f \in Frontends |-> {}]

-----------------------------------------------------------------------------
(* The frontends *)

\* The editor is opened, or the desktop reads the saved request that it will
\* connect with (saved_request).
Open(f) ==
    /\ pc[f] = "closed"
    /\ Kind[f] \in Pages
    /\ draft' = [draft EXCEPT ![f] = file.values]
    /\ stale' = [stale EXCEPT ![f] = {}]
    /\ Goes(f, "editing")
    /\ UNCHANGED <<file, lock, base, writing>>

\* The user sets a section and saves: the document is read again
\* (save_draft; desktop_persist_snapshot after the provider answered).
SaveBegins(f, section, value) ==
    /\ pc[f] = "editing"
    /\ section \in Owned(Kind[f])
    /\ draft' = [draft EXCEPT ![f][section] = value]
    /\ base' = [base EXCEPT ![f] = file]
    /\ writing' = [writing EXCEPT ![f] = Owned(Kind[f])]
    /\ Goes(f, "lock")
    /\ UNCHANGED <<file, lock, stale>>

\* The desktop's consent page changes one grant: configure() reads the
\* configuration that it will change.
ConsentBegins(f, grant, value) ==
    /\ pc[f] = "closed"
    /\ Kind[f] = "consent"
    /\ draft' = [draft EXCEPT ![f] = [file.values EXCEPT ![grant] = value]]
    /\ Goes(f, "rebase")
    /\ UNCHANGED <<file, lock, base, writing, stale>>

\* The language is selected, or the MCP settings are cleared: the document is
\* read, changed and saved.
SetAtOnce(f, value) ==
    /\ pc[f] = "closed"
    /\ Kind[f] \in {"language", "uninstall"}
    /\ draft' = [draft EXCEPT ![f] =
                    [s \in Sections |-> IF s \in Owned(Kind[f]) THEN value ELSE file.values[s]]]
    /\ base' = [base EXCEPT ![f] = file]
    /\ writing' = [writing EXCEPT ![f] = Owned(Kind[f])]
    /\ Goes(f, "lock")
    /\ UNCHANGED <<file, lock, stale>>

\* An editor whose settings are complete goes on to the runtime configuration,
\* and takes what it does not own from the file.
ReadCurrent(f) ==
    /\ pc[f] = "current"
    /\ draft' = [draft EXCEPT ![f] = [s \in Sections |->
                    IF s \in Owned(Kind[f]) THEN draft[f][s] ELSE file.values[s]]]
    /\ Goes(f, "rebase")
    /\ UNCHANGED <<file, lock, base, writing, stale>>

\* ConfigurationStore::save reads the document it puts the configuration on.
Rebase(f) ==
    /\ pc[f] = "rebase"
    /\ base' = [base EXCEPT ![f] = file]
    /\ writing' = [writing EXCEPT ![f] = McpSections]
    /\ Goes(f, "lock")
    /\ UNCHANGED <<file, lock, draft, stale>>

\* A page is left, a connection failed, or the process ends at any moment; the
\* operating system releases its lock.
Close(f) ==
    /\ pc[f] # "closed"
    /\ Ends(f, "closed")
    /\ lock' = IF lock = f THEN Free ELSE lock
    /\ UNCHANGED <<file, stale>>

-----------------------------------------------------------------------------
(* SettingsStore::save *)

Lock(f) ==
    /\ pc[f] = "lock"
    /\ LockAvailable(f)
    /\ lock' = f
    /\ Goes(f, "check")
    /\ UNCHANGED <<file, stale, local>>

\* Busy.
LockTaken(f) ==
    /\ pc[f] = "lock"
    /\ ~LockAvailable(f)
    /\ Ends(f, Back(f))
    /\ UNCHANGED <<file, lock, stale>>

Check(f) ==
    /\ pc[f] = "check"
    /\ RevisionMatches(f)
    /\ NextRevision <= MaxRevision
    /\ Goes(f, "commit")
    /\ UNCHANGED <<file, lock, stale, local>>

\* Conflict, or Invalid("revision") at the last revision.
CheckFails(f) ==
    /\ pc[f] = "check"
    /\ ~RevisionMatches(f) \/ NextRevision > MaxRevision
    /\ lock' = LockAfter(f)
    /\ Ends(f, Back(f))
    /\ UNCHANGED <<file, stale>>

\* write_document: the rename that replaces the file.  An editor may go on to
\* apply its draft.
Commit(f) ==
    /\ pc[f] = "commit"
    /\ file' = [revision |-> NextRevision, values |-> DocumentToSave(f)]
    /\ stale' = [g \in Frontends |->
                    IF g = f \/ pc[g] = "closed" \/ Kind[g] \notin Pages THEN stale[g]
                    ELSE stale[g] \cup {s \in Owned(Kind[g]) : file'.values[s] # file.values[s]}]
    /\ lock' = LockAfter(f)
    /\ \E place \in {Back(f)} \cup
          (IF writing[f] = Owned(Kind[f]) /\ Kind[f] \in Editors THEN {"current"} ELSE {}) :
          Ends(f, place)

\* TooLarge or Io: the file stays.
WriteFails(f) ==
    /\ pc[f] = "commit"
    /\ lock' = LockAfter(f)
    /\ Ends(f, Back(f))
    /\ UNCHANGED <<file, stale>>

Saving(f) == Lock(f) \/ LockTaken(f) \/ Check(f) \/ CheckFails(f) \/ Commit(f) \/ WriteFails(f)

Next == \E f \in Frontends :
          \/ Open(f)
          \/ \E section \in Sections, value \in Values : SaveBegins(f, section, value)
          \/ \E grant \in Grants, value \in Values : ConsentBegins(f, grant, value)
          \/ \E value \in Values : SetAtOnce(f, value)
          \/ ReadCurrent(f)
          \/ Rebase(f)
          \/ Close(f)
          \/ Saving(f)

Spec == Init /\ [][Next]_vars

\* A save runs to its end, or its process ends.
FairSpec == Spec /\ \A f \in Frontends : WF_vars(Saving(f))

-----------------------------------------------------------------------------
(* Properties *)

\* Every variable has its type, and the lock is held by exactly the save that
\* is between acquiring and committing.
TypeOK ==
    /\ file \in Documents
    /\ lock \in Frontends \cup {Free}
    /\ pc \in [Frontends -> Places]
    /\ draft \in [Frontends -> [Sections -> Values]]
    /\ base \in [Frontends -> Documents]
    /\ writing \in [Frontends -> SUBSET Sections]
    /\ stale \in [Frontends -> SUBSET Sections]
    /\ \A f \in Frontends : (lock = f) = (pc[f] \in {"check", "commit"})

Commits(f) == pc[f] = "commit" /\ file' # file

\* A save never undoes what another frontend saved in a section it does not
\* write, however long before it read the document.
ForeignSectionsKept ==
    [][\A f \in Frontends : Commits(f) =>
         \A s \in Sections \ writing[f] : file'.values[s] = file.values[s]]_vars

\* Every document that was saved has a revision of its own: a save takes the
\* next one and none comes back, so a revision once read names one document.
RevisionsNameDocuments ==
    [][/\ file' # file => file'.revision = file.revision + 1
       /\ \A f \in Frontends :
            pc[f] \in {"lock", "check", "commit"} /\ base[f].revision = file.revision
            => base[f] = file]_vars

\* "Shared Desktop preferences never enable these grants": whatever else is
\* saved meanwhile, saving preferences leaves the grants as they are.
PreferencesNeverGrant ==
    [][\A f \in Frontends : Commits(f) /\ Kind[f] = "preferences" =>
         \A g \in Grants : file'.values[g] = file.values[g]]_vars

\* The writer lock never stays with a save that is over.
LockComesFree == lock # Free ~> lock = Free

\* As crates/worklogger-settings/README.md puts it: an editor that works from
\* values that were changed since must reload, its save is rejected.
StaleEditorRejected ==
    [][\A f \in Frontends : Commits(f) => stale[f] = {}]_vars
=============================================================================
