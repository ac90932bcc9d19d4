# Worklogger in TLA+

Worklogger keeps personal Jira worklogs (Desktop) and lets an AI assistant read
and change Jira issues and Bitbucket pull requests (a local MCP server). This
directory holds TLA+ modules of its stateful parts, the TLC configurations that
check them on small instances, and proofs, checked by TLAPS, of the theorems
that matter for every instance. Paths below are relative to `src/`; `mcp/`
stands for `crates/worklogger-mcp/src/`.

## The system

| Part | State | Operations | What makes it correct |
| --- | --- | --- | --- |
| Confirmation gate (`mcp/confirmation.rs`) | table of pending previews, token sequence, a mutex | `prepare`, `consume` | a token authorizes one write at most, for the previewed payload, in time; the table stays within its limit |
| Provider writes of the MCP server (`mcp/server.rs`, `jira_issues.rs`, `jira_worklogs.rs`, `bitbucket_pull_requests.rs`) | the calls under way | preview, decide, check again, write | nothing reaches a provider that was not shown and confirmed, and nothing twice |
| Provider adapters (`crates/jira-adapter`, `crates/bitbucket-adapter`) | none; HTTP clients | one request each; bounded pagination | one request for one write, limits respected |
| Shared settings (`crates/worklogger-settings`) | `settings.json`, its revision, a writer lock | `load`, `save` | concurrent saves do not undo each other |
| MCP configuration (`mcp/configuration.rs`, `shared_configuration.rs`) | none of its own; sections of the document | `load`, `save`, `clear` | grants come from consent only |
| Terminal editors (`mcp/jira_settings.rs`, `bitbucket_settings.rs`) | a draft per open editor | open, edit, save, apply | the draft reaches the document, foreign sections stay |
| Desktop connection and consent (`desktop-app/src/connection.rs`, `settings.rs`, `mcp_management.rs`) | saved request, token, settings | connect, update, disconnect, configure | settings and token agree; a failed step is rolled back |
| Credentials (`crates/worklogger-credentials`) | tokens per purpose in the keyring, a transaction lock | load, save, delete | one transaction at a time |
| Setup and uninstall (`mcp/main.rs`) | all of the above | setup, uninstall, with snapshots | all or nothing |
| Desktop session (`desktop-app/src/ui.rs`) | the connected session and dialogs | connect, refresh, submit, disconnect, all asynchronous | late answers do not replace newer state |
| Clients, skills, runtime (`mcp/client_registration.rs`, `skill_installation.rs`, `runtime_installation.rs`) | files of other programs | register, install, remove | a failed installation puts back what was there |
| Organization profile (`crates/worklogger-profile`) | bundled policy | restrict a configuration | nothing outside the policy is enabled |
| My week and the worklog dialog (`desktop-app/src/ui.rs`) | the period, the draft, the suggestions | arrows, form, review, submit | Jira is asked to write what was reviewed |
| Hours (`crates/hours-core`, `mcp/jira_hours.rs`, `crates/jira-adapter`) | none | reports from many concurrent requests | hours are in the report or their issue is in a warning |
| Reports and exports (`desktop-app/src/report*.rs`) | the page, the report being loaded | tabs, periods, filters, exports | the shown report is the one asked for; files account for all hours |

They interact by calls inside one process, by `settings.json` and the keyring
between the processes (any number of MCP servers, terminal sessions and Desktop
windows run at once), and by HTTP with the providers, which other people change
at any time.

What is hard here: calls of one server run concurrently and wait for the
provider between every two steps; a preview may be confirmed late, twice, with
other arguments, after the target changed, or after a restart; answers get lost;
two frontends save at the same time from readings of different age; clocks of
two kinds decide expiry and eviction; multi-step transactions over token, settings
and client files fail half way; the window applies answers in whatever order they
come, while it may be disconnected, closed or given another profile; a provider may
send pages without end. `PROJECT.json` lists each hazard at its line.

## Modules

| Module | Models |
| --- | --- |
| `OneTimePermit` | what the gate promises: permits issued for a payload, redeemed once |
| `ConfirmationGate` | the gate as coded; implements `OneTimePermit` |
| `MutationProtocol` | a provider write from tool call to answer, on top of `OneTimePermit` |
| `SharedSettings` | the settings store and everyone who saves through it |
| `CredentialTransactions` | the operations on tokens and accounts under the transaction guard |
| `LocalInstallation` | the executable, client registrations and skills on the computer |
| `Permissions` | consent, the organization profile and the tools a server lists |
| `ProviderReads` | reading a collection page by page, in the seven loops of the adapters |
| `WorklogReports` | the reports the Jira adapter puts together from many requests |
| `DesktopSession` | the desktop window: views, dialogs and the requests under way |
| `WorklogEntry` | the period of My week, the worklog dialog and its suggestions |
| `DesktopReports` | the reports page and the documents it exports |
| `ReportPresentation` | page tables, workbooks and PDFs made of a document; extends `DesktopReports` |
| `*_proofs` | theorems about the module of that name |
| `ServerParts_proofs` | theorems about `ProviderReads`, `WorklogReports` and `Permissions` |
| `DesktopPages_proofs` | theorems about `WorklogEntry`, `DesktopReports`, `ReportPresentation` and the parts side by side |
| `MC*` | instances for TLC; `MCParts` puts five modules side by side |

They meet where the code does. `MutationProtocol` instantiates `OneTimePermit`, which
`ConfirmationGate` implements. `CredentialTransactions`, `Permissions` and
`DesktopSession` take a save of the settings as one step, `SharedSettings` takes it
apart; `DesktopSession` keeps of a saved account what `CredentialTransactions` writes
in single steps; `WorklogReports` reads a collection in one step, `ProviderReads` page
by page; `WorklogEntry` is the dialog behind a submission of `DesktopSession`.

### ConfirmationGate

`pending`, `sequence` and `poisoned` are the fields of the gate and the state of
its mutex. `prepare` and `consume` hold the mutex for their whole body, so each
is one step: `Prepare`, `PrepareWithoutClock` (the wall clock is before the
epoch, after the table was trimmed), `PreparePanics` (`Instant::now() + ttl`
overflows under the lock), `ConsumeKnown`, `ConsumeMissing`, `CallPoisoned`;
`Restart` is a new process and `Tick` is time. There are two clocks: `now`
(monotonic) decides expiry; the stamp in the token text (wall clock) decides
eviction, because the table is ordered by text and `make_room` drops its first
key. Tokens of one stamp are ordered by the hexadecimal text of their number, so
the model lets either be first. `ledger` is history and feeds the properties.

- `SingleOutcome`: a token has one outcome.
- `CapacityRespected`: never more than `maximum_pending` entries.
- `RecentPreviewsKept`: a live preview is only evicted by `maximum_pending` newer ones.
  This needs a wall clock that moves forward; see *Bounds*.
- `ConfirmedAsPreviewed`: what is authorized was shown, and had not expired.
- `FailsClosed`: after a panic under the lock nothing is authorized until a restart.
- `ImplementsPermit`: every behaviour is one of `OneTimePermit`.

### MutationProtocol

A call goes through the places of `pc`: look up the board (Jira), read what the
preview shows, decide at the gate, look up the board again (Jira), compare again
(field edits and pull requests), write. Every place is a request to a provider or
a call of the gate, and any other call or a change by somebody else (`Edit`) can
happen between two of them. The target is a function from aspects (fields,
worklogs, comments, pull request, ...) to sets of marks, so a change can be
undone again. `pull` stands for the nine tools on an existing pull request,
which share the code path and differ in the change they ask for. The gate is
`OneTimePermit` itself, justified by `ImplementsPermit` (proved): permits may
lapse at any call, which covers expiry and eviction, so its clock stands still.

- `OneWritePerPreview`: each write belongs to a preview of the same request and
  reading, and no preview accounts for two writes.
- `ConfirmedStateHeld`: what the person confirmed was true at the provider at
  some moment of the confirming call.
- `RecheckedBeforeWrite`: field edits and pull-request changes compare again
  after the acceptance, and Jira tools look the board up again.
- `ChangedTargetRejected` (violated): the user guide's words; transitions,
  comments and worklogs do not do this.

No property excludes a change between the last comparison and the write: the
providers offer no conditional write, and the code does not claim it.

### SharedSettings

The document is a revision and a value per section. A frontend has a draft
(values it read when it was opened), a base (the document it read just before
saving) and the sections it puts on top. The steps are the readings, the lock,
the comparison and the rename that replaces the file, so saves of any number
of processes interleave. Desktop preferences, consent, both editors, the
language selection and the clearing of MCP settings are `Kind`s of frontends. An
editor that saved its draft may go on to apply it, which reads the
configuration, and `ConfigurationStore::save` reads the document once more.

- `ForeignSectionsKept`: a save changes only sections its frontend writes.
- `RevisionsNameDocuments`: a revision once read names one document, so the
  comparison under the lock is as good as comparing documents.
- `PreferencesNeverGrant`: saving preferences leaves every grant as it is.
- `LockComesFree`: the writer lock never stays with a save that is over.
- `StaleEditorRejected` (violated): the store's README; editors take the revision
  from their second reading, so they overwrite newer values of their own section.

One limit follows from the same two readings: consent and applying an editor write all of
`McpSections` from the first reading, so a grant revoked between the two readings
comes back. `ForeignSectionsKept` says nothing about the sections a save writes.

### CredentialTransactions

An operation that takes the credential transaction guard is a program: steps that
write one thing each, and with every step the undo list of its error path
(`save_setup`, `save_bitbucket_setup`, `uninstall`, `persist`, `disconnect`, the
consent page on Windows, `replace_token`). `Begin` takes the guard, `Snapshot` reads
what the rollback needs and lays out the program, `Forward` and `Fail` execute or fail a
step, `Undo` attempts the parts of a rollback one by one, whatever becomes of the
others, `Release` returns, and `Crash` ends the process anywhere. A configuration
exists only when a module is enabled and every enabled one is complete
(`Configuration`); saving one puts its sections on the document and clearing drops
only the grants (`Saved`). The editors save without the guard (`EditorSaves`), and so
does the consent page on Linux. Sites and emails are one account; capabilities are a
module being enabled. A token is only changed under the guard, so it is read once, in
`Snapshot`. How two saves of `settings.json` meet is the subject of `SharedSettings`.

- `RollbackRestores` (`TokensRestored` and `SettingsRestored`): a failed operation puts everything back. Excepted
  are a rollback that fails itself, `replace_token`, which has none, and on Linux a first
  save that fails after it destroyed the old token (`SecretsAfterFailure`). The settings
  come back if nobody else saved; the consent page restores what MCP runs with, as an
  incomplete document is no configuration it could restore.
- `SuccessIsComplete`: a reported success left token and account together.
- `SafeToInterrupt`: setup and uninstall never pass through an enabled module without
  token, so a crash between two steps is harmless. The rollback of setup and the
  consent page do not have this property (see the hazards).
- `UninstallRemovesCredential` (violated): uninstall looks its accounts up in the
  configuration, which does not exist when nothing is enabled.
- `UpdatesNotInterleaved` (violated): the editors do not take the guard.

### LocalInstallation

`server` is the installed executable, `client` the entry `worklogger` and the rest of
each assistant's configuration, `skill` the skill directories with their marker, `work`
what each process is doing. The commands are the headless setup, the skills alone, the
menu, the configuration of one client, the desktop's preferences and uninstall. A
command inspects the clients (`Inspect`), installs the executable, and takes one client
after the other: `Look`, `Read` the file, `Recheck` its state, `Commit` the replacement,
or `Run` the client's own command. Skills are validated, read into a snapshot, installed
one write at a time and, when a write fails, restored in reverse. There is no lock:
assistants, persons and other commands change the same files between any two steps, and
a process may end anywhere. `stale`, `late` and `touched` are history: what changed
since a command looked.

- `EndsAsReported`: a failed installation of skills leaves every skill as it was
  (`SkillsRestored`); a success has registered, unregistered and installed what it was
  asked for (`SuccessIsInstalled`); both except for what others changed meanwhile.
- `OthersKept`: no step destroys what is not Worklogger's, which is the registrations of
  others, the rest of their files and skill directories without the marker. The code
  compares again before it writes and cannot exclude the moment after that.

### Permissions

`document` holds the consents and whether each provider's settings are complete and
within the limits; `profile` is the installed organization profile, `desktop` the one the
desktop application started with, `arriving` one being handed out. `Consent` is a switch
of the consent page, `SetUp` and `Import` the terminal's commands, `EditSettings` the
permissions page of the editors, `Withdraw` clears, `DesktopInstalls`, `DesktopStarts`
and `ProfileArrives` change the profile under settings that are already there. Writes
are one step each.

- `ListedToolsWork`: a server started now lists only tools that were granted and that the
  profile now allows, each with the read it needs and the backend it calls.
- `GrantsAreAskedFor` (`ConsentIsAskedFor` in the run): no consent grants anything but
  what it names, or takes anything else away.

### ProviderReads

`read` is the loop under way, `list` the provider's collection. The seven loops differ in
how they go on (offset, token, URL of the next page), what bounds them and what they do
at the limit (refuse, or return a part). `Receive` takes a page, `TooManyPages` and
`PageFails` end the read, `Added` and `Strays` are the provider: its collection grows at
the end, or it stops following the protocol and answers anything.

- `ReadsAreBounded`: whatever the provider answers, a read keeps its limit of items and
  of requests. The search up to a limit counts no pages: it keeps to them only while the
  provider follows the protocol.
- `ReadsAreComplete`: while it does, a whole collection is whole, a part is said to be
  one, an issue that is there is found, and only what is too large is refused.

### WorklogReports

`worklogs` is the provider, which other people change during a report (`Edit`); `report`
is the report of one's own hours, of the team's, or of issues without hours. `ListIssues`
asks for the issues of the requested period; `LoadIssue` and `LoadFails` are the
requests per issue, up to `Concurrency` at once and answered in any order; `Collect`
sums up, in arithmetic modulo `Width` where the code uses `u32`.

- `ReportsAreRight`: hours that were there throughout are in the report or their issue is
  in a warning, the sums agree with each other, and the week is complete exactly when
  nothing is missing (`HoursAccountedFor`); what is suggested for logging has no hours
  of one's own (`UnloggedSuggested`).

### DesktopSession

`app` is the view and what it shows, `dialog` the step of the worklog dialog, `open` the
other dialogs that are open, `submission` and `preferences` the state of a dialog's
request, `form` the connection form with the boards it found, `saved` the account on disk,
`tasks` the requests under way, `adrift` the changes whose request went away while it was
being sent. The window has one thread, so an event handler is one action: the form
(`TypeAccount`, `FindBoards`, `ChooseBoard`, `Connect`, ...), the dashboard
(`ChangePeriod`, `Open`, `Close`, `OpenWorklog`, `Turn`, `CloseWorklog`, `Submit`,
`Delete`, `SavePreferences`, `Disconnect`), the imports of a profile and `Restart`. A
task goes on where the code waited: `Look` reads the saved account, `Write` changes
Jira, `Load` reads the list, `Fail` ends with an error, and `AnswerConnect`,
`AnswerRestore`, `AnswerPeriod`, `AnswerDelete`, `AnswerPreferences` and `AnswerWorklog`
are what the window does with each answer.

A dialog is an overlay and no more: it neither disables nor hides what is under it, so by
keyboard the buttons behind it work, and several dialogs may be open. Actions have the
guards their buttons have in the code. The header's are never disabled; arrows and range
are, while the view is refreshing (`Settled`), and a submission under way is no refresh.
So a refresh, a deletion or a save of the preferences may start behind a submission, and
a submission be sent behind them. What the framework does is assumed: Dioxus drops the
tasks of the dashboard that is removed (`OwnedByWindow`, and `Drop` for the reload that
removes its own), and a write that was being sent then may still arrive (`Arrive`).

`asked`, `latest` and `released` are history; `crossed` says that a profile was
imported while a request was under way, which starts the window anew around the request.
It is the exception of three properties, and a restart ends it.

- `LateAnswersIgnored`: of the requests the view waits for, only the answer of the last
  changes what is shown. The answer of a submission is shown without being compared
  (`finish_worklog_submission`), which the property says.
- `DisconnectHolds`: a request under way does not bring a disconnected account back.
- `ShownMovesForward`: the list never goes back to an older one, also not by what a
  failed request falls back to, except by the answer of a submission behind which another
  list was shown, and by that not behind the list it was sent from.
- `ReportedAsWritten`: what is shown without error after a change holds it, and a dialog
  closes by an answer only if Jira has made the change.
- `BoardWasDiscovered`: a connection is asked for with a board found for its account.
- `NothingStaysBusy`: every wait of the window ends (liveness).
- `SavedPreferencesApplied` (violated, a bug): the preferences dialog reports success and
  does not save the report period limit it edits.

### WorklogEntry

`span` is the shown period (`ShiftPeriod`, `ApplyRange`), `entry` the dialog with its
draft and the worklog it edits (`OpenNew`, `OpenRow`, `TypeEntry`, `Review`, `Back`,
`Submit`, `Cancel`), `finder` the suggestions and their keyboard (`Search`,
`SearchAnswers`, `MoveOption`, `Pick`, ...), `order` the submitted command and `sent`
what Jira is asked to write for it. `opened` and `reviewed` are history: the button that
was pressed for the dialog, and what was on the page as the submission was sent. Here,
too, the page works behind the dialog: pressing *Add* or *Edit* again changes what is
edited and keeps the draft, the period moves, and a form that is cancelled leaves its
submission under way.

- `WorklogsAreSentAsReviewed`: Jira is asked to write what the review showed as it was
  confirmed, for the worklog whose button was pressed last, to the second if its minutes
  were not changed.
- `ArrowsLeadBack`: the week after the week before is the one that was shown, and no
  period ends after today, whatever period a submission falls back to.

### DesktopReports and ReportPresentation

`page` is the tab with its filters, the export under way and its notice; `period` the
period of one's own report, `team` the team's report and `loads` its requests without
answer. `Document` is what an export is made of: the hours by day, week, task, member
and category, with slices and percentages. `ReportPresentation` makes of a document what
`reports.rs`, `report_export.rs` and `report_pdf.rs` make of it: the window of rows of
each table, the cells, filters and charts of every sheet of both workbooks, and the
cards, bars and records of every page of both PDFs.

- `TeamReportIsTheAskedOne`: in whatever order the loads are answered, the page shows
  the period that was asked for last.
- `ExportsAccountForHours`: an export is of a complete report and accounts for all of its
  hours: every table adds up to the same total, no cell is written twice, charts plot the
  cells they should and lie over none, every record is on one page, and workbook and PDF
  show the same figures.

## Runs

| Run | Question | Instance |
| --- | --- | --- |
| `gate` | all properties of the gate | 3 tokens, table of 2, 2 payloads, lifetime 2, time to 3; any wall clock |
| `protocol` | double confirmation and re-checks of field edits; every tool against a changing target | 3 calls, 2 permits, 2 changes by others; 6 tools |
| `protocol_transition` | finding: a changed issue is transitioned | 2 calls |
| `settings` | every pair of frontends that meet, saving at once; the lock comes free | 5 frontends in 3 pairs, 2 values, 2 saves in a row |
| `settings_stale` | finding: a stale editor is not rejected | 2 frontends, 3 saves |
| `credentials` | transactions of terminal and desktop, on Linux and Windows | 2 processes, 2 modules, 2 accounts, 2 tokens, 1 editor save per operation |
| `credentials_uninstall` | finding: uninstall leaves the token | no editor save during an operation |
| `credentials_lock` | finding: an editor's save is overwritten | 1 editor save during an operation |
| `session` | the window with answers in any order; every wait ends | 2 accounts, 4 requests, 2 dialogs at a time, 692,296 states |
| `session_limit` | finding: the report period limit is not saved | 1 account, 2 limits, 3 requests, 5 dialogs at a time |
| `installation` | registrations and skills against other programs | 2 processes, 1 file, 1 command, 2 skills, 2 changes |
| `parts` | seven suites: paged reads, worklog reports, desktop reports, consent, week, entry and finder | see *Bounds*, 752,748 states |

### Findings

- `protocol_transition`: the user guide says a changed target is refused; transitions,
  comments and worklogs do not compare again.
- `settings_stale`: the store's README says stale editors are refused; an editor takes
  the revision from its second reading and overwrites newer values of its own section.
- `credentials_uninstall`: uninstall looks its accounts up in the configuration, which
  does not exist while nothing is enabled, and leaves the token.
- `credentials_lock`: the editors save without the guard, and so between the reading
  and the save of an operation that holds it.
- `session_limit`: the preferences report that the period limit was saved, and it was not.

`PROJECT.json` quotes each disagreement with its line.

### Bounds

*gate.* Three tokens and a table of two are the least at which one is evicted while
another stays; lifetime 2 with time to 3 lets previews expire and be offered just
before, and `InstantMax` 3 lets the clock overflow. `SteadyClock` is the one assumption
about the environment: eviction order is only promised when the wall clock moves forward
between two tokens, and the run has clocks that do not.

*protocol.* Three calls are a preview and two confirmations of it. Two changes by others
are a change and its undoing, the case in which a comparison passes although something
happened; one change at each aspect already separates a re-check from none. Two permits
let a call offer the token of another preview. Calls are bounded, so the run does not
check deadlock: a behaviour ends when all calls are answered.

*settings.* A frontend may read before and save after any save of the other, and the
last revision is reached within the bound. The pairs are the ones that write a common
section or stand for the ways of reading: preferences with consent, preferences with the
language, and the two editors.

*credentials.* Two accounts are the one kept and the one replaced, two tokens tell a
restored token from any other, and one editor save falls into each gap of an operation
in turn; between operations editors save without bound. `MCCredentialTransactions!Within`
keeps the operations of the terminal on both modules with one token for Linux and every
operation on Jira's account for Windows, where the desktop transfers the token.

*session.* `MaxAsked` is 4: three requests of two accounts and a fourth of one account, as
a connection, a submission, a refresh behind it and a disconnection or import.
`MCDesktopSession!Within` keeps to `MaxOpen`, two dialogs open at a time: the worklog
dialog and another, or two others; `session_limit` has room for all five. One choice of
preferences is enough but for `session_limit`, which needs two limits. The window stops
when nothing more may be asked for, so deadlock is not checked.

*installation.* Two commands at once on registrations, of which one is from the menu,
while nobody else makes a change; one command with a change by others; or one command
with two changes of the skills (`MCLocalInstallation!Within`). Two skills are one that
is installed and one that fails; a file and a command are the two kinds of clients.

*parts.* The seven suites share no state, so each is looked at while the others stand still,
and their state spaces add up instead of multiplying. Reads: four items, a limit of
three, pages of two, so a collection fits, fills or exceeds the limit, within or at the
end of a page. Worklog reports: two issues, three worklogs in every condition, sums that
overflow `Width`, one change. Desktop: five worklogs over the end of a week, two periods,
limits of two slices, bars and records. Consent: four capabilities of two modules, one
of which needs another; three profiles, strict and not; one profile on its way. Entry:
two worklogs, one of them of more seconds than its minutes, and durations of none, one
and too many; while a submission is under way only the issue is typed anew, and the
suggestions (finder) are looked at up to the first submission (`Entering` and `Finding` in
`MCParts`). Reads and reports end, so deadlock is not checked.

### Fairness

`LockComesFree` needs weak fairness of the steps of `save` (`Saving`). A save has no
waiting step (the lock is tried once, not awaited), so it runs to its end or its process
ends, which is the action `Close` and needs no fairness.

`NothingStaysBusy` needs weak fairness of every request (`Progress` of each task, and
`BoardsFound`): the HTTP client gives up after `request_timeout_seconds`, so every request
ends with an answer or an error. Nothing is assumed of the person. One state is excepted
(`Abandoned`): the reload after an import belongs to the dashboard that started it, and
may be dropped with it.

## Proofs

`ConfirmationGate_proofs` proves every property of the gate for all payloads,
lifetimes, table sizes, clocks and numbers of tokens, from `GateAssumption` only
(the environment variables are used when they parse and are positive), except
`Retention`, which also assumes `SteadyClock`. The inductive invariant is
`GateInv`: types, `TableFollowsLedger` (an entry of the table agrees with the
history, and is unused and not refused), `SingleOutcome`, `CapacityRespected`.
`SingleOutcome` is not inductive alone: that a second `consume` of a token cannot
find it again is what `TableFollowsLedger` adds. `RecentPreviewsKept` needs, beyond
this, that stamps follow the order of issue, so the first key is the oldest; the
step for `Prepare` counts the newer previews of the entry that was dropped. The
refinement maps a gate token to a permit that is used, open while in the
table, and void otherwise; each action is matched with one of `OneTimePermit`.

`MutationProtocol_proofs` proves the type invariant, `OneWritePerPreview`,
`ConfirmedStateHeld` and `RecheckedBeforeWrite` for any calls, tools, changes and
permits, from `ProtocolAssumption`. The inductive invariant `ProtocolInv` says of
each call (`CallInv`): a call under way has written nothing (`WritesOnce`); one that
was accepted or has written holds a used permit of its own payload (`Paid`); a call
that decides and holds a permit of its payload has seen what the permit shows
(`ShownHeld`, set by the reading for its own preview); past the second board lookup it
has seen the board, and past the comparison it has seen what was shown
(`BoardHeld`, `RevisionHeld`); and no two calls paid with one permit (`TokensApart`).
The last one is kept because redeeming needs an open permit while those of calls that
paid are used, and `PermitsKept` says that no step reopens one. Each step of a call is
a lemma about that call; `OthersKept` covers all other calls at once.

`SharedSettings_proofs` proves the type invariant (with the ownership of the lock),
`ForeignSectionsKept`, `PreferencesNeverGrant` and `RevisionsNameDocuments` for any
frontends and documents, from `SettingsAssumption`. Its invariant `SettingsInv` adds
that a base which carries the current revision is the current document
(`BaseFollowsFile`), that the holder of the lock past the comparison has the current
revision (`CommitIsCurrent`), and that preferences put no grants into their
draft (`PreferencesApart`).

`CredentialTransactions_proofs` proves the type invariant, `RollbackRestores`,
`SuccessIsComplete` and `SafeToInterrupt` for any accounts, tokens, processes and
failures, from `CredentialAssumption`. `RollbackRestores` speaks of a transaction that
has ended, so the invariant `CredentialInv` says of every step left what it needs: the
undo list of each step puts back every token that differs now and every one that the
steps before it will have put (`Covers`, `TokensUndoable`), and saves what was configured
if the settings differ then (`Mends`, `SettingsUndoable`). Saving that is enough because
what it says nothing of is as it was (`Near`), and for the consent page the settings need
only run as before (`Settled`). For success, each promise is kept already or by a step
left, and undone by none (`WillBe`, `TokensFollow`; `Intended`, `SettingsFollow`). For
interruption the steps left are in an order that deletes a token after the save that
stops using it and saves an account after its token is put (`Ordered`). Clauses on the
settings hold while nobody else saved them (`fresh`), those on tokens always, as tokens
are changed under the guard alone. Each program (setup, uninstall, replacement,
connection, disconnection, consent) has a lemma that its plan meets all this at
its start, and one lemma each covers a step that succeeds, one that fails and one of the
error path.

`LocalInstallation_proofs` proves the type invariant, `EndsAsReported` and `OthersKept`
from `InstallationAssumption` (a file is not a command, and "none" is neither). Its
`InstallationInv` says of every command the stages left (`Shape`, `PlanOf`); that every
client it was asked for is as asked or still awaits its turn, unless somebody wrote there
since it looked (`RegistrationsInv`, `Awaits`); that the registration under way finds what
it read, unless somebody wrote after its last reading (`ItemInv`); and that skills past
their place in the installation are installed, those a failure has put back are as they
were, and none that is replaced lacks the marker (`SkillsInv`). Each step of a command has
a lemma, and each change that others may make (a client, the skills, the executable gone
or installed) has one that says what stays true of a command it disturbs; the
step of one process uses those for all other processes.

`ServerParts_proofs` is on three modules. *Reads*: `ReadsAreBounded` and
`ReadsAreComplete` for every limit, page size and collection, from `ReadsAssumption`. The
invariant `ReadInv` adds to the types `Progress`: a loop that does not count its pages
has had no more requests than items, and has room for one more item while it goes on. For
the search up to a limit this holds only while the provider follows the protocol, which
is why `ReadsAreBounded` makes the same exception. `ReadsFollow`, for a provider that
follows it, says that what was read is a beginning of the list, that a loop goes on at
the place where its items end, and that it has been nowhere beyond (`GoesOn`), so no
token is mistaken for a repeated one; the collection may grow meanwhile.
*Reports*: `ReportsAreRight` from `ReportsAssumption`. `ReportsInv` says that issues are
listed once and hold every worklog of the period that nobody touched (`IssuesFit`), that an
issue that was read has given all its hours and one that failed is named (`LoadsFit`),
and when an issue is suggested (`SuggestionsFit`). That the totals agree is a fact about
sums by day, issue and member in wrapping arithmetic. *Permissions*:
`ListedToolsWork` and `GrantsAreAskedFor` from `PermissionsAssumption` (what a
capability needs is of the same module and needs nothing itself). The inductive invariant
is the type invariant, which says that what is stored is closed under required
reads; `RestrictedModule` says what a restriction to a profile keeps, and both
properties follow from it in any state.

Sums are folds over finite sets. The induction that shows what they compute is
done by hand, since the library's theorem takes an operator: of the subsets for which the
claim fails take one with no smaller failing subset (`SmallestSubset`), remove the element
the fold removes, and the claim holds for the rest. A fold is the solution of its
recursive equations once they have one; that they do (`IterationExists`, `FoldExists`) is
shown for the subsets of up to so many elements.

`DesktopPages_proofs` is on the pages of the window. *My week*: `WorklogsAreSentAsReviewed`,
`ArrowsLeadBack` and the types, from `EntryAssumption`. `EntryInv` says what the dialog's
steps allow (`EntryShape`), that it edits what its button was pressed for last and reviews
only what can be sent (`DialogAgrees`), and that a submission is known to be under way
until its answer and was made of what was reviewed, whatever has become of the dialog
(`SubmissionAgrees`); `PageInv` adds the period and the search. The period rests on lemmas
about days modulo seven. *Reports*: `TeamReportIsTheAskedOne` from `DesktopReportsAssumption`: a load is
known by its number, the last one is of the period asked for last (`LoadsFollowAsked`), and
the page waits for that one (`AwaitsTheLast`). *Export*: `ExportInv` says that a team
report that is shown has all hours of its period, so that what is exported is made of a
complete report (`ExportsAreOfCompleteReports`), and from there the other five parts of
`ExportsAccountForHours` follow, which together are `ExportsAlwaysAccountForHours`.
`TablesAccountForHours`
(`ExportedTablesAccountForHours`) needs that a sum over hours is the sum over the groups of
any function of them (days, weeks by division, tasks, members), that a ranking by
hours exists and orders each key once (`RankingExists`, `RankedKeys`), that a slice list
with its rest adds up (`SlicesAddUp`), and that a percentage capped at `U32Max` adds up or
is capped (`SharesAddUp`). `PageIsRight` (`ExportedRowsAreShown`) needs that the windows
of a table's pages cover its rows and nothing else (`EveryRowIsShown`), and `FiguresAgree`
(`ExportedFiguresAgree`) the cells in which the figures stand. `PdfIsRight`
(`ExportedPdfsAreRight`) needs that rows divided into pages of so many stand each in one
place (`RowInChunk`), that the numbering of the book keeps what is on its pages, and that
a bar scaled to the longest is no longer than it (`BarScale`). `WorkbookIsRight`
(`ExportedWorkbooksAreRight`) is shown sheet by sheet: the cells of each part of a sheet
fit a box (`Fits`), the boxes and the charts lie apart, so that no cell is written twice
and none is covered; and the cells a chart plots are those of the rows it is of, one for
each (`Plots`), so that what it plots is the sum over those rows, the hours of the
document or those of the members there is room for. *Side by side*: a suite of
`parts` is a behaviour of each of its parts (`PartsActAsAlone`), so every theorem on a
part holds in `MCParts`; with it `TypeOK` and `ConsentIsAskedFor` are proved as the run
states them.

`DesktopSession_proofs` proves the types and the five safety properties of the window that
hold, for any accounts and any number of requests, from `SessionAssumption`. They rest on several
invariants, because they hold in different circumstances.
`SessionInv` says of every task whom it makes wait (`Waits`): one of the dashboard lives
with the dashboard, a submission keeps its dialog's request pending and a save of the
preferences theirs. So there is one of each at most (`OneOfEach`), although a refresh, a
submission and a save may be under way together; dialogs belong to the dashboard
(`DialogsBelong`), and a refreshing view waits for what the view asked for last. While no
profile was imported during a request, a connection and a reload are waited for by the
whole view and were asked for last (`Begins`), and after a disconnection nothing is saved
and no task that could save is left (`ReleasedHolds`). It gives `DisconnectHolds` and
`LateAnswersIgnored`. `BoardInv` gives `BoardWasDiscovered`: the
form holds boards of the account that is typed (`FormAgrees`). `ReportInv` says that a task
past its write has its change in Jira and past its reading in its list (`Follows`); it
gives `ReportedAsWritten`. `ForwardInv` compares lists: what a task has read is no older
than the list it was asked from, and a refresh the view waits for falls back to what is
shown (`Falls`), which a submission need not; it gives
`ShownMovesForward`. `TypeInv` relates dialogs to the view they belong to and a task
to the session it will restore; it rests on `ForwardInv` and the form (`Grounds`), and
gives `TypeOK`.

Only model-checked: the liveness properties `LockComesFree` and `NothingStaysBusy`, and the
violated ones. Liveness stays with TLC, as temporal proofs with fairness need `ENABLED`,
which the proof system used here does not treat.

## Not modelled

- Layout, wording, fonts, colours and geometry of window, workbook and PDF, and the
  rendering and key handling of the terminal: output without state. Charts and cells are
  modelled as to which figure is where; the helper columns of a doughnut chart are only
  modelled from how they are used.
- Demonstration data, development builds and the installer package: fixed data, or input
  and output alone.
- Building requests and parsing answers: a request is one step with an answer or none. Reads
  of single objects change no state.
- The legacy single-file store of the Desktop: only its tests use it.
- A change by others between the last comparison and the write. The providers offer no
  conditional write and files no conditional replacement, and the code claims neither.
- The lock of the settings on platforms that are neither Unix nor Windows, where the
  file is opened and not locked.

Some shortcomings are in the models and excluded by no property, as they are what the code
does:

- A grant revoked between the two readings of `ConfigurationStore::save` comes back
  (*SharedSettings*).
- The search button of the worklog dialog stays disabled when the form is left for the
  review during a search (*WorklogEntry*).
- A refresh that was started behind a submission is overtaken by the answer of the
  submission, and its own answer is dropped: the period that was chosen is not shown. If
  the refresh was answered first and the submission fails, or is committed without a new
  report, the list and period from before the refresh come back (`ui.rs:779-803`;
  *DesktopSession*, *WorklogEntry*).
- A form that is cancelled while its submission is under way leaves the success behind,
  and the next dialog closes as it opens (`ui.rs:1377-1384`; both).
- *Edit* of another worklog behind an open dialog keeps the draft, so the values that were
  meant for one worklog are reviewed as a change of the other (`ui.rs:1313`;
  *WorklogEntry*). What is sent is still what that review shows.

What would be worth adding: an abstract specification of a save of the settings, which
`SharedSettings` implements and `CredentialTransactions`, `Permissions` and
`DesktopSession` may rest on.
