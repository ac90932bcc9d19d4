--------------------------- MODULE DesktopSession ---------------------------
(* One Desktop window: the view it shows, its dialogs, and the requests it  *)
(* has under way (desktop-app/src/ui.rs, setup.rs, preferences.rs and the   *)
(* operations of connection.rs they start).                                 *)
(*                                                                          *)
(* The window has one thread.  An event handler runs at once; what it       *)
(* spawns runs in steps that end where the code waits for Jira, so answers  *)
(* may come in any order.  A dialog only lies over the rest of the window:  *)
(* by keyboard the buttons under it still work, and other dialogs open.     *)
(* What a dashboard spawned is dropped with it (external: Dioxus).          *)
(* What the keyring and settings.json do in detail is the subject of        *)
(* CredentialTransactions; here they are the saved request, or none.        *)
EXTENDS Naturals, FiniteSets

CONSTANTS Accounts,     \* site, e-mail and token of a Jira account
          Targets,      \* the preferences other than the report period limit
          Limits,       \* values of maximum_report_period_days
          None,
          MaxAsked      \* requests, imports and disconnections in a behaviour

Requests == [account : Accounts, board : Accounts, target : Targets, limit : Limits]
Choices  == [target : Targets, limit : Limits]
Sessions == [request : Requests, seen : SUBSET (1 .. MaxAsked)]

ASSUME SessionAssumption ==
    /\ None \notin Accounts \cup Sessions
    /\ Accounts # {} /\ Targets # {} /\ Limits # {}
    /\ MaxAsked \in Nat \ {0}

VARIABLES
    app,            \* AppState
    dialog,         \* the worklog dialog
    open,           \* the other dialogs that are open
    submission,     \* WorklogSubmission
    preferences,    \* ConfigurationSubmission
    form,           \* the connection form and the boards it found
    tasks,          \* the requests under way
    saved,          \* the request kept in settings and keyring, or None
    jira,           \* the changes of worklogs that Jira has made
    adrift,         \* the changes sent to Jira by a dashboard that is gone
    asked,          \* history: number of the last thing asked for
    latest,         \* history: that number without the submissions of worklogs
    released,       \* history: disconnected and not connecting again
    crossed         \* history: an organization profile was imported during a request

dialogs == <<dialog, open, submission, preferences>>
remote  == <<saved, jira, adrift>>
history == <<asked, latest, released, crossed>>
vars    == <<app, dialogs, form, tasks, remote, history>>

Submissions   == {"create", "update"}
Writers       == Submissions \cup {"delete"}
FromDashboard == Writers \cup {"period", "configure"}
Restores      == {"restore", "reload"}

\* A board is named by the account whose boards it was found among.
NoForm == [account |-> None, boards |-> None, board |-> None, finding |-> FALSE]

Dashboard  == app.view \in {"connected", "refreshing"}
Refreshing == app.view = "refreshing"
Busy       == \/ app.view \in {"starting", "refreshing"}
              \/ app.loading
              \/ submission = "pending"
              \/ preferences = "pending"
              \/ form.finding

Phases == {"asked", "looked", "written", "committed", "loaded", "failed", "absent"}

Shown(view, session) ==
    [view |-> view, loading |-> FALSE, failed |-> FALSE, session |-> session, request |-> 0]
Failed(state) == [state EXCEPT !.failed = TRUE]

Task(kind, request) ==
    [id |-> asked + 1, kind |-> kind, request |-> request, chosen |-> None,
     fallback |-> app.session, seen |-> {}, phase |-> "asked"]

Start(task) == tasks' = tasks \cup {task} /\ asked' = asked + 1

\* The next phase of a task.
Step(t, next) == tasks' = (tasks \ {t}) \cup {next}

TypeOK ==
    /\ app.view \in {"starting", "setup", "connected", "refreshing", "demo"}
    /\ app.loading \in BOOLEAN /\ app.failed \in BOOLEAN
    /\ app.session \in Sessions \cup {None}
    /\ app.request \in 0 .. MaxAsked
    /\ app.loading => app.view = "setup"
    /\ Dashboard <=> app.session # None
    /\ Refreshing <=> app.request # 0
    /\ dialog \in {"none", "form", "review"}
    /\ dialog # "none" => Dashboard /\ submission # "succeeded"
    /\ open \subseteq {"delete", "disconnect", "range", "preferences"}
    /\ open # {} => Dashboard
    /\ submission \in {"idle", "pending", "failed", "succeeded"}
    /\ submission # "idle" => Dashboard
    /\ preferences \in {"idle", "pending", "failed"}
    /\ preferences # "idle" => "preferences" \in open
    /\ form \in [account : Accounts \cup {None}, boards : Accounts \cup {None},
                 board : Accounts \cup {None}, finding : BOOLEAN]
    /\ \A t \in tasks : /\ t.id \in 1 .. asked
                        /\ t.request \in Requests \cup {None}
                        /\ t.chosen \in Choices \cup {None}
                        /\ t.fallback \in Sessions \cup {None}
                        /\ t.seen \subseteq jira
                        /\ t.phase \in Phases
    /\ \A t, u \in tasks : t.id = u.id => t = u
    /\ saved \in Requests \cup {None}
    /\ jira \subseteq 1 .. asked /\ adrift \subseteq 1 .. asked
    /\ asked \in 0 .. MaxAsked /\ latest \in 0 .. asked
    /\ released \in BOOLEAN /\ crossed \in BOOLEAN

\* The window opens and looks for the saved request.
Init ==
    /\ saved \in {None} \cup Requests
    /\ app = Shown("starting", None)
    /\ dialog = "none" /\ open = {} /\ submission = "idle" /\ preferences = "idle"
    /\ form = NoForm
    /\ asked = 1 /\ latest = 1
    /\ tasks = {[id |-> 1, kind |-> "restore", request |-> None, chosen |-> None,
                 fallback |-> None, seen |-> {}, phase |-> "asked"]}
    /\ jira = {} /\ adrift = {}
    /\ released = FALSE /\ crossed = FALSE

Asking == asked < MaxAsked

---------------------------------------------------------------------------
(* The connection form.                                                     *)

Idle == app.view = "setup" /\ ~app.loading /\ ~form.finding

\* Mutant: the boards of the account that was typed before stay.
TypeAccountKeepingBoards(a) ==
    /\ Idle
    /\ form' = [form EXCEPT !.account = a]
    /\ UNCHANGED <<app, dialogs, tasks, remote, history>>

\* Editing the site, the e-mail or the token forgets the boards.
TypeAccount(a) ==
    /\ Idle
    /\ form' = [account |-> a, boards |-> None, board |-> None, finding |-> FALSE]
    /\ UNCHANGED <<app, dialogs, tasks, remote, history>>

FindBoards ==
    /\ Idle /\ form.account # None
    /\ form' = [form EXCEPT !.finding = TRUE]
    /\ UNCHANGED <<app, dialogs, tasks, remote, history>>

\* Several boards, a single one, or none that the organization allows or an error.
BoardsFound ==
    /\ app.view = "setup" /\ form.finding
    /\ \/ form' = [form EXCEPT !.finding = FALSE, !.boards = form.account, !.board = None]
       \/ form' = [form EXCEPT !.finding = FALSE, !.boards = form.account,
                               !.board = form.account]
       \/ form' = [form EXCEPT !.finding = FALSE]
    /\ UNCHANGED <<app, dialogs, tasks, remote, history>>

ChooseBoard ==
    /\ Idle /\ form.boards # None
    /\ form' = [form EXCEPT !.board = form.boards]
    /\ UNCHANGED <<app, dialogs, tasks, remote, history>>

Connect ==
    /\ Idle /\ Asking /\ form.board # None
    /\ \E target \in Targets, limit \in Limits :
         Start(Task("connect", [account |-> form.account, board |-> form.board,
                                target |-> target, limit |-> limit]))
    /\ app' = [Shown("setup", None) EXCEPT !.loading = TRUE]
    /\ latest' = asked + 1
    /\ released' = FALSE
    /\ UNCHANGED <<dialogs, form, remote, crossed>>

Demo ==
    /\ Idle
    /\ app' = Shown("demo", None)
    /\ form' = NoForm
    /\ UNCHANGED <<dialogs, tasks, remote, history>>

LeaveDemo ==
    /\ app.view = "demo"
    /\ app' = Shown("setup", None)
    /\ UNCHANGED <<dialogs, form, tasks, remote, history>>

\* Importing an organization profile is possible during a request, too.
ImportInSetup ==
    /\ app.view = "setup"
    /\ app' = Shown("setup", None)
    /\ form' = NoForm
    /\ crossed' = (crossed \/ tasks # {})
    /\ UNCHANGED <<dialogs, tasks, remote, asked, latest, released>>

---------------------------------------------------------------------------
(* The dashboard and its dialogs.  Several dialogs may be open at once.     *)

\* The arrows, the range and the buttons of the worklogs wait for a refresh to
\* end; nothing waits for a submission or for another dialog.
Settled == app.view = "connected"

Refresh(task) ==
    /\ Asking
    /\ Start(task)
    /\ app' = [Shown("refreshing", app.session) EXCEPT !.request = asked + 1]
    /\ latest' = asked + 1

\* Another week, or a range from its dialog.
ChangePeriod ==
    /\ \/ Settled /\ open' = open
       \/ "range" \in open /\ open' = open \ {"range"}
    /\ Refresh(Task("period", None))
    /\ UNCHANGED <<dialog, submission, preferences, form, remote, released, crossed>>

\* The header's buttons are never disabled.
Open(other) ==
    /\ Dashboard
    /\ other \in {"delete", "range"} => Settled
    /\ open' = open \cup {other}
    /\ UNCHANGED <<app, dialog, submission, preferences, form, tasks, remote, history>>

\* Nothing closes the preferences while they are being saved.
Close(other) ==
    /\ other \in open
    /\ other = "preferences" => preferences # "pending"
    /\ open' = open \ {other}
    /\ preferences' = IF other = "preferences" THEN "idle" ELSE preferences
    /\ UNCHANGED <<app, dialog, submission, form, tasks, remote, history>>

\* Adding or editing, also while the dialog is open.  The success of a submission
\* whose dialog was cancelled closes the next one at once.
OpenWorklog ==
    /\ Settled
    /\ IF submission = "succeeded" THEN dialog' = "none" /\ submission' = "idle"
                                   ELSE dialog' = "form" /\ UNCHANGED submission
    /\ UNCHANGED <<app, open, preferences, form, tasks, remote, history>>

\* Reviewing a valid entry, and going back unless the submission is pending.
Turn ==
    /\ \/ dialog = "form" /\ dialog' = "review"
       \/ dialog = "review" /\ submission # "pending" /\ dialog' = "form"
    /\ UNCHANGED <<app, open, submission, preferences, form, tasks, remote, history>>

\* Escape and the cross wait for a pending submission and forget the last one; the
\* form's Cancel does neither.
CloseWorklog ==
    /\ \/ dialog # "none" /\ submission # "pending" /\ submission' = "idle"
       \/ dialog = "form" /\ UNCHANGED submission
    /\ dialog' = "none"
    /\ UNCHANGED <<app, open, preferences, form, tasks, remote, history>>

CloseError ==
    /\ Settled /\ app.failed
    /\ app' = Shown("connected", app.session)
    /\ UNCHANGED <<dialogs, form, tasks, remote, history>>

\* The reviewed entry is sent; the view stays as it is, a refresh goes on.
Submit(kind) ==
    /\ dialog = "review" /\ submission # "pending" /\ Asking
    /\ Start(Task(kind, None))
    /\ submission' = "pending"
    /\ UNCHANGED <<app, dialog, open, preferences, form, remote, latest, released, crossed>>

Delete ==
    /\ "delete" \in open
    /\ open' = open \ {"delete"}
    /\ Refresh(Task("delete", None))
    /\ UNCHANGED <<dialog, submission, preferences, form, remote, released, crossed>>

SavePreferences(choice) ==
    /\ "preferences" \in open /\ preferences # "pending"
    /\ Refresh([Task("configure", None) EXCEPT !.chosen = choice])
    /\ preferences' = "pending"
    /\ UNCHANGED <<dialog, open, submission, form, remote, released, crossed>>

\* Mutant: what was submitted last is not forgotten with the dialog.
LeavingHalf ==
    /\ dialog' = "none" /\ open' = {} /\ preferences' = "idle"
    /\ form' = NoForm
    /\ UNCHANGED submission

\* A view goes away with its dialogs.
Leaving ==
    /\ dialog' = "none" /\ open' = {} /\ submission' = "idle" /\ preferences' = "idle"
    /\ form' = NoForm

\* Mutant: what a dashboard started outlives it.
OwnedByAll == tasks

\* What a dashboard started is dropped with it (external: Dioxus ends the tasks of
\* a component that is removed) ...
OwnedByWindow == {t \in tasks : t.kind \notin FromDashboard}

\* ... but a change that was being sent may still reach Jira.
Adrift == adrift \cup {t.id : t \in {u \in tasks : u.kind \in Writers /\ u.phase = "looked"}}

\* disconnect() runs to its end before anything is shown.
Disconnect ==
    /\ "disconnect" \in open /\ Asking
    /\ \/ /\ saved' = None
          /\ app' = Shown("setup", None)
          /\ released' = TRUE
       \/ /\ app' = Failed(Shown("setup", None))
          /\ UNCHANGED <<saved, released>>
    /\ Leaving
    /\ tasks' = OwnedByWindow /\ adrift' = Adrift
    /\ asked' = asked + 1 /\ latest' = asked + 1
    /\ UNCHANGED <<jira, crossed>>

\* The import of the preferences, possible while they are being saved.  The
\* dashboard that starts the reload is the one the reload takes away.
ImportInPreferences ==
    /\ "preferences" \in open /\ Asking
    /\ app' = Shown("starting", None)
    /\ Leaving
    /\ tasks' = OwnedByWindow \cup {[Task("reload", None) EXCEPT !.fallback = None]}
    /\ adrift' = Adrift
    /\ asked' = asked + 1 /\ latest' = asked + 1
    /\ UNCHANGED <<saved, jira, released, crossed>>

\* The window is closed, or the program ends, at any moment, and is opened again;
\* what an import during a request brought back is what the new window begins with.
Restart ==
    /\ Asking
    /\ app' = Shown("starting", None)
    /\ Leaving
    /\ tasks' = {[Task("restore", None) EXCEPT !.fallback = None]}
    /\ adrift' = Adrift
    /\ asked' = asked + 1 /\ latest' = asked + 1
    /\ crossed' = FALSE
    /\ released' = (released /\ ~crossed)
    /\ UNCHANGED <<saved, jira>>

---------------------------------------------------------------------------
(* The tasks.                                                               *)

\* apply_configuration: maximum_report_period_days keeps its value.
Applied(request, chosen) == [request EXCEPT !.target = chosen.target]

\* The task reads the saved request; preferences are put on top of it.
Look(t) ==
    /\ t.phase = "asked" /\ t.kind # "connect"
    /\ Step(t, [t EXCEPT
         !.phase = IF saved # None THEN "looked"
                   ELSE IF t.kind \in Restores THEN "absent" ELSE "failed",
         !.request = IF saved # None /\ t.kind = "configure" THEN Applied(saved, t.chosen)
                                                             ELSE saved])
    /\ UNCHANGED <<app, dialogs, form, remote, history>>

\* The write reaches Jira; its answer may get lost.
Write(t) ==
    /\ t.phase = "looked" /\ t.kind \in Writers
    /\ jira' = jira \cup {t.id}
    /\ \E phase \in {"written", "failed"} : Step(t, [t EXCEPT !.phase = phase])
    /\ UNCHANGED <<app, dialogs, form, saved, adrift, history>>

\* Mutant: the report is loaded while the write is under way.
LoadEarly(t) ==
    /\ \/ t.phase = "asked" /\ t.kind = "connect"
       \/ t.phase \in {"looked", "written"}
    /\ Step(t, [t EXCEPT !.phase = "loaded", !.seen = jira])
    /\ UNCHANGED <<app, dialogs, form, remote, history>>

Load(t) ==
    /\ \/ t.phase = "asked" /\ t.kind = "connect"
       \/ t.phase = "looked" /\ t.kind \notin Writers
       \/ t.phase = "written"
    /\ Step(t, [t EXCEPT !.phase = "loaded", !.seen = jira])
    /\ UNCHANGED <<app, dialogs, form, remote, history>>

\* Invalid input, a refusal, a timeout, an unreadable answer.  A change that Jira
\* has confirmed stays committed when the report after it cannot be loaded.
Fail(t) ==
    /\ t.phase \in {"asked", "looked", "written"}
    /\ Step(t, [t EXCEPT !.phase = IF t.phase = "written" THEN "committed" ELSE "failed"])
    /\ UNCHANGED <<app, dialogs, form, remote, history>>

Loaded(t) == Shown("connected", [request |-> t.request, seen |-> t.seen])

\* Mutant: any refresh is taken for the current one.
IsAnyRefresh(t) == Refreshing

\* finish_refresh: only the request the view waits for is shown.
IsCurrent(t) == Refreshing /\ app.request = t.id

\* Mutant: an answer is shown whatever is asked for by now.
AnsweredAlways(t, next) == app' = next

\* Mutant: an answer that arrives behind a dialog is dropped.
AnsweredUncovered(t, next) == app' = IF IsCurrent(t) /\ open = {} THEN next ELSE app

Answered(t, next) == app' = IF IsCurrent(t) THEN next ELSE app

\* The view after an answer that is shown whatever is shown now.
Replace(t, next) ==
    /\ app' = next
    /\ IF app.view = next.view \/ (Dashboard /\ next.view = "connected")
       THEN UNCHANGED <<dialogs, form>> /\ tasks' = tasks \ {t} /\ adrift' = adrift
       ELSE Leaving /\ tasks' = OwnedByWindow \ {t} /\ adrift' = Adrift

\* connect_and_save persists before it shows; either may fail.
AnswerConnect(t) ==
    /\ t.kind = "connect"
    /\ \/ t.phase = "loaded" /\ saved' = t.request /\ Replace(t, Loaded(t))
       \/ /\ t.phase \in {"loaded", "failed"}
          /\ Replace(t, Failed(Shown("setup", None)))
          /\ saved' = saved
    /\ UNCHANGED jira

AnswerRestore(t) ==
    /\ t.kind \in Restores
    /\ \/ t.phase = "loaded" /\ Replace(t, Loaded(t))
       \/ t.phase = "absent" /\ Replace(t, Shown("setup", None))
       \/ t.phase = "failed" /\ Replace(t, Failed(Shown("setup", None)))
    /\ UNCHANGED <<saved, jira>>

AnswerPeriod(t) ==
    /\ t.kind = "period" /\ t.phase \in {"loaded", "failed"}
    /\ Answered(t, IF t.phase = "loaded" THEN Loaded(t)
                   ELSE Failed(Shown("connected", t.fallback)))
    /\ tasks' = tasks \ {t}
    /\ UNCHANGED <<dialogs, form, remote>>

\* mutation_state: a committed change whose refresh failed is told as an error.
Mutated(t) == IF t.phase = "loaded" THEN Loaded(t)
              ELSE Failed(Shown("connected", t.fallback))

AnswerDelete(t) ==
    /\ t.kind = "delete" /\ t.phase \in {"loaded", "committed", "failed"}
    /\ Answered(t, Mutated(t))
    /\ tasks' = tasks \ {t}
    /\ UNCHANGED <<dialogs, form, remote>>

\* update_configuration persists before it answers; the dialog closes on success.
AnswerPreferences(t) ==
    /\ t.kind = "configure"
    /\ \E done \in BOOLEAN :
         /\ t.phase = "loaded" \/ (t.phase = "failed" /\ ~done)
         /\ saved' = IF done THEN t.request ELSE saved
         /\ Answered(t, IF done THEN Loaded(t) ELSE Failed(Shown("connected", t.fallback)))
         /\ open' = IF done THEN open \ {"preferences"} ELSE open
         /\ preferences' = IF done THEN "idle" ELSE "failed"
    /\ tasks' = tasks \ {t}
    /\ UNCHANGED <<dialog, submission, form, jira, adrift>>

\* A worklog: the answer replaces whatever is shown and whatever is waited for.  An
\* open dialog closes when the change is committed, also if the report after it
\* could not be loaded.
AnswerWorklog(t) ==
    /\ t.kind \in Submissions /\ t.phase \in {"loaded", "committed", "failed"}
    /\ app' = Mutated(t)
    /\ IF t.phase = "failed" THEN submission' = "failed" /\ UNCHANGED dialog
       ELSE /\ submission' = IF dialog = "none" THEN "succeeded" ELSE "idle"
            /\ dialog' = "none"
    /\ tasks' = tasks \ {t}
    /\ UNCHANGED <<open, preferences, form, remote>>

Answer(t) ==
    /\ \/ AnswerConnect(t) \/ AnswerRestore(t) \/ AnswerPeriod(t)
       \/ AnswerDelete(t) \/ AnswerPreferences(t) \/ AnswerWorklog(t)
    /\ UNCHANGED history

\* The reload after an import may be dropped with the dashboard that started it.
Drop(t) ==
    /\ t.kind = "reload"
    /\ tasks' = tasks \ {t}
    /\ UNCHANGED <<app, dialogs, form, remote, history>>

\* A change sent by a dashboard that is gone reaches Jira, or does not.
Arrive(i) ==
    /\ i \in adrift
    /\ adrift' = adrift \ {i}
    /\ jira' \in {jira, jira \cup {i}}
    /\ UNCHANGED <<app, dialogs, form, tasks, saved, history>>

Progress(t) == Look(t) \/ Write(t) \/ Load(t) \/ Fail(t) \/ Answer(t)

Next ==
    \/ \E a \in Accounts : TypeAccount(a)
    \/ FindBoards \/ BoardsFound \/ ChooseBoard \/ Connect
    \/ Demo \/ LeaveDemo \/ ImportInSetup
    \/ ChangePeriod
    \/ \E other \in {"delete", "range", "preferences", "disconnect"} :
          Open(other) \/ Close(other)
    \/ OpenWorklog \/ Turn \/ CloseWorklog \/ CloseError
    \/ \E kind \in Submissions : Submit(kind)
    \/ Delete
    \/ \E choice \in Choices : SavePreferences(choice)
    \/ Disconnect \/ ImportInPreferences \/ Restart
    \/ \E t \in tasks : Progress(t) \/ Drop(t)
    \/ \E i \in adrift : Arrive(i)

Spec == Init /\ [][Next]_vars

\* Every request ends: reqwest gives up after request_timeout_seconds.
Fairness ==
    /\ WF_vars(BoardsFound)
    /\ \A i \in 1 .. MaxAsked : WF_vars(\E t \in tasks : t.id = i /\ Progress(t))

FairSpec == Spec /\ Fairness

---------------------------------------------------------------------------
(* Properties.                                                              *)

\* The answer of t is applied in this step: nothing is asked for in it.
Ended(t) == asked' = asked /\ \A u \in tasks' : u.id # t.id

\* Of all the requests that the view has waited for, only the answer of the last
\* one changes what is shown (finish_refresh).  The exceptions are the answer of a
\* submission, which is shown without that test (finish_worklog_submission), and
\* an import during a request.
LateAnswersIgnored ==
    [][\A t \in tasks : Ended(t) /\ app' # app
           => t.id = latest \/ t.kind \in Submissions \/ crossed]_vars

\* After a disconnection no request that was under way brings the account back
\* (update_configuration reads the saved request, waits, and persists it).
DisconnectHolds == released /\ ~crossed => saved = None

\* The list of worklogs does not go back to an older one, by a late answer or by
\* the session a failed request falls back to.  Only the answer of a submission
\* behind which another list was shown can take it back, and then not behind the
\* list it was sent from.
ShownMovesForward ==
    [][Dashboard /\ Dashboard' /\ ~crossed =>
           \/ app.session.seen \subseteq app'.session.seen
           \/ \E t \in tasks : /\ t.kind \in Submissions /\ Ended(t)
                              /\ t.fallback # app.session
                              /\ t.fallback.seen \subseteq app'.session.seen]_vars

\* What is shown without an error after a change holds the change, and the dialog
\* of a worklog closes by an answer only if Jira has made the change.
ReportedAsWritten ==
    [][\A t \in tasks : t.kind \in Writers /\ Ended(t) /\ Dashboard' =>
           /\ app' # app /\ ~app'.failed => t.id \in app'.session.seen
           /\ dialog # "none" /\ dialog' = "none" => t.id \in jira]_vars

\* A connection is asked for with a board that was found for this very account:
\* editing the account while or after the boards are looked for forgets them.
BoardWasDiscovered ==
    \A t \in tasks : t.kind = "connect" => t.request.board = t.request.account

\* The reload after an import was dropped with the dashboard that started it.
Abandoned == app.view = "starting" /\ tasks = {}

\* The window never stays busy: every request ends in a view that can be used.
NothingStaysBusy == Busy ~> (~Busy \/ Abandoned)

\* What the preferences dialog says was saved is what is saved, the report period
\* limit it edits included.
SavedPreferencesApplied ==
    [][\A t \in tasks : t.kind = "configure" /\ Ended(t) /\ Dashboard' /\ preferences' = "idle"
           => saved'.limit = t.chosen.limit]_vars
=============================================================================
