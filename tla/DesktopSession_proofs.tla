----------------------- MODULE DesktopSession_proofs -----------------------
(* For any accounts, any number of requests, any dialogs that are open at   *)
(* once and any order of the answers: what a window waits for, what its     *)
(* answers show, and what it tells of the changes that were made.           *)
EXTENDS DesktopSession, TLAPS

TaskFields == {"id", "kind", "request", "chosen", "fallback", "seen", "phase"}
IsTask(t)  == t = [f \in TaskFields |-> t[f]]
TasksTyped == \A t \in tasks : IsTask(t)

\* The requests that the view shows as a refresh.
Refreshes == {"period", "delete", "configure"}

---------------------------------------------------------------------------
(* The steps, by what they do to the requests: one is made, goes on or is   *)
(* over, the window is left, a change arrives, or the person looks around.  *)

PersonAsks ==
    \/ Connect \/ ChangePeriod \/ Delete
    \/ \E kind \in Submissions : Submit(kind)
    \/ \E choice \in Choices : SavePreferences(choice)

\* The steps of the form, of the views without a dashboard, and of the dialogs.
FormStep == (\E a \in Accounts : TypeAccount(a)) \/ FindBoards \/ BoardsFound \/ ChooseBoard
SetupStep == Demo \/ LeaveDemo \/ ImportInSetup
DialogStep ==
    \/ \E other \in {"delete", "range", "preferences", "disconnect"} : Open(other) \/ Close(other)
    \/ OpenWorklog \/ Turn \/ CloseWorklog
PersonLooks == FormStep \/ SetupStep \/ DialogStep \/ CloseError

GoesOn(t) == Look(t) \/ Write(t) \/ Load(t) \/ Fail(t)

LEMMA StepKinds ==
    ASSUME Next
    PROVE  \/ PersonAsks \/ PersonLooks
           \/ Disconnect \/ ImportInPreferences \/ Restart
           \/ \E t \in tasks : GoesOn(t)
           \/ \E t \in tasks : Answer(t) \/ Drop(t)
           \/ \E i \in adrift : Arrive(i)
BY DEF Next, PersonAsks, PersonLooks, FormStep, SetupStep, DialogStep, Progress, GoesOn

\* What a request is when it is made.
Fresh(n, kind) ==
    /\ IsTask(n) /\ n.id = asked + 1 /\ n.kind = kind
    /\ n.phase = "asked" /\ n.seen = {} /\ n.fallback = app.session

LEMMA FreshTasks ==
    ASSUME NEW kind, NEW request, NEW choice
    PROVE  /\ Fresh(Task(kind, request), kind) /\ Task(kind, request).kind = kind
           /\ Task(kind, request).request = request /\ Task(kind, request).chosen = None
           /\ [Task(kind, request) EXCEPT !.chosen = choice].kind = kind
           /\ Fresh([Task(kind, request) EXCEPT !.chosen = choice], kind)
           /\ [Task(kind, request) EXCEPT !.chosen = choice].request = request
           /\ [Task(kind, request) EXCEPT !.chosen = choice].chosen = choice
BY DEF Task, Fresh, IsTask, TaskFields

\* What the view, the dialogs and the history do when n is asked for.
ViewAsks(n) ==
    \/ /\ Connect /\ n.kind = "connect" /\ Idle
       /\ app'.view = "setup" /\ app'.loading /\ ~released' /\ latest' = asked + 1
       /\ UNCHANGED <<dialog, open, submission, preferences>>
    \/ /\ n.kind \in Submissions /\ Submit(n.kind)
       /\ dialog = "review" /\ submission # "pending" /\ submission' = "pending"
       /\ UNCHANGED <<app, dialog, open, preferences, latest, released>>
    \/ /\ n.kind \in Refreshes /\ (app.view = "connected" \/ open # {})
       /\ app'.view = "refreshing" /\ app'.session = app.session
       /\ app'.request = asked + 1 /\ latest' = asked + 1
       /\ open' \subseteq open /\ ("preferences" \in open => "preferences" \in open')
       /\ n.kind = "configure" => /\ "preferences" \in open /\ preferences # "pending"
                                  /\ preferences' = "pending"
       /\ n.kind # "configure" => preferences' = preferences
       /\ UNCHANGED <<dialog, submission, released>>

LEMMA Asks ==
    ASSUME PersonAsks
    PROVE  /\ asked' = asked + 1 /\ UNCHANGED <<saved, jira, adrift, crossed>>
           /\ \E n : tasks' = tasks \cup {n} /\ Fresh(n, n.kind) /\ ViewAsks(n)
<1>1. asked' = asked + 1 /\ UNCHANGED <<saved, jira, adrift, crossed>>
  BY DEF PersonAsks, Connect, ChangePeriod, Delete, Submit, SavePreferences, Refresh, Start,
         remote
<1>2. ASSUME NEW kind, NEW request
      PROVE  Fresh(Task(kind, request), kind) /\ Task(kind, request).kind = kind
  BY FreshTasks
<1>3. CASE Connect
  <2>1. PICK request : tasks' = tasks \cup {Task("connect", request)}
    BY <1>3 DEF Connect, Start
  <2>2. /\ Idle /\ app'.view = "setup" /\ app'.loading /\ ~released' /\ latest' = asked + 1
        /\ UNCHANGED <<dialog, open, submission, preferences>>
    BY <1>3 DEF Connect, Shown, dialogs
  <2>3. ViewAsks(Task("connect", request))
    BY <1>2, <1>3, <2>2 DEF ViewAsks
  <2>. QED
    BY <1>1, <1>2, <2>1, <2>3
<1>4. CASE ChangePeriod \/ Delete
  <2>1. PICK kind \in {"period", "delete"} : tasks' = tasks \cup {Task(kind, None)}
    BY <1>4 DEF ChangePeriod, Delete, Refresh, Start
  <2>2. /\ app.view = "connected" \/ open # {}
        /\ app'.view = "refreshing" /\ app'.session = app.session
        /\ app'.request = asked + 1 /\ latest' = asked + 1
        /\ open' \subseteq open /\ ("preferences" \in open => "preferences" \in open')
        /\ UNCHANGED <<dialog, submission, preferences, released>>
    BY <1>4 DEF ChangePeriod, Delete, Settled, Refresh, Shown
  <2>3. ViewAsks(Task(kind, None))
    BY <1>2, <2>1, <2>2 DEF ViewAsks, Refreshes
  <2>. QED
    BY <1>1, <1>2, <2>1, <2>3
<1>5. ASSUME NEW kind \in Submissions, Submit(kind)
      PROVE  \E n : tasks' = tasks \cup {n} /\ Fresh(n, n.kind) /\ ViewAsks(n)
  <2>1. tasks' = tasks \cup {Task(kind, None)}
    BY <1>5 DEF Submit, Start
  <2>2. /\ dialog = "review" /\ submission # "pending" /\ submission' = "pending"
        /\ UNCHANGED <<app, dialog, open, preferences, latest, released>>
    BY <1>5 DEF Submit
  <2>3. ViewAsks(Task(kind, None))
    BY <1>2, <1>5, <2>2 DEF ViewAsks
  <2>. QED
    BY <1>2, <2>1, <2>3
<1>6. ASSUME NEW choice \in Choices, SavePreferences(choice)
      PROVE  \E n : tasks' = tasks \cup {n} /\ Fresh(n, n.kind) /\ ViewAsks(n)
  <2>1. PICK n : /\ n = [Task("configure", None) EXCEPT !.chosen = choice]
                 /\ Fresh(n, "configure") /\ n.kind = "configure"
    <3>. DEFINE x == [Task("configure", None) EXCEPT !.chosen = choice]
    <3>1. Fresh(x, "configure") /\ x.kind = "configure"
      BY DEF Task, Fresh, IsTask, TaskFields
    <3>. QED
      BY <3>1
  <2>2. tasks' = tasks \cup {n}
    BY <1>6, <2>1 DEF SavePreferences, Refresh, Start
  <2>3. Fresh(n, "configure") /\ n.kind = "configure"
    BY <2>1
  <2>4. /\ "preferences" \in open /\ preferences # "pending" /\ preferences' = "pending"
        /\ app'.view = "refreshing" /\ app'.session = app.session
        /\ app'.request = asked + 1 /\ latest' = asked + 1
        /\ UNCHANGED <<dialog, open, submission, released>>
    BY <1>6 DEF SavePreferences, Refresh, Shown
  <2>5. ViewAsks(n)
    BY <2>3, <2>4 DEF ViewAsks, Refreshes
  <2>. QED
    BY <2>2, <2>3, <2>5
<1>. QED
  BY <1>1, <1>3, <1>4, <1>5, <1>6 DEF PersonAsks

LEMMA Looks ==
    ASSUME PersonLooks
    PROVE  /\ UNCHANGED <<tasks, saved, jira, adrift, asked, latest, released>>
           /\ \/ /\ FormStep /\ app.view = "setup"
                 /\ UNCHANGED <<app, dialog, open, submission, preferences, crossed>>
              \/ /\ SetupStep /\ app.view \in {"setup", "demo"} /\ app'.view \in {"setup", "demo"}
                 /\ app' = Shown(app'.view, None)
                 /\ ~crossed' => ~crossed /\ (tasks = {} \/ app.view = "demo" \/ ~app.loading)
                 /\ UNCHANGED <<dialog, open, submission, preferences>>
              \/ DialogStep /\ UNCHANGED <<app, form, crossed>>
              \/ /\ CloseError /\ app.view = "connected" /\ app' = Shown("connected", app.session)
                 /\ UNCHANGED <<dialog, open, submission, preferences, form, crossed>>
<1>1. CASE FormStep
  BY <1>1 DEF FormStep, TypeAccount, FindBoards, BoardsFound, ChooseBoard, Idle, dialogs, remote,
              history
<1>2. CASE SetupStep
  <2>1. ASSUME NEW view \in {"setup", "demo"}
        PROVE  Shown(view, None).view = view
    BY DEF Shown
  <2>2. /\ app.view \in {"setup", "demo"}
        /\ app' = Shown("setup", None) \/ app' = Shown("demo", None)
        /\ ~crossed' => ~crossed /\ (tasks = {} \/ app.view = "demo" \/ ~app.loading)
        /\ UNCHANGED <<tasks, saved, jira, adrift, asked, latest, released>>
        /\ UNCHANGED <<dialog, open, submission, preferences>>
    <3>1. CASE Demo
      BY <3>1 DEF Demo, Idle, dialogs, remote, history
    <3>2. CASE LeaveDemo
      BY <3>2 DEF LeaveDemo, dialogs, remote, history
    <3>3. CASE ImportInSetup
      BY <3>3 DEF ImportInSetup, dialogs, remote
    <3>. QED
      BY <1>2, <3>1, <3>2, <3>3 DEF SetupStep
  <2>. QED
    BY <1>2, <2>1, <2>2
<1>3. CASE DialogStep
  BY <1>3 DEF DialogStep, Open, Close, OpenWorklog, Turn, CloseWorklog, remote, history
<1>4. CASE CloseError
  BY <1>4 DEF CloseError, Settled, dialogs, remote, history
<1>. QED
  BY <1>1, <1>2, <1>3, <1>4 DEF PersonLooks

\* What a request becomes when it goes on.
Advances(t, u) ==
    \/ u.phase \in {"looked", "absent", "failed"} /\ u.seen = t.seen /\ jira' = jira
    \/ /\ t.kind \in Writers /\ u.phase \in {"written", "failed"}
       /\ u.seen = t.seen /\ jira' = jira \cup {t.id}
    \/ /\ u.phase = "loaded" /\ u.seen = jira /\ jira' = jira
       /\ t.kind \in Writers => t.phase = "written"
    \/ t.phase = "written" /\ u.phase = "committed" /\ u.seen = t.seen /\ jira' = jira

LEMMA GoesTo ==
    ASSUME NEW t \in tasks, IsTask(t), GoesOn(t)
    PROVE  /\ UNCHANGED <<app, dialog, open, submission, preferences, form, saved, adrift,
                          asked, latest, released, crossed>>
           /\ \E u : /\ tasks' = (tasks \ {t}) \cup {u} /\ IsTask(u)
                     /\ u.id = t.id /\ u.kind = t.kind /\ u.chosen = t.chosen
                     /\ u.fallback = t.fallback
                     /\ t.kind = "connect" => u.request = t.request
                     /\ saved = None /\ t.kind \in Restores
                          /\ t.phase \in {"asked", "absent", "failed"}
                        => u.phase \in {"absent", "failed"}
                     /\ Advances(t, u)
<1>1. UNCHANGED <<app, dialog, open, submission, preferences, form, saved, adrift,
                  asked, latest, released, crossed>>
  BY DEF GoesOn, Look, Write, Load, Fail, dialogs, remote, history
<1>2. CASE Look(t)
  <2>1. PICK p, r : /\ tasks' = (tasks \ {t}) \cup {[t EXCEPT !.phase = p, !.request = r]}
                    /\ p \in {"looked", "absent", "failed"} /\ jira' = jira
                    /\ t.kind # "connect" /\ (saved = None => p \in {"absent", "failed"})
    BY <1>2 DEF Look, Step, remote
  <2>2. LET u == [t EXCEPT !.phase = p, !.request = r]
        IN  /\ IsTask(u) /\ u.id = t.id /\ u.kind = t.kind /\ u.chosen = t.chosen
            /\ u.fallback = t.fallback /\ u.phase = p /\ u.seen = t.seen
    BY DEF IsTask, TaskFields
  <2>. QED
    BY <1>1, <2>1, <2>2 DEF Advances
<1>3. CASE Write(t) \/ Fail(t)
  <2>1. PICK p : /\ tasks' = (tasks \ {t}) \cup {[t EXCEPT !.phase = p]}
                 /\ \/ t.kind \in Writers /\ p \in {"written", "failed"}
                       /\ jira' = jira \cup {t.id}
                    \/ t.phase = "written" /\ p = "committed" /\ jira' = jira
                    \/ t.phase # "written" /\ p = "failed" /\ jira' = jira
    BY <1>3 DEF Write, Fail, Step, remote
  <2>2. LET u == [t EXCEPT !.phase = p]
        IN  /\ IsTask(u) /\ u.id = t.id /\ u.kind = t.kind /\ u.chosen = t.chosen
            /\ u.fallback = t.fallback /\ u.phase = p /\ u.seen = t.seen
            /\ u.request = t.request
    BY DEF IsTask, TaskFields
  <2>3. t.kind \in Writers => t.kind \notin Restores
    BY DEF Writers, Submissions, Restores
  <2>. QED
    BY <1>1, <2>1, <2>2, <2>3 DEF Advances
<1>4. CASE Load(t)
  <2>1. /\ tasks' = (tasks \ {t}) \cup {[t EXCEPT !.phase = "loaded", !.seen = jira]}
        /\ jira' = jira /\ (t.kind \in Writers => t.phase = "written")
        /\ t.phase = "asked" => t.kind = "connect"
        /\ t.phase \in {"asked", "looked", "written"}
    BY <1>4 DEF Load, Step, Writers, Submissions, remote
  <2>2. LET u == [t EXCEPT !.phase = "loaded", !.seen = jira]
        IN  /\ IsTask(u) /\ u.id = t.id /\ u.kind = t.kind /\ u.chosen = t.chosen
            /\ u.fallback = t.fallback /\ u.phase = "loaded" /\ u.seen = jira
            /\ u.request = t.request
    BY DEF IsTask, TaskFields
  <2>. QED
    BY <1>1, <2>1, <2>2 DEF Advances, Restores
<1>. QED
  BY <1>2, <1>3, <1>4 DEF GoesOn

\* How a request ends: its answer replaces what is shown, it is shown if the view
\* waits for it, it is shown in any case, or it is dropped.
Replaces(t) ==
    /\ t.kind = "connect" \/ t.kind \in Restores
    /\ saved' = saved \/ (t.kind = "connect" /\ t.phase = "loaded" /\ saved' = t.request)
    /\ \/ app' = Loaded(t) /\ t.phase = "loaded"
       \/ app' = Shown("setup", None) \/ app' = Failed(Shown("setup", None))
    /\ \/ /\ app.view = app'.view \/ (Dashboard /\ app'.view = "connected")
          /\ tasks' = tasks \ {t}
          /\ UNCHANGED <<dialog, open, submission, preferences, form, adrift>>
       \/ /\ ~(app.view = app'.view \/ (Dashboard /\ app'.view = "connected"))
          /\ Leaving /\ tasks' = OwnedByWindow \ {t} /\ adrift' = Adrift

Refreshed(t) ==
    /\ t.kind \in Refreshes /\ tasks' = tasks \ {t}
    /\ \/ app' = app
       \/ /\ IsCurrent(t)
          /\ \/ app' = Loaded(t) /\ t.phase = "loaded"
             \/ app' = Failed(Shown("connected", t.fallback))
    /\ UNCHANGED <<dialog, submission, form, adrift>>
    /\ IF t.kind = "configure"
       THEN \/ open' = open \ {"preferences"} /\ preferences' = "idle"
            \/ open' = open /\ preferences' = "failed"
       ELSE UNCHANGED <<open, preferences, saved>>

Submitted(t) ==
    /\ t.kind \in Submissions /\ t.phase \in {"loaded", "committed", "failed"}
    /\ tasks' = tasks \ {t}
    /\ \/ app' = Loaded(t) /\ t.phase = "loaded"
       \/ app' = Failed(Shown("connected", t.fallback)) /\ t.phase # "loaded"
    /\ IF t.phase = "failed" THEN submission' = "failed" /\ dialog' = dialog
       ELSE /\ submission' = IF dialog = "none" THEN "succeeded" ELSE "idle"
            /\ dialog' = "none"
    /\ UNCHANGED <<open, preferences, form, saved, adrift>>

Dropped(t) ==
    /\ t.kind = "reload" /\ tasks' = tasks \ {t}
    /\ UNCHANGED <<app, dialog, open, submission, preferences, form, saved, adrift>>

LEMMA IsOver ==
    ASSUME NEW t \in tasks, Answer(t) \/ Drop(t)
    PROVE  /\ UNCHANGED <<jira, asked, latest, released, crossed>>
           /\ Replaces(t) \/ Refreshed(t) \/ Submitted(t) \/ Dropped(t)
<1>1. ASSUME NEW next, Replace(t, next), t.kind = "connect" \/ t.kind \in Restores,
             saved' = saved \/ (t.kind = "connect" /\ t.phase = "loaded" /\ saved' = t.request),
             \/ next = Loaded(t) /\ t.phase = "loaded"
             \/ next = Shown("setup", None) \/ next = Failed(Shown("setup", None))
      PROVE  Replaces(t)
  BY <1>1 DEF Replace, Replaces, dialogs
<1>2. ASSUME AnswerConnect(t)
      PROVE  jira' = jira /\ Replaces(t)
  BY <1>1, <1>2 DEF AnswerConnect
<1>3. ASSUME AnswerRestore(t)
      PROVE  jira' = jira /\ Replaces(t)
  BY <1>1, <1>3 DEF AnswerRestore
<1>4. ASSUME AnswerPeriod(t) \/ AnswerDelete(t)
      PROVE  jira' = jira /\ Refreshed(t)
  BY <1>4 DEF AnswerPeriod, AnswerDelete, Answered, Mutated, Refreshed, Refreshes, dialogs, remote
<1>5. ASSUME AnswerPreferences(t)
      PROVE  jira' = jira /\ Refreshed(t)
  BY <1>5 DEF AnswerPreferences, Answered, Refreshed, Refreshes
<1>6. ASSUME AnswerWorklog(t)
      PROVE  jira' = jira /\ Submitted(t)
  BY <1>6 DEF AnswerWorklog, Mutated, Submitted, remote
<1>7. ASSUME Drop(t)
      PROVE  UNCHANGED <<jira, asked, latest, released, crossed>> /\ Dropped(t)
  BY <1>7 DEF Drop, Dropped, dialogs, remote, history
<1>8. ASSUME Answer(t)
      PROVE  UNCHANGED <<asked, latest, released, crossed>>
  BY <1>8 DEF Answer, history
<1>. QED
  BY <1>2, <1>3, <1>4, <1>5, <1>6, <1>7, <1>8 DEF Answer

\* How the window is left: by a disconnection, by an import, or for another window.
Leaves(kept) ==
    \/ /\ Disconnect /\ Dashboard /\ tasks' = kept /\ crossed' = crossed
       /\ app' = Shown("setup", None) \/ app' = Failed(Shown("setup", None))
       /\ \/ saved' = None /\ released'
          \/ saved' = saved /\ released' = released
    \/ /\ ImportInPreferences /\ Dashboard /\ UNCHANGED <<saved, released, crossed>>
       /\ app' = Shown("starting", None)
       /\ \E n : /\ tasks' = kept \cup {n} /\ IsTask(n) /\ n.id = asked + 1 /\ n.kind = "reload"
                 /\ n.phase = "asked" /\ n.seen = {} /\ n.request = None /\ n.chosen = None
                 /\ n.fallback = None
    \/ /\ Restart /\ ~crossed' /\ released' = (released /\ ~crossed) /\ saved' = saved
       /\ app' = Shown("starting", None)
       /\ \E n : /\ tasks' = {n} /\ IsTask(n) /\ n.id = asked + 1 /\ n.kind = "restore"
                 /\ n.phase = "asked" /\ n.seen = {} /\ n.request = None /\ n.chosen = None
                 /\ n.fallback = None

LEMMA IsLeft ==
    ASSUME Disconnect \/ ImportInPreferences \/ Restart, open # {} => Dashboard
    PROVE  /\ asked' = asked + 1 /\ latest' = asked + 1 /\ jira' = jira /\ Leaving
           /\ adrift' = Adrift /\ Leaves(OwnedByWindow)
<1>1. /\ asked' = asked + 1 /\ latest' = asked + 1 /\ jira' = jira /\ Leaving
      /\ adrift' = Adrift
  BY DEF Disconnect, ImportInPreferences, Restart
<1>2. ASSUME NEW kind
      PROVE  LET n == [Task(kind, None) EXCEPT !.fallback = None]
             IN  /\ IsTask(n) /\ n.id = asked + 1 /\ n.kind = kind
                 /\ n.phase = "asked" /\ n.seen = {} /\ n.request = None /\ n.chosen = None
                 /\ n.fallback = None
  BY DEF Task, IsTask, TaskFields
<1>3. CASE Disconnect
  BY <1>1, <1>3 DEF Disconnect, Leaves
<1>4. CASE ImportInPreferences
  <2>1. /\ Dashboard /\ UNCHANGED <<saved, released, crossed>> /\ app' = Shown("starting", None)
        /\ tasks' = OwnedByWindow \cup {[Task("reload", None) EXCEPT !.fallback = None]}
    BY <1>4 DEF ImportInPreferences
  <2>. QED
    BY <1>1, <1>2, <1>4, <2>1 DEF Leaves
<1>5. CASE Restart
  <2>1. /\ ~crossed' /\ released' = (released /\ ~crossed) /\ saved' = saved
        /\ app' = Shown("starting", None)
        /\ tasks' = {[Task("restore", None) EXCEPT !.fallback = None]}
    BY <1>5 DEF Restart
  <2>. QED
    BY <1>1, <1>2, <1>5, <2>1 DEF Leaves
<1>. QED
  BY <1>3, <1>4, <1>5

LEMMA Arrives ==
    ASSUME NEW i \in adrift, Arrive(i)
    PROVE  /\ adrift' = adrift \ {i} /\ jira' \in {jira, jira \cup {i}}
           /\ UNCHANGED <<app, dialog, open, submission, preferences, form, tasks, saved,
                          asked, latest, released, crossed>>
BY DEF Arrive, dialogs, history

LEMMA Stutters ==
    ASSUME UNCHANGED vars
    PROVE  UNCHANGED <<app, dialog, open, submission, preferences, form, tasks, saved, jira,
                       adrift, asked, latest, released, crossed>>
BY DEF vars, dialogs, remote, history

\* The views that steps lead to.
LEMMA Views ==
    /\ \A session : /\ Shown("connected", session).view = "connected"
                    /\ Shown("connected", session).session = session
                    /\ Failed(Shown("connected", session)).view = "connected"
                    /\ Failed(Shown("connected", session)).session = session
                    /\ Failed(Shown("connected", session)).failed
    /\ Shown("setup", None).view = "setup" /\ Failed(Shown("setup", None)).view = "setup"
    /\ Shown("starting", None).view = "starting"
    /\ \A t : /\ Loaded(t).view = "connected" /\ Loaded(t).session.seen = t.seen
              /\ ~Loaded(t).failed
BY DEF Shown, Failed, Loaded

---------------------------------------------------------------------------
(* The requests, the view and the dialogs agree.                            *)

Kinds == FromDashboard \cup {"connect"} \cup Restores

\* The requests are numbered in the order they were made.
Numbered ==
    /\ asked \in Nat
    /\ \A t \in tasks : t.kind \in Kinds /\ t.id \in Nat /\ t.id <= asked
    /\ \A t, u \in tasks : t.id = u.id => t = u

\* Each dialog and each submission belongs to a dashboard.
DialogsBelong ==
    /\ dialog # "none" => Dashboard /\ submission # "succeeded"
    /\ open # {} => Dashboard
    /\ submission # "idle" => Dashboard
    /\ preferences # "idle" => "preferences" \in open

\* A request of a dashboard is one of the dashboard that is shown, and what was
\* submitted is waited for by its dialog, whatever else is asked for behind it ...
Waits(t) ==
    /\ t.kind \in FromDashboard => Dashboard
    /\ t.kind \in Submissions => submission = "pending"
    /\ t.kind = "configure" => preferences = "pending"

\* ... so that at most one worklog, and one change of the preferences, is under way.
Alike(t, u) == \/ t.kind \in Submissions /\ u.kind \in Submissions
               \/ t.kind = "configure" /\ u.kind = "configure"
OneOfEach == \A t, u \in tasks : Alike(t, u) => t = u

\* A connection and a restored session are the last thing asked for: the views that
\* wait for them offer nothing else, but for an import during a request.
Begins(t) ==
    /\ t.kind = "connect" => app.view = "setup" /\ app.loading /\ ~released
    /\ t.kind \in Restores => app.view = "starting"
    /\ t.kind \notin FromDashboard => t.id = latest

\* After a disconnection nothing under way can find or make a saved request.
ReleasedHolds ==
    released => /\ saved = None /\ ~Dashboard
                /\ \A t \in tasks : t.kind \in Restores /\ t.phase \in {"asked", "absent", "failed"}

SessionInv ==
    /\ TasksTyped /\ Numbered
    /\ DialogsBelong /\ (\A t \in tasks : Waits(t)) /\ OneOfEach
    /\ Refreshing => app.request = latest
    /\ ~crossed => (\A t \in tasks : Begins(t)) /\ ReleasedHolds

LEMMA KindSets ==
    /\ Submissions \subseteq FromDashboard /\ Refreshes \subseteq FromDashboard
    /\ Submissions \cap Refreshes = {} /\ "configure" \in Refreshes
    /\ "connect" \notin FromDashboard /\ "connect" \notin Restores
    /\ Restores \cap FromDashboard = {} /\ FromDashboard = Submissions \cup Refreshes
    /\ "reload" \in Restores /\ "restore" \in Restores
    /\ FromDashboard \subseteq Kinds /\ "connect" \in Kinds /\ Restores \subseteq Kinds
BY DEF Submissions, FromDashboard, Writers, Refreshes, Restores, Kinds

LEMMA NumberedStep ==
    ASSUME TasksTyped, Numbered, DialogsBelong, [Next]_vars
    PROVE  TasksTyped' /\ Numbered'
<1>1. ASSUME tasks' \subseteq tasks, asked' \in {asked, asked + 1}
      PROVE  TasksTyped' /\ Numbered'
  BY <1>1 DEF TasksTyped, Numbered
<1>2. ASSUME NEW n, IsTask(n), n.kind \in Kinds, n.id = asked + 1, asked' = asked + 1,
             tasks' \subseteq tasks \cup {n}
      PROVE  TasksTyped' /\ Numbered'
  <2>1. asked' \in Nat /\ \A t \in tasks' : t.id \in Nat /\ t.id <= asked'
    BY <1>2 DEF Numbered
  <2>2. \A t \in tasks : t.id # n.id
    BY <1>2 DEF Numbered
  <2>. QED
    BY <1>2, <2>1, <2>2 DEF TasksTyped, Numbered
<1>3. CASE PersonAsks
  <2>1. PICK n : tasks' = tasks \cup {n} /\ Fresh(n, n.kind) /\ ViewAsks(n)
    BY <1>3, Asks
  <2>2. n.kind \in Kinds
    BY <2>1, KindSets DEF ViewAsks
  <2>. QED
    BY <1>2, <1>3, <2>1, <2>2, Asks DEF Fresh
<1>4. CASE PersonLooks
  BY <1>1, <1>4, Looks
<1>5. CASE Disconnect \/ ImportInPreferences \/ Restart
  <2>1. asked' = asked + 1 /\ Leaves(OwnedByWindow)
    BY <1>5, IsLeft DEF DialogsBelong
  <2>2. OwnedByWindow \subseteq tasks
    BY DEF OwnedByWindow
  <2>3. CASE tasks' = OwnedByWindow
    BY <1>1, <2>1, <2>2, <2>3
  <2>4. CASE \E n : /\ IsTask(n) /\ n.id = asked + 1 /\ n.kind \in {"reload", "restore"}
                    /\ tasks' \subseteq OwnedByWindow \cup {n}
    BY <1>2, <2>1, <2>2, <2>4, KindSets
  <2>. QED
    BY <2>1, <2>3, <2>4 DEF Leaves
<1>6. ASSUME NEW t \in tasks, GoesOn(t)
      PROVE  TasksTyped' /\ Numbered'
  BY <1>6, GoesTo DEF TasksTyped, Numbered
<1>7. ASSUME NEW t \in tasks, Answer(t) \/ Drop(t)
      PROVE  TasksTyped' /\ Numbered'
  <2>1. tasks' \subseteq tasks /\ asked' = asked
    BY <1>7, IsOver DEF Replaces, Refreshed, Submitted, Dropped, OwnedByWindow
  <2>. QED
    BY <1>1, <2>1
<1>8. ASSUME NEW i \in adrift, Arrive(i)
      PROVE  TasksTyped' /\ Numbered'
  BY <1>1, <1>8, Arrives
<1>9. CASE UNCHANGED vars
  BY <1>1, <1>9, Stutters
<1>. QED
  BY <1>3, <1>4, <1>5, <1>6, <1>7, <1>8, <1>9, StepKinds

\* The dialogs and their submissions change, the requests stay.
LEMMA DialogsTurn ==
    ASSUME DialogsBelong, DialogStep
    PROVE  /\ DialogsBelong'
           /\ submission = "pending" => submission' = "pending"
           /\ preferences = "pending" => preferences' = "pending"
<1>. app' = app
  BY DEF DialogStep, Open, Close, OpenWorklog, Turn, CloseWorklog
<1>1. ASSUME NEW other \in {"delete", "range", "preferences", "disconnect"}, Open(other)
      PROVE  /\ DialogsBelong' /\ UNCHANGED <<submission, preferences>>
  BY <1>1 DEF Open, DialogsBelong, Dashboard
<1>2. ASSUME NEW other \in {"delete", "range", "preferences", "disconnect"}, Close(other)
      PROVE  /\ DialogsBelong' /\ submission' = submission
             /\ preferences = "pending" => preferences' = "pending"
  <2>1. preferences' # "idle" => "preferences" \in open'
    BY <1>2 DEF Close, DialogsBelong
  <2>. QED
    BY <1>2, <2>1 DEF Close, DialogsBelong, Dashboard
<1>3. CASE OpenWorklog \/ Turn \/ CloseWorklog
  BY <1>3 DEF OpenWorklog, Settled, Turn, CloseWorklog, DialogsBelong, Dashboard
<1>. QED
  BY <1>1, <1>2, <1>3 DEF DialogStep

LEMMA DialogsStep ==
    ASSUME DialogsBelong, \A t \in tasks : Waits(t), [Next]_vars
    PROVE  DialogsBelong'
<1>1. ASSUME Leaving PROVE DialogsBelong'
  BY <1>1 DEF Leaving, DialogsBelong
<1>2. ASSUME UNCHANGED <<dialog, open, submission, preferences>>, Dashboard => Dashboard'
      PROVE  DialogsBelong'
  BY <1>2 DEF DialogsBelong
<1>3. CASE PersonAsks
  <2>1. PICK n : ViewAsks(n)
    BY <1>3, Asks
  <2>. QED
    BY <1>2, <2>1 DEF ViewAsks, DialogsBelong, Dashboard, Idle
<1>4. CASE PersonLooks
  <2>1. CASE FormStep \/ SetupStep \/ CloseError
    BY <1>2, <1>4, <2>1, Looks, Views, DialogsTurn DEF Dashboard
  <2>2. CASE DialogStep
    BY <2>2, DialogsTurn
  <2>. QED
    BY <1>4, <2>1, <2>2 DEF PersonLooks
<1>5. CASE Disconnect \/ ImportInPreferences \/ Restart
  BY <1>1, <1>5, IsLeft DEF DialogsBelong
<1>6. ASSUME NEW t \in tasks, GoesOn(t)
      PROVE  UNCHANGED <<app, dialog, open, submission, preferences>>
  BY <1>6 DEF GoesOn, Look, Write, Load, Fail, dialogs
<1>7. ASSUME NEW t \in tasks, Replaces(t)
      PROVE  DialogsBelong'
  BY <1>1, <1>2, <1>7 DEF Replaces, Dashboard
<1>8. ASSUME NEW t \in tasks, Refreshed(t)
      PROVE  DialogsBelong'
  <2>1. Dashboard => Dashboard'
    BY <1>8, Views DEF Refreshed, Dashboard
  <2>2. CASE t.kind = "configure"
    <3>1. Waits(t)
      OBVIOUS
    <3>2. open' \subseteq open /\ (preferences' # "idle" => "preferences" \in open')
      BY <1>8, <2>2, <3>1 DEF Refreshed, Waits, DialogsBelong
    <3>. QED
      BY <1>8, <2>1, <3>2 DEF Refreshed, DialogsBelong
  <2>3. CASE t.kind # "configure"
    BY <1>2, <1>8, <2>1, <2>3 DEF Refreshed
  <2>. QED
    BY <2>2, <2>3
<1>9. ASSUME NEW t \in tasks, Submitted(t)
      PROVE  DialogsBelong'
  <2>1. Dashboard'
    BY <1>9, Views DEF Submitted, Dashboard
  <2>2. open' = open /\ preferences' = preferences
    BY <1>9 DEF Submitted
  <2>3. dialog' # "none" => submission' # "succeeded"
    BY <1>9 DEF Submitted
  <2>. QED
    BY <2>1, <2>2, <2>3 DEF DialogsBelong
<1>10. ASSUME NEW t \in tasks, Answer(t) \/ Drop(t)
       PROVE  DialogsBelong'
  BY <1>2, <1>7, <1>8, <1>9, <1>10, IsOver DEF Dropped, Dashboard
<1>. QED
  BY <1>2, <1>3, <1>4, <1>5, <1>6, <1>10, StepKinds, Arrives, Stutters DEF Dashboard

LEMMA WaitsStep ==
    ASSUME SessionInv, [Next]_vars
    PROVE  (\A t \in tasks' : Waits(t)') /\ OneOfEach'
<1>. DialogsBelong /\ TasksTyped /\ (\A t \in tasks : Waits(t)) /\ OneOfEach
  BY DEF SessionInv
<1>1. ASSUME tasks' \subseteq tasks, Dashboard => Dashboard',
             submission = "pending" => submission' = "pending",
             preferences = "pending" => preferences' = "pending"
      PROVE  (\A t \in tasks' : Waits(t)') /\ OneOfEach'
  BY <1>1 DEF Waits, OneOfEach, Alike
<1>2. CASE PersonAsks
  <2>1. PICK n : tasks' = tasks \cup {n} /\ ViewAsks(n)
    BY <1>2, Asks
  <2>2. CASE n.kind = "connect" /\ Idle
    <3>1. ~Dashboard /\ n.kind \notin FromDashboard
      BY <2>2, KindSets DEF Idle, Dashboard
    <3>2. \A t \in tasks' : t.kind \notin FromDashboard
      BY <2>1, <3>1 DEF Waits
    <3>. QED
      BY <3>2, KindSets DEF Waits, OneOfEach, Alike
  <2>3. CASE n.kind \in Submissions
    <3>1. /\ Dashboard /\ Dashboard' /\ submission # "pending" /\ submission' = "pending"
          /\ preferences' = preferences
      BY <2>1, <2>3, KindSets DEF ViewAsks, DialogsBelong, Dashboard
    <3>2. \A t \in tasks : t.kind \notin Submissions
      BY <3>1 DEF Waits
    <3>3. n.kind # "configure"
      BY <2>3, KindSets
    <3>4. \A t \in tasks' : Waits(t)'
      BY <2>1, <3>1, <3>3 DEF Waits
    <3>5. OneOfEach'
      BY <2>1, <3>2, <3>3 DEF OneOfEach, Alike
    <3>. QED
      BY <3>4, <3>5
  <2>4. CASE n.kind \in Refreshes
    <3>1. /\ Dashboard' /\ submission' = submission
          /\ n.kind = "configure" => preferences # "pending" /\ preferences' = "pending"
          /\ n.kind # "configure" => preferences' = preferences
      BY <2>1, <2>4, KindSets DEF ViewAsks, Dashboard
    <3>2. n.kind = "configure" => \A t \in tasks : t.kind # "configure"
      BY <3>1 DEF Waits
    <3>3. n.kind \notin Submissions
      BY <2>4, KindSets
    <3>4. \A t \in tasks' : Waits(t)'
      BY <2>1, <3>1, <3>3 DEF Waits
    <3>5. OneOfEach'
      BY <2>1, <3>2, <3>3 DEF OneOfEach, Alike
    <3>. QED
      BY <3>4, <3>5
  <2>. QED
    BY <2>1, <2>2, <2>3, <2>4 DEF ViewAsks
<1>3. CASE PersonLooks
  <2>1. tasks' = tasks
    BY <1>3, Looks
  <2>2. CASE FormStep
    BY <1>1, <1>3, <2>1, <2>2, Looks DEF Dashboard, FormStep, TypeAccount, FindBoards,
       BoardsFound, ChooseBoard, dialogs
  <2>3. CASE SetupStep
    <3>1. ~Dashboard
      BY <2>3 DEF SetupStep, Demo, LeaveDemo, ImportInSetup, Idle, Dashboard
    <3>2. UNCHANGED <<submission, preferences>>
      BY <2>3 DEF SetupStep, Demo, LeaveDemo, ImportInSetup, dialogs
    <3>. QED
      BY <1>1, <2>1, <3>1, <3>2
  <2>4. CASE DialogStep
    <3>1. app' = app
      BY <2>4 DEF DialogStep, Open, Close, OpenWorklog, Turn, CloseWorklog
    <3>. QED
      BY <1>1, <2>1, <2>4, <3>1, DialogsTurn DEF Dashboard
  <2>5. CASE CloseError
    BY <1>1, <2>1, <2>5, Views DEF CloseError, Dashboard, dialogs
  <2>. QED
    BY <1>3, <2>2, <2>3, <2>4, <2>5 DEF PersonLooks
<1>4. CASE Disconnect \/ ImportInPreferences \/ Restart
  <2>1. Leaves(OwnedByWindow)
    BY <1>4, IsLeft DEF DialogsBelong
  <2>2. \A t \in tasks' : t.kind \notin FromDashboard
    BY <2>1, KindSets DEF Leaves, OwnedByWindow
  <2>. QED
    BY <2>2, KindSets DEF Waits, OneOfEach, Alike
<1>5. ASSUME NEW t \in tasks, GoesOn(t)
      PROVE  (\A x \in tasks' : Waits(x)') /\ OneOfEach'
  <2>1. UNCHANGED <<app, submission, preferences>>
    BY <1>5, GoesTo DEF TasksTyped
  <2>2. PICK u : tasks' = (tasks \ {t}) \cup {u} /\ u.kind = t.kind
    BY <1>5, GoesTo DEF TasksTyped
  <2>3. \A x \in tasks' : Waits(x)'
    BY <2>1, <2>2 DEF Waits, Dashboard
  <2>4. OneOfEach'
    BY <2>2 DEF OneOfEach, Alike
  <2>. QED
    BY <2>3, <2>4
<1>6. ASSUME NEW t \in tasks, Replaces(t)
      PROVE  (\A x \in tasks' : Waits(x)') /\ OneOfEach'
  <2>1. CASE /\ app.view = app'.view \/ (Dashboard /\ app'.view = "connected")
             /\ tasks' = tasks \ {t}
             /\ UNCHANGED <<dialog, open, submission, preferences, form, adrift>>
    <3>1. Dashboard => Dashboard'
      BY <2>1 DEF Dashboard
    <3>. QED
      BY <1>1, <2>1, <3>1
  <2>2. CASE tasks' = OwnedByWindow \ {t}
    <3>1. \A x \in tasks' : x.kind \notin FromDashboard
      BY <2>2 DEF OwnedByWindow
    <3>. QED
      BY <3>1, KindSets DEF Waits, OneOfEach, Alike
  <2>. QED
    BY <1>6, <2>1, <2>2 DEF Replaces
<1>7. ASSUME NEW t \in tasks, Refreshed(t)
      PROVE  (\A x \in tasks' : Waits(x)') /\ OneOfEach'
  <2>1. Dashboard'
    BY <1>7, Views, KindSets DEF Refreshed, Dashboard, Waits
  <2>2. tasks' = tasks \ {t} /\ submission' = submission
    BY <1>7 DEF Refreshed
  <2>3. CASE t.kind = "configure"
    <3>1. \A x \in tasks' : x.kind # "configure"
      BY <2>2, <2>3 DEF OneOfEach, Alike
    <3>. QED
      BY <2>1, <2>2, <3>1 DEF Waits, OneOfEach, Alike
  <2>4. CASE t.kind # "configure"
    BY <1>1, <1>7, <2>1, <2>2, <2>4 DEF Refreshed
  <2>. QED
    BY <2>3, <2>4
<1>8. ASSUME NEW t \in tasks, Submitted(t)
      PROVE  (\A x \in tasks' : Waits(x)') /\ OneOfEach'
  <2>1. Dashboard'
    BY <1>8, Views DEF Submitted, Dashboard
  <2>2. tasks' = tasks \ {t} /\ preferences' = preferences /\ t.kind \in Submissions
    BY <1>8 DEF Submitted
  <2>3. \A x \in tasks' : x.kind \notin Submissions
    BY <2>2 DEF OneOfEach, Alike
  <2>. QED
    BY <2>1, <2>2, <2>3 DEF Waits, OneOfEach, Alike
<1>9. ASSUME NEW t \in tasks, Answer(t) \/ Drop(t)
      PROVE  (\A x \in tasks' : Waits(x)') /\ OneOfEach'
  <2>1. ASSUME Dropped(t)
        PROVE  (\A x \in tasks' : Waits(x)') /\ OneOfEach'
    BY <1>1, <2>1 DEF Dropped, Dashboard
  <2>. QED
    BY <1>6, <1>7, <1>8, <1>9, <2>1, IsOver
<1>10. ASSUME \/ \E i \in adrift : Arrive(i)
              \/ UNCHANGED vars
       PROVE  (\A x \in tasks' : Waits(x)') /\ OneOfEach'
  BY <1>1, <1>10, Arrives, Stutters DEF Dashboard
<1>. QED
  BY <1>2, <1>3, <1>4, <1>5, <1>9, <1>10, StepKinds

\* The view waits for the last of the requests it shows as a refresh.
LEMMA CurrentStep ==
    ASSUME SessionInv, [Next]_vars
    PROVE  (Refreshing => app.request = latest)'
<1>. DialogsBelong /\ TasksTyped /\ (Refreshing => app.request = latest)
  BY DEF SessionInv
<1>1. CASE PersonAsks
  <2>1. PICK n : ViewAsks(n)
    BY <1>1, Asks
  <2>. QED
    BY <2>1 DEF ViewAsks, Refreshing
<1>2. CASE PersonLooks
  BY <1>2, Looks, Views DEF Refreshing
<1>3. CASE Disconnect \/ ImportInPreferences \/ Restart
  <2>1. Leaves(OwnedByWindow)
    BY <1>3, IsLeft DEF DialogsBelong
  <2>. QED
    BY <2>1, Views DEF Leaves, Refreshing
<1>4. ASSUME NEW t \in tasks, GoesOn(t)
      PROVE  UNCHANGED <<app, latest>>
  BY <1>4, GoesTo DEF TasksTyped
<1>5. ASSUME NEW t \in tasks, Answer(t) \/ Drop(t)
      PROVE  latest' = latest /\ (app' = app \/ ~Refreshing')
  BY <1>5, IsOver, Views DEF Replaces, Refreshed, Submitted, Dropped, Refreshing
<1>. QED
  BY <1>1, <1>2, <1>3, <1>4, <1>5, StepKinds, Arrives, Stutters DEF Refreshing

\* What is under way in a view without a dashboard is what the view waits for.
LEMMA BeginsStep ==
    ASSUME SessionInv, [Next]_vars, ~crossed'
    PROVE  (\A t \in tasks' : Begins(t)') /\ ReleasedHolds'
<1>. DEFINE Goal == (\A t \in tasks' : Begins(t)') /\ ReleasedHolds'
<1>. /\ DialogsBelong /\ TasksTyped /\ Numbered /\ (\A t \in tasks : Waits(t))
     /\ ~crossed => (\A t \in tasks : Begins(t)) /\ ReleasedHolds
  BY DEF SessionInv
<1>1. ASSUME tasks' \subseteq tasks, UNCHANGED <<app, latest, released, saved>>, ~crossed
      PROVE  Goal
  BY <1>1 DEF Begins, ReleasedHolds, Dashboard
<1>2. ASSUME \A t \in tasks' : t.kind \in FromDashboard, ~released'
      PROVE  Goal
  BY <1>2, KindSets DEF Begins, ReleasedHolds
<1>3. ASSUME ~crossed, Dashboard
      PROVE  (\A t \in tasks : t.kind \in FromDashboard) /\ ~released
  BY <1>3, KindSets DEF Begins, Dashboard, ReleasedHolds, Numbered, Kinds
<1>4. ASSUME ~crossed, app.view \in {"setup", "demo"}, app.view = "demo" \/ ~app.loading
      PROVE  tasks = {}
  BY <1>4, KindSets DEF Begins, Waits, Dashboard, Numbered, Kinds
<1>5. CASE PersonAsks
  <2>1. PICK n : tasks' = tasks \cup {n} /\ Fresh(n, n.kind) /\ ViewAsks(n)
    BY <1>5, Asks
  <2>2. ~crossed
    BY <1>5, Asks
  <2>3. CASE n.kind = "connect" /\ Idle /\ Connect
    <3>1. tasks' = {n}
      BY <1>4, <2>1, <2>2, <2>3 DEF Idle
    <3>2. app'.view = "setup" /\ app'.loading /\ ~released' /\ latest' = asked + 1
      BY <2>3 DEF Connect, Shown
    <3>. QED
      BY <2>1, <2>3, <3>1, <3>2, KindSets DEF Begins, ReleasedHolds, Fresh
  <2>4. CASE n.kind \in FromDashboard
    <3>1. Dashboard /\ released' = released
      BY <2>1, <2>4, KindSets DEF ViewAsks, DialogsBelong, Dashboard
    <3>. QED
      BY <1>2, <1>3, <2>1, <2>2, <2>4, <3>1
  <2>. QED
    BY <2>1, <2>3, <2>4, KindSets DEF ViewAsks
<1>6. CASE PersonLooks
  <2>1. UNCHANGED <<tasks, saved, latest, released>>
    BY <1>6, Looks
  <2>2. CASE UNCHANGED <<app, crossed>>
    BY <1>1, <2>1, <2>2
  <2>3. CASE /\ app.view \in {"setup", "demo"} /\ app'.view \in {"setup", "demo"} /\ ~crossed
             /\ tasks = {} \/ app.view = "demo" \/ ~app.loading
    <3>1. tasks' = {}
      BY <1>4, <2>1, <2>3
    <3>. QED
      BY <2>1, <2>3, <3>1 DEF ReleasedHolds, Dashboard
  <2>4. CASE app.view = "connected" /\ crossed' = crossed
    BY <1>2, <1>3, <2>1, <2>4 DEF Dashboard
  <2>. QED
    BY <1>6, <2>2, <2>3, <2>4, Looks
<1>7. CASE Disconnect \/ ImportInPreferences \/ Restart
  <2>1. Leaves(OwnedByWindow) /\ latest' = asked + 1
    BY <1>7, IsLeft DEF DialogsBelong
  <2>2. ASSUME Dashboard, ~crossed
        PROVE  OwnedByWindow = {} /\ ~released
    BY <1>3, <2>2 DEF OwnedByWindow
  <2>3. CASE Disconnect
    <3>1. /\ Dashboard /\ tasks' = OwnedByWindow /\ crossed' = crossed
          /\ app' = Shown("setup", None) \/ app' = Failed(Shown("setup", None))
          /\ saved' = None \/ released' = released
      BY <2>3 DEF Disconnect, DialogsBelong
    <3>. QED
      BY <2>2, <3>1, Views DEF Begins, ReleasedHolds, Dashboard
  <2>4. CASE ImportInPreferences
    <3>1. ASSUME Dashboard, UNCHANGED <<released, crossed>>,
                 app' = Shown("starting", None), NEW n, tasks' = OwnedByWindow \cup {n},
                 n.id = asked + 1, n.kind = "reload"
          PROVE  Goal
      <4>1. tasks' = {n} /\ ~released'
        BY <2>2, <3>1
      <4>2. Begins(n)'
        BY <2>1, <3>1, Views, KindSets DEF Begins
      <4>. QED
        BY <4>1, <4>2 DEF ReleasedHolds
    <3>4. /\ Dashboard /\ UNCHANGED <<released, crossed>> /\ app' = Shown("starting", None)
      BY <2>4 DEF ImportInPreferences, DialogsBelong
    <3>5. PICK n : tasks' = OwnedByWindow \cup {n} /\ n.id = asked + 1 /\ n.kind = "reload"
      <4>. DEFINE x == [Task("reload", None) EXCEPT !.fallback = None]
      <4>1. x.id = asked + 1 /\ x.kind = "reload"
        BY DEF Task
      <4>. QED
        BY <2>4, <4>1 DEF ImportInPreferences
    <3>. QED
      BY <3>1, <3>4, <3>5
  <2>5. CASE Restart
    <3>1. /\ released' = (released /\ ~crossed) /\ saved' = saved
          /\ app' = Shown("starting", None)
      BY <2>5 DEF Restart
    <3>2. PICK n : tasks' = {n} /\ n.id = asked + 1 /\ n.kind = "restore" /\ n.phase = "asked"
      <4>. DEFINE x == [Task("restore", None) EXCEPT !.fallback = None]
      <4>1. x.id = asked + 1 /\ x.kind = "restore" /\ x.phase = "asked"
        BY DEF Task
      <4>. QED
        BY <2>5, <4>1 DEF Restart
    <3>3. Begins(n)'
      BY <2>1, <3>1, <3>2, Views, KindSets DEF Begins
    <3>4. released' => saved' = None
      BY <3>1 DEF ReleasedHolds
    <3>5. ~Dashboard'
      BY <3>1, Views DEF Dashboard
    <3>. QED
      BY <3>2, <3>3, <3>4, <3>5, KindSets DEF ReleasedHolds
  <2>. QED
    BY <1>7, <2>3, <2>4, <2>5
<1>8. ASSUME NEW t \in tasks, GoesOn(t)
      PROVE  Goal
  <2>. IsTask(t)
    BY DEF TasksTyped
  <2>1. UNCHANGED <<app, saved, latest, released, crossed>>
    BY <1>8, GoesTo
  <2>2. PICK u : /\ tasks' = (tasks \ {t}) \cup {u} /\ u.id = t.id /\ u.kind = t.kind
                 /\ saved = None /\ t.kind \in Restores
                      /\ t.phase \in {"asked", "absent", "failed"}
                    => u.phase \in {"absent", "failed"}
    BY <1>8, GoesTo
  <2>3. \A x \in tasks' : Begins(x)'
    BY <2>1, <2>2 DEF Begins
  <2>4. ReleasedHolds'
    BY <2>1, <2>2 DEF ReleasedHolds, Dashboard
  <2>. QED
    BY <2>3, <2>4
<1>9. ASSUME NEW t \in tasks, Replaces(t), ~crossed, released' = released
      PROVE  Goal
  <2>1. t.kind \notin FromDashboard /\ ~Dashboard
    BY <1>9, KindSets DEF Replaces, Begins, Dashboard
  <2>2. \A x \in tasks : x.id = latest
    BY <1>9, <2>1 DEF Waits, Begins
  <2>3. tasks' = {}
    BY <1>9, <2>2 DEF Numbered, Replaces, OwnedByWindow
  <2>4. released => saved' = None /\ ~Dashboard'
    BY <1>9, KindSets, Views DEF Replaces, ReleasedHolds, Dashboard
  <2>. QED
    BY <1>9, <2>3, <2>4 DEF ReleasedHolds
<1>10. ASSUME NEW t \in tasks, Answer(t) \/ Drop(t)
       PROVE  Goal
  <2>1. ~crossed /\ UNCHANGED <<latest, released>>
    BY <1>10, IsOver
  <2>2. CASE Refreshed(t) \/ Submitted(t)
    <3>1. t.kind \in FromDashboard /\ tasks' = tasks \ {t}
      BY <2>2, KindSets DEF Refreshed, Submitted
    <3>. QED
      BY <1>2, <1>3, <2>1, <3>1 DEF Waits
  <2>3. CASE Dropped(t)
    BY <1>1, <2>1, <2>3 DEF Dropped
  <2>. QED
    BY <1>9, <1>10, <2>1, <2>2, <2>3, IsOver
<1>11. ASSUME \/ \E i \in adrift : Arrive(i)
              \/ UNCHANGED vars
       PROVE  Goal
  BY <1>1, <1>11, Arrives, Stutters
<1>. QED
  BY <1>5, <1>6, <1>7, <1>8, <1>10, <1>11, StepKinds

LEMMA SessionStep ==
    ASSUME SessionInv, [Next]_vars
    PROVE  SessionInv'
<1>. TasksTyped /\ Numbered /\ DialogsBelong /\ \A t \in tasks : Waits(t)
  BY DEF SessionInv
<1>1. TasksTyped' /\ Numbered'
  BY NumberedStep
<1>2. DialogsBelong'
  BY DialogsStep
<1>3. (\A t \in tasks' : Waits(t)') /\ OneOfEach'
  BY WaitsStep
<1>4. (Refreshing => app.request = latest)'
  BY CurrentStep
<1>5. ~crossed' => (\A t \in tasks' : Begins(t)') /\ ReleasedHolds'
  BY BeginsStep
<1>. QED
  BY <1>1, <1>2, <1>3, <1>4, <1>5 DEF SessionInv

LEMMA SessionStart ==
    ASSUME Init
    PROVE  SessionInv
<1>. DEFINE first == [id |-> 1, kind |-> "restore", request |-> None, chosen |-> None,
                      fallback |-> None, seen |-> {}, phase |-> "asked"]
<1>1. tasks = {first} /\ IsTask(first) /\ first.id = 1 /\ first.kind = "restore"
  BY DEF Init, IsTask, TaskFields
<1>2. app.view = "starting" /\ ~Dashboard /\ ~Refreshing
  BY Views DEF Init, Dashboard, Refreshing
<1>3. /\ asked = 1 /\ latest = 1 /\ ~released /\ dialog = "none" /\ open = {}
      /\ submission = "idle" /\ preferences = "idle"
  BY DEF Init
<1>4. TasksTyped /\ Numbered
  BY <1>1, <1>3, KindSets DEF TasksTyped, Numbered
<1>5. DialogsBelong
  BY <1>3 DEF DialogsBelong
<1>6. (\A t \in tasks : Waits(t)) /\ OneOfEach
  BY <1>1, KindSets DEF Waits, OneOfEach, Alike
<1>7. (\A t \in tasks : Begins(t)) /\ ReleasedHolds
  BY <1>1, <1>2, <1>3, KindSets DEF Begins, ReleasedHolds
<1>. QED
  BY <1>2, <1>4, <1>5, <1>6, <1>7 DEF SessionInv

\* Every request of a dashboard is one of the dashboard that is shown, a pending
\* submission of a worklog or of the preferences is the only one of its kind, whatever
\* else the keyboard starts behind its dialog, and a refresh waits for the last request
\* that was asked for.  Unless a profile was
\* imported meanwhile, connecting and restoring are never overtaken, and after a
\* disconnection nothing saved is left for a request to bring back.
THEOREM SessionIsConsistent == Spec => []SessionInv
<1>. QED
  BY SessionStart, SessionStep, PTL DEF Spec

\* After a disconnection no request that was under way saves the account again
\* (connection.rs, disconnect and update_configuration).
THEOREM DisconnectionsHold == Spec => []DisconnectHolds
<1>1. SessionInv => DisconnectHolds
  BY DEF SessionInv, ReleasedHolds, DisconnectHolds
<1>. QED
  BY <1>1, SessionIsConsistent, PTL

---------------------------------------------------------------------------
(* The boards.                                                              *)

FormFields == {"account", "boards", "board", "finding"}

\* What the form offers was found for the account it shows.
FormAgrees ==
    /\ form = [f \in FormFields |-> form[f]]
    /\ form.boards # None => form.boards = form.account
    /\ form.board # None => form.board = form.account

LEMMA EmptyForm == /\ NoForm = [f \in FormFields |-> NoForm[f]]
                   /\ NoForm.boards = None /\ NoForm.board = None
BY DEF NoForm, FormFields

\* A step of the form, or one that clears it.
LEMMA FormSteps ==
    ASSUME FormAgrees,
           \/ form' = form
           \/ form' = NoForm
           \/ \E a \in Accounts : TypeAccount(a)
           \/ FindBoards \/ BoardsFound \/ ChooseBoard
    PROVE  FormAgrees'
<1>1. CASE form' = form
  BY <1>1 DEF FormAgrees
<1>2. CASE form' = NoForm
  BY <1>2, EmptyForm DEF FormAgrees
<1>3. ASSUME NEW a \in Accounts, TypeAccount(a) PROVE FormAgrees'
  BY <1>3 DEF TypeAccount, FormAgrees, FormFields
<1>4. CASE FindBoards
  BY <1>4 DEF FindBoards, FormAgrees, FormFields
<1>5. CASE BoardsFound
  BY <1>5 DEF BoardsFound, FormAgrees, FormFields
<1>6. CASE ChooseBoard
  BY <1>6 DEF ChooseBoard, FormAgrees, FormFields
<1>. QED
  BY <1>1, <1>2, <1>3, <1>4, <1>5, <1>6

\* Every step leaves the form, clears it, or is one of its own.
LEMMA FormChanges ==
    ASSUME [Next]_vars
    PROVE  \/ form' = form
           \/ form' = NoForm
           \/ \E a \in Accounts : TypeAccount(a)
           \/ FindBoards \/ BoardsFound \/ ChooseBoard
<1>1. ASSUME PersonAsks
      PROVE  form' = form
  BY <1>1 DEF PersonAsks, Connect, ChangePeriod, Delete, Submit, SavePreferences
<1>2. ASSUME SetupStep \/ DialogStep \/ CloseError
      PROVE  form' = form \/ form' = NoForm
  BY <1>2 DEF SetupStep, Demo, LeaveDemo, ImportInSetup, CloseError, DialogStep, Open, Close,
              OpenWorklog, Turn, CloseWorklog
<1>3. ASSUME Disconnect \/ ImportInPreferences \/ Restart
      PROVE  form' = NoForm
  BY <1>3 DEF Disconnect, ImportInPreferences, Restart, Leaving
<1>4. ASSUME NEW t \in tasks, GoesOn(t)
      PROVE  form' = form
  BY <1>4 DEF GoesOn, Look, Write, Load, Fail
<1>5. ASSUME NEW t \in tasks, Answer(t) \/ Drop(t)
      PROVE  form' = form \/ form' = NoForm
  BY <1>5, IsOver DEF Replaces, Refreshed, Submitted, Dropped, Leaving
<1>. QED
  BY <1>1, <1>2, <1>3, <1>4, <1>5, StepKinds, Arrives, Stutters DEF PersonLooks, FormStep

\* The requests to connect: one that is made names a board of the form, and no other
\* step makes one or changes what it asks for.
LEMMA BoardsStep ==
    ASSUME SessionInv, FormAgrees, BoardWasDiscovered, [Next]_vars
    PROVE  BoardWasDiscovered'
<1>. TasksTyped /\ DialogsBelong
  BY DEF SessionInv
<1>1. ASSUME \A x \in tasks' : x \in tasks \/ x.kind # "connect"
      PROVE  BoardWasDiscovered'
  BY <1>1 DEF BoardWasDiscovered
<1>2. CASE PersonAsks
  <2>1. CASE Connect
    <3>. DEFINE r(target, limit) == [account |-> form.account, board |-> form.board,
                                     target |-> target, limit |-> limit]
    <3>1. PICK target \in Targets, limit \in Limits :
            tasks' = tasks \cup {Task("connect", r(target, limit))}
      BY <2>1 DEF Connect, Start
    <3>2. r(target, limit).board = r(target, limit).account
      BY <2>1 DEF Connect, FormAgrees
    <3>3. Task("connect", r(target, limit)).request = r(target, limit)
      BY DEF Task
    <3>. QED
      BY <3>1, <3>2, <3>3 DEF BoardWasDiscovered
  <2>2. CASE ChangePeriod \/ Delete \/ \E kind \in Submissions : Submit(kind)
    <3>1. PICK kind \in FromDashboard : tasks' = tasks \cup {Task(kind, None)}
      BY <2>2, KindSets DEF ChangePeriod, Delete, Submit, Refresh, Start, Refreshes
    <3>2. Task(kind, None).kind = kind
      BY DEF Task
    <3>. QED
      BY <1>1, <3>1, <3>2, KindSets
  <2>3. CASE \E choice \in Choices : SavePreferences(choice)
    <3>1. PICK choice : tasks' = tasks \cup {[Task("configure", None) EXCEPT !.chosen = choice]}
      BY <2>3 DEF SavePreferences, Refresh, Start
    <3>2. [Task("configure", None) EXCEPT !.chosen = choice].kind = "configure"
      BY DEF Task
    <3>. QED
      BY <1>1, <3>1, <3>2
  <2>. QED
    BY <1>2, <2>1, <2>2, <2>3 DEF PersonAsks
<1>3. CASE PersonLooks
  BY <1>1, <1>3, Looks
<1>4. CASE Disconnect \/ ImportInPreferences \/ Restart
  BY <1>1, <1>4, IsLeft DEF DialogsBelong, Leaves, OwnedByWindow
<1>5. ASSUME NEW t \in tasks, GoesOn(t)
      PROVE  BoardWasDiscovered'
  <2>1. PICK u : /\ tasks' = (tasks \ {t}) \cup {u} /\ u.kind = t.kind
                 /\ t.kind = "connect" => u.request = t.request
    BY <1>5, GoesTo DEF TasksTyped
  <2>. QED
    BY <2>1 DEF BoardWasDiscovered
<1>6. ASSUME NEW t \in tasks, Answer(t) \/ Drop(t)
      PROVE  tasks' \subseteq tasks
  BY <1>6, IsOver DEF Replaces, Refreshed, Submitted, Dropped, OwnedByWindow
<1>. QED
  BY <1>1, <1>2, <1>3, <1>4, <1>5, <1>6, StepKinds, Arrives, Stutters

BoardInv == SessionInv /\ FormAgrees /\ BoardWasDiscovered

LEMMA BoardInvStep ==
    ASSUME BoardInv, [Next]_vars
    PROVE  BoardInv'
<1>1. SessionInv' /\ BoardWasDiscovered'
  BY SessionStep, BoardsStep DEF BoardInv
<1>2. FormAgrees'
  BY FormSteps, FormChanges DEF BoardInv
<1>. QED
  BY <1>1, <1>2 DEF BoardInv

LEMMA BoardStart ==
    ASSUME Init
    PROVE  BoardInv
<1>1. \A t \in tasks : t.kind = "restore"
  BY DEF Init
<1>2. FormAgrees
  BY EmptyForm DEF Init, FormAgrees
<1>. QED
  BY <1>1, <1>2, SessionStart DEF BoardInv, BoardWasDiscovered

\* A connection is only asked for with a board that was found for its account,
\* whatever is typed, looked for and imported in which order.
THEOREM BoardsAreOfTheAccount == Spec => []BoardWasDiscovered
<1>1. BoardInv => BoardWasDiscovered
  BY DEF BoardInv
<1>. QED
  BY <1>1, BoardStart, BoardInvStep, PTL DEF Spec

---------------------------------------------------------------------------
(* The order of the answers.                                                *)

\* A request that is gone was answered or dropped, or an answer that came in spite of
\* an import took its dashboard away.
LEMMA EndedIs ==
    ASSUME SessionInv, [Next]_vars, NEW t \in tasks, Ended(t)
    PROVE  \/ Replaces(t) \/ Refreshed(t) \/ Submitted(t) \/ Dropped(t)
           \/ /\ t.kind \in FromDashboard
              /\ \E s \in tasks : /\ Replaces(s) /\ app.view # app'.view
                                  /\ ~(Dashboard /\ app'.view = "connected")
                                  /\ crossed' = crossed
<1>. TasksTyped /\ Numbered /\ DialogsBelong
  BY DEF SessionInv
<1>1. asked' = asked /\ (\A u \in tasks' : u.id # t.id) /\ t \notin tasks' /\ tasks' # tasks
  BY DEF Ended
<1>2. ~PersonAsks /\ ~PersonLooks /\ ~(Disconnect \/ ImportInPreferences \/ Restart)
  BY <1>1, Asks, Looks, IsLeft DEF DialogsBelong, Numbered
<1>3. ASSUME NEW s \in tasks, GoesOn(s)
      PROVE  FALSE
  BY <1>1, <1>3, GoesTo DEF TasksTyped
<1>4. PICK s \in tasks : Answer(s) \/ Drop(s)
  BY <1>1, <1>2, <1>3, StepKinds, Arrives, Stutters
<1>5. /\ Replaces(s) \/ Refreshed(s) \/ Submitted(s) \/ Dropped(s)
      /\ crossed' = crossed
  BY <1>4, IsOver
<1>6. CASE tasks' = tasks \ {s}
  BY <1>1, <1>5, <1>6
<1>7. CASE /\ Replaces(s) /\ tasks' = OwnedByWindow \ {s} /\ s # t
           /\ ~(app.view = app'.view \/ (Dashboard /\ app'.view = "connected"))
  BY <1>1, <1>5, <1>7 DEF OwnedByWindow
<1>. QED
  BY <1>5, <1>6, <1>7 DEF Replaces, Refreshed, Submitted, Dropped

\* What connects or restores is waited for in a view without a dashboard.
LEMMA NoDashboardYet ==
    ASSUME SessionInv, ~crossed, NEW t \in tasks, Replaces(t)
    PROVE  ~Dashboard /\ t.id = latest /\ \A s \in tasks : s.kind \notin FromDashboard
<1>1. t.id = latest /\ ~Dashboard
  BY KindSets DEF SessionInv, Begins, Replaces, Dashboard
<1>. QED
  BY <1>1 DEF SessionInv, Waits

LEMMA AnswersInOrder ==
    ASSUME SessionInv, [Next]_vars, NEW t \in tasks, Ended(t), app' # app
    PROVE  t.id = latest \/ t.kind \in Submissions \/ crossed
<1>. SUFFICES ASSUME ~crossed
              PROVE  t.id = latest \/ t.kind \in Submissions
  OBVIOUS
<1>1. CASE Replaces(t)
  BY <1>1, NoDashboardYet
<1>2. CASE Refreshed(t)
  BY <1>2 DEF Refreshed, IsCurrent, SessionInv
<1>3. CASE Submitted(t)
  BY <1>3 DEF Submitted
<1>4. ~Dropped(t)
  BY DEF Dropped
<1>5. ASSUME NEW s \in tasks, Replaces(s), t.kind \in FromDashboard
      PROVE  FALSE
  BY <1>5, NoDashboardYet
<1>. QED
  BY <1>1, <1>2, <1>3, <1>4, <1>5, EndedIs

\* Nothing but the last request that the view has waited for changes what is shown,
\* except the answer of a submission: that one is shown even if a refresh was asked for
\* behind its dialog (ui.rs, finish_refresh and finish_worklog_submission).
THEOREM AnswersAreInOrder == Spec => LateAnswersIgnored
<1>1. SessionInv /\ [Next]_vars
        => [\A t \in tasks : Ended(t) /\ app' # app
              => t.id = latest \/ t.kind \in Submissions \/ crossed]_vars
  BY AnswersInOrder
<1>. QED
  BY <1>1, SessionIsConsistent, PTL DEF Spec, LateAnswersIgnored

---------------------------------------------------------------------------
(* What is told of the changes of worklogs.                                 *)

\* A change that is told of as made has been made, and the report that was loaded
\* after it holds it.
Follows(t) ==
    t.kind \in Writers =>
        /\ t.phase \in {"written", "committed", "loaded"} => t.id \in jira
        /\ t.phase = "loaded" => t.id \in t.seen

LEMMA JiraKeeps ==
    ASSUME SessionInv, [Next]_vars
    PROVE  jira \subseteq jira'
<1>. TasksTyped /\ DialogsBelong
  BY DEF SessionInv
<1>1. ASSUME NEW t \in tasks, GoesOn(t)
      PROVE  jira \subseteq jira'
  BY <1>1, GoesTo DEF TasksTyped, Advances
<1>. QED
  BY <1>1, StepKinds, Asks, Looks, IsLeft, IsOver, Arrives, Stutters DEF DialogsBelong

\* The requests after a step: some of the ones before, a new one, or one that went on.
LEMMA TasksAre ==
    ASSUME SessionInv, [Next]_vars
    PROVE  \/ tasks' \subseteq tasks
           \/ \E n : /\ tasks' \subseteq tasks \cup {n} /\ n.phase = "asked" /\ n.seen = {}
                     /\ n.id = asked + 1
           \/ \E t \in tasks : GoesOn(t)
<1>. TasksTyped /\ DialogsBelong
  BY DEF SessionInv
<1>1. ASSUME Disconnect \/ ImportInPreferences \/ Restart
      PROVE  \/ tasks' \subseteq tasks
             \/ \E n : /\ tasks' \subseteq tasks \cup {n} /\ n.phase = "asked" /\ n.seen = {}
                       /\ n.id = asked + 1
  <2>1. Leaves(OwnedByWindow)
    BY <1>1, IsLeft DEF DialogsBelong
  <2>2. OwnedByWindow \subseteq tasks
    BY DEF OwnedByWindow
  <2>. QED
    BY <2>1, <2>2 DEF Leaves
<1>2. ASSUME NEW t \in tasks, Answer(t) \/ Drop(t)
      PROVE  tasks' \subseteq tasks
  BY <1>2, IsOver DEF Replaces, Refreshed, Submitted, Dropped, OwnedByWindow
<1>. QED
  BY <1>1, <1>2, StepKinds, Asks, Looks, Arrives, Stutters DEF Fresh

LEMMA FollowsStep ==
    ASSUME SessionInv, \A t \in tasks : Follows(t), [Next]_vars
    PROVE  \A t \in tasks' : Follows(t)'
<1>. TasksTyped
  BY DEF SessionInv
<1>1. jira \subseteq jira'
  BY JiraKeeps
<1>2. ASSUME NEW t \in tasks, GoesOn(t)
      PROVE  \A x \in tasks' : Follows(x)'
  <2>1. PICK u : /\ tasks' = (tasks \ {t}) \cup {u} /\ u.id = t.id /\ u.kind = t.kind
                 /\ Advances(t, u)
    BY <1>2, GoesTo DEF TasksTyped
  <2>2. Follows(u)'
    BY <1>1, <2>1 DEF Follows, Advances
  <2>. QED
    BY <1>1, <2>1, <2>2 DEF Follows
<1>3. CASE tasks' \subseteq tasks
  BY <1>1, <1>3 DEF Follows
<1>4. ASSUME NEW n, tasks' \subseteq tasks \cup {n}, n.phase = "asked"
      PROVE  \A x \in tasks' : Follows(x)'
  BY <1>1, <1>4 DEF Follows
<1>. QED
  BY <1>2, <1>3, <1>4, TasksAre

ReportInv == SessionInv /\ \A t \in tasks : Follows(t)

LEMMA ReportStep ==
    ASSUME ReportInv, [Next]_vars
    PROVE  ReportInv'
BY SessionStep, FollowsStep DEF ReportInv

LEMMA ReportStart ==
    ASSUME Init
    PROVE  ReportInv
<1>1. \A t \in tasks : t.phase = "asked"
  BY DEF Init
<1>. QED
  BY <1>1, SessionStart DEF ReportInv, Follows

LEMMA ReportsAreTrue ==
    ASSUME ReportInv, [Next]_vars,
           NEW t \in tasks, t.kind \in Writers, Ended(t), Dashboard'
    PROVE  /\ app' # app /\ ~app'.failed => t.id \in app'.session.seen
           /\ dialog # "none" /\ dialog' = "none" => t.id \in jira
<1>. SessionInv /\ Follows(t)
  BY DEF ReportInv
<1>1. /\ t.kind \in FromDashboard /\ Dashboard
      /\ t.kind # "connect" /\ t.kind \notin Restores
  BY KindSets DEF SessionInv, Waits, FromDashboard
<1>2. CASE Refreshed(t)
  BY <1>2, Views DEF Refreshed, Follows
<1>3. CASE Submitted(t)
  <2>1. app'.failed \/ (t.phase = "loaded" /\ app'.session.seen = t.seen)
    BY <1>3, Views DEF Submitted
  <2>2. dialog # "none" /\ dialog' = "none" => t.phase \in {"loaded", "committed"}
    BY <1>3 DEF Submitted
  <2>. QED
    BY <2>1, <2>2 DEF Follows
<1>4. ASSUME NEW s \in tasks, Replaces(s)
      PROVE  app'.view = "connected"
  BY <1>4, Views DEF Replaces, Dashboard
<1>5. ~Replaces(t) /\ ~Dropped(t)
  BY <1>1, KindSets DEF Replaces, Dropped
<1>. QED
  BY <1>1, <1>2, <1>3, <1>4, <1>5, EndedIs

\* What is shown without an error after a change holds the change, and a dialog that an
\* answer closes belongs to a change that Jira has made, whatever was asked for behind
\* it, whichever answer got lost and however often the window was restarted.
THEOREM ChangesAreReportedAsWritten == Spec => ReportedAsWritten
<1>1. ReportInv /\ [Next]_vars
        => [\A t \in tasks : t.kind \in Writers /\ Ended(t) /\ Dashboard' =>
              /\ app' # app /\ ~app'.failed => t.id \in app'.session.seen
              /\ dialog # "none" /\ dialog' = "none" => t.id \in jira]_vars
  BY ReportsAreTrue
<1>2. Spec => []ReportInv
  BY ReportStart, ReportStep, PTL DEF Spec
<1>. QED
  BY <1>1, <1>2, PTL DEF Spec, ReportedAsWritten

---------------------------------------------------------------------------
(* The list of worklogs goes forward.                                       *)

\* What was seen in a report has been made by Jira.
SeenInJira ==
    /\ \A t \in tasks : t.seen \subseteq jira
    /\ Dashboard => app.session.seen \subseteq jira

\* The session a request falls back to is not newer than what it loads, and it is the
\* one that is shown when the view waits for this request.
Falls(t) ==
    t.kind \in FromDashboard =>
        /\ t.fallback.seen \subseteq jira
        /\ t.phase = "loaded" => t.fallback.seen \subseteq t.seen
        /\ t.kind \in Refreshes /\ IsCurrent(t) => t.fallback = app.session

ForwardInv == SessionInv /\ SeenInJira /\ \A t \in tasks : Falls(t)

\* What an answer shows is what it loaded or fell back to.
LEMMA AnswersShow ==
    ASSUME ForwardInv, NEW t \in tasks, Refreshed(t) \/ Submitted(t), app' # app
    PROVE  /\ Dashboard' /\ ~Refreshing' /\ t.fallback.seen \subseteq app'.session.seen
           /\ app'.session.seen \subseteq jira
           /\ Refreshed(t) => t.fallback = app.session
<1>1. /\ Falls(t) /\ t.kind \in FromDashboard /\ t.seen \subseteq jira
  BY KindSets DEF ForwardInv, SeenInJira, Refreshed, Submitted
<1>2. \/ app' = Loaded(t) /\ t.phase = "loaded"
      \/ app' = Failed(Shown("connected", t.fallback))
  BY DEF Refreshed, Submitted
<1>3. Refreshed(t) => t.fallback = app.session
  BY <1>1 DEF Refreshed, Falls
<1>. QED
  BY <1>1, <1>2, <1>3, Views DEF Falls, Dashboard, Refreshing

LEMMA SeenStep ==
    ASSUME ForwardInv, [Next]_vars
    PROVE  SeenInJira'
<1>. /\ SessionInv /\ TasksTyped /\ DialogsBelong /\ SeenInJira
  BY DEF ForwardInv, SessionInv
<1>1. jira \subseteq jira'
  BY JiraKeeps
<1>2. \A t \in tasks' : t.seen \subseteq jira'
  <2>1. ASSUME NEW t \in tasks, GoesOn(t)
        PROVE  \A x \in tasks' : x.seen \subseteq jira'
    <3>1. PICK u : /\ tasks' = (tasks \ {t}) \cup {u} /\ Advances(t, u)
      BY <2>1, GoesTo DEF TasksTyped
    <3>2. u.seen = t.seen \/ u.seen = jira
      BY <3>1 DEF Advances
    <3>. QED
      BY <1>1, <3>1, <3>2 DEF SeenInJira
  <2>. QED
    BY <1>1, <2>1, TasksAre DEF SeenInJira
<1>. SUFFICES Dashboard' => app'.session.seen \subseteq jira'
  BY <1>2 DEF SeenInJira
<1>3. ASSUME app'.session = app.session, Dashboard' => Dashboard
      PROVE  Dashboard' => app'.session.seen \subseteq jira'
  BY <1>1, <1>3 DEF SeenInJira
<1>4. CASE PersonAsks
  <2>1. PICK n : ViewAsks(n)
    BY <1>4, Asks
  <2>. QED
    BY <1>3, <2>1 DEF ViewAsks, Dashboard, DialogsBelong
<1>5. CASE PersonLooks
  <2>1. \/ app' = app
        \/ app'.view \in {"setup", "demo"}
        \/ app.view = "connected" /\ app' = Shown("connected", app.session)
    BY <1>5, Looks
  <2>. QED
    BY <1>3, <2>1, Views DEF Dashboard
<1>6. CASE Disconnect \/ ImportInPreferences \/ Restart
  <2>1. Leaves(OwnedByWindow)
    BY <1>6, IsLeft DEF DialogsBelong
  <2>. QED
    BY <2>1, Views DEF Leaves, Dashboard
<1>7. ASSUME NEW t \in tasks, GoesOn(t)
      PROVE  app' = app
  BY <1>7, GoesTo DEF TasksTyped
<1>8. ASSUME NEW t \in tasks, Answer(t) \/ Drop(t)
      PROVE  Dashboard' => app'.session.seen \subseteq jira'
  <2>1. CASE app' = app
    BY <1>3, <2>1 DEF Dashboard
  <2>2. CASE Replaces(t)
    BY <1>1, <2>2, Views DEF Replaces, SeenInJira, Dashboard
  <2>3. CASE (Refreshed(t) \/ Submitted(t)) /\ app' # app
    BY <1>1, <2>3, AnswersShow
  <2>. QED
    BY <1>8, <2>1, <2>2, <2>3, IsOver DEF Dropped
<1>9. CASE app' = app
  BY <1>3, <1>9 DEF Dashboard
<1>. QED
  BY <1>4, <1>5, <1>6, <1>7, <1>8, <1>9, StepKinds, Arrives, Stutters

LEMMA FallsStep ==
    ASSUME ForwardInv, [Next]_vars
    PROVE  \A t \in tasks' : Falls(t)'
<1>. /\ SessionInv /\ TasksTyped /\ Numbered /\ DialogsBelong /\ SeenInJira
     /\ \A t \in tasks : Falls(t)
  BY DEF ForwardInv, SessionInv
<1>1. jira \subseteq jira'
  BY JiraKeeps
<1>2. ASSUME tasks' \subseteq tasks, app' = app \/ ~Refreshing'
      PROVE  \A t \in tasks' : Falls(t)'
  BY <1>1, <1>2 DEF Falls, IsCurrent, Refreshing
<1>3. ASSUME \A t \in tasks' : t.kind \notin FromDashboard
      PROVE  \A t \in tasks' : Falls(t)'
  BY <1>3 DEF Falls
<1>4. CASE PersonAsks
  <2>1. PICK n : tasks' = tasks \cup {n} /\ Fresh(n, n.kind) /\ ViewAsks(n)
    BY <1>4, Asks
  <2>2. CASE n.kind = "connect" /\ app'.view = "setup"
    BY <1>1, <2>1, <2>2, KindSets DEF Falls, IsCurrent, Refreshing
  <2>3. CASE n.kind \in Submissions /\ app' = app /\ Dashboard
    <3>1. Falls(n)'
      BY <1>1, <2>1, <2>3, KindSets DEF Falls, Fresh, SeenInJira
    <3>2. \A t \in tasks : Falls(t)'
      BY <1>1, <2>3 DEF Falls, IsCurrent, Refreshing
    <3>. QED
      BY <2>1, <3>1, <3>2
  <2>4. CASE /\ n.kind \in Refreshes /\ Dashboard /\ app'.session = app.session
             /\ app'.request = asked + 1
    <3>1. Falls(n)'
      BY <1>1, <2>1, <2>4 DEF Falls, Fresh, SeenInJira
    <3>2. \A t \in tasks : ~IsCurrent(t)'
      BY <2>4 DEF Numbered, IsCurrent
    <3>3. \A t \in tasks : Falls(t)'
      BY <1>1, <3>2 DEF Falls
    <3>. QED
      BY <2>1, <3>1, <3>3
  <2>. QED
    BY <2>1, <2>2, <2>3, <2>4 DEF ViewAsks, DialogsBelong, Dashboard
<1>5. CASE PersonLooks
  BY <1>2, <1>5, Looks, Views DEF Refreshing
<1>6. CASE Disconnect \/ ImportInPreferences \/ Restart
  BY <1>3, <1>6, IsLeft, KindSets DEF DialogsBelong, Leaves, OwnedByWindow
<1>7. ASSUME NEW t \in tasks, GoesOn(t)
      PROVE  \A x \in tasks' : Falls(x)'
  <2>1. app' = app
    BY <1>7, GoesTo DEF TasksTyped
  <2>2. PICK u : /\ tasks' = (tasks \ {t}) \cup {u} /\ u.id = t.id /\ u.kind = t.kind
                 /\ u.fallback = t.fallback /\ Advances(t, u)
    BY <1>7, GoesTo DEF TasksTyped
  <2>3. u.phase = "loaded" => u.seen = jira
    BY <2>2 DEF Advances
  <2>4. Falls(u)'
    BY <1>1, <2>1, <2>2, <2>3 DEF Falls, IsCurrent, Refreshing
  <2>5. \A x \in tasks : Falls(x)'
    BY <1>1, <2>1 DEF Falls, IsCurrent, Refreshing
  <2>. QED
    BY <2>2, <2>4, <2>5
<1>8. ASSUME NEW t \in tasks, Answer(t) \/ Drop(t)
      PROVE  \A x \in tasks' : Falls(x)'
  <2>1. CASE Replaces(t)
    BY <1>2, <2>1, Views DEF Replaces, OwnedByWindow, Refreshing
  <2>2. CASE Refreshed(t) \/ Submitted(t)
    <3>1. tasks' \subseteq tasks
      BY <2>2 DEF Refreshed, Submitted
    <3>. QED
      BY <1>2, <2>2, <3>1, AnswersShow
  <2>3. CASE Dropped(t)
    BY <1>2, <2>3 DEF Dropped
  <2>. QED
    BY <1>8, <2>1, <2>2, <2>3, IsOver
<1>. QED
  BY <1>2, <1>4, <1>5, <1>6, <1>7, <1>8, StepKinds, Arrives, Stutters

LEMMA ForwardInvStep ==
    ASSUME ForwardInv, [Next]_vars
    PROVE  ForwardInv'
BY SessionStep, SeenStep, FallsStep DEF ForwardInv

LEMMA ForwardStart ==
    ASSUME Init
    PROVE  ForwardInv
<1>1. \A t \in tasks : t.kind = "restore" /\ t.seen = {}
  BY DEF Init
<1>2. ~Dashboard
  BY Views DEF Init, Dashboard
<1>. QED
  BY <1>1, <1>2, SessionStart, KindSets DEF ForwardInv, SeenInJira, Falls

LEMMA GoesForward ==
    ASSUME ForwardInv, [Next]_vars, Dashboard, Dashboard', ~crossed
    PROVE  \/ app.session.seen \subseteq app'.session.seen
           \/ \E t \in tasks : /\ t.kind \in Submissions /\ Ended(t)
                              /\ t.fallback # app.session
                              /\ t.fallback.seen \subseteq app'.session.seen
<1>. SessionInv /\ TasksTyped /\ Numbered /\ DialogsBelong
  BY DEF ForwardInv, SessionInv
<1>1. CASE PersonAsks
  <2>1. PICK n : ViewAsks(n)
    BY <1>1, Asks
  <2>. QED
    BY <2>1 DEF ViewAsks, Idle, Dashboard
<1>2. CASE PersonLooks
  BY <1>2, Looks, Views DEF Dashboard
<1>3. ~(Disconnect \/ ImportInPreferences \/ Restart)
  BY IsLeft, Views DEF Leaves, Dashboard
<1>4. ASSUME NEW t \in tasks, GoesOn(t)
      PROVE  app' = app
  BY <1>4, GoesTo DEF TasksTyped
<1>5. ASSUME NEW t \in tasks, Refreshed(t), app' # app
      PROVE  app.session.seen \subseteq app'.session.seen
  BY <1>5, AnswersShow
<1>6. ASSUME NEW t \in tasks, Submitted(t), asked' = asked, app' # app
      PROVE  /\ t.kind \in Submissions /\ Ended(t)
             /\ t.fallback.seen \subseteq app'.session.seen
  BY <1>6, AnswersShow DEF Submitted, Ended, Numbered
<1>7. ASSUME NEW t \in tasks, Answer(t) \/ Drop(t), app' # app
      PROVE  asked' = asked /\ (Refreshed(t) \/ Submitted(t))
  BY <1>7, IsOver, NoDashboardYet DEF Dropped
<1>. QED
  BY <1>1, <1>2, <1>3, <1>4, <1>5, <1>6, <1>7, StepKinds, Arrives, Stutters

\* The list of worklogs does not go back, except by the answer of a submission behind
\* which another list was shown; and then it is not older than the list the submission
\* was sent from (ui.rs, finish_worklog_submission).
THEOREM TheListMovesForward == Spec => ShownMovesForward
<1>1. ForwardInv /\ [Next]_vars
        => [Dashboard /\ Dashboard' /\ ~crossed =>
              \/ app.session.seen \subseteq app'.session.seen
              \/ \E t \in tasks : /\ t.kind \in Submissions /\ Ended(t)
                                 /\ t.fallback # app.session
                                 /\ t.fallback.seen \subseteq app'.session.seen]_vars
  <2>. SUFFICES ASSUME ForwardInv, [Next]_vars, Dashboard, Dashboard', ~crossed
                PROVE  \/ app.session.seen \subseteq app'.session.seen
                       \/ \E t \in tasks : /\ t.kind \in Submissions /\ Ended(t)
                                          /\ t.fallback # app.session
                                          /\ t.fallback.seen \subseteq app'.session.seen
    OBVIOUS
  <2>. QED
    BY GoesForward
<1>2. Spec => []ForwardInv
  BY ForwardStart, ForwardInvStep, PTL DEF Spec
<1>. QED
  BY <1>1, <1>2, PTL DEF Spec, ShownMovesForward

---------------------------------------------------------------------------
(* The types, and how the dialogs and the views go together.                *)

ViewNames    == {"starting", "setup", "connected", "refreshing", "demo"}
OtherDialogs == {"delete", "range", "preferences", "disconnect"}

AppRecords ==
    [view : ViewNames, loading : BOOLEAN, failed : BOOLEAN, session : Sessions \cup {None},
     request : 0 .. MaxAsked]

AppFits(state) ==
    /\ state \in AppRecords
    /\ state.loading => state.view = "setup"
    /\ state.view \in {"connected", "refreshing"} <=> state.session # None
    /\ state.view = "refreshing" <=> state.request # 0

DialogsTyped ==
    /\ dialog \in {"none", "form", "review"} /\ open \subseteq OtherDialogs
    /\ submission \in {"idle", "pending", "failed", "succeeded"}
    /\ preferences \in {"idle", "pending", "failed"}

FormTyped ==
    form \in [account : Accounts \cup {None}, boards : Accounts \cup {None},
              board : Accounts \cup {None}, finding : BOOLEAN]

\* A task that has read the saved request, or was made with one, has it; a task of
\* the dashboard has a session to fall back to.
TaskFits(t) ==
    /\ t.id \in Nat /\ t.id >= 1
    /\ t.request \in Requests \cup {None}
    /\ t.chosen \in Choices \cup {None}
    /\ t.fallback \in Sessions \cup {None}
    /\ t.phase \in Phases
    /\ t.kind = "connect" \/ t.phase \in {"looked", "written", "committed", "loaded"}
         => t.request \in Requests
    /\ t.kind = "configure" => t.chosen \in Choices
    /\ t.kind \in FromDashboard => t.fallback \in Sessions

HistoryFits ==
    /\ saved \in Requests \cup {None}
    /\ asked \in 1 .. MaxAsked /\ latest \in 1 .. asked
    /\ jira \subseteq 1 .. asked /\ adrift \subseteq 1 .. asked
    /\ released \in BOOLEAN /\ crossed \in BOOLEAN

TypeInv ==
    /\ AppFits(app) /\ DialogsTyped /\ FormTyped /\ HistoryFits
    /\ \A t \in tasks : TaskFits(t)

\* What the types rest on.
Grounds == ForwardInv /\ FormAgrees

LEMMA Bounds == MaxAsked \in Nat /\ MaxAsked > 0 /\ None \notin Accounts /\ None \notin Sessions
BY SessionAssumption DEF SessionAssumption

LEMMA ShownFits ==
    /\ \A view \in {"starting", "setup", "demo"} :
         AppFits(Shown(view, None)) /\ AppFits(Failed(Shown(view, None)))
    /\ AppFits([Shown("setup", None) EXCEPT !.loading = TRUE])
    /\ \A s \in Sessions : AppFits(Shown("connected", s)) /\ AppFits(Failed(Shown("connected", s)))
    /\ \A s \in Sessions, r \in 1 .. MaxAsked :
         AppFits([Shown("refreshing", s) EXCEPT !.request = r])
<1>1. 0 \in 0 .. MaxAsked /\ \A r \in 1 .. MaxAsked : r \in 0 .. MaxAsked /\ r # 0
  BY Bounds, SMT
<1>2. ASSUME NEW view \in {"starting", "setup", "demo"}
      PROVE  AppFits(Shown(view, None)) /\ AppFits(Failed(Shown(view, None)))
  BY <1>1 DEF AppFits, AppRecords, Shown, Failed, ViewNames
<1>3. AppFits([Shown("setup", None) EXCEPT !.loading = TRUE])
  BY <1>1 DEF AppFits, AppRecords, Shown, ViewNames
<1>4. ASSUME NEW s \in Sessions
      PROVE  AppFits(Shown("connected", s)) /\ AppFits(Failed(Shown("connected", s)))
  BY <1>1, Bounds DEF AppFits, AppRecords, Shown, Failed, ViewNames
<1>5. ASSUME NEW s \in Sessions, NEW r \in 1 .. MaxAsked
      PROVE  AppFits([Shown("refreshing", s) EXCEPT !.request = r])
  BY <1>1, Bounds DEF AppFits, AppRecords, Shown, ViewNames
<1>. QED
  BY <1>2, <1>3, <1>4, <1>5

LEMMA FittingView ==
    ASSUME AppFits(app)
    PROVE  /\ Dashboard <=> app.session # None
           /\ Dashboard => app.session \in Sessions
           /\ app.session \in Sessions \cup {None}
           /\ ~Dashboard => app.session = None
BY DEF AppFits, AppRecords, Dashboard

\* A new task.
LEMMA NewTaskFits ==
    ASSUME HistoryFits, AppFits(app), NEW kind, NEW request \in Requests \cup {None},
           kind = "connect" => request \in Requests, kind # "configure",
           kind \in FromDashboard => Dashboard
    PROVE  TaskFits(Task(kind, request))
<1>1. asked + 1 \in Nat /\ asked + 1 >= 1
  BY Bounds, SMT DEF HistoryFits
<1>. QED
  BY <1>1, FittingView DEF TaskFits, Task, Phases

LEMMA ConfigureFits ==
    ASSUME HistoryFits, AppFits(app), NEW choice \in Choices, Dashboard
    PROVE  TaskFits([Task("configure", None) EXCEPT !.chosen = choice])
<1>1. asked + 1 \in Nat /\ asked + 1 >= 1
  BY Bounds, SMT DEF HistoryFits
<1>. QED
  BY <1>1, FittingView DEF TaskFits, Task, Phases

LEMMA RestoreFits ==
    ASSUME HistoryFits, NEW kind \in Restores
    PROVE  TaskFits([Task(kind, None) EXCEPT !.fallback = None])
<1>1. asked + 1 \in Nat /\ asked + 1 >= 1
  BY Bounds, SMT DEF HistoryFits
<1>2. kind \notin FromDashboard /\ kind # "configure" /\ kind # "connect"
  BY KindSets
<1>. QED
  BY <1>1, <1>2 DEF TaskFits, Task, Phases

\* The number of what is asked for.
LEMMA OneMoreAsked ==
    ASSUME HistoryFits, Asking
    PROVE  /\ asked + 1 \in 1 .. MaxAsked /\ asked + 1 \in 1 .. asked + 1
           /\ 1 .. asked \subseteq 1 .. asked + 1
<1>1. asked \in Nat /\ asked < MaxAsked
  BY Bounds, SMT DEF HistoryFits, Asking
<1>. QED
  BY <1>1, Bounds, SMT

\* What an answer shows.
LEMMA AnswersFit ==
    ASSUME TypeInv, Grounds, NEW t \in tasks
    PROVE  /\ t.phase = "loaded" => AppFits(Loaded(t))
           /\ t.kind \in FromDashboard => AppFits(Failed(Shown("connected", t.fallback)))
<1>. TaskFits(t)
  BY DEF TypeInv
<1>1. ASSUME t.phase = "loaded" PROVE AppFits(Loaded(t))
  <2>1. asked \in 1 .. MaxAsked /\ jira \subseteq 1 .. asked /\ t.seen \subseteq jira
    BY DEF TypeInv, HistoryFits, Grounds, ForwardInv, SeenInJira
  <2>2. 1 .. asked \subseteq 1 .. MaxAsked
    BY <2>1, Bounds, SMT
  <2>3. t.request \in Requests
    BY <1>1 DEF TaskFits
  <2>4. [request |-> t.request, seen |-> t.seen] \in Sessions
    <3>1. t.seen \in SUBSET (1 .. MaxAsked)
      BY <2>1, <2>2, Zenon
    <3>. QED
      BY <2>3, <3>1 DEF Sessions
  <2>. QED
    BY <2>4, ShownFits DEF Loaded
<1>2. ASSUME t.kind \in FromDashboard PROVE AppFits(Failed(Shown("connected", t.fallback)))
  <2>1. t.fallback \in Sessions
    BY <1>2 DEF TaskFits
  <2>. QED
    BY <2>1, ShownFits
<1>. QED
  BY <1>1, <1>2

---------------------------------------------------------------------------
LEMMA AppStep ==
    ASSUME TypeInv, Grounds, [Next]_vars
    PROVE  AppFits(app)'
<1>. /\ AppFits(app) /\ HistoryFits /\ SessionInv /\ DialogsBelong /\ TasksTyped
     /\ \A t \in tasks : Waits(t)
  BY DEF TypeInv, Grounds, ForwardInv, SessionInv
<1>1. CASE app' = app
  BY <1>1
<1>2. CASE PersonAsks
  <2>1. CASE Connect
    BY <2>1, ShownFits DEF Connect
  <2>2. CASE ChangePeriod \/ Delete \/ \E choice \in Choices : SavePreferences(choice)
    <3>1. /\ Asking /\ Dashboard
          /\ app' = [Shown("refreshing", app.session) EXCEPT !.request = asked + 1]
      BY <2>2 DEF ChangePeriod, Delete, SavePreferences, Refresh, Settled, Dashboard,
         DialogsBelong
    <3>2. asked + 1 \in 1 .. MaxAsked /\ app.session \in Sessions
      BY <3>1, OneMoreAsked, FittingView
    <3>. QED
      BY <3>1, <3>2, ShownFits
  <2>3. CASE \E kind \in Submissions : Submit(kind)
    BY <1>1, <2>3 DEF Submit
  <2>. QED
    BY <1>2, <2>1, <2>2, <2>3 DEF PersonAsks
<1>3. CASE PersonLooks
  <2>1. CASE app.view = "connected" /\ app' = Shown("connected", app.session)
    BY <2>1, FittingView, ShownFits DEF Dashboard
  <2>2. CASE app'.view \in {"setup", "demo"} /\ app' = Shown(app'.view, None)
    <3>1. AppFits(Shown("setup", None)) /\ AppFits(Shown("demo", None))
      BY ShownFits
    <3>. QED
      BY <2>2, <3>1
  <2>. QED
    BY <1>1, <1>3, <2>1, <2>2, Looks
<1>4. CASE Disconnect \/ ImportInPreferences \/ Restart
  BY <1>4, ShownFits DEF Disconnect, ImportInPreferences, Restart
<1>5. ASSUME NEW t \in tasks, GoesOn(t)
      PROVE  app' = app
  BY <1>5, GoesTo DEF TasksTyped
<1>6. ASSUME NEW t \in tasks, Answer(t) \/ Drop(t)
      PROVE  AppFits(app)'
  <2>1. CASE Replaces(t)
    BY <2>1, AnswersFit, ShownFits DEF Replaces
  <2>2. CASE Refreshed(t) \/ Submitted(t)
    <3>1. t.kind \in FromDashboard
      BY <2>2, KindSets DEF Refreshed, Submitted
    <3>2. \/ app' = app
          \/ app' = Loaded(t) /\ t.phase = "loaded"
          \/ app' = Failed(Shown("connected", t.fallback))
      BY <2>2 DEF Refreshed, Submitted
    <3>. QED
      BY <1>1, <3>1, <3>2, AnswersFit
  <2>3. CASE Dropped(t)
    BY <1>1, <2>3 DEF Dropped
  <2>. QED
    BY <1>6, <2>1, <2>2, <2>3, IsOver
<1>. QED
  BY <1>1, <1>2, <1>3, <1>4, <1>5, <1>6, StepKinds, Arrives, Stutters

LEMMA DialogsTypedStep ==
    ASSUME DialogsTyped, SessionInv, [Next]_vars
    PROVE  DialogsTyped'
<1>. TasksTyped /\ DialogsBelong
  BY DEF SessionInv
<1>1. CASE UNCHANGED <<dialog, open, submission, preferences>>
  BY <1>1 DEF DialogsTyped
<1>2. CASE Leaving
  BY <1>2 DEF Leaving, DialogsTyped
<1>3. CASE PersonAsks
  <2>1. PICK n : ViewAsks(n)
    BY <1>3, Asks
  <2>. QED
    BY <2>1 DEF ViewAsks, DialogsTyped
<1>4. CASE DialogStep
  <2>1. ASSUME NEW other \in OtherDialogs, Open(other) \/ Close(other)
        PROVE  DialogsTyped'
    <3>1. open' \subseteq open \cup {other} /\ dialog' = dialog /\ submission' = submission
          /\ preferences' \in {preferences, "idle"}
      BY <2>1 DEF Open, Close
    <3>. QED
      BY <3>1 DEF DialogsTyped
  <2>2. CASE OpenWorklog \/ Turn \/ CloseWorklog
    BY <2>2 DEF OpenWorklog, Turn, CloseWorklog, DialogsTyped
  <2>. QED
    BY <1>4, <2>1, <2>2 DEF DialogStep, OtherDialogs
<1>5. CASE PersonLooks
  <2>1. CASE DialogStep
    BY <1>4, <2>1
  <2>2. CASE FormStep \/ SetupStep \/ CloseError
    <3>1. UNCHANGED <<dialog, open, submission, preferences>>
      BY <2>2 DEF FormStep, TypeAccount, FindBoards, BoardsFound, ChooseBoard, SetupStep, Demo,
         LeaveDemo, ImportInSetup, CloseError, dialogs
    <3>. QED
      BY <1>1, <3>1
  <2>. QED
    BY <1>5, <2>1, <2>2 DEF PersonLooks
<1>6. CASE Disconnect \/ ImportInPreferences \/ Restart
  BY <1>2, <1>6, IsLeft DEF DialogsBelong
<1>7. ASSUME NEW t \in tasks, GoesOn(t)
      PROVE  UNCHANGED <<dialog, open, submission, preferences>>
  BY <1>7, GoesTo DEF TasksTyped
<1>8. ASSUME NEW t \in tasks, Answer(t) \/ Drop(t)
      PROVE  DialogsTyped'
  <2>1. CASE Replaces(t)
    BY <1>1, <1>2, <2>1 DEF Replaces
  <2>2. CASE Refreshed(t)
    BY <2>2 DEF Refreshed, DialogsTyped
  <2>3. CASE Submitted(t)
    BY <2>3 DEF Submitted, DialogsTyped
  <2>4. CASE Dropped(t)
    BY <1>1, <2>4 DEF Dropped
  <2>. QED
    BY <1>8, <2>1, <2>2, <2>3, <2>4, IsOver
<1>. QED
  BY <1>1, <1>3, <1>5, <1>6, <1>7, <1>8, StepKinds, Arrives, Stutters

LEMMA FormTypedStep ==
    ASSUME FormTyped, [Next]_vars
    PROVE  FormTyped'
<1>1. CASE form' = form
  BY <1>1 DEF FormTyped
<1>2. CASE form' = NoForm
  BY <1>2 DEF FormTyped, NoForm
<1>3. ASSUME NEW a \in Accounts, TypeAccount(a)
      PROVE  FormTyped'
  BY <1>3 DEF TypeAccount, FormTyped
<1>4. CASE FindBoards
  BY <1>4 DEF FindBoards, FormTyped
<1>5. CASE BoardsFound
  BY <1>5 DEF BoardsFound, FormTyped
<1>6. CASE ChooseBoard
  BY <1>6 DEF ChooseBoard, FormTyped
<1>. QED
  BY <1>1, <1>2, <1>3, <1>4, <1>5, <1>6, FormChanges

LEMMA HistoryStep ==
    ASSUME TypeInv, Grounds, [Next]_vars
    PROVE  HistoryFits'
<1>. /\ HistoryFits /\ SessionInv /\ TasksTyped /\ DialogsBelong /\ Numbered
     /\ \A t \in tasks : TaskFits(t)
  BY DEF TypeInv, Grounds, ForwardInv, SessionInv
<1>1. ASSUME Asking, asked' = asked + 1, latest' \in {latest, asked + 1}, jira' = jira,
             adrift' \subseteq 1 .. asked, saved' \in Requests \cup {None},
             released' \in BOOLEAN, crossed' \in BOOLEAN
      PROVE  HistoryFits'
  BY <1>1, OneMoreAsked DEF HistoryFits
<1>2. ASSUME UNCHANGED <<asked, latest, released, crossed>>, jira' \subseteq 1 .. asked,
             adrift' \subseteq 1 .. asked, saved' \in Requests \cup {None}
      PROVE  HistoryFits'
  BY <1>2 DEF HistoryFits
<1>3. ASSUME NEW t \in tasks
      PROVE  t.id \in 1 .. asked
  <2>1. t.id \in Nat /\ t.id >= 1 /\ t.id <= asked /\ asked \in Nat
    BY <1>3 DEF TaskFits, Numbered
  <2>. QED
    BY <2>1, SMT
<1>4. Adrift \subseteq 1 .. asked
  BY <1>3 DEF Adrift, HistoryFits
<1>5. CASE PersonAsks
  <2>1. /\ Asking /\ asked' = asked + 1 /\ UNCHANGED <<saved, jira, adrift, crossed>>
        /\ latest' \in {latest, asked + 1} /\ released' \in {released, FALSE}
    BY <1>5 DEF PersonAsks, Connect, ChangePeriod, Delete, Submit, SavePreferences, Refresh,
       Start, remote
  <2>. QED
    BY <1>1, <2>1 DEF HistoryFits
<1>6. CASE PersonLooks
  <2>1. crossed' \in {crossed, TRUE, tasks # {}}
    BY <1>6, Looks DEF SetupStep, Demo, LeaveDemo, ImportInSetup, history, HistoryFits
  <2>. QED
    BY <1>6, <2>1, Looks DEF HistoryFits
<1>7. CASE Disconnect \/ ImportInPreferences \/ Restart
  <2>1. /\ Asking /\ saved' \in {saved, None}
        /\ released' \in BOOLEAN /\ crossed' \in BOOLEAN
    BY <1>7 DEF Disconnect, ImportInPreferences, Restart, HistoryFits
  <2>2. asked' = asked + 1 /\ latest' = asked + 1 /\ jira' = jira /\ adrift' = Adrift
    BY <1>7, IsLeft DEF DialogsBelong
  <2>. QED
    BY <1>1, <1>4, <2>1, <2>2 DEF HistoryFits
<1>8. ASSUME NEW t \in tasks, GoesOn(t)
      PROVE  HistoryFits'
  <2>1. UNCHANGED <<saved, adrift, asked, latest, released, crossed>>
    BY <1>8, GoesTo DEF TasksTyped
  <2>2. jira' \in {jira, jira \cup {t.id}}
    BY <1>8 DEF GoesOn, Look, Write, Load, Fail, remote
  <2>. QED
    BY <1>2, <1>3, <2>1, <2>2 DEF HistoryFits
<1>9. ASSUME NEW t \in tasks, Answer(t) \/ Drop(t)
      PROVE  HistoryFits'
  <2>1. UNCHANGED <<jira, asked, latest, released, crossed>>
    BY <1>9, IsOver
  <2>2. adrift' \in {adrift, Adrift}
    BY <1>9, IsOver DEF Replaces, Refreshed, Submitted, Dropped
  <2>3. saved' \in {saved, t.request}
    BY <1>9 DEF Answer, AnswerConnect, AnswerRestore, AnswerPeriod, AnswerDelete,
       AnswerPreferences, AnswerWorklog, Drop, remote
  <2>. QED
    BY <1>2, <1>4, <2>1, <2>2, <2>3 DEF HistoryFits, TaskFits
<1>10. ASSUME NEW i \in adrift, Arrive(i)
       PROVE  HistoryFits'
  BY <1>2, <1>10, Arrives DEF HistoryFits
<1>11. CASE UNCHANGED vars
  BY <1>2, <1>11, Stutters DEF HistoryFits
<1>. QED
  BY <1>5, <1>6, <1>7, <1>8, <1>9, <1>10, <1>11, StepKinds

\* A task that goes on.
LEMMA GoingOnFits ==
    ASSUME TypeInv, Grounds, NEW t \in tasks, GoesOn(t)
    PROVE  \A x \in tasks' : TaskFits(x)
<1>. HistoryFits /\ TaskFits(t) /\ IsTask(t)
  BY DEF TypeInv, Grounds, ForwardInv, SessionInv, TasksTyped
<1>1. ASSUME NEW u, tasks' = (tasks \ {t}) \cup {u}, TaskFits(u)
      PROVE  \A x \in tasks' : TaskFits(x)
  BY <1>1 DEF TypeInv
<1>2. CASE Look(t)
  <2>. DEFINE p == IF saved # None THEN "looked"
                   ELSE IF t.kind \in Restores THEN "absent" ELSE "failed"
              r == IF saved # None /\ t.kind = "configure" THEN Applied(saved, t.chosen)
                                                           ELSE saved
              u == [t EXCEPT !.phase = p, !.request = r]
  <2>1. tasks' = (tasks \ {t}) \cup {u} /\ t.kind # "connect"
    BY <1>2 DEF Look, Step
  <2>2. r \in Requests \cup {None} /\ (p = "looked" => r \in Requests)
    <3>1. CASE saved # None /\ t.kind = "configure"
      <4>1. saved \in Requests /\ t.chosen \in Choices
        BY <3>1 DEF HistoryFits, TaskFits
      <4>2. Applied(saved, t.chosen) \in Requests
        BY <4>1 DEF Applied, Requests, Choices
      <4>. QED
        BY <3>1, <4>2
    <3>2. CASE ~(saved # None /\ t.kind = "configure")
      BY <3>2 DEF HistoryFits
    <3>. QED
      BY <3>1, <3>2
  <2>3. p \in {"absent", "failed", "looked"}
    OBVIOUS
  <2>. HIDE DEF p, r
  <2>4. /\ u.id = t.id /\ u.kind = t.kind /\ u.request = r /\ u.chosen = t.chosen
        /\ u.fallback = t.fallback /\ u.phase = p
    BY DEF IsTask, TaskFields
  <2>. HIDE DEF u
  <2>5. TaskFits(u)
    BY <2>1, <2>2, <2>3, <2>4 DEF TaskFits, Phases
  <2>. QED
    BY <1>1, <2>1, <2>5
<1>3. CASE Write(t) \/ Fail(t)
  <2>1. PICK p : /\ tasks' = (tasks \ {t}) \cup {[t EXCEPT !.phase = p]}
                 /\ \/ p = "failed"
                    \/ p = "written" /\ t.phase = "looked"
                    \/ p = "committed" /\ t.phase = "written"
    BY <1>3 DEF Write, Fail, Step
  <2>. DEFINE u == [t EXCEPT !.phase = p]
  <2>2. /\ u.id = t.id /\ u.kind = t.kind /\ u.request = t.request /\ u.chosen = t.chosen
        /\ u.fallback = t.fallback /\ u.phase = p
    BY DEF IsTask, TaskFields
  <2>3. tasks' = (tasks \ {t}) \cup {u}
    BY <2>1
  <2>. HIDE DEF u
  <2>4. TaskFits(u)
    BY <2>1, <2>2 DEF TaskFits, Phases
  <2>. QED
    BY <1>1, <2>3, <2>4
<1>4. CASE Load(t)
  <2>. DEFINE u == [t EXCEPT !.phase = "loaded", !.seen = jira]
  <2>1. tasks' = (tasks \ {t}) \cup {u} /\ (t.kind = "connect" \/ t.phase \in {"looked", "written"})
    BY <1>4 DEF Load, Step
  <2>2. /\ u.id = t.id /\ u.kind = t.kind /\ u.request = t.request /\ u.chosen = t.chosen
        /\ u.fallback = t.fallback /\ u.phase = "loaded"
    BY DEF IsTask, TaskFields
  <2>. HIDE DEF u
  <2>3. TaskFits(u)
    BY <2>1, <2>2 DEF TaskFits, Phases
  <2>. QED
    BY <1>1, <2>1, <2>3
<1>. QED
  BY <1>2, <1>3, <1>4 DEF GoesOn

LEMMA TasksFit ==
    ASSUME TypeInv, Grounds, [Next]_vars
    PROVE  \A x \in tasks' : TaskFits(x)
<1>. /\ AppFits(app) /\ HistoryFits /\ FormTyped /\ FormAgrees /\ DialogsBelong
     /\ \A x \in tasks : TaskFits(x)
  BY DEF TypeInv, Grounds, ForwardInv, SessionInv
<1>1. CASE PersonAsks
  <2>1. CASE Connect
    <3>1. PICK target \in Targets, limit \in Limits :
            tasks' = tasks \cup {Task("connect", [account |-> form.account, board |-> form.board,
                                                  target |-> target, limit |-> limit])}
      BY <2>1 DEF Connect, Start
    <3>2. form.board \in Accounts /\ form.account \in Accounts
      BY <2>1 DEF Connect, FormTyped, FormAgrees
    <3>3. [account |-> form.account, board |-> form.board, target |-> target, limit |-> limit]
            \in Requests
      BY <3>2 DEF Requests
    <3>. QED
      BY <3>1, <3>3, NewTaskFits, KindSets
  <2>2. CASE ChangePeriod \/ Delete \/ \E kind \in Submissions : Submit(kind)
    <3>1. /\ Dashboard
          /\ \E kind \in FromDashboard \ {"configure"} : tasks' = tasks \cup {Task(kind, None)}
      BY <2>2, KindSets DEF ChangePeriod, Delete, Submit, Refresh, Start, Refreshes, Settled,
         DialogsBelong, Dashboard
    <3>2. \A kind \in FromDashboard \ {"configure"} : TaskFits(Task(kind, None))
      BY <3>1, NewTaskFits, KindSets
    <3>. QED
      BY <3>1, <3>2
  <2>3. ASSUME NEW choice \in Choices, SavePreferences(choice)
        PROVE  \A x \in tasks' : TaskFits(x)
    <3>1. /\ tasks' = tasks \cup {[Task("configure", None) EXCEPT !.chosen = choice]}
          /\ Dashboard
      BY <2>3 DEF SavePreferences, Refresh, Start, DialogsBelong
    <3>. QED
      BY <3>1, ConfigureFits
  <2>. QED
    BY <1>1, <2>1, <2>2, <2>3 DEF PersonAsks
<1>2. CASE Disconnect \/ ImportInPreferences \/ Restart
  <2>1. \A x \in OwnedByWindow : TaskFits(x)
    BY DEF OwnedByWindow
  <2>2. \A kind \in {"restore", "reload"} : TaskFits([Task(kind, None) EXCEPT !.fallback = None])
    BY RestoreFits DEF Restores
  <2>. QED
    BY <1>2, <2>1, <2>2 DEF Disconnect, ImportInPreferences, Restart
<1>3. ASSUME NEW t \in tasks, GoesOn(t)
      PROVE  \A x \in tasks' : TaskFits(x)
  BY <1>3, GoingOnFits
<1>4. ASSUME NEW t \in tasks, Answer(t) \/ Drop(t)
      PROVE  tasks' \subseteq tasks
  BY <1>4, IsOver DEF Replaces, Refreshed, Submitted, Dropped, OwnedByWindow
<1>. QED
  BY <1>1, <1>2, <1>3, <1>4, StepKinds, Looks, Arrives, Stutters

LEMMA TypedStep ==
    ASSUME TypeInv, Grounds, [Next]_vars
    PROVE  TypeInv'
<1>1. DialogsTyped'
  BY DialogsTypedStep DEF TypeInv, Grounds, ForwardInv
<1>2. FormTyped'
  BY FormTypedStep DEF TypeInv
<1>. QED
  BY <1>1, <1>2, AppStep, HistoryStep, TasksFit DEF TypeInv

LEMMA TypedStart ==
    ASSUME Init
    PROVE  TypeInv
<1>1. AppFits(app)
  BY ShownFits DEF Init
<1>2. DialogsTyped /\ FormTyped
  BY DEF Init, DialogsTyped, FormTyped, NoForm
<1>3. HistoryFits
  <2>1. 1 \in 1 .. MaxAsked /\ 1 \in 1 .. 1
    BY Bounds, SMT
  <2>. QED
    BY <2>1 DEF Init, HistoryFits
<1>4. \A t \in tasks : TaskFits(t)
  BY DEF Init, TaskFits, Phases, FromDashboard, Writers, Submissions
<1>. QED
  BY <1>1, <1>2, <1>3, <1>4 DEF TypeInv

LEMMA TypesFollow ==
    ASSUME TypeInv, Grounds
    PROVE  TypeOK
<1>. /\ AppFits(app) /\ DialogsTyped /\ FormTyped /\ HistoryFits /\ Numbered /\ DialogsBelong
  BY DEF TypeInv, Grounds, ForwardInv, SessionInv
<1>1. /\ app.view \in ViewNames /\ app.loading \in BOOLEAN /\ app.failed \in BOOLEAN
      /\ app.session \in Sessions \cup {None} /\ app.request \in 0 .. MaxAsked
      /\ app.loading => app.view = "setup"
      /\ Dashboard <=> app.session # None
      /\ Refreshing <=> app.request # 0
  BY DEF AppFits, AppRecords, Dashboard, Refreshing
<1>2. ASSUME NEW t \in tasks
      PROVE  /\ t.id \in 1 .. asked /\ t.request \in Requests \cup {None}
             /\ t.chosen \in Choices \cup {None} /\ t.fallback \in Sessions \cup {None}
             /\ t.seen \subseteq jira /\ t.phase \in Phases
  <2>1. TaskFits(t) /\ t.id <= asked /\ t.seen \subseteq jira /\ asked \in Nat
    BY <1>2 DEF TypeInv, Numbered, Grounds, ForwardInv, SeenInJira
  <2>2. t.id \in 1 .. asked
    BY <2>1, SMT DEF TaskFits
  <2>. QED
    BY <2>1, <2>2 DEF TaskFits
<1>3. asked \in 0 .. MaxAsked /\ latest \in 0 .. asked
  BY Bounds, SMT DEF HistoryFits
<1>4. \A t, u \in tasks : t.id = u.id => t = u
  BY DEF Numbered
<1>. QED
  BY <1>1, <1>2, <1>3, <1>4
  DEF TypeOK, ViewNames, OtherDialogs, DialogsTyped, DialogsBelong, FormTyped, HistoryFits

\* The state has its types, and the dialogs belong to a dashboard: nothing is open or
\* submitted without one, however many dialogs lie over it and whatever is asked for
\* behind them.
THEOREM DialogsBelongToTheirView == Spec => []TypeOK
<1>. DEFINE Inv == TypeInv /\ Grounds
<1>1. Init => Inv
  BY ForwardStart, BoardStart, TypedStart DEF Grounds, BoardInv
<1>2. Inv /\ [Next]_vars => Inv'
  BY ForwardInvStep, TypedStep, FormSteps, FormChanges DEF Grounds
<1>3. Inv => TypeOK
  BY TypesFollow
<1>. QED
  BY <1>1, <1>2, <1>3, PTL DEF Spec
=============================================================================
