-------------------------- MODULE DesktopReports --------------------------
(* The reports of the desktop application and their export to a workbook    *)
(* (desktop-app/src/reports.rs, report_analytics.rs, report_export.rs).     *)
(* The page shows the person's own report or the team's.  The team's is     *)
(* asked for when its tab is opened or its period is changed, filtered on   *)
(* the page, and loaded in the background while tabs, periods and filters   *)
(* change.  An export is a document made of what is shown when it is asked  *)
(* for; its tables break the same hours down by day, week, task, member and *)
(* category.                                                                *)
EXTENDS Naturals, FiniteSets, Sequences, SequencesExt

CONSTANTS Members, User,
          Roster,           \* the members that have issues of the board
          Hours,            \* the worklogs: author, task, its category and status, comment, day, seconds
          Periods,          \* the periods a person chooses; day 0 is a Monday
          MaxSlices,        \* maximum_task_slices
          U32Max,
          Anything,         \* a filter that is not set
          Unspecified, Other,
          MaxRequests       \* bound: the loads of the team's report

ASSUME DesktopReportsAssumption ==
    /\ User \in Members /\ Roster \subseteq Members
    /\ IsFiniteSet(Hours) /\ IsFiniteSet(Roster)
    /\ \A h \in Hours : /\ h.author \in Members /\ h.comment \in BOOLEAN
                       /\ h.day \in Nat /\ h.seconds \in Nat \ {0}
    /\ \A p \in Periods : p.from \in Nat /\ p.to \in Nat /\ p.from <= p.to
    /\ MaxSlices \in Nat /\ U32Max \in Nat /\ MaxRequests \in Nat

VARIABLES
    page,       \* the tab, the filters, the export under way and its notice
    period,     \* the period of the person's own report, and whether it is being read
    team,       \* TeamViewState
    loads,      \* the requests for the team's report without answer
    asked       \* history: the period of the team's report asked for last

deskVars == <<page, period, team, loads, asked>>

Categories == {h.category : h \in Hours}
Filters == [member : Members \cup {Anything}, category : Categories \cup {Anything},
            comments : {"all", "with", "without"}]
NoFilters == [member |-> Anything, category |-> Anything, comments |-> "all"]

---------------------------------------------------------------------------
(* The figures of a document.                                               *)

HoursIn(hours) == FoldSet(LAMBDA h, sum : h.seconds + sum, 0, hours)
Within(p, hours) == {h \in hours : p.from <= h.day /\ h.day <= p.to}
By(keys, field, hours) == [k \in keys |-> HoursIn({h \in hours : h[field] = k})]
SumOf(f) == FoldSet(LAMBDA k, sum : f[k] + sum, 0, DOMAIN f)

\* Mutant: a week that begins on the last day is left out.
WeeksBefore(p) ==
    LET monday(i) == p.from - (p.from % 7) + 7 * i
    IN  [i \in {k \in 0 .. p.to : monday(k) < p.to} |->
            [from |-> IF monday(i) < p.from THEN p.from ELSE monday(i),
             to   |-> IF monday(i) + 6 > p.to THEN p.to ELSE monday(i) + 6]]

\* report_weeks, clipped_week: from Monday to Sunday, within the period.
ReportWeeks(p) ==
    LET monday(i) == p.from - (p.from % 7) + 7 * i
    IN  [i \in {k \in 0 .. p.to : monday(k) <= p.to} |->
            [from |-> IF monday(i) < p.from THEN p.from ELSE monday(i),
             to   |-> IF monday(i) + 6 > p.to THEN p.to ELSE monday(i) + 6]]

ByWeek(p, hours) == [i \in DOMAIN ReportWeeks(p) |-> HoursIn(Within(ReportWeeks(p)[i], hours))]

\* percentage: in u32, where the product saturates.
Percentage(value, total) ==
    IF total = 0 THEN 0
    ELSE (IF value * 100 > U32Max THEN U32Max ELSE value * 100) \div total

\* sort_by_key(Reverse(seconds)): the keys, the one with the most hours first.
Ranked(f) == CHOOSE keys \in SetToSeqs(DOMAIN f) :
                \A i, j \in DOMAIN keys : i < j => f[keys[i]] >= f[keys[j]]

\* task_slices, category_slices, team_member_slices: the largest, and the rest in one.
Slices(f) ==
    LET maximum == IF MaxSlices < 2 THEN 2 ELSE MaxSlices
        ranked == Ranked(f)
        slice(k, s) == [label |-> k, seconds |-> s, percentage |-> Percentage(s, SumOf(f))]
        largest == IF Len(ranked) <= maximum THEN Len(ranked) ELSE maximum - 1
        rest == {ranked[i] : i \in largest + 1 .. Len(ranked)}
    IN  [i \in 1 .. largest |-> slice(ranked[i], f[ranked[i]])]
        \o IF rest = {} THEN <<>> ELSE <<slice(Other, SumOf([k \in rest |-> f[k]]))>>

\* summarize_members: the roster and whoever logged hours.
MemberRows(p, members, hours) ==
    [m \in members \cup {h.author : h \in hours} |->
        LET own == {h \in hours : h.author = m}
        IN  [total |-> HoursIn(own), weeks |-> ByWeek(p, own), entries |-> Cardinality(own)]]

\* TeamReportDocument and ReportDocument with the sheets of their workbooks.
Document(scope, p, members, hours, filters) ==
    [scope |-> scope, period |-> p, filters |-> filters,
     total   |-> HoursIn(hours), sources |-> hours,
     days    |-> By(p.from .. p.to, "day", hours),
     weeks   |-> ByWeek(p, hours),
     tasks   |-> By({h.task : h \in hours}, "task", hours),
     taskSlices     |-> Slices(By({h.task : h \in hours}, "task", hours)),
     categorySlices |-> Slices(By({h.category : h \in hours}, "category", hours)),
     statusSlices   |-> Slices(By({h.status : h \in hours}, "status", hours)),
     members |-> MemberRows(p, members, hours)]

---------------------------------------------------------------------------
(* The filters.                                                             *)

\* team_entry_matches.  What is searched for in texts is not modelled.
Matches(h, filters) ==
    /\ filters.member \in {Anything, h.author}
    /\ filters.category = Anything \/ (h.category # Unspecified /\ filters.category = h.category)
    /\ filters.comments = "all" \/ h.comment = (filters.comments = "with")

\* filtered_team_members
ShownMembers(hours, filters) ==
    LET members == Roster \cup {h.author : h \in hours}
    IN  IF filters.member = Anything THEN members ELSE members \cap {filters.member}

ShownHours(hours, filters) == {h \in hours : Matches(h, filters)}

\* ReportsView: the person's own report.
PersonalDocument(p) ==
    Document("individual", p, {User}, {h \in Within(p, Hours) : h.author = User}, NoFilters)

\* TeamReportDocument::new with the filtered report.
TeamDocument(p, hours, filters) ==
    Document("team", p, ShownMembers(hours, filters), ShownHours(hours, filters), filters)

---------------------------------------------------------------------------
(* The page.                                                                *)

NoTeamPeriod == [from |-> 1, to |-> 0]
Idle == [state |-> "idle", period |-> NoTeamPeriod, request |-> 0, hours |-> {}]
FreshPage == [scope |-> "individual", filters |-> NoFilters, document |-> <<>>, notice |-> "none"]
Exporting == page.document # <<>>

DeskInit ==
    /\ page = FreshPage
    /\ \E p \in Periods : period = [shown |-> p, loaded |-> p, loading |-> FALSE]
    /\ team = Idle
    /\ loads = {}
    /\ asked = [count |-> 0, period |-> NoTeamPeriod]

\* start_team_report
StartTeamReport(p) ==
    /\ asked.count < MaxRequests
    /\ asked' = [count |-> asked.count + 1, period |-> p]
    /\ team' = [state |-> "loading", period |-> p, request |-> asked.count + 1, hours |-> {}]
    /\ loads' = loads \cup {[request |-> asked.count + 1, period |-> p]}

\* ensure_team_report: the tab keeps a report of the period that is shown.
OpenTeamTab ==
    /\ page' = [page EXCEPT !.scope = "team"]
    /\ IF team.state = "ready" /\ team.period = period.shown
       THEN UNCHANGED <<team, loads, asked>>
       ELSE StartTeamReport(period.shown)
    /\ UNCHANGED period

OpenIndividualTab ==
    /\ page.scope = "team"
    /\ page' = [page EXCEPT !.scope = "individual"]
    /\ UNCHANGED <<period, team, loads, asked>>

\* update_team_period: the filters go, and the person's own report follows.
ChooseTeamPeriod(p) ==
    /\ page.scope = "team" /\ team.state \in {"ready", "failed"}
    /\ page' = [page EXCEPT !.filters = NoFilters]
    /\ StartTeamReport(p)
    /\ period' = [period EXCEPT !.shown = p, !.loading = TRUE]

RetryTeam ==
    /\ page.scope = "team" /\ team.state = "failed"
    /\ page' = [page EXCEPT !.filters = NoFilters]
    /\ StartTeamReport(team.period)
    /\ UNCHANGED period

\* Mutant: any answer is shown while an answer is awaited.
IsAwaited(load) == team.state = "loading"

\* team_request_is_current
IsCurrent(load) == team.state = "loading" /\ team.request = load.request

\* An answer is shown only if it is the one that is awaited.
TeamAnswers(load) ==
    /\ loads' = loads \ {load}
    /\ \E next \in {[state |-> "ready", period |-> load.period, request |-> load.request,
                     hours |-> Within(load.period, Hours)],
                    [state |-> "failed", period |-> load.period, request |-> load.request,
                     hours |-> {}]} :
         team' = IF IsCurrent(load) THEN next ELSE team
    /\ UNCHANGED <<page, period, asked>>

\* One filter is set, to what the report offers, or all are cleared.
SetFilter ==
    /\ page.scope = "team" /\ team.state = "ready"
    /\ \E member \in Roster \cup {h.author : h \in team.hours} \cup {Anything},
          category \in ({h.category : h \in team.hours} \ {Unspecified}) \cup {Anything},
          comments \in {"all", "with", "without"} :
         page' \in {[page EXCEPT !.filters.member = member],
                    [page EXCEPT !.filters.category = category],
                    [page EXCEPT !.filters.comments = comments],
                    [page EXCEPT !.filters = NoFilters]}
    /\ UNCHANGED <<period, team, loads, asked>>

\* The person's own report: another period is shown while it is read, and the one
\* before comes back when it cannot be read.
ChoosePeriod(p) ==
    /\ page.scope = "individual" /\ ~period.loading
    /\ period' = [period EXCEPT !.shown = p, !.loading = TRUE]
    /\ UNCHANGED <<page, team, loads, asked>>

PeriodAnswers ==
    /\ period.loading
    /\ period' \in {[shown |-> p, loaded |-> p, loading |-> FALSE] :
                       p \in {period.shown, period.loaded}}
    /\ UNCHANGED <<page, team, loads, asked>>

---------------------------------------------------------------------------
(* The export.                                                              *)

\* run_selected_export and start_export: what is shown is copied, and the export goes
\* on in the background.
Export ==
    /\ ~period.loading /\ ~Exporting
    /\ page.scope = "team" => team.state = "ready"
    /\ page' = [page EXCEPT !.notice = "none",
                  !.document = IF page.scope = "individual" THEN PersonalDocument(period.loaded)
                               ELSE TeamDocument(team.period, team.hours, page.filters)]
    /\ UNCHANGED <<period, team, loads, asked>>

\* The dialog is cancelled, the file is written in one piece, or it is not.
ExportEnds ==
    /\ Exporting
    /\ \E notice \in {"none", "saved", "error"} :
         page' = [page EXCEPT !.document = <<>>, !.notice = notice]
    /\ UNCHANGED <<period, team, loads, asked>>

CloseNotice ==
    /\ page.notice # "none"
    /\ page' = [page EXCEPT !.notice = "none"]
    /\ UNCHANGED <<period, team, loads, asked>>

\* Another page of the application: what this one kept goes, with its tasks.
LeaveReports ==
    /\ page' = FreshPage /\ team' = Idle /\ loads' = {}
    /\ UNCHANGED <<period, asked>>

DeskNext ==
    \/ OpenTeamTab \/ OpenIndividualTab \/ RetryTeam
    \/ \E p \in Periods : ChooseTeamPeriod(p) \/ ChoosePeriod(p)
    \/ \E load \in loads : TeamAnswers(load)
    \/ SetFilter \/ PeriodAnswers
    \/ Export \/ ExportEnds \/ CloseNotice \/ LeaveReports

DeskSpec == DeskInit /\ [][DeskNext]_deskVars

---------------------------------------------------------------------------
(* Properties.                                                              *)

DeskTypeOK ==
    /\ page.scope \in {"individual", "team"} /\ page.filters \in Filters
    /\ page.notice \in {"none", "saved", "error"}
    /\ period \in [shown : Periods, loaded : Periods, loading : BOOLEAN]
    /\ team.state \in {"idle", "loading", "ready", "failed"}
    /\ team.period \in Periods \cup {NoTeamPeriod} /\ team.request \in 0 .. MaxRequests
    /\ team.hours \subseteq Hours
    /\ loads \subseteq [request : 1 .. MaxRequests, period : Periods]
    /\ asked.count \in 0 .. MaxRequests /\ asked.period \in Periods \cup {NoTeamPeriod}

\* In whatever order the answers arrive, and however often the tab, the period and the
\* page change meanwhile: the team's report that is shown is of the period that was
\* asked for last, and so is one that is announced.
TeamReportIsTheAskedOne == team.state # "idle" => team.period = asked.period

\* Every table of an exported document accounts for the same hours: the days, the
\* weeks, the tasks and their slices, the categories, the members and the weeks of
\* each member; the percentages do not exceed the whole; and none of it is of another
\* period, or of another person than the one that was chosen.
TablesAccountForHours(d) ==
    LET slices(s) == [i \in DOMAIN s |-> s[i].seconds]
        shares(s) == [i \in DOMAIN s |-> s[i].percentage]
    IN  /\ d.total = SumOf(d.days) /\ d.total = SumOf(d.weeks) /\ d.total = SumOf(d.tasks)
        /\ d.total = SumOf([m \in DOMAIN d.members |-> d.members[m].total])
        /\ \A m \in DOMAIN d.members : d.members[m].total = SumOf(d.members[m].weeks)
        /\ \A s \in {d.taskSlices, d.categorySlices, d.statusSlices} :
             d.total = SumOf(slices(s)) /\ SumOf(shares(s)) <= 100
        /\ d.sources \subseteq Within(d.period, Hours)
        /\ d.scope = "individual" => DOMAIN d.members = {User}
        /\ d.filters.member # Anything => DOMAIN d.members \subseteq {d.filters.member}
===========================================================================
