-------------------------- MODULE WorklogReports --------------------------
(* The reports on worklogs that the Jira adapter puts together from many    *)
(* requests (jira-adapter/src/client.rs, hours-core/src,                    *)
(* worklogger-mcp/src/jira_hours.rs):                                       *)
(*    own        the hours of the signed-in person in a period              *)
(*    team       the hours of everybody on the board in a period            *)
(*    unlogged   the issues assigned to the person without hours of theirs  *)
(* Each lists issues first and then reads the worklogs of each, a few at a  *)
(* time, while people go on logging hours.  A list of pages is read in one  *)
(* step here; how it is read is the subject of ProviderReads.               *)
EXTENDS Naturals, Sequences, FiniteSets, Functions

CONSTANTS Issues,
          Worklogs,           \* identifiers
          IssueOf,            \* the issue a worklog is on
          SecondsOf,          \* the time it reports
          Me, Others,         \* the signed-in person and the rest of the team
          Today,              \* the local day; day 0 is a Monday
          MaximumDays,        \* maximum_report_period_days
          TargetSeconds,
          Width,              \* 2^32, the values of u32
          Concurrency,        \* maximum_concurrent_worklog_requests
          NoPeriod, NoDay,
          MaxEdits            \* bound: the changes by other people during a report

ASSUME ReportsAssumption ==
    /\ IsFiniteSet(Issues) /\ IsFiniteSet(Worklogs)
    /\ IssueOf \in [Worklogs -> Issues] /\ SecondsOf \in [Worklogs -> Nat \ {0}]
    /\ Me \notin Others
    /\ Today \in Nat /\ MaximumDays \in Nat /\ MaxEdits \in Nat
    /\ TargetSeconds \in Nat \ {0} /\ Width \in Nat /\ Width > TargetSeconds
    /\ Concurrency \in Nat \ {0}

VARIABLES
    worklogs,   \* the provider's worklogs
    kept,       \* history: those that nobody changed since the report began
    edits,      \* history: how many changes
    report      \* the report under way

reportVars == <<worklogs, kept, edits, report>>

Persons == Others \cup {Me}
Days == 0 .. Today

\* fine; undated: its time of start cannot be read; empty: no identifier, no author
\* or no time.
Conditions == {"fine", "undated", "empty"}
WorklogStates == [there : BOOLEAN, author : Persons, day : Days, condition : Conditions]

\* What became of the worklogs of an issue: a read, an error of this issue only
\* (not allowed, not found, invalid), or an error that ends the report.
LoadStates == {"waiting", "read", "warned", "fatal"}

---------------------------------------------------------------------------
(* The period.                                                              *)

ReportPeriods == {p \in [from : Days, to : Days] : p.from <= p.to}
InPeriod(period, day) == period.from <= day /\ day <= period.to

PeriodRequests ==
    LET dates == (0 .. Today + 1) \cup {NoDay} IN [from : dates, to : dates]

\* Mutant: only the order of the dates is looked at.
ResolvedInOrder(request) ==
    IF request.from = NoDay /\ request.to = NoDay
    THEN [from |-> Today - (Today % 7), to |-> Today]
    ELSE IF request.from = NoDay \/ request.to = NoDay \/ request.from > request.to
    THEN NoPeriod
    ELSE request

\* resolve_period: the week so far, or what was asked for: with both dates, not
\* after today, not inverted, and not too long.
Resolved(request) ==
    IF request.from = NoDay /\ request.to = NoDay
    THEN [from |-> Today - (Today % 7), to |-> Today]
    ELSE IF request.from = NoDay \/ request.to = NoDay THEN NoPeriod
    ELSE IF request.to > Today \/ request.from > request.to
            \/ request.to - request.from + 1 > MaximumDays
    THEN NoPeriod
    ELSE request

---------------------------------------------------------------------------
(* One issue.                                                               *)

\* What the provider returns for an issue between the bounds of the period.
Returned(issue) ==
    {w \in Worklogs : /\ worklogs[w].there /\ IssueOf[w] = issue
                      /\ InPeriod(report.period, worklogs[w].day)}

\* The worklogs a report is about.
Relevant(kind, author) == kind = "team" \/ author = Me

Entries(issue) ==
    {[id |-> w, author |-> worklogs[w].author, day |-> worklogs[w].day] :
        w \in {v \in Returned(issue) : /\ worklogs[v].condition = "fine"
                                       /\ Relevant(report.kind, worklogs[v].author)}}

\* validate_worklogs refuses all worklogs of an issue for one that is empty.
Invalid(issue) == \E w \in Returned(issue) : worklogs[w].condition = "empty"

Unmapped(issue) ==
    \E w \in Returned(issue) : /\ worklogs[w].condition = "undated"
                               /\ Relevant(report.kind, worklogs[w].author)

---------------------------------------------------------------------------
(* WeeklySummary::calculate, in the arithmetic of u32.                      *)

SumSeconds(entries) ==
    FoldFunctionOnSet(LAMBDA a, b : (a + b) % Width, 0, SecondsOf, {e.id : e \in entries})

Summary(entries) ==
    LET loaded == SumSeconds(entries)
        percent == (loaded * 100) \div TargetSeconds
    IN  [loaded   |-> loaded,
         missing  |-> IF loaded < TargetSeconds THEN TargetSeconds - loaded ELSE 0,
         progress |-> IF percent < 100 THEN percent ELSE 100,
         days     |-> [day \in report.period.from .. report.period.to |->
                          SumSeconds({e \in entries : e.day = day})],
         tasks    |-> [issue \in {IssueOf[e.id] : e \in entries} |->
                          SumSeconds({e \in entries : IssueOf[e.id] = issue})]]

NoSummary == <<>>

---------------------------------------------------------------------------
(* The steps of a report.                                                   *)

ReportKinds == {"own", "team", "unlogged"}

ReportInit ==
    /\ worklogs \in [Worklogs -> WorklogStates]
    /\ \A w \in Worklogs :
         ~worklogs[w].there => /\ worklogs[w].author = Me /\ worklogs[w].day = 0
                               /\ worklogs[w].condition = "fine"
    /\ kept = {w \in Worklogs : worklogs[w].there}
    /\ edits = 0
    /\ \E kind \in ReportKinds, request \in PeriodRequests :
         /\ kind = "team" => Resolved(request) # NoPeriod
         /\ report = [kind |-> kind, period |-> Resolved(request),
                      phase |-> IF Resolved(request) = NoPeriod THEN "refused" ELSE "listing",
                      issues |-> <<>>, loads |-> <<>>, entries |-> {}, warned |-> {},
                      suggested |-> {}, members |-> {}, summary |-> NoSummary]

\* The issues with worklogs in the period, or those assigned to the person in the
\* open sprints, in the provider's order.
ListIssues ==
    /\ report.phase = "listing"
    /\ \E chosen \in IF report.kind = "unlogged" THEN SUBSET Issues
                     ELSE {{issue \in Issues : Returned(issue) # {}}} :
       \E order \in [1 .. Cardinality(chosen) -> chosen] :
         /\ IsInjective(order)
         /\ report' = [report EXCEPT !.issues = order, !.phase = "loading",
                                     !.loads = [i \in DOMAIN order |-> "waiting"]]
    /\ UNCHANGED <<worklogs, kept, edits>>

\* An error while issues, the roster or the person are asked for.
ListingFails ==
    /\ report.phase = "listing"
    /\ report' = [report EXCEPT !.phase = "failed"]
    /\ UNCHANGED <<worklogs, kept, edits>>

\* buffered(n): as many requests as n, counted from the first issue without answer.
MayLoad(i) ==
    /\ report.phase = "loading"
    /\ i \in DOMAIN report.loads /\ report.loads[i] = "waiting"
    /\ \A j \in 1 .. i : report.loads[j] = "waiting" => i < j + Concurrency

\* Mutant: an issue that cannot be read is passed over.
WarnedOnlyUnmapped(issue) == IF Unmapped(issue) THEN {issue} ELSE {}

\* map_own_time_entries, map_team_worklogs, collect_own_time_entry_results.
WarnedOf(issue) == IF Invalid(issue) \/ Unmapped(issue) THEN {issue} ELSE {}

\* Mutant: hours count when anybody logged them.
HasHours(issue) == \E w \in Returned(issue) : worklogs[w].condition = "fine"

\* own_worklog_presence: one valid worklog is enough; only invalid ones are an error.
HasOwnHours(issue) ==
    \E w \in Returned(issue) : worklogs[w].author = Me /\ worklogs[w].condition = "fine"

LoadIssue(i) ==
    /\ MayLoad(i)
    /\ LET issue == report.issues[i]
       IN  report' =
             IF report.kind = "unlogged"
             THEN [report EXCEPT
                     !.loads[i] = IF Invalid(issue) \/ (Unmapped(issue) /\ ~HasOwnHours(issue))
                                  THEN "warned" ELSE "read",
                     !.suggested = IF HasOwnHours(issue) THEN @ ELSE @ \cup {issue}]
             ELSE [report EXCEPT
                     !.loads[i] = IF Invalid(issue) THEN "warned" ELSE "read",
                     !.entries = IF Invalid(issue) THEN @ ELSE @ \cup Entries(issue),
                     !.warned = @ \cup WarnedOf(issue)]
    /\ UNCHANGED <<worklogs, kept, edits>>

\* recoverable_issue_error, or an error of another kind.
LoadFails(i) ==
    /\ MayLoad(i)
    /\ \E fate \in {"warned", "fatal"} :
         report' = [report EXCEPT
                      !.loads[i] = fate,
                      !.warned = IF fate = "warned" THEN @ \cup {report.issues[i]} ELSE @]
    /\ UNCHANGED <<worklogs, kept, edits>>

\* All answers are in.  A fatal one ends every report; a search for issues without
\* hours has no warnings and ends on any.
Collect ==
    /\ report.phase = "loading"
    /\ \A i \in DOMAIN report.loads : report.loads[i] # "waiting"
    /\ LET bad == IF report.kind = "unlogged" THEN {"warned", "fatal"} ELSE {"fatal"}
       IN  IF \E i \in DOMAIN report.loads : report.loads[i] \in bad
           THEN report' = [report EXCEPT !.phase = "failed"]
           ELSE \E roster \in IF report.kind = "team" THEN SUBSET Persons ELSE {{}} :
                  report' = [report EXCEPT
                    !.phase = "told",
                    !.members = IF report.kind = "team"
                                THEN roster \cup {e.author : e \in report.entries} ELSE {},
                    !.summary = IF report.kind = "own" THEN Summary(report.entries)
                                ELSE NoSummary]
    /\ UNCHANGED <<worklogs, kept, edits>>

\* Somebody logs, changes or deletes hours meanwhile.
Edit(w) ==
    /\ report.phase \in {"listing", "loading"} /\ edits < MaxEdits
    /\ worklogs' \in {[worklogs EXCEPT ![w] = new] : new \in WorklogStates \ {worklogs[w]}}
    /\ kept' = kept \ {w}
    /\ edits' = edits + 1
    /\ UNCHANGED report

ReportNext ==
    \/ ListIssues \/ ListingFails
    \/ \E i \in DOMAIN report.loads : LoadIssue(i) \/ LoadFails(i)
    \/ Collect
    \/ \E w \in Worklogs : Edit(w)

ReportSpec == ReportInit /\ [][ReportNext]_reportVars

---------------------------------------------------------------------------
(* Properties.                                                              *)

ReportTypeOK ==
    /\ worklogs \in [Worklogs -> WorklogStates]
    /\ kept \subseteq Worklogs /\ edits \in 0 .. MaxEdits
    /\ report.kind \in ReportKinds
    /\ report.period \in ReportPeriods \cup {NoPeriod}
    /\ report.phase \in {"refused", "listing", "loading", "failed", "told"}
    /\ report.issues \in Seq(Issues)
    /\ DOMAIN report.loads = DOMAIN report.issues
    /\ \A i \in DOMAIN report.loads : report.loads[i] \in LoadStates
    /\ report.entries \subseteq [id : Worklogs, author : Persons, day : Days]
    /\ report.warned \subseteq Issues /\ report.members \subseteq Persons

\* A worklog that nobody touched during the report and that the report is about.
Counts(w) ==
    /\ w \in kept /\ worklogs[w].condition = "fine"
    /\ InPeriod(report.period, worklogs[w].day) /\ Relevant(report.kind, worklogs[w].author)

\* The hours a report tells of.  In whatever order the answers arrive and whatever is
\* logged meanwhile: hours that were there throughout are in the report or their issue
\* is named in a warning, the totals by day and by task agree with the total, nothing
\* is missing exactly when the week is complete, and only an error that is not the
\* issue's own ends the report.
HoursAccountedFor ==
    /\ report.phase = "told" =>
         \A w \in Worklogs : Counts(w) => \/ \E e \in report.entries : e.id = w
                                          \/ IssueOf[w] \in report.warned
    /\ report.phase = "told" /\ report.kind = "own" =>
         LET sum(f) == FoldFunction(LAMBDA a, b : (a + b) % Width, 0, f)
         IN  /\ report.summary.loaded = sum(report.summary.days)
             /\ report.summary.loaded = sum(report.summary.tasks)
             /\ (report.summary.progress = 100) = (report.summary.missing = 0)
    /\ report.phase = "failed" /\ report.loads # <<>> =>
         \E i \in DOMAIN report.loads : report.loads[i] = "fatal"

\* An issue that is suggested has no hours of the person's own that were there
\* throughout, and an issue without any, throughout, is suggested.
UnloggedSuggested ==
    report.phase = "told" =>
        \A i \in DOMAIN report.issues :
            LET issue == report.issues[i]
                own == {w \in Worklogs : /\ IssueOf[w] = issue /\ worklogs[w].there
                                         /\ worklogs[w].author = Me
                                         /\ InPeriod(report.period, worklogs[w].day)}
            IN  /\ issue \in report.suggested =>
                       \A w \in own \cap kept : worklogs[w].condition # "fine"
                /\ issue \notin report.suggested => own # {} \/ edits > 0

\* Reports keep to both, each to the one that is about it.
ReportsAreRight ==
    IF report.kind = "unlogged" THEN UnloggedSuggested ELSE HoursAccountedFor
===========================================================================
