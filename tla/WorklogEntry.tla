--------------------------- MODULE WorklogEntry ---------------------------
(* The page "My week" of the desktop application: the period it shows, the  *)
(* dialog in which a worklog is entered or edited, and the list of issues   *)
(* the dialog suggests (desktop-app/src/ui.rs, and connection.rs for what   *)
(* is sent to Jira).  How answers reach the window is the subject of        *)
(* DesktopSession; here a submission is the one of the dialog.              *)
(*                                                                          *)
(* What the form's own limits in the browser would refuse may be typed.     *)
EXTENDS Naturals, Sequences, SequencesExt

CONSTANTS Now,              \* the local day; day 0 is a Monday
          MonthStart,
          MaximumRange,     \* maximum_custom_range_days
          Sixty,            \* minutes of an hour and seconds of a minute
          FormHours,        \* maximum_daily_hours of the product
          SavedHours,       \* maximum_daily_hours of the saved settings
          DefaultMinutes, DefaultTime,
          Rows,             \* the worklogs the page may list
          Queries,          \* what the issue field may hold: issues, or part of one
          Keys,             \* the issues
          Matching,         \* the issues whose key or summary contains a query
          NoText,
          Suggestions,      \* the lists of issues a search may return
          EntryDays, EntryDurations,    \* what is typed
          NewEntry, NoOrder, NoOption

ASSUME EntryAssumption ==
    /\ Now \in Nat /\ MonthStart \in 0 .. Now /\ Now >= 7
    /\ MaximumRange \in Nat /\ Sixty \in Nat \ {0}
    /\ FormHours \in Nat /\ SavedHours \in Nat /\ DefaultMinutes \in Nat
    /\ Keys \subseteq Queries /\ NoText \in Queries \ Keys
    /\ Matching \in [Queries -> SUBSET Keys] /\ Matching[NoText] = Keys
    /\ NewEntry \notin Rows
    /\ \A row \in Rows : row.issue \in Keys /\ row.day \in Nat /\ row.seconds \in Nat
    /\ Suggestions \subseteq Seq(Keys)
    /\ EntryDays \subseteq Nat /\ EntryDurations \subseteq [hours : Nat, minutes : Nat]
    /\ NoOrder \notin [editing : Rows \cup {NewEntry}, issue : Keys, day : Nat, minutes : Nat,
                       exact : BOOLEAN]

VARIABLES
    span,       \* the period that is shown
    entry,      \* the dialog: its step, its draft, the worklog being edited
    finder,     \* the suggestions of the dialog
    order,      \* the command of the submission under way, or NoOrder
    sent,       \* what Jira is asked to write for it, or NoOrder
    opened,     \* history: the worklog whose button was pressed for the dialog
    reviewed    \* history: what was on the page as the submission was sent

histories == <<opened, reviewed>>
entryVars == <<span, entry, finder, order, sent, histories>>

---------------------------------------------------------------------------
(* The period.                                                              *)

Span(start, end) == [from |-> start, to |-> end]
WeekContaining(day) == Span(day - (day % 7), day - (day % 7) + 6)
WeekToDate == Span(WeekContaining(Now).from, Now)

\* The arrows are there for whole weeks and for the week so far.
IsWeekView(p) == p = WeekContaining(p.from) \/ p = WeekToDate

\* Mutant: a week is shown to its end.
ShiftedToWhole(start) == WeekContaining(start)

\* shifted_period: a week is shown up to today.
ShiftedTo(start) == Span(WeekContaining(start).from,
                         IF WeekContaining(start).to > Now THEN Now ELSE WeekContaining(start).to)

Earlier(p) == ShiftedTo(p.from - 7)
Later(p) == ShiftedTo(p.from + 7)

Presets == {WeekToDate, Span(WeekToDate.from - 7, WeekToDate.from - 1),
            Span(IF Now < 13 THEN 0 ELSE Now - 13, Now), Span(MonthStart, Now)}

\* parse_range.
CustomSpans == {p \in [from : 0 .. Now, to : 0 .. Now] :
                   p.from <= p.to /\ p.to - p.from + 1 <= MaximumRange}

\* Bound: the page does not go back beyond day 0.
ShiftPeriod ==
    /\ IsWeekView(span)
    /\ \/ span.from >= 7 /\ span' = Earlier(span)
       \/ span.to < Now /\ span' = Later(span)
    /\ UNCHANGED <<entry, finder, order, sent, histories>>

ApplyRange ==
    /\ span' \in Presets \cup CustomSpans
    /\ UNCHANGED <<entry, finder, order, sent, histories>>

PeriodNext == ShiftPeriod \/ ApplyRange

---------------------------------------------------------------------------
(* The draft.                                                               *)

\* A draft's duration is typed as hours and minutes.
Parts(minutes) == [hours |-> minutes \div Sixty, minutes |-> minutes % Sixty]
Total(draft) == draft.duration.hours * Sixty + draft.duration.minutes

FreshDraft(row) ==
    IF row = NewEntry
    THEN [issue |-> NoText, day |-> Now, duration |-> Parts(DefaultMinutes)]
    ELSE [issue |-> row.issue, day |-> row.day, duration |-> Parts(row.seconds \div Sixty)]

\* build_command.
IsReviewable(draft) ==
    /\ draft.duration.hours <= FormHours /\ draft.duration.minutes < Sixty
    /\ Total(draft) > 0
    /\ draft.issue \in Keys

NoDialog(row) == [step |-> "none", editing |-> row, draft |-> FreshDraft(NewEntry),
                  submission |-> "idle"]

\* The suggestions of a dialog that opens: the unlogged issues of the sprint are
\* being asked for.
FreshFinder == [results |-> <<>>, open |-> FALSE, active |-> NoOption,
                busy |-> TRUE, task |-> "assigned"]
NoFinder == [FreshFinder EXCEPT !.busy = FALSE, !.task = "none"]

EntryInit ==
    /\ span = WeekToDate
    /\ entry = NoDialog(NewEntry)
    /\ finder = NoFinder
    /\ order = NoOrder /\ sent = NoOrder
    /\ opened = NewEntry /\ reviewed = NoOrder

---------------------------------------------------------------------------
(* Opening and closing the dialog.                                          *)

Listed == {row \in Rows : span.from <= row.day /\ row.day <= span.to}

\* The buttons of the page are there behind the dialog, too: pressed again they set
\* what is being edited and lead back to the form, whose draft is the one it was.  A
\* success that no dialog was there to see closes the next one as it opens.
OpenWith(row, editing) ==
    /\ \/ /\ entry.submission = "succeeded"
          /\ entry' = NoDialog(NewEntry)
          /\ UNCHANGED <<finder, opened>>
       \/ /\ entry.submission # "succeeded"
          /\ entry' = [entry EXCEPT !.step = "form", !.editing = editing,
                          !.draft = IF entry.step = "none" THEN FreshDraft(editing) ELSE @]
          /\ finder' = IF entry.step = "none" THEN FreshFinder ELSE finder
          /\ opened' = row
    /\ UNCHANGED <<span, order, sent, reviewed>>

\* Mutant: the worklog that was edited last is not forgotten.
OpenLast == OpenWith(NewEntry, entry.editing)

OpenNew == OpenWith(NewEntry, NewEntry)
OpenRow == \E row \in Listed : OpenWith(row, row)

\* The worklog being edited is kept.
CloseWith(submission) ==
    /\ entry.step # "none"
    /\ entry' = [NoDialog(entry.editing) EXCEPT !.submission = submission]
    /\ finder' = NoFinder
    /\ opened' = NewEntry
    /\ UNCHANGED <<span, order, sent, reviewed>>

\* Cancel keeps the submission as it is, its error or that it is under way.
Cancel == entry.step = "form" /\ CloseWith(entry.submission)
Close == entry.submission # "pending" /\ CloseWith("idle")

\* The search that was under way goes away with the form that asked for it, and
\* nobody says any more that it has ended.
Review ==
    /\ entry.step = "form" /\ IsReviewable(entry.draft)
    /\ entry' = [entry EXCEPT !.step = "review"]
    /\ finder' = [finder EXCEPT !.task = IF @ = "found" THEN "none" ELSE @]
    /\ UNCHANGED <<span, order, sent, histories>>

Back ==
    /\ entry.step = "review" /\ entry.submission # "pending"
    /\ entry' = [entry EXCEPT !.step = "form"]
    /\ UNCHANGED <<span, finder, order, sent, histories>>

---------------------------------------------------------------------------
(* The form.                                                                *)

InForm == entry.step = "form"

TypeEntry ==
    /\ InForm
    /\ \/ \E day \in EntryDays : entry' = [entry EXCEPT !.draft.day = day]
       \/ \E duration \in EntryDurations :
            entry' = [entry EXCEPT !.draft.duration = duration]
    /\ UNCHANGED <<span, finder, order, sent, histories>>

TypeQuery ==
    /\ InForm
    /\ \E query \in Queries : entry' = [entry EXCEPT !.draft.issue = query]
    /\ finder' = [finder EXCEPT !.open = TRUE, !.active = NoOption]
    /\ UNCHANGED <<span, order, sent, histories>>

\* filter_suggestions keeps the order.
Visible ==
    LET show(shown, issue) ==
            IF issue \in Matching[entry.draft.issue] THEN Append(shown, issue) ELSE shown
    IN  FoldLeft(show, <<>>, finder.results)

\* next_option: around the end in both directions; options count from 0.
NextOption(current, count, down) ==
    IF count = 0 THEN NoOption
    ELSE IF down THEN IF current = NoOption THEN 0 ELSE (current + 1) % count
    ELSE IF current \in {NoOption, 0} THEN count - 1 ELSE current - 1

MoveOption ==
    /\ InForm
    /\ \E down \in BOOLEAN :
         finder' = [finder EXCEPT !.open = TRUE,
                                  !.active = NextOption(@, Len(Visible), down)]
    /\ UNCHANGED <<span, entry, order, sent, histories>>

Hover ==
    /\ InForm /\ finder.open
    /\ \E option \in 1 .. Len(Visible) : finder' = [finder EXCEPT !.active = option - 1]
    /\ UNCHANGED <<span, entry, order, sent, histories>>

PickOption(option) ==
    /\ entry' = [entry EXCEPT !.draft.issue = Visible[option + 1]]
    /\ finder' = [finder EXCEPT !.open = FALSE, !.active = NoOption]
    /\ UNCHANGED <<span, order, sent, histories>>

\* Enter picks the active option, whether the list is open or not.
Pick ==
    /\ InForm
    /\ \E option \in 0 .. Len(Visible) - 1 :
         /\ finder.open \/ option = finder.active
         /\ PickOption(option)

\* Focus and the button open; the button closes and keeps the active option.
Toggle ==
    /\ InForm
    /\ finder' = [finder EXCEPT !.open = ~@]
    /\ UNCHANGED <<span, entry, order, sent, histories>>

CloseList ==
    /\ InForm
    /\ finder' = [finder EXCEPT !.open = FALSE, !.active = NoOption]
    /\ UNCHANGED <<span, entry, order, sent, histories>>

Search ==
    /\ InForm /\ ~finder.busy /\ entry.draft.issue # NoText
    /\ finder' = [finder EXCEPT !.open = TRUE, !.busy = TRUE, !.task = "found"]
    /\ UNCHANGED <<span, entry, order, sent, histories>>

\* An answer replaces the suggestions and leaves the active option; an error, or a
\* search without result, leaves both.
SearchAnswers ==
    /\ finder.task # "none"
    /\ \E results \in Suggestions \cup {finder.results} :
         finder' = [finder EXCEPT !.results = results, !.busy = FALSE, !.task = "none"]
    /\ UNCHANGED <<span, entry, order, sent, histories>>

FinderNext ==
    TypeQuery \/ MoveOption \/ Hover \/ Pick \/ Toggle \/ CloseList \/ Search \/ SearchAnswers

---------------------------------------------------------------------------
(* The submission.                                                          *)

\* Mutant: the seconds of a worklog are never kept.
RoundedCommand(draft, editing) ==
    [editing |-> editing, issue |-> draft.issue, day |-> draft.day,
     minutes |-> Total(draft), exact |-> FALSE]

\* finish_worklog: an edited worklog keeps its seconds if its minutes were not changed.
Command(draft, editing) ==
    [editing |-> editing, issue |-> draft.issue, day |-> draft.day,
     minutes |-> Total(draft),
     exact |-> editing # NewEntry /\ Total(draft) = editing.seconds \div Sixty]

Submit ==
    /\ entry.step = "review" /\ entry.submission # "pending"
    /\ entry' = [entry EXCEPT !.submission = "pending"]
    /\ order' = Command(entry.draft, entry.editing)
    /\ reviewed' = [row |-> opened, draft |-> entry.draft, span |-> span]
    /\ UNCHANGED <<span, finder, sent, opened>>

\* Mutant: a date in the future is accepted.
IsShortEnough(command) == command.minutes <= SavedHours * Sixty

\* validate_date and validate_daily_duration.
IsAccepted(command) == command.day <= Now /\ command.minutes <= SavedHours * Sixty

\* worklog_input and update_input: a new worklog begins at the configured time of
\* the day, an edited one at its own.
Input(command) ==
    [row |-> command.editing, issue |-> command.issue, day |-> command.day,
     time |-> IF command.editing = NewEntry THEN DefaultTime ELSE command.editing.time,
     seconds |-> IF command.exact THEN command.editing.seconds ELSE command.minutes * Sixty]

\* The issue is one of the board and the input is valid.
Send ==
    /\ order # NoOrder /\ sent = NoOrder /\ IsAccepted(order)
    /\ sent' = Input(order)
    /\ UNCHANGED <<span, entry, finder, order, histories>>

\* A dialog that is open stays so, with the error.  The page shows what it showed as
\* the submission was sent, whatever it shows by now.
SubmissionFails ==
    /\ order # NoOrder
    /\ entry' = [entry EXCEPT !.submission = "failed"]
    /\ span' = reviewed.span
    /\ order' = NoOrder /\ sent' = NoOrder /\ reviewed' = NoOrder
    /\ UNCHANGED <<finder, opened>>

\* The dialog closes, whatever it is open for by now; without one the success waits
\* for the next.  The page shows the week so far, or, if that could not be loaded,
\* the period of the submission.
SubmissionSucceeds ==
    /\ sent # NoOrder
    /\ entry' = IF entry.step = "none" THEN [entry EXCEPT !.submission = "succeeded"]
                ELSE NoDialog(NewEntry)
    /\ finder' = NoFinder /\ opened' = NewEntry
    /\ span' \in {reviewed.span, WeekToDate}
    /\ order' = NoOrder /\ sent' = NoOrder /\ reviewed' = NoOrder

DialogNext ==
    \/ OpenNew \/ OpenRow \/ Cancel \/ Close \/ TypeEntry \/ Review \/ Back
    \/ Submit \/ Send \/ SubmissionFails \/ SubmissionSucceeds

EntryNext == PeriodNext \/ FinderNext \/ DialogNext
EntrySpec == EntryInit /\ [][EntryNext]_entryVars

---------------------------------------------------------------------------
EntryTypeOK ==
    /\ span \in [from : 0 .. Now, to : 0 .. Now + 6] /\ span.from <= span.to
    /\ entry.step \in {"none", "form", "review"}
    /\ entry.editing \in Rows \cup {NewEntry} /\ opened \in Rows \cup {NewEntry}
    /\ entry.draft.issue \in Queries /\ entry.draft.day \in Nat
    /\ entry.submission \in {"idle", "pending", "failed", "succeeded"}
    /\ (entry.submission = "pending") = (order # NoOrder)
    /\ entry.submission = "succeeded" => entry.step = "none"
    /\ finder.results \in Suggestions \cup {<<>>}
    /\ finder.open \in BOOLEAN /\ finder.busy \in BOOLEAN
    /\ finder.active \in Nat \cup {NoOption}
    /\ finder.task \in {"none", "assigned", "found"} /\ (finder.task # "none" => finder.busy)

\* What Jira is asked to write is what the review showed as it was confirmed, for the
\* worklog whose button was pressed last, whatever has become of the dialog since: a
\* new worklog, or the edited one with its own time of day, and to the second as long
\* as its minutes are the same.  None is in the future.
WorklogsAreSentAsReviewed ==
    sent # NoOrder =>
        LET row == reviewed.row
            draft == reviewed.draft
        IN  /\ sent.row = row /\ sent.issue = draft.issue /\ sent.day = draft.day
            /\ sent.day <= Now /\ sent.seconds > 0
            /\ IF row # NewEntry /\ Total(draft) = row.seconds \div Sixty
               THEN sent.seconds = row.seconds
               ELSE sent.seconds = Total(draft) * Sixty
            /\ sent.time = IF row = NewEntry THEN DefaultTime ELSE row.time

\* The arrows lead from week to week and back, up to the week so far: whatever period
\* was shown, the week after the week before it is the one that was shown, and
\* nothing after today is.
ArrowsLeadBack ==
    /\ span.to <= Now
    /\ IsWeekView(span) /\ span.from >= 7 => Later(Earlier(span)) = span
=============================================================================
