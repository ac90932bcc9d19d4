------------------------ MODULE DesktopPages_proofs -------------------------
(* Two pages of the desktop window.  My week: whatever worklogs are listed, *)
(* whatever is typed and whenever answers come, a worklog is sent as it was *)
(* reviewed, and the arrows of the period lead back, on whatever day.  The  *)
(* reports: however the answers to the loads of the team report are ordered,*)
(* the page shows the report that was asked for last, and what it exports   *)
(* is of a complete report, whose tables, sheets, charts and pages account  *)
(* for the same hours.  At the end the parts side by side: each acts as it  *)
(* does alone.                                                              *)
EXTENDS MCParts, ServerParts_proofs, TLAPS

---------------------------------------------------------------------------
(* The period.                                                              *)

ShownPeriods == {p \in [from : Nat, to : Nat] : p.from <= p.to /\ p.to <= Now}

\* Today is the end of every period that is shown, or that a submission falls back to.
PeriodShown == /\ span \in ShownPeriods
               /\ order # NoOrder => reviewed.span \in ShownPeriods

LEMMA TodayIsNatural == Now \in Nat /\ Now >= 7 /\ MonthStart \in Nat /\ MonthStart <= Now
BY EntryAssumption, SMT DEF EntryAssumption

LEMMA Mondays ==
    ASSUME NEW d \in Nat
    PROVE  /\ d - (d % 7) \in Nat /\ d - (d % 7) <= d /\ d <= d - (d % 7) + 6
           /\ (d - (d % 7)) % 7 = 0
           /\ (d % 7 = 0 => (d + 7) % 7 = 0)
           /\ (d % 7 = 0 /\ d >= 7 => (d - 7) % 7 = 0)
           /\ (d >= 7 => d - (d % 7) >= 7)
           /\ (d = d - (d % 7) => d % 7 = 0)
BY SMT

\* A week as it is shown, up to today.
LEMMA ShownWeek ==
    ASSUME NEW d \in Nat, d - (d % 7) <= Now
    PROVE  /\ ShiftedTo(d) \in ShownPeriods
           /\ ShiftedTo(d).from = d - (d % 7)
           /\ ShiftedTo(d).to = IF d - (d % 7) + 6 > Now THEN Now ELSE d - (d % 7) + 6
<1>1. /\ WeekContaining(d) = [from |-> d - (d % 7), to |-> d - (d % 7) + 6]
      /\ d - (d % 7) \in Nat
  BY Mondays DEF WeekContaining, Span
<1>. DEFINE start == d - (d % 7)
            end == IF start + 6 > Now THEN Now ELSE start + 6
<1>2. ShiftedTo(d) = [from |-> start, to |-> end]
  BY <1>1 DEF ShiftedTo, Span
<1>3. start \in Nat /\ start <= Now
  BY <1>1
<1>. HIDE DEF start
<1>4. end \in Nat /\ start <= end /\ end <= Now
  BY <1>3, TodayIsNatural, SMT
<1>. HIDE DEF end
<1>5. ShiftedTo(d) \in ShownPeriods /\ ShiftedTo(d).from = start /\ ShiftedTo(d).to = end
  BY <1>2, <1>3, <1>4 DEF ShownPeriods
<1>. QED
  BY <1>5 DEF start, end

LEMMA WeekSoFar ==
    /\ WeekToDate \in ShownPeriods
    /\ WeekToDate.from = Now - (Now % 7) /\ WeekToDate.to = Now
<1>1. Now \in Nat /\ Now - (Now % 7) \in Nat /\ Now - (Now % 7) <= Now
  BY TodayIsNatural, Mondays
<1>2. WeekToDate = [from |-> Now - (Now % 7), to |-> Now]
  BY DEF WeekToDate, WeekContaining, Span
<1>. DEFINE start == Now - (Now % 7)
<1>. HIDE DEF start
<1>3. WeekToDate \in ShownPeriods /\ WeekToDate.from = start /\ WeekToDate.to = Now
  <2>1. start \in Nat /\ start <= Now
    BY <1>1 DEF start
  <2>2. WeekToDate = [from |-> start, to |-> Now]
    BY <1>2 DEF start
  <2>. QED
    BY <2>1, <2>2, <1>1 DEF ShownPeriods
<1>. QED
  BY <1>3 DEF start

\* A period with arrows begins on a Monday and ends on its Sunday or today.
LEMMA WeekViews ==
    ASSUME NEW p \in ShownPeriods, IsWeekView(p)
    PROVE  /\ p.from % 7 = 0
           /\ p.to = IF p.from + 6 > Now THEN Now ELSE p.from + 6
<1>1. p.from \in Nat /\ p.to \in Nat /\ p.from <= p.to /\ p.to <= Now
  BY DEF ShownPeriods
<1>2. CASE p = WeekContaining(p.from)
  <2>1. p.from = p.from - (p.from % 7) /\ p.to = p.from - (p.from % 7) + 6
    <3>1. /\ WeekContaining(p.from).from = p.from - (p.from % 7)
          /\ WeekContaining(p.from).to = p.from - (p.from % 7) + 6
      BY DEF WeekContaining, Span
    <3>. QED
      BY <3>1, <1>2
  <2>2. p.from % 7 = 0
    BY <2>1, <1>1, Mondays
  <2>3. p.to = p.from + 6
    BY <2>1, <2>2, <1>1, SMT
  <2>. QED
    BY <2>2, <2>3, <1>1, TodayIsNatural, SMT
<1>3. CASE p = WeekToDate
  <2>1. p.from = Now - (Now % 7) /\ p.to = Now
    BY <1>3, WeekSoFar
  <2>2. p.from % 7 = 0 /\ Now <= p.from + 6
    BY <2>1, TodayIsNatural, Mondays
  <2>. QED
    BY <2>1, <2>2, <1>1, TodayIsNatural, SMT
<1>. QED
  BY <1>2, <1>3 DEF IsWeekView

LEMMA EarlierWeek ==
    ASSUME NEW p \in ShownPeriods, IsWeekView(p), p.from >= 7
    PROVE  /\ Earlier(p) \in ShownPeriods
           /\ Earlier(p).from = p.from - 7 /\ Earlier(p).to = p.from - 1
<1>1. p.from \in Nat /\ p.to \in Nat /\ p.from <= p.to /\ p.to <= Now /\ p.from % 7 = 0
  BY WeekViews DEF ShownPeriods
<1>. DEFINE d == p.from - 7
<1>2. d \in Nat /\ d % 7 = 0 /\ d <= Now /\ d + 6 <= Now /\ d + 6 = p.from - 1
  BY <1>1, Mondays, TodayIsNatural, SMT
<1>3. Earlier(p) = ShiftedTo(d)
  BY DEF Earlier
<1>. HIDE DEF d
<1>4. d - (d % 7) = d
  BY <1>2, SMT
<1>5. /\ ShiftedTo(d) \in ShownPeriods /\ ShiftedTo(d).from = d
      /\ ShiftedTo(d).to = IF d + 6 > Now THEN Now ELSE d + 6
  BY <1>2, <1>4, ShownWeek
<1>6. ShiftedTo(d).to = d + 6
  BY <1>2, <1>5, TodayIsNatural, SMT
<1>7. ShiftedTo(d) \in ShownPeriods /\ ShiftedTo(d).from = d /\ ShiftedTo(d).to = p.from - 1
  BY <1>2, <1>5, <1>6
<1>. QED
  BY <1>3, <1>7 DEF d

LEMMA LaterWeek ==
    ASSUME NEW p \in ShownPeriods, p.from % 7 = 0, p.from + 7 <= Now
    PROVE  /\ Later(p) \in ShownPeriods
           /\ Later(p).from = p.from + 7
           /\ Later(p).to = IF p.from + 13 > Now THEN Now ELSE p.from + 13
<1>1. p.from \in Nat
  BY DEF ShownPeriods
<1>. DEFINE d == p.from + 7
<1>2. d \in Nat /\ d % 7 = 0 /\ d <= Now /\ d + 6 = p.from + 13
  BY <1>1, Mondays, TodayIsNatural, SMT
<1>3. Later(p) = ShiftedTo(d)
  BY DEF Later
<1>. HIDE DEF d
<1>4. d - (d % 7) = d
  BY <1>2, SMT
<1>5. /\ ShiftedTo(d) \in ShownPeriods /\ ShiftedTo(d).from = d
      /\ ShiftedTo(d).to = IF d + 6 > Now THEN Now ELSE d + 6
  BY <1>2, <1>4, ShownWeek
<1>6. ShiftedTo(d).to = IF p.from + 13 > Now THEN Now ELSE p.from + 13
  BY <1>2, <1>5
<1>. QED
  BY <1>3, <1>5, <1>6 DEF d

\* The week after the week before is the one that was shown.
LEMMA ThereAndBack ==
    ASSUME NEW p \in ShownPeriods, IsWeekView(p), p.from >= 7
    PROVE  Later(Earlier(p)) = p
<1>. DEFINE q == Earlier(p)
<1>1. q \in ShownPeriods /\ q.from = p.from - 7
  BY EarlierWeek
<1>2. /\ p.from \in Nat /\ p.from <= Now /\ p.from % 7 = 0
      /\ p.to = IF p.from + 6 > Now THEN Now ELSE p.from + 6
  BY WeekViews, TodayIsNatural, SMT DEF ShownPeriods
<1>. HIDE DEF q
<1>3. q.from % 7 = 0 /\ q.from + 7 <= Now /\ q.from + 7 = p.from /\ q.from + 13 = p.from + 6
  BY <1>1, <1>2, Mondays, TodayIsNatural, SMT
<1>4. Later(q) \in ShownPeriods /\ Later(q).from = p.from /\ Later(q).to = p.to
  BY <1>1, <1>2, <1>3, LaterWeek
<1>5. Later(q) = p
  BY <1>4 DEF ShownPeriods
<1>. QED
  BY <1>5 DEF q

LEMMA OfferedPeriods == Presets \cup CustomSpans \subseteq ShownPeriods
<1>1. CustomSpans \subseteq ShownPeriods
  BY TodayIsNatural, SMT DEF CustomSpans, ShownPeriods
<1>2. /\ Now - (Now % 7) \in Nat /\ Now - (Now % 7) <= Now /\ Now - (Now % 7) >= 7
  BY TodayIsNatural, Mondays
<1>3. Span(WeekToDate.from - 7, WeekToDate.from - 1) \in ShownPeriods
  <2>. DEFINE d == Now - (Now % 7)
  <2>. HIDE DEF d
  <2>1. d \in Nat /\ d <= Now /\ d >= 7
    BY <1>2 DEF d
  <2>2. d - 7 \in Nat /\ d - 1 \in Nat /\ d - 7 <= d - 1 /\ d - 1 <= Now
    BY <2>1, TodayIsNatural, SMT
  <2>3. WeekToDate.from = d
    BY WeekSoFar DEF d
  <2>. QED
    BY <2>2, <2>3 DEF ShownPeriods, Span
<1>4. Span(IF Now < 13 THEN 0 ELSE Now - 13, Now) \in ShownPeriods
  BY TodayIsNatural, SMT DEF ShownPeriods, Span
<1>5. Span(MonthStart, Now) \in ShownPeriods
  BY TodayIsNatural DEF ShownPeriods, Span
<1>. QED
  BY <1>1, <1>3, <1>4, <1>5, WeekSoFar DEF Presets

LEMMA ShiftsStayPeriods ==
    ASSUME span \in ShownPeriods, ShiftPeriod
    PROVE  span' \in ShownPeriods
<1>1. IsWeekView(span)
  BY DEF ShiftPeriod
<1>2. CASE span.from >= 7 /\ span' = Earlier(span)
  BY <1>1, <1>2, EarlierWeek
<1>3. CASE span.to < Now /\ span' = Later(span)
  <2>1. /\ span.from \in Nat /\ span.from % 7 = 0 /\ span.to \in Nat
        /\ span.to = IF span.from + 6 > Now THEN Now ELSE span.from + 6
    BY <1>1, WeekViews DEF ShownPeriods
  <2>2. span.from + 7 <= Now
    BY <2>1, <1>3, TodayIsNatural, SMT
  <2>. QED
    BY <2>1, <2>2, <1>3, LaterWeek
<1>. QED
  BY <1>2, <1>3 DEF ShiftPeriod

LEMMA PeriodInit == EntryInit => PeriodShown
BY WeekSoFar DEF EntryInit, PeriodShown

---------------------------------------------------------------------------
(* The dialog.                                                              *)

Durations == [hours : Nat, minutes : Nat]

\* A draft's issue may be anything that is typed; nothing here depends on it.
IsDraft(draft) == DOMAIN draft = {"issue", "day", "duration"} /\ draft.duration \in Durations

EntryShape ==
    /\ DOMAIN entry = {"step", "editing", "draft", "submission"}
    /\ IsDraft(entry.draft)
    /\ opened \in Rows \cup {NewEntry}

\* The dialog edits what its button was pressed for last, and what is under review can
\* be sent.
DialogAgrees ==
    /\ entry.step # "none" => entry.editing = opened
    /\ entry.step = "review" => IsReviewable(entry.draft)

\* A submission is known to be under way until its answer, whatever becomes of the dialog,
\* and Jira is asked for what was reviewed.
SubmissionAgrees ==
    /\ order # NoOrder => /\ entry.submission = "pending"
                          /\ reviewed.row \in Rows \cup {NewEntry}
                          /\ IsDraft(reviewed.draft) /\ IsReviewable(reviewed.draft)
                          /\ order = Command(reviewed.draft, reviewed.row)
    /\ sent # NoOrder => order # NoOrder /\ IsAccepted(order) /\ sent = Input(order)

EntryInv == EntryShape /\ DialogAgrees /\ SubmissionAgrees

LEMMA Positive ==
    ASSUME NEW a \in Nat, NEW b \in Nat, a > 0, b > 0
    PROVE  a * b > 0
BY SMT

LEMMA TotalIsNatural ==
    ASSUME NEW draft, draft.duration \in Durations
    PROVE  Total(draft) \in Nat
<1>1. draft.duration.hours \in Nat /\ draft.duration.minutes \in Nat /\ Sixty \in Nat
  BY EntryAssumption DEF EntryAssumption, Durations
<1>2. \A a \in Nat, b \in Nat, c \in Nat : a * b + c \in Nat
  BY SMT
<1>. QED
  BY <1>1, <1>2 DEF Total

LEMMA NoMinutesNoSeconds ==
    ASSUME NEW seconds \in Nat, NEW m \in Nat \ {0}, seconds \div m > 0
    PROVE  seconds > 0
<1>1. SUFFICES ASSUME seconds = 0 PROVE FALSE
  BY SMT
<1>2. 0 \div m = 0
  BY SMT
<1>. QED
  BY <1>1, <1>2, SMT

LEMMA WholeParts ==
    ASSUME NEW n \in Nat
    PROVE  Parts(n) \in Durations
<1>1. Sixty \in Nat /\ Sixty > 0
  BY EntryAssumption, SMT DEF EntryAssumption
<1>2. n \div Sixty \in Nat /\ n % Sixty \in Nat
  BY <1>1, SMT
<1>. QED
  BY <1>2 DEF Parts, Durations

LEMMA FreshDrafts ==
    ASSUME NEW row \in Rows \cup {NewEntry}
    PROVE  IsDraft(FreshDraft(row))
<1>1. DefaultMinutes \in Nat /\ \A n \in Nat : n \div Sixty \in Nat
  <2>1. Sixty \in Nat /\ Sixty > 0
    BY EntryAssumption, SMT DEF EntryAssumption
  <2>2. \A n \in Nat : n \div Sixty \in Nat
    BY <2>1, SMT
  <2>. QED
    BY <2>2, EntryAssumption DEF EntryAssumption
<1>2. CASE row = NewEntry
  BY <1>1, <1>2, WholeParts DEF FreshDraft, IsDraft
<1>3. CASE row # NewEntry
  <2>1. row.seconds \in Nat
    BY <1>3, EntryAssumption DEF EntryAssumption
  <2>2. Parts(row.seconds \div Sixty) \in Durations
    BY <2>1, <1>1, WholeParts
  <2>. QED
    BY <2>2, <1>3 DEF FreshDraft, IsDraft
<1>. QED
  BY <1>2, <1>3

\* What is sent is right whenever the parts of the window agree.
LEMMA AgreedIsReviewed ==
    ASSUME EntryInv
    PROVE  WorklogsAreSentAsReviewed
<1>. SUFFICES ASSUME sent # NoOrder
              PROVE  WorklogsAreSentAsReviewed
  BY DEF WorklogsAreSentAsReviewed
<1>. DEFINE draft == reviewed.draft
            row == reviewed.row
<1>1. /\ row \in Rows \cup {NewEntry}
      /\ order = Command(draft, row) /\ sent = Input(order) /\ IsAccepted(order)
      /\ IsReviewable(draft) /\ IsDraft(draft)
  BY DEF EntryInv, SubmissionAgrees
<1>2. /\ Total(draft) \in Nat /\ Total(draft) > 0
      /\ Sixty \in Nat /\ Sixty > 0
  BY <1>1, TotalIsNatural, EntryAssumption, SMT DEF IsDraft, IsReviewable, EntryAssumption
<1>. HIDE DEF draft, row
<1>3. /\ order.editing = row /\ order.issue = draft.issue /\ order.day = draft.day
      /\ order.minutes = Total(draft)
      /\ order.exact = (row # NewEntry /\ Total(draft) = row.seconds \div Sixty)
  BY <1>1 DEF Command
<1>4. /\ sent.row = row /\ sent.issue = draft.issue /\ sent.day = draft.day
      /\ sent.time = IF row = NewEntry THEN DefaultTime ELSE row.time
      /\ sent.seconds = IF row # NewEntry /\ Total(draft) = row.seconds \div Sixty
                        THEN row.seconds ELSE Total(draft) * Sixty
  BY <1>1, <1>3 DEF Input
<1>5. sent.day <= Now
  BY <1>1, <1>3, <1>4 DEF IsAccepted
<1>6. sent.seconds > 0
  <2>1. CASE row # NewEntry /\ Total(draft) = row.seconds \div Sixty
    <3>1. row.seconds \in Nat /\ row.seconds \div Sixty > 0 /\ Sixty \in Nat \ {0}
      BY <1>1, <2>1, <1>2, EntryAssumption DEF EntryAssumption
    <3>2. row.seconds > 0
      BY <3>1, NoMinutesNoSeconds
    <3>. QED
      BY <3>2, <2>1, <1>4
  <2>2. CASE ~(row # NewEntry /\ Total(draft) = row.seconds \div Sixty)
    <3>1. Total(draft) * Sixty > 0
      BY <1>2, Positive
    <3>. QED
      BY <3>1, <2>2, <1>4
  <2>. QED
    BY <2>1, <2>2
<1>. QED
  BY <1>4, <1>5, <1>6 DEF WorklogsAreSentAsReviewed, draft, row

\* What is not pending was not sent.
LEMMA NothingUnderWay ==
    ASSUME EntryInv, entry.submission # "pending"
    PROVE  order = NoOrder /\ sent = NoOrder
BY DEF EntryInv, SubmissionAgrees

\* What the dialog does leaves a submission under way alone.
LEMMA SubmissionStays ==
    ASSUME EntryInv, UNCHANGED <<order, sent, reviewed>>,
           entry.submission = "pending" => entry'.submission = "pending"
    PROVE  SubmissionAgrees'
BY DEF EntryInv, SubmissionAgrees

LEMMA ClosedDialogs ==
    ASSUME NEW row
    PROVE  /\ DOMAIN NoDialog(row) = {"step", "editing", "draft", "submission"}
           /\ NoDialog(row).step = "none" /\ IsDraft(NoDialog(row).draft)
           /\ NoDialog(row).submission = "idle"
BY FreshDrafts DEF NoDialog

\* The steps that open, close and fill in the form leave a submission alone.
LEMMA FormSteps ==
    ASSUME EntryInv,
           OpenNew \/ OpenRow \/ Cancel \/ Close \/ TypeEntry \/ Back \/ FinderNext
    PROVE  EntryInv'
<1>. USE DEF EntryInv
<1>1. ASSUME NEW row \in Rows \cup {NewEntry}, OpenWith(row, row)
      PROVE  EntryInv'
  <2>. UNCHANGED <<order, sent, reviewed>>
    BY <1>1 DEF OpenWith
  <2>1. CASE entry.submission = "succeeded"
    <3>1. entry' = NoDialog(NewEntry) /\ opened' = opened
      BY <2>1, <1>1 DEF OpenWith
    <3>. QED
      BY <2>1, <3>1, ClosedDialogs, SubmissionStays DEF EntryShape, DialogAgrees
  <2>2. CASE entry.submission # "succeeded"
    <3>1. /\ DOMAIN entry' = DOMAIN entry /\ entry'.step = "form" /\ entry'.editing = row
          /\ entry'.draft \in {FreshDraft(row), entry.draft} /\ opened' = row
          /\ entry'.submission = entry.submission
      BY <2>2, <1>1 DEF OpenWith, EntryShape
    <3>. QED
      BY <3>1, FreshDrafts, SubmissionStays DEF EntryShape, DialogAgrees
  <2>. QED
    BY <2>1, <2>2
<1>2. ASSUME NEW submission, CloseWith(submission),
             entry.submission = "pending" => submission = "pending"
      PROVE  EntryInv'
  <2>1. /\ DOMAIN entry' = {"step", "editing", "draft", "submission"}
        /\ entry'.step = "none" /\ IsDraft(entry'.draft) /\ opened' = NewEntry
        /\ entry'.submission = submission /\ UNCHANGED <<order, sent, reviewed>>
    BY <1>2, ClosedDialogs DEF CloseWith
  <2>. QED
    BY <1>2, <2>1, SubmissionStays DEF EntryShape, DialogAgrees
<1>3. ASSUME entry.step = "form", UNCHANGED <<order, sent, histories>>,
             DOMAIN entry' = DOMAIN entry, entry'.step = "form",
             entry'.editing = entry.editing, entry'.submission = entry.submission,
             IsDraft(entry'.draft)
      PROVE  EntryInv'
  <2>. UNCHANGED <<order, sent, opened, reviewed>>
    BY <1>3 DEF histories
  <2>. QED
    BY <1>3, SubmissionStays DEF EntryShape, DialogAgrees
<1>4. CASE TypeEntry
  <2>1. /\ entry.step = "form" /\ UNCHANGED <<order, sent, histories>>
        /\ \/ \E day \in EntryDays : entry' = [entry EXCEPT !.draft.day = day]
           \/ \E duration \in EntryDurations :
                entry' = [entry EXCEPT !.draft.duration = duration]
    BY <1>4 DEF TypeEntry, InForm
  <2>2. ASSUME NEW day, entry' = [entry EXCEPT !.draft.day = day]
        PROVE  /\ DOMAIN entry' = DOMAIN entry /\ entry'.step = entry.step
               /\ entry'.submission = entry.submission
               /\ entry'.editing = entry.editing /\ IsDraft(entry'.draft)
    BY <2>2 DEF EntryShape, IsDraft
  <2>3. ASSUME NEW duration \in EntryDurations,
               entry' = [entry EXCEPT !.draft.duration = duration]
        PROVE  /\ DOMAIN entry' = DOMAIN entry /\ entry'.step = entry.step
               /\ entry'.submission = entry.submission
               /\ entry'.editing = entry.editing /\ IsDraft(entry'.draft)
    <3>1. duration \in Durations
      BY EntryAssumption DEF EntryAssumption, Durations
    <3>. QED
      BY <2>3, <3>1 DEF EntryShape, IsDraft
  <2>. QED
    BY <2>1, <2>2, <2>3, <1>3
<1>5. CASE FinderNext
  <2>1. ASSUME NEW issue, InForm, entry' = [entry EXCEPT !.draft.issue = issue],
               UNCHANGED <<order, sent, histories>>
        PROVE  EntryInv'
    <3>1. /\ DOMAIN entry' = DOMAIN entry /\ entry'.step = entry.step
          /\ entry'.submission = entry.submission
          /\ entry'.editing = entry.editing /\ IsDraft(entry'.draft)
      BY <2>1 DEF EntryShape, IsDraft
    <3>. QED
      BY <3>1, <2>1, <1>3 DEF InForm
  <2>2. CASE TypeQuery
    BY <2>1, <2>2 DEF TypeQuery
  <2>3. CASE Pick
    BY <2>1, <2>3 DEF Pick, PickOption
  <2>4. CASE MoveOption \/ Hover \/ Toggle \/ CloseList \/ Search \/ SearchAnswers
    <3>1. UNCHANGED <<entry, order, sent, histories>>
      BY <2>4 DEF MoveOption, Hover, Toggle, CloseList, Search, SearchAnswers
    <3>. QED
      BY <3>1 DEF EntryShape, DialogAgrees, SubmissionAgrees, histories
  <2>. QED
    BY <1>5, <2>2, <2>3, <2>4 DEF FinderNext
<1>6. CASE Back
  <2>1. /\ DOMAIN entry' = DOMAIN entry /\ entry'.step = "form" /\ entry.step = "review"
        /\ entry'.editing = entry.editing /\ entry'.draft = entry.draft
        /\ entry'.submission = entry.submission /\ UNCHANGED <<order, sent, opened, reviewed>>
    BY <1>6 DEF Back, EntryShape, histories
  <2>. QED
    BY <2>1, SubmissionStays DEF EntryShape, DialogAgrees
<1>7. NewEntry \in Rows \cup {NewEntry} /\ Listed \subseteq Rows
  BY DEF Listed
<1>8. CASE OpenNew \/ OpenRow
  BY <1>1, <1>7, <1>8 DEF OpenNew, OpenRow
<1>9. CASE Cancel \/ Close
  BY <1>2, <1>9 DEF Cancel, Close
<1>. QED
  BY <1>4, <1>5, <1>6, <1>8, <1>9

\* From the review to the answer.
LEMMA ReviewSteps ==
    ASSUME EntryInv, Review \/ Submit \/ Send \/ SubmissionFails \/ SubmissionSucceeds
    PROVE  EntryInv'
<1>. USE DEF EntryInv
<1>1. CASE Review
  <2>1. /\ DOMAIN entry' = DOMAIN entry /\ entry.step = "form" /\ IsReviewable(entry.draft)
        /\ entry'.editing = entry.editing /\ entry'.draft = entry.draft
        /\ entry'.submission = entry.submission /\ UNCHANGED <<order, sent, opened, reviewed>>
    BY <1>1 DEF Review, EntryShape, histories
  <2>. QED
    BY <2>1, SubmissionStays DEF EntryShape, DialogAgrees
<1>2. CASE Submit
  <2>1. sent = NoOrder /\ UNCHANGED <<sent, opened>>
    BY <1>2, NothingUnderWay DEF Submit
  <2>2. /\ DOMAIN entry' = DOMAIN entry /\ entry'.step = "review" /\ entry.step = "review"
        /\ entry'.submission = "pending"
        /\ entry'.editing = entry.editing /\ entry'.draft = entry.draft
        /\ order' = Command(entry.draft, entry.editing)
        /\ reviewed'.row = opened /\ reviewed'.draft = entry.draft
    BY <1>2 DEF Submit, EntryShape
  <2>3. entry.editing = opened /\ IsReviewable(entry.draft)
    BY <2>2 DEF DialogAgrees
  <2>. QED
    BY <2>1, <2>2, <2>3 DEF EntryShape, DialogAgrees, SubmissionAgrees
<1>3. CASE Send
  BY <1>3 DEF Send, EntryShape, DialogAgrees, SubmissionAgrees, histories
<1>4. CASE SubmissionFails
  <2>1. /\ order' = NoOrder /\ sent' = NoOrder /\ opened' = opened
        /\ DOMAIN entry' = DOMAIN entry /\ entry'.step = entry.step
        /\ entry'.editing = entry.editing /\ entry'.draft = entry.draft
    BY <1>4 DEF SubmissionFails, EntryShape
  <2>. QED
    BY <2>1 DEF EntryShape, DialogAgrees, SubmissionAgrees
<1>5. CASE SubmissionSucceeds
  <2>1. /\ order' = NoOrder /\ sent' = NoOrder /\ opened' = NewEntry
        /\ DOMAIN entry' = {"step", "editing", "draft", "submission"}
        /\ entry'.step = "none" /\ IsDraft(entry'.draft)
    BY <1>5, ClosedDialogs DEF SubmissionSucceeds, EntryShape
  <2>. QED
    BY <2>1 DEF EntryShape, DialogAgrees, SubmissionAgrees
<1>. QED
  BY <1>1, <1>2, <1>3, <1>4, <1>5

LEMMA EntryInitInv == EntryInit => EntryInv
BY ClosedDialogs DEF EntryInit, EntryInv, EntryShape, DialogAgrees, SubmissionAgrees

LEMMA EntryStepInv == EntryInv /\ [EntryNext]_entryVars => EntryInv'
<1>. SUFFICES ASSUME EntryInv, [EntryNext]_entryVars
              PROVE  EntryInv'
  OBVIOUS
<1>1. CASE PeriodNext
  BY <1>1 DEF PeriodNext, ShiftPeriod, ApplyRange, EntryInv, EntryShape, DialogAgrees,
              SubmissionAgrees, histories
<1>2. CASE UNCHANGED entryVars
  BY <1>2 DEF entryVars, histories, EntryInv, EntryShape, DialogAgrees, SubmissionAgrees
<1>3. CASE FinderNext
  BY <1>3, FormSteps
<1>4. CASE DialogNext
  BY <1>4, FormSteps, ReviewSteps DEF DialogNext
<1>. QED
  BY <1>1, <1>2, <1>3, <1>4 DEF EntryNext

LEMMA PeriodStep == EntryInv /\ PeriodShown /\ [EntryNext]_entryVars => PeriodShown'
<1>. SUFFICES ASSUME EntryInv, PeriodShown, [EntryNext]_entryVars
              PROVE  PeriodShown'
  OBVIOUS
<1>. USE DEF PeriodShown
<1>1. ASSUME span' \in ShownPeriods, UNCHANGED <<order, histories>>
      PROVE  PeriodShown'
  BY <1>1 DEF histories
<1>2. CASE ShiftPeriod
  <2>1. span' \in ShownPeriods
    BY <1>2, ShiftsStayPeriods
  <2>. QED
    BY <2>1, <1>1, <1>2 DEF ShiftPeriod
<1>3. CASE ApplyRange
  BY <1>1, <1>3, OfferedPeriods DEF ApplyRange
<1>4. CASE Submit
  <2>1. reviewed'.span = span /\ span' = span
    BY <1>4 DEF Submit
  <2>. QED
    BY <2>1
<1>5. CASE SubmissionFails
  BY <1>5 DEF SubmissionFails
<1>6. CASE SubmissionSucceeds
  <2>1. order # NoOrder /\ order' = NoOrder /\ span' \in {reviewed.span, WeekToDate}
    BY <1>6 DEF SubmissionSucceeds, EntryInv, SubmissionAgrees
  <2>. QED
    BY <2>1, WeekSoFar
<1>7. CASE OpenNew \/ OpenRow \/ Cancel \/ Close
  <2>1. UNCHANGED <<span, order, reviewed>>
    BY <1>7 DEF OpenNew, OpenRow, OpenWith, Cancel, Close, CloseWith
  <2>. QED
    BY <2>1
<1>8. CASE FinderNext
  <2>1. UNCHANGED <<span, order, histories>>
    BY <1>8 DEF FinderNext, TypeQuery, MoveOption, Hover, Pick, PickOption, Toggle, CloseList,
                Search, SearchAnswers
  <2>. QED
    BY <2>1, <1>1
<1>9. CASE TypeEntry \/ Review \/ Back \/ Send
  <2>1. UNCHANGED <<span, order, histories>>
    BY <1>9 DEF TypeEntry, Review, Back, Send
  <2>. QED
    BY <2>1, <1>1
<1>10. CASE UNCHANGED entryVars
  BY <1>1, <1>10 DEF entryVars
<1>. QED
  BY <1>2, <1>3, <1>4, <1>5, <1>6, <1>7, <1>8, <1>9, <1>10 DEF EntryNext, PeriodNext, DialogNext

\* On whatever day, and to whatever period a submission falls back: the period that is
\* shown ends today at the latest, and the arrows lead back to it.
THEOREM ArrowsAlwaysLeadBack == EntrySpec => []ArrowsLeadBack
<1>1. PeriodShown => ArrowsLeadBack
  BY ThereAndBack DEF ArrowsLeadBack, PeriodShown, ShownPeriods
<1>. QED
  BY <1>1, PeriodInit, PeriodStep, EntryInitInv, EntryStepInv, PTL DEF EntrySpec

\* For any worklogs, anything that is typed and any answers: Jira is only asked to
\* write what the review showed as it was confirmed, for the worklog whose button was
\* pressed last, whatever has become of the dialog by then.
THEOREM WorklogsAreAlwaysReviewed == EntrySpec => []WorklogsAreSentAsReviewed
<1>1. EntryInv => WorklogsAreSentAsReviewed
  BY AgreedIsReviewed
<1>. QED
  BY <1>1, EntryInitInv, EntryStepInv, PTL DEF EntrySpec

---------------------------------------------------------------------------
(* Folds and sums.  What a fold computes is shown by induction over the      *)
(* subsets of the set it goes through (SmallestSubset).                      *)

IsFold(S, base, step, pick, g) ==
    \A s \in SUBSET S : g[s] = IF s = {} THEN base ELSE step[<<pick[s], g[s \ {pick[s]}]>>]

\* Taking one element after the other is possible from every finite set.
LEMMA FoldExists ==
    ASSUME NEW S, IsFiniteSet(S), NEW V, NEW base \in V, NEW step \in [S \X V -> V],
           NEW pick, \A s \in SUBSET S : s # {} => pick[s] \in s
    PROVE  \E g \in [SUBSET S -> V] : IsFold(S, base, step, pick, g)
<1>. DEFINE Upto(n) == {s \in SUBSET S : Cardinality(s) <= n}
            Next1(s, g) == IF s = {} THEN base ELSE step[<<pick[s], g[s \ {pick[s]}]>>]
            Good(n, g) == g \in [Upto(n) -> V] /\ \A s \in Upto(n) : g[s] = Next1(s, g)
            Bad == {n \in Nat : ~ \E g : Good(n, g)}
<1>0. \A s \in SUBSET S : IsFiniteSet(s) /\ Cardinality(s) \in Nat /\ Cardinality(s) <= Cardinality(S)
  BY FS_Subset, FS_CardinalityType
<1>1. Bad = {}
  <2>1. SUFFICES ASSUME Bad # {} PROVE FALSE
    OBVIOUS
  <2>2. PICK n \in Bad : \A m \in Bad : ~(<<m, n>> \in OpToRel(<, Nat))
    BY <2>1, WFMin, NatLessThanWellFounded, Zenon
  <2>3. n \in Nat /\ \A m \in Nat : m < n => \E g : Good(m, g)
    <3>1. n \in Nat
      BY <2>2
    <3>2. ASSUME NEW m \in Nat, m < n PROVE m \notin Bad
      <4>1. <<m, n>> \in OpToRel(<, Nat)
        BY <3>1, <3>2, Zenon DEF OpToRel
      <4>. QED BY <4>1, <2>2
    <3>. QED BY <3>1, <3>2
  <2>4. CASE n = 0
    <3>1. Upto(0) = {{}}
      <4>1. \A s \in SUBSET S : Cardinality(s) <= 0 => s = {}
        BY <1>0, FS_EmptySet, SMT
      <4>2. Cardinality({}) <= 0
        BY FS_EmptySet, SMT
      <4>. QED BY <4>1, <4>2
    <3>2. Good(0, [s \in Upto(0) |-> base])
      BY <3>1
    <3>. QED BY <2>2, <2>4, <3>2
  <2>5. CASE n # 0
    <3>1. n - 1 \in Nat /\ n - 1 < n
      BY <2>3, <2>5, SMT
    <3>2. PICK g : Good(n - 1, g)
      BY <3>1, <2>3
    <3>3. Upto(n - 1) \subseteq Upto(n)
      BY <1>0, <2>3, SMT
    <3>4. ASSUME NEW s \in Upto(n), s # {} PROVE s \ {pick[s]} \in Upto(n - 1) /\ pick[s] \in S
      <4>1. pick[s] \in s /\ IsFiniteSet(s) /\ Cardinality(s) \in Nat /\ Cardinality(s) <= n
        BY <3>4, <1>0
      <4>2. Cardinality(s \ {pick[s]}) = Cardinality(s) - 1
        BY <4>1, FS_RemoveElement
      <4>3. Cardinality(s \ {pick[s]}) <= n - 1
        BY <4>1, <4>2, <2>3, SMT
      <4>. QED BY <4>1, <4>3
    <3>5. ASSUME NEW s \in Upto(n) PROVE Next1(s, g) \in V
      <4>1. CASE s = {}
        BY <4>1
      <4>2. CASE s # {}
        <5>1. g[s \ {pick[s]}] \in V /\ pick[s] \in S
          BY <3>2, <3>4, <4>2
        <5>2. step[<<pick[s], g[s \ {pick[s]}]>>] \in V
          BY <5>1
        <5>. QED BY <4>2, <5>2
      <4>. QED BY <4>1, <4>2
    <3>. DEFINE h == [s \in Upto(n) |-> Next1(s, g)]
    <3>6. h \in [Upto(n) -> V]
      <4>. HIDE DEF Upto, Next1
      <4>. QED BY <3>5
    <3>7. \A s \in Upto(n - 1) : h[s] = g[s]
      <4>. HIDE DEF Upto, Next1
      <4>. QED BY <3>2, <3>3
    <3>8. ASSUME NEW s \in Upto(n) PROVE h[s] = Next1(s, h)
      <4>1. h[s] = Next1(s, g)
        BY <3>8
      <4>2. CASE s = {}
        BY <4>1, <4>2
      <4>3. CASE s # {}
        <5>1. h[s \ {pick[s]}] = g[s \ {pick[s]}]
          BY <3>4, <3>7, <4>3
        <5>. HIDE DEF h, Upto
        <5>. QED BY <4>1, <5>1
      <4>. QED BY <4>2, <4>3
    <3>9. Good(n, h)
      <4>. HIDE DEF h, Upto, Next1
      <4>. QED BY <3>6, <3>8
    <3>. QED BY <2>2, <3>9
  <2>. QED BY <2>4, <2>5
<1>2. Cardinality(S) \in Nat
  BY FS_CardinalityType
<1>3. PICK g : Good(Cardinality(S), g)
  BY <1>1, <1>2
<1>4. Upto(Cardinality(S)) = SUBSET S
  BY <1>0
<1>. QED
  BY <1>3, <1>4 DEF IsFold

---------------------------------------------------------------------------
(* The suggestions.  What the filter leaves of them is found by a fold over *)
(* their places, the last one first.                                        *)

\* The last of some places.
LastOf(s) == CHOOSE x \in s : \A y \in s : x >= y

LEMMA LastIn ==
    ASSUME NEW n \in Nat, NEW s \in SUBSET (1 .. n), s # {}
    PROVE  LastOf(s) \in s
<1>. DEFINE Bound == {m \in Nat : \A y \in s : y <= m}
<1>1. n \in Bound
  BY SMT
<1>2. PICK m \in Bound : \A k \in Bound : ~(<<k, m>> \in OpToRel(<, Nat))
  <2>1. Bound # {}
    BY <1>1
  <2>. QED BY <2>1, WFMin, NatLessThanWellFounded, Zenon
<1>3. m \in Nat /\ \A y \in s : y <= m
  BY <1>2
<1>4. m \in s
  <2>1. SUFFICES ASSUME m \notin s PROVE FALSE
    OBVIOUS
  <2>2. m - 1 \in Nat /\ \A y \in s : y <= m - 1
    <3>1. PICK y \in s : y \in 1 .. n /\ y <= m
      BY <1>3
    <3>2. m - 1 \in Nat
      BY <3>1, <1>3, SMT
    <3>3. \A z \in s : z \in 1 .. n /\ z <= m /\ z # m
      BY <1>3, <2>1
    <3>. QED BY <3>2, <3>3, <1>3, SMT
  <2>3. m - 1 \in Bound /\ m - 1 < m
    BY <2>2, <1>3, SMT
  <2>4. <<m - 1, m>> \in OpToRel(<, Nat)
    BY <2>2, <2>3, <1>3, Zenon DEF OpToRel
  <2>. QED BY <2>3, <2>4, <1>2
<1>5. \A y \in s : m >= y
  BY <1>3, SMT
<1>. QED
  BY <1>4, <1>5 DEF LastOf

\* One more place: its issue is shown if it matches.
Shown(results, x, shown) ==
    IF results[x] \in Matching[entry.draft.issue] THEN Append(shown, results[x]) ELSE shown

IsShowing(results, S, g) ==
    g = [s \in SUBSET S |-> IF s = {} THEN <<>>
                            ELSE Shown(results, LastOf(s), g[s \ {LastOf(s)}])]

LEMMA VisibleIsShowing ==
    Visible = (CHOOSE g : IsShowing(finder.results, DOMAIN finder.results, g))[DOMAIN finder.results]
BY DEF Visible, FoldLeft, MapThenFoldSet, IsShowing, Shown, LastOf, Max

LEMMA ShowingExists ==
    ASSUME NEW results, NEW S, IsFiniteSet(S), \A s \in SUBSET S : s # {} => LastOf(s) \in s,
           \A i \in S : results[i] \in Keys
    PROVE  \E g \in [SUBSET S -> Seq(Keys)] : IsShowing(results, S, g)
<1>. DEFINE pick == [s \in SUBSET S |-> LastOf(s)]
            step == [p \in S \X Seq(Keys) |-> Shown(results, p[1], p[2])]
<1>1. \A s \in SUBSET S : s # {} => pick[s] \in s
  OBVIOUS
<1>2. \A i \in S, shown \in Seq(Keys) :
        step[<<i, shown>>] = Shown(results, i, shown) /\ Shown(results, i, shown) \in Seq(Keys)
  BY DEF Shown
<1>3. step \in [S \X Seq(Keys) -> Seq(Keys)]
  BY <1>2
<1>4. <<>> \in Seq(Keys)
  OBVIOUS
<1>5. PICK g \in [SUBSET S -> Seq(Keys)] : IsFold(S, <<>>, step, pick, g)
  <2>. HIDE DEF pick, step
  <2>. QED BY <1>1, <1>3, <1>4, FoldExists
<1>6. ASSUME NEW s \in SUBSET S
      PROVE  g[s] = IF s = {} THEN <<>> ELSE Shown(results, LastOf(s), g[s \ {LastOf(s)}])
  <2>1. CASE s = {}
    BY <2>1, <1>5 DEF IsFold
  <2>2. CASE s # {}
    <3>1. pick[s] = LastOf(s) /\ LastOf(s) \in S
      BY <2>2
    <3>2. g[s] = step[<<LastOf(s), g[s \ {LastOf(s)}]>>]
      BY <2>2, <3>1, <1>5 DEF IsFold
    <3>3. g[s \ {LastOf(s)}] \in Seq(Keys)
      BY <1>5
    <3>. QED BY <2>2, <3>1, <3>2, <3>3, <1>2
  <2>. QED BY <2>1, <2>2
<1>. QED
  BY <1>5, <1>6 DEF IsShowing

LEMMA ShowingIssues ==
    ASSUME NEW results, NEW S, IsFiniteSet(S), \A s \in SUBSET S : s # {} => LastOf(s) \in s,
           \A i \in S : results[i] \in Keys, NEW g, IsShowing(results, S, g)
    PROVE  g[S] \in Seq(Keys)
<1>. DEFINE Bad == {s \in SUBSET S : g[s] \notin Seq(Keys)}
<1>1. SUFFICES ASSUME Bad # {} PROVE FALSE
  OBVIOUS
<1>2. PICK s \in Bad : \A u \in Bad : u \subseteq s => u = s
  <2>1. Bad \in SUBSET SUBSET S
    OBVIOUS
  <2>. HIDE DEF Bad
  <2>. QED BY <1>1, <2>1, SmallestSubset
<1>3. s \in SUBSET S /\ g[s] \notin Seq(Keys)
  BY <1>2
<1>4. g[s] = IF s = {} THEN <<>> ELSE Shown(results, LastOf(s), g[s \ {LastOf(s)}])
  BY <1>3, Zenon DEF IsShowing
<1>5. s # {}
  BY <1>3, <1>4
<1>6. LastOf(s) \in s
  BY <1>3, <1>5
<1>7. s \ {LastOf(s)} \notin Bad
  BY <1>2, <1>6
<1>8. g[s \ {LastOf(s)}] \in Seq(Keys) /\ results[LastOf(s)] \in Keys
  BY <1>3, <1>6, <1>7
<1>9. Shown(results, LastOf(s), g[s \ {LastOf(s)}]) \in Seq(Keys)
  BY <1>8 DEF Shown
<1>. QED
  BY <1>3, <1>4, <1>5, <1>9

\* What the filter leaves of a list of issues is a list of issues.
LEMMA VisibleIssues ==
    ASSUME finder.results \in Seq(Keys)
    PROVE  Visible \in Seq(Keys)
<1>. DEFINE results == finder.results
            N == Len(results)
            S == DOMAIN results
<1>1. N \in Nat /\ S = 1 .. N /\ \A i \in S : results[i] \in Keys
  OBVIOUS
<1>2. Visible = (CHOOSE g : IsShowing(results, S, g))[S]
  BY VisibleIsShowing
<1>. HIDE DEF N, S, results
<1>3. IsFiniteSet(S)
  BY <1>1, FS_Interval, SMT
<1>4. \A s \in SUBSET S : s # {} => LastOf(s) \in s
  BY <1>1, LastIn
<1>5. PICK g : IsShowing(results, S, g) /\ Visible = g[S]
  <2>1. \E g : IsShowing(results, S, g)
    BY <1>1, <1>3, <1>4, ShowingExists
  <2>. QED BY <1>2, <2>1
<1>. QED
  BY <1>1, <1>3, <1>4, <1>5, ShowingIssues

FinderTyped(f) ==
    /\ DOMAIN f = {"results", "open", "active", "busy", "task"}
    /\ f.results \in Suggestions \cup {<<>>}
    /\ f.open \in BOOLEAN /\ f.busy \in BOOLEAN
    /\ f.active \in Nat \cup {NoOption}
    /\ f.task \in {"none", "assigned", "found"} /\ (f.task # "none" => f.busy)

DraftTyped(draft) == draft.issue \in Queries /\ draft.day \in Nat

DialogTyped ==
    /\ entry.step \in {"none", "form", "review"}
    /\ entry.editing \in Rows \cup {NewEntry}
    /\ DraftTyped(entry.draft)
    /\ entry.submission \in {"idle", "pending", "failed", "succeeded"}
    /\ entry.submission = "succeeded" => entry.step = "none"
    /\ (entry.submission = "pending") = (order # NoOrder)

\* Everything the parts of the page have in common.
PageInv == PeriodShown /\ EntryInv /\ FinderTyped(finder) /\ DialogTyped

LEMMA Options ==
    ASSUME NEW current \in Nat \cup {NoOption}, NEW count \in Nat, NEW down \in BOOLEAN
    PROVE  NextOption(current, count, down) \in Nat \cup {NoOption}
<1>1. CASE count = 0 \/ current = NoOption
  BY <1>1, SMT DEF NextOption
<1>2. CASE count # 0 /\ current # NoOption
  <2>1. current \in Nat
    BY <1>2
  <2>2. (current + 1) % count \in Nat /\ count - 1 \in Nat
    BY <2>1, <1>2, SMT
  <2>3. current # 0 => current - 1 \in Nat
    BY <2>1, SMT
  <2>. QED
    BY <1>2, <2>2, <2>3 DEF NextOption
<1>. QED
  BY <1>1, <1>2

LEMMA FreshDraftTyped ==
    ASSUME NEW row \in Rows \cup {NewEntry}
    PROVE  DraftTyped(FreshDraft(row))
<1>1. CASE row = NewEntry
  BY <1>1, EntryAssumption DEF EntryAssumption, FreshDraft, DraftTyped
<1>2. CASE row # NewEntry
  <2>1. row.issue \in Queries /\ row.day \in Nat
    BY <1>2, EntryAssumption DEF EntryAssumption
  <2>. QED
    BY <2>1, <1>2 DEF FreshDraft, DraftTyped
<1>. QED
  BY <1>1, <1>2

LEMMA FreshFinders == FinderTyped(FreshFinder) /\ FinderTyped(NoFinder)
BY DEF FinderTyped, FreshFinder, NoFinder

\* A command can be told from none.
LEMMA CommandsAreOrders ==
    ASSUME NEW draft, IsDraft(draft), DraftTyped(draft), IsReviewable(draft),
           NEW editing \in Rows \cup {NewEntry}
    PROVE  Command(draft, editing) # NoOrder
<1>1. Total(draft) \in Nat
  BY TotalIsNatural DEF IsDraft
<1>2. Command(draft, editing) \in [editing : Rows \cup {NewEntry}, issue : Keys, day : Nat,
                                   minutes : Nat, exact : BOOLEAN]
  BY <1>1 DEF Command, IsReviewable, DraftTyped
<1>. QED
  BY <1>2, EntryAssumption, Zenon DEF EntryAssumption

\* The steps of the list of suggestions.
LEMMA FinderStepsTyped ==
    ASSUME FinderTyped(finder), DialogTyped, IsDraft(entry.draft),
           DOMAIN entry = {"step", "editing", "draft", "submission"}, FinderNext
    PROVE  FinderTyped(finder') /\ DialogTyped'
<1>1. finder.results \in Seq(Keys) /\ Visible \in Seq(Keys)
  <2>1. finder.results \in Seq(Keys)
    <3>1. Suggestions \subseteq Seq(Keys)
      BY EntryAssumption, Zenon DEF EntryAssumption
    <3>2. <<>> \in Seq(Keys)
      OBVIOUS
    <3>3. finder.results \in Suggestions \/ finder.results = <<>>
      BY DEF FinderTyped
    <3>. QED
      BY <3>1, <3>2, <3>3, Zenon
  <2>. QED
    BY <2>1, VisibleIssues
<1>. DEFINE count == Len(Visible)
<1>2. count \in Nat /\ \A i \in 1 .. count : Visible[i] \in Queries
  <2>1. \A i \in 1 .. count : Visible[i] \in Keys
    BY <1>1
  <2>. QED
    BY <2>1, <1>1, EntryAssumption DEF EntryAssumption
<1>. HIDE DEF count
\* Another issue is typed or picked.
<1>3. ASSUME NEW issue \in Queries, entry' = [entry EXCEPT !.draft.issue = issue],
             UNCHANGED order
      PROVE  DialogTyped'
  <2>1. /\ entry'.step = entry.step /\ entry'.editing = entry.editing
        /\ entry'.submission = entry.submission
        /\ entry'.draft.issue = issue /\ entry'.draft.day = entry.draft.day
    BY <1>3 DEF IsDraft
  <2>. QED
    BY <2>1, <1>3 DEF DialogTyped, DraftTyped
<1>4. ASSUME UNCHANGED <<entry, order>> PROVE DialogTyped'
  BY <1>4 DEF DialogTyped, DraftTyped
<1>5. CASE TypeQuery
  <2>1. FinderTyped(finder')
    BY <1>5 DEF TypeQuery, FinderTyped
  <2>. QED
    BY <2>1, <1>3, <1>5 DEF TypeQuery
<1>6. CASE MoveOption
  <2>1. PICK down \in BOOLEAN :
          finder' = [finder EXCEPT !.open = TRUE, !.active = NextOption(@, Len(Visible), down)]
    BY <1>6 DEF MoveOption
  <2>2. NextOption(finder.active, Len(Visible), down) \in Nat \cup {NoOption}
    BY <1>2, Options DEF FinderTyped, count
  <2>3. FinderTyped(finder')
    BY <2>1, <2>2 DEF FinderTyped
  <2>. QED
    BY <2>3, <1>4, <1>6 DEF MoveOption
<1>7. CASE Hover
  <2>1. PICK option \in 1 .. count : finder' = [finder EXCEPT !.active = option - 1]
    BY <1>7 DEF Hover, count
  <2>2. option - 1 \in Nat
    BY <2>1, <1>2, SMT
  <2>3. FinderTyped(finder')
    BY <2>1, <2>2 DEF FinderTyped
  <2>. QED
    BY <2>3, <1>4, <1>7 DEF Hover
<1>8. CASE Pick
  <2>1. PICK option \in 0 .. count - 1 : PickOption(option)
    BY <1>8 DEF Pick, count
  <2>2. Visible[option + 1] \in Queries
    <3>1. option + 1 \in 1 .. count
      BY <1>2, SMT
    <3>. QED
      BY <3>1, <1>2
  <2>3. FinderTyped(finder')
    BY <2>1 DEF PickOption, FinderTyped
  <2>4. DialogTyped'
    BY <2>1, <2>2, <1>3 DEF PickOption
  <2>. QED
    BY <2>3, <2>4
<1>9. CASE Toggle \/ CloseList
  <2>1. FinderTyped(finder')
    BY <1>9 DEF Toggle, CloseList, FinderTyped
  <2>. QED
    BY <2>1, <1>4, <1>9 DEF Toggle, CloseList
<1>10. CASE Search
  <2>1. FinderTyped(finder')
    BY <1>10 DEF Search, FinderTyped
  <2>. QED
    BY <2>1, <1>4, <1>10 DEF Search
<1>11. CASE SearchAnswers
  <2>1. FinderTyped(finder')
    BY <1>11 DEF SearchAnswers, FinderTyped
  <2>. QED
    BY <2>1, <1>4, <1>11 DEF SearchAnswers
<1>. QED
  BY <1>5, <1>6, <1>7, <1>8, <1>9, <1>10, <1>11 DEF FinderNext

\* The steps of the dialog.
LEMMA DialogStepsTyped ==
    ASSUME FinderTyped(finder), DialogTyped, EntryInv, DialogNext
    PROVE  FinderTyped(finder') /\ DialogTyped'
<1>0. IsDraft(entry.draft) /\ DOMAIN entry = {"step", "editing", "draft", "submission"}
  BY DEF EntryInv, EntryShape
<1>1. ASSUME NEW row \in Rows \cup {NewEntry}, OpenWith(row, row)
      PROVE  FinderTyped(finder') /\ DialogTyped'
  <2>1. CASE entry.submission = "succeeded"
    <3>1. /\ entry'.step = "none" /\ entry'.editing = NewEntry /\ entry'.submission = "idle"
          /\ entry'.draft = FreshDraft(NewEntry) /\ order' = order /\ finder' = finder
      BY <2>1, <1>1 DEF OpenWith, NoDialog
    <3>. QED
      BY <2>1, <3>1, FreshDraftTyped DEF DialogTyped
  <2>2. CASE entry.submission # "succeeded"
    <3>1. /\ entry'.step = "form" /\ entry'.editing = row
          /\ entry'.draft \in {FreshDraft(row), entry.draft}
          /\ entry'.submission = entry.submission /\ order' = order
          /\ finder' \in {FreshFinder, finder}
      BY <2>2, <1>0, <1>1 DEF OpenWith
    <3>. QED
      BY <2>2, <3>1, FreshDraftTyped, FreshFinders DEF DialogTyped
  <2>. QED
    BY <2>1, <2>2
<1>2. ASSUME NEW submission, CloseWith(submission),
             submission \in {"idle", "pending", "failed", "succeeded"},
             submission = "pending" <=> entry.submission = "pending"
      PROVE  FinderTyped(finder') /\ DialogTyped'
  <2>1. /\ entry'.step = "none" /\ entry'.editing = entry.editing
        /\ entry'.draft = FreshDraft(NewEntry)
        /\ entry'.submission = submission /\ order' = order /\ finder' = NoFinder
    BY <1>2 DEF CloseWith, NoDialog
  <2>. QED
    BY <1>2, <2>1, FreshDraftTyped, FreshFinders DEF DialogTyped
<1>3. CASE TypeEntry
  <2>1. ASSUME NEW day \in EntryDays, entry' = [entry EXCEPT !.draft.day = day]
        PROVE  /\ entry'.step = entry.step /\ entry'.editing = entry.editing
               /\ entry'.submission = entry.submission /\ DraftTyped(entry'.draft)
    <3>1. day \in Nat
      BY EntryAssumption DEF EntryAssumption
    <3>. QED
      BY <2>1, <3>1, <1>0 DEF IsDraft, DialogTyped, DraftTyped
  <2>2. ASSUME NEW duration, entry' = [entry EXCEPT !.draft.duration = duration]
        PROVE  /\ entry'.step = entry.step /\ entry'.editing = entry.editing
               /\ entry'.submission = entry.submission /\ DraftTyped(entry'.draft)
    BY <2>2, <1>0 DEF IsDraft, DialogTyped, DraftTyped
  <2>3. /\ entry'.step = entry.step /\ entry'.editing = entry.editing
        /\ entry'.submission = entry.submission /\ DraftTyped(entry'.draft)
        /\ UNCHANGED <<finder, order>>
    BY <1>3, <2>1, <2>2 DEF TypeEntry
  <2>. QED
    BY <2>3 DEF DialogTyped
<1>4. CASE Review
  <2>1. FinderTyped(finder')
    BY <1>4 DEF Review, FinderTyped
  <2>2. /\ entry.step = "form" /\ entry'.step = "review" /\ entry'.editing = entry.editing
        /\ entry'.submission = entry.submission /\ entry'.draft = entry.draft /\ order' = order
    BY <1>0, <1>4 DEF Review
  <2>. QED
    BY <2>1, <2>2 DEF DialogTyped
<1>5. CASE Back
  <2>1. /\ entry.step = "review" /\ entry'.step = "form"
        /\ entry'.editing = entry.editing
        /\ entry'.submission = entry.submission /\ entry'.draft = entry.draft
        /\ UNCHANGED <<finder, order>>
    BY <1>0, <1>5 DEF Back
  <2>. QED
    BY <2>1 DEF DialogTyped
<1>6. CASE Submit
  <2>1. /\ entry.step = "review" /\ entry'.step = entry.step /\ entry'.editing = entry.editing
        /\ entry'.submission = "pending" /\ entry'.draft = entry.draft
        /\ order' = Command(entry.draft, entry.editing) /\ finder' = finder
    BY <1>0, <1>6 DEF Submit
  <2>2. order' # NoOrder
    <3>1. IsReviewable(entry.draft)
      BY <2>1 DEF EntryInv, DialogAgrees
    <3>. QED
      BY <2>1, <3>1, <1>0, CommandsAreOrders DEF DialogTyped
  <2>. QED
    BY <2>1, <2>2 DEF DialogTyped
<1>7. CASE Send
  BY <1>7 DEF Send, DialogTyped, DraftTyped
<1>8. CASE SubmissionFails
  <2>1. /\ entry'.step = entry.step /\ entry'.editing = entry.editing
        /\ entry'.submission = "failed" /\ entry'.draft = entry.draft
        /\ order' = NoOrder /\ finder' = finder
    BY <1>0, <1>8 DEF SubmissionFails
  <2>. QED
    BY <2>1 DEF DialogTyped
<1>9. CASE SubmissionSucceeds
  <2>1. /\ entry'.step = "none" /\ entry'.editing \in {NewEntry, entry.editing}
        /\ entry'.submission \in {"idle", "succeeded"}
        /\ entry'.draft \in {FreshDraft(NewEntry), entry.draft}
        /\ order' = NoOrder /\ finder' = NoFinder
    BY <1>0, <1>9 DEF SubmissionSucceeds, NoDialog
  <2>. QED
    BY <2>1, FreshDraftTyped, FreshFinders DEF DialogTyped
<1>10. CASE OpenNew \/ OpenRow
  BY <1>1, <1>10 DEF OpenNew, OpenRow, Listed
<1>11. CASE Cancel \/ Close
  <2>1. CASE Cancel
    <3>1. /\ CloseWith(entry.submission)
          /\ entry.submission \in {"idle", "pending", "failed", "succeeded"}
      BY <2>1 DEF Cancel, DialogTyped
    <3>. QED
      BY <3>1, <1>2
  <2>2. CASE Close
    <3>1. CloseWith("idle") /\ entry.submission # "pending"
      BY <2>2 DEF Close
    <3>. QED
      BY <3>1, <1>2
  <2>. QED
    BY <1>11, <2>1, <2>2
<1>. QED
  BY <1>3, <1>4, <1>5, <1>6, <1>7, <1>8, <1>9, <1>10, <1>11 DEF DialogNext

LEMMA PageInitInv == EntryInit => PageInv
<1>. SUFFICES ASSUME EntryInit PROVE PageInv
  OBVIOUS
<1>1. PeriodShown /\ EntryInv
  BY PeriodInit, EntryInitInv
<1>2. FinderTyped(finder)
  BY FreshFinders DEF EntryInit
<1>3. DialogTyped
  <2>1. /\ entry.step = "none" /\ entry.editing = NewEntry /\ entry.submission = "idle"
        /\ entry.draft = FreshDraft(NewEntry) /\ order = NoOrder
    BY DEF EntryInit, NoDialog
  <2>. QED
    BY <2>1, FreshDraftTyped DEF DialogTyped
<1>. QED
  BY <1>1, <1>2, <1>3 DEF PageInv

LEMMA PageStepInv == PageInv /\ [EntryNext]_entryVars => PageInv'
<1>. SUFFICES ASSUME PageInv, [EntryNext]_entryVars PROVE PageInv'
  OBVIOUS
<1>1. PeriodShown' /\ EntryInv'
  BY PeriodStep, EntryStepInv DEF PageInv
<1>2. FinderTyped(finder)' /\ DialogTyped'
  <2>1. CASE PeriodNext
    <3>1. UNCHANGED <<entry, finder, order>>
      BY <2>1 DEF PeriodNext, ShiftPeriod, ApplyRange
    <3>. QED
      BY <3>1 DEF PageInv, FinderTyped, DialogTyped, DraftTyped
  <2>2. CASE FinderNext
    BY <2>2, FinderStepsTyped DEF PageInv, EntryInv, EntryShape
  <2>3. CASE DialogNext
    BY <2>3, DialogStepsTyped DEF PageInv
  <2>4. CASE UNCHANGED entryVars
    BY <2>4 DEF entryVars, PageInv, FinderTyped, DialogTyped, DraftTyped
  <2>. QED
    BY <2>1, <2>2, <2>3, <2>4 DEF EntryNext
<1>. QED
  BY <1>1, <1>2 DEF PageInv

LEMMA PageIsTyped == PageInv => EntryTypeOK
<1>. SUFFICES ASSUME PageInv PROVE EntryTypeOK
  OBVIOUS
<1>1. span \in [from : 0 .. Now, to : 0 .. Now + 6] /\ span.from <= span.to
  <2>1. span \in [from : Nat, to : Nat] /\ span.from <= span.to /\ span.to <= Now
    BY DEF PageInv, PeriodShown, ShownPeriods
  <2>2. span.from \in 0 .. Now /\ span.to \in 0 .. Now + 6
    BY <2>1, TodayIsNatural, SMT
  <2>. QED
    BY <2>1, <2>2
<1>. QED
  BY <1>1 DEF EntryTypeOK, PageInv, EntryInv, EntryShape, FinderTyped, DialogTyped, DraftTyped

\* Whatever is typed, searched for and answered, the page is in the states it has a
\* place for: a submission is pending exactly while there is a command for it, and a
\* search that is under way is shown as one.
THEOREM PageIsAlwaysTyped == EntrySpec => []EntryTypeOK
BY PageInitInv, PageStepInv, PageIsTyped, PTL DEF EntrySpec

---------------------------------------------------------------------------
(* The reports.                                                             *)

\* A load is known by its number: the last one is of the period that was asked for last,
\* and it is the one the page waits for.
LoadsFollowAsked ==
    /\ asked.count \in Nat
    /\ \A load \in loads : /\ load.request \in Nat /\ load.request <= asked.count
                           /\ load.request = asked.count => load.period = asked.period

AwaitsTheLast == team.state = "loading" => team.request = asked.count

TeamInv == LoadsFollowAsked /\ AwaitsTheLast /\ TeamReportIsTheAskedOne

LEMMA NewLoad ==
    ASSUME TeamInv, NEW p, StartTeamReport(p)
    PROVE  TeamInv'
<1>1. /\ asked'.count = asked.count + 1 /\ asked'.period = p
      /\ team'.state = "loading" /\ team'.period = p /\ team'.request = asked.count + 1
      /\ loads' = loads \cup {[request |-> asked.count + 1, period |-> p]}
  BY DEF StartTeamReport
<1>2. asked.count \in Nat
  BY DEF TeamInv, LoadsFollowAsked
<1>3. ASSUME NEW load \in loads'
      PROVE  /\ load.request \in Nat /\ load.request <= asked'.count
             /\ load.request = asked'.count => load.period = asked'.period
  <2>1. CASE load \in loads
    <3>1. load.request \in Nat /\ load.request <= asked.count
      BY <2>1 DEF TeamInv, LoadsFollowAsked
    <3>. QED
      BY <3>1, <1>1, <1>2
  <2>2. CASE load = [request |-> asked.count + 1, period |-> p]
    BY <2>2, <1>1, <1>2
  <2>. QED
    BY <2>1, <2>2, <1>1
<1>. QED
  BY <1>1, <1>2, <1>3 DEF TeamInv, LoadsFollowAsked, AwaitsTheLast, TeamReportIsTheAskedOne

\* An answer is only shown if it is of the load with the last number.
LEMMA AnyAnswer ==
    ASSUME TeamInv, NEW load \in loads, TeamAnswers(load)
    PROVE  TeamInv'
<1>1. loads' \subseteq loads /\ asked' = asked
  BY DEF TeamAnswers
<1>2. CASE IsCurrent(load)
  <2>1. team'.state \in {"ready", "failed"} /\ team'.period = load.period
    BY <1>2 DEF TeamAnswers
  <2>2. load.period = asked.period
    BY <1>2 DEF IsCurrent, TeamInv, LoadsFollowAsked, AwaitsTheLast
  <2>. QED
    BY <1>1, <2>1, <2>2 DEF TeamInv, LoadsFollowAsked, AwaitsTheLast, TeamReportIsTheAskedOne
<1>3. CASE ~IsCurrent(load)
  <2>1. team' = team
    BY <1>3 DEF TeamAnswers
  <2>. QED
    BY <1>1, <2>1 DEF TeamInv, LoadsFollowAsked, AwaitsTheLast, TeamReportIsTheAskedOne
<1>. QED
  BY <1>2, <1>3

LEMMA OtherSteps ==
    ASSUME TeamInv, UNCHANGED <<team, loads, asked>>
    PROVE  TeamInv'
BY DEF TeamInv, LoadsFollowAsked, AwaitsTheLast, TeamReportIsTheAskedOne

\* For any periods, any hours and any number of loads, in whatever order they answer and
\* however often the tab, the period and the page change: what is shown or announced is
\* of the period that was asked for last.
THEOREM LateTeamReportsAreIgnored == DeskSpec => []TeamReportIsTheAskedOne
<1>1. DeskInit => TeamInv
  BY DEF DeskInit, Idle, TeamInv, LoadsFollowAsked, AwaitsTheLast, TeamReportIsTheAskedOne
<1>2. TeamInv /\ [DeskNext]_deskVars => TeamInv'
  <2>. SUFFICES ASSUME TeamInv, [DeskNext]_deskVars
                PROVE  TeamInv'
    OBVIOUS
  <2>1. CASE OpenTeamTab
    <3>1. UNCHANGED <<team, loads, asked>> \/ StartTeamReport(period.shown)
      BY <2>1 DEF OpenTeamTab
    <3>. QED
      BY <3>1, NewLoad, OtherSteps
  <2>2. CASE RetryTeam \/ \E p \in Periods : ChooseTeamPeriod(p)
    BY <2>2, NewLoad DEF RetryTeam, ChooseTeamPeriod
  <2>3. CASE \E load \in loads : TeamAnswers(load)
    BY <2>3, AnyAnswer
  <2>4. CASE LeaveReports
    BY <2>4 DEF LeaveReports, Idle, TeamInv, LoadsFollowAsked, AwaitsTheLast,
                TeamReportIsTheAskedOne
  <2>5. CASE OpenIndividualTab \/ (\E p \in Periods : ChoosePeriod(p)) \/ SetFilter
             \/ PeriodAnswers \/ Export \/ ExportEnds \/ CloseNotice
    <3>1. UNCHANGED <<team, loads, asked>>
      BY <2>5 DEF OpenIndividualTab, ChoosePeriod, SetFilter, PeriodAnswers, Export,
                  ExportEnds, CloseNotice
    <3>. QED
      BY <3>1, OtherSteps
  <2>6. CASE UNCHANGED deskVars
    BY <2>6, OtherSteps DEF deskVars
  <2>. QED
    BY <2>1, <2>2, <2>3, <2>4, <2>5, <2>6 DEF DeskNext
<1>3. TeamInv => TeamReportIsTheAskedOne
  BY DEF TeamInv
<1>. QED
  BY <1>1, <1>2, <1>3, PTL DEF DeskSpec

PageTyped(p) ==
    /\ DOMAIN p = {"scope", "filters", "document", "notice"}
    /\ p.scope \in {"individual", "team"} /\ p.filters \in Filters
    /\ p.notice \in {"none", "saved", "error"}

\* A report that was asked for is of a period that can be chosen, so that it can be
\* asked for again.
TeamTyped ==
    /\ team.state \in {"idle", "loading", "ready", "failed"}
    /\ team.period \in Periods \cup {NoTeamPeriod} /\ team.request \in 0 .. MaxRequests
    /\ team.hours \subseteq Hours
    /\ team.state # "idle" => team.period \in Periods

LoadsTyped ==
    /\ loads \subseteq [request : 1 .. MaxRequests, period : Periods]
    /\ asked.count \in 0 .. MaxRequests /\ asked.period \in Periods \cup {NoTeamPeriod}

PeriodTyped == period \in [shown : Periods, loaded : Periods, loading : BOOLEAN]

DeskInv == PageTyped(page) /\ PeriodTyped /\ TeamTyped /\ LoadsTyped

LEMMA BoundIsNatural == MaxRequests \in Nat
BY DesktopReportsAssumption DEF DesktopReportsAssumption

LEMMA UnfilteredTyped == NoFilters \in Filters
BY DEF NoFilters, Filters

LEMMA FreshPageTyped == PageTyped(FreshPage)
BY UnfilteredTyped DEF PageTyped, FreshPage

\* The parts of the page that stay as they are.
LEMMA TeamStays ==
    ASSUME DeskInv, UNCHANGED <<team, loads, asked>>
    PROVE  TeamTyped' /\ LoadsTyped'
BY DEF DeskInv, TeamTyped, LoadsTyped

LEMMA NewLoadTyped ==
    ASSUME DeskInv, NEW p \in Periods, StartTeamReport(p)
    PROVE  TeamTyped' /\ LoadsTyped'
<1>1. /\ asked.count < MaxRequests
      /\ asked'.count = asked.count + 1 /\ asked'.period = p
      /\ team'.state = "loading" /\ team'.period = p /\ team'.request = asked.count + 1
      /\ team'.hours = {}
      /\ loads' = loads \cup {[request |-> asked.count + 1, period |-> p]}
  BY DEF StartTeamReport
<1>2. asked.count + 1 \in 1 .. MaxRequests
  BY <1>1, BoundIsNatural, SMT DEF DeskInv, LoadsTyped
<1>3. asked.count + 1 \in 0 .. MaxRequests
  BY <1>2, BoundIsNatural, SMT
<1>4. loads' \subseteq [request : 1 .. MaxRequests, period : Periods]
  BY <1>1, <1>2 DEF DeskInv, LoadsTyped
<1>. QED
  BY <1>1, <1>3, <1>4 DEF TeamTyped, LoadsTyped

LEMMA AnswerTyped ==
    ASSUME DeskInv, NEW load \in loads, TeamAnswers(load)
    PROVE  TeamTyped' /\ LoadsTyped'
<1>1. load.request \in 0 .. MaxRequests /\ load.period \in Periods
  <2>1. load \in [request : 1 .. MaxRequests, period : Periods]
    BY DEF DeskInv, LoadsTyped
  <2>. QED
    BY <2>1, BoundIsNatural, SMT
<1>2. LoadsTyped'
  BY DEF TeamAnswers, DeskInv, LoadsTyped
<1>3. CASE IsCurrent(load)
  <2>1. /\ team'.state \in {"ready", "failed"} /\ team'.period = load.period
        /\ team'.request = load.request
        /\ team'.hours = Within(load.period, Hours) \/ team'.hours = {}
    BY <1>3 DEF TeamAnswers
  <2>2. team'.hours \subseteq Hours
    BY <2>1 DEF Within
  <2>. QED
    BY <1>1, <1>2, <2>1, <2>2 DEF TeamTyped
<1>4. CASE ~IsCurrent(load)
  BY <1>2, <1>4 DEF TeamAnswers, DeskInv, TeamTyped
<1>. QED
  BY <1>3, <1>4

LEMMA FilterTyped ==
    ASSUME DeskInv, SetFilter
    PROVE  PageTyped(page')
<1>1. team.hours \subseteq Hours
  BY DEF DeskInv, TeamTyped
<1>2. PICK member \in Roster \cup {h.author : h \in team.hours} \cup {Anything},
           category \in ({h.category : h \in team.hours} \ {Unspecified}) \cup {Anything},
           comments \in {"all", "with", "without"} :
         page' \in {[page EXCEPT !.filters.member = member],
                    [page EXCEPT !.filters.category = category],
                    [page EXCEPT !.filters.comments = comments],
                    [page EXCEPT !.filters = NoFilters]}
  BY DEF SetFilter
<1>3. member \in Members \cup {Anything}
  <2>1. Roster \subseteq Members /\ \A h \in Hours : h.author \in Members
    BY DesktopReportsAssumption DEF DesktopReportsAssumption
  <2>. QED
    BY <1>1, <2>1
<1>4. category \in Categories \cup {Anything}
  BY <1>1 DEF Categories
<1>5. /\ DOMAIN page = {"scope", "filters", "document", "notice"}
      /\ page.filters \in [member : Members \cup {Anything}, category : Categories \cup {Anything},
                           comments : {"all", "with", "without"}]
  BY DEF DeskInv, PageTyped, Filters
<1>6. /\ DOMAIN page' = DOMAIN page /\ page'.scope = page.scope /\ page'.notice = page.notice
      /\ page'.filters \in {[page.filters EXCEPT !.member = member],
                            [page.filters EXCEPT !.category = category],
                            [page.filters EXCEPT !.comments = comments], NoFilters}
  BY <1>2, <1>5
<1>7. page'.filters \in Filters
  <2>. DEFINE f == page.filters
  <2>1. f \in [member : Members \cup {Anything}, category : Categories \cup {Anything},
               comments : {"all", "with", "without"}]
    BY <1>5
  <2>2. page'.filters \in {[f EXCEPT !.member = member], [f EXCEPT !.category = category],
                           [f EXCEPT !.comments = comments], NoFilters}
    BY <1>6
  <2>. HIDE DEF f
  <2>. QED
    BY <2>1, <2>2, <1>3, <1>4, UnfilteredTyped DEF Filters
<1>. QED
  BY <1>6, <1>7 DEF DeskInv, PageTyped

LEMMA DeskStepInv == DeskInv /\ [DeskNext]_deskVars => DeskInv'
<1>. SUFFICES ASSUME DeskInv, [DeskNext]_deskVars PROVE DeskInv'
  OBVIOUS
<1>. USE DEF DeskInv
<1>0. /\ period.shown \in Periods /\ period.loaded \in Periods /\ period.loading \in BOOLEAN
      /\ DOMAIN page = {"scope", "filters", "document", "notice"}
  BY DEF PeriodTyped, PageTyped
<1>1. CASE OpenTeamTab
  <2>1. PageTyped(page')
    BY <1>1 DEF OpenTeamTab, PageTyped
  <2>2. TeamTyped' /\ LoadsTyped'
    BY <1>1, <1>0, NewLoadTyped, TeamStays DEF OpenTeamTab
  <2>. QED
    BY <1>1, <2>1, <2>2 DEF OpenTeamTab, PeriodTyped
<1>2. CASE OpenIndividualTab
  <2>1. PageTyped(page')
    BY <1>2 DEF OpenIndividualTab, PageTyped
  <2>. QED
    BY <1>2, <2>1, TeamStays DEF OpenIndividualTab, PeriodTyped
<1>3. CASE RetryTeam
  <2>1. PageTyped(page')
    BY <1>3, UnfilteredTyped DEF RetryTeam, PageTyped
  <2>2. team.period \in Periods
    BY <1>3 DEF RetryTeam, TeamTyped
  <2>. QED
    BY <1>3, <2>1, <2>2, NewLoadTyped DEF RetryTeam, PeriodTyped
<1>4. ASSUME NEW p \in Periods, ChooseTeamPeriod(p) PROVE DeskInv'
  <2>1. PageTyped(page')
    BY <1>4, UnfilteredTyped DEF ChooseTeamPeriod, PageTyped
  <2>2. PeriodTyped'
    BY <1>4 DEF ChooseTeamPeriod, PeriodTyped
  <2>. QED
    BY <1>4, <2>1, <2>2, NewLoadTyped DEF ChooseTeamPeriod
<1>5. ASSUME NEW p \in Periods, ChoosePeriod(p) PROVE DeskInv'
  <2>1. PeriodTyped'
    BY <1>5 DEF ChoosePeriod, PeriodTyped
  <2>. QED
    BY <1>5, <2>1, TeamStays DEF ChoosePeriod
<1>6. ASSUME NEW load \in loads, TeamAnswers(load) PROVE DeskInv'
  <2>1. UNCHANGED <<page, period>>
    BY <1>6 DEF TeamAnswers
  <2>. QED
    BY <1>6, <2>1, AnswerTyped DEF PeriodTyped
<1>7. CASE SetFilter
  <2>1. UNCHANGED <<period, team, loads, asked>>
    BY <1>7 DEF SetFilter
  <2>. QED
    BY <1>7, <2>1, FilterTyped, TeamStays DEF PeriodTyped
<1>8. CASE PeriodAnswers
  <2>1. \E p \in Periods : period' = [shown |-> p, loaded |-> p, loading |-> FALSE]
    BY <1>8, <1>0 DEF PeriodAnswers
  <2>2. PeriodTyped'
    BY <2>1 DEF PeriodTyped
  <2>. QED
    BY <1>8, <2>2, TeamStays DEF PeriodAnswers
<1>9. CASE Export
  <2>1. PageTyped(page')
    <3>1. /\ DOMAIN page' = DOMAIN page /\ page'.scope = page.scope
          /\ page'.filters = page.filters /\ page'.notice = "none"
      BY <1>9, <1>0 DEF Export
    <3>. QED
      BY <3>1 DEF PageTyped
  <2>. QED
    BY <1>9, <2>1, TeamStays DEF Export, PeriodTyped
<1>10. CASE ExportEnds
  <2>1. PageTyped(page')
    BY <1>10 DEF ExportEnds, PageTyped
  <2>. QED
    BY <1>10, <2>1, TeamStays DEF ExportEnds, PeriodTyped
<1>11. CASE CloseNotice
  <2>1. PageTyped(page')
    BY <1>11 DEF CloseNotice, PageTyped
  <2>. QED
    BY <1>11, <2>1, TeamStays DEF CloseNotice, PeriodTyped
<1>12. CASE LeaveReports
  <2>1. team' = Idle /\ loads' = {} /\ asked' = asked /\ period' = period /\ page' = FreshPage
    BY <1>12 DEF LeaveReports
  <2>2. TeamTyped' /\ LoadsTyped'
    BY <2>1, BoundIsNatural, SMT DEF Idle, TeamTyped, LoadsTyped
  <2>. QED
    BY <2>1, <2>2, FreshPageTyped DEF PeriodTyped
<1>13. CASE UNCHANGED deskVars
  BY <1>13, TeamStays DEF deskVars, PeriodTyped
<1>. QED
  BY <1>1, <1>2, <1>3, <1>4, <1>5, <1>6, <1>7, <1>8, <1>9, <1>10, <1>11, <1>12, <1>13
  DEF DeskNext

LEMMA DeskInitInv == DeskInit => DeskInv
<1>. SUFFICES ASSUME DeskInit PROVE DeskInv
  OBVIOUS
<1>1. PageTyped(page) /\ PeriodTyped
  BY FreshPageTyped DEF DeskInit, PeriodTyped
<1>2. TeamTyped /\ LoadsTyped
  BY BoundIsNatural, SMT DEF DeskInit, Idle, TeamTyped, LoadsTyped
<1>. QED
  BY <1>1, <1>2 DEF DeskInv

LEMMA DeskIsTyped == DeskInv => DeskTypeOK
BY DEF DeskInv, PageTyped, PeriodTyped, TeamTyped, LoadsTyped, DeskTypeOK

\* Whatever is opened, chosen, filtered, exported and answered, the page and the loads
\* have their types.
THEOREM DeskIsAlwaysTyped == DeskSpec => []DeskTypeOK
BY DeskInitInv, DeskStepInv, DeskIsTyped, PTL DEF DeskSpec

---------------------------------------------------------------------------
(* The sums of a document.                                                  *)

\* The sum of the values of a function over a set.
Plus(f, S) == FoldFunctionOnSet(LAMBDA a, b : a + b, 0, f, S)

IsAddition(f, S, g) ==
    g = [s \in SUBSET S |-> IF s = {} THEN 0 ELSE f[CHOOSE x \in s : TRUE] + g[s \ {CHOOSE x \in s : TRUE}]]

LEMMA PlusIsAddition ==
    ASSUME NEW f, NEW S
    PROVE  Plus(f, S) = (CHOOSE g : IsAddition(f, S, g))[S]
BY DEF Plus, FoldFunctionOnSet, MapThenFoldSet, IsAddition

LEMMA AdditionAt ==
    ASSUME NEW f, NEW S, NEW g, IsAddition(f, S, g), NEW s \in SUBSET S
    PROVE  g[s] = IF s = {} THEN 0 ELSE f[Least(s)] + g[s \ {Least(s)}]
BY Zenon DEF IsAddition, Least

LEMMA AdditionExists ==
    ASSUME NEW S, IsFiniteSet(S), NEW f, \A x \in S : f[x] \in Nat
    PROVE  \E g : IsAddition(f, S, g)
<1>. DEFINE pick == [s \in SUBSET S |-> Least(s)]
            step == [p \in S \X Nat |-> f[p[1]] + p[2]]
<1>1. \A s \in SUBSET S : s # {} => pick[s] \in s
  BY LeastIn
<1>2. \A x \in S, n \in Nat : step[<<x, n>>] = f[x] + n /\ f[x] + n \in Nat
  BY SMT
<1>3. step \in [S \X Nat -> Nat]
  BY <1>2
<1>4. 0 \in Nat
  OBVIOUS
<1>5. PICK g \in [SUBSET S -> Nat] : IsFold(S, 0, step, pick, g)
  <2>. HIDE DEF pick, step
  <2>. QED BY <1>1, <1>3, <1>4, FoldExists
<1>6. ASSUME NEW s \in SUBSET S
      PROVE  g[s] = IF s = {} THEN 0 ELSE f[Least(s)] + g[s \ {Least(s)}]
  <2>1. CASE s = {}
    BY <2>1, <1>5 DEF IsFold
  <2>2. CASE s # {}
    <3>1. pick[s] = Least(s) /\ Least(s) \in S
      BY <2>2, LeastIn
    <3>2. g[s] = step[<<Least(s), g[s \ {Least(s)}]>>]
      BY <2>2, <3>1, <1>5 DEF IsFold
    <3>3. g[s \ {Least(s)}] \in Nat
      BY <1>5
    <3>. QED BY <2>2, <3>1, <3>2, <3>3, <1>2
  <2>. QED BY <2>1, <2>2
<1>. QED
  BY <1>5, <1>6, Zenon DEF IsAddition, Least

LEMMA AdditionsAgree ==
    ASSUME NEW f, NEW S, IsFiniteSet(S), NEW T \in SUBSET S, NEW g, NEW h,
           IsAddition(f, S, g), IsAddition(f, T, h)
    PROVE  g[T] = h[T]
<1>. DEFINE Bad == {s \in SUBSET T : g[s] # h[s]}
<1>0. IsFiniteSet(T)
  BY FS_Subset
<1>1. SUFFICES ASSUME Bad # {} PROVE FALSE
  OBVIOUS
<1>2. PICK s \in Bad : \A u \in Bad : u \subseteq s => u = s
  <2>1. Bad \in SUBSET SUBSET T
    OBVIOUS
  <2>. HIDE DEF Bad
  <2>. QED BY <1>0, <1>1, <2>1, SmallestSubset
<1>3. s \in SUBSET T /\ s \in SUBSET S /\ g[s] # h[s]
  BY <1>2
<1>4. g[s] = IF s = {} THEN 0 ELSE f[Least(s)] + g[s \ {Least(s)}]
  BY <1>3, AdditionAt
<1>5. h[s] = IF s = {} THEN 0 ELSE f[Least(s)] + h[s \ {Least(s)}]
  BY <1>3, AdditionAt
<1>6. s # {} /\ Least(s) \in s
  BY <1>3, <1>4, <1>5, LeastIn
<1>7. s \ {Least(s)} \notin Bad
  BY <1>2, <1>6
<1>8. g[s \ {Least(s)}] = h[s \ {Least(s)}]
  BY <1>3, <1>7
<1>. QED
  BY <1>3, <1>4, <1>5, <1>8

LEMMA PlusEquation ==
    ASSUME NEW S, IsFiniteSet(S), NEW f, \A x \in S : f[x] \in Nat
    PROVE  Plus(f, S) = IF S = {} THEN 0 ELSE f[Least(S)] + Plus(f, S \ {Least(S)})
<1>1. PICK g : IsAddition(f, S, g) /\ Plus(f, S) = g[S]
  BY AdditionExists, PlusIsAddition
<1>2. Plus(f, S) = IF S = {} THEN 0 ELSE f[Least(S)] + g[S \ {Least(S)}]
  BY <1>1, AdditionAt
<1>. DEFINE T == S \ {Least(S)}
<1>3. T \in SUBSET S /\ IsFiniteSet(T)
  BY FS_Subset
<1>4. PICK h : IsAddition(f, T, h) /\ Plus(f, T) = h[T]
  BY <1>3, AdditionExists, PlusIsAddition
<1>5. g[T] = h[T]
  BY <1>1, <1>3, <1>4, AdditionsAgree
<1>. QED
  BY <1>2, <1>4, <1>5

LEMMA PlusTyped ==
    ASSUME NEW S, IsFiniteSet(S), NEW f, \A x \in S : f[x] \in Nat
    PROVE  Plus(f, S) \in Nat
<1>1. PICK g : IsAddition(f, S, g) /\ Plus(f, S) = g[S]
  BY AdditionExists, PlusIsAddition
<1>. DEFINE Bad == {s \in SUBSET S : g[s] \notin Nat}
<1>2. SUFFICES ASSUME Bad # {} PROVE FALSE
  BY <1>1
<1>3. PICK s \in Bad : \A u \in Bad : u \subseteq s => u = s
  <2>1. Bad \in SUBSET SUBSET S
    OBVIOUS
  <2>. HIDE DEF Bad
  <2>. QED BY <1>2, <2>1, SmallestSubset
<1>4. s \in SUBSET S /\ g[s] \notin Nat
  BY <1>3
<1>5. g[s] = IF s = {} THEN 0 ELSE f[Least(s)] + g[s \ {Least(s)}]
  <2>1. IsAddition(f, S, g) /\ s \in SUBSET S
    BY <1>1, <1>4
  <2>. HIDE DEF Bad
  <2>. QED BY <2>1, AdditionAt
<1>6. s # {} /\ Least(s) \in s
  BY <1>4, <1>5, LeastIn
<1>7. g[s \ {Least(s)}] \in Nat /\ f[Least(s)] \in Nat
  BY <1>3, <1>4, <1>6
<1>. QED
  BY <1>4, <1>5, <1>6, <1>7, SMT

LEMMA PlusEmpty ==
    ASSUME NEW f
    PROVE  Plus(f, {}) = 0
BY FS_EmptySet, PlusEquation

\* Whichever element is taken first.
LEMMA PlusOneAndOthers ==
    ASSUME NEW S, IsFiniteSet(S), NEW f, \A x \in S : f[x] \in Nat, NEW e \in S
    PROVE  Plus(f, S) = f[e] + Plus(f, S \ {e})
<1>. DEFINE Bad == {s \in SUBSET S : \E x \in s : Plus(f, s) # f[x] + Plus(f, s \ {x})}
<1>1. SUFFICES ASSUME Bad # {} PROVE FALSE
  OBVIOUS
<1>2. PICK s \in Bad : \A u \in Bad : u \subseteq s => u = s
  <2>1. Bad \in SUBSET SUBSET S
    OBVIOUS
  <2>. HIDE DEF Bad
  <2>. QED BY <1>1, <2>1, SmallestSubset
<1>3. s \in SUBSET S /\ IsFiniteSet(s)
  BY <1>2, FS_Subset
<1>4. PICK x \in s : Plus(f, s) # f[x] + Plus(f, s \ {x})
  BY <1>2
<1>. DEFINE c == Least(s)
<1>5. c \in s /\ Plus(f, s) = f[c] + Plus(f, s \ {c})
  <2>1. \A y \in s : f[y] \in Nat
    BY <1>3
  <2>. QED BY <2>1, <1>3, <1>4, PlusEquation, LeastIn
<1>6. x # c
  BY <1>4, <1>5
<1>. HIDE DEF c
<1>. DEFINE rest == Plus(f, (s \ {c}) \ {x})
<1>7. s \ {c} \notin Bad /\ s \ {x} \notin Bad
  BY <1>2, <1>4, <1>5
<1>8. Plus(f, s \ {c}) = f[x] + rest
  BY <1>3, <1>4, <1>6, <1>7
<1>9. Plus(f, s \ {x}) = f[c] + rest
  <2>1. (s \ {x}) \ {c} = (s \ {c}) \ {x}
    OBVIOUS
  <2>2. Plus(f, s \ {x}) = f[c] + Plus(f, (s \ {x}) \ {c})
    BY <1>3, <1>5, <1>6, <1>7
  <2>. QED BY <2>1, <2>2
<1>10. rest \in Nat /\ f[x] \in Nat /\ f[c] \in Nat
  <2>1. IsFiniteSet((s \ {c}) \ {x}) /\ \A y \in (s \ {c}) \ {x} : f[y] \in Nat
    BY <1>3, FS_Subset
  <2>2. rest \in Nat
    BY <2>1, PlusTyped
  <2>. QED BY <1>3, <1>4, <1>5, <2>2
<1>. HIDE DEF rest
<1>. QED
  BY <1>4, <1>5, <1>8, <1>9, <1>10, SMT

LEMMA PlusAgrees ==
    ASSUME NEW S, IsFiniteSet(S), NEW f, NEW g, \A x \in S : f[x] \in Nat /\ f[x] = g[x]
    PROVE  Plus(f, S) = Plus(g, S)
<1>. DEFINE Bad == {s \in SUBSET S : Plus(f, s) # Plus(g, s)}
<1>1. SUFFICES ASSUME Bad # {} PROVE FALSE
  OBVIOUS
<1>2. PICK s \in Bad : \A u \in Bad : u \subseteq s => u = s
  <2>1. Bad \in SUBSET SUBSET S
    OBVIOUS
  <2>. HIDE DEF Bad
  <2>. QED BY <1>1, <2>1, SmallestSubset
<1>3. s \in SUBSET S /\ IsFiniteSet(s) /\ Plus(f, s) # Plus(g, s)
  BY <1>2, FS_Subset
<1>4. Plus(f, s) = IF s = {} THEN 0 ELSE f[Least(s)] + Plus(f, s \ {Least(s)})
  BY <1>3, PlusEquation
<1>5. Plus(g, s) = IF s = {} THEN 0 ELSE g[Least(s)] + Plus(g, s \ {Least(s)})
  <2>1. \A x \in s : g[x] \in Nat
    BY <1>3
  <2>. QED BY <2>1, <1>3, PlusEquation
<1>6. s # {} /\ Least(s) \in s
  BY <1>3, <1>4, <1>5, LeastIn
<1>7. Plus(f, s \ {Least(s)}) = Plus(g, s \ {Least(s)})
  BY <1>2, <1>6
<1>8. f[Least(s)] = g[Least(s)]
  BY <1>3, <1>6
<1>. QED
  BY <1>3, <1>4, <1>5, <1>6, <1>7, <1>8

LEMMA PlusNothing ==
    ASSUME NEW S, IsFiniteSet(S), NEW f, \A x \in S : f[x] = 0
    PROVE  Plus(f, S) = 0
<1>. DEFINE Bad == {s \in SUBSET S : Plus(f, s) # 0}
<1>1. SUFFICES ASSUME Bad # {} PROVE FALSE
  OBVIOUS
<1>2. PICK s \in Bad : \A u \in Bad : u \subseteq s => u = s
  <2>1. Bad \in SUBSET SUBSET S
    OBVIOUS
  <2>. HIDE DEF Bad
  <2>. QED BY <1>1, <2>1, SmallestSubset
<1>3. s \in SUBSET S /\ IsFiniteSet(s) /\ Plus(f, s) # 0
  BY <1>2, FS_Subset
<1>4. Plus(f, s) = IF s = {} THEN 0 ELSE f[Least(s)] + Plus(f, s \ {Least(s)})
  <2>1. \A x \in s : f[x] \in Nat
    BY <1>3
  <2>. QED BY <2>1, <1>3, PlusEquation
<1>5. s # {} /\ Least(s) \in s
  BY <1>3, <1>4, LeastIn
<1>6. Plus(f, s \ {Least(s)}) = 0 /\ f[Least(s)] = 0
  BY <1>2, <1>3, <1>5
<1>. QED
  BY <1>3, <1>4, <1>5, <1>6, SMT

\* What is added to one value is added to the sum.
LEMMA PlusIncreased ==
    ASSUME NEW S, IsFiniteSet(S), NEW f, NEW g, NEW d \in S, NEW c \in Nat,
           \A x \in S : f[x] \in Nat, \A x \in S \ {d} : g[x] = f[x], g[d] = c + f[d]
    PROVE  Plus(g, S) = c + Plus(f, S)
<1>. DEFINE r == Plus(f, S \ {d})
<1>1. IsFiniteSet(S \ {d}) /\ \A y \in S \ {d} : f[y] \in Nat
  BY FS_RemoveElement
<1>2. r \in Nat /\ f[d] \in Nat
  BY <1>1, PlusTyped
<1>3. Plus(g, S \ {d}) = r
  BY <1>1, PlusAgrees
<1>4. Plus(g, S) = g[d] + r
  <2>1. \A y \in S : g[y] \in Nat
    BY <1>2, SMT
  <2>. QED BY <2>1, <1>3, PlusOneAndOthers
<1>5. Plus(f, S) = f[d] + r
  BY PlusOneAndOthers
<1>. HIDE DEF r
<1>. QED
  BY <1>2, <1>4, <1>5, SMT

\* A sum by groups is the sum of all.
LEMMA PlusByGroups ==
    ASSUME NEW S, IsFiniteSet(S), NEW D, IsFiniteSet(D), NEW f, \A x \in S : f[x] \in Nat,
           NEW group, \A x \in S : group[x] \in D
    PROVE  Plus([d \in D |-> Plus(f, {x \in S : group[x] = d})], D) = Plus(f, S)
<1>. DEFINE Of(s, d) == {x \in s : group[x] = d}
            Sums(s) == [d \in D |-> Plus(f, Of(s, d))]
            Bad == {s \in SUBSET S : Plus(Sums(s), D) # Plus(f, s)}
<1>1. SUFFICES ASSUME Bad # {} PROVE FALSE
  <2>1. Bad = {} => Plus(Sums(S), D) = Plus(f, S)
    OBVIOUS
  <2>. QED BY <2>1
<1>2. PICK s \in Bad : \A u \in Bad : u \subseteq s => u = s
  <2>1. Bad \in SUBSET SUBSET S
    OBVIOUS
  <2>. HIDE DEF Bad
  <2>. QED BY <1>1, <2>1, SmallestSubset
<1>3. s \in SUBSET S /\ IsFiniteSet(s) /\ Plus(Sums(s), D) # Plus(f, s)
  BY <1>2, FS_Subset
<1>4. \A t \in SUBSET S : \A d \in D : IsFiniteSet(Of(t, d)) /\ Sums(t)[d] \in Nat
  <2>1. ASSUME NEW t \in SUBSET S, NEW d \in D PROVE IsFiniteSet(Of(t, d)) /\ Sums(t)[d] \in Nat
    <3>1. Of(t, d) \in SUBSET S
      OBVIOUS
    <3>2. IsFiniteSet(Of(t, d))
      BY <3>1, FS_Subset
    <3>3. Plus(f, Of(t, d)) \in Nat
      BY <3>1, <3>2, PlusTyped
    <3>. QED BY <3>2, <3>3
  <2>. QED BY <2>1
<1>5. CASE s = {}
  <2>1. \A d \in D : Sums(s)[d] = 0
    <3>1. \A d \in D : Of(s, d) = {}
      BY <1>5
    <3>. QED BY <3>1, PlusEmpty
  <2>2. Plus(Sums(s), D) = 0
    <3>. HIDE DEF Sums
    <3>. QED BY <2>1, PlusNothing
  <2>3. Plus(f, s) = 0
    BY <1>5, PlusEmpty
  <2>. QED BY <1>3, <2>2, <2>3
<1>6. CASE s # {}
  <2>1. PICK e : e \in s
    BY <1>6
  <2>. DEFINE t == s \ {e}
  <2>2. t \in SUBSET S /\ t \notin Bad /\ e \in S /\ e \notin t
    BY <1>2, <1>3, <2>1
  <2>3. Plus(Sums(t), D) = Plus(f, t)
    BY <2>2
  <2>4. Plus(f, s) = f[e] + Plus(f, t)
    <3>1. \A x \in s : f[x] \in Nat
      BY <1>3
    <3>. QED BY <3>1, <1>3, <2>1, PlusOneAndOthers
  <2>5. \A d \in D \ {group[e]} : Sums(s)[d] = Sums(t)[d]
    <3>1. \A d \in D \ {group[e]} : Of(s, d) = Of(t, d)
      OBVIOUS
    <3>. QED BY <3>1
  <2>6. Sums(s)[group[e]] = f[e] + Sums(t)[group[e]]
    <3>1. e \in Of(s, group[e]) /\ Of(s, group[e]) \ {e} = Of(t, group[e])
      BY <2>1
    <3>2. IsFiniteSet(Of(s, group[e])) /\ \A x \in Of(s, group[e]) : f[x] \in Nat
      <4>1. group[e] \in D
        BY <2>2
      <4>. QED BY <1>3, <1>4, <4>1
    <3>3. Plus(f, Of(s, group[e])) = f[e] + Plus(f, Of(t, group[e]))
      <4>. DEFINE A == Of(s, group[e])
      <4>1. e \in A /\ IsFiniteSet(A) /\ (\A x \in A : f[x] \in Nat) /\ A \ {e} = Of(t, group[e])
        BY <3>1, <3>2
      <4>. HIDE DEF A, Of
      <4>2. Plus(f, A) = f[e] + Plus(f, A \ {e})
        BY <4>1, PlusOneAndOthers
      <4>. QED BY <4>1, <4>2 DEF A
    <3>4. group[e] \in D
      BY <2>2
    <3>. QED BY <3>3, <3>4
  <2>7. Plus(Sums(s), D) = f[e] + Plus(Sums(t), D)
    <3>1. group[e] \in D /\ f[e] \in Nat
      BY <2>2
    <3>2. \A d \in D : Sums(t)[d] \in Nat
      BY <1>4, <2>2
    <3>. HIDE DEF Sums, t
    <3>. QED BY <2>5, <2>6, <3>1, <3>2, PlusIncreased
  <2>. QED BY <1>3, <2>3, <2>4, <2>7
<1>. QED
  BY <1>5, <1>6

LEMMA SumOfIsPlus == ASSUME NEW f PROVE SumOf(f) = Plus(f, DOMAIN f)
BY DEF SumOf, FoldSet, MapThenFoldSet, Plus, FoldFunctionOnSet

DurationOf == [h \in Hours |-> h.seconds]

IsCounting(S, g) ==
    g = [s \in SUBSET S |-> IF s = {} THEN 0
                            ELSE (CHOOSE x \in s : TRUE).seconds + g[s \ {CHOOSE x \in s : TRUE}]]

LEMMA HoursAreCounted == ASSUME NEW S PROVE HoursIn(S) = (CHOOSE g : IsCounting(S, g))[S]
BY DEF HoursIn, FoldSet, MapThenFoldSet, IsCounting

LEMMA HoursTyped ==
    /\ IsFiniteSet(Hours) /\ IsFiniteSet(Roster)
    /\ \A h \in Hours : DurationOf[h] = h.seconds /\ h.seconds \in Nat /\ h.seconds > 0 /\ h.day \in Nat
BY DesktopReportsAssumption, SMT DEF DesktopReportsAssumption, DurationOf

LEMMA CountingIsAddition ==
    ASSUME NEW S, S \subseteq Hours, NEW g
    PROVE  IsCounting(S, g) <=> IsAddition(DurationOf, S, g)
<1>1. \A s \in SUBSET S : s # {} => DurationOf[Least(s)] = Least(s).seconds
  BY LeastIn, HoursTyped
<1>. DEFINE counted == [s \in SUBSET S |-> IF s = {} THEN 0 ELSE Least(s).seconds + g[s \ {Least(s)}]]
            added == [s \in SUBSET S |-> IF s = {} THEN 0 ELSE DurationOf[Least(s)] + g[s \ {Least(s)}]]
<1>2. counted = added
  <2>1. \A s \in SUBSET S : counted[s] = added[s]
    BY <1>1, Zenon
  <2>. QED BY <2>1
<1>3. IsCounting(S, g) <=> g = counted
  BY Zenon DEF IsCounting, Least
<1>4. IsAddition(DurationOf, S, g) <=> g = added
  BY Zenon DEF IsAddition, Least
<1>. QED
  BY <1>2, <1>3, <1>4

LEMMA HoursArePlus ==
    ASSUME NEW S, S \subseteq Hours
    PROVE  HoursIn(S) = Plus(DurationOf, S) /\ HoursIn(S) \in Nat
<1>1. IsFiniteSet(S) /\ \A h \in S : DurationOf[h] \in Nat
  BY HoursTyped, FS_Subset
<1>2. PICK g : IsAddition(DurationOf, S, g) /\ Plus(DurationOf, S) = g[S]
  BY <1>1, AdditionExists, PlusIsAddition
<1>3. IsCounting(S, g)
  BY <1>2, CountingIsAddition
<1>4. PICK h : IsCounting(S, h) /\ HoursIn(S) = h[S]
  BY <1>3, HoursAreCounted
<1>5. IsAddition(DurationOf, S, h)
  BY <1>4, CountingIsAddition
<1>6. g[S] = h[S]
  BY <1>1, <1>2, <1>5, AdditionsAgree
<1>7. Plus(DurationOf, S) \in Nat
  BY <1>1, PlusTyped
<1>. QED
  BY <1>2, <1>4, <1>6, <1>7

LEMMA FiniteImage ==
    ASSUME NEW S, IsFiniteSet(S), NEW f
    PROVE  IsFiniteSet({f[x] : x \in S})
<1>. DEFINE T == {f[x] : x \in S}
            g == [x \in S |-> f[x]]
<1>1. g \in Surjection(S, T)
  BY DEF Surjection
<1>. HIDE DEF T, g
<1>2. IsFiniteSet(T)
  BY <1>1, FS_Surjection
<1>. QED
  BY <1>2 DEF T

LEMMA PlusOfOne ==
    ASSUME NEW f, NEW x, f[x] \in Nat
    PROVE  Plus(f, {x}) = f[x]
<1>1. IsFiniteSet({x}) /\ x \in {x} /\ {x} \ {x} = {} /\ \A y \in {x} : f[y] \in Nat
  BY FS_Singleton
<1>2. Plus(f, {x}) = f[x] + Plus(f, {x} \ {x})
  <2>. DEFINE S == {x}
  <2>1. IsFiniteSet(S) /\ x \in S /\ \A y \in S : f[y] \in Nat
    BY <1>1
  <2>. HIDE DEF S
  <2>2. Plus(f, S) = f[x] + Plus(f, S \ {x})
    BY <2>1, PlusOneAndOthers
  <2>. QED BY <2>2 DEF S
<1>. QED
  BY <1>1, <1>2, PlusEmpty, SMT

\* Parts of a whole that are each at most their share are at most the whole.
LEMMA Distributes ==
    ASSUME NEW a \in Nat, NEW b \in Nat, NEW t \in Nat
    PROVE  (a + b) * t = a * t + b * t /\ a * t \in Nat
BY SMT

LEMMA PlusBounded ==
    ASSUME NEW S, IsFiniteSet(S), NEW a, NEW b, NEW t \in Nat,
           \A x \in S : a[x] \in Nat /\ b[x] \in Nat /\ a[x] * t <= 100 * b[x]
    PROVE  Plus(a, S) * t <= 100 * Plus(b, S)
<1>. DEFINE Bad == {s \in SUBSET S : ~(Plus(a, s) * t <= 100 * Plus(b, s))}
<1>1. SUFFICES ASSUME Bad # {} PROVE FALSE
  OBVIOUS
<1>2. PICK s \in Bad : \A u \in Bad : u \subseteq s => u = s
  <2>1. Bad \in SUBSET SUBSET S
    OBVIOUS
  <2>. HIDE DEF Bad
  <2>. QED BY <1>1, <2>1, SmallestSubset
<1>3. s \in SUBSET S /\ IsFiniteSet(s) /\ ~(Plus(a, s) * t <= 100 * Plus(b, s))
  BY <1>2, FS_Subset
<1>4. s # {}
  <2>1. Plus(a, {}) = 0 /\ Plus(b, {}) = 0
    BY PlusEmpty
  <2>2. 0 * t <= 100 * 0
    BY SMT
  <2>. QED BY <1>3, <2>1, <2>2
<1>5. PICK e : e \in s
  BY <1>4
<1>. DEFINE A == Plus(a, s \ {e})
            B == Plus(b, s \ {e})
<1>6. A * t <= 100 * B
  BY <1>2, <1>5
<1>7. IsFiniteSet(s \ {e}) /\ \A y \in s \ {e} : a[y] \in Nat /\ b[y] \in Nat
  BY <1>3, FS_Subset
<1>8. A \in Nat /\ B \in Nat
  BY <1>7, PlusTyped
<1>9. Plus(a, s) = a[e] + A /\ Plus(b, s) = b[e] + B
  BY <1>3, <1>5, PlusOneAndOthers
<1>10. a[e] \in Nat /\ b[e] \in Nat /\ a[e] * t <= 100 * b[e]
  BY <1>3, <1>5
<1>. HIDE DEF A, B
<1>11. (a[e] + A) * t = a[e] * t + A * t /\ a[e] * t \in Nat /\ A * t \in Nat
  BY <1>8, <1>10, Distributes
<1>12. (a[e] + A) * t <= 100 * (b[e] + B)
  <2>. DEFINE X == a[e] * t
              Y == A * t
              Z == (a[e] + A) * t
  <2>1. X \in Nat /\ Y \in Nat /\ Z = X + Y /\ X <= 100 * b[e] /\ Y <= 100 * B
    BY <1>6, <1>10, <1>11
  <2>. HIDE DEF X, Y, Z
  <2>2. Z <= 100 * (b[e] + B)
    BY <2>1, <1>8, <1>10, SMT
  <2>. QED BY <2>2 DEF Z
<1>. QED
  BY <1>3, <1>9, <1>12

---------------------------------------------------------------------------
(* The tables of a document.                                                *)

\* Hours that are counted in groups are all counted.
LEMMA GroupedHours ==
    ASSUME NEW hours, hours \subseteq Hours, NEW D, IsFiniteSet(D), NEW group,
           \A h \in hours : group[h] \in D,
           NEW F, DOMAIN F = D, \A d \in D : F[d] = HoursIn({h \in hours : group[h] = d})
    PROVE  SumOf(F) = HoursIn(hours) /\ \A d \in D : F[d] \in Nat
<1>1. IsFiniteSet(hours) /\ \A h \in hours : DurationOf[h] \in Nat
  BY HoursTyped, FS_Subset
<1>. DEFINE G == [d \in D |-> Plus(DurationOf, {x \in hours : group[x] = d})]
<1>2. Plus(G, D) = Plus(DurationOf, hours)
  <2>. DEFINE f == DurationOf
  <2>1. \A h \in hours : f[h] \in Nat
    BY <1>1
  <2>. HIDE DEF f
  <2>2. Plus([d \in D |-> Plus(f, {x \in hours : group[x] = d})], D) = Plus(f, hours)
    BY <1>1, <2>1, PlusByGroups
  <2>. QED BY <2>2 DEF f
<1>3. \A d \in D : F[d] = G[d] /\ F[d] \in Nat
  <2>1. ASSUME NEW d \in D PROVE F[d] = G[d] /\ F[d] \in Nat
    <3>1. {h \in hours : group[h] = d} \subseteq Hours
      OBVIOUS
    <3>. DEFINE T == {h \in hours : group[h] = d}
    <3>2. HoursIn(T) = Plus(DurationOf, T) /\ HoursIn(T) \in Nat
      <4>. HIDE DEF T
      <4>. QED BY <3>1, HoursArePlus DEF T
    <3>. QED BY <3>2
  <2>. QED BY <2>1
<1>4. Plus(F, D) = Plus(G, D)
  <2>. HIDE DEF G
  <2>. QED BY <1>3, PlusAgrees
<1>5. HoursIn(hours) = Plus(DurationOf, hours)
  BY HoursArePlus
<1>. QED
  BY <1>2, <1>3, <1>4, <1>5, SumOfIsPlus

LEMMA ByKeys ==
    ASSUME NEW hours, hours \subseteq Hours, NEW keys, IsFiniteSet(keys), NEW field,
           \A h \in hours : h[field] \in keys
    PROVE  /\ SumOf(By(keys, field, hours)) = HoursIn(hours)
           /\ DOMAIN By(keys, field, hours) = keys
           /\ \A k \in keys : By(keys, field, hours)[k] \in Nat
<1>. DEFINE group == [h \in hours |-> h[field]]
            F == By(keys, field, hours)
<1>1. \A h \in hours : group[h] \in keys
  OBVIOUS
<1>2. DOMAIN F = keys
  BY DEF By
<1>3. \A d \in keys : F[d] = HoursIn({h \in hours : group[h] = d})
  <2>1. \A d : {h \in hours : group[h] = d} = {h \in hours : h[field] = d}
    OBVIOUS
  <2>. QED BY <2>1 DEF By
<1>. HIDE DEF group, F
<1>4. SumOf(F) = HoursIn(hours) /\ \A d \in keys : F[d] \in Nat
  BY <1>1, <1>2, <1>3, GroupedHours
<1>. QED
  BY <1>2, <1>4 DEF F

\* Each day of a period is in one of its weeks.
LEMMA WeekOfDay ==
    ASSUME NEW from \in Nat, NEW to \in Nat, NEW day \in Nat, from <= day, day <= to
    PROVE  LET monday == from - (from % 7)
               week == (day - monday) \div 7
           IN  /\ week \in 0 .. to /\ monday + 7 * week <= to
               /\ \A i \in Nat : (monday + 7 * i <= day /\ day <= monday + 7 * i + 6) <=> i = week
<1>. DEFINE monday == from - (from % 7)
            a == day - monday
            week == a \div 7
<1>1. monday \in Nat /\ monday <= from
  BY Mondays
<1>2. a \in Nat /\ a = day - monday
  BY <1>1, SMT
<1>. HIDE DEF monday, a
<1>3. a % 7 \in 0 .. 6 /\ week \in Nat /\ a = (7 * week) + (a % 7)
  <2>1. 7 \in Nat \ {0}
    OBVIOUS
  <2>2. a % 7 \in 0 .. 7 - 1 /\ a \div 7 \in Nat /\ a = (7 * (a \div 7)) + (a % 7)
    BY <1>2, <2>1, Quotients
  <2>. QED BY <2>2
<1>. DEFINE r == a % 7
<1>4. r \in 0 .. 6 /\ a = 7 * week + r
  BY <1>3
<1>. HIDE DEF week, r
<1>5. week \in 0 .. to /\ monday + 7 * week <= to
  BY <1>1, <1>2, <1>3, <1>4, SMT
<1>6. \A i \in Nat : (monday + 7 * i <= day /\ day <= monday + 7 * i + 6) <=> i = week
  BY <1>1, <1>2, <1>3, <1>4, SMT
<1>. QED
  BY <1>5, <1>6 DEF monday, a, week

\* The hours of a period by its weeks.
LEMMA HoursByWeek ==
    ASSUME NEW p, p.from \in Nat, p.to \in Nat, p.from <= p.to,
           NEW hours, hours \subseteq Hours, \A h \in hours : p.from <= h.day /\ h.day <= p.to
    PROVE  SumOf(ByWeek(p, hours)) = HoursIn(hours)
<1>. DEFINE monday == p.from - (p.from % 7)
            D == {k \in 0 .. p.to : monday + 7 * k <= p.to}
            group == [h \in hours |-> (h.day - monday) \div 7]
            F == ByWeek(p, hours)
<1>1. monday \in Nat /\ monday <= p.from
  BY Mondays
<1>2. IsFiniteSet(D)
  <2>1. IsFiniteSet(0 .. p.to)
    BY FS_Interval
  <2>. QED BY <2>1, FS_Subset
<1>3. DOMAIN F = D /\ DOMAIN ReportWeeks(p) = D
  BY DEF ByWeek, ReportWeeks
<1>4. \A h \in hours :
        /\ h.day \in Nat
        /\ group[h] \in 0 .. p.to /\ monday + 7 * group[h] <= p.to
        /\ \A i \in Nat : (monday + 7 * i <= h.day /\ h.day <= monday + 7 * i + 6) <=> i = group[h]
  <2>1. ASSUME NEW h \in hours
        PROVE  /\ h.day \in Nat
               /\ group[h] \in 0 .. p.to /\ monday + 7 * group[h] <= p.to
               /\ \A i \in Nat : (monday + 7 * i <= h.day /\ h.day <= monday + 7 * i + 6) <=> i = group[h]
    <3>1. h.day \in Nat /\ p.from <= h.day /\ h.day <= p.to
      BY HoursTyped
    <3>. QED BY <3>1, WeekOfDay
  <2>. QED BY <2>1
<1>5. \A h \in hours : group[h] \in D
  BY <1>4
<1>6. \A d \in D : F[d] = HoursIn({h \in hours : group[h] = d})
  <2>1. ASSUME NEW d \in D PROVE F[d] = HoursIn({h \in hours : group[h] = d})
    <3>1. /\ ReportWeeks(p)[d].from = IF monday + 7 * d < p.from THEN p.from ELSE monday + 7 * d
          /\ ReportWeeks(p)[d].to = IF monday + 7 * d + 6 > p.to THEN p.to ELSE monday + 7 * d + 6
      BY DEF ReportWeeks
    <3>2. d \in Nat
      OBVIOUS
    <3>3. \A h \in hours : (ReportWeeks(p)[d].from <= h.day /\ h.day <= ReportWeeks(p)[d].to)
                             <=> group[h] = d
      <4>1. ASSUME NEW h \in hours
            PROVE  (ReportWeeks(p)[d].from <= h.day /\ h.day <= ReportWeeks(p)[d].to) <=> group[h] = d
        <5>. DEFINE m == monday + 7 * d
        <5>1. h.day \in Nat /\ p.from <= h.day /\ h.day <= p.to
          BY <1>4
        <5>2. (m <= h.day /\ h.day <= m + 6) <=> group[h] = d
          BY <1>4, <3>2
        <5>3. m \in Nat
          BY <1>1, <3>2, SMT
        <5>4. /\ ReportWeeks(p)[d].from = IF m < p.from THEN p.from ELSE m
              /\ ReportWeeks(p)[d].to = IF m + 6 > p.to THEN p.to ELSE m + 6
          BY <3>1
        <5>. HIDE DEF m, group, monday
        <5>5. (ReportWeeks(p)[d].from <= h.day /\ h.day <= ReportWeeks(p)[d].to)
                <=> (m <= h.day /\ h.day <= m + 6)
          BY <5>1, <5>3, <5>4, SMT
        <5>. QED BY <5>2, <5>5
      <4>. QED BY <4>1
    <3>4. F[d] = HoursIn({h \in hours : ReportWeeks(p)[d].from <= h.day /\ h.day <= ReportWeeks(p)[d].to})
      BY <1>3 DEF ByWeek, Within
    <3>. HIDE DEF group, F
    <3>5. {h \in hours : ReportWeeks(p)[d].from <= h.day /\ h.day <= ReportWeeks(p)[d].to}
            = {h \in hours : group[h] = d}
      BY <3>3
    <3>. QED BY <3>4, <3>5
  <2>. QED BY <2>1
<1>. HIDE DEF group, F, D
<1>. QED
  BY <1>2, <1>3, <1>5, <1>6, GroupedHours DEF F

\* The hours of the members, and of each by weeks.
LEMMA HoursByMember ==
    ASSUME NEW p, p.from \in Nat, p.to \in Nat, p.from <= p.to,
           NEW members, IsFiniteSet(members),
           NEW hours, hours \subseteq Hours, \A h \in hours : p.from <= h.day /\ h.day <= p.to,
           NEW rows, rows = MemberRows(p, members, hours)
    PROVE  /\ DOMAIN rows = members \cup {h.author : h \in hours}
           /\ SumOf([m \in DOMAIN rows |-> rows[m].total]) = HoursIn(hours)
           /\ \A m \in DOMAIN rows : rows[m].total = SumOf(rows[m].weeks)
<1>. DEFINE D == members \cup {h.author : h \in hours}
            group == [h \in hours |-> h.author]
            Own(m) == {h \in hours : h.author = m}
            F == [m \in D |-> rows[m].total]
<1>1. DOMAIN rows = D
  BY DEF MemberRows
<1>2. IsFiniteSet(D)
  <2>1. IsFiniteSet(hours)
    BY HoursTyped, FS_Subset
  <2>2. IsFiniteSet({group[h] : h \in hours})
    <3>. HIDE DEF group
    <3>. QED BY <2>1, FiniteImage
  <2>3. {group[h] : h \in hours} = {h.author : h \in hours}
    OBVIOUS
  <2>4. IsFiniteSet({h.author : h \in hours})
    BY <2>2, <2>3
  <2>. QED BY <2>4, FS_Union
<1>3. \A m \in D : rows[m].total = HoursIn(Own(m)) /\ rows[m].weeks = ByWeek(p, Own(m))
  BY DEF MemberRows
<1>4. SumOf(F) = HoursIn(hours)
  <2>1. \A h \in hours : group[h] \in D
    OBVIOUS
  <2>2. DOMAIN F = D
    OBVIOUS
  <2>3. \A d \in D : F[d] = HoursIn({h \in hours : group[h] = d})
    <3>1. \A d : {h \in hours : group[h] = d} = Own(d)
      OBVIOUS
    <3>. QED BY <1>3, <3>1
  <2>. HIDE DEF group, F, D
  <2>. QED BY <1>2, <2>1, <2>2, <2>3, GroupedHours
<1>5. ASSUME NEW m \in D PROVE rows[m].total = SumOf(rows[m].weeks)
  <2>1. Own(m) \subseteq Hours /\ \A h \in Own(m) : p.from <= h.day /\ h.day <= p.to
    OBVIOUS
  <2>2. SumOf(ByWeek(p, Own(m))) = HoursIn(Own(m))
    <3>. DEFINE own == Own(m)
    <3>. HIDE DEF own
    <3>1. own \subseteq Hours /\ \A h \in own : p.from <= h.day /\ h.day <= p.to
      BY <2>1 DEF own
    <3>2. SumOf(ByWeek(p, own)) = HoursIn(own)
      BY <3>1, HoursByWeek
    <3>. QED BY <3>2 DEF own
  <2>. QED BY <1>3, <2>2
<1>6. [m \in DOMAIN rows |-> rows[m].total] = F
  BY <1>1
<1>. HIDE DEF F
<1>. QED
  BY <1>1, <1>4, <1>5, <1>6

---------------------------------------------------------------------------
(* The ranking of the keys, and the slices of a chart.                      *)

LEMMA LeastValue ==
    ASSUME NEW S, S # {}, NEW f, \A x \in S : f[x] \in Nat
    PROVE  \E x \in S : \A y \in S : f[x] <= f[y]
<1>. DEFINE T == {f[x] : x \in S}
<1>1. T \subseteq Nat /\ T # {}
  OBVIOUS
<1>2. PICK n \in T : \A m \in T : ~(<<m, n>> \in OpToRel(<, Nat))
  <2>. HIDE DEF T
  <2>. QED BY <1>1, NatLessThanWellFounded, WFMin, Zenon
<1>3. \A m \in T : ~(m < n)
  BY <1>1, <1>2, Zenon DEF OpToRel
<1>4. PICK x \in S : f[x] = n
  BY <1>2
<1>5. \A y \in S : f[x] \in Nat /\ f[y] \in Nat /\ ~(f[y] < f[x])
  BY <1>3, <1>4
<1>. QED
  BY <1>5, SMT

IsRanking(f, s, keys) ==
    keys \in SetToSeqs(s) /\ \A i, j \in DOMAIN keys : i < j => f[keys[i]] >= f[keys[j]]

LEMMA RankingExists ==
    ASSUME NEW D, IsFiniteSet(D), NEW f, \A x \in D : f[x] \in Nat
    PROVE  \E keys : IsRanking(f, D, keys)
<1>. DEFINE Bad == {s \in SUBSET D : ~\E keys : IsRanking(f, s, keys)}
<1>1. SUFFICES ASSUME Bad # {} PROVE FALSE
  OBVIOUS
<1>2. PICK s \in Bad : \A u \in Bad : u \subseteq s => u = s
  <2>1. Bad \in SUBSET SUBSET D
    OBVIOUS
  <2>. HIDE DEF Bad
  <2>. QED BY <1>1, <2>1, SmallestSubset
<1>3. s \in SUBSET D /\ IsFiniteSet(s) /\ ~\E keys : IsRanking(f, s, keys)
  BY <1>2, FS_Subset
<1>4. CASE s = {}
  <2>1. Cardinality(s) = 0 /\ 1 .. 0 = {}
    BY <1>4, FS_EmptySet, SMT
  <2>. DEFINE keys == [i \in 1 .. Cardinality(s) |-> 0]
  <2>2. keys \in SetToSeqs(s) /\ DOMAIN keys = {}
    BY <2>1 DEF SetToSeqs
  <2>3. IsRanking(f, s, keys)
    BY <2>2 DEF IsRanking
  <2>. QED BY <1>3, <2>3
<1>5. CASE s # {}
  <2>1. PICK m \in s : \A y \in s : f[m] <= f[y]
    <3>1. \A x \in s : f[x] \in Nat
      BY <1>3
    <3>. HIDE DEF Bad
    <3>. QED BY <1>5, <3>1, LeastValue
  <2>. DEFINE t == s \ {m}
              n == Cardinality(t)
  <2>2. n \in Nat /\ Cardinality(s) = n + 1
    <3>1. IsFiniteSet(s) /\ m \in s
      BY <1>3
    <3>2. IsFiniteSet(t) /\ Cardinality(t) = Cardinality(s) - 1
      BY <3>1, FS_RemoveElement
    <3>3. Cardinality(s) \in Nat /\ Cardinality(t) \in Nat
      BY <3>1, <3>2, FS_CardinalityType
    <3>. HIDE DEF t
    <3>. QED BY <3>2, <3>3, SMT
  <2>3. PICK ranked : IsRanking(f, t, ranked)
    <3>1. t \notin Bad /\ t \in SUBSET D
      BY <1>2, <1>3, <2>1
    <3>. QED BY <3>1
  <2>4. /\ ranked \in [1 .. n -> t]
        /\ \A i, j \in 1 .. n : i # j => ranked[i] # ranked[j]
        /\ \A i, j \in 1 .. n : i < j => f[ranked[i]] >= f[ranked[j]]
    BY <2>3 DEF IsRanking, SetToSeqs
  <2>. DEFINE keys == [i \in 1 .. n + 1 |-> IF i = n + 1 THEN m ELSE ranked[i]]
  <2>5. \A i \in 1 .. n + 1 : /\ i = n + 1 => keys[i] = m
                              /\ i # n + 1 => i \in 1 .. n /\ keys[i] = ranked[i] /\ keys[i] \in s
                                              /\ keys[i] # m
    <3>1. \A i \in 1 .. n + 1 : i # n + 1 => i \in 1 .. n
      BY <2>2
    <3>2. \A i \in 1 .. n : ranked[i] \in s /\ ranked[i] # m
      BY <2>4
    <3>. QED BY <3>1, <3>2
  <2>6. DOMAIN keys = 1 .. n + 1
    OBVIOUS
  <2>7. keys \in [1 .. n + 1 -> s]
    BY <2>1, <2>5
  <2>. HIDE DEF keys
  <2>8. \A i, j \in 1 .. n + 1 : i # j => keys[i] # keys[j]
    BY <2>4, <2>5
  <2>9. \A i, j \in 1 .. n + 1 : i < j => f[keys[i]] >= f[keys[j]]
    <3>1. ASSUME NEW i \in 1 .. n + 1, NEW j \in 1 .. n + 1, i < j PROVE f[keys[i]] >= f[keys[j]]
      <4>1. i # n + 1
        BY <2>2, <3>1
      <4>2. i \in 1 .. n /\ keys[i] = ranked[i] /\ keys[i] \in s
        BY <2>5, <4>1
      <4>3. CASE j = n + 1
        <5>1. f[m] <= f[keys[i]] /\ keys[j] = m
          BY <2>1, <2>5, <4>2, <4>3
        <5>2. f[m] \in Nat /\ f[keys[i]] \in Nat
          BY <1>3, <2>1, <4>2
        <5>. QED BY <5>1, <5>2, SMT
      <4>4. CASE j # n + 1
        BY <2>4, <2>5, <3>1, <4>2, <4>4
      <4>. QED BY <4>3, <4>4
    <3>. QED BY <3>1
  <2>10. keys \in SetToSeqs(s)
    BY <2>2, <2>7, <2>8 DEF SetToSeqs
  <2>11. IsRanking(f, s, keys)
    BY <2>6, <2>9, <2>10 DEF IsRanking
  <2>. QED BY <1>3, <2>11
<1>. QED
  BY <1>4, <1>5

\* The ranking names every key once.
LEMMA RankedKeys ==
    ASSUME NEW f, IsFiniteSet(DOMAIN f), \A x \in DOMAIN f : f[x] \in Nat
    PROVE  /\ Len(Ranked(f)) \in Nat
           /\ Ranked(f) \in [1 .. Len(Ranked(f)) -> DOMAIN f]
           /\ \A i, j \in 1 .. Len(Ranked(f)) : i # j => Ranked(f)[i] # Ranked(f)[j]
           /\ \A k \in DOMAIN f : \E i \in 1 .. Len(Ranked(f)) : Ranked(f)[i] = k
<1>. DEFINE D == DOMAIN f
            n == Cardinality(D)
            keys == Ranked(f)
<1>0. n \in Nat
  BY FS_CardinalityType
<1>1. \E k : IsRanking(f, D, k)
  BY RankingExists
<1>2. keys \in SetToSeqs(D)
  BY <1>1 DEF Ranked, IsRanking
<1>3. keys \in [1 .. n -> D] /\ \A i, j \in 1 .. n : i # j => keys[i] # keys[j]
  BY <1>2 DEF SetToSeqs
<1>. HIDE DEF keys
<1>4. keys \in Seq(D) /\ Len(keys) = n
  BY <1>0, <1>3, LenProperties, ElementOfSeq
<1>5. keys \in Injection(1 .. n, D)
  BY <1>3 DEF Injection, IsInjective
<1>6. IsFiniteSet(1 .. n) /\ Cardinality(1 .. n) = n
  <2>1. Cardinality(1 .. n) = IF 1 > n THEN 0 ELSE n - 1 + 1
    BY <1>0, FS_Interval
  <2>2. IsFiniteSet(1 .. n)
    BY <1>0, FS_Interval
  <2>. HIDE DEF n
  <2>. QED BY <1>0, <2>1, <2>2, SMT
<1>7. keys \in Surjection(1 .. n, D)
  <2>. DEFINE N == 1 .. n
  <2>1. Cardinality(N) = Cardinality(D) /\ keys \in Injection(N, D) /\ IsFiniteSet(D)
    BY <1>5, <1>6
  <2>. HIDE DEF N, D
  <2>2. keys \in Surjection(N, D)
    BY <2>1, FS_Injection
  <2>. QED BY <2>2 DEF N, D
<1>8. \A k \in D : \E i \in 1 .. n : keys[i] = k
  BY <1>7 DEF Surjection
<1>. HIDE DEF n, D
<1>. QED
  BY <1>0, <1>3, <1>4, <1>8 DEF keys, D

\* The largest values have a slice each, and the others, if there are any, the last.
IsSlicing(f, s, keys, largest, N) ==
    /\ largest \in 0 .. Len(keys) /\ N \in {largest, largest + 1} /\ DOMAIN s = 1 .. N
    /\ \A i \in 1 .. largest : s[i].seconds = f[keys[i]]
    /\ N = largest => largest = Len(keys)
    /\ N # largest => s[N].seconds = SumOf([k \in {keys[i] : i \in largest + 1 .. Len(keys)} |-> f[k]])
    /\ \A i \in 1 .. N : s[i].percentage = Percentage(s[i].seconds, SumOf(f))

LEMMA WithoutLast ==
    ASSUME NEW n \in Nat, NEW S, NEW a \in [1 .. n -> S]
    PROVE  a \o <<>> = a
<1>1. a \in Seq(S)
  OBVIOUS
<1>. QED
  BY <1>1, ConcatEmptySeq

LEMMA WithLast ==
    ASSUME NEW n \in Nat, NEW S, NEW a \in [1 .. n -> S], NEW b \in S
    PROVE  /\ DOMAIN (a \o <<b>>) = 1 .. n + 1
           /\ \A i \in 1 .. n : (a \o <<b>>)[i] = a[i]
           /\ (a \o <<b>>)[n + 1] = b
<1>1. a \in Seq(S) /\ Len(a) = n /\ <<b>> \in Seq(S) /\ Len(<<b>>) = 1 /\ <<b>>[1] = b
  OBVIOUS
<1>. DEFINE c == <<b>>
<1>2. c \in Seq(S) /\ Len(c) = 1 /\ c[1] = b
  BY <1>1
<1>. HIDE DEF c
<1>3. /\ a \o c \in Seq(S) /\ Len(a \o c) = Len(a) + Len(c)
      /\ \A i \in 1 .. Len(a) + Len(c) : (a \o c)[i] = IF i <= Len(a) THEN a[i] ELSE c[i - Len(a)]
  BY <1>1, <1>2, ConcatProperties
<1>4. DOMAIN (a \o c) = 1 .. n + 1
  BY <1>1, <1>2, <1>3, LenProperties
<1>5. \A i \in 1 .. n : (a \o c)[i] = a[i]
  BY <1>1, <1>2, <1>3, SMT
<1>6. (a \o c)[n + 1] = b
  <2>1. n + 1 \in 1 .. n + 1 /\ ~(n + 1 <= n) /\ (n + 1) - n = 1
    BY SMT
  <2>. QED BY <1>1, <1>2, <1>3, <2>1
<1>. QED
  BY <1>4, <1>5, <1>6 DEF c

LEMMA SlicesAreSlicing ==
    ASSUME NEW f, Len(Ranked(f)) \in Nat
    PROVE  \E largest, N : IsSlicing(f, Slices(f), Ranked(f), largest, N)
<1>. DEFINE keys == Ranked(f)
            n == Len(keys)
            maximum == IF MaxSlices < 2 THEN 2 ELSE MaxSlices
            largest == IF n <= maximum THEN n ELSE maximum - 1
            rest == {keys[i] : i \in largest + 1 .. n}
            slice(k, v) == [label |-> k, seconds |-> v, percentage |-> Percentage(v, SumOf(f))]
            a == [i \in 1 .. largest |-> slice(keys[i], f[keys[i]])]
            b == slice(Other, SumOf([k \in rest |-> f[k]]))
            S == {a[i] : i \in 1 .. largest} \cup {b}
<1>1. Slices(f) = a \o IF rest = {} THEN <<>> ELSE <<b>>
  BY DEF Slices
<1>2. maximum \in Nat /\ maximum >= 2
  BY DesktopReportsAssumption, SMT DEF DesktopReportsAssumption
<1>3. largest \in 0 .. n /\ (largest = n <=> n <= maximum)
  <2>. HIDE DEF maximum, n
  <2>1. n \in Nat
    BY DEF n
  <2>. QED BY <1>2, <2>1, SMT
<1>4. a \in [1 .. largest -> S] /\ b \in S
  OBVIOUS
<1>5. /\ \A i \in 1 .. largest : a[i].seconds = f[keys[i]] /\ a[i].percentage = Percentage(a[i].seconds, SumOf(f))
      /\ b.seconds = SumOf([k \in rest |-> f[k]]) /\ b.percentage = Percentage(b.seconds, SumOf(f))
      /\ DOMAIN a = 1 .. largest
  OBVIOUS
<1>6. largest \in Nat /\ n \in Nat
  BY <1>3
<1>. HIDE DEF a, b, largest
<1>7. CASE rest = {}
  <2>1. largest = n
    <3>1. largest + 1 \notin largest + 1 .. n
      BY <1>7
    <3>. HIDE DEF n
    <3>. QED BY <1>3, <1>6, <3>1, SMT
  <2>2. Slices(f) = a
    <3>1. a \o <<>> = a
      <4>. HIDE DEF S
      <4>. QED BY <1>4, <1>6, WithoutLast
    <3>. QED BY <1>1, <1>7, <3>1
  <2>3. IsSlicing(f, Slices(f), keys, largest, largest)
    BY <1>3, <1>5, <2>1, <2>2 DEF IsSlicing
  <2>. QED BY <2>3
<1>8. CASE rest # {}
  <2>1. Slices(f) = a \o <<b>>
    BY <1>1, <1>8
  <2>2. /\ DOMAIN Slices(f) = 1 .. largest + 1
        /\ \A i \in 1 .. largest : Slices(f)[i] = a[i]
        /\ Slices(f)[largest + 1] = b
    <3>. HIDE DEF S
    <3>. QED BY <1>4, <1>6, <2>1, WithLast
  <2>3. \A i \in 1 .. largest + 1 : i \in 1 .. largest \/ i = largest + 1
    BY <1>6
  <2>4. largest + 1 # largest
    BY <1>6
  <2>5. \A i \in 1 .. largest + 1 : Slices(f)[i].percentage = Percentage(Slices(f)[i].seconds, SumOf(f))
    BY <1>5, <2>2, <2>3
  <2>6. IsSlicing(f, Slices(f), keys, largest, largest + 1)
    <3>1. \A i \in 1 .. largest : Slices(f)[i].seconds = f[keys[i]]
      BY <1>5, <2>2
    <3>2. Slices(f)[largest + 1].seconds = SumOf([k \in {keys[i] : i \in largest + 1 .. Len(keys)} |-> f[k]])
      BY <1>5, <2>2
    <3>3. largest \in 0 .. Len(keys)
      BY <1>3
    <3>. HIDE DEF keys
    <3>. QED BY <2>2, <2>4, <2>5, <3>1, <3>2, <3>3, Zenon DEF IsSlicing
  <2>. QED BY <2>6
<1>. QED
  BY <1>7, <1>8

LEMMA SlicesAddUp ==
    ASSUME NEW f, IsFiniteSet(DOMAIN f), \A x \in DOMAIN f : f[x] \in Nat,
           NEW s, NEW largest, NEW N, IsSlicing(f, s, Ranked(f), largest, N)
    PROVE  LET seconds == [i \in DOMAIN s |-> s[i].seconds]
           IN  /\ DOMAIN s = 1 .. N /\ N \in Nat
               /\ SumOf(seconds) = SumOf(f)
               /\ \A i \in 1 .. N : seconds[i] \in Nat
<1>. DEFINE D == DOMAIN f
            keys == Ranked(f)
            n == Len(keys)
            index == [k \in D |-> CHOOSE i \in 1 .. n : keys[i] = k]
            group == [k \in D |-> IF index[k] <= largest THEN index[k] ELSE N]
            rest == {keys[i] : i \in largest + 1 .. n}
            seconds == [i \in DOMAIN s |-> s[i].seconds]
<1>1. /\ n \in Nat /\ keys \in [1 .. n -> D]
      /\ \A i, j \in 1 .. n : i # j => keys[i] # keys[j]
      /\ \A k \in D : \E i \in 1 .. n : keys[i] = k
  BY RankedKeys
<1>2. /\ largest \in 0 .. n /\ N \in {largest, largest + 1} /\ DOMAIN s = 1 .. N
      /\ \A i \in 1 .. largest : s[i].seconds = f[keys[i]]
      /\ N = largest => largest = n
      /\ N # largest => s[N].seconds = SumOf([k \in rest |-> f[k]])
  BY DEF IsSlicing
<1>. HIDE DEF keys, n
<1>3. \A k \in D : index[k] \in 1 .. n /\ keys[index[k]] = k
  BY <1>1
<1>4. \A i \in 1 .. n : keys[i] \in D /\ index[keys[i]] = i
  BY <1>1, <1>3
<1>. HIDE DEF index
<1>5. largest \in Nat /\ N \in Nat /\ largest <= n
  BY <1>1, <1>2
<1>6. \A k \in D : group[k] \in 1 .. N
  <2>1. ASSUME NEW k \in D PROVE group[k] \in 1 .. N
    <3>1. index[k] \in 1 .. n
      BY <1>3
    <3>2. group[k] = IF index[k] <= largest THEN index[k] ELSE N
      OBVIOUS
    <3>3. N # largest => N = largest + 1
      BY <1>2
    <3>. HIDE DEF group
    <3>. QED BY <1>1, <1>2, <1>5, <3>1, <3>2, <3>3, SMT
  <2>. QED BY <2>1
<1>7. ASSUME NEW i \in 1 .. N
      PROVE  seconds[i] = Plus(f, {k \in D : group[k] = i}) /\ seconds[i] \in Nat
  <2>1. CASE i <= largest
    <3>1. i \in 1 .. largest /\ i \in 1 .. n /\ (N # largest => i # N)
      BY <1>1, <1>2, <1>5, <2>1, SMT
    <3>2. {k \in D : group[k] = i} = {keys[i]}
      <4>1. \A k \in D : group[k] = i => index[k] = i
        <5>1. ASSUME NEW k \in D, group[k] = i PROVE index[k] = i
          <6>1. CASE index[k] <= largest
            BY <5>1, <6>1
          <6>2. CASE ~(index[k] <= largest)
            <7>1. i = N
              BY <5>1, <6>2
            <7>2. N = largest /\ largest = n
              BY <1>2, <3>1, <7>1
            <7>3. index[k] \in 1 .. n
              BY <1>3
            <7>. HIDE DEF group
            <7>. QED BY <1>1, <6>2, <7>2, <7>3, SMT
          <6>. QED BY <6>1, <6>2
        <5>. QED BY <5>1
      <4>2. \A k \in D : group[k] = i => k = keys[i]
        BY <1>3, <4>1
      <4>3. keys[i] \in D /\ group[keys[i]] = i
        BY <1>4, <2>1, <3>1
      <4>. HIDE DEF group
      <4>. QED BY <4>2, <4>3
    <3>3. f[keys[i]] \in Nat
      BY <1>4, <3>1
    <3>4. Plus(f, {keys[i]}) = f[keys[i]]
      <4>. DEFINE x == keys[i]
      <4>. HIDE DEF x
      <4>1. f[x] \in Nat
        BY <3>3 DEF x
      <4>2. Plus(f, {x}) = f[x]
        BY <4>1, PlusOfOne
      <4>. QED BY <4>2 DEF x
    <3>5. seconds[i] = f[keys[i]]
      BY <1>2, <3>1
    <3>. QED BY <3>2, <3>3, <3>4, <3>5
  <2>2. CASE ~(i <= largest)
    <3>1. i = N /\ N # largest /\ i = largest + 1
      BY <1>2, <1>5, <2>2, SMT
    <3>2. {k \in D : group[k] = i} = rest
      <4>1. \A k \in D : group[k] = i <=> ~(index[k] <= largest)
        BY <2>2, <3>1
      <4>2. \A k \in D : ~(index[k] <= largest) => k \in rest
        <5>1. ASSUME NEW k \in D, ~(index[k] <= largest) PROVE k \in rest
          <6>1. index[k] \in largest + 1 .. n
            <7>1. index[k] \in 1 .. n
              BY <1>3
            <7>. QED BY <1>1, <1>5, <5>1, <7>1, SMT
          <6>. QED BY <1>3, <6>1
        <5>. QED BY <5>1
      <4>3. \A k \in rest : k \in D /\ ~(index[k] <= largest)
        <5>1. ASSUME NEW j \in largest + 1 .. n PROVE keys[j] \in D /\ ~(index[keys[j]] <= largest)
          <6>1. j \in 1 .. n /\ ~(j <= largest)
            BY <1>1, <1>5, SMT
          <6>. QED BY <1>4, <6>1
        <5>. QED BY <5>1
      <4>. HIDE DEF group, rest
      <4>. QED BY <4>1, <4>2, <4>3
    <3>3. rest \subseteq D
      BY <3>2
    <3>4. IsFiniteSet(rest) /\ \A k \in rest : f[k] \in Nat
      <4>. HIDE DEF rest
      <4>. QED BY <3>3, FS_Subset
    <3>. DEFINE g == [k \in rest |-> f[k]]
    <3>5. SumOf(g) = Plus(g, rest)
      <4>1. DOMAIN g = rest
        OBVIOUS
      <4>. HIDE DEF g, rest
      <4>. QED BY <4>1, SumOfIsPlus
    <3>6. Plus(f, rest) = Plus(g, rest) /\ Plus(f, rest) \in Nat
      <4>1. \A k \in rest : f[k] = g[k]
        OBVIOUS
      <4>. HIDE DEF g, rest
      <4>2. Plus(f, rest) = Plus(g, rest)
        BY <3>4, <4>1, PlusAgrees
      <4>3. Plus(f, rest) \in Nat
        BY <3>4, PlusTyped
      <4>. QED BY <4>2, <4>3
    <3>7. seconds[i] = SumOf(g)
      <4>1. i \in DOMAIN s /\ s[i].seconds = SumOf(g)
        BY <1>2, <3>1
      <4>. QED BY <4>1
    <3>. QED BY <3>2, <3>5, <3>6, <3>7
  <2>. QED BY <2>1, <2>2
<1>8. Plus(seconds, 1 .. N) = Plus(f, D)
  <2>. DEFINE E == 1 .. N
              G == [i \in E |-> Plus(f, {k \in D : group[k] = i})]
  <2>1. IsFiniteSet(E)
    BY <1>5, FS_Interval
  <2>2. \A i \in E : seconds[i] \in Nat /\ seconds[i] = G[i]
    BY <1>7
  <2>3. \A k \in D : group[k] \in E
    BY <1>6
  <2>4. IsFiniteSet(D) /\ \A k \in D : f[k] \in Nat
    OBVIOUS
  <2>. HIDE DEF E, group, seconds, D
  <2>5. Plus(G, E) = Plus(f, D)
    BY <2>1, <2>3, <2>4, PlusByGroups
  <2>. HIDE DEF G
  <2>6. Plus(seconds, E) = Plus(G, E)
    BY <2>1, <2>2, PlusAgrees
  <2>. QED BY <2>5, <2>6 DEF E
<1>9. SumOf(seconds) = Plus(seconds, 1 .. N) /\ SumOf(f) = Plus(f, D)
  <2>1. DOMAIN seconds = 1 .. N
    BY <1>2
  <2>. HIDE DEF seconds
  <2>. QED BY <2>1, SumOfIsPlus
<1>. HIDE DEF seconds
<1>. QED
  BY <1>2, <1>5, <1>7, <1>8, <1>9 DEF seconds

LEMMA PercentageTyped ==
    ASSUME NEW v \in Nat, NEW t \in Nat
    PROVE  /\ Percentage(v, t) \in Nat
           /\ Percentage(v, t) * t <= 100 * v
           /\ t = 0 => Percentage(v, t) = 0
<1>1. CASE t = 0
  <2>1. Percentage(v, t) = 0
    BY <1>1 DEF Percentage
  <2>2. 0 * 0 <= 100 * v
    BY SMT
  <2>. QED BY <1>1, <2>1, <2>2
<1>2. CASE t # 0
  <2>. DEFINE product == IF v * 100 > U32Max THEN U32Max ELSE v * 100
  <2>1. U32Max \in Nat
    BY DesktopReportsAssumption DEF DesktopReportsAssumption
  <2>2. product \in Nat /\ product <= 100 * v
    BY <2>1, SMT
  <2>3. Percentage(v, t) = product \div t
    BY <1>2 DEF Percentage
  <2>. HIDE DEF product
  <2>4. t \in Nat \ {0}
    BY <1>2
  <2>5. /\ product % t \in 0 .. t - 1 /\ product \div t \in Nat
        /\ product = (t * (product \div t)) + (product % t)
    BY <2>2, <2>4, Quotients
  <2>. DEFINE q == product \div t
              r == product % t
  <2>6. q \in Nat /\ r \in Nat /\ product = t * q + r
    BY <2>5
  <2>. HIDE DEF q, r
  <2>7. q * t = t * q /\ t * q \in Nat
    BY <2>6, SMT
  <2>8. q * t <= 100 * v
    <3>. DEFINE x == t * q
    <3>1. x \in Nat /\ product = x + r /\ q * t = x
      BY <2>6, <2>7
    <3>. HIDE DEF x
    <3>2. x <= product
      BY <2>6, <3>1, SMT
    <3>3. x <= 100 * v
      BY <2>2, <3>1, <3>2, SMT
    <3>. QED BY <3>1, <3>3
  <2>. QED BY <1>2, <2>3, <2>6, <2>8 DEF q
<1>. QED
  BY <1>1, <1>2

LEMMA SharesAddUp ==
    ASSUME NEW f, IsFiniteSet(DOMAIN f), \A x \in DOMAIN f : f[x] \in Nat,
           NEW s, NEW largest, NEW N, IsSlicing(f, s, Ranked(f), largest, N)
    PROVE  SumOf([i \in DOMAIN s |-> s[i].percentage]) <= 100
<1>. DEFINE seconds == [i \in DOMAIN s |-> s[i].seconds]
            shares == [i \in DOMAIN s |-> s[i].percentage]
            t == SumOf(f)
            E == 1 .. N
<1>1. /\ DOMAIN s = E /\ N \in Nat
      /\ SumOf(seconds) = t
      /\ \A i \in E : seconds[i] \in Nat
  BY SlicesAddUp
<1>2. DOMAIN seconds = E /\ DOMAIN shares = E
  BY <1>1
<1>3. \A i \in E : shares[i] = Percentage(seconds[i], t)
  <2>1. \A i \in E : s[i].percentage = Percentage(s[i].seconds, t)
    BY DEF IsSlicing
  <2>. QED BY <1>1, <2>1
<1>4. IsFiniteSet(E)
  BY <1>1, FS_Interval
<1>. HIDE DEF seconds, shares, E
<1>5. SumOf(seconds) = Plus(seconds, E) /\ SumOf(shares) = Plus(shares, E)
  BY <1>2, SumOfIsPlus
<1>6. t \in Nat
  BY <1>1, <1>4, <1>5, PlusTyped
<1>. HIDE DEF t
<1>7. \A i \in E : /\ shares[i] \in Nat /\ shares[i] * t <= 100 * seconds[i]
                   /\ t = 0 => shares[i] = 0
  <2>1. ASSUME NEW i \in E
        PROVE  /\ shares[i] \in Nat /\ shares[i] * t <= 100 * seconds[i]
               /\ t = 0 => shares[i] = 0
    <3>. DEFINE v == seconds[i]
                c == shares[i]
    <3>1. v \in Nat /\ c = Percentage(v, t)
      BY <1>1, <1>3
    <3>. HIDE DEF v
    <3>2. /\ Percentage(v, t) \in Nat /\ Percentage(v, t) * t <= 100 * v
          /\ t = 0 => Percentage(v, t) = 0
      BY <1>6, <3>1, PercentageTyped
    <3>. QED BY <3>1, <3>2 DEF v
  <2>. QED BY <2>1
<1>8. Plus(shares, E) \in Nat
  BY <1>4, <1>7, PlusTyped
<1>9. CASE t = 0
  <2>1. \A i \in E : shares[i] = 0
    BY <1>7, <1>9
  <2>2. Plus(shares, E) = 0
    BY <1>4, <2>1, PlusNothing
  <2>. QED BY <1>5, <2>2, SMT DEF shares
<1>10. CASE t # 0
  <2>1. Plus(shares, E) * t <= 100 * Plus(seconds, E)
    <3>1. \A i \in E : shares[i] \in Nat /\ seconds[i] \in Nat /\ shares[i] * t <= 100 * seconds[i]
      BY <1>1, <1>7
    <3>. QED BY <1>4, <1>6, <3>1, PlusBounded
  <2>2. Plus(shares, E) * t <= 100 * t
    BY <1>1, <1>5, <2>1
  <2>3. Plus(shares, E) <= 100
    <3>. DEFINE A == Plus(shares, E)
    <3>1. A \in Nat /\ A * t <= 100 * t /\ t \in Nat /\ t > 0
      BY <1>6, <1>8, <1>10, <2>2, SMT
    <3>. HIDE DEF A
    <3>2. SUFFICES ASSUME A >= 101 PROVE FALSE
      BY <3>1, SMT DEF A
    <3>3. A - 101 \in Nat /\ A = (A - 101) + 101
      BY <3>1, <3>2, SMT
    <3>. DEFINE B == A - 101
    <3>4. B \in Nat /\ A = B + 101
      BY <3>3
    <3>. HIDE DEF B
    <3>5. (B + 101) * t = B * t + 101 * t /\ B * t \in Nat
      BY <3>1, <3>4, Distributes
    <3>. DEFINE x == B * t
    <3>6. x \in Nat /\ A * t = x + 101 * t
      BY <3>4, <3>5
    <3>. HIDE DEF x
    <3>7. x + 101 * t <= 100 * t
      BY <3>1, <3>6
    <3>. QED BY <3>1, <3>6, <3>7, SMT
  <2>. QED BY <1>5, <2>3 DEF shares
<1>. QED
  BY <1>9, <1>10

\* The slices of a chart are of the hours of its table.
LEMMA SlicesOfHours ==
    ASSUME NEW hours, hours \subseteq Hours, NEW keys, IsFiniteSet(keys), NEW field,
           \A h \in hours : h[field] \in keys, NEW s, s = Slices(By(keys, field, hours))
    PROVE  /\ SumOf([i \in DOMAIN s |-> s[i].seconds]) = HoursIn(hours)
           /\ SumOf([i \in DOMAIN s |-> s[i].percentage]) <= 100
<1>. DEFINE f == By(keys, field, hours)
<1>1. SumOf(f) = HoursIn(hours) /\ DOMAIN f = keys /\ \A k \in keys : f[k] \in Nat
  BY ByKeys
<1>. HIDE DEF f
<1>2. IsFiniteSet(DOMAIN f) /\ \A x \in DOMAIN f : f[x] \in Nat
  BY <1>1
<1>3. Len(Ranked(f)) \in Nat
  BY <1>2, RankedKeys
<1>4. PICK largest, N : IsSlicing(f, s, Ranked(f), largest, N)
  BY <1>3, SlicesAreSlicing DEF f
<1>5. SumOf([i \in DOMAIN s |-> s[i].seconds]) = SumOf(f)
  BY <1>2, <1>4, SlicesAddUp
<1>6. SumOf([i \in DOMAIN s |-> s[i].percentage]) <= 100
  BY <1>2, <1>4, SharesAddUp
<1>. QED
  BY <1>1, <1>5, <1>6

LEMMA DocumentAddsUp ==
    ASSUME NEW p, p.from \in Nat, p.to \in Nat, p.from <= p.to,
           NEW members, IsFiniteSet(members),
           NEW hours, hours \subseteq Within(p, Hours),
           NEW scope, scope = "individual" => members = {User} /\ \A h \in hours : h.author = User,
           NEW filters,
           filters.member # Anything =>
               members \subseteq {filters.member} /\ \A h \in hours : h.author = filters.member
    PROVE  TablesAccountForHours(Document(scope, p, members, hours, filters))
<1>. DEFINE d == Document(scope, p, members, hours, filters)
            tasks == {h.task : h \in hours}
            categories == {h.category : h \in hours}
            states == {h.status : h \in hours}
            days == p.from .. p.to
<1>1. /\ d.scope = scope /\ d.period = p /\ d.filters = filters
      /\ d.total = HoursIn(hours) /\ d.sources = hours
      /\ d.days = By(days, "day", hours) /\ d.weeks = ByWeek(p, hours)
      /\ d.tasks = By(tasks, "task", hours)
      /\ d.taskSlices = Slices(By(tasks, "task", hours))
      /\ d.categorySlices = Slices(By(categories, "category", hours))
      /\ d.statusSlices = Slices(By(states, "status", hours))
      /\ d.members = MemberRows(p, members, hours)
  BY DEF Document
<1>2. /\ hours \subseteq Hours /\ IsFiniteSet(hours)
      /\ \A h \in hours : h.day \in Nat /\ p.from <= h.day /\ h.day <= p.to
  <2>1. hours \subseteq Hours /\ \A h \in hours : p.from <= h.day /\ h.day <= p.to
    BY DEF Within
  <2>. QED BY <2>1, HoursTyped, FS_Subset
<1>3. IsFiniteSet(tasks) /\ IsFiniteSet(categories) /\ IsFiniteSet(states) /\ IsFiniteSet(days)
  <2>1. tasks = {[x \in hours |-> x.task][h] : h \in hours}
    OBVIOUS
  <2>2. categories = {[x \in hours |-> x.category][h] : h \in hours}
    OBVIOUS
  <2>3. states = {[x \in hours |-> x.status][h] : h \in hours}
    OBVIOUS
  <2>4. \A f : IsFiniteSet({f[h] : h \in hours})
    BY <1>2, FiniteImage
  <2>5. IsFiniteSet(days)
    BY FS_Interval
  <2>. QED BY <2>1, <2>2, <2>3, <2>4, <2>5, ZenonT(40)
<1>4. d.total = SumOf(d.days)
  <2>1. \A h \in hours : h["day"] \in days
    BY <1>2
  <2>. HIDE DEF days
  <2>2. SumOf(By(days, "day", hours)) = HoursIn(hours)
    BY <1>2, <1>3, <2>1, ByKeys
  <2>. HIDE DEF d
  <2>. QED BY <1>1, <2>2
<1>5. d.total = SumOf(d.weeks)
  <2>1. SumOf(ByWeek(p, hours)) = HoursIn(hours)
    BY <1>2, HoursByWeek
  <2>. HIDE DEF d
  <2>. QED BY <1>1, <2>1
<1>6. d.total = SumOf(d.tasks)
  <2>1. \A h \in hours : h["task"] \in tasks
    OBVIOUS
  <2>. HIDE DEF tasks
  <2>2. SumOf(By(tasks, "task", hours)) = HoursIn(hours)
    BY <1>2, <1>3, <2>1, ByKeys
  <2>. HIDE DEF d
  <2>. QED BY <1>1, <2>2
<1>7. /\ DOMAIN d.members = members \cup {h.author : h \in hours}
      /\ d.total = SumOf([m \in DOMAIN d.members |-> d.members[m].total])
      /\ \A m \in DOMAIN d.members : d.members[m].total = SumOf(d.members[m].weeks)
  <2>. DEFINE rows == MemberRows(p, members, hours)
  <2>1. /\ DOMAIN rows = members \cup {h.author : h \in hours}
        /\ SumOf([m \in DOMAIN rows |-> rows[m].total]) = HoursIn(hours)
        /\ \A m \in DOMAIN rows : rows[m].total = SumOf(rows[m].weeks)
    <3>1. rows = MemberRows(p, members, hours)
      OBVIOUS
    <3>. HIDE DEF d, rows
    <3>. QED BY <1>2, <3>1, HoursByMember
  <2>. HIDE DEF rows
  <2>2. d.members = rows /\ d.total = HoursIn(hours)
    BY <1>1 DEF rows
  <2>. HIDE DEF d
  <2>. QED BY <2>1, <2>2
<1>8. \A s \in {d.taskSlices, d.categorySlices, d.statusSlices} :
        /\ d.total = SumOf([i \in DOMAIN s |-> s[i].seconds])
        /\ SumOf([i \in DOMAIN s |-> s[i].percentage]) <= 100
  <2>1. ASSUME NEW keys, IsFiniteSet(keys), NEW field, \A h \in hours : h[field] \in keys,
               NEW s, s = Slices(By(keys, field, hours))
        PROVE  /\ d.total = SumOf([i \in DOMAIN s |-> s[i].seconds])
               /\ SumOf([i \in DOMAIN s |-> s[i].percentage]) <= 100
    <3>1. /\ SumOf([i \in DOMAIN s |-> s[i].seconds]) = HoursIn(hours)
          /\ SumOf([i \in DOMAIN s |-> s[i].percentage]) <= 100
      BY <1>2, <2>1, SlicesOfHours
    <3>. HIDE DEF d
    <3>. QED BY <1>1, <3>1
  <2>2. /\ \A h \in hours : h["task"] \in tasks
        /\ \A h \in hours : h["category"] \in categories
        /\ \A h \in hours : h["status"] \in states
    OBVIOUS
  <2>. HIDE DEF d, tasks, categories, states
  <2>3. ASSUME NEW s, s = d.taskSlices
        PROVE  /\ d.total = SumOf([i \in DOMAIN s |-> s[i].seconds])
               /\ SumOf([i \in DOMAIN s |-> s[i].percentage]) <= 100
    BY <1>1, <1>3, <2>1, <2>2, <2>3
  <2>4. ASSUME NEW s, s = d.categorySlices
        PROVE  /\ d.total = SumOf([i \in DOMAIN s |-> s[i].seconds])
               /\ SumOf([i \in DOMAIN s |-> s[i].percentage]) <= 100
    BY <1>1, <1>3, <2>1, <2>2, <2>4
  <2>5. ASSUME NEW s, s = d.statusSlices
        PROVE  /\ d.total = SumOf([i \in DOMAIN s |-> s[i].seconds])
               /\ SumOf([i \in DOMAIN s |-> s[i].percentage]) <= 100
    BY <1>1, <1>3, <2>1, <2>2, <2>5
  <2>. QED BY <2>3, <2>4, <2>5
<1>9. /\ d.sources \subseteq Within(d.period, Hours)
      /\ d.scope = "individual" => DOMAIN d.members = {User}
      /\ d.filters.member # Anything => DOMAIN d.members \subseteq {d.filters.member}
  <2>. HIDE DEF d
  <2>1. scope = "individual" => members \cup {h.author : h \in hours} = {User}
    OBVIOUS
  <2>2. filters.member # Anything => members \cup {h.author : h \in hours} \subseteq {filters.member}
    OBVIOUS
  <2>. QED BY <1>1, <1>7, <2>1, <2>2
<1>. HIDE DEF d
<1>. QED
  BY <1>4, <1>5, <1>6, <1>7, <1>8, <1>9, Zenon DEF TablesAccountForHours, d

LEMMA ChosenPeriods ==
    \A p \in Periods : p.from \in Nat /\ p.to \in Nat /\ p.from <= p.to
BY DesktopReportsAssumption DEF DesktopReportsAssumption

LEMMA PersonalAddsUp ==
    ASSUME NEW p \in Periods
    PROVE  TablesAccountForHours(PersonalDocument(p))
<1>. DEFINE hours == {h \in Within(p, Hours) : h.author = User}
            members == {User}
<1>1. IsFiniteSet(members) /\ hours \subseteq Within(p, Hours) /\ \A h \in hours : h.author = User
  BY FS_Singleton
<1>2. NoFilters.member = Anything
  BY DEF NoFilters
<1>3. members = {User} /\ PersonalDocument(p) = Document("individual", p, members, hours, NoFilters)
  BY DEF PersonalDocument
<1>. HIDE DEF hours, members
<1>. QED
  BY <1>1, <1>2, <1>3, ChosenPeriods, DocumentAddsUp

LEMMA FiniteShownMembers ==
    ASSUME NEW p, NEW filters
    PROVE  IsFiniteSet(ShownMembers(Within(p, Hours), filters))
<1>. DEFINE all == Within(p, Hours)
            members == ShownMembers(all, filters)
            everyone == Roster \cup {h.author : h \in all}
<1>1. IsFiniteSet(all)
  <2>1. all \subseteq Hours
    BY DEF Within
  <2>. QED BY <2>1, HoursTyped, FS_Subset
<1>2. {h.author : h \in all} = {[x \in all |-> x.author][h] : h \in all}
  OBVIOUS
<1>3. \A f : IsFiniteSet({f[h] : h \in all})
  <2>. HIDE DEF all
  <2>. QED BY <1>1, FiniteImage
<1>4. IsFiniteSet({h.author : h \in all})
  BY <1>2, <1>3
<1>5. IsFiniteSet(everyone)
  <2>. DEFINE authors == {h.author : h \in all}
  <2>. HIDE DEF authors
  <2>1. IsFiniteSet(Roster \cup authors)
    BY <1>4, HoursTyped, FS_Union DEF authors
  <2>. QED BY <2>1 DEF authors
<1>6. members \subseteq everyone
  BY DEF ShownMembers
<1>. HIDE DEF everyone, members
<1>7. IsFiniteSet(members)
  BY <1>5, <1>6, FS_Subset
<1>. QED
  BY <1>7 DEF members

LEMMA TeamAddsUp ==
    ASSUME NEW p \in Periods, NEW filters
    PROVE  TablesAccountForHours(TeamDocument(p, Within(p, Hours), filters))
<1>. DEFINE all == Within(p, Hours)
            hours == ShownHours(all, filters)
            members == ShownMembers(all, filters)
<1>1. hours \subseteq Within(p, Hours)
  BY DEF ShownHours
<1>2. IsFiniteSet(members)
  BY FiniteShownMembers
<1>3. filters.member # Anything =>
          members \subseteq {filters.member} /\ \A h \in hours : h.author = filters.member
  <2>1. \A h \in hours : filters.member \in {Anything, h.author}
    BY DEF ShownHours, Matches
  <2>2. filters.member # Anything => members \subseteq {filters.member}
    BY DEF ShownMembers
  <2>. QED BY <2>1, <2>2
<1>4. TeamDocument(p, Within(p, Hours), filters) = Document("team", p, members, hours, filters)
  BY DEF TeamDocument
<1>. HIDE DEF members, hours, all
<1>. QED
  BY <1>1, <1>2, <1>3, <1>4, ChosenPeriods, DocumentAddsUp

---------------------------------------------------------------------------
(* What is exported.                                                        *)

IsOfCompleteReport(d) ==
    \/ \E p \in Periods : d = PersonalDocument(p)
    \/ \E p \in Periods, filters \in Filters : d = TeamDocument(p, Within(p, Hours), filters)

ReadyIsComplete == team.state = "ready" => team.hours = Within(team.period, Hours)

ExportsAreComplete == Exporting => IsOfCompleteReport(page.document)

ExportedTablesAddUp == Exporting => TablesAccountForHours(page.document)

ExportInv == DeskInv /\ ReadyIsComplete /\ ExportsAreComplete

LEMMA ExportStep == ExportInv /\ DeskInv' /\ [DeskNext]_deskVars => ReadyIsComplete' /\ ExportsAreComplete'
<1>. SUFFICES ASSUME ExportInv, [DeskNext]_deskVars PROVE ReadyIsComplete' /\ ExportsAreComplete'
  OBVIOUS
<1>. USE DEF ExportInv
<1>0. DOMAIN page = {"scope", "filters", "document", "notice"}
  BY DEF DeskInv, PageTyped
<1>1. ASSUME page'.document = page.document, UNCHANGED team
      PROVE  ReadyIsComplete' /\ ExportsAreComplete'
  BY <1>1 DEF ReadyIsComplete, ExportsAreComplete, Exporting
<1>2. ASSUME page'.document = page.document, NEW p, StartTeamReport(p)
      PROVE  ReadyIsComplete' /\ ExportsAreComplete'
  BY <1>2 DEF ReadyIsComplete, ExportsAreComplete, Exporting, StartTeamReport
<1>3. CASE OpenTeamTab
  BY <1>0, <1>1, <1>2, <1>3 DEF OpenTeamTab
<1>4. CASE OpenIndividualTab
  BY <1>0, <1>1, <1>4 DEF OpenIndividualTab
<1>5. CASE RetryTeam
  BY <1>0, <1>2, <1>5 DEF RetryTeam
<1>6. ASSUME NEW p \in Periods, ChooseTeamPeriod(p) PROVE ReadyIsComplete' /\ ExportsAreComplete'
  BY <1>0, <1>2, <1>6 DEF ChooseTeamPeriod
<1>7. ASSUME NEW p \in Periods, ChoosePeriod(p) PROVE ReadyIsComplete' /\ ExportsAreComplete'
  BY <1>1, <1>7 DEF ChoosePeriod
<1>8. ASSUME NEW load \in loads, TeamAnswers(load) PROVE ReadyIsComplete' /\ ExportsAreComplete'
  <2>1. ExportsAreComplete'
    BY <1>8 DEF TeamAnswers, ExportsAreComplete, Exporting
  <2>2. ReadyIsComplete'
    BY <1>8 DEF TeamAnswers, ReadyIsComplete
  <2>. QED BY <2>1, <2>2
<1>9. CASE SetFilter
  BY <1>0, <1>1, <1>9 DEF SetFilter
<1>10. CASE PeriodAnswers
  BY <1>1, <1>10 DEF PeriodAnswers
<1>11. CASE Export
  <2>1. ReadyIsComplete'
    BY <1>11 DEF Export, ReadyIsComplete
  <2>2. CASE page.scope = "individual"
    <3>1. page'.document = PersonalDocument(period.loaded) /\ period.loaded \in Periods
      BY <1>0, <1>11, <2>2 DEF Export, DeskInv, PeriodTyped
    <3>2. IsOfCompleteReport(page'.document)
      BY <3>1 DEF IsOfCompleteReport
    <3>. QED BY <2>1, <3>2 DEF ExportsAreComplete
  <2>3. CASE page.scope # "individual"
    <3>1. /\ page'.document = TeamDocument(team.period, team.hours, page.filters)
          /\ page.scope = "team" /\ team.state = "ready"
      BY <1>0, <1>11, <2>3 DEF Export, DeskInv, PageTyped
    <3>2. team.period \in Periods /\ page.filters \in Filters /\ team.hours = Within(team.period, Hours)
      BY <3>1 DEF DeskInv, TeamTyped, PageTyped, ReadyIsComplete
    <3>3. IsOfCompleteReport(page'.document)
      BY <3>1, <3>2 DEF IsOfCompleteReport
    <3>. QED BY <2>1, <3>3 DEF ExportsAreComplete
  <2>. QED BY <2>2, <2>3
<1>12. CASE ExportEnds
  <2>1. page'.document = <<>> /\ UNCHANGED team
    BY <1>0, <1>12 DEF ExportEnds
  <2>. QED BY <2>1 DEF ReadyIsComplete, ExportsAreComplete, Exporting
<1>13. CASE CloseNotice
  BY <1>0, <1>1, <1>13 DEF CloseNotice
<1>14. CASE LeaveReports
  BY <1>14 DEF LeaveReports, Idle, FreshPage, ReadyIsComplete, ExportsAreComplete, Exporting
<1>15. CASE UNCHANGED deskVars
  BY <1>1, <1>15 DEF deskVars
<1>. QED
  BY <1>3, <1>4, <1>5, <1>6, <1>7, <1>8, <1>9, <1>10, <1>11, <1>12, <1>13, <1>14, <1>15 DEF DeskNext

LEMMA ExportInvHolds == DeskSpec => []ExportInv
<1>1. DeskInit => ReadyIsComplete /\ ExportsAreComplete
  BY DEF DeskInit, Idle, FreshPage, ReadyIsComplete, ExportsAreComplete, Exporting
<1>2. DeskInit => ExportInv
  BY <1>1, DeskInitInv DEF ExportInv
<1>3. ExportInv /\ [DeskNext]_deskVars => ExportInv'
  BY DeskStepInv, ExportStep DEF ExportInv
<1>. QED
  BY <1>2, <1>3, PTL DEF DeskSpec

\* Whatever was chosen, answered and filtered before, what is exported is the person's
\* own hours, or the filtered hours of the team, of a whole period.
THEOREM ExportsAreOfCompleteReports == DeskSpec => []ExportsAreComplete
BY ExportInvHolds, PTL DEF ExportInv

\* The tables of an exported document account for the same hours: days, weeks, tasks,
\* members, the weeks of each member, and the slices of its charts with the one that
\* gathers the rest; their percentages do not exceed the whole, though the product is
\* of a fixed width.
THEOREM ExportedTablesAccountForHours == DeskSpec => []ExportedTablesAddUp
<1>1. ExportsAreComplete => ExportedTablesAddUp
  BY PersonalAddsUp, TeamAddsUp DEF ExportsAreComplete, IsOfCompleteReport, ExportedTablesAddUp
<1>. QED
  BY <1>1, ExportsAreOfCompleteReports, PTL

---------------------------------------------------------------------------
(* The tables and the trend of the page.                                    *)

LEMMA FewerParts ==
    ASSUME NEW q \in Nat, NEW t \in Nat, NEW w \in Nat, w * q < w * t
    PROVE  q < t
<1>1. SUFFICES ASSUME q >= t PROVE FALSE
  BY SMT
<1>2. PICK e \in Nat : q = t + e
  <2>1. q - t \in Nat /\ q = t + (q - t)
    BY <1>1, SMT
  <2>. QED BY <2>1
<1>3. (t + e) * w = t * w + e * w /\ e * w \in Nat
  BY Distributes
<1>4. w * q = q * w /\ w * t = t * w
  BY SMT
<1>. DEFINE x == t * w
            y == e * w
<1>5. y \in Nat /\ x \in Nat /\ q * w = x + y
  BY <1>2, <1>3, SMT
<1>. HIDE DEF x, y
<1>6. w * q = x + y /\ w * t = x
  BY <1>4, <1>5 DEF x
<1>. QED
  BY <1>5, <1>6, SMT

LEMMA MoreParts ==
    ASSUME NEW q \in Nat, NEW t \in Nat, NEW w \in Nat, q <= t
    PROVE  w * q <= w * t /\ w * q \in Nat /\ w * t \in Nat
<1>1. PICK e \in Nat : t = q + e
  <2>1. t - q \in Nat /\ t = q + (t - q)
    BY SMT
  <2>. QED BY <2>1
<1>2. (q + e) * w = q * w + e * w /\ e * w \in Nat /\ q * w \in Nat
  BY Distributes
<1>3. w * q = q * w /\ w * t = t * w
  BY SMT
<1>. DEFINE x == q * w
            y == e * w
<1>4. x \in Nat /\ y \in Nat /\ w * q = x /\ w * t = x + y
  BY <1>1, <1>2, <1>3
<1>. HIDE DEF x, y
<1>. QED
  BY <1>4, SMT

LEMMA Ceilings ==
    ASSUME NEW n \in Nat, NEW w \in Nat \ {0}
    PROVE  /\ Ceiling(n, w) \in Nat
           /\ n <= w * Ceiling(n, w) /\ w * Ceiling(n, w) <= n + w - 1
           /\ n # 0 => Ceiling(n, w) # 0
<1>. DEFINE a == n + w - 1
            q == a \div w
            r == a % w
<1>1. a \in Nat /\ a = n + w - 1
  BY SMT
<1>. HIDE DEF a
<1>2. r \in 0 .. w - 1 /\ q \in Nat /\ a = (w * q) + r
  BY <1>1, Quotients
<1>3. Ceiling(n, w) = q
  BY DEF Ceiling, a
<1>. HIDE DEF q, r
<1>4. w * q \in Nat
  BY <1>2, SMT
<1>. DEFINE x == w * q
<1>5. x \in Nat /\ a = x + r /\ (q = 0 => x = 0)
  BY <1>2, <1>4, SMT
<1>. HIDE DEF x
<1>6. n <= x /\ x <= n + w - 1 /\ (n # 0 => x # 0)
  BY <1>1, <1>2, <1>5, SMT
<1>. QED
  BY <1>2, <1>3, <1>5, <1>6 DEF x

\* The pages of a table.
LEMMA Windows ==
    ASSUME NEW count \in Nat, NEW requested \in Nat
    PROVE  /\ PageWindow(count, requested).rows \subseteq 1 .. count
           /\ count > 0 => PageWindow(count, requested).rows # {}
           /\ PageWindow(count, requested).total \in Nat
           /\ PageWindow(count, requested).total = PageWindow(count, 0).total
           /\ \A row \in 1 .. count :
                requested = (row - 1) \div RowsPerTable =>
                    /\ requested \in 0 .. PageWindow(count, requested).total - 1
                    /\ row \in PageWindow(count, requested).rows
<1>. DEFINE w == RowsPerTable
            c == IF count = 0 THEN 1 ELSE count
            total == Ceiling(c, w)
            current == AtMost(requested, total - 1)
            start == AtMost(current * w, count)
            last == AtMost(start + w, count)
<1>0. w \in Nat \ {0}
  BY ReportPresentationAssumption DEF ReportPresentationAssumption
<1>1. /\ PageWindow(count, requested).rows = start + 1 .. last
      /\ PageWindow(count, requested).total = total
      /\ PageWindow(count, 0).total = total
  BY DEF PageWindow
<1>2. c \in Nat /\ c >= 1 /\ c >= count /\ (count # 0 => c = count)
  BY SMT
<1>. HIDE DEF c, w
<1>3. total \in Nat /\ c <= w * total /\ w * total <= c + w - 1 /\ total # 0
  BY <1>0, <1>2, Ceilings, SMT
<1>. HIDE DEF total
<1>4. current \in 0 .. total - 1 /\ (requested <= total - 1 => current = requested)
  BY <1>3, SMT DEF AtMost
<1>. HIDE DEF current
<1>5. w * current \in Nat /\ w * current <= w * total - w
  <2>1. current <= total - 1 /\ total - 1 \in Nat /\ current \in Nat
    BY <1>3, <1>4
  <2>2. w * current <= w * (total - 1) /\ w * current \in Nat /\ w * (total - 1) \in Nat
    BY <1>0, <2>1, MoreParts
  <2>3. w * (total - 1) = w * total - w
    <3>1. ((total - 1) + 1) * w = (total - 1) * w + 1 * w
      BY <1>0, <2>1, Distributes
    <3>2. (total - 1) + 1 = total /\ 1 * w = w /\ (total - 1) * w = w * (total - 1) /\ total * w = w * total
      BY <1>0, <1>3, <2>1, SMT
    <3>3. (total - 1) * w \in Nat
      BY <2>2, <3>2
    <3>. DEFINE x == (total - 1) * w
    <3>4. x \in Nat /\ w * (total - 1) = x /\ w * total = x + w
      BY <3>1, <3>2, <3>3
    <3>. HIDE DEF x
    <3>. QED BY <1>0, <3>4, SMT
  <2>. QED BY <2>2, <2>3
<1>6. current * w = w * current
  BY <1>0, <1>4, SMT
<1>. DEFINE at == w * current
            whole == w * total
<1>7. /\ at \in Nat /\ whole \in Nat /\ whole <= c + w - 1 /\ c <= whole /\ at <= whole - w
      /\ start = AtMost(at, count)
  <2>1. whole \in Nat
    BY <1>0, <1>3, SMT
  <2>. QED BY <1>3, <1>5, <1>6, <2>1
<1>. HIDE DEF at, whole, start
<1>8. /\ at <= c - 1 /\ start \in Nat /\ start <= count
      /\ count # 0 => start = at
  BY <1>0, <1>2, <1>7, SMT DEF AtMost
<1>9. last \in Nat /\ last <= count /\ last <= start + w /\ (last = count \/ last = start + w)
  BY <1>0, <1>8, SMT DEF AtMost
<1>. HIDE DEF last
<1>10. start + 1 .. last \subseteq 1 .. count
  BY <1>8, <1>9, SMT
<1>11. count > 0 => start + 1 \in start + 1 .. last
  BY <1>0, <1>2, <1>8, <1>9, SMT
<1>12. ASSUME NEW row \in 1 .. count, requested = (row - 1) \div w
       PROVE  requested \in 0 .. total - 1 /\ row \in start + 1 .. last
  <2>. DEFINE a == row - 1
              r == a % w
  <2>1. a \in Nat /\ a <= count - 1 /\ row = a + 1
    BY SMT
  <2>2. requested = a \div w
    BY <1>12
  <2>. HIDE DEF a
  <2>3. r \in 0 .. w - 1 /\ a = (w * requested) + r
    BY <1>0, <2>1, <2>2, Quotients
  <2>. HIDE DEF r
  <2>4. w * requested \in Nat
    BY <1>0, SMT
  <2>5. w * requested < w * total
    <3>. DEFINE x == w * requested
                y == w * total
    <3>1. x \in Nat /\ a = x + r /\ y \in Nat /\ c <= y
      BY <1>3, <1>7, <2>3, <2>4 DEF whole
    <3>. HIDE DEF x, y
    <3>2. x < y
      BY <1>0, <1>2, <2>1, <2>3, <3>1, SMT
    <3>. QED BY <3>2 DEF x, y
  <2>6. requested < total
    BY <1>0, <1>3, <2>5, FewerParts
  <2>7. requested \in 0 .. total - 1 /\ current = requested
    BY <1>3, <1>4, <2>6, SMT
  <2>8. at = w * requested
    BY <2>7 DEF at
  <2>9. a = at + r /\ count # 0
    BY <2>1, <2>3, <2>8, SMT
  <2>10. row \in start + 1 .. last
    BY <1>0, <1>7, <1>8, <1>9, <2>1, <2>3, <2>9, SMT
  <2>. QED BY <2>7, <2>10
<1>. QED
  BY <1>1, <1>3, <1>10, <1>11, <1>12 DEF w

LEMMA EveryRowIsShown ==
    ASSUME NEW count \in Nat
    PROVE  UNION {PageWindow(count, k).rows : k \in 0 .. PageWindow(count, 0).total - 1} = 1 .. count
<1>. DEFINE pages == 0 .. PageWindow(count, 0).total - 1
            shown == UNION {PageWindow(count, k).rows : k \in pages}
<1>1. PageWindow(count, 0).total \in Nat
  BY Windows
<1>2. \A k \in pages : k \in Nat
  BY <1>1, SMT
<1>. HIDE DEF pages
<1>3. shown \subseteq 1 .. count
  BY <1>2, Windows
<1>4. ASSUME NEW row \in 1 .. count PROVE row \in shown
  <2>1. RowsPerTable \in Nat \ {0}
    BY ReportPresentationAssumption DEF ReportPresentationAssumption
  <2>. DEFINE k == (row - 1) \div RowsPerTable
  <2>2. k \in Nat
    <3>1. row - 1 \in Nat
      OBVIOUS
    <3>. DEFINE a == row - 1
    <3>. HIDE DEF a
    <3>2. a \div RowsPerTable \in Nat
      BY <2>1, <3>1, Quotients DEF a
    <3>. QED BY <3>2 DEF a
  <2>3. k = (row - 1) \div RowsPerTable
    OBVIOUS
  <2>. HIDE DEF k
  <2>4. k \in 0 .. PageWindow(count, k).total - 1 /\ row \in PageWindow(count, k).rows
    BY <2>2, <2>3, Windows
  <2>5. PageWindow(count, k).total = PageWindow(count, 0).total
    BY <2>2, Windows
  <2>. QED BY <2>4, <2>5 DEF pages
<1>. HIDE DEF shown
<1>5. shown = 1 .. count
  BY <1>3, <1>4
<1>. QED
  BY <1>5 DEF shown, pages

\* Of the points of the trend its ends are labelled, and no more than may be.
LEMMA LabelsFit ==
    ASSUME NEW count \in Nat \ {0}, NEW maximum \in Nat, maximum >= 2,
           NEW interval, interval = Ceiling(count - 1, maximum - 1)
    PROVE  LET labelled == {i \in 1 .. count :
                   i \in {1, count} \/ (i - 1) % (IF interval = 0 THEN 1 ELSE interval) = 0}
           IN  {1, count} \subseteq labelled /\ Cardinality(labelled) <= maximum
<1>. DEFINE w == IF interval = 0 THEN 1 ELSE interval
            labelled == {i \in 1 .. count : i \in {1, count} \/ (i - 1) % w = 0}
            place == [i \in labelled |-> IF i = count THEN maximum ELSE (i - 1) \div w + 1]
            Slots == 1 .. maximum
            n == count - 1
            m == maximum - 1
<1>1. n \in Nat /\ m \in Nat \ {0} /\ count = n + 1 /\ maximum = m + 1
  BY SMT
<1>2. interval \in Nat /\ n <= m * interval
  BY <1>1, Ceilings
<1>3. w \in Nat \ {0} /\ n <= m * w
  <2>1. interval # 0 => w = interval
    OBVIOUS
  <2>2. interval = 0 => w = 1 /\ m * interval = 0 /\ m * w = m
    BY <1>1, SMT
  <2>. HIDE DEF w
  <2>3. CASE interval = 0
    BY <1>1, <1>2, <2>2, <2>3, SMT
  <2>4. CASE interval # 0
    BY <1>2, <2>1, <2>4
  <2>. QED BY <2>3, <2>4
<1>. HIDE DEF w, n, m
<1>4. ASSUME NEW i \in labelled, i # count
      PROVE  /\ (i - 1) \div w \in Nat /\ (i - 1) \div w < m
             /\ i - 1 = w * ((i - 1) \div w)
  <2>. DEFINE a == i - 1
              q == a \div w
  <2>1. a \in Nat /\ a < n /\ a = i - 1
    BY <1>1, <1>4, SMT
  <2>2. a % w = 0
    <3>1. i = 1 \/ a % w = 0
      BY <1>4
    <3>2. 0 % w = 0
      BY <1>3, SMT
    <3>3. i = 1 => a = 0
      BY SMT
    <3>. HIDE DEF a
    <3>. QED BY <3>1, <3>2, <3>3
  <2>. HIDE DEF a
  <2>3. q \in Nat /\ a = (w * q) + (a % w)
    BY <1>3, <2>1, Quotients
  <2>. HIDE DEF q
  <2>4. w * q \in Nat /\ w * m \in Nat /\ m * w = w * m
    BY <1>1, <1>3, <2>3, SMT
  <2>5. a = w * q /\ w * q < w * m
    <3>. DEFINE x == w * q
                y == w * m
    <3>1. x \in Nat /\ y \in Nat /\ a = x + 0 /\ n <= y
      BY <1>3, <2>2, <2>3, <2>4
    <3>. HIDE DEF x, y
    <3>2. a = x /\ x < y
      BY <1>1, <2>1, <3>1, SMT
    <3>. QED BY <3>2 DEF x, y
  <2>6. q < m
    BY <1>1, <1>3, <2>3, <2>5, FewerParts
  <2>. QED BY <2>1, <2>3, <2>5, <2>6 DEF q, a
<1>5. \A i \in labelled : place[i] \in Slots
  <2>1. ASSUME NEW i \in labelled PROVE place[i] \in Slots
    <3>1. place[i] = IF i = count THEN maximum ELSE (i - 1) \div w + 1
      OBVIOUS
    <3>2. CASE i = count
      BY <3>1, <3>2
    <3>3. CASE i # count
      <4>. DEFINE q == (i - 1) \div w
      <4>1. q \in Nat /\ q < m /\ place[i] = q + 1
        BY <1>4, <3>1, <3>3
      <4>. HIDE DEF q, place
      <4>. QED BY <1>1, <4>1, SMT
    <3>. QED BY <3>2, <3>3
  <2>. QED BY <2>1
<1>6. \A i, j \in labelled : place[i] = place[j] => i = j
  <2>1. ASSUME NEW i \in labelled, NEW j \in labelled, i # count, j = count, place[i] = place[j]
        PROVE  FALSE
    <3>. DEFINE q == (i - 1) \div w
    <3>1. q \in Nat /\ q < m /\ place[i] = q + 1 /\ place[j] = maximum
      BY <1>4, <2>1
    <3>. HIDE DEF q, place
    <3>2. q + 1 = maximum
      BY <2>1, <3>1
    <3>. QED BY <1>1, <3>1, <3>2, SMT
  <2>2. ASSUME NEW i \in labelled, NEW j \in labelled, i # count, j # count, place[i] = place[j]
        PROVE  i = j
    <3>. DEFINE q == (i - 1) \div w
                r == (j - 1) \div w
    <3>1. /\ q \in Nat /\ i - 1 = w * q /\ place[i] = q + 1
          /\ r \in Nat /\ j - 1 = w * r /\ place[j] = r + 1
      BY <1>4, <2>2
    <3>2. i \in Nat /\ j \in Nat
      OBVIOUS
    <3>. HIDE DEF q, r, place, labelled
    <3>3. q + 1 = r + 1
      BY <2>2, <3>1
    <3>4. q = r
      BY <3>1, <3>3, SMT
    <3>5. i - 1 = j - 1
      BY <3>1, <3>4
    <3>. QED BY <3>2, <3>5, SMT
  <2>. HIDE DEF place, labelled
  <2>. QED BY <2>1, <2>2
<1>7. place \in Injection(labelled, Slots)
  <2>1. DOMAIN place = labelled /\ place = [i \in labelled |-> place[i]]
    OBVIOUS
  <2>. HIDE DEF place, labelled, Slots
  <2>2. place \in [labelled -> Slots]
    BY <1>5, <2>1
  <2>. QED BY <1>6, <2>2 DEF Injection, IsInjective
<1>8. IsFiniteSet(Slots) /\ Cardinality(Slots) = maximum
  <2>1. Cardinality(1 .. maximum) = IF 1 > maximum THEN 0 ELSE maximum - 1 + 1
    BY FS_Interval
  <2>2. IsFiniteSet(1 .. maximum)
    BY FS_Interval
  <2>. QED BY <2>1, <2>2, SMT
<1>9. {1, count} \subseteq labelled
  BY SMT
<1>. HIDE DEF labelled, Slots, place
<1>10. Cardinality(labelled) <= maximum
  BY <1>7, <1>8, FS_Injection
<1>. QED
  BY <1>9, <1>10 DEF labelled, w

LEMMA LengthOf ==
    ASSUME NEW n \in Nat, NEW f, DOMAIN f = 1 .. n, f = [i \in 1 .. n |-> f[i]]
    PROVE  Len(f) = n
<1>. DEFINE S == {f[i] : i \in 1 .. n}
<1>1. f \in [1 .. n -> S]
  OBVIOUS
<1>. HIDE DEF S
<1>2. f \in Seq(S)
  BY <1>1, SeqDef
<1>3. Len(f) \in Nat /\ DOMAIN f = 1 .. Len(f)
  BY <1>2, LenProperties
<1>. QED
  BY <1>3, SMT

LEMMA LengthOfRows ==
    ASSUME NEW f, IsFiniteSet(DOMAIN f), \A x \in DOMAIN f : f[x] \in Nat,
           NEW rows, DOMAIN rows = DOMAIN Ranked(f), rows = [i \in DOMAIN rows |-> rows[i]]
    PROVE  Len(rows) \in Nat
<1>1. Len(Ranked(f)) \in Nat /\ DOMAIN Ranked(f) = 1 .. Len(Ranked(f))
  BY RankedKeys
<1>. DEFINE n == Len(Ranked(f))
<1>2. n \in Nat /\ DOMAIN rows = 1 .. n
  BY <1>1
<1>. HIDE DEF n
<1>3. Len(rows) = n
  BY <1>2, LengthOf
<1>. QED
  BY <1>2, <1>3

\* What the tables, sheets and pages of a document rest on.
IsTabled(d) ==
    /\ d.period.from \in Nat /\ d.period.to \in Nat /\ d.period.from <= d.period.to
    /\ IsFiniteSet(d.sources)
    /\ IsFiniteSet(DOMAIN d.tasks) /\ \A k \in DOMAIN d.tasks : d.tasks[k] \in Nat
    /\ IsFiniteSet(DOMAIN d.members) /\ \A m \in DOMAIN d.members : d.members[m].total \in Nat

LEMMA DocumentIsTabled ==
    ASSUME NEW p, p.from \in Nat, p.to \in Nat, p.from <= p.to,
           NEW members, IsFiniteSet(members), NEW hours, hours \subseteq Hours,
           NEW scope, NEW filters
    PROVE  IsTabled(Document(scope, p, members, hours, filters))
<1>. DEFINE d == Document(scope, p, members, hours, filters)
            tasks == {h.task : h \in hours}
            authors == {h.author : h \in hours}
            Own(m) == {h \in hours : h.author = m}
<1>1. /\ d.period = p /\ d.sources = hours
      /\ d.tasks = By(tasks, "task", hours)
      /\ d.members = MemberRows(p, members, hours)
  BY DEF Document
<1>2. IsFiniteSet(hours)
  BY HoursTyped, FS_Subset
<1>3. IsFiniteSet(tasks) /\ IsFiniteSet(authors)
  <2>1. tasks = {[x \in hours |-> x.task][h] : h \in hours}
    OBVIOUS
  <2>2. authors = {[x \in hours |-> x.author][h] : h \in hours}
    OBVIOUS
  <2>3. \A f : IsFiniteSet({f[h] : h \in hours})
    BY <1>2, FiniteImage
  <2>. QED BY <2>1, <2>2, <2>3
<1>4. DOMAIN By(tasks, "task", hours) = tasks /\ \A k \in tasks : By(tasks, "task", hours)[k] \in Nat
  <2>1. \A h \in hours : h["task"] \in tasks
    OBVIOUS
  <2>. HIDE DEF tasks
  <2>. QED BY <1>3, <2>1, ByKeys
<1>5. /\ DOMAIN MemberRows(p, members, hours) = members \cup authors
      /\ \A m \in members \cup authors : MemberRows(p, members, hours)[m].total = HoursIn(Own(m))
  BY DEF MemberRows
<1>6. \A m : HoursIn(Own(m)) \in Nat
  <2>1. \A m : Own(m) \subseteq Hours
    OBVIOUS
  <2>. HIDE DEF Own
  <2>. QED BY <2>1, HoursArePlus
<1>7. IsFiniteSet(members \cup authors)
  <2>. HIDE DEF authors
  <2>. QED BY <1>3, FS_Union
<1>. HIDE DEF d, tasks, authors, Own
<1>. QED
  BY <1>1, <1>2, <1>3, <1>4, <1>5, <1>6, <1>7 DEF IsTabled, d

LEMMA RowsOfTables ==
    ASSUME NEW d, IsTabled(d)
    PROVE  /\ Len(TaskRows(d)) \in Nat /\ Len(RankedMembers(d)) \in Nat
           /\ Cardinality(d.sources) \in Nat
           /\ Len(Trend(d)) \in Nat \ {0}
<1>. DEFINE totals == [m \in DOMAIN d.members |-> d.members[m].total]
            tasks == d.tasks
            rows == TaskRows(d)
            members == RankedMembers(d)
            trend == Trend(d)
            n == d.period.to - d.period.from + 1
<1>1. /\ IsFiniteSet(DOMAIN tasks) /\ \A k \in DOMAIN tasks : tasks[k] \in Nat
      /\ IsFiniteSet(DOMAIN totals) /\ \A m \in DOMAIN totals : totals[m] \in Nat
  BY DEF IsTabled
<1>2. DOMAIN rows = DOMAIN Ranked(tasks) /\ rows = [i \in DOMAIN rows |-> rows[i]]
  BY DEF TaskRows
<1>3. DOMAIN members = DOMAIN Ranked(totals) /\ members = [i \in DOMAIN members |-> members[i]]
  BY DEF RankedMembers
<1>4. DOMAIN trend = 1 .. n /\ trend = [i \in 1 .. n |-> trend[i]]
  BY DEF Trend
<1>5. n \in Nat \ {0}
  BY SMT DEF IsTabled
<1>. HIDE DEF totals, tasks, rows, members, trend, n
<1>6. Len(rows) \in Nat
  BY <1>1, <1>2, LengthOfRows
<1>7. Len(members) \in Nat
  BY <1>1, <1>3, LengthOfRows
<1>8. Len(trend) = n
  BY <1>4, <1>5, LengthOf
<1>9. Cardinality(d.sources) \in Nat
  BY FS_CardinalityType DEF IsTabled
<1>. QED
  BY <1>5, <1>6, <1>7, <1>8, <1>9 DEF rows, members, trend

LEMMA PageShowsAll ==
    ASSUME NEW d, IsTabled(d)
    PROVE  PageIsRight(d)
<1>1. /\ Len(TaskRows(d)) \in Nat /\ Len(RankedMembers(d)) \in Nat
      /\ Cardinality(d.sources) \in Nat /\ Len(Trend(d)) \in Nat \ {0}
  BY RowsOfTables
<1>2. \A count \in PageTables(d) : count \in Nat
  BY <1>1 DEF PageTables
<1>3. \A requested \in 0 .. Cardinality(Hours) : requested \in Nat
  <2>1. Cardinality(Hours) \in Nat
    BY HoursTyped, FS_CardinalityType
  <2>. QED BY <2>1, SMT
<1>4. \A count \in PageTables(d) : \A requested \in 0 .. Cardinality(Hours) :
        /\ PageWindow(count, requested).rows \subseteq 1 .. count
        /\ count > 0 => PageWindow(count, requested).rows # {}
  BY <1>2, <1>3, Windows
<1>5. \A count \in PageTables(d) :
        UNION {PageWindow(count, k).rows : k \in 0 .. PageWindow(count, 0).total - 1} = 1 .. count
  BY <1>2, EveryRowIsShown
<1>. DEFINE maximum == IF MaxTrendLabels < 2 THEN 2 ELSE MaxTrendLabels
            count == Len(Trend(d))
            interval == Ceiling(count - 1, maximum - 1)
<1>6. maximum \in Nat /\ maximum >= 2
  BY ReportPresentationAssumption, SMT DEF ReportPresentationAssumption
<1>7. LabelledPoints(d) = {i \in 1 .. count :
          i \in {1, count} \/ (i - 1) % (IF interval = 0 THEN 1 ELSE interval) = 0}
  BY DEF LabelledPoints
<1>8. {1, count} \subseteq LabelledPoints(d) /\ Cardinality(LabelledPoints(d)) <= maximum
  <2>1. count \in Nat \ {0} /\ interval = Ceiling(count - 1, maximum - 1)
    BY <1>1
  <2>. HIDE DEF count, maximum, interval
  <2>. QED BY <1>6, <1>7, <2>1, LabelsFit
<1>. QED
  BY <1>4, <1>5, <1>8 DEF PageIsRight

---------------------------------------------------------------------------
(* The figures of the workbook and of the PDF.                              *)

IsPages(pages) == \E S : \E n \in Nat \ {0} : pages \in [1 .. n -> S]
ArePages(pages) == \E S : \E n \in Nat : pages \in [1 .. n -> S]

BeginsLike(more, pages) == IsPages(more) /\ more[1] = pages[1]

LEMMA MorePages ==
    ASSUME NEW a, IsPages(a), NEW b, ArePages(b)
    PROVE  BeginsLike(a \o b, a)
<1>. PICK T : \E m \in Nat : b \in [1 .. m -> T]
  BY DEF ArePages
<1>. PICK m \in Nat : b \in [1 .. m -> T]
  OBVIOUS
<1>0. PICK S : \E n \in Nat \ {0} : a \in [1 .. n -> S]
  BY DEF IsPages
<1>1. PICK n \in Nat \ {0} : a \in [1 .. n -> S]
  BY <1>0
<1>. DEFINE R == S \cup T
<1>2. a \in [1 .. n -> R] /\ b \in [1 .. m -> R]
  BY <1>1
<1>. HIDE DEF R
<1>3. a \in Seq(R) /\ b \in Seq(R) /\ n \in Nat
  BY <1>2, SeqDef
<1>4. Len(a) = n /\ Len(b) = m
  BY <1>2, <1>3, LenProperties, SMT
<1>5. /\ a \o b \in Seq(R) /\ Len(a \o b) = n + m
      /\ \A i \in 1 .. n + m : (a \o b)[i] = IF i <= n THEN a[i] ELSE b[i - n]
  BY <1>3, <1>4, ConcatProperties
<1>6. (a \o b)[1] = a[1]
  <2>1. 1 \in 1 .. n + m /\ 1 <= n
    BY SMT
  <2>. QED BY <1>5, <2>1
<1>7. a \o b \in [1 .. n + m -> R] /\ n + m \in Nat \ {0}
  <2>. DEFINE c == a \o b
  <2>1. c \in Seq(R) /\ Len(c) = n + m
    BY <1>5
  <2>. HIDE DEF c
  <2>2. c \in [1 .. n + m -> R]
    BY <2>1, LenProperties
  <2>. QED BY <2>2 DEF c
<1>. QED
  BY <1>6, <1>7 DEF IsPages, BeginsLike

LEMMA RecordsFollow ==
    ASSUME NEW pages, IsPages(pages), NEW title, NEW records, Len(records) \in Nat
    PROVE  BeginsLike(WithRecords(pages, title, records), pages)
<1>. DEFINE b == RecordPages(title, records, Len(pages) + 1)
            m == Ceiling(Len(records), RecordsPerPage)
            T == {b[i] : i \in 1 .. m}
<1>1. b \in [1 .. m -> T]
  <2>1. DOMAIN b = 1 .. m /\ b = [i \in 1 .. m |-> b[i]]
    BY DEF RecordPages
  <2>. HIDE DEF b, m
  <2>. QED BY <2>1
<1>2. m \in Nat
  <2>1. RecordsPerPage \in Nat \ {0}
    BY ReportPresentationAssumption DEF ReportPresentationAssumption
  <2>. QED BY <2>1, Ceilings
<1>. HIDE DEF m, T
<1>4. ArePages(b)
  <2>. HIDE DEF b
  <2>. QED BY <1>1, <1>2 DEF ArePages
<1>. HIDE DEF b
<1>3. BeginsLike(pages \o b, pages)
  BY <1>4, MorePages
<1>. QED
  BY <1>3 DEF WithRecords, b

LEMMA SourcesInSequence ==
    ASSUME NEW S, IsFiniteSet(S)
    PROVE  SetToSeq(S) \in [1 .. Cardinality(S) -> S] /\ Len(SetToSeq(S)) = Cardinality(S)
           /\ ToSet(SetToSeq(S)) = S
<1>. DEFINE n == Cardinality(S)
            f == SetToSeq(S)
<1>1. n \in Nat
  BY FS_CardinalityType
<1>2. \E g \in [1 .. n -> S] : IsInjective(g)
  <2>1. PICK k \in Nat : ExistsBijection(1 .. k, S)
    BY FS_NatBijection
  <2>2. n = k
    BY <2>1, FS_CountingElements
  <2>3. ExistsBijection(1 .. n, S)
    BY <2>1, <2>2
  <2>. HIDE DEF n
  <2>. QED BY <2>3 DEF ExistsBijection, Bijection, Injection
<1>3. f \in [1 .. n -> S] /\ IsInjective(f)
  BY <1>2 DEF SetToSeq
<1>. HIDE DEF f
<1>4. Len(f) = n
  <2>1. f = [i \in 1 .. n |-> f[i]] /\ DOMAIN f = 1 .. n
    BY <1>3
  <2>. HIDE DEF n
  <2>. QED BY <1>1, <2>1, LengthOf
<1>5. f \in Surjection(1 .. n, S)
  <2>. DEFINE N == 1 .. n
  <2>1. IsFiniteSet(N) /\ Cardinality(N) = n
    <3>1. Cardinality(N) = IF 1 > n THEN 0 ELSE n - 1 + 1
      BY <1>1, FS_Interval
    <3>2. IsFiniteSet(N)
      BY <1>1, FS_Interval
    <3>. HIDE DEF n, N
    <3>. QED BY <1>1, <3>1, <3>2, SMT
  <2>2. f \in Injection(N, S) /\ Cardinality(N) = Cardinality(S)
    BY <1>3, <2>1 DEF Injection
  <2>. HIDE DEF N
  <2>3. f \in Surjection(N, S)
    BY <2>2, FS_Injection
  <2>. QED BY <2>3 DEF N
<1>6. ToSet(f) = S
  BY <1>3, <1>5 DEF Surjection, ToSet
<1>. QED
  BY <1>3, <1>4, <1>6 DEF f

LEMMA FirstPages ==
    ASSUME NEW d, IsTabled(d)
    PROVE  PdfPages(d)[1].cards = IF d.scope = "individual" THEN PersonalMetrics(d) ELSE TeamMetrics(d)
<1>1. Len(TaskRows(d)) \in Nat /\ Len(RankedMembers(d)) \in Nat /\ Len(SourceRows(d)) \in Nat
  <2>1. Cardinality(d.sources) \in Nat /\ IsFiniteSet(d.sources)
    BY RowsOfTables DEF IsTabled
  <2>. QED BY <2>1, RowsOfTables, SourcesInSequence DEF SourceRows
<1>2. \A x : IsPages(<<x>>)
  <2>1. ASSUME NEW x PROVE IsPages(<<x>>)
    <3>. DEFINE one == <<x>>
    <3>1. one \in Seq({x}) /\ Len(one) = 1
      OBVIOUS
    <3>. HIDE DEF one
    <3>2. one \in [1 .. 1 -> {x}]
      BY <3>1, LenProperties
    <3>3. IsPages(one)
      <4>. DEFINE S == {x}
      <4>1. 1 \in Nat \ {0} /\ one \in [1 .. 1 -> S]
        BY <3>2
      <4>. HIDE DEF S
      <4>2. \E n \in Nat \ {0} : one \in [1 .. n -> S]
        BY <4>1
      <4>. QED BY <4>2, Zenon DEF IsPages
    <3>. QED BY <3>3 DEF one
  <2>. QED BY <2>1
<1>3. CASE d.scope = "individual"
  <2>. DEFINE opening == <<PersonalOverview(d)>>
              some == WithRecords(opening, "tasks", TaskRows(d))
              all == WithRecords(some, "sources", SourceRows(d))
  <2>1. IsPages(opening) /\ opening[1] = PersonalOverview(d)
    BY <1>2
  <2>. HIDE DEF opening
  <2>2. IsPages(some) /\ some[1] = opening[1]
    BY <1>1, <2>1, RecordsFollow DEF BeginsLike
  <2>. HIDE DEF some
  <2>3. all[1] = some[1]
    BY <1>1, <2>2, RecordsFollow DEF BeginsLike
  <2>4. PdfPages(d) = all
    BY <1>3 DEF PdfPages, PersonalPages, all, some, opening
  <2>5. PersonalOverview(d).cards = PersonalMetrics(d)
    BY DEF PersonalOverview, PdfPage
  <2>. QED BY <1>3, <2>1, <2>2, <2>3, <2>4, <2>5
<1>4. CASE d.scope # "individual"
  <2>. DEFINE overview == PdfPage("overview", TeamMetrics(d),
                                  IF d.total = 0 THEN <<>> ELSE Bars(MemberSlices(d)), <<>>, 1)
              types == PdfPage("classification", <<>>,
                               Bars(SliceSeconds(d.categorySlices)) \o Bars(SliceSeconds(d.statusSlices)),
                               <<>>, 2)
              tail == IF d.total = 0 THEN <<>> ELSE <<types>>
              opening == TeamOverview(d)
              few == WithRecords(opening, "members", RankedMembers(d))
              some == WithRecords(few, "tasks", TaskRows(d))
              all == WithRecords(some, "sources", SourceRows(d))
  <2>1. opening = <<overview>> \o tail
    BY DEF TeamOverview
  <2>2. overview.cards = TeamMetrics(d)
    BY DEF PdfPage
  <2>. HIDE DEF overview, types, opening
  <2>3. ArePages(tail)
    <3>1. <<types>> \in [1 .. 1 -> {types}]
      OBVIOUS
    <3>2. <<>> \in [1 .. 0 -> {types}]
      <4>1. 1 .. 0 = {} /\ <<>> \in Seq({types}) /\ Len(<<>>) = 0
        BY EmptySeq
      <4>. QED BY <4>1, LenProperties
    <3>. QED BY <3>1, <3>2 DEF ArePages
  <2>. HIDE DEF tail
  <2>4. IsPages(opening) /\ opening[1] = overview
    <3>1. IsPages(<<overview>>) /\ <<overview>>[1] = overview
      BY <1>2
    <3>. DEFINE one == <<overview>>
    <3>. HIDE DEF one
    <3>2. IsPages(one \o tail) /\ (one \o tail)[1] = one[1]
      BY <2>3, <3>1, MorePages DEF one, BeginsLike
    <3>. QED BY <2>1, <3>1, <3>2 DEF one
  <2>5. IsPages(few) /\ few[1] = opening[1]
    BY <1>1, <2>4, RecordsFollow DEF BeginsLike
  <2>. HIDE DEF few
  <2>6. IsPages(some) /\ some[1] = few[1]
    BY <1>1, <2>5, RecordsFollow DEF BeginsLike
  <2>. HIDE DEF some
  <2>7. all[1] = some[1]
    BY <1>1, <2>6, RecordsFollow DEF BeginsLike
  <2>8. PdfPages(d) = all
    BY <1>4 DEF PdfPages, TeamPages, all, some, few, opening
  <2>. QED BY <1>4, <2>2, <2>4, <2>5, <2>6, <2>7, <2>8
<1>. QED
  BY <1>3, <1>4

\* A figure stands to the right of its name.
LEMMA CellOfFigure ==
    ASSUME NEW row \in Nat, NEW column \in Nat, NEW value
    PROVE  [row |-> row, column |-> column + 1, value |-> value]
               \in Table(row, column, <<<<Text, value>>>>)
<1>. DEFINE rows == <<<<Text, value>>>>
            Cells(i) == {[row |-> row + i - 1, column |-> column + j - 1, value |-> rows[i][j]] :
                            j \in DOMAIN rows[i]}
<1>1. DOMAIN rows = {1} /\ 2 \in DOMAIN rows[1] /\ rows[1][2] = value
  OBVIOUS
<1>2. row + 1 - 1 = row /\ column + 2 - 1 = column + 1
  BY SMT
<1>3. Table(row, column, rows) = UNION {Cells(i) : i \in DOMAIN rows}
  BY Zenon DEF Table
<1>4. [row |-> row + 1 - 1, column |-> column + 2 - 1, value |-> rows[1][2]] \in Cells(1)
  <2>. HIDE DEF rows
  <2>. QED BY <1>1
<1>5. [row |-> row, column |-> column + 1, value |-> value] \in Cells(1)
  <2>. HIDE DEF rows, Cells
  <2>. QED BY <1>1, <1>2, <1>4
<1>6. 1 \in DOMAIN rows
  BY <1>1
<1>. HIDE DEF rows, Cells
<1>7. [row |-> row, column |-> column + 1, value |-> value] \in Table(row, column, rows)
  BY <1>3, <1>5, <1>6
<1>. QED
  BY <1>7 DEF rows

LEMMA PersonalFigures ==
    ASSUME NEW d, NEW i \in DOMAIN PersonalMetrics(d)
    PROVE  [row |-> i + 4, column |-> 1, value |-> PersonalMetrics(d)[i]] \in SummarySheet(d).cells
<1>. DEFINE cells == SummarySheet(d).cells
            m == PersonalMetrics(d)
<1>1. \A row \in 5 .. 12 : \A value :
        [row |-> row, column |-> 1, value |-> value] \in LabelValue(row, value)
  <2>1. ASSUME NEW row \in 5 .. 12, NEW value
        PROVE  [row |-> row, column |-> 1, value |-> value] \in LabelValue(row, value)
    <3>1. row \in Nat /\ 0 \in Nat /\ 0 + 1 = 1
      BY SMT
    <3>2. [row |-> row, column |-> 0 + 1, value |-> value] \in Table(row, 0, <<<<Text, value>>>>)
      BY <3>1, CellOfFigure
    <3>. QED BY <3>1, <3>2 DEF LabelValue
  <2>. QED BY <2>1
<1>2. /\ LabelValue(5, m[1]) \subseteq cells /\ LabelValue(6, m[2]) \subseteq cells
      /\ LabelValue(7, m[3]) \subseteq cells /\ LabelValue(8, m[4]) \subseteq cells
      /\ LabelValue(9, m[5]) \subseteq cells /\ LabelValue(10, m[6]) \subseteq cells
      /\ LabelValue(11, m[7]) \subseteq cells /\ LabelValue(12, m[8]) \subseteq cells
  <2>1. /\ m[1] = Duration(d.total) /\ m[2] = Count(Cardinality(ActiveDays(d)))
        /\ m[3] = Count(Cardinality(DOMAIN d.tasks)) /\ m[4] = Count(Cardinality(d.sources))
        /\ m[5] = Duration(AverageDay(d)) /\ m[6] = Label(BusiestDays(d))
        /\ m[7] = Count(TopTask(d)) /\ m[8] = Count(Cardinality(Uncommented(d)))
    BY DEF PersonalMetrics
  <2>. HIDE DEF m
  <2>2. /\ LabelValue(5, Duration(d.total)) \subseteq cells
        /\ LabelValue(6, Count(Cardinality(ActiveDays(d)))) \subseteq cells
        /\ LabelValue(7, Count(Cardinality(DOMAIN d.tasks))) \subseteq cells
        /\ LabelValue(8, Count(Cardinality(d.sources))) \subseteq cells
        /\ LabelValue(9, Duration(AverageDay(d))) \subseteq cells
        /\ LabelValue(10, Label(BusiestDays(d))) \subseteq cells
        /\ LabelValue(11, Count(TopTask(d))) \subseteq cells
        /\ LabelValue(12, Count(Cardinality(Uncommented(d)))) \subseteq cells
    BY DEF SummarySheet, Sheet
  <2>. HIDE DEF cells
  <2>. QED BY <2>1, <2>2
<1>3. i \in 1 .. 8
  BY DEF PersonalMetrics
<1>. HIDE DEF cells, m
<1>4. LabelValue(i + 4, m[i]) \subseteq cells /\ i + 4 \in 5 .. 12
  <2>1. i + 4 \in 5 .. 12
    BY <1>3, SMT
  <2>2. i \in {1, 2, 3, 4, 5, 6, 7, 8}
    BY <1>3, SMT
  <2>3. /\ 1 + 4 = 5 /\ 2 + 4 = 6 /\ 3 + 4 = 7 /\ 4 + 4 = 8 /\ 5 + 4 = 9 /\ 6 + 4 = 10
        /\ 7 + 4 = 11 /\ 8 + 4 = 12
    BY SMT
  <2>. QED BY <1>2, <2>1, <2>2, <2>3
<1>5. [row |-> i + 4, column |-> 1, value |-> m[i]] \in LabelValue(i + 4, m[i])
  BY <1>1, <1>4
<1>. QED
  BY <1>4, <1>5 DEF cells, m

LEMMA TeamFigures ==
    ASSUME NEW d, NEW i \in DOMAIN TeamMetrics(d)
    PROVE  \E c \in TeamSummarySheet(d).cells : c.row \in 3 .. 12 /\ c.value = TeamMetrics(d)[i]
<1>. DEFINE cells == TeamSummarySheet(d).cells
            m == TeamMetrics(d)
            Figure(row, column, value) == Table(row, column, <<<<Text, value>>>>)
<1>1. i \in {1, 2, 3, 4, 5}
  BY SMT DEF TeamMetrics
<1>2. /\ m[1] = Duration(d.total) /\ m[2] = Count(Cardinality(WithHours(d)))
      /\ m[3] = Count(Cardinality(DOMAIN d.tasks)) /\ m[4] = Count(Cardinality(d.sources))
      /\ m[5] = Count(Cardinality(Uncommented(d)))
  BY DEF TeamMetrics
<1>3. /\ Figure(3, 0, Duration(d.total)) \subseteq cells
      /\ Figure(4, 0, Count(Cardinality(WithHours(d)))) \subseteq cells
      /\ Figure(3, 4, Count(Cardinality(DOMAIN d.tasks))) \subseteq cells
      /\ Figure(3, 6, Count(Cardinality(d.sources))) \subseteq cells
      /\ Figure(4, 2, Count(Cardinality(Uncommented(d)))) \subseteq cells
  BY DEF TeamSummarySheet, Sheet
<1>4. ASSUME NEW row \in {3, 4}, NEW column \in {0, 2, 4, 6}, NEW value, Figure(row, column, value) \subseteq cells
      PROVE  \E c \in cells : c.row \in 3 .. 12 /\ c.value = value
  <2>1. row \in Nat /\ column \in Nat /\ row \in 3 .. 12
    OBVIOUS
  <2>2. [row |-> row, column |-> column + 1, value |-> value] \in Table(row, column, <<<<Text, value>>>>)
    BY <2>1, CellOfFigure
  <2>. DEFINE c == [row |-> row, column |-> column + 1, value |-> value]
  <2>3. c \in Figure(row, column, value)
    BY <2>2
  <2>4. c.row = row /\ c.value = value
    OBVIOUS
  <2>. HIDE DEF c, Figure, cells
  <2>. QED BY <1>4, <2>1, <2>3, <2>4
<1>. HIDE DEF cells, m, Figure
<1>5. \E c \in cells : c.row \in 3 .. 12 /\ c.value = m[i]
  <2>1. \E c \in cells : c.row \in 3 .. 12 /\ c.value = m[1]
    BY <1>2, <1>3, <1>4
  <2>2. \E c \in cells : c.row \in 3 .. 12 /\ c.value = m[2]
    BY <1>2, <1>3, <1>4
  <2>3. \E c \in cells : c.row \in 3 .. 12 /\ c.value = m[3]
    BY <1>2, <1>3, <1>4
  <2>4. \E c \in cells : c.row \in 3 .. 12 /\ c.value = m[4]
    BY <1>2, <1>3, <1>4
  <2>5. \E c \in cells : c.row \in 3 .. 12 /\ c.value = m[5]
    BY <1>2, <1>3, <1>4
  <2>. QED BY <1>1, <2>1, <2>2, <2>3, <2>4, <2>5
<1>. QED
  BY <1>5 DEF cells, m

LEMMA SameFigures ==
    ASSUME NEW d, IsTabled(d), d.scope \in {"individual", "team"}
    PROVE  FiguresAgree(d)
<1>. DEFINE cards == PdfPages(d)[1].cards
<1>1. CASE d.scope = "individual"
  <2>1. cards = PersonalMetrics(d)
    BY <1>1, FirstPages
  <2>2. Workbook(d)[1].cells = SummarySheet(d).cells
    BY <1>1 DEF Workbook, PersonalWorkbook
  <2>3. \A i \in DOMAIN cards :
          [row |-> i + 4, column |-> 1, value |-> cards[i]] \in Workbook(d)[1].cells
    <3>. HIDE DEF cards
    <3>. QED BY <2>1, <2>2, PersonalFigures
  <2>. QED BY <1>1, <2>3 DEF FiguresAgree
<1>2. CASE d.scope = "team"
  <2>1. cards = TeamMetrics(d)
    BY <1>2, FirstPages
  <2>2. Workbook(d)[1].cells = TeamSummarySheet(d).cells
    BY <1>2 DEF Workbook, TeamWorkbook
  <2>3. \A i \in DOMAIN cards : \E c \in Workbook(d)[1].cells : c.row \in 3 .. 12 /\ c.value = cards[i]
    <3>. HIDE DEF cards
    <3>. QED BY <2>1, <2>2, TeamFigures
  <2>4. ToSet(cards) \subseteq {c.value : c \in {x \in Workbook(d)[1].cells : x.row \in 3 .. 12}}
    <3>. HIDE DEF cards
    <3>. QED BY <2>3 DEF ToSet
  <2>. QED BY <1>2, <2>4 DEF FiguresAgree
<1>. QED
  BY <1>1, <1>2

LEMMA CompleteReportsAreTabled ==
    ASSUME NEW d, IsOfCompleteReport(d)
    PROVE  IsTabled(d) /\ d.scope \in {"individual", "team"}
<1>1. ASSUME NEW p \in Periods, d = PersonalDocument(p)
      PROVE  IsTabled(d) /\ d.scope \in {"individual", "team"}
  <2>. DEFINE hours == {h \in Within(p, Hours) : h.author = User}
              members == {User}
  <2>1. IsFiniteSet(members) /\ hours \subseteq Hours
    BY FS_Singleton DEF Within
  <2>2. d = Document("individual", p, members, hours, NoFilters)
    BY <1>1 DEF PersonalDocument
  <2>. HIDE DEF hours, members
  <2>3. IsTabled(d)
    BY <2>1, <2>2, ChosenPeriods, DocumentIsTabled
  <2>4. d.scope = "individual"
    BY <2>2 DEF Document
  <2>. QED BY <2>3, <2>4
<1>2. ASSUME NEW p \in Periods, NEW filters \in Filters, d = TeamDocument(p, Within(p, Hours), filters)
      PROVE  IsTabled(d) /\ d.scope \in {"individual", "team"}
  <2>. DEFINE all == Within(p, Hours)
              hours == ShownHours(all, filters)
              members == ShownMembers(all, filters)
  <2>1. hours \subseteq Hours
    BY DEF ShownHours, Within
  <2>2. IsFiniteSet(members)
    BY FiniteShownMembers
  <2>3. d = Document("team", p, members, hours, filters)
    BY <1>2 DEF TeamDocument
  <2>. HIDE DEF hours, members, all
  <2>4. IsTabled(d)
    BY <2>1, <2>2, <2>3, ChosenPeriods, DocumentIsTabled
  <2>5. d.scope = "team"
    BY <2>3 DEF Document
  <2>. QED BY <2>4, <2>5
<1>. QED
  BY <1>1, <1>2 DEF IsOfCompleteReport

\* Whatever page a table was left at and whatever its rows have become, the page shows
\* rows that there are, and its pages all rows of an exported report; the trend labels
\* its ends and no more points than it may.
THEOREM ExportedRowsAreShown == DeskSpec => [](Exporting => PageIsRight(page.document))
<1>1. ExportsAreComplete => (Exporting => PageIsRight(page.document))
  BY CompleteReportsAreTabled, PageShowsAll DEF ExportsAreComplete
<1>. QED
  BY <1>1, ExportsAreOfCompleteReports, PTL

\* The figures on the first sheet of an exported workbook are those on the first page of
\* its PDF, the person's own and the team's.
THEOREM ExportedFiguresAgree == DeskSpec => [](Exporting => FiguresAgree(page.document))
<1>1. ExportsAreComplete => (Exporting => FiguresAgree(page.document))
  BY CompleteReportsAreTabled, SameFigures DEF ExportsAreComplete
<1>. QED
  BY <1>1, ExportsAreOfCompleteReports, PTL

---------------------------------------------------------------------------
(* The rows of sequences put one after another.                             *)

LEMMA Joined ==
    ASSUME NEW n \in Nat, NEW m \in Nat, NEW S, NEW a \in [1 .. n -> S], NEW b \in [1 .. m -> S]
    PROVE  /\ a \o b \in [1 .. n + m -> S] /\ Len(a \o b) = n + m
           /\ \A i \in 1 .. n : (a \o b)[i] = a[i]
           /\ \A i \in 1 .. m : (a \o b)[n + i] = b[i]
<1>1. a \in Seq(S) /\ b \in Seq(S)
  BY SeqDef
<1>2. Len(a) = n /\ Len(b) = m
  BY <1>1, LenProperties, SMT
<1>3. /\ a \o b \in Seq(S) /\ Len(a \o b) = n + m
      /\ \A i \in 1 .. n + m : (a \o b)[i] = IF i <= n THEN a[i] ELSE b[i - n]
  BY <1>1, <1>2, ConcatProperties
<1>. DEFINE c == a \o b
<1>4. c \in Seq(S) /\ Len(c) = n + m /\ \A i \in 1 .. n + m : c[i] = IF i <= n THEN a[i] ELSE b[i - n]
  BY <1>3
<1>. HIDE DEF c
<1>5. c \in [1 .. n + m -> S]
  BY <1>4, LenProperties
<1>6. \A i \in 1 .. n : c[i] = a[i]
  BY <1>4, SMT
<1>7. ASSUME NEW i \in 1 .. m PROVE c[n + i] = b[i]
  <2>1. n + i \in 1 .. n + m /\ ~(n + i <= n) /\ (n + i) - n = i
    BY SMT
  <2>. QED BY <1>4, <2>1
<1>. QED
  BY <1>4, <1>5, <1>6, <1>7 DEF c

LEMMA JoinedType ==
    ASSUME NEW n \in Nat, NEW m \in Nat, NEW S, NEW a \in [1 .. n -> S], NEW b \in [1 .. m -> S]
    PROVE  a \o b \in [1 .. n + m -> S]
BY Joined

LEMMA JoinedAt ==
    ASSUME NEW n \in Nat, NEW m \in Nat, NEW S, NEW a \in [1 .. n -> S], NEW b \in [1 .. m -> S],
           NEW i \in 1 .. n
    PROVE  (a \o b)[i] = a[i]
BY Joined

LEMMA JoinedAfter ==
    ASSUME NEW n \in Nat, NEW m \in Nat, NEW S, NEW a \in [1 .. n -> S], NEW b \in [1 .. m -> S],
           NEW i \in 1 .. m
    PROVE  (a \o b)[n + i] = b[i]
BY Joined

(* How the rows of a table are divided into pages of w rows.                *)

ChunkEnd(k, w, m) == AtMost(k * w, m)

\* The rows on a page: as many as there are left, and at most w.
LEMMA Chunks ==
    ASSUME NEW m \in Nat, NEW w \in Nat \ {0}, NEW k \in 1 .. Ceiling(m, w)
    PROVE  /\ k \in Nat /\ (k - 1) * w \in Nat /\ ChunkEnd(k, w, m) \in Nat
           /\ (k - 1) * w < ChunkEnd(k, w, m) /\ ChunkEnd(k, w, m) <= (k - 1) * w + w
           /\ ChunkEnd(k, w, m) <= m
<1>. DEFINE c == Ceiling(m, w)
<1>1. c \in Nat /\ m <= w * c /\ w * c <= m + w - 1
  BY Ceilings
<1>. HIDE DEF c
<1>2. k \in Nat /\ k - 1 \in Nat /\ k <= c /\ (k - 1) + 1 = k
  BY <1>1 DEF c
<1>3. w * k <= w * c /\ w * k \in Nat /\ w * c \in Nat
  BY <1>1, <1>2, MoreParts
<1>4. k * w = (k - 1) * w + w /\ (k - 1) * w \in Nat
  <2>1. ((k - 1) + 1) * w = (k - 1) * w + 1 * w /\ (k - 1) * w \in Nat
    BY <1>2, Distributes
  <2>2. 1 * w = w
    BY SMT
  <2>. QED BY <1>2, <2>1, <2>2
<1>5. k * w = w * k
  BY <1>2, SMT
<1>. DEFINE x == (k - 1) * w
            y == w * c
<1>6. x \in Nat /\ y \in Nat /\ k * w = x + w /\ x + w <= y /\ y <= m + w - 1
  BY <1>1, <1>3, <1>4, <1>5
<1>. HIDE DEF x, y
<1>7. ChunkEnd(k, w, m) = AtMost(x + w, m)
  BY <1>6 DEF ChunkEnd
<1>8. /\ ChunkEnd(k, w, m) \in Nat /\ x < ChunkEnd(k, w, m) /\ ChunkEnd(k, w, m) <= x + w
      /\ ChunkEnd(k, w, m) <= m
  BY <1>6, <1>7, SMT DEF AtMost
<1>. QED
  BY <1>2, <1>6, <1>8 DEF x

\* The page of a row and its place there.
LeafOf(i, w) == (i - 1) \div w + 1
PlaceOn(i, w) == ((i - 1) % w) + 1

LEMMA RowInChunk ==
    ASSUME NEW m \in Nat, NEW w \in Nat \ {0}, NEW i \in 1 .. m
    PROVE  /\ LeafOf(i, w) \in 1 .. Ceiling(m, w)
           /\ PlaceOn(i, w) \in 1 .. ChunkEnd(LeafOf(i, w), w, m) - (LeafOf(i, w) - 1) * w
           /\ (LeafOf(i, w) - 1) * w + PlaceOn(i, w) = i
<1>. DEFINE a == i - 1
            q == a \div w
            r == a % w
            c == Ceiling(m, w)
<1>1. a \in Nat /\ a + 1 = i /\ a < m
  BY SMT
<1>. HIDE DEF a
<1>2. r \in 0 .. w - 1 /\ q \in Nat /\ a = (w * q) + r
  BY <1>1, Quotients
<1>. HIDE DEF q, r
<1>3. c \in Nat /\ m <= w * c
  BY Ceilings
<1>. HIDE DEF c
<1>4. w * q \in Nat /\ w * c \in Nat
  BY <1>2, <1>3, SMT
<1>5. w * q < w * c
  <2>. DEFINE x == w * q
              y == w * c
  <2>1. x \in Nat /\ y \in Nat /\ a = x + r /\ m <= y
    BY <1>2, <1>3, <1>4
  <2>. HIDE DEF x, y
  <2>2. x < y
    BY <1>1, <1>2, <2>1, SMT
  <2>. QED BY <2>2 DEF x, y
<1>6. q < c
  BY <1>2, <1>3, <1>5, FewerParts
<1>7. q + 1 \in 1 .. c /\ (q + 1) - 1 = q
  BY <1>2, <1>3, <1>6, SMT
<1>8. (q + 1) * w = q * w + w /\ q * w = w * q
  <2>1. (q + 1) * w = q * w + 1 * w
    BY <1>2, Distributes
  <2>2. 1 * w = w /\ q * w = w * q
    BY <1>2, SMT
  <2>. QED BY <2>1, <2>2
<1>. DEFINE x == w * q
<1>9. x \in Nat /\ a = x + r /\ (q + 1) * w = x + w /\ ((q + 1) - 1) * w = x
  BY <1>2, <1>4, <1>7, <1>8
<1>. HIDE DEF x
<1>10. ChunkEnd(q + 1, w, m) = AtMost(x + w, m)
  BY <1>9 DEF ChunkEnd
<1>11. r + 1 \in 1 .. ChunkEnd(q + 1, w, m) - x /\ x + (r + 1) = i
  BY <1>1, <1>2, <1>9, <1>10, SMT DEF AtMost
<1>. QED
  BY <1>7, <1>9, <1>11 DEF q, r, c, a, LeafOf, PlaceOn

LEMMA ChunkOfRow ==
    ASSUME NEW w \in Nat \ {0}, NEW k \in Nat, k >= 1, NEW j \in 1 .. w
    PROVE  /\ LeafOf((k - 1) * w + j, w) = k
           /\ PlaceOn((k - 1) * w + j, w) = j
<1>. DEFINE p == k - 1
            x == p * w
            a == x + j - 1
            q == a \div w
            r == a % w
<1>1. p \in Nat /\ x = w * p /\ x \in Nat /\ j - 1 \in 0 .. w - 1
  <2>1. p \in Nat
    BY SMT
  <2>. HIDE DEF p
  <2>. QED BY <2>1, SMT
<1>2. a \in Nat /\ a = x + (j - 1)
  <2>. HIDE DEF x, p
  <2>. QED BY <1>1, SMT
<1>. HIDE DEF a, x, p
<1>3. r \in 0 .. w - 1 /\ q \in Nat /\ a = (w * q) + r
  BY <1>2, Quotients
<1>. HIDE DEF q, r
<1>4. w * q + r = w * p + (j - 1)
  BY <1>1, <1>2, <1>3
<1>5. r = j - 1
  BY <1>1, <1>3, <1>4, OneRemainder
<1>6. q = p
  <2>1. w * q \in Nat /\ w * p \in Nat
    BY <1>1, <1>3, SMT
  <2>2. w * q = w * p
    <3>. DEFINE y == w * q
                z == w * p
    <3>1. y \in Nat /\ z \in Nat /\ y + r = z + (j - 1)
      BY <2>1, <1>4
    <3>. HIDE DEF y, z
    <3>2. y = z
      BY <1>1, <1>5, <3>1, SMT
    <3>. QED BY <3>2 DEF y, z
  <2>3. ~(q < p) /\ ~(p < q)
    <3>1. \A g, h \in Nat : g < h => w * g < w * h
      <4>1. ASSUME NEW g \in Nat, NEW h \in Nat, g < h PROVE w * g < w * h
        <5>1. g + 1 <= h /\ g + 1 \in Nat
          BY <4>1, SMT
        <5>2. w * (g + 1) <= w * h /\ w * (g + 1) \in Nat /\ w * h \in Nat
          BY <5>1, MoreParts
        <5>3. w * (g + 1) = w * g + w /\ w * g \in Nat
          BY SMT
        <5>. DEFINE u == w * g
                    v == w * h
        <5>4. u \in Nat /\ v \in Nat /\ u + w <= v
          BY <5>2, <5>3
        <5>. HIDE DEF u, v
        <5>5. u < v
          BY <5>4, SMT
        <5>. QED BY <5>5 DEF u, v
      <4>. QED BY <4>1
    <3>2. \A g \in Nat : ~(g < g)
      BY SMT
    <3>. QED BY <1>1, <1>3, <2>1, <2>2, <3>1, <3>2
  <2>. QED BY <1>1, <1>3, <2>3, SMT
<1>7. p + 1 = k /\ (j - 1) + 1 = j
  BY SMT DEF p
<1>. QED
  BY <1>5, <1>6, <1>7 DEF q, r, a, x, p, LeafOf, PlaceOn

(* The pages of records.                                                    *)

\* A page of records as record_pages makes it.
IsChunk(p, title, rows, k, number) ==
    LET from == (k - 1) * RecordsPerPage
        to == ChunkEnd(k, RecordsPerPage, Len(rows))
    IN  /\ p.title = title /\ p.number = number /\ p.bars = <<>>
        /\ DOMAIN p.records = 1 .. to - from /\ Len(p.records) = to - from
        /\ \A j \in 1 .. to - from : p.records[j] = rows[from + j]

LEMMA PageCapacity == RecordsPerPage \in Nat \ {0}
BY ReportPresentationAssumption DEF ReportPresentationAssumption

LEMMA ChunkOfRows ==
    ASSUME NEW m \in Nat, NEW R, NEW rows \in [1 .. m -> R], NEW title, NEW number,
           NEW k \in 1 .. Ceiling(m, RecordsPerPage), NEW piece, NEW p,
           piece = SubSeq(rows, (k - 1) * RecordsPerPage + 1, ChunkEnd(k, RecordsPerPage, m)),
           p = PdfPage(title, <<>>, <<>>, piece, number)
    PROVE  IsChunk(p, title, rows, k, number)
<1>. DEFINE w == RecordsPerPage
            from == (k - 1) * w
            to == ChunkEnd(k, w, m)
            low == from + 1
<1>0. Len(rows) = m
  BY LengthOf
<1>1. from \in Nat /\ to \in Nat /\ from < to /\ to <= m
  BY PageCapacity, Chunks
<1>2. /\ p.title = title /\ p.number = number /\ p.bars = <<>>
      /\ p.records = piece
  BY DEF PdfPage
<1>3. piece = SubSeq(rows, low, to)
  OBVIOUS
<1>. HIDE DEF from, to
<1>4. /\ low \in Int /\ to \in Int /\ low <= to /\ to - low + 1 = to - from
      /\ \A i \in low .. to : i \in 1 .. m
      /\ \A j \in 1 .. to - from : low + j - 1 = from + j
  BY <1>1, SMT
<1>5. \A i \in low .. to : rows[i] \in R
  BY <1>4
<1>. HIDE DEF low
<1>. DEFINE size == to - low + 1
<1>6. /\ piece \in Seq(R) /\ Len(piece) = to - from
      /\ \A j \in 1 .. to - from : piece[j] = rows[low + j - 1]
  <2>1. low \in Int /\ to \in Int /\ low <= to + 1
    BY <1>4, SMT
  <2>2. /\ SubSeq(rows, low, to) \in Seq(R) /\ Len(SubSeq(rows, low, to)) = size
        /\ \A j \in 1 .. size : SubSeq(rows, low, to)[j] = rows[low + j - 1]
    <3>1. /\ SubSeq(rows, low, to) \in Seq(R)
          /\ Len(SubSeq(rows, low, to)) = IF low <= to THEN to - low + 1 ELSE 0
          /\ \A j \in 1 .. (to - low + 1) : SubSeq(rows, low, to)[j] = rows[low + j - 1]
      BY <1>5, <2>1, SubSeqProperties
    <3>. QED BY <1>4, <3>1
  <2>3. size = to - from
    BY <1>4
  <2>. HIDE DEF size
  <2>. QED BY <1>3, <2>2, <2>3
<1>7. DOMAIN piece = 1 .. to - from
  BY <1>6, LenProperties
<1>8. \A j \in 1 .. to - from : piece[j] = rows[from + j]
  BY <1>4, <1>6
<1>. QED
  BY <1>0, <1>2, <1>6, <1>7, <1>8 DEF IsChunk, from, to

\* Some pages with those of the rows after them.
HasGrown(more, pages, n, c, title, rows) ==
    /\ c \in Nat /\ DOMAIN more = 1 .. n + c /\ more = [k \in 1 .. n + c |-> more[k]]
    /\ \A k \in 1 .. n : more[k] = pages[k]
    /\ \A k \in 1 .. c : IsChunk(more[n + k], title, rows, k, n + k)

LEMMA RecordsAdded ==
    ASSUME NEW n \in Nat, NEW S, NEW pages \in [1 .. n -> S],
           NEW m \in Nat, NEW R, NEW rows \in [1 .. m -> R], NEW title,
           NEW c, c = Ceiling(m, RecordsPerPage),
           NEW more, more = WithRecords(pages, title, rows)
    PROVE  HasGrown(more, pages, n, c, title, rows)
<1>. DEFINE w == RecordsPerPage
            piece(k) == SubSeq(rows, (k - 1) * w + 1, ChunkEnd(k, w, m))
            new == [k \in 1 .. c |-> PdfPage(title, <<>>, <<>>, piece(k), n + 1 + k - 1)]
            T == S \cup {new[k] : k \in 1 .. c}
<1>1. Len(pages) = n /\ Len(rows) = m
  BY LengthOf
<1>2. c \in Nat
  BY PageCapacity, Ceilings
<1>3. more = pages \o new
  BY <1>1 DEF WithRecords, RecordPages, ChunkEnd
<1>4. ASSUME NEW k \in 1 .. c
      PROVE  IsChunk(new[k], title, rows, k, n + k)
  <2>1. new[k] = PdfPage(title, <<>>, <<>>, piece(k), n + 1 + k - 1)
    OBVIOUS
  <2>2. n + 1 + k - 1 = n + k
    BY <1>2, SMT
  <2>3. new[k] = PdfPage(title, <<>>, <<>>, piece(k), n + k)
    BY <2>1, <2>2
  <2>4. piece(k) = SubSeq(rows, (k - 1) * RecordsPerPage + 1, ChunkEnd(k, RecordsPerPage, m))
    OBVIOUS
  <2>5. k \in 1 .. Ceiling(m, RecordsPerPage)
    OBVIOUS
  <2>. HIDE DEF piece, new
  <2>. QED BY <2>3, <2>4, <2>5, ChunkOfRows, Zenon
<1>5. new = [k \in 1 .. c |-> new[k]]
  OBVIOUS
<1>. HIDE DEF new
<1>6. pages \in [1 .. n -> T] /\ new \in [1 .. c -> T]
  BY <1>5
<1>. HIDE DEF T
<1>7. more \in [1 .. n + c -> T]
  <2>1. n \in Nat
    OBVIOUS
  <2>2. pages \o new \in [1 .. n + c -> T]
    BY <1>2, <1>6, <2>1, JoinedType
  <2>. QED BY <1>3, <2>2
<1>8. ASSUME NEW k \in 1 .. n PROVE more[k] = pages[k]
  BY <1>2, <1>3, <1>6, JoinedAt
<1>9. ASSUME NEW k \in 1 .. c PROVE more[n + k] = new[k]
  BY <1>2, <1>3, <1>6, JoinedAfter
<1>10. \A k \in 1 .. c : IsChunk(more[n + k], title, rows, k, n + k)
  BY <1>4, <1>9, Zenon
<1>11. DOMAIN more = 1 .. n + c /\ more = [k \in 1 .. n + c |-> more[k]]
  BY <1>7
<1>. QED
  BY <1>2, <1>8, <1>10, <1>11 DEF HasGrown

\* The places of the rows when the pages of a title follow each other.
LEMMA RecordsInOrder ==
    ASSUME NEW m \in Nat, NEW R, NEW rows \in [1 .. m -> R],
           \A i, j \in 1 .. m : i # j => rows[i] # rows[j],
           NEW pages, NEW title, NEW n \in Nat,
           PagesOf(pages, title) = n + 1 .. n + Ceiling(m, RecordsPerPage),
           \A k \in 1 .. Ceiling(m, RecordsPerPage) : IsChunk(pages[n + k], title, rows, k, n + k)
    PROVE  RecordsAre(pages, title, rows)
<1>. DEFINE w == RecordsPerPage
            c == Ceiling(m, w)
            leaf(i) == LeafOf(i, w)
            place(i) == PlaceOn(i, w)
            at == [i \in 1 .. m |-> <<n + leaf(i), place(i)>>]
            places == RecordPlaces(pages, title)
            record(p) == pages[p[1]].records[p[2]]
<1>0. Len(rows) = m
  <2>1. rows \in Seq(R)
    BY SeqDef
  <2>. QED BY <2>1, LenProperties, SMT
<1>1. w \in Nat \ {0} /\ c \in Nat
  BY PageCapacity, Ceilings
<1>2. ASSUME NEW k \in 1 .. c
      PROVE  /\ DOMAIN pages[n + k].records = 1 .. ChunkEnd(k, w, m) - (k - 1) * w
             /\ \A j \in 1 .. ChunkEnd(k, w, m) - (k - 1) * w :
                  pages[n + k].records[j] = rows[(k - 1) * w + j]
  BY <1>0, <1>2 DEF IsChunk
<1>3. ASSUME NEW i \in 1 .. m
      PROVE  /\ leaf(i) \in 1 .. c
             /\ place(i) \in 1 .. ChunkEnd(leaf(i), w, m) - (leaf(i) - 1) * w
             /\ (leaf(i) - 1) * w + place(i) = i
  BY <1>1, RowInChunk, ZenonT(40)
<1>4. ASSUME NEW k \in 1 .. c, NEW j \in 1 .. ChunkEnd(k, w, m) - (k - 1) * w
      PROVE  /\ (k - 1) * w + j \in 1 .. m
             /\ leaf((k - 1) * w + j) = k /\ place((k - 1) * w + j) = j
  <2>. DEFINE x == (k - 1) * w
              e == ChunkEnd(k, w, m)
  <2>1. k \in Nat /\ k >= 1 /\ x \in Nat /\ e \in Nat /\ x < e /\ e <= x + w /\ e <= m
    BY <1>1, Chunks, SMT
  <2>2. j \in 1 .. e - x
    BY <1>4
  <2>. HIDE DEF x, e
  <2>3. j \in 1 .. w /\ x + j \in 1 .. m
    BY <1>1, <2>1, <2>2, SMT
  <2>4. LeafOf((k - 1) * w + j, w) = k /\ PlaceOn((k - 1) * w + j, w) = j
    BY <1>1, <2>1, <2>3, ChunkOfRow
  <2>. QED BY <2>3, <2>4 DEF x
<1>14. DOMAIN rows = 1 .. m
  OBVIOUS
<1>. HIDE DEF leaf, place, c
<1>5. ASSUME NEW i \in 1 .. m
      PROVE  /\ at[i] = <<n + leaf(i), place(i)>> /\ at[i] \in places /\ record(at[i]) = rows[i]
             /\ leaf(i) \in Nat /\ place(i) \in Nat
  <2>1. at[i] = <<n + leaf(i), place(i)>>
    OBVIOUS
  <2>2. leaf(i) \in 1 .. c /\ place(i) \in DOMAIN pages[n + leaf(i)].records
    BY <1>2, <1>3
  <2>3. n + leaf(i) \in PagesOf(pages, title)
    <3>1. n + leaf(i) \in n + 1 .. n + c
      BY <1>1, <2>2, SMT
    <3>. QED BY <3>1 DEF c
  <2>4. at[i] \in places
    <3>. DEFINE Of(k) == {<<k, j>> : j \in DOMAIN pages[k].records}
                h == n + leaf(i)
    <3>1. places = UNION {Of(k) : k \in PagesOf(pages, title)}
      BY Zenon DEF RecordPlaces
    <3>2. at[i] \in Of(h)
      BY <2>1, <2>2
    <3>3. h \in PagesOf(pages, title)
      BY <2>3
    <3>. HIDE DEF Of, h, places, at
    <3>. QED BY <3>1, <3>2, <3>3
  <2>5. pages[n + leaf(i)].records[place(i)] = rows[i]
    <3>1. pages[n + leaf(i)].records[place(i)] = rows[(leaf(i) - 1) * w + place(i)]
      BY <1>2, <1>3, <2>2, Zenon
    <3>. QED BY <1>3, <3>1, Zenon
  <2>6. leaf(i) \in Nat /\ place(i) \in Nat
    <3>. DEFINE e == ChunkEnd(leaf(i), w, m) - (leaf(i) - 1) * w
    <3>1. place(i) \in 1 .. e
      BY <1>3
    <3>. HIDE DEF e
    <3>. QED BY <2>2, <3>1
  <2>. QED BY <2>1, <2>4, <2>5, <2>6
<1>6. ASSUME NEW p \in places
      PROVE  \E i \in 1 .. m : at[i] = p
  <2>1. PICK h \in PagesOf(pages, title) : \E j \in DOMAIN pages[h].records : p = <<h, j>>
    BY <1>6, Zenon DEF RecordPlaces
  <2>2. PICK j \in DOMAIN pages[h].records : p = <<h, j>>
    BY <2>1
  <2>3. h \in n + 1 .. n + c
    BY <2>1 DEF c
  <2>. DEFINE k == h - n
  <2>4. k \in 1 .. c /\ h = n + k
    BY <1>1, <2>3, SMT
  <2>. HIDE DEF k
  <2>5. j \in 1 .. ChunkEnd(k, w, m) - (k - 1) * w
    BY <1>2, <2>2, <2>4
  <2>6. /\ (k - 1) * w + j \in 1 .. m
        /\ leaf((k - 1) * w + j) = k /\ place((k - 1) * w + j) = j
    BY <1>4, <2>4, <2>5
  <2>7. at[(k - 1) * w + j] = <<n + k, j>>
    BY <1>5, <2>6
  <2>. QED BY <2>2, <2>4, <2>6, <2>7
<1>8. at \in [1 .. m -> places]
  <2>1. at = [i \in 1 .. m |-> at[i]]
    OBVIOUS
  <2>. HIDE DEF at, places
  <2>. QED BY <1>5, <2>1
<1>. HIDE DEF at, places, record
<1>7. \A i, j \in 1 .. m : i # j => at[i] # at[j]
  BY <1>5
<1>9. Cardinality(places) = m
  <2>. DEFINE N == 1 .. m
  <2>1. at \in Bijection(N, places)
    <3>1. at \in Injection(N, places)
      BY <1>7, <1>8 DEF Injection, IsInjective
    <3>2. at \in Surjection(N, places)
      BY <1>6, <1>8 DEF Surjection
    <3>. QED BY <3>1, <3>2 DEF Bijection
  <2>2. IsFiniteSet(N) /\ Cardinality(N) = m
    <3>1. IsFiniteSet(N) /\ Cardinality(N) = IF 1 > m THEN 0 ELSE m - 1 + 1
      BY FS_Interval
    <3>. HIDE DEF N
    <3>. QED BY <3>1, SMT
  <2>. HIDE DEF N
  <2>3. ExistsBijection(N, places)
    BY <2>1 DEF ExistsBijection
  <2>. QED BY <2>2, <2>3, FS_Bijection
<1>10. {record(p) : p \in places} = ToSet(rows)
  <2>1. ToSet(rows) = {rows[i] : i \in 1 .. m}
    BY DEF ToSet
  <2>. QED BY <1>5, <1>6, <1>8, <2>1
<1>11. ASSUME NEW i \in 1 .. m, NEW j \in 1 .. m, i < j
       PROVE  Before(at[i], at[j])
  <2>. DEFINE a == i - 1
              b == j - 1
  <2>1. a \in Nat /\ b \in Nat /\ a < b
    BY <1>11, SMT
  <2>2. /\ leaf(i) = a \div w + 1 /\ place(i) = (a % w) + 1
        /\ leaf(j) = b \div w + 1 /\ place(j) = (b % w) + 1
    BY DEF leaf, place, LeafOf, PlaceOn
  <2>. HIDE DEF a, b
  <2>. DEFINE qa == a \div w
              ra == a % w
              qb == b \div w
              rb == b % w
  <2>3. /\ ra \in 0 .. w - 1 /\ qa \in Nat /\ a = (w * qa) + ra
        /\ rb \in 0 .. w - 1 /\ qb \in Nat /\ b = (w * qb) + rb
    BY <1>1, <2>1, Quotients
  <2>. HIDE DEF qa, ra, qb, rb
  <2>4. qa <= qb
    <3>1. SUFFICES ASSUME qb + 1 <= qa PROVE FALSE
      BY <2>3, SMT
    <3>2. w * (qb + 1) <= w * qa /\ w * (qb + 1) \in Nat /\ w * qa \in Nat
      BY <1>1, <2>3, <3>1, MoreParts
    <3>3. w * (qb + 1) = w * qb + w /\ w * qb \in Nat
      BY <1>1, <2>3, SMT
    <3>. DEFINE x == w * qa
                y == w * qb
    <3>4. x \in Nat /\ y \in Nat /\ y + w <= x /\ a = x + ra /\ b = y + rb
      BY <2>3, <3>2, <3>3
    <3>. HIDE DEF x, y
    <3>. QED BY <1>1, <2>1, <2>3, <3>4, SMT
  <2>5. qa = qb => ra < rb
    <3>1. SUFFICES ASSUME qa = qb PROVE ra < rb
      OBVIOUS
    <3>2. w * qa \in Nat
      BY <1>1, <2>3, SMT
    <3>. DEFINE x == w * qa
    <3>3. x \in Nat /\ a = x + ra /\ b = x + rb
      BY <2>3, <3>1, <3>2
    <3>. HIDE DEF x
    <3>. QED BY <2>1, <2>3, <3>3, SMT
  <2>6. /\ at[i] = <<n + leaf(i), place(i)>> /\ at[j] = <<n + leaf(j), place(j)>>
        /\ leaf(i) = qa + 1 /\ place(i) = ra + 1 /\ leaf(j) = qb + 1 /\ place(j) = rb + 1
    BY <1>5, <2>2 DEF qa, ra, qb, rb
  <2>7. at[i][1] = n + qa + 1 /\ at[i][2] = ra + 1 /\ at[j][1] = n + qb + 1 /\ at[j][2] = rb + 1
    BY <2>3, <2>6
  <2>. QED BY <1>1, <2>3, <2>4, <2>5, <2>7, SMT DEF Before
<1>12. ASSUME NEW p \in places, NEW o \in places, NEW i \in 1 .. m, NEW j \in 1 .. m,
              record(p) = rows[i], record(o) = rows[j], i < j
       PROVE  Before(p, o)
  <2>1. PICK a \in 1 .. m : at[a] = p
    BY <1>6
  <2>2. PICK b \in 1 .. m : at[b] = o
    BY <1>6
  <2>3. a = i /\ b = j
    BY <1>5, <1>12, <2>1, <2>2
  <2>. QED BY <1>11, <1>12, <2>1, <2>2, <2>3
<1>13. Cardinality(PagesOf(pages, title)) = c
  <2>. DEFINE low == n + 1
              high == n + c
  <2>1. low \in Int /\ high \in Int /\ (IF low > high THEN 0 ELSE high - low + 1) = c
    BY <1>1, SMT
  <2>2. PagesOf(pages, title) = low .. high
    BY DEF c
  <2>. HIDE DEF low, high
  <2>. QED BY <2>1, <2>2, FS_Interval
<1>. QED
  BY <1>0, <1>9, <1>10, <1>12, <1>13, <1>14 DEF RecordsAre, places, c, record

---------------------------------------------------------------------------
(* The bars of a chart: none is longer than the scale, and more hours are   *)
(* never the shorter bar.                                                   *)

LEMMA QuotientsGrow ==
    ASSUME NEW w \in Nat \ {0}, NEW a \in Nat, NEW b \in Nat, a <= b
    PROVE  a \div w <= b \div w
<1>. DEFINE qa == a \div w
            ra == a % w
            qb == b \div w
            rb == b % w
<1>1. /\ ra \in 0 .. w - 1 /\ qa \in Nat /\ a = (w * qa) + ra
      /\ rb \in 0 .. w - 1 /\ qb \in Nat /\ b = (w * qb) + rb
  BY Quotients
<1>. HIDE DEF qa, ra, qb, rb
<1>2. qa <= qb
  <2>1. SUFFICES ASSUME qb + 1 <= qa PROVE FALSE
    BY <1>1, SMT
  <2>2. w * (qb + 1) <= w * qa /\ w * (qb + 1) \in Nat /\ w * qa \in Nat
    BY <1>1, <2>1, MoreParts
  <2>3. w * (qb + 1) = w * qb + w /\ w * qb \in Nat
    BY <1>1, SMT
  <2>. DEFINE x == w * qa
              y == w * qb
  <2>4. x \in Nat /\ y \in Nat /\ y + w <= x /\ a = x + ra /\ b = y + rb
    BY <1>1, <2>2, <2>3
  <2>. HIDE DEF x, y
  <2>. QED BY <1>1, <2>4, SMT
<1>. QED
  BY <1>2 DEF qa, qb

LEMMA GreatestOf ==
    ASSUME NEW S, S # {}, NEW M \in Nat, \A x \in S : x \in Nat /\ x <= M
    PROVE  \E n \in S : \A o \in S : o <= n
<1>. DEFINE f == [x \in S |-> M - x]
<1>1. \A x \in S : f[x] \in Nat
  BY SMT
<1>2. \A x \in S : f[x] = M - x
  OBVIOUS
<1>. HIDE DEF f
<1>3. PICK n \in S : \A o \in S : f[n] <= f[o]
  BY <1>1, LeastValue
<1>4. ASSUME NEW o \in S PROVE o <= n
  <2>1. M - n <= M - o /\ n \in Nat /\ o \in Nat
    BY <1>2, <1>3
  <2>. QED BY <2>1, SMT
<1>. QED
  BY <1>4

LEMMA TermIsAtMostSum ==
    ASSUME NEW S, IsFiniteSet(S), NEW f, \A x \in S : f[x] \in Nat, NEW x \in S
    PROVE  f[x] <= Plus(f, S) /\ Plus(f, S) \in Nat
<1>1. Plus(f, S) = f[x] + Plus(f, S \ {x})
  BY PlusOneAndOthers
<1>2. IsFiniteSet(S \ {x}) /\ \A y \in S \ {x} : f[y] \in Nat
  BY FS_Subset
<1>. DEFINE T == S \ {x}
<1>. HIDE DEF T
<1>3. Plus(f, T) \in Nat
  BY <1>2, PlusTyped DEF T
<1>. QED
  BY <1>1, <1>3, SMT DEF T

LEMMA BarWidths ==
    ASSUME NEW m \in Nat, NEW a \in Nat, NEW b \in Nat, a <= b
    PROVE  /\ BarWidth(a, m) \in Nat /\ BarWidth(a, m) <= BarScale
           /\ BarWidth(a, m) <= BarWidth(b, m)
<1>. DEFINE Product(x) == AtMost(x * BarScale, U32Max)
<1>1. BarScale \in Nat /\ U32Max \in Nat
  BY ReportPresentationAssumption, DesktopReportsAssumption
     DEF ReportPresentationAssumption, DesktopReportsAssumption
<1>2. CASE m = 0
  <2>1. \A x : BarWidth(x, m) = 0
    BY <1>2 DEF BarWidth
  <2>. QED BY <1>1, <2>1, SMT
<1>3. CASE m # 0
  <2>1. BarScale * a <= BarScale * b /\ BarScale * a \in Nat /\ BarScale * b \in Nat
    BY <1>1, MoreParts
  <2>2. BarScale * a = a * BarScale /\ BarScale * b = b * BarScale
    BY <1>1, SMT
  <2>. DEFINE x == a * BarScale
              y == b * BarScale
  <2>3. x \in Nat /\ y \in Nat /\ x <= y
    BY <2>1, <2>2
  <2>. HIDE DEF x, y
  <2>4. /\ AtMost(x, U32Max) \in Nat /\ AtMost(y, U32Max) \in Nat
        /\ AtMost(x, U32Max) <= AtMost(y, U32Max)
    BY <1>1, <2>3, SMT DEF AtMost
  <2>. DEFINE u == AtMost(x, U32Max)
              v == AtMost(y, U32Max)
              p == u \div m
              q == v \div m
  <2>5. u \in Nat /\ v \in Nat /\ u <= v
    BY <2>4
  <2>6. BarWidth(a, m) = AtMost(p, BarScale) /\ BarWidth(b, m) = AtMost(q, BarScale)
    BY <1>3 DEF BarWidth, x, y
  <2>. HIDE DEF u, v
  <2>7. m \in Nat \ {0}
    BY <1>3
  <2>8. p \in Nat /\ q \in Nat /\ p <= q
    <3>1. u \div m \in Nat /\ v \div m \in Nat
      BY <2>5, <2>7, Quotients
    <3>2. u \div m <= v \div m
      BY <2>5, <2>7, QuotientsGrow
    <3>. QED BY <3>1, <3>2
  <2>. HIDE DEF p, q
  <2>. QED BY <1>1, <2>6, <2>8, SMT DEF AtMost
<1>. QED
  BY <1>2, <1>3

\* The bars of some seconds: as many, of the same seconds.
AreBarsOf(bars, n, s) ==
    /\ DOMAIN bars = 1 .. n /\ bars = [i \in 1 .. n |-> bars[i]]
    /\ \A i \in 1 .. n : bars[i].seconds = s[i] /\ bars[i].width <= BarScale
    /\ \A i, j \in 1 .. n : s[i] <= s[j] => bars[i].width <= bars[j].width

LEMMA BarsAreRight ==
    ASSUME NEW n \in Nat, NEW s \in [1 .. n -> Nat]
    PROVE  AreBarsOf(Bars(s), n, s)
<1>. DEFINE S == {0} \cup ToSet(s)
            maximum == CHOOSE x \in S : \A o \in ToSet(s) : o <= x
            bars == Bars(s)
            M == Plus(s, 1 .. n)
<1>1. maximum \in Nat
  <2>1. IsFiniteSet(1 .. n) /\ \A i \in 1 .. n : s[i] \in Nat
    <3>1. IsFiniteSet(1 .. n)
      BY FS_Interval
    <3>. QED BY <3>1
  <2>2. M \in Nat /\ \A i \in 1 .. n : s[i] <= M
    <3>. DEFINE N == 1 .. n
    <3>. HIDE DEF N
    <3>1. Plus(s, N) \in Nat
      BY <2>1, PlusTyped DEF N
    <3>2. \A i \in N : s[i] <= Plus(s, N)
      BY <2>1, TermIsAtMostSum DEF N
    <3>. QED BY <3>1, <3>2 DEF N
  <2>3. \A x \in S : x \in Nat /\ x <= M
    <3>1. ToSet(s) = {s[i] : i \in 1 .. n}
      BY DEF ToSet
    <3>2. 0 <= M
      BY <2>2, SMT
    <3>. HIDE DEF M
    <3>. QED BY <2>1, <2>2, <3>1, <3>2
  <2>4. S # {}
    OBVIOUS
  <2>. HIDE DEF M, S
  <2>5. \E x \in S : \A o \in S : o <= x
    BY <2>2, <2>3, <2>4, GreatestOf
  <2>6. \E x \in S : \A o \in ToSet(s) : o <= x
    BY <2>5 DEF S
  <2>7. maximum \in S
    BY <2>6
  <2>. QED BY <2>3, <2>7
<1>2. bars = [i \in 1 .. n |-> [seconds |-> s[i], width |-> BarWidth(s[i], maximum)]]
  BY DEF Bars
<1>. HIDE DEF bars, maximum
<1>3. DOMAIN bars = 1 .. n /\ bars = [i \in 1 .. n |-> bars[i]]
  BY <1>2
<1>4. \A i \in 1 .. n : bars[i].seconds = s[i] /\ bars[i].width = BarWidth(s[i], maximum)
  BY <1>2
<1>5. \A i \in 1 .. n : s[i] \in Nat /\ s[i] <= s[i]
  BY SMT
<1>6. ASSUME NEW i \in 1 .. n, NEW j \in 1 .. n, s[i] <= s[j]
      PROVE  bars[i].width <= BarScale /\ bars[i].width <= bars[j].width
  <2>1. s[i] \in Nat /\ s[j] \in Nat
    OBVIOUS
  <2>2. BarWidth(s[i], maximum) <= BarScale /\ BarWidth(s[i], maximum) <= BarWidth(s[j], maximum)
    BY <1>1, <1>6, <2>1, BarWidths
  <2>. QED BY <1>4, <2>2
<1>7. \A i \in 1 .. n : bars[i].width <= BarScale
  BY <1>5, <1>6
<1>. QED
  BY <1>3, <1>4, <1>6, <1>7 DEF AreBarsOf, bars

(* The pages of the PDF, one after the other.                               *)

\* A page with its number, not empty and not too full, and bars that can be compared.
FitPage(sheet, k) ==
    /\ sheet.number = k
    /\ sheet.title \notin {"overview", "classification"} => Len(sheet.records) \in 1 .. RecordsPerPage
    /\ \A i, j \in DOMAIN sheet.bars :
         /\ sheet.bars[i].width <= BarScale
         /\ sheet.title = "overview" /\ sheet.bars[i].seconds <= sheet.bars[j].seconds
            => sheet.bars[i].width <= sheet.bars[j].width

IsBook(pages, n) ==
    /\ DOMAIN pages = 1 .. n /\ pages = [k \in 1 .. n |-> pages[k]]
    /\ \A k \in 1 .. n : FitPage(pages[k], k)

\* The pages from front on are those of the rows, and no others have their title.
HasRecords(pages, front, title, rows) ==
    /\ PagesOf(pages, title) = front + 1 .. front + Ceiling(Len(rows), RecordsPerPage)
    /\ \A k \in 1 .. Ceiling(Len(rows), RecordsPerPage) :
         IsChunk(pages[front + k], title, rows, k, front + k)

LEMMA ChunksFit ==
    ASSUME NEW rows, Len(rows) \in Nat, NEW k \in 1 .. Ceiling(Len(rows), RecordsPerPage),
           NEW p, NEW title, NEW number, IsChunk(p, title, rows, k, number)
    PROVE  FitPage(p, number)
<1>. DEFINE w == RecordsPerPage
            from == (k - 1) * w
            to == ChunkEnd(k, w, Len(rows))
<1>1. w \in Nat \ {0}
  BY PageCapacity
<1>2. from \in Nat /\ to \in Nat /\ from < to /\ to <= from + w
  BY <1>1, Chunks
<1>3. p.number = number /\ p.bars = <<>> /\ Len(p.records) = to - from
  BY DEF IsChunk
<1>. HIDE DEF from, to
<1>4. to - from \in 1 .. w
  BY <1>1, <1>2, SMT
<1>. QED
  BY <1>3, <1>4 DEF FitPage

\* Pages after which those of some rows come.
Grows(more, l, pages, n, title, rows) ==
    /\ l \in Nat /\ IsBook(more, l) /\ HasRecords(more, n, title, rows)
    /\ n <= l /\ \A k \in 1 .. n : more[k] = pages[k]
    /\ \A other : other # title => PagesOf(more, other) = PagesOf(pages, other)

LEMMA BookGrows ==
    ASSUME NEW n \in Nat, NEW pages, IsBook(pages, n), NEW title, PagesOf(pages, title) = {},
           NEW m \in Nat, NEW R, NEW rows \in [1 .. m -> R],
           NEW more, more = WithRecords(pages, title, rows)
    PROVE  \E l : Grows(more, l, pages, n, title, rows)
<1>. DEFINE c == Ceiling(m, RecordsPerPage)
            S == {pages[k] : k \in 1 .. n}
<1>0. Len(rows) = m
  BY LengthOf
<1>1. pages \in [1 .. n -> S]
  BY DEF IsBook
<1>. HIDE DEF S
<1>14. HasGrown(more, pages, n, c, title, rows)
  <2>1. c = Ceiling(m, RecordsPerPage)
    OBVIOUS
  <2>. HIDE DEF c
  <2>. QED BY <1>1, <2>1, RecordsAdded
<1>2. /\ c \in Nat /\ \A k \in 1 .. n : more[k] = pages[k]
      /\ \A k \in 1 .. c : IsChunk(more[n + k], title, rows, k, n + k)
  BY <1>14 DEF HasGrown
<1>3. DOMAIN more = 1 .. n + c /\ more = [k \in 1 .. n + c |-> more[k]]
  BY <1>14 DEF HasGrown
<1>4. ASSUME NEW k \in 1 .. n + c, k \notin 1 .. n
      PROVE  k - n \in 1 .. c /\ n + (k - n) = k
  <2>. HIDE DEF c
  <2>. QED BY <1>2, <1>4, SMT
<1>5. ASSUME NEW k \in 1 .. c PROVE n + k \in 1 .. n + c /\ n + k \notin 1 .. n
  <2>. HIDE DEF c
  <2>. QED BY <1>2, SMT
<1>6. \A k \in 1 .. n : k \in 1 .. n + c
  <2>. HIDE DEF c
  <2>. QED BY <1>2, SMT
<1>7. ASSUME NEW k \in 1 .. c
      PROVE  FitPage(more[n + k], n + k) /\ more[n + k].title = title
  <2>1. k \in 1 .. Ceiling(Len(rows), RecordsPerPage) /\ Len(rows) \in Nat
    BY <1>0
  <2>2. IsChunk(more[n + k], title, rows, k, n + k)
    BY <1>2
  <2>3. FitPage(more[n + k], n + k)
    BY <2>1, <2>2, ChunksFit
  <2>. QED BY <2>2, <2>3 DEF IsChunk
<1>8. ASSUME NEW k \in 1 .. n + c PROVE FitPage(more[k], k)
  <2>1. CASE k \in 1 .. n
    BY <1>2, <2>1 DEF IsBook
  <2>2. CASE k \notin 1 .. n
    <3>. HIDE DEF c
    <3>. QED BY <1>4, <1>7, <2>2
  <2>. QED BY <2>1, <2>2
<1>9. IsBook(more, n + c)
  BY <1>3, <1>8 DEF IsBook
<1>10. ASSUME NEW k \in 1 .. n + c
       PROVE  IF k \in 1 .. n THEN more[k].title = pages[k].title /\ more[k].title # title
              ELSE more[k].title = title
  <2>1. CASE k \in 1 .. n
    <3>1. more[k] = pages[k]
      BY <1>2, <2>1
    <3>2. pages[k].title # title
      BY <2>1 DEF PagesOf, IsBook
    <3>. QED BY <2>1, <3>1, <3>2
  <2>2. CASE k \notin 1 .. n
    <3>. HIDE DEF c
    <3>. QED BY <1>4, <1>7, <2>2
  <2>. QED BY <2>1, <2>2
<1>11. PagesOf(more, title) = n + 1 .. n + c
  <2>1. PagesOf(more, title) = {k \in 1 .. n + c : k \notin 1 .. n}
    BY <1>3, <1>10 DEF PagesOf
  <2>. HIDE DEF c
  <2>2. {k \in 1 .. n + c : k \notin 1 .. n} = n + 1 .. n + c
    BY <1>2, SMT
  <2>. QED BY <2>1, <2>2
<1>12. ASSUME NEW other, other # title PROVE PagesOf(more, other) = PagesOf(pages, other)
  <2>1. DOMAIN pages = 1 .. n
    BY DEF IsBook
  <2>2. \A k \in 1 .. n + c : more[k].title = other <=> k \in 1 .. n /\ pages[k].title = other
    BY <1>10, <1>12
  <2>. HIDE DEF c
  <2>. QED BY <1>3, <1>6, <2>1, <2>2 DEF PagesOf
<1>13. HasRecords(more, n, title, rows)
  BY <1>0, <1>2, <1>11 DEF HasRecords
<1>. HIDE DEF c
<1>15. n + c \in Nat /\ n <= n + c
  BY <1>2, SMT
<1>16. Grows(more, n + c, pages, n, title, rows)
  BY <1>2, <1>9, <1>12, <1>13, <1>15 DEF Grows
<1>. QED
  BY <1>16

\* Later pages leave the records that there are where they are.
LEMMA RecordsStay ==
    ASSUME NEW pages, NEW more, NEW n \in Nat, DOMAIN pages = 1 .. n,
           NEW front \in Nat, NEW title, NEW rows, Len(rows) \in Nat,
           HasRecords(pages, front, title, rows),
           \A k \in 1 .. n : more[k] = pages[k], PagesOf(more, title) = PagesOf(pages, title)
    PROVE  HasRecords(more, front, title, rows)
<1>. DEFINE c == Ceiling(Len(rows), RecordsPerPage)
<1>1. c \in Nat
  BY PageCapacity, Ceilings
<1>2. ASSUME NEW k \in 1 .. c PROVE more[front + k] = pages[front + k]
  <2>. HIDE DEF c
  <2>1. front + k \in front + 1 .. front + c
    BY <1>1, SMT
  <2>2. front + k \in PagesOf(pages, title)
    BY <2>1 DEF HasRecords, c
  <2>3. front + k \in 1 .. n
    BY <2>2 DEF PagesOf
  <2>. QED BY <2>3
<1>3. \A k \in 1 .. c : IsChunk(more[front + k], title, rows, k, front + k)
  BY <1>2 DEF HasRecords
<1>. QED
  BY <1>3 DEF HasRecords

LEMMA RecordsOfPages ==
    ASSUME NEW m \in Nat, NEW R, NEW rows \in [1 .. m -> R],
           \A i, j \in 1 .. m : i # j => rows[i] # rows[j],
           NEW pages, NEW title, NEW front \in Nat, HasRecords(pages, front, title, rows)
    PROVE  RecordsAre(pages, title, rows)
<1>1. Len(rows) = m
  BY LengthOf
<1>2. /\ PagesOf(pages, title) = front + 1 .. front + Ceiling(m, RecordsPerPage)
      /\ \A k \in 1 .. Ceiling(m, RecordsPerPage) :
           IsChunk(pages[front + k], title, rows, k, front + k)
  BY <1>1 DEF HasRecords
<1>. QED
  BY <1>2, RecordsInOrder

---------------------------------------------------------------------------
(* What the sheets and the pages of an exported document rest on, with the  *)
(* figures that its tables share.                                           *)

IsSlices(s) ==
    /\ Len(s) \in Nat /\ DOMAIN s = 1 .. Len(s) /\ s = [i \in 1 .. Len(s) |-> s[i]]
    /\ \A i \in 1 .. Len(s) : s[i].seconds \in Nat

IsByWeek(weeks, d) ==
    /\ DOMAIN weeks = 0 .. WeekCount(d) - 1
    /\ \A i \in 0 .. WeekCount(d) - 1 : weeks[i] \in Nat

IsSupported(d) ==
    /\ IsTabled(d) /\ TablesAccountForHours(d)
    /\ d.scope \in {"individual", "team"} /\ d.total \in Nat
    /\ WeekCount(d) \in Nat \ {0}
    /\ DOMAIN d.days = d.period.from .. d.period.to
    /\ \A k \in d.period.from .. d.period.to : d.days[k] \in Nat
    /\ IsByWeek(d.weeks, d) /\ \A m \in DOMAIN d.members : IsByWeek(d.members[m].weeks, d)
    /\ IsSlices(d.taskSlices) /\ IsSlices(d.categorySlices) /\ IsSlices(d.statusSlices)

LEMMA WeeksFollow ==
    ASSUME NEW p, p.from \in Nat, p.to \in Nat, p.from <= p.to
    PROVE  /\ Cardinality(DOMAIN ReportWeeks(p)) \in Nat \ {0}
           /\ DOMAIN ReportWeeks(p) = 0 .. Cardinality(DOMAIN ReportWeeks(p)) - 1
<1>. DEFINE a == p.from - (p.from % 7)
            extent == p.to - a
            q == extent \div 7
            r == extent % 7
            D == DOMAIN ReportWeeks(p)
<1>2. a \in Nat /\ a <= p.to
  <2>1. p.from % 7 \in Nat /\ p.from % 7 <= p.from
    BY SMT
  <2>. QED BY <2>1, SMT
<1>1. D = {k \in 0 .. p.to : a + 7 * k <= p.to}
  <2>. DEFINE E == {k \in 0 .. p.to : a + 7 * k <= p.to}
  <2>1. DOMAIN ReportWeeks(p) = E
    BY DEF ReportWeeks
  <2>. QED BY <2>1
<1>. HIDE DEF a
<1>3. extent \in Nat /\ extent = p.to - a
  BY <1>2, SMT
<1>. HIDE DEF extent
<1>4. r \in 0 .. 6 /\ q \in Nat /\ extent = (7 * q) + r
  BY <1>3, SMT
<1>. HIDE DEF q, r
<1>5. D = 0 .. q
  <2>1. \A k \in 0 .. p.to : a + 7 * k <= p.to => k \in 0 .. q
    BY <1>2, <1>3, <1>4, SMT
  <2>2. \A k \in 0 .. q : k \in 0 .. p.to /\ a + 7 * k <= p.to
    BY <1>2, <1>3, <1>4, SMT
  <2>. HIDE DEF D
  <2>. QED BY <1>1, <2>1, <2>2
<1>6. Cardinality(D) = q + 1
  <2>1. 0 \in Int /\ q \in Int /\ (IF 0 > q THEN 0 ELSE q - 0 + 1) = q + 1
    BY <1>4, SMT
  <2>2. Cardinality(0 .. q) = IF 0 > q THEN 0 ELSE q - 0 + 1
    BY <2>1, FS_Interval
  <2>. HIDE DEF D
  <2>. QED BY <1>5, <2>1, <2>2
<1>7. q + 1 \in Nat \ {0} /\ (q + 1) - 1 = q
  BY <1>4, SMT
<1>. HIDE DEF D
<1>8. Cardinality(D) \in Nat \ {0} /\ D = 0 .. Cardinality(D) - 1
  BY <1>5, <1>6, <1>7
<1>. QED
  BY <1>8 DEF D

LEMMA SlicesInSequence ==
    ASSUME NEW f, IsFiniteSet(DOMAIN f), \A x \in DOMAIN f : f[x] \in Nat
    PROVE  IsSlices(Slices(f))
<1>. DEFINE keys == Ranked(f)
            n == Len(keys)
            maximum == IF MaxSlices < 2 THEN 2 ELSE MaxSlices
            largest == IF n <= maximum THEN n ELSE maximum - 1
            rest == {keys[i] : i \in largest + 1 .. n}
            slice(k, v) == [label |-> k, seconds |-> v, percentage |-> Percentage(v, SumOf(f))]
            a == [i \in 1 .. largest |-> slice(keys[i], f[keys[i]])]
            b == slice(Other, SumOf([k \in rest |-> f[k]]))
            last == IF rest = {} THEN <<>> ELSE <<b>>
            S == {a[i] : i \in 1 .. largest} \cup {b}
            s == Slices(f)
<1>0. n \in Nat
  BY RankedKeys
<1>1. s = a \o last
  BY DEF Slices
<1>2. largest \in Nat
  <2>1. maximum \in Nat /\ maximum >= 2
    BY DesktopReportsAssumption, SMT DEF DesktopReportsAssumption
  <2>. HIDE DEF n, maximum
  <2>. QED BY <1>0, <2>1, SMT
<1>. HIDE DEF largest
<1>3. a \in [1 .. largest -> S] /\ b \in S
  OBVIOUS
<1>. HIDE DEF a, b, S, rest, s
<1>4. a \in Seq(S) /\ last \in Seq(S)
  BY <1>2, <1>3, SeqDef
<1>. HIDE DEF last
<1>5. s \in Seq(S)
  BY <1>1, <1>4, ConcatProperties
<1>6. Len(s) \in Nat /\ DOMAIN s = 1 .. Len(s) /\ s \in [1 .. Len(s) -> S]
  BY <1>5, LenProperties
<1>7. PICK L, N : IsSlicing(f, s, Ranked(f), L, N)
  BY <1>0, SlicesAreSlicing DEF s
<1>8. DOMAIN s = 1 .. N /\ \A i \in 1 .. N : [j \in DOMAIN s |-> s[j].seconds][i] \in Nat
  BY <1>7, SlicesAddUp
<1>9. \A i \in 1 .. Len(s) : s[i].seconds \in Nat
  BY <1>6, <1>8
<1>10. IsSlices(s)
  BY <1>6, <1>9 DEF IsSlices
<1>. QED
  BY <1>10 DEF s

LEMMA DocumentIsSupported ==
    ASSUME NEW p, p.from \in Nat, p.to \in Nat, p.from <= p.to,
           NEW members, IsFiniteSet(members), NEW hours, hours \subseteq Hours,
           NEW scope \in {"individual", "team"}, NEW filters,
           NEW d, d = Document(scope, p, members, hours, filters), TablesAccountForHours(d)
    PROVE  IsSupported(d)
<1>1. /\ d.scope = scope /\ d.period = p /\ d.total = HoursIn(hours)
      /\ d.days = By(p.from .. p.to, "day", hours) /\ d.weeks = ByWeek(p, hours)
      /\ d.taskSlices = Slices(By({h.task : h \in hours}, "task", hours))
      /\ d.categorySlices = Slices(By({h.category : h \in hours}, "category", hours))
      /\ d.statusSlices = Slices(By({h.status : h \in hours}, "status", hours))
      /\ d.members = MemberRows(p, members, hours)
  BY DEF Document
<1>2. IsTabled(d)
  BY DocumentIsTabled
<1>3. IsFiniteSet(hours)
  BY HoursTyped, FS_Subset
<1>4. ASSUME NEW piece, piece \subseteq hours PROVE HoursIn(piece) \in Nat
  BY <1>4, HoursArePlus
<1>5. ASSUME NEW keys, NEW field
      PROVE  DOMAIN By(keys, field, hours) = keys /\ \A k \in keys : By(keys, field, hours)[k] \in Nat
  <2>. DEFINE Of(k) == {h \in hours : h[field] = k}
  <2>1. By(keys, field, hours) = [k \in keys |-> HoursIn(Of(k))]
    BY DEF By
  <2>2. \A k : Of(k) \subseteq hours
    OBVIOUS
  <2>. HIDE DEF Of
  <2>3. \A k : HoursIn(Of(k)) \in Nat
    BY <1>4, <2>2
  <2>. QED BY <2>1, <2>3
<1>6. ASSUME NEW keys, IsFiniteSet(keys), NEW field PROVE IsSlices(Slices(By(keys, field, hours)))
  <2>. DEFINE f == By(keys, field, hours)
  <2>1. DOMAIN f = keys /\ \A k \in keys : f[k] \in Nat
    BY <1>5
  <2>. HIDE DEF f
  <2>2. IsSlices(Slices(f))
    BY <1>6, <2>1, SlicesInSequence
  <2>. QED BY <2>2 DEF f
<1>7. /\ IsFiniteSet({h.task : h \in hours}) /\ IsFiniteSet({h.category : h \in hours})
      /\ IsFiniteSet({h.status : h \in hours})
  <2>1. {h.task : h \in hours} = {[x \in hours |-> x.task][h] : h \in hours}
    OBVIOUS
  <2>2. {h.category : h \in hours} = {[x \in hours |-> x.category][h] : h \in hours}
    OBVIOUS
  <2>3. {h.status : h \in hours} = {[x \in hours |-> x.status][h] : h \in hours}
    OBVIOUS
  <2>4. \A f : IsFiniteSet({f[h] : h \in hours})
    BY <1>3, FiniteImage
  <2>. QED BY <2>1, <2>2, <2>3, <2>4
<1>8. IsSlices(d.taskSlices) /\ IsSlices(d.categorySlices) /\ IsSlices(d.statusSlices)
  <2>. DEFINE tasks == {h.task : h \in hours}
              categories == {h.category : h \in hours}
              states == {h.status : h \in hours}
  <2>. HIDE DEF tasks, categories, states
  <2>. QED BY <1>1, <1>6, <1>7 DEF tasks, categories, states
<1>9. WeekCount(d) \in Nat \ {0} /\ DOMAIN ReportWeeks(p) = 0 .. WeekCount(d) - 1
  BY <1>1, WeeksFollow DEF WeekCount
<1>10. ASSUME NEW piece, piece \subseteq hours PROVE IsByWeek(ByWeek(p, piece), d)
  <2>. DEFINE weeks == ReportWeeks(p)
              Of(i) == Within(weeks[i], piece)
  <2>1. ByWeek(p, piece) = [i \in DOMAIN weeks |-> HoursIn(Of(i))]
    BY DEF ByWeek
  <2>2. \A i : Of(i) \subseteq hours
    BY <1>10 DEF Within
  <2>. HIDE DEF Of
  <2>3. \A i : HoursIn(Of(i)) \in Nat
    BY <1>4, <2>2
  <2>. QED BY <1>9, <2>1, <2>3 DEF IsByWeek
<1>11. IsByWeek(d.weeks, d)
  BY <1>1, <1>10
<1>12. ASSUME NEW m \in DOMAIN d.members PROVE IsByWeek(d.members[m].weeks, d)
  <2>. DEFINE own == {h \in hours : h.author = m}
  <2>1. d.members[m].weeks = ByWeek(p, own)
    BY <1>1 DEF MemberRows
  <2>2. own \subseteq hours
    OBVIOUS
  <2>. QED BY <1>10, <2>1, <2>2
<1>13. d.total \in Nat
  BY <1>1, <1>4
<1>14. DOMAIN d.days = p.from .. p.to /\ \A k \in p.from .. p.to : d.days[k] \in Nat
  <2>. DEFINE days == p.from .. p.to
  <2>. HIDE DEF days
  <2>1. d.days = By(days, "day", hours)
    BY <1>1 DEF days
  <2>2. DOMAIN d.days = days /\ \A k \in days : d.days[k] \in Nat
    BY <1>5, <2>1
  <2>. QED BY <2>2 DEF days
<1>. QED
  BY <1>1, <1>2, <1>8, <1>9, <1>11, <1>12, <1>13, <1>14 DEF IsSupported

LEMMA CompleteReportsAreSupported ==
    ASSUME NEW d, IsOfCompleteReport(d)
    PROVE  IsSupported(d)
<1>1. ASSUME NEW p \in Periods, d = PersonalDocument(p)
      PROVE  IsSupported(d)
  <2>. DEFINE hours == {h \in Within(p, Hours) : h.author = User}
              members == {User}
  <2>1. IsFiniteSet(members) /\ hours \subseteq Hours
    BY FS_Singleton DEF Within
  <2>2. d = Document("individual", p, members, hours, NoFilters)
    BY <1>1 DEF PersonalDocument
  <2>3. TablesAccountForHours(d)
    BY <1>1, PersonalAddsUp
  <2>. HIDE DEF hours, members
  <2>. QED BY <2>1, <2>2, <2>3, ChosenPeriods, DocumentIsSupported
<1>2. ASSUME NEW p \in Periods, NEW filters \in Filters, d = TeamDocument(p, Within(p, Hours), filters)
      PROVE  IsSupported(d)
  <2>. DEFINE all == Within(p, Hours)
              hours == ShownHours(all, filters)
              members == ShownMembers(all, filters)
  <2>1. hours \subseteq Hours
    BY DEF ShownHours, Within
  <2>2. IsFiniteSet(members)
    BY FiniteShownMembers
  <2>3. d = Document("team", p, members, hours, filters)
    BY <1>2 DEF TeamDocument
  <2>4. TablesAccountForHours(d)
    BY <1>2, TeamAddsUp
  <2>. HIDE DEF hours, members, all
  <2>. QED BY <2>1, <2>2, <2>3, <2>4, ChosenPeriods, DocumentIsSupported
<1>. QED
  BY <1>1, <1>2 DEF IsOfCompleteReport

---------------------------------------------------------------------------
(* Sums of the same terms under other names, of parts, and of one row of    *)
(* terms after another.                                                     *)

\* The terms of f under the names of T.
Renames(g, T, S, h, f) ==
    /\ \A t \in T : g[t] \in S /\ h[t] = f[g[t]]
    /\ \A t, u \in T : t # u => g[t] # g[u]
    /\ \A x \in S : \E t \in T : g[t] = x

LEMMA PlusReindexed ==
    ASSUME NEW S, IsFiniteSet(S), NEW T, IsFiniteSet(T), NEW f, \A x \in S : f[x] \in Nat,
           NEW g, NEW h, Renames(g, T, S, h, f)
    PROVE  Plus(h, T) = Plus(f, S)
<1>. USE DEF Renames
<1>. DEFINE group == [x \in S |-> CHOOSE t \in T : g[t] = x]
            F == [t \in T |-> Plus(f, {x \in S : group[x] = t})]
<1>1. \A x \in S : group[x] \in T /\ g[group[x]] = x
  OBVIOUS
<1>. HIDE DEF group
<1>2. Plus(F, T) = Plus(f, S)
  BY <1>1, PlusByGroups
<1>3. ASSUME NEW t \in T PROVE F[t] = f[g[t]]
  <2>. DEFINE y == g[t]
  <2>1. y \in S /\ f[y] \in Nat
    OBVIOUS
  <2>2. {x \in S : group[x] = t} = {y}
    BY <1>1
  <2>3. F[t] = Plus(f, {x \in S : group[x] = t})
    OBVIOUS
  <2>. HIDE DEF y
  <2>4. Plus(f, {y}) = f[y]
    BY <2>1, PlusOfOne
  <2>. QED BY <2>2, <2>3, <2>4 DEF y
<1>4. \A t \in T : h[t] \in Nat /\ h[t] = F[t]
  <2>1. ASSUME NEW t \in T PROVE h[t] \in Nat /\ h[t] = F[t]
    <3>1. h[t] = f[g[t]] /\ g[t] \in S
      OBVIOUS
    <3>2. F[t] = f[g[t]]
      BY <1>3
    <3>. QED BY <3>1, <3>2
  <2>. QED BY <2>1
<1>. HIDE DEF F
<1>5. Plus(h, T) = Plus(F, T)
  BY <1>4, PlusAgrees
<1>. QED
  BY <1>2, <1>5

LEMMA PlusOfParts ==
    ASSUME NEW A, IsFiniteSet(A), NEW B, IsFiniteSet(B), A \cap B = {},
           NEW f, \A x \in A \cup B : f[x] \in Nat
    PROVE  Plus(f, A \cup B) = Plus(f, A) + Plus(f, B)
<1>. DEFINE D == {1, 2}
            S == A \cup B
            group == [x \in S |-> IF x \in A THEN 1 ELSE 2]
            F == [d \in D |-> Plus(f, {x \in S : group[x] = d})]
<1>1. IsFiniteSet(D) /\ D \ {1} = {2} /\ 1 \in D /\ 2 \in D
  <2>1. IsFiniteSet({1}) /\ IsFiniteSet({2}) /\ D = {1} \cup {2}
    BY FS_Singleton
  <2>2. IsFiniteSet({1} \cup {2})
    BY <2>1, FS_Union
  <2>. QED BY <2>1, <2>2
<1>2. IsFiniteSet(S)
  BY FS_Union
<1>3. \A x \in S : group[x] \in D
  OBVIOUS
<1>4. {x \in S : group[x] = 1} = A /\ {x \in S : group[x] = 2} = B
  <2>1. \A x \in S : (group[x] = 1 <=> x \in A) /\ (group[x] = 2 <=> x \notin A)
    OBVIOUS
  <2>. HIDE DEF group
  <2>. QED BY <2>1
<1>5. F[1] = Plus(f, A) /\ F[2] = Plus(f, B)
  BY <1>4
<1>6. Plus(F, D) = Plus(f, S)
  <2>. HIDE DEF D, S, group
  <2>1. \A x \in S : f[x] \in Nat
    BY DEF S
  <2>. QED BY <1>1, <1>2, <1>3, <2>1, PlusByGroups
<1>7. Plus(f, A) \in Nat /\ Plus(f, B) \in Nat
  BY PlusTyped
<1>. HIDE DEF F
<1>8. \A d \in D : F[d] \in Nat
  BY <1>5, <1>7
<1>. HIDE DEF D
<1>9. Plus(F, D) = F[1] + Plus(F, D \ {1})
  BY <1>1, <1>8, PlusOneAndOthers
<1>10. Plus(F, {2}) = F[2]
  BY <1>1, <1>8, PlusOfOne
<1>. QED
  BY <1>1, <1>5, <1>6, <1>9, <1>10 DEF S

IsJoined(c, n, a, m, b) ==
    /\ DOMAIN c = 1 .. n + m /\ c = [k \in 1 .. n + m |-> c[k]]
    /\ \A i \in 1 .. n : c[i] = a[i]
    /\ \A i \in 1 .. m : c[n + i] = b[i]

LEMMA RowsJoined ==
    ASSUME NEW n \in Nat, NEW m \in Nat, NEW S, NEW a \in [1 .. n -> S], NEW b \in [1 .. m -> S],
           NEW c, c = a \o b
    PROVE  IsJoined(c, n, a, m, b)
<1>1. a \o b \in [1 .. n + m -> S]
  BY JoinedType
<1>2. \A i \in 1 .. n : (a \o b)[i] = a[i]
  BY JoinedAt
<1>3. ASSUME NEW i \in 1 .. m PROVE (a \o b)[n + i] = b[i]
  BY JoinedAfter
<1>. QED
  BY <1>1, <1>2, <1>3 DEF IsJoined

LEMMA PlusOfJoined ==
    ASSUME NEW n \in Nat, NEW m \in Nat,
           NEW a \in [1 .. n -> Nat], NEW b \in [1 .. m -> Nat],
           NEW c, IsJoined(c, n, a, m, b), NEW l, l = n + m
    PROVE  Plus(c, 1 .. l) = Plus(a, 1 .. n) + Plus(b, 1 .. m)
<1>. DEFINE A == 1 .. n
            B == n + 1 .. n + m
            M == 1 .. m
            g == [i \in M |-> n + i]
<1>1. /\ A \cap B = {} /\ A \cup B = 1 .. n + m
      /\ \A k \in B : k - n \in M /\ n + (k - n) = k
      /\ \A i \in M : n + i \in B
  BY SMT
<1>2. IsFiniteSet(A) /\ IsFiniteSet(B) /\ IsFiniteSet(M)
  <2>1. IsFiniteSet(A)
    BY FS_Interval
  <2>2. IsFiniteSet(B)
    <3>1. n + 1 \in Int /\ n + m \in Int
      BY SMT
    <3>. QED BY <3>1, FS_Interval
  <2>3. IsFiniteSet(M)
    BY FS_Interval
  <2>. QED BY <2>1, <2>2, <2>3
<1>3. \A i \in A : a[i] \in Nat /\ c[i] = a[i]
  BY DEF IsJoined
<1>4. \A i \in M : g[i] = n + i /\ g[i] \in B
  BY <1>1
<1>5. \A i, j \in M : i # j => g[i] # g[j]
  BY SMT
<1>6. \A k \in B : \E i \in M : g[i] = k
  <2>. HIDE DEF B, M
  <2>. QED BY <1>1
<1>7. \A i \in M : b[i] \in Nat /\ b[i] = c[g[i]]
  BY DEF IsJoined
<1>8. \A k \in A \cup B : c[k] \in Nat
  <2>. HIDE DEF A, B, M, g
  <2>. QED BY <1>3, <1>6, <1>7
<1>. HIDE DEF A, B, M, g
<1>9. Plus(c, A \cup B) = Plus(c, A) + Plus(c, B)
  BY <1>1, <1>2, <1>8, PlusOfParts, SMTT(90)
<1>10. Plus(a, A) = Plus(c, A)
  BY <1>2, <1>3, PlusAgrees
<1>11. Plus(b, M) = Plus(c, B)
  <2>1. Renames(g, M, B, b, c)
    BY <1>4, <1>5, <1>6, <1>7 DEF Renames
  <2>2. \A k \in B : c[k] \in Nat
    BY <1>8
  <2>. QED BY <1>2, <2>1, <2>2, PlusReindexed
<1>. QED
  BY <1>1, <1>9, <1>10, <1>11 DEF A, M

LEMMA SumOfJoined ==
    ASSUME NEW n \in Nat, NEW m \in Nat, NEW a \in [1 .. n -> Nat], NEW b \in [1 .. m -> Nat],
           NEW c, IsJoined(c, n, a, m, b)
    PROVE  SumOf(c) = Plus(a, 1 .. n) + Plus(b, 1 .. m)
<1>1. PICK l \in Nat : l = n + m
  BY SMT
<1>2. Plus(c, 1 .. l) = Plus(a, 1 .. n) + Plus(b, 1 .. m)
  BY <1>1, PlusOfJoined, SMTT(30)
<1>3. DOMAIN c = 1 .. l
  BY <1>1 DEF IsJoined
<1>4. SumOf(c) = Plus(c, 1 .. l)
  BY <1>3, SumOfIsPlus
<1>. QED
  BY <1>2, <1>4

\* A last term more.
HasLast(c, n, a, r) == c \in [1 .. n + 1 -> Nat] /\ Plus(c, 1 .. n + 1) = Plus(a, 1 .. n) + r

LEMMA PlusOfLast ==
    ASSUME NEW n \in Nat, NEW a \in [1 .. n -> Nat], NEW r \in Nat, NEW c, c = a \o <<r>>
    PROVE  HasLast(c, n, a, r)
<1>. DEFINE N == 1 .. n
            E == 1 .. n + 1
<1>1. DOMAIN c = E /\ (\A i \in N : c[i] = a[i]) /\ c[n + 1] = r
  BY WithLast
<1>2. c \in [E -> Nat]
  <2>. DEFINE b == <<r>>
  <2>1. b \in [1 .. 1 -> Nat] /\ 1 \in Nat
    OBVIOUS
  <2>. HIDE DEF b
  <2>2. a \o b \in [1 .. n + 1 -> Nat]
    BY <2>1, JoinedType
  <2>. QED BY <2>2 DEF b
<1>3. IsFiniteSet(E) /\ n + 1 \in E /\ E \ {n + 1} = N
  <2>1. n + 1 \in Int
    BY SMT
  <2>2. IsFiniteSet(E)
    BY <2>1, FS_Interval
  <2>3. n + 1 \in E /\ E \ {n + 1} = N
    BY SMT
  <2>. QED BY <2>2, <2>3
<1>4. \A i \in N : a[i] \in Nat /\ a[i] = c[i]
  BY <1>1
<1>. DEFINE last == n + 1
<1>. HIDE DEF N, E, last
<1>5. Plus(c, E) = c[last] + Plus(c, E \ {last})
  BY <1>2, <1>3, PlusOneAndOthers, ZenonT(40) DEF last
<1>6. IsFiniteSet(N)
  BY <1>3, FS_Subset
<1>7. Plus(a, N) = Plus(c, N) /\ Plus(a, N) \in Nat
  BY <1>4, <1>6, PlusAgrees, PlusTyped
<1>8. Plus(c, E) = Plus(a, N) + r
  <2>1. Plus(c, E) = r + Plus(a, N)
    BY <1>1, <1>3, <1>5, <1>7 DEF last
  <2>. QED BY <1>7, <2>1, SMT
<1>. QED
  BY <1>2, <1>8 DEF N, E, HasLast

---------------------------------------------------------------------------
(* The rows of the tables, and the hours of the members' rows.              *)

AreRows(rows) ==
    /\ Len(rows) \in Nat /\ DOMAIN rows = 1 .. Len(rows) /\ rows = [i \in 1 .. Len(rows) |-> rows[i]]
    /\ \A i, j \in 1 .. Len(rows) : i # j => rows[i] # rows[j]

LEMMA TaskRowsDiffer ==
    ASSUME NEW d, IsTabled(d), NEW rows, rows = TaskRows(d)
    PROVE  /\ AreRows(rows)
           /\ \A i \in 1 .. Len(rows) : rows[i].seconds \in Nat
<1>. DEFINE keys == Ranked(d.tasks)
            n == Len(keys)
<1>1. IsFiniteSet(DOMAIN d.tasks) /\ \A k \in DOMAIN d.tasks : d.tasks[k] \in Nat
  BY DEF IsTabled
<1>2. /\ n \in Nat /\ keys \in [1 .. n -> DOMAIN d.tasks]
      /\ \A i, j \in 1 .. n : i # j => keys[i] # keys[j]
  BY <1>1, RankedKeys
<1>3. DOMAIN keys = 1 .. n
  BY <1>2
<1>4. /\ DOMAIN rows = 1 .. n /\ rows = [i \in 1 .. n |-> rows[i]]
      /\ \A i \in 1 .. n : rows[i].task = keys[i] /\ rows[i].seconds = d.tasks[keys[i]]
  <2>. DEFINE Row(i) == [task |-> keys[i], seconds |-> d.tasks[keys[i]],
                         entries |-> Cardinality({h \in d.sources : h.task = keys[i]})]
  <2>1. rows = [i \in DOMAIN keys |-> Row(i)]
    BY DEF TaskRows
  <2>2. \A i : Row(i).task = keys[i] /\ Row(i).seconds = d.tasks[keys[i]]
    OBVIOUS
  <2>. HIDE DEF keys, n, Row
  <2>. QED BY <1>3, <2>1, <2>2
<1>. HIDE DEF keys, n
<1>5. Len(rows) = n
  BY <1>2, <1>4, LengthOf
<1>6. \A i \in 1 .. n : rows[i].seconds \in Nat
  BY <1>1, <1>2, <1>4
<1>7. \A i, j \in 1 .. n : i # j => rows[i] # rows[j]
  BY <1>2, <1>4
<1>. QED
  BY <1>2, <1>4, <1>5, <1>6, <1>7 DEF AreRows

LEMMA SourceRowsDiffer ==
    ASSUME NEW d, IsTabled(d), NEW rows, rows = SourceRows(d)
    PROVE  AreRows(rows) /\ \A i \in 1 .. Len(rows) : rows[i] \in d.sources
<1>. DEFINE S == d.sources
            n == Cardinality(S)
<1>1. IsFiniteSet(S)
  BY DEF IsTabled
<1>2. rows \in [1 .. n -> S] /\ Len(rows) = n /\ n \in Nat
  BY <1>1, SourcesInSequence, FS_CardinalityType DEF SourceRows
<1>3. \E g \in [1 .. n -> S] : IsInjective(g)
  <2>1. PICK k \in Nat : ExistsBijection(1 .. k, S)
    BY <1>1, FS_NatBijection
  <2>2. n = k
    BY <2>1, FS_CountingElements
  <2>3. ExistsBijection(1 .. n, S)
    BY <2>1, <2>2
  <2>. HIDE DEF n, S
  <2>. QED BY <2>3 DEF ExistsBijection, Bijection, Injection
<1>4. IsInjective(rows)
  BY <1>3 DEF SourceRows, SetToSeq
<1>5. \A i, j \in 1 .. n : i # j => rows[i] # rows[j]
  BY <1>2, <1>4 DEF IsInjective
<1>. QED
  BY <1>2, <1>5 DEF AreRows

\* The members with their hours, which are the document's.
AreMemberRows(d, rows) ==
    /\ AreRows(rows) /\ Len(rows) = Cardinality(DOMAIN d.members)
    /\ \A i \in 1 .. Len(rows) :
         /\ rows[i].seconds \in Nat /\ IsByWeek(rows[i].weeks, d)
         /\ rows[i].seconds = SumOf(rows[i].weeks)
    /\ Plus([i \in 1 .. Len(rows) |-> rows[i].seconds], 1 .. Len(rows)) = d.total

LEMMA MemberRowsDiffer ==
    ASSUME NEW d, IsSupported(d), NEW rows, rows = RankedMembers(d)
    PROVE  AreMemberRows(d, rows)
<1>. DEFINE totals == [m \in DOMAIN d.members |-> d.members[m].total]
            keys == Ranked(totals)
            n == Len(keys)
            N == 1 .. n
            D == DOMAIN d.members
<1>1. /\ IsFiniteSet(D) /\ DOMAIN totals = D
      /\ \A m \in D : totals[m] \in Nat /\ totals[m] = d.members[m].total
  BY DEF IsSupported, IsTabled
<1>2. /\ n \in Nat /\ keys \in [N -> D]
      /\ \A i, j \in N : i # j => keys[i] # keys[j]
      /\ \A k \in D : \E i \in N : keys[i] = k
  <2>. HIDE DEF totals
  <2>. QED BY <1>1, RankedKeys
<1>3. DOMAIN keys = N
  BY <1>2
<1>4. /\ DOMAIN rows = N /\ rows = [i \in N |-> rows[i]]
      /\ \A i \in N : /\ rows[i].member = keys[i] /\ rows[i].seconds = d.members[keys[i]].total
                      /\ rows[i].weeks = d.members[keys[i]].weeks
  <2>. DEFINE Row(i) == [member |-> keys[i], seconds |-> d.members[keys[i]].total,
                         entries |-> d.members[keys[i]].entries, weeks |-> d.members[keys[i]].weeks,
                         days |-> Cardinality({h.day : h \in {h \in d.sources : h.author = keys[i]}}),
                         tasks |-> Cardinality({h.task : h \in {h \in d.sources : h.author = keys[i]}})]
  <2>1. rows = [i \in DOMAIN keys |-> Row(i)]
    BY DEF RankedMembers
  <2>2. \A i : /\ Row(i).member = keys[i] /\ Row(i).seconds = d.members[keys[i]].total
               /\ Row(i).weeks = d.members[keys[i]].weeks
    OBVIOUS
  <2>. HIDE DEF keys, N, Row
  <2>. QED BY <1>3, <2>1, <2>2
<1>. HIDE DEF keys, totals
<1>5. Len(rows) = n
  <2>. HIDE DEF n
  <2>. QED BY <1>2, <1>4, LengthOf DEF N
<1>6. n = Cardinality(D)
  <2>1. IsFiniteSet(N) /\ Cardinality(N) = n
    <3>1. IsFiniteSet(N)
      BY <1>2, FS_Interval
    <3>2. Cardinality(N) = IF 1 > n THEN 0 ELSE n - 1 + 1
      BY <1>2, FS_Interval
    <3>. HIDE DEF n, N
    <3>. QED BY <1>2, <3>1, <3>2, SMT
  <2>. HIDE DEF n, N
  <2>2. keys \in Bijection(N, D)
    BY <1>2 DEF Bijection, Injection, Surjection, IsInjective
  <2>3. ExistsBijection(N, D)
    BY <2>2 DEF ExistsBijection
  <2>. QED BY <2>1, <2>3, FS_Bijection
<1>7. \A m \in D : d.members[m].total = SumOf(d.members[m].weeks) /\ IsByWeek(d.members[m].weeks, d)
  BY DEF IsSupported, TablesAccountForHours
<1>8. \A i \in N : /\ rows[i].seconds \in Nat /\ IsByWeek(rows[i].weeks, d)
                   /\ rows[i].seconds = SumOf(rows[i].weeks)
  <2>1. \A i \in N : keys[i] \in D
    BY <1>2
  <2>. HIDE DEF N, D
  <2>. QED BY <1>1, <1>4, <1>7, <2>1
<1>9. \A i, j \in N : i # j => rows[i] # rows[j]
  BY <1>2, <1>4
<1>10. Plus([i \in N |-> rows[i].seconds], N) = d.total
  <2>. DEFINE h == [i \in N |-> rows[i].seconds]
  <2>1. \A i \in N : h[i] = totals[keys[i]]
    BY <1>1, <1>2, <1>4
  <2>2. IsFiniteSet(N)
    BY <1>2, FS_Interval
  <2>3. /\ \A i \in N : keys[i] \in D
        /\ \A i, j \in N : i # j => keys[i] # keys[j]
        /\ \A k \in D : \E i \in N : keys[i] = k
    BY <1>2
  <2>. HIDE DEF h, N, n, D
  <2>4. Plus(h, N) = Plus(totals, D)
    <3>1. Renames(keys, N, D, h, totals)
      BY <2>1, <2>3 DEF Renames
    <3>. QED BY <1>1, <2>2, <3>1, PlusReindexed
  <2>5. SumOf(totals) = Plus(totals, D)
    BY <1>1, SumOfIsPlus
  <2>6. SumOf(totals) = d.total
    BY DEF IsSupported, TablesAccountForHours, totals
  <2>. QED BY <2>4, <2>5, <2>6 DEF h
<1>. HIDE DEF n
<1>. QED
  BY <1>2, <1>4, <1>5, <1>6, <1>8, <1>9, <1>10 DEF AreMemberRows, AreRows, N, D

---------------------------------------------------------------------------
(* The pages of the PDF of a supported document.                            *)

LEMMA ChartedMembers ==
    ASSUME NEW d, IsSupported(d), NEW s, s = MemberSlices(d)
    PROVE  \E n \in Nat : s \in [1 .. n -> Nat] /\ Plus(s, 1 .. n) = d.total
<1>. DEFINE rows == RankedMembers(d)
            N == Len(rows)
            maximum == IF MaxChartMembers < 2 THEN 2 ELSE MaxChartMembers
            largest == IF N <= maximum THEN N ELSE maximum - 1
            t == [i \in 1 .. N |-> rows[i].seconds]
            a == [i \in 1 .. largest |-> rows[i].seconds]
            u == [i \in largest + 1 .. N |-> rows[i].seconds]
            rest == SumOf(u)
<1>1. AreMemberRows(d, rows)
  BY MemberRowsDiffer
<1>2. /\ N \in Nat /\ \A i \in 1 .. N : rows[i].seconds \in Nat
      /\ Plus(t, 1 .. N) = d.total
  BY <1>1 DEF AreMemberRows, AreRows
<1>3. s = a \o (IF largest = N THEN <<>> ELSE <<rest>>)
  BY DEF MemberSlices
<1>4. largest \in Nat /\ largest <= N
  <2>1. maximum \in Nat /\ maximum >= 2
    BY ReportPresentationAssumption, SMT DEF ReportPresentationAssumption
  <2>. HIDE DEF N, maximum
  <2>. QED BY <1>2, <2>1, SMT
<1>. HIDE DEF rows, N, largest
<1>5. a \in [1 .. largest -> Nat]
  <2>1. \A i \in 1 .. largest : i \in 1 .. N
    BY <1>2, <1>4, SMT
  <2>. QED BY <1>2, <2>1
<1>6. CASE largest = N
  <2>1. a = t
    BY <1>6
  <2>2. a \o <<>> = a
    <3>. HIDE DEF a
    <3>. QED BY <1>4, <1>5, WithoutLast
  <2>3. s = t /\ t \in [1 .. N -> Nat]
    BY <1>3, <1>5, <1>6, <2>1, <2>2
  <2>. QED BY <1>2, <2>3
<1>7. CASE largest # N
  <2>. DEFINE b == <<rest>>
              A == 1 .. largest
              B == largest + 1 .. N
  <2>1. /\ A \cap B = {} /\ A \cup B = 1 .. N
        /\ (\A i \in A : i \in 1 .. N) /\ \A i \in B : i \in 1 .. N
    BY <1>2, <1>4, SMT
  <2>2. IsFiniteSet(A) /\ IsFiniteSet(B)
    <3>1. IsFiniteSet(A)
      BY <1>4, FS_Interval
    <3>2. largest + 1 \in Int
      BY <1>4, SMT
    <3>3. IsFiniteSet(B)
      BY <1>2, <3>2, FS_Interval
    <3>. QED BY <3>1, <3>3
  <2>3. \A i \in A \cup B : t[i] \in Nat
    BY <1>2, <2>1
  <2>4. \A i \in A : a[i] \in Nat /\ a[i] = t[i]
    BY <2>1, <2>3
  <2>5. \A i \in B : u[i] \in Nat /\ u[i] = t[i]
    BY <2>1, <2>3
  <2>6. DOMAIN u = B
    OBVIOUS
  <2>7. rest = Plus(u, B)
    <3>. HIDE DEF u, B
    <3>. QED BY <2>6, SumOfIsPlus
  <2>8. s = a \o b
    BY <1>3, <1>7
  <2>. HIDE DEF a, u, t, rest, b, A, B
  <2>10. Plus(t, A \cup B) = Plus(t, A) + Plus(t, B)
    BY <2>1, <2>2, <2>3, PlusOfParts
  <2>11. Plus(a, A) = Plus(t, A) /\ Plus(u, B) = Plus(t, B)
    BY <2>2, <2>4, <2>5, PlusAgrees
  <2>12. rest \in Nat
    BY <2>2, <2>5, <2>7, PlusTyped
  <2>13. largest \in Nat /\ a \in [1 .. largest -> Nat] /\ s = a \o <<rest>>
    BY <1>4, <1>5, <2>8 DEF b
  <2>14. /\ s \in [1 .. largest + 1 -> Nat]
         /\ Plus(s, 1 .. largest + 1) = Plus(a, 1 .. largest) + rest
    <3>1. PICK k, f, r : k = largest /\ f = a /\ r = rest
      OBVIOUS
    <3>2. k \in Nat /\ f \in [1 .. k -> Nat] /\ r \in Nat /\ s = f \o <<r>>
      BY <2>12, <2>13, <3>1
    <3>3. HasLast(s, k, f, r)
      BY <3>2, PlusOfLast
    <3>. QED BY <3>1, <3>3 DEF HasLast
  <2>15. Plus(s, 1 .. largest + 1) = d.total
    BY <1>2, <2>1, <2>7, <2>10, <2>11, <2>14 DEF A
  <2>16. largest + 1 \in Nat
    BY <1>4, SMT
  <2>. QED BY <2>14, <2>15, <2>16
<1>. QED
  BY <1>6, <1>7

LEMMA SumOfBars ==
    ASSUME NEW n \in Nat, NEW s \in [1 .. n -> Nat], NEW bars, AreBarsOf(bars, n, s)
    PROVE  SumOf([i \in DOMAIN bars |-> bars[i].seconds]) = Plus(s, 1 .. n)
<1>. DEFINE h == [i \in DOMAIN bars |-> bars[i].seconds]
            N == 1 .. n
<1>1. DOMAIN h = N /\ \A i \in N : s[i] \in Nat /\ s[i] = h[i]
  BY DEF AreBarsOf
<1>2. IsFiniteSet(N)
  BY FS_Interval
<1>. HIDE DEF h, N
<1>3. Plus(s, N) = Plus(h, N)
  BY <1>1, <1>2, PlusAgrees
<1>4. SumOf(h) = Plus(h, N)
  BY <1>1, SumOfIsPlus
<1>. QED
  BY <1>3, <1>4 DEF h, N

\* Bars of one classification after those of another.
AreBarsOfBoth(bars, n, s, m, t) ==
    /\ \A i \in DOMAIN bars : bars[i].width <= BarScale
    /\ SumOf([i \in DOMAIN bars |-> bars[i].seconds]) = Plus(s, 1 .. n) + Plus(t, 1 .. m)

LEMMA JoinedBars ==
    ASSUME NEW n \in Nat, NEW s \in [1 .. n -> Nat], NEW a, AreBarsOf(a, n, s),
           NEW m \in Nat, NEW t \in [1 .. m -> Nat], NEW b, AreBarsOf(b, m, t),
           NEW bars, bars = a \o b
    PROVE  AreBarsOfBoth(bars, n, s, m, t)
<1>. DEFINE S == {a[i] : i \in 1 .. n} \cup {b[i] : i \in 1 .. m}
            N == 1 .. n + m
<1>h. PICK h : h = [i \in DOMAIN bars |-> bars[i].seconds]
  OBVIOUS
<1>1. a \in [1 .. n -> S] /\ b \in [1 .. m -> S]
  BY DEF AreBarsOf
<1>. HIDE DEF S
<1>2. IsJoined(bars, n, a, m, b)
  BY <1>1, RowsJoined
<1>3. \A i \in 1 .. n : bars[i] = a[i]
  BY <1>2 DEF IsJoined
<1>4. \A i \in 1 .. m : bars[n + i] = b[i]
  BY <1>2 DEF IsJoined
<1>5. \A k \in N : k \in 1 .. n \/ \E i \in 1 .. m : k = n + i
  <2>1. ASSUME NEW k \in N, k \notin 1 .. n PROVE k - n \in 1 .. m /\ k = n + (k - n)
    BY <2>1, SMT
  <2>. QED BY <2>1
<1>6. \A i \in 1 .. n : i \in N
  BY SMT
<1>7. DOMAIN bars = N
  BY <1>2 DEF IsJoined
<1>8. \A i \in DOMAIN bars : bars[i].width <= BarScale
  BY <1>3, <1>4, <1>5, <1>7 DEF AreBarsOf
<1>9. \A i \in 1 .. n : h[i] = s[i]
  BY <1>h, <1>3, <1>6, <1>7 DEF AreBarsOf
<1>10. \A i \in 1 .. m : h[n + i] = t[i]
  <2>1. ASSUME NEW i \in 1 .. m PROVE h[n + i] = t[i]
    <3>1. n + i \in DOMAIN bars
      BY <1>7, SMT
    <3>2. bars[n + i].seconds = t[i]
      BY <1>4 DEF AreBarsOf
    <3>. QED BY <1>h, <3>1, <3>2
  <2>. QED BY <2>1
<1>11. DOMAIN h = N /\ h = [k \in N |-> h[k]]
  BY <1>h, <1>7
<1>12. IsJoined(h, n, s, m, t)
  BY <1>9, <1>10, <1>11 DEF IsJoined
<1>13. SumOf(h) = Plus(s, 1 .. n) + Plus(t, 1 .. m)
  BY <1>12, SumOfJoined, ZenonT(90)
<1>. QED
  BY <1>h, <1>8, <1>13 DEF AreBarsOfBoth

LEMMA BarsOfSlices ==
    ASSUME NEW d, NEW s, IsSlices(s), d.total = SumOf([i \in DOMAIN s |-> s[i].seconds])
    PROVE  \E n \in Nat : /\ SliceSeconds(s) \in [1 .. n -> Nat]
                          /\ AreBarsOf(Bars(SliceSeconds(s)), n, SliceSeconds(s))
                          /\ Plus(SliceSeconds(s), 1 .. n) = d.total
<1>. DEFINE n == Len(s)
            f == SliceSeconds(s)
<1>1. n \in Nat /\ f \in [1 .. n -> Nat] /\ f = [i \in DOMAIN s |-> s[i].seconds]
  BY DEF IsSlices, SliceSeconds
<1>. HIDE DEF n, f
<1>2. AreBarsOf(Bars(f), n, f)
  BY <1>1, BarsAreRight
<1>3. SumOf(f) = Plus(f, 1 .. n)
  <2>1. DOMAIN f = 1 .. n
    BY <1>1
  <2>. QED BY <2>1, SumOfIsPlus
<1>. QED
  BY <1>1, <1>2, <1>3 DEF f

---------------------------------------------------------------------------
(* The first pages of the PDF, and the records that follow them.            *)

\* The first pages: each in its place, and without records.
IsOpening(pages, n) ==
    IsBook(pages, n) /\ \A k \in 1 .. n : pages[k].title \in {"overview", "classification"}

LEMMA PersonalOpening ==
    ASSUME NEW d, IsTabled(d), NEW pages, pages = <<PersonalOverview(d)>>
    PROVE  IsOpening(pages, 1)
<1>. DEFINE rows == TaskRows(d)
            n == AtMost(Len(rows), MaxTaskBars)
            s == [i \in 1 .. n |-> rows[i].seconds]
            sheet == PersonalOverview(d)
<1>1. AreRows(rows) /\ \A i \in 1 .. Len(rows) : rows[i].seconds \in Nat
  BY TaskRowsDiffer
<1>2. sheet.number = 1 /\ sheet.title = "overview" /\ sheet.bars = Bars(s)
  BY DEF PersonalOverview, PdfPage
<1>. HIDE DEF rows
<1>3. n \in Nat /\ n <= Len(rows) /\ Len(rows) \in Nat
  <2>1. MaxTaskBars \in Nat
    BY ReportPresentationAssumption DEF ReportPresentationAssumption
  <2>2. Len(rows) \in Nat
    BY <1>1 DEF AreRows
  <2>. QED BY <2>1, <2>2, SMT DEF AtMost
<1>. HIDE DEF n
<1>4. s \in [1 .. n -> Nat]
  <2>1. \A i \in 1 .. n : i \in 1 .. Len(rows)
    BY <1>3, SMT
  <2>. QED BY <1>1, <2>1
<1>. HIDE DEF s, sheet
<1>5. AreBarsOf(sheet.bars, n, s)
  BY <1>2, <1>3, <1>4, BarsAreRight
<1>6. FitPage(sheet, 1)
  BY <1>2, <1>5 DEF FitPage, AreBarsOf
<1>7. DOMAIN pages = 1 .. 1 /\ pages = [k \in 1 .. 1 |-> pages[k]] /\ pages[1] = sheet
  BY DEF sheet
<1>8. \A k \in 1 .. 1 : k = 1
  OBVIOUS
<1>. QED
  BY <1>2, <1>6, <1>7, <1>8 DEF IsOpening, IsBook

\* The hours of the bars of a page.
BarHours(sheet) == SumOf([i \in DOMAIN sheet.bars |-> sheet.bars[i].seconds])

LEMMA MembersPage ==
    ASSUME NEW d, IsSupported(d),
           NEW sheet, sheet = PdfPage("overview", TeamMetrics(d),
                                      IF d.total = 0 THEN <<>> ELSE Bars(MemberSlices(d)), <<>>, 1)
    PROVE  FitPage(sheet, 1) /\ (d.total # 0 => BarHours(sheet) = d.total)
<1>1. sheet.number = 1 /\ sheet.title = "overview"
      /\ sheet.bars = (IF d.total = 0 THEN <<>> ELSE Bars(MemberSlices(d)))
  BY DEF PdfPage
<1>2. CASE d.total = 0
  BY <1>1, <1>2 DEF FitPage
<1>3. CASE d.total # 0
  <2>1. PICK s : s = MemberSlices(d)
    OBVIOUS
  <2>2. PICK n \in Nat : s \in [1 .. n -> Nat] /\ Plus(s, 1 .. n) = d.total
    BY <2>1, ChartedMembers
  <2>3. AreBarsOf(Bars(s), n, s)
    BY <2>2, BarsAreRight
  <2>4. PICK bars : bars = sheet.bars
    OBVIOUS
  <2>5. AreBarsOf(bars, n, s)
    BY <1>1, <1>3, <2>1, <2>3, <2>4
  <2>6. SumOf([i \in DOMAIN bars |-> bars[i].seconds]) = Plus(s, 1 .. n)
    BY <2>2, <2>5, SumOfBars
  <2>7. BarHours(sheet) = d.total
    BY <2>2, <2>4, <2>6 DEF BarHours
  <2>8. FitPage(sheet, 1)
    BY <1>1, <2>4, <2>5 DEF FitPage, AreBarsOf
  <2>. QED BY <2>7, <2>8
<1>. QED
  BY <1>2, <1>3

LEMMA ClassificationPage ==
    ASSUME NEW d, IsSupported(d),
           NEW sheet, sheet = PdfPage("classification", <<>>,
                                      Bars(SliceSeconds(d.categorySlices))
                                      \o Bars(SliceSeconds(d.statusSlices)), <<>>, 2)
    PROVE  FitPage(sheet, 2) /\ BarHours(sheet) = d.total + d.total
<1>1. PICK a, b, bars : /\ a = Bars(SliceSeconds(d.categorySlices))
                        /\ b = Bars(SliceSeconds(d.statusSlices)) /\ bars = a \o b
  OBVIOUS
<1>2. sheet.number = 2 /\ sheet.title = "classification" /\ sheet.bars = bars
  BY <1>1 DEF PdfPage
<1>3. /\ d.total = SumOf([i \in DOMAIN d.categorySlices |-> d.categorySlices[i].seconds])
      /\ d.total = SumOf([i \in DOMAIN d.statusSlices |-> d.statusSlices[i].seconds])
      /\ IsSlices(d.categorySlices) /\ IsSlices(d.statusSlices)
  BY DEF IsSupported, TablesAccountForHours
<1>4. PICK n \in Nat : /\ SliceSeconds(d.categorySlices) \in [1 .. n -> Nat]
                       /\ AreBarsOf(a, n, SliceSeconds(d.categorySlices))
                       /\ Plus(SliceSeconds(d.categorySlices), 1 .. n) = d.total
  BY <1>1, <1>3, BarsOfSlices
<1>5. PICK m \in Nat : /\ SliceSeconds(d.statusSlices) \in [1 .. m -> Nat]
                       /\ AreBarsOf(b, m, SliceSeconds(d.statusSlices))
                       /\ Plus(SliceSeconds(d.statusSlices), 1 .. m) = d.total
  BY <1>1, <1>3, BarsOfSlices
<1>6. PICK s, t : s = SliceSeconds(d.categorySlices) /\ t = SliceSeconds(d.statusSlices)
  OBVIOUS
<1>7. /\ s \in [1 .. n -> Nat] /\ AreBarsOf(a, n, s) /\ t \in [1 .. m -> Nat] /\ AreBarsOf(b, m, t)
  BY <1>4, <1>5, <1>6
<1>8. AreBarsOfBoth(bars, n, s, m, t)
  BY <1>1, <1>7, JoinedBars
<1>. QED
  BY <1>2, <1>4, <1>5, <1>6, <1>8 DEF FitPage, BarHours, AreBarsOfBoth

LEMMA TeamOpening ==
    ASSUME NEW d, IsSupported(d), NEW pages, pages = TeamOverview(d)
    PROVE  \E n \in Nat : /\ IsOpening(pages, n)
                          /\ d.total # 0 => /\ n = 2 /\ BarHours(pages[1]) = d.total
                                            /\ BarHours(pages[2]) = d.total + d.total
<1>1. PICK front : front = PdfPage("overview", TeamMetrics(d),
                                   IF d.total = 0 THEN <<>> ELSE Bars(MemberSlices(d)), <<>>, 1)
  OBVIOUS
<1>2. PICK second : second = PdfPage("classification", <<>>,
                                     Bars(SliceSeconds(d.categorySlices))
                                     \o Bars(SliceSeconds(d.statusSlices)), <<>>, 2)
  OBVIOUS
<1>3. pages = <<front>> \o (IF d.total = 0 THEN <<>> ELSE <<second>>)
  BY <1>1, <1>2 DEF TeamOverview
<1>4. FitPage(front, 1) /\ (d.total # 0 => BarHours(front) = d.total)
  BY <1>1, MembersPage
<1>5. FitPage(second, 2) /\ BarHours(second) = d.total + d.total
  BY <1>2, ClassificationPage
<1>6. front.title = "overview" /\ second.title = "classification"
  BY <1>1, <1>2 DEF PdfPage
<1>7. CASE d.total = 0
  <2>1. pages = <<front>>
    BY <1>3, <1>7
  <2>2. DOMAIN pages = 1 .. 1 /\ pages = [k \in 1 .. 1 |-> pages[k]] /\ pages[1] = front
    BY <2>1
  <2>3. \A k \in 1 .. 1 : k = 1
    OBVIOUS
  <2>4. IsOpening(pages, 1)
    BY <1>4, <1>6, <2>2, <2>3 DEF IsOpening, IsBook
  <2>. QED BY <1>7, <2>4
<1>8. CASE d.total # 0
  <2>1. PICK a, b, S : a = <<front>> /\ b = <<second>> /\ S = {front, second}
    OBVIOUS
  <2>5. pages = a \o b
    BY <1>3, <1>8, <2>1
  <2>6. /\ a \in [1 .. 1 -> S] /\ a[1] = front /\ b \in [1 .. 1 -> S] /\ b[1] = second
        /\ 1 \in Nat
    BY <2>1
  <2>7. IsJoined(pages, 1, a, 1, b)
    BY <2>5, <2>6, RowsJoined
  <2>8. 1 + 1 = 2 /\ 1 \in 1 .. 1
    BY SMT
  <2>2. DOMAIN pages = 1 .. 2 /\ pages = [k \in 1 .. 2 |-> pages[k]]
        /\ pages[1] = front /\ pages[2] = second
    BY <2>6, <2>7, <2>8 DEF IsJoined
  <2>3. \A k \in 1 .. 2 : k = 1 \/ k = 2
    OBVIOUS
  <2>4. IsOpening(pages, 2)
    BY <1>4, <1>5, <1>6, <2>2, <2>3 DEF IsOpening, IsBook
  <2>. QED BY <1>4, <1>5, <1>8, <2>2, <2>4
<1>. QED
  BY <1>7, <1>8

LEMMA OpeningHasNoRecords ==
    ASSUME NEW pages, NEW n, IsOpening(pages, n), NEW title, title \notin {"overview", "classification"}
    PROVE  PagesOf(pages, title) = {}
BY DEF IsOpening, IsBook, PagesOf

LEMMA RowsAdded ==
    ASSUME NEW n \in Nat, NEW pages, IsBook(pages, n), NEW title, PagesOf(pages, title) = {},
           NEW rows, AreRows(rows), NEW more, more = WithRecords(pages, title, rows)
    PROVE  \E l : Grows(more, l, pages, n, title, rows)
<1>1. PICK m \in Nat : m = Len(rows)
  BY DEF AreRows
<1>2. PICK R : R = {rows[i] : i \in 1 .. m}
  OBVIOUS
<1>3. rows \in [1 .. m -> R]
  BY <1>1, <1>2 DEF AreRows
<1>. QED
  BY <1>3, BookGrows

LEMMA RowsStay ==
    ASSUME NEW n \in Nat, NEW l, NEW pages, IsBook(pages, n), NEW title, NEW rows, AreRows(rows),
           NEW more, Grows(more, l, pages, n, title, rows),
           NEW front \in Nat, NEW other, other # title, NEW earlier, AreRows(earlier),
           HasRecords(pages, front, other, earlier)
    PROVE  HasRecords(more, front, other, earlier)
<1>1. /\ DOMAIN pages = 1 .. n /\ \A k \in 1 .. n : more[k] = pages[k]
      /\ PagesOf(more, other) = PagesOf(pages, other)
  BY DEF Grows, IsBook
<1>2. Len(earlier) \in Nat
  BY DEF AreRows
<1>. QED
  BY <1>1, <1>2, RecordsStay

LEMMA RowsAreRecords ==
    ASSUME NEW rows, AreRows(rows), NEW pages, NEW title, NEW front \in Nat,
           HasRecords(pages, front, title, rows)
    PROVE  RecordsAre(pages, title, rows)
<1>1. PICK m \in Nat : m = Len(rows)
  BY DEF AreRows
<1>2. PICK R : R = {rows[i] : i \in 1 .. m}
  OBVIOUS
<1>3. rows \in [1 .. m -> R] /\ \A i, j \in 1 .. m : i # j => rows[i] # rows[j]
  BY <1>1, <1>2 DEF AreRows
<1>. QED
  BY <1>3, RecordsOfPages

---------------------------------------------------------------------------
(* The PDF of a supported document is right.                                *)

LEMMA PersonalPagesAreRight ==
    ASSUME NEW d, IsSupported(d), NEW pages, pages = PersonalPages(d)
    PROVE  /\ \E n \in Nat : IsBook(pages, n)
           /\ RecordsAre(pages, "tasks", TaskRows(d)) /\ RecordsAre(pages, "sources", SourceRows(d))
<1>1. PICK opening, tasks, sources, book :
             /\ opening = <<PersonalOverview(d)>> /\ tasks = TaskRows(d) /\ sources = SourceRows(d)
             /\ book = WithRecords(opening, "tasks", tasks)
  OBVIOUS
<1>2. pages = WithRecords(book, "sources", sources)
  BY <1>1 DEF PersonalPages
<1>3. AreRows(tasks) /\ AreRows(sources)
  BY <1>1, TaskRowsDiffer, SourceRowsDiffer DEF IsSupported
<1>4. IsOpening(opening, 1) /\ 1 \in Nat
  BY <1>1, PersonalOpening DEF IsSupported
<1>5. IsBook(opening, 1) /\ PagesOf(opening, "tasks") = {} /\ PagesOf(opening, "sources") = {}
  BY <1>4, OpeningHasNoRecords DEF IsOpening
<1>6. PICK n : Grows(book, n, opening, 1, "tasks", tasks)
  BY <1>1, <1>3, <1>4, <1>5, RowsAdded
<1>7. n \in Nat /\ IsBook(book, n) /\ HasRecords(book, 1, "tasks", tasks) /\ PagesOf(book, "sources") = {}
  BY <1>5, <1>6 DEF Grows
<1>8. PICK l : Grows(pages, l, book, n, "sources", sources)
  BY <1>2, <1>3, <1>7, RowsAdded
<1>9. HasRecords(pages, 1, "tasks", tasks)
  BY <1>3, <1>4, <1>7, <1>8, RowsStay
<1>10. l \in Nat /\ IsBook(pages, l) /\ HasRecords(pages, n, "sources", sources)
  BY <1>8 DEF Grows
<1>11. RecordsAre(pages, "tasks", tasks) /\ RecordsAre(pages, "sources", sources)
  BY <1>3, <1>4, <1>7, <1>9, <1>10, RowsAreRecords
<1>. QED
  BY <1>1, <1>10, <1>11

LEMMA TeamPagesAreRight ==
    ASSUME NEW d, IsSupported(d), NEW pages, pages = TeamPages(d)
    PROVE  /\ \E n \in Nat : IsBook(pages, n)
           /\ RecordsAre(pages, "members", RankedMembers(d))
           /\ RecordsAre(pages, "tasks", TaskRows(d)) /\ RecordsAre(pages, "sources", SourceRows(d))
           /\ d.total # 0 => /\ BarHours(pages[1]) = d.total
                             /\ BarHours(pages[2]) = d.total + d.total
<1>1. PICK opening, members, tasks, sources, front, second :
             /\ opening = TeamOverview(d) /\ members = RankedMembers(d)
             /\ tasks = TaskRows(d) /\ sources = SourceRows(d)
             /\ front = WithRecords(opening, "members", members)
             /\ second = WithRecords(front, "tasks", tasks)
  OBVIOUS
<1>2. pages = WithRecords(second, "sources", sources)
  BY <1>1 DEF TeamPages
<1>3. AreRows(members) /\ AreRows(tasks) /\ AreRows(sources)
  <2>1. AreMemberRows(d, members)
    BY <1>1, MemberRowsDiffer
  <2>. QED BY <1>1, <2>1, TaskRowsDiffer, SourceRowsDiffer DEF IsSupported, AreMemberRows
<1>4. PICK k \in Nat : /\ IsOpening(opening, k)
                       /\ d.total # 0 => /\ k = 2 /\ BarHours(opening[1]) = d.total
                                         /\ BarHours(opening[2]) = d.total + d.total
  BY <1>1, TeamOpening
<1>5. /\ IsBook(opening, k) /\ PagesOf(opening, "members") = {}
      /\ PagesOf(opening, "tasks") = {} /\ PagesOf(opening, "sources") = {}
  BY <1>4, OpeningHasNoRecords DEF IsOpening
<1>6. PICK n : Grows(front, n, opening, k, "members", members)
  BY <1>1, <1>3, <1>5, RowsAdded
<1>7. /\ n \in Nat /\ IsBook(front, n) /\ HasRecords(front, k, "members", members)
      /\ PagesOf(front, "tasks") = {} /\ PagesOf(front, "sources") = {}
      /\ k <= n /\ \A i \in 1 .. k : front[i] = opening[i]
  BY <1>5, <1>6 DEF Grows
<1>8. PICK m : Grows(second, m, front, n, "tasks", tasks)
  BY <1>1, <1>3, <1>7, RowsAdded
<1>9. /\ m \in Nat /\ IsBook(second, m) /\ HasRecords(second, n, "tasks", tasks)
      /\ PagesOf(second, "sources") = {}
      /\ n <= m /\ \A i \in 1 .. n : second[i] = front[i]
  BY <1>7, <1>8 DEF Grows
<1>10. HasRecords(second, k, "members", members)
  BY <1>3, <1>7, <1>8, RowsStay
<1>11. PICK l : Grows(pages, l, second, m, "sources", sources)
  BY <1>2, <1>3, <1>9, RowsAdded
<1>12. /\ l \in Nat /\ IsBook(pages, l) /\ HasRecords(pages, m, "sources", sources)
       /\ \A i \in 1 .. m : pages[i] = second[i]
  BY <1>11 DEF Grows
<1>13. HasRecords(pages, k, "members", members)
  BY <1>3, <1>9, <1>10, <1>11, RowsStay
<1>14. HasRecords(pages, n, "tasks", tasks)
  BY <1>3, <1>7, <1>9, <1>11, RowsStay
<1>15. /\ RecordsAre(pages, "members", members) /\ RecordsAre(pages, "tasks", tasks)
       /\ RecordsAre(pages, "sources", sources)
  BY <1>3, <1>7, <1>9, <1>12, <1>13, <1>14, RowsAreRecords
<1>16. ASSUME d.total # 0 PROVE pages[1] = opening[1] /\ pages[2] = opening[2]
  <2>1. k = 2 /\ 2 <= n /\ 2 <= m
    BY <1>4, <1>7, <1>9, <1>16, SMT
  <2>2. 1 \in 1 .. k /\ 2 \in 1 .. k /\ 1 \in 1 .. n /\ 2 \in 1 .. n /\ 1 \in 1 .. m /\ 2 \in 1 .. m
    BY <1>7, <1>9, <2>1, SMT
  <2>. QED BY <1>7, <1>9, <1>12, <2>2
<1>. QED
  BY <1>1, <1>4, <1>12, <1>15, <1>16

LEMMA PagesAreRight ==
    ASSUME NEW d, IsSupported(d)
    PROVE  PdfIsRight(d)
<1>1. PICK pages : pages = PdfPages(d)
  OBVIOUS
<1>2. pages = (IF d.scope = "individual" THEN PersonalPages(d) ELSE TeamPages(d))
  BY <1>1 DEF PdfPages
<1>3. d.total \in Nat /\ d.scope \in {"individual", "team"}
  BY DEF IsSupported
<1>4. /\ \E n \in Nat : IsBook(pages, n)
      /\ RecordsAre(pages, "tasks", TaskRows(d)) /\ RecordsAre(pages, "sources", SourceRows(d))
      /\ d.scope = "team" =>
           /\ RecordsAre(pages, "members", RankedMembers(d))
           /\ d.total # 0 => /\ BarHours(pages[1]) = d.total
                             /\ BarHours(pages[2]) = d.total + d.total
  BY <1>2, <1>3, PersonalPagesAreRight, TeamPagesAreRight
<1>5. PICK n \in Nat : IsBook(pages, n)
  BY <1>4
<1>6. \A k \in DOMAIN pages : FitPage(pages[k], k)
  BY <1>5 DEF IsBook
<1>7. ASSUME d.scope = "team", NEW k \in {1, 2}, d.total > 0
      PROVE  SumOf([i \in DOMAIN pages[k].bars |-> pages[k].bars[i].seconds]) = k * d.total
  <2>1. d.total # 0 /\ 1 * d.total = d.total /\ 2 * d.total = d.total + d.total
    BY <1>3, <1>7, SMT
  <2>2. BarHours(pages[k]) = k * d.total
    BY <1>4, <1>7, <2>1
  <2>. QED BY <2>2 DEF BarHours
<1>8. /\ \A k \in DOMAIN pages :
           /\ pages[k].number = k
           /\ pages[k].title \notin {"overview", "classification"} =>
                  Len(pages[k].records) \in 1 .. RecordsPerPage
           /\ \A i, j \in DOMAIN pages[k].bars :
                /\ pages[k].bars[i].width <= BarScale
                /\ pages[k].title = "overview" /\ pages[k].bars[i].seconds <= pages[k].bars[j].seconds
                   => pages[k].bars[i].width <= pages[k].bars[j].width
  BY <1>6 DEF FitPage
<1>. QED
  BY <1>1, <1>4, <1>7, <1>8 DEF PdfIsRight

\* Every page of an exported PDF has its number, is neither empty nor too full, and
\* draws the longer bar for the more hours; the records that follow the first pages are
\* the rows, each in one place, none left out and in their order; and the bars of the
\* members and of the classifications are of all the hours.
THEOREM ExportedPdfsAreRight == DeskSpec => [](Exporting => PdfIsRight(page.document))
<1>1. ExportsAreComplete => (Exporting => PdfIsRight(page.document))
  BY CompleteReportsAreSupported, PagesAreRight DEF ExportsAreComplete
<1>. QED
  BY <1>1, ExportsAreOfCompleteReports, PTL

---------------------------------------------------------------------------
(* The cells of a sheet: where they are, and that no two are in one place.  *)

Cell(row, column, value) == [row |-> row, column |-> column, value |-> value]

Box(top, bottom, left, right) ==
    [top |-> top, bottom |-> bottom, left |-> left, right |-> right]
Boxes == [top : Int, bottom : Int, left : Int, right : Int]

Apart(box, other) ==
    \/ box.bottom < other.top \/ other.bottom < box.top
    \/ box.right < other.left \/ other.right < box.left
Inside(box, outer) ==
    /\ outer.top <= box.top /\ box.bottom <= outer.bottom
    /\ outer.left <= box.left /\ box.right <= outer.right

\* Cells within a box, one in a place.
Fits(cells, box) ==
    /\ \A c \in cells : c.row \in box.top .. box.bottom /\ c.column \in box.left .. box.right
    /\ \A c, e \in cells : c.row = e.row /\ c.column = e.column => c = e

LEMMA FitTogether ==
    ASSUME NEW x \in Boxes, NEW y \in Boxes, NEW z \in Boxes, Apart(x, y), Inside(x, z), Inside(y, z),
           NEW A, Fits(A, x), NEW B, Fits(B, y)
    PROVE  Fits(A \cup B, z)
<1>1. \A c \in A : c.row \in x.top .. x.bottom /\ c.column \in x.left .. x.right
  BY DEF Fits
<1>2. \A c \in B : c.row \in y.top .. y.bottom /\ c.column \in y.left .. y.right
  BY DEF Fits
<1>3. \A b \in {x, y, z} : b.top \in Int /\ b.bottom \in Int /\ b.left \in Int /\ b.right \in Int
  BY DEF Boxes
<1>4. \A c \in A \cup B : c.row \in z.top .. z.bottom /\ c.column \in z.left .. z.right
  BY <1>1, <1>2, <1>3, SMT DEF Inside
<1>5. ASSUME NEW c \in A, NEW e \in B, c.row = e.row, c.column = e.column PROVE FALSE
  <2>1. /\ c.row \in x.top .. x.bottom /\ c.column \in x.left .. x.right
        /\ c.row \in y.top .. y.bottom /\ c.column \in y.left .. y.right
    BY <1>1, <1>2, <1>5
  <2>. QED BY <1>3, <2>1, SMT DEF Apart
<1>6. /\ \A c, e \in A : c.row = e.row /\ c.column = e.column => c = e
      /\ \A c, e \in B : c.row = e.row /\ c.column = e.column => c = e
  BY DEF Fits
<1>7. ASSUME NEW c \in A \cup B, NEW e \in A \cup B, c.row = e.row, c.column = e.column PROVE c = e
  BY <1>5, <1>6, <1>7
<1>. QED
  BY <1>4, <1>7 DEF Fits

LEMMA FittingCells ==
    ASSUME NEW box \in Boxes, NEW cells, Fits(cells, box)
    PROVE  IsFiniteSet(cells) /\ Cardinality(Places(cells)) = Cardinality(cells)
<1>. DEFINE P == Places(cells)
            Q == (box.top .. box.bottom) \X (box.left .. box.right)
            g == [c \in cells |-> <<c.row, c.column>>]
<1>1. IsFiniteSet(Q)
  <2>1. /\ box.top \in Int /\ box.bottom \in Int /\ box.left \in Int /\ box.right \in Int
    BY DEF Boxes
  <2>2. IsFiniteSet(box.top .. box.bottom)
    BY <2>1, FS_Interval
  <2>3. IsFiniteSet(box.left .. box.right)
    BY <2>1, FS_Interval
  <2>. QED BY <2>2, <2>3, FS_Product
<1>2. P \subseteq Q
  <2>1. \A c \in cells : c.row \in box.top .. box.bottom /\ c.column \in box.left .. box.right
    BY DEF Fits
  <2>. QED BY <2>1 DEF Places
<1>3. IsFiniteSet(P)
  BY <1>1, <1>2, FS_Subset
<1>4. g \in [cells -> P] /\ \A p \in P : \E c \in cells : g[c] = p
  BY DEF Places
<1>5. \A c, e \in cells : g[c] = g[e] => c = e
  <2>1. ASSUME NEW c \in cells, NEW e \in cells, g[c] = g[e] PROVE c = e
    <3>1. c.row = e.row /\ c.column = e.column
      BY <2>1
    <3>. QED BY <3>1 DEF Fits
  <2>. QED BY <2>1
<1>. DEFINE h == [p \in P |-> CHOOSE c \in cells : g[c] = p]
<1>. HIDE DEF g, P, Q
<1>6. \A p \in P : h[p] \in cells /\ g[h[p]] = p
  BY <1>4
<1>7. h \in [P -> cells] /\ (\A p, q \in P : h[p] = h[q] => p = q) /\ \A c \in cells : h[g[c]] = c
  BY <1>4, <1>5, <1>6
<1>. HIDE DEF h
<1>8. ExistsBijection(P, cells)
  <2>1. h \in Bijection(P, cells)
    BY <1>4, <1>7 DEF Bijection, Injection, Surjection, IsInjective
  <2>. QED BY <2>1 DEF ExistsBijection
<1>. QED
  BY <1>3, <1>8, FS_Bijection DEF P

\* n rows of m values each.
IsTable(rows, n, m) ==
    /\ DOMAIN rows = 1 .. n /\ rows = [i \in 1 .. n |-> rows[i]]
    /\ \A i \in 1 .. n : DOMAIN rows[i] = 1 .. m

HasCells(cells, top, left, rows, n, m) ==
    cells = UNION {{Cell(top + i - 1, left + j - 1, rows[i][j]) : j \in 1 .. m} : i \in 1 .. n}

LEMMA CellsOfTable ==
    ASSUME NEW n \in Nat, NEW m \in Nat, NEW rows, IsTable(rows, n, m),
           NEW top \in Nat, NEW left \in Nat, NEW cells, cells = Table(top, left, rows)
    PROVE  HasCells(cells, top, left, rows, n, m)
<1>1. cells = UNION {{Cell(top + i - 1, left + j - 1, rows[i][j]) : j \in DOMAIN rows[i]} : i \in 1 .. n}
  BY DEF Table, Cell, IsTable
<1>2. \A i \in 1 .. n : DOMAIN rows[i] = 1 .. m
  BY DEF IsTable
<1>. QED
  BY <1>1, <1>2 DEF HasCells

LEMMA TableFits ==
    ASSUME NEW n \in Nat, NEW m \in Nat, NEW rows, IsTable(rows, n, m),
           NEW top \in Nat, NEW left \in Nat, NEW cells, cells = Table(top, left, rows)
    PROVE  Fits(cells, Box(top, top + n - 1, left, left + m - 1))
<1>1. \A c \in cells : \E i \in 1 .. n, j \in 1 .. m :
          c = Cell(top + i - 1, left + j - 1, rows[i][j])
  BY CellsOfTable DEF HasCells
<1>2. ASSUME NEW c \in cells
      PROVE  c.row \in top .. top + n - 1 /\ c.column \in left .. left + m - 1
  <2>1. PICK i \in 1 .. n, j \in 1 .. m : c = Cell(top + i - 1, left + j - 1, rows[i][j])
    BY <1>1
  <2>2. c.row = top + i - 1 /\ c.column = left + j - 1
    BY <2>1 DEF Cell
  <2>. QED BY <2>2, SMT
<1>3. ASSUME NEW c \in cells, NEW e \in cells, c.row = e.row, c.column = e.column PROVE c = e
  <2>1. PICK i \in 1 .. n, j \in 1 .. m : c = Cell(top + i - 1, left + j - 1, rows[i][j])
    BY <1>1
  <2>2. PICK k \in 1 .. n, l \in 1 .. m : e = Cell(top + k - 1, left + l - 1, rows[k][l])
    BY <1>1
  <2>3. top + i - 1 = top + k - 1 /\ left + j - 1 = left + l - 1
    BY <1>3, <2>1, <2>2 DEF Cell
  <2>4. i = k /\ j = l
    BY <2>3, SMT
  <2>. QED BY <2>1, <2>2, <2>4
<1>. QED
  BY <1>2, <1>3 DEF Fits, Box

LEMMA TableHolds ==
    ASSUME NEW n \in Nat, NEW m \in Nat, NEW rows, IsTable(rows, n, m),
           NEW top \in Nat, NEW left \in Nat, NEW cells, cells = Table(top, left, rows),
           NEW i \in 1 .. n, NEW j \in 1 .. m
    PROVE  Cell(top + i - 1, left + j - 1, rows[i][j]) \in cells
BY CellsOfTable DEF HasCells

LEMMA TableFills ==
    ASSUME NEW n \in Nat, NEW m \in Nat, NEW rows, IsTable(rows, n, m),
           NEW cells, cells = Table(0, 0, rows)
    PROVE  Places(cells) = (0 .. n - 1) \X (0 .. m - 1)
<1>1. cells = UNION {{Cell(0 + i - 1, 0 + j - 1, rows[i][j]) : j \in 1 .. m} : i \in 1 .. n}
  BY CellsOfTable DEF HasCells
<1>2. ASSUME NEW c \in cells PROVE <<c.row, c.column>> \in (0 .. n - 1) \X (0 .. m - 1)
  <2>1. PICK i \in 1 .. n, j \in 1 .. m : c = Cell(0 + i - 1, 0 + j - 1, rows[i][j])
    BY <1>1
  <2>2. c.row = 0 + i - 1 /\ c.column = 0 + j - 1
    BY <2>1 DEF Cell
  <2>3. c.row \in 0 .. n - 1 /\ c.column \in 0 .. m - 1
    BY <2>2, SMT
  <2>. QED BY <2>3
<1>3. ASSUME NEW r \in 0 .. n - 1, NEW k \in 0 .. m - 1
      PROVE  \E c \in cells : <<r, k>> = <<c.row, c.column>>
  <2>. DEFINE i == r + 1
              j == k + 1
              c == Cell(0 + i - 1, 0 + j - 1, rows[i][j])
  <2>1. i \in 1 .. n /\ j \in 1 .. m /\ 0 + i - 1 = r /\ 0 + j - 1 = k
    BY SMT
  <2>2. c.row = 0 + i - 1 /\ c.column = 0 + j - 1
    BY DEF Cell
  <2>. HIDE DEF i, j
  <2>3. c \in cells
    BY <1>1, <2>1
  <2>. QED BY <2>1, <2>2, <2>3
<1>. QED
  BY <1>2, <1>3 DEF Places

\* The rows after their header.
IsHeaded(table, n, m, header, rows) ==
    IsTable(table, 1 + n, m) /\ table[1] = header /\ \A i \in 1 .. n : table[1 + i] = rows[i]

LEMMA HeadedTable ==
    ASSUME NEW n \in Nat, NEW m \in Nat, NEW header, DOMAIN header = 1 .. m,
           NEW rows, IsTable(rows, n, m), NEW table, table = <<header>> \o rows
    PROVE  IsHeaded(table, n, m, header, rows)
<1>1. PICK a, S : a = <<header>> /\ S = {header} \cup {rows[i] : i \in 1 .. n}
  OBVIOUS
<1>2. a \in [1 .. 1 -> S] /\ a[1] = header /\ 1 \in Nat
  BY <1>1
<1>3. rows \in [1 .. n -> S]
  BY <1>1 DEF IsTable
<1>4. table = a \o rows
  BY <1>1
<1>5. IsJoined(table, 1, a, n, rows)
  BY <1>2, <1>3, <1>4, RowsJoined
<1>6. /\ DOMAIN table = 1 .. 1 + n /\ table = [k \in 1 .. 1 + n |-> table[k]]
      /\ (\A i \in 1 .. 1 : table[i] = a[i]) /\ \A i \in 1 .. n : table[1 + i] = rows[i]
  BY <1>5 DEF IsJoined
<1>7. ASSUME NEW k \in 1 .. 1 + n PROVE DOMAIN table[k] = 1 .. m
  <2>1. CASE k = 1
    BY <1>2, <1>6, <2>1
  <2>2. CASE k # 1
    <3>1. k - 1 \in 1 .. n /\ 1 + (k - 1) = k
      BY <2>2, SMT
    <3>2. table[1 + (k - 1)] = rows[k - 1]
      BY <1>6, <3>1
    <3>3. table[k] = rows[k - 1]
      BY <3>1, <3>2
    <3>. QED BY <3>1, <3>3 DEF IsTable
  <2>. QED BY <2>1, <2>2
<1>8. IsTable(table, 1 + n, m)
  BY <1>6, <1>7 DEF IsTable
<1>9. table[1] = header
  <2>1. 1 \in 1 .. 1
    OBVIOUS
  <2>. QED BY <1>2, <1>6, <2>1
<1>. QED
  BY <1>6, <1>8, <1>9 DEF IsHeaded

---------------------------------------------------------------------------
(* The cells a chart plots.                                                 *)

OneInAPlace(cells) == \A c, e \in cells : c.row = e.row /\ c.column = e.column => c = e
CellsAt(cells, range) == {c \in cells : <<c.row, c.column>> \in range}
PlacesOf(X, r, k) == {<<r[x], k[x]>> : x \in X}

LEMMA CellsOfRange ==
    ASSUME NEW cells, OneInAPlace(cells),
           NEW range, IsFiniteSet(range), \A p \in range : \E c \in cells : <<c.row, c.column>> = p,
           NEW at, at = CellsAt(cells, range)
    PROVE  Cardinality(at) = Cardinality(range)
<1>. USE DEF OneInAPlace, CellsAt
<1>. DEFINE place == [c \in cells |-> <<c.row, c.column>>]
            h == [p \in range |-> CHOOSE c \in cells : place[c] = p]
<1>1. \A p \in range : \E c \in cells : place[c] = p
  OBVIOUS
<1>2. ASSUME NEW c \in cells, NEW e \in cells, place[c] = place[e] PROVE c = e
  BY <1>2
<1>3. at = {c \in cells : place[c] \in range}
  OBVIOUS
<1>. HIDE DEF place
<1>4. \A p \in range : h[p] \in cells /\ place[h[p]] = p
  BY <1>1
<1>5. \A c \in at : place[c] \in range /\ h[place[c]] = c
  BY <1>2, <1>3, <1>4
<1>6. /\ h \in [range -> at] /\ \A p, q \in range : h[p] = h[q] => p = q
      /\ \A c \in at : \E p \in range : h[p] = c
  BY <1>3, <1>4, <1>5
<1>. HIDE DEF h
<1>7. h \in Bijection(range, at)
  BY <1>6 DEF Bijection, Injection, Surjection, IsInjective
<1>8. ExistsBijection(range, at)
  BY <1>7 DEF ExistsBijection
<1>. QED
  BY <1>8, FS_Bijection

\* Cells with the hours h, one for each of X.
Plots(cells, X, r, k, h) ==
    /\ IsFiniteSet(X)
    /\ \A x \in X : h[x] \in Nat /\ Cell(r[x], k[x], Duration(h[x])) \in cells
    /\ \A x, y \in X : r[x] = r[y] /\ k[x] = k[y] => x = y

ArePlotted(at, X, h) ==
    (\A c \in at : c.value[1] = "hours") /\ SumOf([c \in at |-> c.value[2]]) = Plus(h, X)

LEMMA HoursOfRange ==
    ASSUME NEW cells, OneInAPlace(cells),
           NEW X, NEW r, NEW k, NEW h, Plots(cells, X, r, k, h),
           NEW at, at = CellsAt(cells, PlacesOf(X, r, k))
    PROVE  ArePlotted(at, X, h)
<1>. USE DEF Plots, OneInAPlace, CellsAt, PlacesOf
<1>. DEFINE g == [x \in X |-> Cell(r[x], k[x], Duration(h[x]))]
            v == [c \in at |-> c.value[2]]
<1>1. ASSUME NEW x \in X
      PROVE  /\ g[x] \in cells /\ g[x].row = r[x] /\ g[x].column = k[x]
             /\ g[x].value[1] = "hours" /\ g[x].value[2] = h[x]
  BY DEF Cell, Duration
<1>. HIDE DEF g
<1>2. \A x \in X : g[x] \in at
  BY <1>1
<1>3. ASSUME NEW c \in at PROVE \E x \in X : g[x] = c
  <2>1. PICK x \in X : <<c.row, c.column>> = <<r[x], k[x]>>
    OBVIOUS
  <2>2. c.row = g[x].row /\ c.column = g[x].column
    BY <1>1, <2>1
  <2>3. g[x] = c
    BY <1>1, <2>2
  <2>. QED BY <2>3
<1>4. \A x, y \in X : x # y => g[x] # g[y]
  BY <1>1
<1>5. \A c \in at : c.value[1] = "hours"
  BY <1>1, <1>3
<1>6. \A x \in X : v[g[x]] = h[x]
  BY <1>1, <1>2
<1>7. \A c \in at : v[c] \in Nat
  BY <1>3, <1>6
<1>8. DOMAIN v = at
  OBVIOUS
<1>9. IsFiniteSet(X) /\ at = {g[x] : x \in X}
  BY <1>2, <1>3
<1>10. IsFiniteSet(at)
  BY <1>9, FiniteImage
<1>. HIDE DEF v
<1>11. Renames(g, X, at, h, v)
  BY <1>2, <1>3, <1>4, <1>6 DEF Renames
<1>12. Plus(h, X) = Plus(v, at)
  BY <1>7, <1>9, <1>10, <1>11, PlusReindexed
<1>13. SumOf(v) = Plus(v, at)
  BY <1>7, <1>8, SumOfIsPlus
<1>. QED
  BY <1>5, <1>12, <1>13 DEF v, ArePlotted

IsLabelled(cells, range) ==
    IsFiniteSet(range) /\ \A p \in range : \E x : Cell(p[1], p[2], Label(x)) \in cells /\ p = <<p[1], p[2]>>

\* A series of a chart over some places: as many labels as values.
IsSeriesOf(cells, series, places) ==
    /\ series.values \subseteq places /\ IsLabelled(cells, series.labels)
    /\ Cardinality(series.labels) = Cardinality(series.values)

ShownHoursOf(d) == SumOf([i \in DOMAIN ShownMembersOf(d) |-> ShownMembersOf(d)[i].seconds])

LEMMA ChartIsRight ==
    ASSUME NEW d, NEW s, NEW box, Fits(s.cells, box),
           NEW X, NEW r, NEW k, NEW h, Plots(s.cells, X, r, k, h), Plus(h, X) \in {d.total, ShownHoursOf(d)},
           NEW chart, NEW places, places = PlacesOf(X, r, k),
           \A series \in chart.series : IsSeriesOf(s.cells, series, places),
           places = UNION {series.values : series \in chart.series}
    PROVE  ChartIsOfTheDocument(d, s, chart)
<1>. DEFINE at(range) == CellsAt(s.cells, range)
            plotted == UNION {at(series.values) : series \in chart.series}
<1>1. OneInAPlace(s.cells)
  BY DEF Fits, OneInAPlace
<1>2. IsFiniteSet(places)
  <2>. DEFINE f == [x \in X |-> <<r[x], k[x]>>]
  <2>1. places = {f[x] : x \in X} /\ IsFiniteSet(X)
    BY DEF Plots, PlacesOf
  <2>. HIDE DEF f
  <2>. QED BY <2>1, FiniteImage
<1>3. \A p \in places : \E c \in s.cells : <<c.row, c.column>> = p
  <2>1. ASSUME NEW x \in X PROVE \E c \in s.cells : <<c.row, c.column>> = <<r[x], k[x]>>
    <3>1. Cell(r[x], k[x], Duration(h[x])) \in s.cells
      BY DEF Plots
    <3>2. Cell(r[x], k[x], Duration(h[x])).row = r[x] /\ Cell(r[x], k[x], Duration(h[x])).column = k[x]
      BY DEF Cell
    <3>. QED BY <3>1, <3>2
  <2>. QED BY <2>1 DEF PlacesOf
<1>4. plotted = at(places)
  BY DEF CellsAt
<1>5. (\A c \in at(places) : c.value[1] = "hours")
      /\ SumOf([c \in at(places) |-> c.value[2]]) = Plus(h, X)
  <2>1. PICK A : A = CellsAt(s.cells, PlacesOf(X, r, k))
    OBVIOUS
  <2>2. ArePlotted(A, X, h)
    BY <1>1, <2>1, HoursOfRange
  <2>3. A = at(places)
    BY <2>1
  <2>. QED BY <2>2, <2>3, Zenon DEF ArePlotted
<1>6. SumOf([c \in plotted |-> c.value[2]]) \in {d.total, ShownHoursOf(d)}
  BY <1>4, <1>5, Zenon
<1>7. ASSUME NEW series \in chart.series
      PROVE  /\ Cardinality(at(series.values)) = Cardinality(series.values)
             /\ Cardinality(at(series.labels)) = Cardinality(series.values)
             /\ \A c \in at(series.values) : c.value[1] = "hours"
             /\ \A c \in at(series.labels) : c.value[1] = "label"
  <2>1. PICK labels, values : labels = series.labels /\ values = series.values
    OBVIOUS
  <2>2. /\ values \subseteq places /\ IsLabelled(s.cells, labels)
        /\ Cardinality(labels) = Cardinality(values)
    BY <2>1 DEF IsSeriesOf
  <2>3. IsFiniteSet(values) /\ \A p \in values : \E c \in s.cells : <<c.row, c.column>> = p
    BY <1>2, <1>3, <2>2, FS_Subset
  <2>4. Cardinality(at(values)) = Cardinality(values)
    BY <1>1, <2>3, CellsOfRange
  <2>5. ASSUME NEW p \in labels
        PROVE  \E c \in s.cells : <<c.row, c.column>> = p /\ c.value[1] = "label"
    <3>1. PICK x : Cell(p[1], p[2], Label(x)) \in s.cells /\ p = <<p[1], p[2]>>
      BY <2>2 DEF IsLabelled
    <3>2. PICK c : c = Cell(p[1], p[2], Label(x))
      OBVIOUS
    <3>3. c.row = p[1] /\ c.column = p[2] /\ c.value = Label(x) /\ Label(x)[1] = "label"
      BY <3>2 DEF Cell, Label
    <3>. QED BY <3>1, <3>2, <3>3
  <2>6. Cardinality(at(labels)) = Cardinality(labels)
    <3>1. IsFiniteSet(labels)
      BY <2>2 DEF IsLabelled
    <3>. QED BY <1>1, <2>5, <3>1, CellsOfRange
  <2>7. ASSUME NEW c \in at(labels) PROVE c.value[1] = "label"
    <3>1. PICK e \in s.cells : <<e.row, e.column>> = <<c.row, c.column>> /\ e.value[1] = "label"
      BY <2>5 DEF CellsAt
    <3>2. e.row = c.row /\ e.column = c.column
      BY <3>1
    <3>3. e = c
      BY <1>1, <3>2 DEF OneInAPlace, CellsAt
    <3>. QED BY <3>1, <3>3
  <2>8. \A c \in at(values) : c.value[1] = "hours"
    BY <1>5, <2>2 DEF CellsAt
  <2>. QED BY <2>1, <2>2, <2>4, <2>6, <2>7, <2>8
<1>. QED
  BY <1>6, <1>7, Zenon DEF ChartIsOfTheDocument, ShownHoursOf, CellsAt

---------------------------------------------------------------------------
(* The series of a chart, down a column or along a row.                     *)

LEMMA PlacesCounted ==
    ASSUME NEW n \in Nat, NEW r, NEW k, \A x, y \in 1 .. n : r[x] = r[y] /\ k[x] = k[y] => x = y,
           NEW places, places = PlacesOf(1 .. n, r, k)
    PROVE  IsFiniteSet(places) /\ Cardinality(places) = n
<1>. DEFINE N == 1 .. n
            f == [x \in N |-> <<r[x], k[x]>>]
<1>1. IsFiniteSet(N) /\ Cardinality(N) = n
  <2>1. IsFiniteSet(N)
    BY FS_Interval
  <2>2. Cardinality(N) = IF 1 > n THEN 0 ELSE n - 1 + 1
    BY FS_Interval
  <2>. HIDE DEF N
  <2>. QED BY <2>1, <2>2, SMT
<1>2. f \in [N -> places] /\ \A p \in places : \E x \in N : f[x] = p
  BY DEF PlacesOf
<1>3. \A x, y \in N : f[x] = f[y] => x = y
  OBVIOUS
<1>. HIDE DEF f, N
<1>4. f \in Bijection(N, places)
  BY <1>2, <1>3 DEF Bijection, Injection, Surjection, IsInjective
<1>5. ExistsBijection(N, places)
  BY <1>4 DEF ExistsBijection
<1>. QED
  BY <1>1, <1>5, FS_Bijection

LEMMA DownIs ==
    ASSUME NEW n \in Nat, NEW from \in Nat, NEW last, last = from + n - 1, NEW column,
           NEW r, r = [i \in 1 .. n |-> from + i - 1], NEW k, k = [i \in 1 .. n |-> column]
    PROVE  /\ Down(from, last, column) = PlacesOf(1 .. n, r, k)
           /\ IsFiniteSet(Down(from, last, column)) /\ Cardinality(Down(from, last, column)) = n
<1>. DEFINE N == 1 .. n
            R == from .. last
<1>1. \A i \in N : from + i - 1 \in R
  BY SMT
<1>2. \A row \in R : row - from + 1 \in N /\ from + (row - from + 1) - 1 = row
  BY SMT
<1>3. \A i, j \in N : from + i - 1 = from + j - 1 => i = j
  BY SMT
<1>. HIDE DEF N, R
<1>4. \A i \in N : r[i] = from + i - 1 /\ k[i] = column
  BY DEF N
<1>5. {<<row, column>> : row \in R} = {<<r[i], k[i]>> : i \in N}
  BY <1>1, <1>2, <1>4
<1>6. Down(from, last, column) = PlacesOf(1 .. n, r, k)
  BY <1>5 DEF Down, PlacesOf, N, R
<1>7. \A x, y \in 1 .. n : r[x] = r[y] /\ k[x] = k[y] => x = y
  BY <1>3, <1>4 DEF N
<1>. QED
  BY <1>6, <1>7, PlacesCounted

LEMMA DownSize ==
    ASSUME NEW n \in Nat, NEW from \in Nat, NEW last, last = from + n - 1, NEW column
    PROVE  IsFiniteSet(Down(from, last, column)) /\ Cardinality(Down(from, last, column)) = n
<1>1. PICK r, k : r = [i \in 1 .. n |-> from + i - 1] /\ k = [i \in 1 .. n |-> column]
  OBVIOUS
<1>. QED
  BY <1>1, DownIs

AreOfARow(n, row, r, k) == r = [i \in 1 .. n |-> row] /\ k = [i \in 1 .. n |-> i]

LEMMA AcrossIs ==
    ASSUME NEW n \in Nat, NEW row, NEW r, NEW k, AreOfARow(n, row, r, k)
    PROVE  /\ Across(row, 1, n) = PlacesOf(1 .. n, r, k)
           /\ IsFiniteSet(Across(row, 1, n)) /\ Cardinality(Across(row, 1, n)) = n
<1>1. Across(row, 1, n) = PlacesOf(1 .. n, r, k)
  BY DEF Across, PlacesOf, AreOfARow
<1>2. \A x, y \in 1 .. n : r[x] = r[y] /\ k[x] = k[y] => x = y
  BY DEF AreOfARow
<1>. QED
  BY <1>1, <1>2, PlacesCounted

\* A column of labels beside a column of hours.
Columns(cells, n, from, label, value, h) ==
    \A i \in 1 .. n : /\ h[i] \in Nat /\ Cell(from + i - 1, value, Duration(h[i])) \in cells
                      /\ \E x : Cell(from + i - 1, label, Label(x)) \in cells

ColumnSeries(from, last, label, value) == {Series(Down(from, last, label), Down(from, last, value))}
\* Hours that a chart is to be of.
AreToPlot(d, n, h) == Plus(h, 1 .. n) \in {d.total, ShownHoursOf(d)}

LEMMA LabelsDown ==
    ASSUME NEW n \in Nat, NEW from \in Nat, NEW last, last = from + n - 1, NEW column, NEW cells,
           \A i \in 1 .. n : \E x : Cell(from + i - 1, column, Label(x)) \in cells
    PROVE  IsLabelled(cells, Down(from, last, column))
<1>1. PICK r, k : r = [i \in 1 .. n |-> from + i - 1] /\ k = [i \in 1 .. n |-> column]
  OBVIOUS
<1>2. /\ Down(from, last, column) = PlacesOf(1 .. n, r, k)
      /\ IsFiniteSet(Down(from, last, column))
  BY <1>1, DownIs
<1>3. ASSUME NEW i \in 1 .. n PROVE \E x : Cell(r[i], k[i], Label(x)) \in cells
  BY <1>1
<1>4. ASSUME NEW p \in PlacesOf(1 .. n, r, k)
      PROVE  \E x : Cell(p[1], p[2], Label(x)) \in cells /\ p = <<p[1], p[2]>>
  <2>1. PICK i \in 1 .. n : p = <<r[i], k[i]>>
    BY DEF PlacesOf
  <2>2. PICK x : Cell(r[i], k[i], Label(x)) \in cells
    BY <1>3
  <2>3. p[1] = r[i] /\ p[2] = k[i]
    BY <2>1
  <2>. QED BY <2>1, <2>2, <2>3
<1>. QED
  BY <1>2, <1>4 DEF IsLabelled

LEMMA ColumnsPlotted ==
    ASSUME NEW d, NEW s, NEW box, Fits(s.cells, box),
           NEW n \in Nat, NEW from \in Nat, NEW last, last = from + n - 1,
           NEW label, NEW value, NEW h, Columns(s.cells, n, from, label, value, h),
           AreToPlot(d, n, h), NEW chart, chart.series = ColumnSeries(from, last, label, value)
    PROVE  ChartIsOfTheDocument(d, s, chart)
<1>1. PICK r, k : r = [i \in 1 .. n |-> from + i - 1] /\ k = [i \in 1 .. n |-> value]
  OBVIOUS
<1>2. PICK labels, places : labels = Down(from, last, label) /\ places = Down(from, last, value)
  OBVIOUS
<1>3. places = PlacesOf(1 .. n, r, k) /\ IsFiniteSet(places) /\ Cardinality(places) = n
  BY <1>1, <1>2, DownIs, SMTT(20)
<1>4. IsFiniteSet(labels) /\ Cardinality(labels) = n
  BY <1>2, DownSize
<1>5. IsLabelled(s.cells, labels)
  BY <1>2, LabelsDown DEF Columns
<1>6. Plots(s.cells, 1 .. n, r, k, h)
  <2>1. IsFiniteSet(1 .. n)
    BY FS_Interval
  <2>2. \A x \in 1 .. n : h[x] \in Nat /\ Cell(r[x], k[x], Duration(h[x])) \in s.cells
    BY <1>1 DEF Columns
  <2>3. \A x, y \in 1 .. n : from + x - 1 = from + y - 1 => x = y
    BY SMT
  <2>4. \A x, y \in 1 .. n : r[x] = r[y] /\ k[x] = k[y] => x = y
    BY <1>1, <2>3
  <2>. QED BY <2>1, <2>2, <2>4 DEF Plots
<1>7. PICK series : series = Series(labels, places)
  OBVIOUS
<1>8. series.labels = labels /\ series.values = places /\ chart.series = {series}
  BY <1>2, <1>7 DEF Series, ColumnSeries
<1>9. \A x \in chart.series : IsSeriesOf(s.cells, x, places)
  BY <1>3, <1>4, <1>5, <1>8 DEF IsSeriesOf
<1>10. places = UNION {x.values : x \in chart.series}
  BY <1>8
<1>11. PICK X : X = 1 .. n
  OBVIOUS
<1>12. /\ Plots(s.cells, X, r, k, h) /\ Plus(h, X) \in {d.total, ShownHoursOf(d)}
       /\ places = PlacesOf(X, r, k)
  BY <1>3, <1>6, <1>11 DEF AreToPlot
<1>. QED
  BY <1>9, <1>10, <1>12, ChartIsRight

\* The weeks of one person, in a row.
LEMMA RowPlotted ==
    ASSUME NEW d, NEW s, NEW box, Fits(s.cells, box), NEW n \in Nat, NEW h,
           \A i \in 1 .. n : /\ h[i] \in Nat /\ Cell(1, i, Duration(h[i])) \in s.cells
                             /\ \E x : Cell(0, i, Label(x)) \in s.cells,
           Plus(h, 1 .. n) \in {d.total, ShownHoursOf(d)},
           NEW chart, chart.series = {Series(Across(0, 1, n), Across(1, 1, n))}
    PROVE  ChartIsOfTheDocument(d, s, chart)
<1>1. PICK r, k, a, one, zero :
          /\ r = [i \in 1 .. n |-> one] /\ k = [i \in 1 .. n |-> i] /\ a = [i \in 1 .. n |-> zero]
          /\ one = 1 /\ zero = 0
  OBVIOUS
<1>2. PICK labels, places : labels = Across(zero, 1, n) /\ places = Across(one, 1, n)
  OBVIOUS
<1>14. AreOfARow(n, one, r, k) /\ AreOfARow(n, zero, a, k)
  BY <1>1 DEF AreOfARow
<1>3. places = PlacesOf(1 .. n, r, k) /\ Cardinality(places) = n
  BY <1>2, <1>14, AcrossIs
<1>4. IsFiniteSet(labels) /\ Cardinality(labels) = n
  BY <1>2, <1>14, AcrossIs
<1>5. IsLabelled(s.cells, labels)
  <2>1. ASSUME NEW p \in labels
        PROVE  \E x : Cell(p[1], p[2], Label(x)) \in s.cells /\ p = <<p[1], p[2]>>
    <3>1. PICK i \in 1 .. n : p = <<0, i>>
      BY <1>1, <1>2 DEF Across
    <3>2. p[1] = 0 /\ p[2] = i
      BY <3>1
    <3>3. PICK x : Cell(0, i, Label(x)) \in s.cells
      OBVIOUS
    <3>. QED BY <3>1, <3>2, <3>3
  <2>. QED BY <1>4, <2>1 DEF IsLabelled
<1>6. Plots(s.cells, 1 .. n, r, k, h)
  <2>1. IsFiniteSet(1 .. n)
    BY FS_Interval
  <2>2. \A x \in 1 .. n : h[x] \in Nat /\ Cell(r[x], k[x], Duration(h[x])) \in s.cells
    BY <1>1
  <2>3. \A x, y \in 1 .. n : r[x] = r[y] /\ k[x] = k[y] => x = y
    BY <1>1
  <2>. QED BY <2>1, <2>2, <2>3 DEF Plots
<1>7. PICK series : series = Series(labels, places)
  OBVIOUS
<1>8. series.labels = labels /\ series.values = places /\ chart.series = {series}
  BY <1>1, <1>2, <1>7 DEF Series
<1>9. \A x \in chart.series : IsSeriesOf(s.cells, x, places)
  BY <1>3, <1>4, <1>5, <1>8 DEF IsSeriesOf
<1>10. places = UNION {x.values : x \in chart.series}
  BY <1>8
<1>11. PICK X : X = 1 .. n
  OBVIOUS
<1>12. /\ Plots(s.cells, X, r, k, h) /\ Plus(h, X) \in {d.total, ShownHoursOf(d)}
       /\ places = PlacesOf(X, r, k)
  BY <1>3, <1>6, <1>11
<1>. QED
  BY <1>9, <1>10, <1>12, ChartIsRight

---------------------------------------------------------------------------
(* A sheet of a table with its header: where its cells are, what its filter *)
(* covers, and which charts lie clear of it.                                *)

IsRightSheet(d, s) ==
    SheetIsWellLaidOut(s) /\ \A chart \in s.charts : ChartIsOfTheDocument(d, s, chart)

\* A table with its header, from a place on.
IsHeadedAt(cells, top, left, n, m, header, body) ==
    /\ Box(top, top + n, left, left + m - 1) \in Boxes
    /\ Fits(cells, Box(top, top + n, left, left + m - 1))
    /\ \A j \in 1 .. m : Cell(top, left + j - 1, header[j]) \in cells
    /\ \A i \in 1 .. n, j \in 1 .. m : Cell(top + i, left + j - 1, body[i][j]) \in cells

LEMMA HeadedCells ==
    ASSUME NEW n \in Nat, NEW m \in Nat, NEW header, DOMAIN header = 1 .. m,
           NEW body, IsTable(body, n, m), NEW top \in Nat, NEW left \in Nat,
           NEW cells, cells = Table(top, left, <<header>> \o body)
    PROVE  IsHeadedAt(cells, top, left, n, m, header, body)
<1>1. PICK table : table = <<header>> \o body
  OBVIOUS
<1>2. IsHeaded(table, n, m, header, body)
  BY <1>1, HeadedTable
<1>3. /\ IsTable(table, 1 + n, m) /\ table[1] = header
      /\ \A i \in 1 .. n : table[1 + i] = body[i]
  BY <1>2 DEF IsHeaded
<1>4. PICK l \in Nat : l = 1 + n
  BY SMT
<1>5. IsTable(table, l, m) /\ cells = Table(top, left, table)
  BY <1>1, <1>3, <1>4
<1>6. Fits(cells, Box(top, top + l - 1, left, left + m - 1))
  BY <1>5, TableFits
<1>7. top + l - 1 = top + n /\ top + n \in Int /\ left + m - 1 \in Int /\ top \in Int /\ left \in Int
  BY <1>4, SMT
<1>8. ASSUME NEW i \in 1 .. l, NEW j \in 1 .. m
      PROVE  Cell(top + i - 1, left + j - 1, table[i][j]) \in cells
  BY <1>5, TableHolds
<1>9. ASSUME NEW j \in 1 .. m PROVE Cell(top, left + j - 1, header[j]) \in cells
  <2>1. 1 \in 1 .. l /\ top + 1 - 1 = top
    BY <1>4, SMT
  <2>2. Cell(top + 1 - 1, left + j - 1, table[1][j]) \in cells
    BY <1>8, <2>1
  <2>. QED BY <1>3, <2>1, <2>2
<1>10. ASSUME NEW i \in 1 .. n, NEW j \in 1 .. m PROVE Cell(top + i, left + j - 1, body[i][j]) \in cells
  <2>1. 1 + i \in 1 .. l /\ top + (1 + i) - 1 = top + i
    BY <1>4, SMT
  <2>2. Cell(top + (1 + i) - 1, left + j - 1, table[1 + i][j]) \in cells
    BY <1>8, <2>1
  <2>. QED BY <1>3, <2>1, <2>2
<1>11. Box(top, top + n, left, left + m - 1) \in Boxes
  BY <1>7 DEF Box, Boxes
<1>. QED
  BY <1>6, <1>7, <1>9, <1>10, <1>11 DEF IsHeadedAt

LEMMA HeadedPlaces ==
    ASSUME NEW n \in Nat, NEW m \in Nat, NEW header, DOMAIN header = 1 .. m,
           NEW body, IsTable(body, n, m), NEW cells, cells = Table(0, 0, <<header>> \o body),
           NEW l, l = m - 1, NEW f \in Filtered(n, l)
    PROVE  Places(cells) = (0 .. f.lastRow) \X (0 .. f.lastColumn)
<1>1. PICK table, k : table = <<header>> \o body /\ k = 1 + n
  OBVIOUS
<1>2. IsTable(table, 1 + n, m)
  BY <1>1, HeadedTable DEF IsHeaded
<1>3. k \in Nat /\ IsTable(table, k, m) /\ cells = Table(0, 0, table) /\ k - 1 = n
  <2>1. k \in Nat /\ k - 1 = n
    BY <1>1, SMT
  <2>. QED BY <1>1, <1>2, <2>1
<1>4. Places(cells) = (0 .. k - 1) \X (0 .. m - 1)
  BY <1>3, TableFills
<1>5. f.lastRow = n /\ f.lastColumn = l
  BY DEF Filtered
<1>. QED
  BY <1>3, <1>4, <1>5

IsClear(cells, chart) == \A c \in cells : ~Covers(chart, <<c.row, c.column>>)

LEMMA BoxIsClear ==
    ASSUME NEW box \in Boxes, NEW cells, Fits(cells, box),
           NEW chart, chart.row \in Nat, chart.column \in Nat,
           \/ box.bottom < chart.row \/ chart.row + ChartRows - 1 < box.top
           \/ box.right < chart.column \/ chart.column + ChartColumns - 1 < box.left
    PROVE  IsClear(cells, chart)
<1>1. box.top \in Int /\ box.bottom \in Int /\ box.left \in Int /\ box.right \in Int
  BY DEF Boxes
<1>2. ASSUME NEW c \in cells PROVE ~Covers(chart, <<c.row, c.column>>)
  <2>1. c.row \in box.top .. box.bottom /\ c.column \in box.left .. box.right
    BY DEF Fits
  <2>2. ~(/\ c.row \in chart.row .. chart.row + ChartRows - 1
          /\ c.column \in chart.column .. chart.column + ChartColumns - 1)
    BY <1>1, <2>1, SMT DEF ChartRows, ChartColumns
  <2>. QED BY <2>2 DEF Covers
<1>. QED
  BY <1>2 DEF IsClear

LEMMA LaidOut ==
    ASSUME NEW s, NEW box \in Boxes, Fits(s.cells, box),
           \A f \in s.filter : Places(s.cells) = (0 .. f.lastRow) \X (0 .. f.lastColumn),
           \A chart \in s.charts : IsClear(s.cells, chart),
           \A chart \in s.charts : \A other \in s.charts \ {chart} :
               ~Covers(chart, <<other.row, other.column>>)
    PROVE  SheetIsWellLaidOut(s)
<1>1. Cardinality(Places(s.cells)) = Cardinality(s.cells)
  BY FittingCells
<1>2. \A chart \in s.charts : \A place \in Places(s.cells) : ~Covers(chart, place)
  BY DEF IsClear, Places
<1>. QED
  BY <1>1, <1>2 DEF SheetIsWellLaidOut

\* A table with a filter over it.
LEMMA FilteredTable ==
    ASSUME NEW n \in Nat, NEW m \in Nat, NEW header, DOMAIN header = 1 .. m,
           NEW body, IsTable(body, n, m), NEW l, l = m - 1,
           NEW s, s = Sheet(Table(0, 0, <<header>> \o body), Filtered(n, l), {}), NEW d
    PROVE  IsRightSheet(d, s)
<1>1. s.cells = Table(0, 0, <<header>> \o body) /\ s.filter = Filtered(n, l) /\ s.charts = {}
  BY DEF Sheet
<1>2. PICK cells, top : cells = s.cells /\ top = 0
  OBVIOUS
<1>3. IsHeadedAt(cells, top, top, n, m, header, body)
  <2>1. top \in Nat /\ cells = Table(top, top, <<header>> \o body)
    BY <1>1, <1>2
  <2>. QED BY <2>1, HeadedCells
<1>4. PICK box : box \in Boxes /\ Fits(cells, box)
  BY <1>3 DEF IsHeadedAt
<1>5. \A f \in Filtered(n, l) : Places(cells) = (0 .. f.lastRow) \X (0 .. f.lastColumn)
  BY <1>1, <1>2, HeadedPlaces
<1>6. SheetIsWellLaidOut(s)
  BY <1>1, <1>2, <1>4, <1>5, LaidOut
<1>. QED
  BY <1>1, <1>6 DEF IsRightSheet

\* A sheet of cells with no filter and no chart.
LEMMA PlainSheet ==
    ASSUME NEW box \in Boxes, NEW cells, Fits(cells, box), NEW s, s = Sheet(cells, {}, {}), NEW d
    PROVE  IsRightSheet(d, s)
<1>1. s.cells = cells /\ s.filter = {} /\ s.charts = {}
  BY DEF Sheet
<1>2. SheetIsWellLaidOut(s)
  BY <1>1, LaidOut
<1>. QED
  BY <1>1, <1>2 DEF IsRightSheet

---------------------------------------------------------------------------
(* The sheets that are one table with a filter.                             *)

LEMMA TasksSheetIsRight ==
    ASSUME NEW d, IsSupported(d)
    PROVE  IsRightSheet(d, TasksSheet(d))
<1>. DEFINE rows == TaskRows(d)
            n == Len(rows)
            Row(i) == <<Label(rows[i].task), Text, Count(rows[i].entries),
                        Duration(rows[i].seconds), Text>>
            body == [i \in DOMAIN rows |-> Row(i)]
<1>1. AreRows(rows)
  BY TaskRowsDiffer DEF IsSupported
<1>2. n \in Nat /\ DOMAIN rows = 1 .. n
  BY <1>1 DEF AreRows
<1>3. \A i : DOMAIN Row(i) = 1 .. 5
  OBVIOUS
<1>4. TasksSheet(d) = Sheet(Table(0, 0, <<Texts(5)>> \o body), Filtered(n, 4), {})
  BY DEF TasksSheet
<1>. HIDE DEF rows, n, Row
<1>5. IsTable(body, n, 5)
  BY <1>2, <1>3 DEF IsTable
<1>. HIDE DEF body
<1>6. 5 \in Nat /\ 4 = 5 - 1 /\ DOMAIN Texts(5) = 1 .. 5
  BY DEF Texts
<1>. QED
  BY <1>2, <1>4, <1>5, <1>6, FilteredTable

LEMMA TeamMembersSheetIsRight ==
    ASSUME NEW d, IsSupported(d)
    PROVE  IsRightSheet(d, TeamMembersSheet(d))
<1>. DEFINE rows == RankedMembers(d)
            n == Len(rows)
            Row(i) == <<Label(rows[i].member), Text, Count(rows[i].days),
                        Count(rows[i].tasks), Count(rows[i].entries), Duration(rows[i].seconds)>>
            body == [i \in DOMAIN rows |-> Row(i)]
<1>1. AreRows(rows)
  BY MemberRowsDiffer DEF AreMemberRows
<1>2. n \in Nat /\ DOMAIN rows = 1 .. n
  BY <1>1 DEF AreRows
<1>3. \A i : DOMAIN Row(i) = 1 .. 6
  OBVIOUS
<1>4. TeamMembersSheet(d) = Sheet(Table(0, 0, <<Texts(6)>> \o body), Filtered(n, 5), {})
  BY DEF TeamMembersSheet
<1>. HIDE DEF rows, n, Row
<1>5. IsTable(body, n, 6)
  BY <1>2, <1>3 DEF IsTable
<1>. HIDE DEF body
<1>6. 6 \in Nat /\ 5 = 6 - 1 /\ DOMAIN Texts(6) = 1 .. 6
  BY DEF Texts
<1>. QED
  BY <1>2, <1>4, <1>5, <1>6, FilteredTable

LEMMA TeamTasksSheetIsRight ==
    ASSUME NEW d, IsSupported(d)
    PROVE  IsRightSheet(d, TeamTasksSheet(d))
<1>. DEFINE rows == TaskRows(d)
            n == Len(rows)
            One(task) == CHOOSE h \in d.sources : h.task = task
            Row(i) == <<Label(rows[i].task), Text, Label(One(rows[i].task).category),
                        Label(One(rows[i].task).status), Text, Count(rows[i].entries),
                        Duration(rows[i].seconds), Text>>
            body == [i \in DOMAIN rows |-> Row(i)]
<1>1. AreRows(rows)
  BY TaskRowsDiffer DEF IsSupported
<1>2. n \in Nat /\ DOMAIN rows = 1 .. n
  BY <1>1 DEF AreRows
<1>3. \A i : DOMAIN Row(i) = 1 .. 8
  OBVIOUS
<1>4. TeamTasksSheet(d) = Sheet(Table(0, 0, <<Texts(8)>> \o body), Filtered(n, 7), {})
  BY DEF TeamTasksSheet
<1>. HIDE DEF rows, n, Row
<1>5. IsTable(body, n, 8)
  BY <1>2, <1>3 DEF IsTable
<1>. HIDE DEF body
<1>6. 8 \in Nat /\ 7 = 8 - 1 /\ DOMAIN Texts(8) = 1 .. 8
  BY DEF Texts
<1>. QED
  BY <1>2, <1>4, <1>5, <1>6, FilteredTable

LEMMA WorklogsSheetIsRight ==
    ASSUME NEW d, IsSupported(d)
    PROVE  IsRightSheet(d, WorklogsSheet(d))
<1>. DEFINE rows == SourceRows(d)
            n == Len(rows)
            Row(i) == <<Text, Label(rows[i].author)>>
                      \o <<Label(rows[i].day), Text, Seconds(rows[i].seconds), Duration(rows[i].seconds)>>
                      \o <<Label(rows[i].task), Text, Text, Text>>
            body == [i \in DOMAIN rows |-> Row(i)]
<1>1. AreRows(rows)
  BY SourceRowsDiffer DEF IsSupported
<1>2. n \in Nat /\ DOMAIN rows = 1 .. n
  BY <1>1 DEF AreRows
<1>3. ASSUME NEW i PROVE DOMAIN Row(i) = 1 .. 10
  <2>1. PICK a, b, c, S : /\ a = <<Text, Label(rows[i].author)>>
                          /\ b = <<Label(rows[i].day), Text, Seconds(rows[i].seconds), Duration(rows[i].seconds)>>
                          /\ c = <<Label(rows[i].task), Text, Text, Text>>
                          /\ S = {a[k] : k \in 1 .. 2} \cup {b[k] : k \in 1 .. 4} \cup {c[k] : k \in 1 .. 4}
    OBVIOUS
  <2>2. a \in [1 .. 2 -> S] /\ b \in [1 .. 4 -> S] /\ c \in [1 .. 4 -> S]
    BY <2>1
  <2>3. PICK x : x = a \o b
    OBVIOUS
  <2>4. 2 \in Nat /\ 4 \in Nat /\ 6 \in Nat /\ 2 + 4 = 6 /\ 6 + 4 = 10
    OBVIOUS
  <2>5. x \in [1 .. 6 -> S]
    BY <2>2, <2>3, <2>4, JoinedType
  <2>6. x \o c \in [1 .. 10 -> S]
    BY <2>2, <2>4, <2>5, JoinedType
  <2>7. Row(i) = x \o c
    BY <2>1, <2>3
  <2>. QED BY <2>6, <2>7
<1>4. WorklogsSheet(d) = Sheet(Table(0, 0, <<Texts(10)>> \o body), Filtered(n, 9), {})
  BY DEF WorklogsSheet
<1>. HIDE DEF rows, n, Row
<1>5. IsTable(body, n, 10)
  BY <1>2, <1>3 DEF IsTable
<1>. HIDE DEF body
<1>6. 10 \in Nat /\ 9 = 10 - 1 /\ DOMAIN Texts(10) = 1 .. 10
  BY DEF Texts
<1>. QED
  BY <1>2, <1>4, <1>5, <1>6, FilteredTable

LEMMA TeamSourcesSheetIsRight ==
    ASSUME NEW d, IsSupported(d)
    PROVE  IsRightSheet(d, TeamSourcesSheet(d))
<1>. DEFINE rows == SourceRows(d)
            n == Len(rows)
            First(i) == <<Label(rows[i].author), Text, Label(rows[i].author), Label(rows[i].day), Text,
                          Seconds(rows[i].seconds), Duration(rows[i].seconds), Label(rows[i].task), Text,
                          Label(rows[i].category), Label(rows[i].status)>>
            Row(i) == First(i) \o Texts(5)
            body == [i \in DOMAIN rows |-> Row(i)]
<1>1. AreRows(rows)
  BY SourceRowsDiffer DEF IsSupported
<1>2. n \in Nat /\ DOMAIN rows = 1 .. n
  BY <1>1 DEF AreRows
<1>3. ASSUME NEW i PROVE DOMAIN Row(i) = 1 .. 16
  <2>1. PICK a, b, S : a = First(i) /\ b = Texts(5) /\ S = {a[k] : k \in 1 .. 11} \cup {Text}
    OBVIOUS
  <2>2. DOMAIN a = 1 .. 11 /\ a = [k \in 1 .. 11 |-> a[k]]
    BY <2>1
  <2>3. a \in [1 .. 11 -> S]
    BY <2>1, <2>2
  <2>4. b \in [1 .. 5 -> S]
    BY <2>1 DEF Texts
  <2>5. 11 \in Nat /\ 5 \in Nat /\ 11 + 5 = 16
    OBVIOUS
  <2>6. a \o b \in [1 .. 16 -> S]
    BY <2>3, <2>4, <2>5, JoinedType
  <2>7. Row(i) = a \o b
    BY <2>1
  <2>. QED BY <2>6, <2>7
<1>4. TeamSourcesSheet(d) = Sheet(Table(0, 0, <<Texts(16)>> \o body), Filtered(n, 15), {})
  BY DEF TeamSourcesSheet
<1>. HIDE DEF rows, n, Row
<1>5. IsTable(body, n, 16)
  BY <1>2, <1>3 DEF IsTable
<1>. HIDE DEF body
<1>6. 16 \in Nat /\ 15 = 16 - 1 /\ DOMAIN Texts(16) = 1 .. 16
  BY DEF Texts
<1>. QED
  BY <1>2, <1>4, <1>5, <1>6, FilteredTable

---------------------------------------------------------------------------
(* Figures that come to the hours of a document, or of the shown members.   *)

\* Terms of the hours of a document.
AddUp(n, h, total) == n \in Nat /\ (\A i \in 1 .. n : h[i] \in Nat) /\ Plus(h, 1 .. n) = total

LEMMA TrendAddsUp ==
    ASSUME NEW d, IsSupported(d), NEW trend, trend = Trend(d), NEW n, n = Len(trend),
           NEW h, h = [i \in 1 .. n |-> trend[i].seconds]
    PROVE  AddUp(n, h, d.total) /\ DOMAIN trend = 1 .. n
<1>. DEFINE a == d.period.from
            b == d.period.to
            c == b - a + 1
            C == 1 .. c
            D == a .. b
            g == [i \in C |-> a + i - 1]
            Row(i) == [day |-> a + i - 1, seconds |-> d.days[a + i - 1],
                       cumulative |-> SumOf([k \in a .. a + i - 1 |-> d.days[k]])]
<1>1. a \in Nat /\ b \in Nat /\ a <= b /\ DOMAIN d.days = D /\ \A k \in D : d.days[k] \in Nat
  BY DEF IsSupported, IsTabled
<1>2. trend = [i \in C |-> Row(i)]
  BY DEF Trend
<1>3. \A i : Row(i).seconds = d.days[a + i - 1]
  OBVIOUS
<1>. HIDE DEF a, b, Row
<1>4. c \in Nat
  BY <1>1, SMT
<1>5. /\ \A i \in C : g[i] \in D /\ g[i] = a + i - 1
      /\ \A i, j \in C : i # j => g[i] # g[j]
      /\ \A k \in D : k - a + 1 \in C /\ g[k - a + 1] = k
  <2>1. /\ \A i \in C : a + i - 1 \in D
        /\ \A i, j \in C : i # j => a + i - 1 # a + j - 1
        /\ \A k \in D : k - a + 1 \in C /\ a + (k - a + 1) - 1 = k
    BY <1>1, SMT
  <2>. HIDE DEF C, D
  <2>. QED BY <2>1
<1>6. n = c
  <2>1. DOMAIN trend = 1 .. c /\ trend = [i \in 1 .. c |-> trend[i]]
    BY <1>2
  <2>. HIDE DEF c
  <2>. QED BY <1>4, <2>1, LengthOf
<1>7. IsFiniteSet(C) /\ IsFiniteSet(D)
  <2>1. IsFiniteSet(C)
    BY <1>4, FS_Interval
  <2>2. IsFiniteSet(D)
    BY <1>1, FS_Interval
  <2>. QED BY <2>1, <2>2
<1>8. \A i \in C : h[i] = d.days[g[i]]
  BY <1>2, <1>3, <1>5, <1>6
<1>9. DOMAIN trend = 1 .. n
  BY <1>2, <1>6
<1>10. n \in Nat /\ C = 1 .. n
  BY <1>4, <1>6
<1>. HIDE DEF g, C, D, c
<1>11. PICK f : f = d.days
  OBVIOUS
<1>12. Renames(g, C, D, h, f)
  BY <1>5, <1>8, <1>11 DEF Renames
<1>13. \A k \in D : f[k] \in Nat
  BY <1>1, <1>11
<1>14. Plus(h, C) = Plus(f, D)
  BY <1>7, <1>12, <1>13, PlusReindexed
<1>15. SumOf(f) = Plus(f, D)
  BY <1>1, <1>11, SumOfIsPlus
<1>16. SumOf(f) = d.total
  BY <1>11 DEF IsSupported, TablesAccountForHours
<1>17. \A i \in C : h[i] \in Nat
  BY <1>5, <1>8, <1>11, <1>13
<1>. QED
  BY <1>9, <1>10, <1>14, <1>15, <1>16, <1>17 DEF AddUp

LEMMA WeeksAddUp ==
    ASSUME NEW d, IsSupported(d), NEW weeks, IsByWeek(weeks, d), NEW n, n = WeekCount(d),
           NEW h, h = [i \in 1 .. n |-> weeks[i - 1]]
    PROVE  AddUp(n, h, SumOf(weeks))
<1>. DEFINE N == 1 .. n
            D == 0 .. n - 1
            g == [i \in N |-> i - 1]
<1>1. n \in Nat /\ DOMAIN weeks = D /\ \A i \in D : weeks[i] \in Nat
  BY DEF IsSupported, IsByWeek
<1>2. /\ \A i \in N : i - 1 \in D
      /\ \A i, j \in N : i # j => i - 1 # j - 1
      /\ \A k \in D : k + 1 \in N /\ (k + 1) - 1 = k
  BY <1>1, SMT
<1>3. IsFiniteSet(N) /\ IsFiniteSet(D)
  <2>1. IsFiniteSet(N)
    BY <1>1, FS_Interval
  <2>2. 0 \in Int /\ n - 1 \in Int
    BY <1>1, SMT
  <2>3. IsFiniteSet(D)
    BY <2>2, FS_Interval
  <2>. QED BY <2>1, <2>3
<1>4. \A i \in N : g[i] = i - 1 /\ h[i] = weeks[i - 1]
  OBVIOUS
<1>. HIDE DEF g, N, D
<1>5. Renames(g, N, D, h, weeks)
  <2>1. ASSUME NEW k \in D PROVE k + 1 \in N /\ g[k + 1] = k
    <3>1. k + 1 \in N /\ (k + 1) - 1 = k
      BY <1>2
    <3>2. g[k + 1] = (k + 1) - 1
      BY <1>4, <3>1
    <3>. QED BY <3>1, <3>2
  <2>2. ASSUME NEW i \in N PROVE g[i] \in D /\ h[i] = weeks[g[i]]
    <3>1. i - 1 \in D
      BY <1>2
    <3>2. g[i] = i - 1 /\ h[i] = weeks[i - 1]
      BY <1>4
    <3>. QED BY <3>1, <3>2
  <2>3. ASSUME NEW i \in N, NEW j \in N, i # j PROVE g[i] # g[j]
    <3>1. i - 1 # j - 1
      BY <1>2, <2>3
    <3>2. g[i] = i - 1 /\ g[j] = j - 1
      BY <1>4
    <3>. QED BY <3>1, <3>2
  <2>4. \A k \in D : \E i \in N : g[i] = k
    BY <2>1
  <2>. QED BY <2>2, <2>3, <2>4 DEF Renames
<1>6. Plus(h, N) = Plus(weeks, D)
  BY <1>1, <1>3, <1>5, PlusReindexed
<1>7. SumOf(weeks) = Plus(weeks, D)
  BY <1>1, SumOfIsPlus
<1>8. \A i \in N : h[i] \in Nat
  BY <1>1, <1>2, <1>4
<1>. QED
  BY <1>1, <1>6, <1>7, <1>8 DEF AddUp, N

LEMMA SlicesAddUpTo ==
    ASSUME NEW s, IsSlices(s), NEW n, n = Len(s), NEW h, h = [i \in 1 .. n |-> s[i].seconds]
    PROVE  AddUp(n, h, SumOf([i \in DOMAIN s |-> s[i].seconds]))
<1>1. n \in Nat /\ DOMAIN s = 1 .. n /\ \A i \in 1 .. n : s[i].seconds \in Nat
  BY DEF IsSlices
<1>2. DOMAIN h = 1 .. n /\ \A i \in 1 .. n : h[i] \in Nat
  BY <1>1
<1>3. h = [i \in DOMAIN s |-> s[i].seconds]
  BY <1>1
<1>4. SumOf(h) = Plus(h, 1 .. n)
  BY <1>2, SumOfIsPlus
<1>. QED
  BY <1>1, <1>2, <1>3, <1>4, Zenon DEF AddUp

\* The members for whom there is room: the first of their rows.
AreShown(d, rows, n, h) ==
    /\ DOMAIN rows = 1 .. n /\ rows = [i \in 1 .. n |-> rows[i]]
    /\ AddUp(n, h, ShownHoursOf(d)) /\ n <= Len(RankedMembers(d))
    /\ \A i \in 1 .. n : /\ rows[i] = RankedMembers(d)[i] /\ h[i] = rows[i].seconds
                         /\ IsByWeek(rows[i].weeks, d) /\ rows[i].seconds = SumOf(rows[i].weeks)

LEMMA MembersShown ==
    ASSUME NEW d, IsSupported(d), NEW rows, rows = ShownMembersOf(d), NEW n, n = Len(rows),
           NEW h, h = [i \in 1 .. n |-> rows[i].seconds]
    PROVE  AreShown(d, rows, n, h)
<1>. DEFINE count == Cardinality(DOMAIN d.members)
            k == AtMost(count, MaxChartMembers)
<1>1. PICK all : all = RankedMembers(d)
  OBVIOUS
<1>2. AreMemberRows(d, all)
  BY <1>1, MemberRowsDiffer
<1>3. /\ Len(all) = count /\ count \in Nat /\ DOMAIN all = 1 .. count
      /\ all = [i \in 1 .. count |-> all[i]]
  BY <1>2 DEF AreMemberRows, AreRows
<1>4. rows = SubSeq(all, 1, k)
  BY <1>1 DEF ShownMembersOf
<1>. HIDE DEF count
<1>5. k \in Nat /\ k <= count
  <2>1. MaxChartMembers \in Nat
    BY ReportPresentationAssumption DEF ReportPresentationAssumption
  <2>. QED BY <1>3, <2>1, SMT DEF AtMost
<1>. HIDE DEF k
<1>6. DOMAIN rows = 1 .. k /\ rows = [i \in 1 .. k |-> rows[i]] /\ \A i \in 1 .. k : rows[i] = all[i]
  <2>1. PICK S : S = {all[i] : i \in 1 .. count}
    OBVIOUS
  <2>2. 1 \in Int /\ k \in Int /\ \A i \in 1 .. k : i \in 1 .. count
    BY <1>3, <1>5, SMT
  <2>3. \A i \in 1 .. k : all[i] \in S
    BY <2>1, <2>2
  <2>4. /\ SubSeq(all, 1, k) \in Seq(S)
        /\ Len(SubSeq(all, 1, k)) = IF 1 <= k THEN k - 1 + 1 ELSE 0
        /\ \A i \in 1 .. k - 1 + 1 : SubSeq(all, 1, k)[i] = all[1 + i - 1]
    BY <2>2, <2>3, SubSeqProperties
  <2>5. k - 1 + 1 = k /\ (IF 1 <= k THEN k - 1 + 1 ELSE 0) = k /\ \A i \in 1 .. k : 1 + i - 1 = i
    BY <1>5, SMT
  <2>6. rows \in Seq(S) /\ Len(rows) = k /\ \A i \in 1 .. k : rows[i] = all[i]
    BY <1>4, <2>4, <2>5
  <2>7. DOMAIN rows = 1 .. k /\ rows \in [1 .. k -> S]
    BY <2>6, LenProperties
  <2>. QED BY <2>6, <2>7
<1>7. n = k
  BY <1>5, <1>6, LengthOf
<1>8. \A i \in 1 .. n : i \in 1 .. Len(all)
  BY <1>3, <1>5, <1>7, SMT
<1>9. \A i \in 1 .. n : /\ rows[i] = all[i] /\ h[i] = rows[i].seconds /\ h[i] \in Nat
                        /\ IsByWeek(rows[i].weeks, d) /\ rows[i].seconds = SumOf(rows[i].weeks)
  BY <1>2, <1>6, <1>7, <1>8 DEF AreMemberRows
<1>10. DOMAIN h = 1 .. n
  OBVIOUS
<1>11. SumOf(h) = Plus(h, 1 .. n)
  BY <1>9, <1>10, SumOfIsPlus
<1>12. ShownHoursOf(d) = SumOf(h)
  <2>1. h = [i \in DOMAIN rows |-> rows[i].seconds]
    BY <1>6, <1>7
  <2>. QED BY <2>1, Zenon DEF ShownHoursOf
<1>13. AddUp(n, h, ShownHoursOf(d))
  BY <1>5, <1>7, <1>9, <1>11, <1>12 DEF AddUp
<1>. QED
  BY <1>1, <1>3, <1>5, <1>6, <1>7, <1>9, <1>13 DEF AreShown

---------------------------------------------------------------------------
(* The rows of the tables that are plotted.                                 *)

\* A label, the values and what they come to.
IsFlanked(row, n, a, mid, b) ==
    /\ DOMAIN row = 1 .. n + 2 /\ row[1] = a /\ row[n + 2] = b
    /\ \A i \in 1 .. n : row[1 + i] = mid[i]

LEMMA Flanked ==
    ASSUME NEW n \in Nat, NEW mid, DOMAIN mid = 1 .. n, mid = [i \in 1 .. n |-> mid[i]],
           NEW a, NEW b, NEW row, row = <<a>> \o mid \o <<b>>
    PROVE  IsFlanked(row, n, a, mid, b)
<1>1. PICK S, front, last, x, l, one :
          /\ S = {a, b} \cup {mid[i] : i \in 1 .. n} /\ front = <<a>> /\ last = <<b>>
          /\ x = front \o mid /\ l = 1 + n /\ one = 1
  OBVIOUS
<1>2. /\ one \in Nat /\ front \in [1 .. one -> S] /\ front[1] = a /\ last \in [1 .. one -> S] /\ last[1] = b
      /\ mid \in [1 .. n -> S] /\ 1 \in 1 .. one
  BY <1>1
<1>3. l \in Nat /\ 1 \in 1 .. l /\ l = one + n /\ l + one = n + 2 /\ l + 1 = n + 2
      /\ \A i \in 1 .. n : 1 + i \in 1 .. l
  BY <1>1, SMT
<1>4. row = x \o last
  BY <1>1
<1>5. IsJoined(x, one, front, n, mid)
  BY <1>1, <1>2, RowsJoined
<1>6. /\ x \in [1 .. l -> S]
  <2>1. front \o mid \in [1 .. one + n -> S]
    BY <1>2, JoinedType
  <2>. QED BY <1>1, <1>3, <2>1
<1>7. x[1] = a /\ \A i \in 1 .. n : x[1 + i] = mid[i]
  BY <1>1, <1>2, <1>5 DEF IsJoined
<1>8. IsJoined(row, l, x, one, last)
  BY <1>2, <1>3, <1>4, <1>6, RowsJoined
<1>9. DOMAIN row = 1 .. n + 2 /\ row[n + 2] = b /\ \A i \in 1 .. l : row[i] = x[i]
  BY <1>2, <1>3, <1>8 DEF IsJoined
<1>10. row[1] = a /\ \A i \in 1 .. n : row[1 + i] = mid[i]
  BY <1>3, <1>7, <1>9
<1>. QED
  BY <1>9, <1>10 DEF IsFlanked

LEMMA WeekHeaderIs ==
    ASSUME NEW d, IsSupported(d), NEW n, n = WeekCount(d), NEW header, header = WeekHeader(d)
    PROVE  /\ DOMAIN header = 1 .. n + 2 /\ header[1] = Text
           /\ \A i \in 1 .. n : \E x : header[1 + i] = Label(x)
<1>1. n \in Nat
  BY DEF IsSupported
<1>2. PICK mid : mid = WeekLabels(d)
  OBVIOUS
<1>3. DOMAIN mid = 1 .. n /\ mid = [i \in 1 .. n |-> mid[i]] /\ \A i \in 1 .. n : \E x : mid[i] = Label(x)
  <2>. DEFINE L(i) == ReportWeeks(d.period)[i - 1].from
  <2>1. mid = [i \in 1 .. n |-> Label(L(i))]
    BY <1>2 DEF WeekLabels
  <2>. HIDE DEF L
  <2>. QED BY <2>1
<1>4. header = <<Text>> \o mid \o <<Text>>
  BY <1>2 DEF WeekHeader
<1>5. PICK t : t = Text
  OBVIOUS
<1>6. IsFlanked(header, n, t, mid, t)
  BY <1>1, <1>3, <1>4, <1>5, Flanked
<1>. QED
  BY <1>3, <1>5, <1>6 DEF IsFlanked

LEMMA WeekRowIs ==
    ASSUME NEW d, IsSupported(d), NEW n, n = WeekCount(d), NEW member, NEW weeks, NEW total,
           NEW row, row = WeekRow(d, member, weeks, total)
    PROVE  /\ DOMAIN row = 1 .. n + 2 /\ row[1] = Label(member) /\ row[n + 2] = Duration(total)
           /\ \A i \in 1 .. n : row[1 + i] = Duration(weeks[i - 1])
<1>1. n \in Nat
  BY DEF IsSupported
<1>2. PICK mid, a, b : mid = WeekHours(d, weeks) /\ a = Label(member) /\ b = Duration(total)
  OBVIOUS
<1>3. /\ DOMAIN mid = 1 .. n /\ mid = [i \in 1 .. n |-> mid[i]]
      /\ \A i \in 1 .. n : mid[i] = Duration(weeks[i - 1])
  BY <1>2 DEF WeekHours
<1>4. row = <<a>> \o mid \o <<b>>
  BY <1>2 DEF WeekRow
<1>5. IsFlanked(row, n, a, mid, b)
  BY <1>1, <1>3, <1>4, Flanked
<1>. QED
  BY <1>2, <1>3, <1>5 DEF IsFlanked

LEMMA TrendRowsAre ==
    ASSUME NEW d, NEW trend, trend = Trend(d), NEW n, DOMAIN trend = 1 .. n, NEW body, body = TrendRows(d)
    PROVE  /\ IsTable(body, n, 3)
           /\ \A i \in 1 .. n : (\E x : body[i][1] = Label(x)) /\ body[i][2] = Duration(trend[i].seconds)
<1>. DEFINE Row(i) == <<Label(trend[i].day), Duration(trend[i].seconds), Duration(trend[i].cumulative)>>
<1>1. body = [i \in 1 .. n |-> Row(i)]
  BY DEF TrendRows
<1>2. \A i : /\ DOMAIN Row(i) = 1 .. 3 /\ (\E x : Row(i)[1] = Label(x))
             /\ Row(i)[2] = Duration(trend[i].seconds)
  OBVIOUS
<1>. HIDE DEF Row
<1>. QED
  BY <1>1, <1>2 DEF IsTable

LEMMA SliceRowsAre ==
    ASSUME NEW s, IsSlices(s), NEW n, n = Len(s), NEW body, body = SliceRows(s)
    PROVE  /\ IsTable(body, n, 2)
           /\ \A i \in 1 .. n : (\E x : body[i][1] = Label(x)) /\ body[i][2] = Duration(s[i].seconds)
<1>. DEFINE Row(i) == <<Label(s[i].label), Duration(s[i].seconds)>>
<1>1. body = [i \in 1 .. n |-> Row(i)]
  BY DEF SliceRows, IsSlices
<1>2. \A i : /\ DOMAIN Row(i) = 1 .. 2 /\ (\E x : Row(i)[1] = Label(x))
             /\ Row(i)[2] = Duration(s[i].seconds)
  OBVIOUS
<1>. HIDE DEF Row
<1>. QED
  BY <1>1, <1>2 DEF IsTable

LEMMA PairFits ==
    ASSUME NEW row \in Nat, NEW column \in Nat, NEW a, NEW b, NEW cells,
           cells = Table(row, column, <<<<a, b>>>>)
    PROVE  Box(row, row, column, column + 1) \in Boxes /\ Fits(cells, Box(row, row, column, column + 1))
<1>1. PICK rows, n, m : rows = <<<<a, b>>>> /\ n = 1 /\ m = 2
  OBVIOUS
<1>2. IsTable(rows, n, m) /\ n \in Nat /\ m \in Nat /\ cells = Table(row, column, rows)
  BY <1>1 DEF IsTable
<1>3. Fits(cells, Box(row, row + n - 1, column, column + m - 1))
  BY <1>2, TableFits
<1>4. row + n - 1 = row /\ column + m - 1 = column + 1 /\ row \in Int /\ column \in Int /\ column + 1 \in Int
  BY <1>1, SMT
<1>. QED
  BY <1>3, <1>4 DEF Box, Boxes

LEMMA MergedFits ==
    ASSUME NEW row \in Nat, NEW last \in Nat, NEW cells, cells = Merged(row, last)
    PROVE  Box(row, row, 0, last) \in Boxes /\ Fits(cells, Box(row, row, 0, last))
<1>1. PICK rows, n, m, left : rows = <<Texts(last + 1)>> /\ n = 1 /\ m = last + 1 /\ left = 0
  OBVIOUS
<1>2. /\ IsTable(rows, n, m) /\ n \in Nat /\ m \in Nat /\ left \in Nat
      /\ cells = Table(row, left, rows)
  <2>1. DOMAIN rows = 1 .. n /\ rows = [i \in 1 .. n |-> rows[i]] /\ rows[1] = Texts(last + 1)
        /\ \A i \in 1 .. n : i = 1
    BY <1>1
  <2>2. DOMAIN Texts(last + 1) = 1 .. m
    BY <1>1 DEF Texts
  <2>3. n \in Nat /\ m \in Nat /\ left \in Nat
    BY <1>1, SMT
  <2>. QED BY <1>1, <2>1, <2>2, <2>3 DEF IsTable, Merged
<1>3. Fits(cells, Box(row, row + n - 1, left, left + m - 1))
  BY <1>2, TableFits
<1>4. row + n - 1 = row /\ left + m - 1 = last /\ row \in Int /\ last \in Int
  BY <1>1, SMT
<1>. QED
  BY <1>1, <1>3, <1>4 DEF Box, Boxes

\* Labels beside their values, one under the other.
LEMMA LabelValuesFit ==
    ASSUME NEW n \in Nat, NEW rows, DOMAIN rows = 1 .. n,
           NEW cells, cells = UNION {LabelValue(1 + i, rows[i]) : i \in DOMAIN rows}
    PROVE  Box(2, 1 + n, 0, 1) \in Boxes /\ Fits(cells, Box(2, 1 + n, 0, 1))
<1>1. PICK body, m, top, left : /\ body = [i \in 1 .. n |-> <<Text, rows[i]>>]
                                /\ m = 2 /\ top = 2 /\ left = 0
  OBVIOUS
<1>2. IsTable(body, n, m)
  BY <1>1 DEF IsTable
<1>3. ASSUME NEW i \in 1 .. n
      PROVE  LabelValue(1 + i, rows[i]) = {Cell(top + i - 1, left + j - 1, body[i][j]) : j \in 1 .. m}
  <2>1. PICK k, v : k = 1 + i /\ v = rows[i]
    OBVIOUS
  <2>2. PICK pair, table : pair = <<Text, v>> /\ table = <<pair>>
    OBVIOUS
  <2>3. IsTable(table, 1, 2) /\ 1 \in Nat /\ 2 \in Nat /\ 0 \in Nat /\ k \in Nat
    <3>1. DOMAIN table = 1 .. 1 /\ table = [x \in 1 .. 1 |-> table[x]] /\ table[1] = pair
          /\ DOMAIN pair = 1 .. 2 /\ \A x \in 1 .. 1 : x = 1
      BY <2>2
    <3>2. k \in Nat
      BY <2>1, SMT
    <3>. QED BY <3>1, <3>2 DEF IsTable
  <2>4. PICK one, two, zero : one = 1 /\ two = 2 /\ zero = 0
    OBVIOUS
  <2>5. PICK set : set = LabelValue(k, v)
    OBVIOUS
  <2>6. set = Table(k, zero, table) /\ IsTable(table, one, two) /\ one \in Nat /\ two \in Nat /\ zero \in Nat
    BY <2>2, <2>3, <2>4, <2>5 DEF LabelValue
  <2>7. HasCells(set, k, zero, table, one, two)
    BY <2>3, <2>6, CellsOfTable
  <2>8. k + 1 - 1 = top + i - 1
    BY <1>1, <2>1, SMT
  <2>9. table[1] = body[i]
    BY <1>1, <2>1, <2>2
  <2>10. \A x \in 1 .. one : x = 1
    BY <2>4
  <2>11. set = {Cell(k + 1 - 1, zero + j - 1, table[1][j]) : j \in 1 .. two}
    <3>1. 1 \in 1 .. one
      BY <2>4
    <3>. DEFINE Row(x) == {Cell(k + x - 1, zero + j - 1, table[x][j]) : j \in 1 .. two}
    <3>2. set = UNION {Row(x) : x \in 1 .. one}
      BY <2>7 DEF HasCells
    <3>. HIDE DEF Row
    <3>3. set = Row(1)
      BY <2>10, <3>1, <3>2
    <3>. QED BY <3>3 DEF Row
  <2>. QED BY <1>1, <2>1, <2>4, <2>5, <2>8, <2>9, <2>11
<1>4. cells = UNION {{Cell(top + i - 1, left + j - 1, body[i][j]) : j \in 1 .. m} : i \in 1 .. n}
  BY <1>3
<1>5. m \in Nat /\ top \in Nat /\ left \in Nat
  BY <1>1
<1>6. cells = Table(top, left, body)
  <2>1. PICK table : table = Table(top, left, body)
    OBVIOUS
  <2>2. HasCells(table, top, left, body, n, m)
    BY <1>2, <1>5, <2>1, CellsOfTable
  <2>. QED BY <1>4, <2>1, <2>2 DEF HasCells
<1>7. Fits(cells, Box(top, top + n - 1, left, left + m - 1))
  BY <1>2, <1>5, <1>6, TableFits
<1>8. top + n - 1 = 1 + n /\ left + m - 1 = 1 /\ 1 + n \in Int
  BY <1>1, SMT
<1>. QED
  BY <1>1, <1>7, <1>8 DEF Box, Boxes

---------------------------------------------------------------------------
(* The sheets of one chart.                                                 *)

\* A sheet with one chart over cells that are beside it.
LEMMA SheetOfOneChart ==
    ASSUME NEW d, NEW s, NEW box \in Boxes, Fits(s.cells, box),
           \A f \in s.filter : Places(s.cells) = (0 .. f.lastRow) \X (0 .. f.lastColumn),
           NEW row \in Nat, NEW column \in Nat, NEW series, s.charts = ChartAt(row, column, series),
           box.bottom < row \/ box.right < column,
           \A chart : chart.series = series => ChartIsOfTheDocument(d, s, chart)
    PROVE  IsRightSheet(d, s)
<1>1. PICK chart : chart = [row |-> row, column |-> column, series |-> series]
  OBVIOUS
<1>2. s.charts = {chart} /\ chart.row = row /\ chart.column = column /\ chart.series = series
  BY <1>1 DEF ChartAt
<1>3. IsClear(s.cells, chart)
  BY <1>2, BoxIsClear
<1>4. SheetIsWellLaidOut(s)
  BY <1>2, <1>3, LaidOut
<1>. QED
  BY <1>2, <1>4 DEF IsRightSheet

LEMMA WeeklySheetIsRight ==
    ASSUME NEW d, IsSupported(d)
    PROVE  IsRightSheet(d, WeeklySheet(d))
<1>1. PICK s, n, header, row, table, cells, m, two, zero :
          /\ s = WeeklySheet(d) /\ n = WeekCount(d) /\ header = WeekHeader(d)
          /\ row = WeekRow(d, User, d.weeks, d.total) /\ table = <<header, row>>
          /\ cells = s.cells /\ m = n + 2 /\ two = 2 /\ zero = 0
  OBVIOUS
<1>2. n \in Nat /\ m \in Nat /\ two \in Nat /\ zero \in Nat /\ m - 1 = n + 1 /\ two - 1 = 1
      /\ \A i \in 1 .. n : 1 + i \in 1 .. m /\ zero + (1 + i) - 1 = i
  <2>1. n \in Nat
    BY <1>1 DEF IsSupported
  <2>. QED BY <1>1, <2>1, SMT
<1>3. /\ DOMAIN header = 1 .. m
      /\ \A i \in 1 .. n : \E x : header[1 + i] = Label(x)
  BY <1>1, WeekHeaderIs
<1>4. DOMAIN row = 1 .. m /\ \A i \in 1 .. n : row[1 + i] = Duration(d.weeks[i - 1])
  BY <1>1, WeekRowIs
<1>5. /\ DOMAIN table = 1 .. two /\ table = [i \in 1 .. two |-> table[i]]
      /\ table[1] = header /\ table[2] = row /\ \A i \in 1 .. two : i = 1 \/ i = 2
      /\ 1 \in 1 .. two /\ 2 \in 1 .. two
  BY <1>1
<1>6. IsTable(table, two, m)
  BY <1>3, <1>4, <1>5 DEF IsTable
<1>7. /\ cells = Table(zero, zero, table) /\ s.filter = Filtered(1, n + 1)
      /\ s.charts = ChartAt(3, n + 2, {Series(Across(0, 1, n), Across(1, 1, n))})
  BY <1>1 DEF WeeklySheet, Sheet
<1>8. PICK box : box = Box(zero, zero + two - 1, zero, zero + m - 1)
  OBVIOUS
<1>9. Fits(cells, box)
  BY <1>2, <1>6, <1>7, <1>8, TableFits
<1>10. box \in Boxes /\ box.bottom = 1
  <2>1. zero + two - 1 = 1 /\ zero + m - 1 \in Int /\ zero \in Int
    BY <1>1, <1>2, SMT
  <2>. QED BY <1>8, <2>1 DEF Box, Boxes
<1>11. \A f \in s.filter : Places(cells) = (0 .. f.lastRow) \X (0 .. f.lastColumn)
  <2>1. Places(cells) = (0 .. two - 1) \X (0 .. m - 1)
    BY <1>1, <1>2, <1>6, <1>7, TableFills
  <2>2. \A f \in s.filter : f.lastRow = 1 /\ f.lastColumn = n + 1
    BY <1>7 DEF Filtered
  <2>. QED BY <1>2, <2>1, <2>2
<1>12. ASSUME NEW i \in 1 .. two, NEW j \in 1 .. m
       PROVE  Cell(zero + i - 1, zero + j - 1, table[i][j]) \in cells
  BY <1>2, <1>6, <1>7, TableHolds
<1>13. PICK h : h = [i \in 1 .. n |-> d.weeks[i - 1]]
  OBVIOUS
<1>14. AddUp(n, h, SumOf(d.weeks)) /\ SumOf(d.weeks) = d.total
  <2>1. IsByWeek(d.weeks, d) /\ SumOf(d.weeks) = d.total
    BY DEF IsSupported, TablesAccountForHours
  <2>. QED BY <1>1, <1>13, <2>1, WeeksAddUp
<1>15. ASSUME NEW i \in 1 .. n
       PROVE  /\ h[i] \in Nat /\ Cell(1, i, Duration(h[i])) \in cells
              /\ \E x : Cell(0, i, Label(x)) \in cells
  <2>1. zero + 1 - 1 = 0 /\ zero + 2 - 1 = 1
    BY <1>1
  <2>2. Cell(0, i, header[1 + i]) \in cells /\ Cell(1, i, row[1 + i]) \in cells
    <3>1. Cell(zero + 1 - 1, zero + (1 + i) - 1, table[1][1 + i]) \in cells
      BY <1>2, <1>5, <1>12
    <3>2. Cell(zero + 2 - 1, zero + (1 + i) - 1, table[2][1 + i]) \in cells
      BY <1>2, <1>5, <1>12
    <3>. QED BY <1>2, <1>5, <2>1, <3>1, <3>2
  <2>3. row[1 + i] = Duration(h[i]) /\ h[i] \in Nat
    BY <1>4, <1>13, <1>14 DEF AddUp
  <2>. QED BY <1>3, <2>2, <2>3
<1>16. Plus(h, 1 .. n) \in {d.total, ShownHoursOf(d)}
  BY <1>14 DEF AddUp
<1>17. ASSUME NEW chart, chart.series = {Series(Across(0, 1, n), Across(1, 1, n))}
       PROVE  ChartIsOfTheDocument(d, s, chart)
  BY <1>1, <1>2, <1>9, <1>15, <1>16, <1>17, RowPlotted
<1>18. PICK top, left : top = 3 /\ left = n + 2
  OBVIOUS
<1>19. top \in Nat /\ left \in Nat /\ box.bottom < top
  BY <1>2, <1>10, <1>18, SMT
<1>20. PICK series : series = {Series(Across(0, 1, n), Across(1, 1, n))}
  OBVIOUS
<1>21. IsRightSheet(d, s)
  <2>1. s.charts = ChartAt(top, left, series)
    BY <1>7, <1>18, <1>20
  <2>2. \A chart : chart.series = series => ChartIsOfTheDocument(d, s, chart)
    BY <1>17, <1>20
  <2>. QED BY <1>1, <1>9, <1>10, <1>11, <1>19, <2>1, <2>2, SheetOfOneChart
<1>. QED
  BY <1>1, <1>21

LEMMA TeamDailySheetIsRight ==
    ASSUME NEW d, IsSupported(d)
    PROVE  IsRightSheet(d, TeamDailySheet(d))
<1>1. PICK s, trend, n, header, body, cells, h, zero, three :
          /\ s = TeamDailySheet(d) /\ trend = Trend(d) /\ n = Len(trend) /\ header = Texts(3)
          /\ body = TrendRows(d) /\ cells = s.cells /\ h = [i \in 1 .. n |-> trend[i].seconds]
          /\ zero = 0 /\ three = 3
  OBVIOUS
<1>2. AddUp(n, h, d.total) /\ DOMAIN trend = 1 .. n
  BY <1>1, TrendAddsUp
<1>3. /\ IsTable(body, n, 3)
      /\ \A i \in 1 .. n : (\E x : body[i][1] = Label(x)) /\ body[i][2] = Duration(trend[i].seconds)
  BY <1>1, <1>2, TrendRowsAre
<1>4. DOMAIN header = 1 .. three /\ IsTable(body, n, three) /\ n \in Nat /\ three \in Nat /\ zero \in Nat
      /\ 2 = three - 1
  BY <1>1, <1>2, <1>3 DEF Texts, AddUp
<1>5. /\ cells = Table(zero, zero, <<header>> \o body) /\ s.filter = Filtered(n, 2)
      /\ s.charts = ChartAt(1, 4, {Series(Down(1, n, 0), Down(1, n, 1))})
  BY <1>1 DEF TeamDailySheet, Sheet
<1>6. IsHeadedAt(cells, zero, zero, n, three, header, body)
  BY <1>4, <1>5, HeadedCells
<1>7. PICK box : box = Box(zero, zero + n, zero, zero + three - 1)
  OBVIOUS
<1>8. box \in Boxes /\ Fits(cells, box) /\ box.right = 2
  BY <1>1, <1>6, <1>7 DEF IsHeadedAt, Box
<1>9. \A f \in s.filter : Places(cells) = (0 .. f.lastRow) \X (0 .. f.lastColumn)
  <2>1. PICK l : l = 2
    OBVIOUS
  <2>2. cells = Table(0, 0, <<header>> \o body) /\ l = three - 1 /\ s.filter = Filtered(n, l)
    BY <1>1, <1>4, <1>5, <2>1
  <2>3. n \in Nat /\ three \in Nat /\ DOMAIN header = 1 .. three /\ IsTable(body, n, three)
    BY <1>4
  <2>4. \A f \in Filtered(n, l) : Places(cells) = (0 .. f.lastRow) \X (0 .. f.lastColumn)
    BY ONLY <2>2, <2>3, HeadedPlaces, SMT
  <2>. QED BY <2>2, <2>4
<1>10. PICK from, top, left, last, label, value :
          from = 1 /\ top = 1 /\ left = 4 /\ last = n /\ label = 0 /\ value = 1
  OBVIOUS
<1>17. PICK series : series = ColumnSeries(from, last, label, value)
  OBVIOUS
<1>11. Columns(cells, n, from, label, value, h)
  <2>1. ASSUME NEW i \in 1 .. n
        PROVE  /\ h[i] \in Nat /\ Cell(from + i - 1, value, Duration(h[i])) \in cells
               /\ \E x : Cell(from + i - 1, label, Label(x)) \in cells
    <3>1. Cell(zero + i, zero + 1 - 1, body[i][1]) \in cells
          /\ Cell(zero + i, zero + 2 - 1, body[i][2]) \in cells
      BY <1>1, <1>6 DEF IsHeadedAt
    <3>2. zero + i = from + i - 1 /\ zero + 1 - 1 = label /\ zero + 2 - 1 = value
      BY <1>1, <1>10, SMT
    <3>3. body[i][2] = Duration(h[i]) /\ (\E x : body[i][1] = Label(x)) /\ h[i] \in Nat
      BY <1>1, <1>2, <1>3 DEF AddUp
    <3>. QED BY <3>1, <3>2, <3>3
  <2>. QED BY <2>1 DEF Columns
<1>12. from \in Nat /\ last = from + n - 1 /\ top \in Nat /\ left \in Nat /\ box.right < left
  BY <1>4, <1>8, <1>10, SMT
<1>13. AreToPlot(d, n, h)
  BY <1>2 DEF AddUp, AreToPlot
<1>14. ASSUME NEW chart, chart.series = series PROVE ChartIsOfTheDocument(d, s, chart)
  <2>1. chart.series = ColumnSeries(from, last, label, value)
    BY <1>14, <1>17
  <2>2. Fits(s.cells, box) /\ Columns(s.cells, n, from, label, value, h)
    BY <1>1, <1>8, <1>11
  <2>. QED BY <1>4, <1>12, <1>13, <2>1, <2>2, ColumnsPlotted
<1>15. s.charts = ChartAt(top, left, series)
  BY <1>5, <1>10, <1>17 DEF ColumnSeries
<1>16. IsRightSheet(d, s)
  BY <1>1, <1>8, <1>9, <1>12, <1>14, <1>15, SheetOfOneChart
<1>. QED
  BY <1>1, <1>16

---------------------------------------------------------------------------
(* The columns that the charts of the first sheets plot.                    *)

\* Rows that have a label and then its hours.
ArePairs(body, n, h) ==
    \A i \in 1 .. n : h[i] \in Nat /\ body[i][2] = Duration(h[i]) /\ \E x : body[i][1] = Label(x)

LEMMA HeadedColumns ==
    ASSUME NEW n \in Nat, NEW m \in Nat, 2 <= m, NEW top \in Nat, NEW left \in Nat, NEW header, NEW body,
           NEW cells, IsHeadedAt(cells, top, left, n, m, header, body), NEW all, cells \subseteq all,
           NEW h, ArePairs(body, n, h), NEW from, from = top + 1, NEW value, value = left + 1
    PROVE  Columns(all, n, from, left, value, h)
<1>1. ASSUME NEW i \in 1 .. n
      PROVE  /\ h[i] \in Nat /\ Cell(from + i - 1, value, Duration(h[i])) \in all
             /\ \E x : Cell(from + i - 1, left, Label(x)) \in all
  <2>1. 1 \in 1 .. m /\ 2 \in 1 .. m
    BY SMT
  <2>2. Cell(top + i, left + 1 - 1, body[i][1]) \in cells /\ Cell(top + i, left + 2 - 1, body[i][2]) \in cells
    BY <2>1 DEF IsHeadedAt
  <2>3. top + i = from + i - 1 /\ left + 1 - 1 = left /\ left + 2 - 1 = value
    BY SMT
  <2>4. h[i] \in Nat /\ body[i][2] = Duration(h[i]) /\ \E x : body[i][1] = Label(x)
    BY DEF ArePairs
  <2>. QED BY <2>2, <2>3, <2>4
<1>. QED
  BY <1>1 DEF Columns

\* A table with no header.
LEMMA PlainColumns ==
    ASSUME NEW n \in Nat, NEW m \in Nat, 2 <= m, NEW top \in Nat, NEW left \in Nat, NEW body,
           IsTable(body, n, m), NEW cells, cells = Table(top, left, body), NEW all, cells \subseteq all,
           NEW h, ArePairs(body, n, h), NEW value, value = left + 1
    PROVE  Columns(all, n, top, left, value, h)
<1>1. ASSUME NEW i \in 1 .. n
      PROVE  /\ h[i] \in Nat /\ Cell(top + i - 1, value, Duration(h[i])) \in all
             /\ \E x : Cell(top + i - 1, left, Label(x)) \in all
  <2>1. PICK one, two : one = 1 /\ two = 2
    OBVIOUS
  <2>2. one \in 1 .. m /\ two \in 1 .. m
    BY <2>1, SMT
  <2>3. Cell(top + i - 1, left + one - 1, body[i][one]) \in cells
    BY <2>2, TableHolds
  <2>4. Cell(top + i - 1, left + two - 1, body[i][two]) \in cells
    BY <2>2, TableHolds
  <2>5. left + one - 1 = left /\ left + two - 1 = value
    BY <2>1, SMT
  <2>6. h[i] \in Nat /\ body[i][2] = Duration(h[i]) /\ \E x : body[i][1] = Label(x)
    BY DEF ArePairs
  <2>. QED BY <2>1, <2>3, <2>4, <2>5, <2>6
<1>. QED
  BY <1>1 DEF Columns

LEMMA TrendPairs ==
    ASSUME NEW d, IsSupported(d), NEW trend, trend = Trend(d), NEW n, n = Len(trend),
           NEW h, h = [i \in 1 .. n |-> trend[i].seconds], NEW body, body = TrendRows(d)
    PROVE  IsTable(body, n, 3) /\ ArePairs(body, n, h) /\ n \in Nat /\ AreToPlot(d, n, h)
<1>1. AddUp(n, h, d.total) /\ DOMAIN trend = 1 .. n
  BY TrendAddsUp
<1>2. /\ IsTable(body, n, 3)
      /\ \A i \in 1 .. n : (\E x : body[i][1] = Label(x)) /\ body[i][2] = Duration(trend[i].seconds)
  BY <1>1, TrendRowsAre
<1>. QED
  BY <1>1, <1>2 DEF AddUp, ArePairs, AreToPlot

LEMMA SlicePairs ==
    ASSUME NEW d, NEW s, IsSlices(s), SumOf([i \in DOMAIN s |-> s[i].seconds]) = d.total, NEW n, n = Len(s),
           NEW h, h = [i \in 1 .. n |-> s[i].seconds], NEW body, body = SliceRows(s)
    PROVE  IsTable(body, n, 2) /\ ArePairs(body, n, h) /\ n \in Nat /\ AreToPlot(d, n, h)
<1>1. AddUp(n, h, d.total)
  BY SlicesAddUpTo
<1>2. /\ IsTable(body, n, 2)
      /\ \A i \in 1 .. n : (\E x : body[i][1] = Label(x)) /\ body[i][2] = Duration(s[i].seconds)
  BY SliceRowsAre
<1>. QED
  BY <1>1, <1>2 DEF AddUp, ArePairs, AreToPlot

LEMMA ClearTogether ==
    ASSUME NEW chart, NEW A, IsClear(A, chart), NEW B, IsClear(B, chart)
    PROVE  IsClear(A \cup B, chart)
BY DEF IsClear

\* The figures of the person, one under the other.
LEMMA FiguresFit ==
    ASSUME NEW f, DOMAIN f = 1 .. 11
    PROVE  /\ Box(2, 12, 0, 1) \in Boxes
           /\ Fits(LabelValue(2, f[1]) \cup LabelValue(3, f[2]) \cup LabelValue(4, f[3])
                   \cup LabelValue(5, f[4]) \cup LabelValue(6, f[5]) \cup LabelValue(7, f[6])
                   \cup LabelValue(8, f[7]) \cup LabelValue(9, f[8]) \cup LabelValue(10, f[9])
                   \cup LabelValue(11, f[10]) \cup LabelValue(12, f[11]), Box(2, 12, 0, 1))
<1>. DEFINE F(i) == LabelValue(1 + i, f[i])
            cells == UNION {F(i) : i \in DOMAIN f}
<1>1. PICK n : n = 11
  OBVIOUS
<1>2. n \in Nat /\ DOMAIN f = 1 .. n
  BY <1>1
<1>3. Box(2, 1 + n, 0, 1) \in Boxes /\ Fits(cells, Box(2, 1 + n, 0, 1))
  BY <1>2, LabelValuesFit
<1>4. DOMAIN f = {1, 2, 3, 4, 5, 6, 7, 8, 9, 10, 11}
  BY SMT
<1>5. /\ F(1) = LabelValue(2, f[1]) /\ F(2) = LabelValue(3, f[2]) /\ F(3) = LabelValue(4, f[3])
      /\ F(4) = LabelValue(5, f[4]) /\ F(5) = LabelValue(6, f[5]) /\ F(6) = LabelValue(7, f[6])
      /\ F(7) = LabelValue(8, f[7]) /\ F(8) = LabelValue(9, f[8]) /\ F(9) = LabelValue(10, f[9])
      /\ F(10) = LabelValue(11, f[10]) /\ F(11) = LabelValue(12, f[11])
  OBVIOUS
<1>. HIDE DEF F
<1>6. cells = F(1) \cup F(2) \cup F(3) \cup F(4) \cup F(5) \cup F(6)
              \cup F(7) \cup F(8) \cup F(9) \cup F(10) \cup F(11)
  BY <1>4, Zenon
<1>. HIDE DEF cells
<1>7. 1 + n = 12
  BY <1>1
<1>. QED
  BY <1>3, <1>5, <1>6, <1>7

---------------------------------------------------------------------------
(* The first sheet of the personal workbook.                                *)

\* The cells of the first sheet: a title, the figures, the trend, and a chart's data.
LEMMA SummaryCells ==
    ASSUME NEW d
    PROVE  \E f : /\ DOMAIN f = 1 .. 11
                  /\ SummarySheet(d).cells
                     = Merged(0, 7)
                       \cup (LabelValue(2, f[1]) \cup LabelValue(3, f[2]) \cup LabelValue(4, f[3])
                             \cup LabelValue(5, f[4]) \cup LabelValue(6, f[5]) \cup LabelValue(7, f[6])
                             \cup LabelValue(8, f[7]) \cup LabelValue(9, f[8]) \cup LabelValue(10, f[9])
                             \cup LabelValue(11, f[10]) \cup LabelValue(12, f[11]))
                       \cup Table(14, 0, <<Texts(3)>> \o TrendRows(d))
                       \cup Table(0, 12, SliceRows(d.taskSlices))
<1>1. PICK f : f = <<Label(User), Text, Text, Duration(d.total),
                     Count(Cardinality(ActiveDays(d))), Count(Cardinality(DOMAIN d.tasks)),
                     Count(Cardinality(d.sources)), Duration(AverageDay(d)), Label(BusiestDays(d)),
                     Count(TopTask(d)), Count(Cardinality(Uncommented(d)))>>
  OBVIOUS
<1>2. DOMAIN f = 1 .. 11
  BY <1>1
<1>3. /\ f[1] = Label(User) /\ f[2] = Text /\ f[3] = Text /\ f[4] = Duration(d.total)
      /\ f[5] = Count(Cardinality(ActiveDays(d))) /\ f[6] = Count(Cardinality(DOMAIN d.tasks))
      /\ f[7] = Count(Cardinality(d.sources)) /\ f[8] = Duration(AverageDay(d))
      /\ f[9] = Label(BusiestDays(d)) /\ f[10] = Count(TopTask(d))
      /\ f[11] = Count(Cardinality(Uncommented(d)))
  BY <1>1
<1>4. PICK a, b, c, x2, x3, x4, x5, x6, x7, x8, x9, x10, x11, x12 :
          /\ a = Merged(0, 7) /\ b = Table(14, 0, <<Texts(3)>> \o TrendRows(d))
          /\ c = Table(0, 12, SliceRows(d.taskSlices))
          /\ x2 = LabelValue(2, f[1]) /\ x3 = LabelValue(3, f[2]) /\ x4 = LabelValue(4, f[3])
          /\ x5 = LabelValue(5, f[4]) /\ x6 = LabelValue(6, f[5]) /\ x7 = LabelValue(7, f[6])
          /\ x8 = LabelValue(8, f[7]) /\ x9 = LabelValue(9, f[8]) /\ x10 = LabelValue(10, f[9])
          /\ x11 = LabelValue(11, f[10]) /\ x12 = LabelValue(12, f[11])
  OBVIOUS
<1>5. SummarySheet(d).cells
      = a \cup x2 \cup x3 \cup x4 \cup x5 \cup x6 \cup x7 \cup x8 \cup x9 \cup x10 \cup x11 \cup x12
        \cup b \cup c
  <2>1. SummarySheet(d).cells
        = Merged(0, 7) \cup LabelValue(2, f[1]) \cup LabelValue(3, f[2])
          \cup LabelValue(4, f[3]) \cup LabelValue(5, f[4])
          \cup LabelValue(6, f[5]) \cup LabelValue(7, f[6]) \cup LabelValue(8, f[7])
          \cup LabelValue(9, f[8]) \cup LabelValue(10, f[9]) \cup LabelValue(11, f[10])
          \cup LabelValue(12, f[11]) \cup Table(14, 0, <<Texts(3)>> \o TrendRows(d))
          \cup Table(0, 12, SliceRows(d.taskSlices))
    BY <1>3, Zenon DEF SummarySheet, Sheet
  <2>. QED BY <1>4, <2>1, Zenon
<1>6. SummarySheet(d).cells
      = a \cup (x2 \cup x3 \cup x4 \cup x5 \cup x6 \cup x7 \cup x8 \cup x9 \cup x10 \cup x11 \cup x12)
        \cup b \cup c
  BY <1>5
<1>. QED
  BY <1>2, <1>4, <1>6, Zenon

LEMMA ChartsAt ==
    ASSUME NEW row, NEW column, NEW series, NEW chart \in ChartAt(row, column, series)
    PROVE  chart.row = row /\ chart.column = column /\ chart.series = series
BY DEF ChartAt

LEMMA SummarySheetIsRight ==
    ASSUME NEW d, IsSupported(d)
    PROVE  IsRightSheet(d, SummarySheet(d))
<1>1. PICK s, trend, n, slices, k, f : 
          /\ s = SummarySheet(d) /\ trend = Trend(d) /\ n = Len(trend)
          /\ slices = d.taskSlices /\ k = Len(slices)
          /\ DOMAIN f = 1 .. 11
          /\ SummarySheet(d).cells
             = Merged(0, 7)
               \cup (LabelValue(2, f[1]) \cup LabelValue(3, f[2]) \cup LabelValue(4, f[3])
                     \cup LabelValue(5, f[4]) \cup LabelValue(6, f[5]) \cup LabelValue(7, f[6])
                     \cup LabelValue(8, f[7]) \cup LabelValue(9, f[8]) \cup LabelValue(10, f[9])
                     \cup LabelValue(11, f[10]) \cup LabelValue(12, f[11]))
               \cup Table(14, 0, <<Texts(3)>> \o TrendRows(d))
               \cup Table(0, 12, SliceRows(d.taskSlices))
  BY SummaryCells, ZenonT(60)
<1>2. PICK M, L, T, S, header, days, tasks :
          /\ M = Merged(0, 7)
          /\ L = LabelValue(2, f[1]) \cup LabelValue(3, f[2]) \cup LabelValue(4, f[3])
                 \cup LabelValue(5, f[4]) \cup LabelValue(6, f[5]) \cup LabelValue(7, f[6])
                 \cup LabelValue(8, f[7]) \cup LabelValue(9, f[8]) \cup LabelValue(10, f[9])
                 \cup LabelValue(11, f[10]) \cup LabelValue(12, f[11])
          /\ T = Table(14, 0, <<Texts(3)>> \o TrendRows(d))
          /\ S = Table(0, 12, SliceRows(d.taskSlices))
          /\ header = Texts(3) /\ days = TrendRows(d) /\ tasks = SliceRows(slices)
  OBVIOUS
<1>3. s.cells = ((M \cup L) \cup T) \cup S
  BY <1>1, <1>2, Zenon
<1>4. PICK h, g : h = [i \in 1 .. n |-> trend[i].seconds] /\ g = [i \in 1 .. k |-> slices[i].seconds]
  OBVIOUS
<1>5. IsTable(days, n, 3) /\ ArePairs(days, n, h) /\ n \in Nat /\ AreToPlot(d, n, h)
  BY <1>1, <1>2, <1>4, TrendPairs
<1>6. IsTable(tasks, k, 2) /\ ArePairs(tasks, k, g) /\ k \in Nat /\ AreToPlot(d, k, g)
  <2>1. IsSlices(slices) /\ SumOf([i \in DOMAIN slices |-> slices[i].seconds]) = d.total
    BY <1>1 DEF IsSupported, TablesAccountForHours
  <2>. QED BY <1>1, <1>2, <1>4, <2>1, SlicePairs, ZenonT(40)
<1>7. PICK two, three, twelve, fourteen, zero : two = 2 /\ three = 3 /\ twelve = 12 /\ fourteen = 14 /\ zero = 0
  OBVIOUS
<1>8. /\ two \in Nat /\ three \in Nat /\ twelve \in Nat /\ fourteen \in Nat /\ zero \in Nat
      /\ 2 <= two /\ 2 <= three /\ DOMAIN header = 1 .. three
  BY <1>2, <1>7 DEF Texts
\* The boxes of the four parts.
<1>9. PICK m, l, t, e : /\ m = Box(0, 0, 0, 7) /\ l = Box(2, 12, 0, 1)
                        /\ t = Box(fourteen, fourteen + n, zero, zero + three - 1)
                        /\ e = Box(zero, zero + k - 1, twelve, twelve + two - 1)
  OBVIOUS
<1>10. m \in Boxes /\ Fits(M, m)
  <2>1. PICK r, c : r = 0 /\ c = 7
    OBVIOUS
  <2>2. r \in Nat /\ c \in Nat /\ M = Merged(r, c) /\ m = Box(r, r, 0, c)
    BY <1>2, <1>9, <2>1
  <2>. QED BY <2>2, MergedFits
<1>11. l \in Boxes /\ Fits(L, l)
  BY <1>1, <1>2, <1>9, FiguresFit, Zenon
<1>12. IsHeadedAt(T, fourteen, zero, n, three, header, days)
  <2>1. T = Table(fourteen, zero, <<header>> \o days) /\ IsTable(days, n, three)
    BY <1>2, <1>5, <1>7
  <2>. QED BY <1>5, <1>8, <2>1, HeadedCells
<1>13. t \in Boxes /\ Fits(T, t)
  BY <1>9, <1>12 DEF IsHeadedAt
<1>14. IsTable(tasks, k, two) /\ S = Table(zero, twelve, tasks)
  BY <1>1, <1>2, <1>6, <1>7
<1>15. e \in Boxes /\ Fits(S, e)
  <2>1. Fits(S, e)
    BY <1>6, <1>8, <1>9, <1>14, TableFits
  <2>2. zero \in Int /\ zero + k - 1 \in Int /\ twelve \in Int /\ twelve + two - 1 \in Int
    BY <1>6, <1>8, SMT
  <2>. QED BY <1>9, <2>1, <2>2 DEF Box, Boxes
<1>16. /\ m.top = 0 /\ m.bottom = 0 /\ m.left = 0 /\ m.right = 7
       /\ l.top = 2 /\ l.bottom = 12 /\ l.left = 0 /\ l.right = 1
       /\ t.top = 14 /\ t.bottom = 14 + n /\ t.left = 0 /\ t.right = 2
       /\ e.top = 0 /\ e.bottom = k - 1 /\ e.left = 12 /\ e.right = 13
  <2>1. zero + three - 1 = 2 /\ zero + k - 1 = k - 1 /\ twelve + two - 1 = 13 /\ fourteen + n = 14 + n
    BY <1>6, <1>7, SMT
  <2>. QED BY <1>7, <1>9, <2>1 DEF Box
<1>17. PICK u, v, w : u = Box(0, 12, 0, 7) /\ v = Box(0, 14 + n, 0, 7) /\ w = Box(0, 14 + n + k, 0, 13)
  OBVIOUS
<1>18. /\ u.top = 0 /\ u.bottom = 12 /\ u.left = 0 /\ u.right = 7
       /\ v.top = 0 /\ v.bottom = 14 + n /\ v.left = 0 /\ v.right = 7
       /\ w.top = 0 /\ w.bottom = 14 + n + k /\ w.left = 0 /\ w.right = 13
       /\ u \in Boxes /\ v \in Boxes /\ w \in Boxes
  <2>1. 14 + n \in Int /\ 14 + n + k \in Int
    BY <1>5, <1>6, SMT
  <2>. QED BY <1>17, <2>1 DEF Box, Boxes
<1>19. Fits(M \cup L, u)
  <2>1. Apart(m, l) /\ Inside(m, u) /\ Inside(l, u)
    BY <1>16, <1>18, SMT DEF Apart, Inside
  <2>. QED BY <1>10, <1>11, <1>18, <2>1, FitTogether
<1>20. Fits((M \cup L) \cup T, v)
  <2>1. Apart(u, t) /\ Inside(u, v) /\ Inside(t, v)
    BY <1>5, <1>16, <1>18, SMT DEF Apart, Inside
  <2>. QED BY <1>13, <1>18, <1>19, <2>1, FitTogether
<1>21. Fits(s.cells, w)
  <2>1. Apart(v, e) /\ Inside(v, w) /\ Inside(e, w)
    BY <1>5, <1>6, <1>16, <1>18, SMT DEF Apart, Inside
  <2>. QED BY <1>3, <1>15, <1>18, <1>20, <2>1, FitTogether
\* The charts.
<1>22. PICK front, second : front = ColumnSeries(15, 14 + n, 0, 1) /\ second = ColumnSeries(0, k - 1, 12, 13)
  OBVIOUS
<1>23. /\ s.filter = {}
       /\ s.charts = ChartAt(1, 4, front) \cup (IF k = 0 THEN {} ELSE ChartAt(16, 4, second))
  BY <1>1, <1>22 DEF SummarySheet, SummaryCharts, Sheet, ColumnSeries
<1>24. ASSUME NEW chart \in s.charts
       PROVE  /\ chart.column = 4 /\ chart.row \in {1, 16}
              /\ chart.row = 1 => chart \in ChartAt(1, 4, front)
              /\ chart.row = 16 => chart \in ChartAt(16, 4, second)
  BY <1>23, ChartsAt
<1>25. ASSUME NEW chart \in s.charts PROVE IsClear(s.cells, chart)
  <2>1. chart.row \in Nat /\ chart.column \in Nat /\ chart.column = 4 /\ 1 <= chart.row
    BY <1>24
  <2>2. m.bottom < chart.row /\ l.right < chart.column /\ t.right < chart.column
        /\ chart.column + ChartColumns - 1 < e.left
    BY <1>16, <2>1, SMT DEF ChartColumns
  <2>3. IsClear(M, chart)
    BY <1>10, <2>1, <2>2, BoxIsClear
  <2>4. IsClear(L, chart)
    BY <1>11, <2>1, <2>2, BoxIsClear
  <2>5. IsClear(T, chart)
    BY <1>13, <2>1, <2>2, BoxIsClear
  <2>6. IsClear(S, chart)
    BY <1>15, <2>1, <2>2, BoxIsClear
  <2>. QED BY <1>3, <2>3, <2>4, <2>5, <2>6, ClearTogether
<1>26. ASSUME NEW chart \in s.charts, NEW other \in s.charts \ {chart}
       PROVE  ~Covers(chart, <<other.row, other.column>>)
  <2>1. chart.row # other.row
    <3>1. ASSUME chart.row = other.row PROVE chart = other
      BY <1>24, <3>1 DEF ChartAt
    <3>. QED BY <3>1
  <2>2. \/ chart.row = 1 /\ other.row = 16
        \/ chart.row = 16 /\ other.row = 1
    BY <1>24, <2>1
  <2>3. other.row \notin chart.row .. chart.row + ChartRows - 1
    BY <2>2, SMT DEF ChartRows
  <2>. QED BY <2>3 DEF Covers
<1>27. SheetIsWellLaidOut(s)
  BY <1>18, <1>21, <1>23, <1>25, <1>26, LaidOut
<1>28. ASSUME NEW chart, chart.series = front PROVE ChartIsOfTheDocument(d, s, chart)
  <2>1. PICK from, last, one : from = 15 /\ last = 14 + n /\ one = 1
    OBVIOUS
  <2>2. from \in Nat /\ last = from + n - 1 /\ from = fourteen + 1 /\ one = zero + 1
        /\ chart.series = ColumnSeries(from, last, zero, one)
    <3>1. last = from + n - 1 /\ from = fourteen + 1 /\ one = zero + 1
      BY <1>5, <1>7, <2>1, SMT
    <3>. QED BY <1>7, <1>22, <1>28, <2>1, <3>1
  <2>3. T \subseteq s.cells
    BY <1>3
  <2>4. Columns(s.cells, n, from, zero, one, h)
    BY <1>5, <1>8, <1>12, <2>2, <2>3, HeadedColumns
  <2>. QED BY <1>5, <1>21, <2>2, <2>4, ColumnsPlotted
<1>29. ASSUME NEW chart, chart.series = second PROVE ChartIsOfTheDocument(d, s, chart)
  <2>1. PICK last, value : last = k - 1 /\ value = 13
    OBVIOUS
  <2>2. last = zero + k - 1 /\ value = twelve + 1 /\ chart.series = ColumnSeries(zero, last, twelve, value)
    <3>1. last = zero + k - 1 /\ value = twelve + 1
      BY <1>6, <1>7, <2>1, SMT
    <3>. QED BY <1>7, <1>22, <1>29, <2>1, <3>1
  <2>3. S \subseteq s.cells
    BY <1>3
  <2>4. Columns(s.cells, k, zero, twelve, value, g)
    BY <1>6, <1>8, <1>14, <2>2, <2>3, PlainColumns
  <2>. QED BY <1>6, <1>8, <1>21, <2>2, <2>4, ColumnsPlotted
<1>30. ASSUME NEW chart \in s.charts PROVE ChartIsOfTheDocument(d, s, chart)
  BY <1>24, <1>28, <1>29, ChartsAt
<1>. QED
  BY <1>1, <1>27, <1>30 DEF IsRightSheet

---------------------------------------------------------------------------
(* The sheet of the scope, and the personal workbook.                       *)

LEMMA ScopeSheetIsRight ==
    ASSUME NEW n \in Nat, NEW rows, DOMAIN rows = 1 .. n, NEW d
    PROVE  IsRightSheet(d, ScopeSheet(rows))
<1>1. PICK s, M, L, m, l, z, r, c :
          /\ s = ScopeSheet(rows) /\ M = Merged(0, 3)
          /\ L = UNION {LabelValue(1 + i, rows[i]) : i \in DOMAIN rows}
          /\ m = Box(0, 0, 0, 3) /\ l = Box(2, 1 + n, 0, 1) /\ z = Box(0, 1 + n, 0, 3)
          /\ r = 0 /\ c = 3
  OBVIOUS
<1>2. l \in Boxes /\ Fits(L, l)
  BY <1>1, LabelValuesFit
<1>3. m \in Boxes /\ Fits(M, m)
  <2>1. r \in Nat /\ c \in Nat /\ M = Merged(r, c) /\ m = Box(r, r, 0, c)
    BY <1>1
  <2>. QED BY <2>1, MergedFits
<1>4. /\ m.top = 0 /\ m.bottom = 0 /\ m.left = 0 /\ m.right = 3
      /\ l.top = 2 /\ l.bottom = 1 + n /\ l.left = 0 /\ l.right = 1
      /\ z.top = 0 /\ z.bottom = 1 + n /\ z.left = 0 /\ z.right = 3
  BY <1>1 DEF Box
<1>5. z \in Boxes
  <2>1. 1 + n \in Int
    BY SMT
  <2>. QED BY <1>1, <2>1 DEF Box, Boxes
<1>6. Fits(M \cup L, z)
  <2>1. Apart(m, l) /\ Inside(m, z) /\ Inside(l, z)
    BY <1>4, SMT DEF Apart, Inside
  <2>. QED BY <1>2, <1>3, <1>5, <2>1, FitTogether
<1>7. PICK cells : cells = M \cup L
  OBVIOUS
<1>8. s = Sheet(cells, {}, {})
  BY <1>1, <1>7 DEF ScopeSheet
<1>9. IsRightSheet(d, s)
  BY <1>5, <1>6, <1>7, <1>8, PlainSheet
<1>. QED
  BY <1>1, <1>9

LEMMA PersonalScopeIs ==
    ASSUME NEW d
    PROVE  DOMAIN PersonalScope(d) = 1 .. 11
<1>1. PICK a, b, S : /\ a = <<Label(User), Text, Text, Text, Count(Cardinality(d.sources)),
                              Count(Cardinality(DOMAIN d.tasks)), Duration(d.total)>>
                     /\ b = Texts(4) /\ S = {a[k] : k \in 1 .. 7} \cup {Text}
  OBVIOUS
<1>2. DOMAIN a = 1 .. 7 /\ a = [k \in 1 .. 7 |-> a[k]]
  BY <1>1
<1>3. a \in [1 .. 7 -> S]
  BY <1>1, <1>2
<1>4. b \in [1 .. 4 -> S]
  BY <1>1 DEF Texts
<1>5. 7 \in Nat /\ 4 \in Nat /\ 7 + 4 = 11
  OBVIOUS
<1>6. a \o b \in [1 .. 11 -> S]
  BY <1>3, <1>4, <1>5, JoinedType
<1>7. PersonalScope(d) = a \o b
  BY <1>1 DEF PersonalScope
<1>. QED
  BY <1>6, <1>7

LEMMA TeamScopeIs ==
    ASSUME NEW d
    PROVE  DOMAIN TeamScope(d) = 1 .. 13
<1>1. PICK a, b, S : /\ a = <<Label(User), Text, Text, Text, Text, Count(Cardinality(d.sources)),
                              Count(Cardinality(DOMAIN d.members)), Count(Cardinality(DOMAIN d.tasks)),
                              Duration(d.total)>>
                     /\ b = Texts(4) /\ S = {a[k] : k \in 1 .. 9} \cup {Text}
  OBVIOUS
<1>2. DOMAIN a = 1 .. 9 /\ a = [k \in 1 .. 9 |-> a[k]]
  BY <1>1
<1>3. a \in [1 .. 9 -> S]
  BY <1>1, <1>2
<1>4. b \in [1 .. 4 -> S]
  BY <1>1 DEF Texts
<1>5. 9 \in Nat /\ 4 \in Nat /\ 9 + 4 = 13
  OBVIOUS
<1>6. a \o b \in [1 .. 13 -> S]
  BY <1>3, <1>4, <1>5, JoinedType
<1>7. TeamScope(d) = a \o b
  BY <1>1 DEF TeamScope
<1>. QED
  BY <1>6, <1>7

LEMMA PersonalWorkbookIsRight ==
    ASSUME NEW d, IsSupported(d), NEW s \in ToSet(PersonalWorkbook(d))
    PROVE  IsRightSheet(d, s)
<1>1. s \in {SummarySheet(d), WeeklySheet(d), TasksSheet(d), WorklogsSheet(d), ScopeSheet(PersonalScope(d))}
  <2>1. PICK a, b, c, e, f : /\ a = SummarySheet(d) /\ b = WeeklySheet(d) /\ c = TasksSheet(d)
                             /\ e = WorklogsSheet(d) /\ f = ScopeSheet(PersonalScope(d))
    OBVIOUS
  <2>2. PICK book : book = <<a, b, c, e, f>>
    OBVIOUS
  <2>3. s \in {book[i] : i \in DOMAIN book}
    BY <2>1, <2>2 DEF PersonalWorkbook, ToSet
  <2>4. DOMAIN book = {1, 2, 3, 4, 5} /\ book[1] = a /\ book[2] = b /\ book[3] = c
        /\ book[4] = e /\ book[5] = f
    BY <2>2, SMT
  <2>. QED BY <2>1, <2>3, <2>4
<1>2. IsRightSheet(d, ScopeSheet(PersonalScope(d)))
  <2>1. PICK n, rows : n = 11 /\ rows = PersonalScope(d)
    OBVIOUS
  <2>2. n \in Nat /\ DOMAIN rows = 1 .. n
    BY <2>1, PersonalScopeIs
  <2>3. IsRightSheet(d, ScopeSheet(rows))
    BY <2>2, ScopeSheetIsRight
  <2>. QED BY <2>1, <2>3
<1>. QED
  BY <1>1, <1>2, SummarySheetIsRight, WeeklySheetIsRight, TasksSheetIsRight, WorklogsSheetIsRight

\* The hours of the shown members, by member and week.
AreOfWeeks(d, rows, n, w, X, h) ==
    /\ w = WeekCount(d) /\ X = (1 .. n) \X (1 .. w)
    /\ h = [x \in X |-> rows[x[1]].weeks[x[2] - 1]]

LEMMA WeeksOfShown ==
    ASSUME NEW d, IsSupported(d), NEW rows, NEW n, NEW seconds, AreShown(d, rows, n, seconds),
           NEW w, NEW X, NEW h, AreOfWeeks(d, rows, n, w, X, h)
    PROVE  IsFiniteSet(X) /\ (\A x \in X : h[x] \in Nat) /\ Plus(h, X) = ShownHoursOf(d)
<1>a. PICK N, W, group : /\ N = 1 .. n /\ W = 1 .. w /\ group = [x \in X |-> x[1]]
  OBVIOUS
<1>b. PICK F : F = [i \in N |-> Plus(h, {x \in X : group[x] = i})]
  OBVIOUS
<1>c. /\ X = N \X W /\ w = WeekCount(d)
      /\ \A i \in N : \A k \in W : <<i, k>> \in X /\ h[<<i, k>>] = rows[i].weeks[k - 1]
  BY <1>a DEF AreOfWeeks
<1>1. n \in Nat /\ w \in Nat /\ Plus(seconds, N) = ShownHoursOf(d) /\ \A i \in N : seconds[i] \in Nat
  BY <1>a, <1>c DEF AreShown, AddUp, IsSupported
<1>2. IsFiniteSet(N) /\ IsFiniteSet(W)
  <2>1. IsFiniteSet(1 .. n)
    BY <1>1, FS_Interval
  <2>2. IsFiniteSet(1 .. w)
    BY <1>1, FS_Interval
  <2>. QED BY <1>a, <2>1, <2>2
<1>3. IsFiniteSet(X)
  BY <1>c, <1>2, FS_Product
<1>4. \A i \in N : /\ IsByWeek(rows[i].weeks, d) /\ seconds[i] = rows[i].seconds
                   /\ rows[i].seconds = SumOf(rows[i].weeks)
  BY <1>a DEF AreShown
<1>5. ASSUME NEW i \in N, NEW k \in W PROVE rows[i].weeks[k - 1] \in Nat
  <2>1. k - 1 \in 0 .. WeekCount(d) - 1
    BY <1>a, <1>c, <1>1, SMT
  <2>. QED BY <1>4, <2>1 DEF IsByWeek
<1>6. \A x \in X : x[1] \in N /\ x[2] \in W /\ x = <<x[1], x[2]>> /\ group[x] = x[1]
  BY <1>a, <1>c
<1>7. \A x \in X : h[x] \in Nat
  BY <1>c, <1>5, <1>6
<1>8. \A x \in X : group[x] \in N
  BY <1>6
<1>9. Plus(F, N) = Plus(h, X)
  BY <1>b, <1>2, <1>3, <1>7, <1>8, PlusByGroups
<1>10. ASSUME NEW i \in N PROVE F[i] = seconds[i]
  <2>1. PICK weeks, own, f, g : /\ weeks = rows[i].weeks /\ own = {x \in X : group[x] = i}
                                /\ f = [k \in 1 .. w |-> weeks[k - 1]] /\ g = [k \in 1 .. w |-> <<i, k>>]
    OBVIOUS
  <2>2. F[i] = Plus(h, own)
    BY <1>b, <2>1
  <2>3. AddUp(w, f, SumOf(weeks))
    BY <1>4, <1>c, <2>1, WeeksAddUp
  <2>4. Plus(f, W) = seconds[i]
    BY <1>a, <1>4, <2>1, <2>3 DEF AddUp
  <2>5. \A k \in W : g[k] \in X /\ g[k][1] = i /\ g[k][2] = k
    BY <1>a, <1>c, <2>1
  <2>6. \A k \in W : g[k] \in own /\ f[k] = h[g[k]]
    BY <1>c, <1>a, <1>6, <2>1, <2>5
  <2>7. \A k, m \in W : k # m => g[k] # g[m]
    BY <2>5
  <2>8. ASSUME NEW x \in own PROVE \E k \in W : g[k] = x
    <3>1. x[2] \in W /\ x = <<i, x[2]>>
      BY <1>6, <2>1
    <3>2. g[x[2]] = x
      BY <1>a, <2>1, <3>1
    <3>. QED BY <3>1, <3>2
  <2>9. own \subseteq X
    BY <2>1
  <2>10. IsFiniteSet(own) /\ \A x \in own : h[x] \in Nat
    BY <1>3, <1>7, <2>9, FS_Subset
  <2>11. Renames(g, W, own, f, h)
    BY <2>6, <2>7, <2>8 DEF Renames
  <2>12. Plus(f, W) = Plus(h, own)
    BY <1>2, <2>10, <2>11, PlusReindexed
  <2>. QED BY <2>2, <2>4, <2>12
<1>11. \A i \in N : F[i] \in Nat /\ F[i] = seconds[i]
  BY <1>1, <1>10
<1>12. Plus(F, N) = Plus(seconds, N)
  BY <1>2, <1>11, PlusAgrees
<1>. QED
  BY <1>a, <1>1, <1>3, <1>7, <1>9, <1>12

---------------------------------------------------------------------------
(* The weeks of the shown members, and the chart of them.                   *)

\* Members with their weeks and their hours, a row for each.
AreWeekRows(body, rows, n, w, m) ==
    /\ IsTable(body, n, m)
    /\ \A i \in 1 .. n : /\ body[i][1] = Label(rows[i].member) /\ body[i][m] = Duration(rows[i].seconds)
                         /\ \A k \in 1 .. w : body[i][1 + k] = Duration(rows[i].weeks[k - 1])

LEMMA WeekRowsAre ==
    ASSUME NEW d, IsSupported(d), NEW w, w = WeekCount(d), NEW rows, NEW n, DOMAIN rows = 1 .. n,
           NEW body, body = [i \in DOMAIN rows |-> WeekRow(d, rows[i].member, rows[i].weeks, rows[i].seconds)],
           NEW m, m = w + 2
    PROVE  AreWeekRows(body, rows, n, w, m)
<1>1. DOMAIN body = 1 .. n /\ body = [i \in 1 .. n |-> body[i]]
  OBVIOUS
<1>2. ASSUME NEW i \in 1 .. n
      PROVE  /\ DOMAIN body[i] = 1 .. m /\ body[i][1] = Label(rows[i].member)
             /\ body[i][m] = Duration(rows[i].seconds)
             /\ \A k \in 1 .. w : body[i][1 + k] = Duration(rows[i].weeks[k - 1])
  <2>1. PICK member, weeks, total, row : /\ member = rows[i].member /\ weeks = rows[i].weeks
                                         /\ total = rows[i].seconds /\ row = body[i]
    OBVIOUS
  <2>2. row = WeekRow(d, member, weeks, total)
    BY <2>1
  <2>3. /\ DOMAIN row = 1 .. w + 2 /\ row[1] = Label(member) /\ row[w + 2] = Duration(total)
        /\ \A k \in 1 .. w : row[1 + k] = Duration(weeks[k - 1])
    BY <2>2, WeekRowIs
  <2>. QED BY <2>1, <2>3
<1>3. IsTable(body, n, m)
  BY <1>1, <1>2 DEF IsTable
<1>. QED
  BY <1>2, <1>3 DEF AreWeekRows

\* A series for each week, over the same members.
WeekSeries(n, w) == {Series(Down(1, n, 0), Down(1, n, j)) : j \in 1 .. w}

AreWeekPlaces(places, n, w, X, r, k) ==
    /\ X = (1 .. n) \X (1 .. w) /\ r = [x \in X |-> x[1]] /\ k = [x \in X |-> x[2]]
    /\ places = PlacesOf(X, r, k)

LEMMA WeekSeriesAre ==
    ASSUME NEW n \in Nat, NEW w \in Nat, NEW X, NEW r, NEW k, NEW places, AreWeekPlaces(places, n, w, X, r, k),
           NEW cells, IsLabelled(cells, Down(1, n, 0)), NEW all, all = WeekSeries(n, w)
    PROVE  /\ places = UNION {x.values : x \in all}
           /\ \A x \in all : IsSeriesOf(cells, x, places)
<1>1. places = (1 .. n) \X (1 .. w)
  BY DEF AreWeekPlaces, PlacesOf
<1>2. ASSUME NEW j \in 1 .. w
      PROVE  /\ Down(1, n, j) \subseteq places
             /\ Cardinality(Down(1, n, 0)) = Cardinality(Down(1, n, j))
  <2>1. Down(1, n, j) \subseteq places
    BY <1>1 DEF Down
  <2>2. PICK from, zero : from = 1 /\ zero = 0
    OBVIOUS
  <2>3. from \in Nat /\ n = from + n - 1
    BY <2>2, SMT
  <2>4. Cardinality(Down(from, n, j)) = n /\ Cardinality(Down(from, n, zero)) = n
    BY <2>3, DownSize
  <2>. QED BY <2>1, <2>2, <2>4
<1>3. ASSUME NEW x \in all PROVE IsSeriesOf(cells, x, places)
  <2>1. PICK j \in 1 .. w : x = Series(Down(1, n, 0), Down(1, n, j))
    BY DEF WeekSeries
  <2>2. x.labels = Down(1, n, 0) /\ x.values = Down(1, n, j)
    BY <2>1 DEF Series
  <2>. QED BY <1>2, <2>2 DEF IsSeriesOf
<1>4. UNION {x.values : x \in all} \subseteq places
  BY <1>3 DEF IsSeriesOf
<1>5. ASSUME NEW p \in places PROVE \E x \in all : p \in x.values
  <2>1. p[1] \in 1 .. n /\ p[2] \in 1 .. w /\ p = <<p[1], p[2]>>
    BY <1>1
  <2>2. PICK x : x = Series(Down(1, n, 0), Down(1, n, p[2]))
    OBVIOUS
  <2>3. x \in all /\ x.values = Down(1, n, p[2])
    BY <2>1, <2>2 DEF WeekSeries, Series
  <2>4. p \in Down(1, n, p[2])
    BY <2>1 DEF Down
  <2>. QED BY <2>3, <2>4
<1>. QED
  BY <1>3, <1>4, <1>5

\* The chart of the weeks of the shown members.
LEMMA WeeksPlotted ==
    ASSUME NEW d, IsSupported(d), NEW w, w = WeekCount(d), NEW rows, NEW n, NEW seconds,
           AreShown(d, rows, n, seconds), NEW s, NEW box, Fits(s.cells, box),
           \A i \in 1 .. n : \E x : Cell(i, 0, Label(x)) \in s.cells,
           \A i \in 1 .. n, j \in 1 .. w : Cell(i, j, Duration(rows[i].weeks[j - 1])) \in s.cells,
           NEW chart, chart.series = WeekSeries(n, w)
    PROVE  ChartIsOfTheDocument(d, s, chart)
<1>1. PICK X : X = (1 .. n) \X (1 .. w)
  OBVIOUS
<1>2. PICK r, k, h : /\ r = [x \in X |-> x[1]] /\ k = [x \in X |-> x[2]]
                     /\ h = [x \in X |-> rows[x[1]].weeks[x[2] - 1]]
  OBVIOUS
<1>3. AreOfWeeks(d, rows, n, w, X, h)
  BY <1>1, <1>2 DEF AreOfWeeks
<1>4. IsFiniteSet(X) /\ (\A x \in X : h[x] \in Nat) /\ Plus(h, X) = ShownHoursOf(d)
  BY <1>3, WeeksOfShown
<1>5. n \in Nat /\ w \in Nat
  BY DEF AreShown, AddUp, IsSupported
<1>6. ASSUME NEW x \in X PROVE h[x] \in Nat /\ Cell(r[x], k[x], Duration(h[x])) \in s.cells
  <2>1. x[1] \in 1 .. n /\ x[2] \in 1 .. w
    BY <1>1
  <2>2. r[x] = x[1] /\ k[x] = x[2] /\ h[x] = rows[x[1]].weeks[x[2] - 1]
    BY <1>2
  <2>. QED BY <1>4, <2>1, <2>2
<1>7. ASSUME NEW x \in X, NEW y \in X, r[x] = r[y], k[x] = k[y] PROVE x = y
  <2>1. x = <<r[x], k[x]>> /\ y = <<r[y], k[y]>>
    BY <1>1, <1>2
  <2>. QED BY <1>7, <2>1
<1>8. Plots(s.cells, X, r, k, h)
  BY <1>4, <1>6, <1>7 DEF Plots
<1>9. IsLabelled(s.cells, Down(1, n, 0))
  <2>1. PICK from, zero, cells : from = 1 /\ zero = 0 /\ cells = s.cells
    OBVIOUS
  <2>2. from \in Nat /\ n = from + n - 1 /\ \A i \in 1 .. n : from + i - 1 = i
    BY <1>5, <2>1, SMT
  <2>3. \A i \in 1 .. n : \E x : Cell(from + i - 1, zero, Label(x)) \in cells
    BY <2>1, <2>2
  <2>4. IsLabelled(cells, Down(from, n, zero))
    BY <1>5, <2>2, <2>3, LabelsDown
  <2>. QED BY <2>1, <2>4
<1>10. PICK places, all, cells : places = PlacesOf(X, r, k) /\ all = WeekSeries(n, w) /\ cells = s.cells
  OBVIOUS
<1>11. /\ places = UNION {x.values : x \in all}
       /\ \A x \in all : IsSeriesOf(cells, x, places)
  <2>1. AreWeekPlaces(places, n, w, X, r, k) /\ IsLabelled(cells, Down(1, n, 0))
    BY <1>1, <1>2, <1>9, <1>10 DEF AreWeekPlaces
  <2>. QED BY <1>5, <1>10, <2>1, WeekSeriesAre
<1>12. /\ places = UNION {x.values : x \in chart.series}
       /\ \A x \in chart.series : IsSeriesOf(s.cells, x, places)
  BY <1>10, <1>11
<1>13. Plus(h, X) \in {d.total, ShownHoursOf(d)} /\ places = PlacesOf(X, r, k)
  BY <1>4, <1>10
<1>. QED
  BY <1>8, <1>12, <1>13, ChartIsRight

---------------------------------------------------------------------------
(* The sheets of the team's weeks and of its classification.                *)

\* The members' rows, and those of the members for whom a chart has room.
LEMMA MembersRanked ==
    ASSUME NEW d, IsSupported(d), NEW all, all = RankedMembers(d), NEW count, count = Len(all),
           NEW rows, rows = ShownMembersOf(d), NEW n, n = Len(rows),
           NEW h, h = [i \in 1 .. n |-> rows[i].seconds]
    PROVE  /\ count \in Nat /\ DOMAIN all = 1 .. count /\ (all = <<>> <=> count = 0)
           /\ AreShown(d, rows, n, h) /\ n \in Nat /\ n <= count /\ DOMAIN rows = 1 .. n
           /\ \A i \in 1 .. n : i \in 1 .. count /\ rows[i] = all[i]
<1>1. AreMemberRows(d, all)
  BY MemberRowsDiffer
<1>2. count \in Nat /\ DOMAIN all = 1 .. count /\ all = [i \in 1 .. count |-> all[i]]
  BY <1>1 DEF AreMemberRows, AreRows
<1>3. AreShown(d, rows, n, h)
  BY MembersShown
<1>4. n \in Nat /\ n <= count /\ DOMAIN rows = 1 .. n /\ \A i \in 1 .. n : rows[i] = all[i]
  BY <1>3 DEF AreShown, AddUp
<1>5. \A i \in 1 .. n : i \in 1 .. count
  BY <1>2, <1>4, SMT
<1>6. all = <<>> <=> count = 0
  <2>1. ASSUME count = 0 PROVE all = <<>>
    BY <1>2, <2>1
  <2>2. ASSUME all = <<>> PROVE count = 0
    BY <2>2
  <2>. QED BY <2>1, <2>2
<1>. QED
  BY <1>2, <1>3, <1>4, <1>5, <1>6

LEMMA TeamWeeklySheetIsRight ==
    ASSUME NEW d, IsSupported(d)
    PROVE  IsRightSheet(d, TeamWeeklySheet(d))
<1>1. PICK s, all, count, rows, n, w, header, cells, zero, m, l :
          /\ s = TeamWeeklySheet(d) /\ all = RankedMembers(d) /\ count = Len(all)
          /\ rows = ShownMembersOf(d) /\ n = Len(rows) /\ w = WeekCount(d) /\ header = WeekHeader(d)
          /\ cells = s.cells /\ zero = 0 /\ m = w + 2 /\ l = w + 1
  OBVIOUS
<1>2. PICK body, h : /\ body = [i \in DOMAIN all |-> WeekRow(d, all[i].member, all[i].weeks, all[i].seconds)]
                     /\ h = [i \in 1 .. n |-> rows[i].seconds]
  OBVIOUS
<1>3. /\ count \in Nat /\ DOMAIN all = 1 .. count /\ (all = <<>> <=> count = 0)
      /\ AreShown(d, rows, n, h) /\ n \in Nat /\ \A i \in 1 .. n : i \in 1 .. count /\ rows[i] = all[i]
  BY <1>1, <1>2, MembersRanked
<1>4. w \in Nat /\ m \in Nat /\ l = m - 1 /\ zero \in Nat
  <2>1. w \in Nat
    BY <1>1 DEF IsSupported
  <2>. QED BY <1>1, <2>1, SMT
<1>5. DOMAIN header = 1 .. m
  BY <1>1, WeekHeaderIs
<1>6. AreWeekRows(body, all, count, w, m)
  BY <1>1, <1>2, <1>3, WeekRowsAre
<1>7. IsTable(body, count, m)
  BY <1>6 DEF AreWeekRows
<1>8. /\ cells = Table(0, 0, <<header>> \o body) /\ s.filter = Filtered(count, l)
      /\ s.charts = IF all = <<>> THEN {} ELSE ChartAt(3, w + 3, WeekSeries(n, w))
  BY <1>1, <1>2 DEF TeamWeeklySheet, Sheet, WeekSeries
<1>9. IsHeadedAt(cells, zero, zero, count, m, header, body)
  <2>1. cells = Table(zero, zero, <<header>> \o body)
    BY <1>1, <1>8
  <2>. QED BY <1>3, <1>4, <1>5, <1>7, <2>1, HeadedCells
<1>10. PICK box : box = Box(zero, zero + count, zero, zero + m - 1)
  OBVIOUS
<1>11. box \in Boxes /\ Fits(cells, box) /\ box.right = zero + m - 1
  BY <1>9, <1>10 DEF IsHeadedAt, Box
<1>12. \A f \in s.filter : Places(cells) = (0 .. f.lastRow) \X (0 .. f.lastColumn)
  BY <1>3, <1>4, <1>5, <1>7, <1>8, HeadedPlaces
<1>13. ASSUME NEW i \in 1 .. n, NEW j \in 1 .. m PROVE Cell(i, j - 1, body[i][j]) \in cells
  <2>1. Cell(zero + i, zero + j - 1, body[i][j]) \in cells
    BY <1>3, <1>9 DEF IsHeadedAt
  <2>2. zero + i = i /\ zero + j - 1 = j - 1
    BY <1>1, SMT
  <2>. QED BY <2>1, <2>2
<1>14. ASSUME NEW i \in 1 .. n PROVE Cell(i, 0, Label(all[i].member)) \in cells
  <2>1. 1 \in 1 .. m /\ 1 - 1 = 0
    BY <1>1, <1>4, SMT
  <2>2. Cell(i, 1 - 1, body[i][1]) \in cells
    BY <1>13, <2>1
  <2>3. body[i][1] = Label(all[i].member)
    BY <1>3, <1>6 DEF AreWeekRows
  <2>. QED BY <2>1, <2>2, <2>3
<1>15. ASSUME NEW i \in 1 .. n, NEW j \in 1 .. w PROVE Cell(i, j, Duration(rows[i].weeks[j - 1])) \in cells
  <2>1. 1 + j \in 1 .. m /\ (1 + j) - 1 = j
    BY <1>1, <1>4, SMT
  <2>2. Cell(i, (1 + j) - 1, body[i][1 + j]) \in cells
    BY <1>13, <2>1
  <2>3. body[i][1 + j] = Duration(all[i].weeks[j - 1])
    BY <1>3, <1>6 DEF AreWeekRows
  <2>4. rows[i] = all[i]
    BY <1>3
  <2>. QED BY <2>1, <2>2, <2>3, <2>4
<1>16. ASSUME NEW chart, chart.series = WeekSeries(n, w) PROVE ChartIsOfTheDocument(d, s, chart)
  <2>1. \A i \in 1 .. n : \E x : Cell(i, 0, Label(x)) \in s.cells
    BY <1>1, <1>14
  <2>2. \A i \in 1 .. n, j \in 1 .. w : Cell(i, j, Duration(rows[i].weeks[j - 1])) \in s.cells
    BY <1>1, <1>15
  <2>3. Fits(s.cells, box)
    BY <1>1, <1>11
  <2>. QED BY <1>1, <1>3, <1>16, <2>1, <2>2, <2>3, WeeksPlotted, ZenonT(40)
<1>17. PICK top, left : top = 3 /\ left = w + 3
  OBVIOUS
<1>18. top \in Nat /\ left \in Nat /\ box.right < left
  BY <1>1, <1>4, <1>11, <1>17, SMT
<1>19. IsRightSheet(d, s)
  <2>1. CASE all = <<>>
    <3>1. s.charts = {}
      BY <1>8, <2>1
    <3>2. SheetIsWellLaidOut(s)
      BY <1>1, <1>11, <1>12, <3>1, LaidOut
    <3>. QED BY <3>1, <3>2 DEF IsRightSheet
  <2>2. CASE all # <<>>
    <3>1. PICK series : series = WeekSeries(n, w)
      OBVIOUS
    <3>2. s.charts = ChartAt(top, left, series)
      BY <1>8, <1>17, <2>2, <3>1
    <3>3. \A chart : chart.series = series => ChartIsOfTheDocument(d, s, chart)
      BY <1>16, <3>1
    <3>. QED BY <1>1, <1>11, <1>12, <1>18, <3>2, <3>3, SheetOfOneChart
  <2>. QED BY <2>1, <2>2
<1>. QED
  BY <1>1, <1>19

\* A table of slices with its header.
LEMMA SlicesTable ==
    ASSUME NEW d, NEW slices, IsSlices(slices), SumOf([i \in DOMAIN slices |-> slices[i].seconds]) = d.total,
           NEW n, n = Len(slices), NEW top \in Nat, NEW left \in Nat,
           NEW cells, cells = Table(top, left, <<Texts(2)>> \o SliceRows(slices)), NEW all, cells \subseteq all,
           NEW from, from = top + 1, NEW value, value = left + 1
    PROVE  /\ n \in Nat /\ Box(top, top + n, left, value) \in Boxes /\ Fits(cells, Box(top, top + n, left, value))
           /\ \E h : Columns(all, n, from, left, value, h) /\ AreToPlot(d, n, h)
<1>1. PICK h, header, body, two : /\ h = [i \in 1 .. n |-> slices[i].seconds] /\ header = Texts(2)
                                  /\ body = SliceRows(slices) /\ two = 2
  OBVIOUS
<1>2. IsTable(body, n, 2) /\ ArePairs(body, n, h) /\ n \in Nat /\ AreToPlot(d, n, h)
  BY <1>1, SlicePairs
<1>3. two \in Nat /\ 2 <= two /\ DOMAIN header = 1 .. two /\ IsTable(body, n, two)
      /\ left + two - 1 = value
  <2>1. left + two - 1 = value
    BY <1>1, SMT
  <2>. QED BY <1>1, <1>2, <2>1 DEF Texts
<1>4. cells = Table(top, left, <<header>> \o body)
  BY <1>1
<1>5. IsHeadedAt(cells, top, left, n, two, header, body)
  BY <1>2, <1>3, <1>4, HeadedCells
<1>6. Box(top, top + n, left, value) \in Boxes /\ Fits(cells, Box(top, top + n, left, value))
  BY <1>3, <1>5 DEF IsHeadedAt
<1>7. Columns(all, n, from, left, value, h)
  BY <1>2, <1>3, <1>5, HeadedColumns
<1>. QED
  BY <1>2, <1>6, <1>7

LEMMA TeamClassificationSheetIsRight ==
    ASSUME NEW d, IsSupported(d)
    PROVE  IsRightSheet(d, TeamClassificationSheet(d))
<1>1. PICK s, types, states, T, S, zero, one, three, four, cells :
          /\ s = TeamClassificationSheet(d) /\ types = Len(d.categorySlices) /\ states = Len(d.statusSlices)
          /\ T = Table(0, 0, <<Texts(2)>> \o SliceRows(d.categorySlices))
          /\ S = Table(0, 3, <<Texts(2)>> \o SliceRows(d.statusSlices))
          /\ zero = 0 /\ one = 1 /\ three = 3 /\ four = 4 /\ cells = s.cells
  OBVIOUS
<1>2. PICK below : below = 3 + (IF types > states THEN types ELSE states)
  OBVIOUS
<1>3. PICK front, second : front = ColumnSeries(1, types, 0, 1) /\ second = ColumnSeries(1, states, 3, 4)
  OBVIOUS
<1>4. /\ cells = T \cup S /\ s.filter = {}
      /\ s.charts = (IF types = 0 THEN {} ELSE ChartAt(below, 0, front))
                    \cup (IF states = 0 THEN {} ELSE ChartAt(below, 8, second))
  <2>1. 0 + 1 = 1 /\ 3 + 1 = 4
    OBVIOUS
  <2>. QED BY <1>1, <1>2, <1>3, <2>1 DEF TeamClassificationSheet, Sheet, ColumnSeries
<1>5. /\ IsSlices(d.categorySlices) /\ SumOf([i \in DOMAIN d.categorySlices |-> d.categorySlices[i].seconds]) = d.total
      /\ IsSlices(d.statusSlices) /\ SumOf([i \in DOMAIN d.statusSlices |-> d.statusSlices[i].seconds]) = d.total
  BY DEF IsSupported, TablesAccountForHours
<1>6. zero \in Nat /\ three \in Nat /\ one = zero + 1 /\ four = three + 1 /\ T \subseteq cells /\ S \subseteq cells
  BY <1>1, <1>4
<1>7. PICK e, f : e = Box(zero, zero + types, zero, one) /\ f = Box(zero, zero + states, three, four)
  OBVIOUS
<1>8. /\ types \in Nat /\ e \in Boxes /\ Fits(T, e)
      /\ \E h : Columns(cells, types, one, zero, one, h) /\ AreToPlot(d, types, h)
  <2>1. PICK slices : slices = d.categorySlices
    OBVIOUS
  <2>2. /\ T = Table(zero, zero, <<Texts(2)>> \o SliceRows(slices)) /\ types = Len(slices)
        /\ IsSlices(slices) /\ SumOf([i \in DOMAIN slices |-> slices[i].seconds]) = d.total
    BY <1>1, <1>5, <2>1
  <2>. QED BY <1>6, <1>7, <2>2, SlicesTable, ZenonT(40)
<1>9. /\ states \in Nat /\ f \in Boxes /\ Fits(S, f)
      /\ \E h : Columns(cells, states, one, three, four, h) /\ AreToPlot(d, states, h)
  <2>1. PICK slices : slices = d.statusSlices
    OBVIOUS
  <2>2. /\ S = Table(zero, three, <<Texts(2)>> \o SliceRows(slices)) /\ states = Len(slices)
        /\ IsSlices(slices) /\ SumOf([i \in DOMAIN slices |-> slices[i].seconds]) = d.total
    BY <1>1, <1>5, <2>1
  <2>. QED BY <1>6, <1>7, <2>2, SlicesTable, ZenonT(40)
<1>10. /\ e.top = 0 /\ e.bottom = types /\ e.left = 0 /\ e.right = 1
       /\ f.top = 0 /\ f.bottom = states /\ f.left = 3 /\ f.right = 4
  BY <1>1, <1>7, <1>8, <1>9 DEF Box
<1>11. PICK u : u = Box(0, types + states, 0, 4)
  OBVIOUS
<1>12. u \in Boxes /\ u.top = 0 /\ u.bottom = types + states /\ u.left = 0 /\ u.right = 4
  <2>1. types + states \in Int
    BY <1>8, <1>9, SMT
  <2>. QED BY <1>11, <2>1 DEF Box, Boxes
<1>13. Fits(cells, u)
  <2>1. Apart(e, f) /\ Inside(e, u) /\ Inside(f, u)
    BY <1>8, <1>9, <1>10, <1>12, SMT DEF Apart, Inside
  <2>. QED BY <1>4, <1>8, <1>9, <1>12, <2>1, FitTogether
<1>14. below \in Nat /\ types < below /\ states < below
  BY <1>2, <1>8, <1>9, SMT
<1>15. ASSUME NEW chart \in s.charts
       PROVE  /\ chart.row = below /\ chart.column \in {0, 8}
              /\ chart.column = 0 => chart \in ChartAt(below, 0, front)
              /\ chart.column = 8 => chart \in ChartAt(below, 8, second)
  BY <1>4, ChartsAt
<1>16. ASSUME NEW chart \in s.charts PROVE IsClear(cells, chart)
  <2>1. chart.row \in Nat /\ chart.column \in Nat /\ e.bottom < chart.row /\ f.bottom < chart.row
    BY <1>10, <1>14, <1>15
  <2>2. IsClear(T, chart)
    BY <1>8, <2>1, BoxIsClear
  <2>3. IsClear(S, chart)
    BY <1>9, <2>1, BoxIsClear
  <2>. QED BY <1>4, <2>2, <2>3, ClearTogether
<1>17. ASSUME NEW chart \in s.charts, NEW other \in s.charts \ {chart}
       PROVE  ~Covers(chart, <<other.row, other.column>>)
  <2>1. chart.column # other.column
    <3>1. ASSUME chart.column = other.column PROVE chart = other
      BY <1>15, <3>1 DEF ChartAt
    <3>. QED BY <3>1
  <2>2. \/ chart.column = 0 /\ other.column = 8
        \/ chart.column = 8 /\ other.column = 0
    BY <1>15, <2>1
  <2>3. other.column \notin chart.column .. chart.column + ChartColumns - 1
    BY <2>2, SMT DEF ChartColumns
  <2>. QED BY <2>3 DEF Covers
<1>18. SheetIsWellLaidOut(s)
  BY <1>1, <1>4, <1>12, <1>13, <1>16, <1>17, LaidOut
<1>19. Fits(s.cells, u) /\ one \in Nat /\ types = one + types - 1 /\ states = one + states - 1
  <2>1. one \in Nat /\ types = one + types - 1 /\ states = one + states - 1
    BY <1>1, <1>8, <1>9, SMT
  <2>. QED BY <1>1, <1>13, <2>1
<1>20. ASSUME NEW chart, chart.series = front PROVE ChartIsOfTheDocument(d, s, chart)
  <2>1. PICK h : Columns(s.cells, types, one, zero, one, h) /\ AreToPlot(d, types, h)
    BY <1>1, <1>8
  <2>2. chart.series = ColumnSeries(one, types, zero, one)
    BY <1>1, <1>3, <1>20
  <2>. QED BY <1>8, <1>19, <2>1, <2>2, ColumnsPlotted
<1>21. ASSUME NEW chart, chart.series = second PROVE ChartIsOfTheDocument(d, s, chart)
  <2>1. PICK h : Columns(s.cells, states, one, three, four, h) /\ AreToPlot(d, states, h)
    BY <1>1, <1>9
  <2>2. chart.series = ColumnSeries(one, states, three, four)
    BY <1>1, <1>3, <1>21
  <2>. QED BY <1>9, <1>19, <2>1, <2>2, ColumnsPlotted
<1>22. ASSUME NEW chart \in s.charts PROVE ChartIsOfTheDocument(d, s, chart)
  BY <1>15, <1>20, <1>21, ChartsAt
<1>. QED
  BY <1>1, <1>18, <1>22 DEF IsRightSheet

---------------------------------------------------------------------------
(* The first sheet of the team's workbook: its figures, its three tables,   *)
(* and the charts below them.                                               *)

LEMMA DashboardRow ==
    ASSUME NEW d, NEW n, n = Len(ShownMembersOf(d)), NEW w, w = WeekCount(d), NEW k, k = Len(d.taskSlices),
           n \in Nat, w \in Nat, k \in Nat, NEW lower, lower = DashboardChartRow(d)
    PROVE  lower \in Nat /\ 7 + n <= lower /\ 7 + w <= lower /\ 7 + k <= lower
<1>1. PICK rows : rows = {n, w, k}
  OBVIOUS
<1>2. \E g \in rows : \A o \in rows : o <= g
  BY <1>1, SMT
<1>3. PICK g : g = CHOOSE x \in rows : \A o \in rows : o <= x
  OBVIOUS
<1>4. g \in rows /\ \A o \in rows : o <= g
  BY <1>2, <1>3
<1>5. lower = 7 + g
  BY <1>1, <1>3 DEF DashboardChartRow
<1>6. g \in Nat /\ n <= g /\ w <= g /\ k <= g
  BY <1>1, <1>4
<1>. QED
  BY <1>5, <1>6, SMT

\* Two parts beside each other, in the rows and columns of both.
LEMMA Beside ==
    ASSUME NEW A, NEW x \in Boxes, Fits(A, x), NEW B, NEW y \in Boxes, Fits(B, y), x.right < y.left,
           x.left <= x.right, y.left <= y.right,
           NEW z \in Boxes, z.top <= x.top, z.top <= y.top, x.bottom <= z.bottom, y.bottom <= z.bottom,
           z.left <= x.left, y.right <= z.right
    PROVE  Fits(A \cup B, z)
<1>1. \A b \in {x, y, z} : b.top \in Int /\ b.bottom \in Int /\ b.left \in Int /\ b.right \in Int
  BY DEF Boxes
<1>2. Apart(x, y) /\ Inside(x, z) /\ Inside(y, z)
  BY <1>1, SMT DEF Apart, Inside
<1>. QED
  BY <1>2, FitTogether

\* Two parts one under the other.
LEMMA Under ==
    ASSUME NEW A, NEW x \in Boxes, Fits(A, x), NEW B, NEW y \in Boxes, Fits(B, y), x.bottom < y.top,
           x.top <= x.bottom, y.top <= y.bottom,
           NEW z \in Boxes, z.top <= x.top, y.bottom <= z.bottom,
           z.left <= x.left, z.left <= y.left, x.right <= z.right, y.right <= z.right
    PROVE  Fits(A \cup B, z)
<1>1. \A b \in {x, y, z} : b.top \in Int /\ b.bottom \in Int /\ b.left \in Int /\ b.right \in Int
  BY DEF Boxes
<1>2. Apart(x, y) /\ Inside(x, z) /\ Inside(y, z)
  BY <1>1, SMT DEF Apart, Inside
<1>. QED
  BY <1>2, FitTogether

\* The titles of the sheet and its six figures.
LEMMA MetricsFit ==
    ASSUME NEW e1, NEW e2, NEW e3, NEW e4, NEW b1, NEW b2, NEW cells,
           cells = Merged(0, 7) \cup Merged(1, 7)
                   \cup Table(3, 0, <<<<Text, e1>>>>) \cup Table(3, 2, <<<<Text, e2>>>>)
                   \cup Table(3, 4, <<<<Text, e3>>>>) \cup Table(3, 6, <<<<Text, e4>>>>)
                   \cup Table(4, 0, <<<<Text, b1>>>>) \cup Table(4, 2, <<<<Text, b2>>>>)
    PROVE  Fits(cells, Box(0, 4, 0, 7))
<1>1. PICK M, N, A1, A2, A3, A4, B1, B2 :
          /\ M = Merged(0, 7) /\ N = Merged(1, 7)
          /\ A1 = Table(3, 0, <<<<Text, e1>>>>) /\ A2 = Table(3, 2, <<<<Text, e2>>>>)
          /\ A3 = Table(3, 4, <<<<Text, e3>>>>) /\ A4 = Table(3, 6, <<<<Text, e4>>>>)
          /\ B1 = Table(4, 0, <<<<Text, b1>>>>) /\ B2 = Table(4, 2, <<<<Text, b2>>>>)
  OBVIOUS
<1>2. PICK m, n, x1, x2, x3, x4, y1, y2 :
          /\ m = Box(0, 0, 0, 7) /\ n = Box(1, 1, 0, 7)
          /\ x1 = Box(3, 3, 0, 1) /\ x2 = Box(3, 3, 2, 3) /\ x3 = Box(3, 3, 4, 5) /\ x4 = Box(3, 3, 6, 7)
          /\ y1 = Box(4, 4, 0, 1) /\ y2 = Box(4, 4, 2, 3)
  OBVIOUS
<1>3. PICK mn, x12, x123, x1234, y, xy, z :
          /\ mn = Box(0, 1, 0, 7) /\ x12 = Box(3, 3, 0, 3) /\ x123 = Box(3, 3, 0, 5) /\ x1234 = Box(3, 3, 0, 7)
          /\ y = Box(4, 4, 0, 3) /\ xy = Box(3, 4, 0, 7) /\ z = Box(0, 4, 0, 7)
  OBVIOUS
<1>4. /\ m \in Boxes /\ m.top = 0 /\ m.bottom = 0 /\ m.left = 0 /\ m.right = 7
      /\ n \in Boxes /\ n.top = 1 /\ n.bottom = 1 /\ n.left = 0 /\ n.right = 7
      /\ x1 \in Boxes /\ x1.top = 3 /\ x1.bottom = 3 /\ x1.left = 0 /\ x1.right = 1
      /\ x2 \in Boxes /\ x2.top = 3 /\ x2.bottom = 3 /\ x2.left = 2 /\ x2.right = 3
      /\ x3 \in Boxes /\ x3.top = 3 /\ x3.bottom = 3 /\ x3.left = 4 /\ x3.right = 5
      /\ x4 \in Boxes /\ x4.top = 3 /\ x4.bottom = 3 /\ x4.left = 6 /\ x4.right = 7
      /\ y1 \in Boxes /\ y1.top = 4 /\ y1.bottom = 4 /\ y1.left = 0 /\ y1.right = 1
      /\ y2 \in Boxes /\ y2.top = 4 /\ y2.bottom = 4 /\ y2.left = 2 /\ y2.right = 3
  BY <1>2 DEF Box, Boxes
<1>5. /\ mn \in Boxes /\ mn.top = 0 /\ mn.bottom = 1 /\ mn.left = 0 /\ mn.right = 7
      /\ x12 \in Boxes /\ x12.top = 3 /\ x12.bottom = 3 /\ x12.left = 0 /\ x12.right = 3
      /\ x123 \in Boxes /\ x123.top = 3 /\ x123.bottom = 3 /\ x123.left = 0 /\ x123.right = 5
      /\ x1234 \in Boxes /\ x1234.top = 3 /\ x1234.bottom = 3 /\ x1234.left = 0 /\ x1234.right = 7
      /\ y \in Boxes /\ y.top = 4 /\ y.bottom = 4 /\ y.left = 0 /\ y.right = 3
      /\ xy \in Boxes /\ xy.top = 3 /\ xy.bottom = 4 /\ xy.left = 0 /\ xy.right = 7
      /\ z \in Boxes /\ z.top = 0 /\ z.bottom = 4 /\ z.left = 0 /\ z.right = 7
  BY <1>3 DEF Box, Boxes
<1>6. PICK zero, one, two, three, four, five, six, seven :
          /\ zero = 0 /\ one = 1 /\ two = 2 /\ three = 3 /\ four = 4 /\ five = 5 /\ six = 6 /\ seven = 7
  OBVIOUS
<1>7. /\ zero \in Nat /\ one \in Nat /\ two \in Nat /\ three \in Nat /\ four \in Nat /\ six \in Nat /\ seven \in Nat
      /\ zero + 1 = one /\ two + 1 = three /\ four + 1 = five /\ six + 1 = seven
  BY <1>6
<1>8. Fits(M, m)
  <2>1. M = Merged(zero, seven) /\ m = Box(zero, zero, 0, seven)
    BY <1>1, <1>2, <1>6
  <2>. QED BY <1>7, <2>1, MergedFits
<1>9. Fits(N, n)
  <2>1. N = Merged(one, seven) /\ n = Box(one, one, 0, seven)
    BY <1>1, <1>2, <1>6
  <2>. QED BY <1>7, <2>1, MergedFits
<1>10. Fits(A1, x1)
  <2>1. A1 = Table(three, zero, <<<<Text, e1>>>>) /\ x1 = Box(three, three, zero, one)
    BY <1>1, <1>2, <1>6
  <2>2. Fits(A1, Box(three, three, zero, zero + 1))
    BY <1>7, <2>1, PairFits
  <2>. QED BY <1>7, <2>1, <2>2
<1>11. Fits(A2, x2)
  <2>1. A2 = Table(three, two, <<<<Text, e2>>>>) /\ x2 = Box(three, three, two, three)
    BY <1>1, <1>2, <1>6
  <2>2. Fits(A2, Box(three, three, two, two + 1))
    BY <1>7, <2>1, PairFits
  <2>. QED BY <1>7, <2>1, <2>2
<1>12. Fits(A3, x3)
  <2>1. A3 = Table(three, four, <<<<Text, e3>>>>) /\ x3 = Box(three, three, four, five)
    BY <1>1, <1>2, <1>6
  <2>2. Fits(A3, Box(three, three, four, four + 1))
    BY <1>7, <2>1, PairFits
  <2>. QED BY <1>7, <2>1, <2>2
<1>13. Fits(A4, x4)
  <2>1. A4 = Table(three, six, <<<<Text, e4>>>>) /\ x4 = Box(three, three, six, seven)
    BY <1>1, <1>2, <1>6
  <2>2. Fits(A4, Box(three, three, six, six + 1))
    BY <1>7, <2>1, PairFits
  <2>. QED BY <1>7, <2>1, <2>2
<1>14. Fits(B1, y1)
  <2>1. B1 = Table(four, zero, <<<<Text, b1>>>>) /\ y1 = Box(four, four, zero, one)
    BY <1>1, <1>2, <1>6
  <2>2. Fits(B1, Box(four, four, zero, zero + 1))
    BY <1>7, <2>1, PairFits
  <2>. QED BY <1>7, <2>1, <2>2
<1>15. Fits(B2, y2)
  <2>1. B2 = Table(four, two, <<<<Text, b2>>>>) /\ y2 = Box(four, four, two, three)
    BY <1>1, <1>2, <1>6
  <2>2. Fits(B2, Box(four, four, two, two + 1))
    BY <1>7, <2>1, PairFits
  <2>. QED BY <1>7, <2>1, <2>2
<1>16. Fits(M \cup N, mn)
  BY <1>4, <1>5, <1>8, <1>9, Under
<1>17. Fits(A1 \cup A2, x12)
  BY <1>4, <1>5, <1>10, <1>11, Beside
<1>18. Fits((A1 \cup A2) \cup A3, x123)
  BY <1>4, <1>5, <1>12, <1>17, Beside
<1>19. Fits(((A1 \cup A2) \cup A3) \cup A4, x1234)
  BY <1>4, <1>5, <1>13, <1>18, Beside
<1>20. Fits(B1 \cup B2, y)
  BY <1>4, <1>5, <1>14, <1>15, Beside
<1>21. Fits((((A1 \cup A2) \cup A3) \cup A4) \cup (B1 \cup B2), xy)
  BY <1>5, <1>19, <1>20, Under
<1>22. Fits((M \cup N) \cup ((((A1 \cup A2) \cup A3) \cup A4) \cup (B1 \cup B2)), z)
  BY <1>5, <1>16, <1>21, Under
<1>23. cells = (M \cup N) \cup ((((A1 \cup A2) \cup A3) \cup A4) \cup (B1 \cup B2))
  BY <1>1
<1>. QED
  BY <1>3, <1>22, <1>23

\* The rows of the weeks: a label and its hours.
LEMMA WeekPairs ==
    ASSUME NEW d, IsSupported(d), NEW w, w = WeekCount(d), NEW h, h = [i \in 1 .. w |-> d.weeks[i - 1]],
           NEW body, body = [i \in 1 .. w |-> <<WeekLabels(d)[i], WeekHours(d, d.weeks)[i]>>]
    PROVE  IsTable(body, w, 2) /\ ArePairs(body, w, h) /\ w \in Nat /\ AreToPlot(d, w, h)
<1>1. PICK labels, hours : labels = WeekLabels(d) /\ hours = WeekHours(d, d.weeks)
  OBVIOUS
<1>2. AddUp(w, h, SumOf(d.weeks)) /\ SumOf(d.weeks) = d.total
  <2>1. IsByWeek(d.weeks, d) /\ SumOf(d.weeks) = d.total
    BY DEF IsSupported, TablesAccountForHours
  <2>. QED BY <2>1, WeeksAddUp
<1>3. ASSUME NEW i \in 1 .. w
      PROVE  hours[i] = Duration(h[i]) /\ \E x : labels[i] = Label(x)
  <2>1. hours[i] = Duration(d.weeks[i - 1])
    BY <1>1 DEF WeekHours
  <2>2. labels[i] = Label(ReportWeeks(d.period)[i - 1].from)
    BY <1>1 DEF WeekLabels
  <2>. QED BY <2>1, <2>2
<1>. DEFINE Row(i) == <<labels[i], hours[i]>>
<1>4. body = [i \in 1 .. w |-> Row(i)]
  BY <1>1
<1>5. \A i : DOMAIN Row(i) = 1 .. 2 /\ Row(i)[1] = labels[i] /\ Row(i)[2] = hours[i]
  OBVIOUS
<1>. HIDE DEF Row
<1>6. IsTable(body, w, 2)
  BY <1>4, <1>5 DEF IsTable
<1>7. \A i \in 1 .. w : h[i] \in Nat
  BY <1>2 DEF AddUp
<1>8. ArePairs(body, w, h)
  BY <1>3, <1>4, <1>5, <1>7 DEF ArePairs
<1>. QED
  BY <1>2, <1>6, <1>8 DEF AddUp, AreToPlot

\* The tables of the dashboard: where each is, and what a chart plots of it.
IsDashboardTable(d, cells, all, n, left, right, value) ==
    /\ Fits(cells, Box(5, 5 + n, left, right))
    /\ \E h : Columns(all, n, 6, left, value, h) /\ AreToPlot(d, n, h)

LEMMA MembersTable ==
    ASSUME NEW d, IsSupported(d), NEW rows, rows = ShownMembersOf(d), NEW n, n = Len(rows), NEW w, w = WeekCount(d),
           NEW cells,
           cells = Table(5, 0, <<WeekHeader(d)>> \o
                       [i \in DOMAIN rows |-> WeekRow(d, rows[i].member, rows[i].weeks, rows[i].seconds)]),
           NEW all, cells \subseteq all, NEW right, right = w + 1
    PROVE  n \in Nat /\ IsDashboardTable(d, cells, all, n, 0, right, right)
<1>1. PICK header, body, h, m, five, zero, six :
          /\ header = WeekHeader(d) /\ h = [i \in 1 .. n |-> rows[i].seconds]
          /\ body = [i \in DOMAIN rows |-> WeekRow(d, rows[i].member, rows[i].weeks, rows[i].seconds)]
          /\ m = w + 2 /\ five = 5 /\ zero = 0 /\ six = 6
  OBVIOUS
<1>2. AreShown(d, rows, n, h)
  BY <1>1, MembersShown
<1>3. /\ n \in Nat /\ DOMAIN rows = 1 .. n /\ Plus(h, 1 .. n) = ShownHoursOf(d)
      /\ \A i \in 1 .. n : h[i] \in Nat /\ h[i] = rows[i].seconds
  BY <1>2 DEF AreShown, AddUp
<1>4. w \in Nat /\ m \in Nat /\ five \in Nat /\ zero \in Nat /\ zero + m - 1 = right /\ 1 \in 1 .. m /\ m \in 1 .. m
      /\ zero + 1 - 1 = 0
  <2>1. w \in Nat
    BY DEF IsSupported
  <2>. QED BY <1>1, <2>1, SMT
<1>5. DOMAIN header = 1 .. m
  BY <1>1, WeekHeaderIs
<1>6. AreWeekRows(body, rows, n, w, m)
  BY <1>1, <1>3, WeekRowsAre
<1>7. IsTable(body, n, m)
  BY <1>6 DEF AreWeekRows
<1>8. cells = Table(five, zero, <<header>> \o body)
  BY <1>1
<1>9. IsHeadedAt(cells, five, zero, n, m, header, body)
  BY <1>3, <1>4, <1>5, <1>7, <1>8, HeadedCells
<1>10. Fits(cells, Box(5, 5 + n, 0, right))
  BY <1>1, <1>4, <1>9 DEF IsHeadedAt
<1>11. ASSUME NEW i \in 1 .. n
       PROVE  /\ h[i] \in Nat /\ Cell(6 + i - 1, right, Duration(h[i])) \in all
              /\ \E x : Cell(6 + i - 1, 0, Label(x)) \in all
  <2>1. Cell(five + i, zero + 1 - 1, body[i][1]) \in cells /\ Cell(five + i, zero + m - 1, body[i][m]) \in cells
    BY <1>4, <1>9 DEF IsHeadedAt
  <2>2. five + i = 6 + i - 1
    BY <1>1, SMT
  <2>3. body[i][1] = Label(rows[i].member) /\ body[i][m] = Duration(h[i])
    BY <1>3, <1>6 DEF AreWeekRows
  <2>. QED BY <1>3, <1>4, <2>1, <2>2, <2>3
<1>12. Columns(all, n, 6, 0, right, h)
  BY <1>11 DEF Columns
<1>13. AreToPlot(d, n, h)
  BY <1>3 DEF AreToPlot
<1>. QED
  BY <1>3, <1>10, <1>12, <1>13 DEF IsDashboardTable

LEMMA WeeksTable ==
    ASSUME NEW d, IsSupported(d), NEW w, w = WeekCount(d), NEW left, left = w + 4, NEW value, value = w + 5,
           NEW cells,
           cells = Table(5, left, <<Texts(2)>> \o
                       [i \in 1 .. w |-> <<WeekLabels(d)[i], WeekHours(d, d.weeks)[i]>>]),
           NEW all, cells \subseteq all
    PROVE  IsDashboardTable(d, cells, all, w, left, value, value)
<1>1. PICK header, body, h, two, five, six :
          /\ header = Texts(2) /\ h = [i \in 1 .. w |-> d.weeks[i - 1]]
          /\ body = [i \in 1 .. w |-> <<WeekLabels(d)[i], WeekHours(d, d.weeks)[i]>>]
          /\ two = 2 /\ five = 5 /\ six = 6
  OBVIOUS
<1>2. IsTable(body, w, 2) /\ ArePairs(body, w, h) /\ w \in Nat /\ AreToPlot(d, w, h)
  BY <1>1, WeekPairs
<1>3. /\ two \in Nat /\ 2 <= two /\ DOMAIN header = 1 .. two /\ IsTable(body, w, two) /\ five \in Nat
      /\ left \in Nat /\ left + two - 1 = value /\ six = five + 1 /\ value = left + 1
  <2>1. left \in Nat /\ left + two - 1 = value /\ six = five + 1 /\ value = left + 1
    BY <1>1, <1>2, SMT
  <2>. QED BY <1>1, <1>2, <2>1 DEF Texts
<1>4. cells = Table(five, left, <<header>> \o body)
  BY <1>1
<1>5. IsHeadedAt(cells, five, left, w, two, header, body)
  BY <1>2, <1>3, <1>4, HeadedCells
<1>6. Fits(cells, Box(5, 5 + w, left, value))
  BY <1>1, <1>3, <1>5 DEF IsHeadedAt
<1>7. Columns(all, w, six, left, value, h)
  BY <1>2, <1>3, <1>5, HeadedColumns
<1>. QED
  BY <1>1, <1>2, <1>6, <1>7 DEF IsDashboardTable

\* The columns of the table of the classification.
AreBeside(w, left, value) == left = w + 8 /\ value = w + 9

LEMMA TaskSlicesTable ==
    ASSUME NEW d, IsSupported(d), NEW n, n = Len(d.taskSlices), NEW w, w = WeekCount(d),
           NEW left, NEW value, AreBeside(w, left, value),
           NEW cells, cells = Table(5, left, <<Texts(2)>> \o SliceRows(d.taskSlices)), NEW all, cells \subseteq all
    PROVE  n \in Nat /\ IsDashboardTable(d, cells, all, n, left, value, value)
<1>1. PICK slices, five, six : slices = d.taskSlices /\ five = 5 /\ six = 6
  OBVIOUS
<1>2. /\ IsSlices(slices) /\ SumOf([i \in DOMAIN slices |-> slices[i].seconds]) = d.total /\ w \in Nat
  BY <1>1 DEF IsSupported, TablesAccountForHours
<1>3. five \in Nat /\ left \in Nat /\ six = five + 1 /\ value = left + 1
  BY <1>1, <1>2, SMT DEF AreBeside
<1>4. PICK k, C : k = n /\ C = cells /\ k = Len(slices) /\ C = Table(five, left, <<Texts(2)>> \o SliceRows(slices))
  BY <1>1
<1>5. C \subseteq all
  BY <1>4
<1>6. /\ k \in Nat /\ Fits(C, Box(five, five + k, left, value))
      /\ \E h : Columns(all, k, six, left, value, h) /\ AreToPlot(d, k, h)
  BY <1>2, <1>3, <1>4, <1>5, SlicesTable
<1>. QED
  BY <1>1, <1>4, <1>6 DEF IsDashboardTable

LEMMA TablePlotted ==
    ASSUME NEW d, NEW s, NEW box, Fits(s.cells, box), NEW n \in Nat, NEW cells, NEW left, NEW right, NEW value,
           IsDashboardTable(d, cells, s.cells, n, left, right, value),
           NEW chart, chart.series = ColumnSeries(6, 5 + n, left, value)
    PROVE  ChartIsOfTheDocument(d, s, chart)
<1>1. PICK h : Columns(s.cells, n, 6, left, value, h) /\ AreToPlot(d, n, h)
  BY DEF IsDashboardTable
<1>2. PICK from, last : from = 6 /\ last = 5 + n
  OBVIOUS
<1>3. from \in Nat /\ last = from + n - 1
  BY <1>2, SMT
<1>4. Columns(s.cells, n, from, left, value, h) /\ chart.series = ColumnSeries(from, last, left, value)
  BY <1>1, <1>2
<1>. QED
  BY <1>1, <1>3, <1>4, ColumnsPlotted

\* The charts of the dashboard, below its tables.
LEMMA DashboardChartsAre ==
    ASSUME NEW d, NEW n, n = Len(ShownMembersOf(d)), NEW w, w = WeekCount(d), w \in Nat,
           NEW k, k = Len(d.taskSlices), NEW lower, lower = DashboardChartRow(d),
           NEW chart \in DashboardCharts(d)
    PROVE  \/ chart \in ChartAt(lower, 0, ColumnSeries(6, 5 + n, 0, w + 1))
           \/ chart \in ChartAt(lower, 8, ColumnSeries(6, 5 + w, w + 4, w + 5))
           \/ chart \in ChartAt(lower + 16, 0, ColumnSeries(6, 5 + k, w + 8, w + 9))
BY DEF DashboardCharts, ColumnSeries

LEMMA TeamSummarySheetIsRight ==
    ASSUME NEW d, IsSupported(d)
    PROVE  IsRightSheet(d, TeamSummarySheet(d))
<1>1. PICK s, rows, n, w, k, lower, all, left, value, right, start, stop :
          /\ s = TeamSummarySheet(d) /\ rows = ShownMembersOf(d) /\ n = Len(rows) /\ w = WeekCount(d)
          /\ k = Len(d.taskSlices) /\ lower = DashboardChartRow(d) /\ all = s.cells
          /\ left = w + 8 /\ value = w + 9 /\ right = w + 1 /\ start = w + 4 /\ stop = w + 5
  OBVIOUS
<1>2. PICK P, A, B, C :
          /\ P = Merged(0, 7) \cup Merged(1, 7)
                 \cup Table(3, 0, <<<<Text, Duration(d.total)>>>>)
                 \cup Table(3, 2, <<<<Text, Count(Cardinality(DOMAIN d.members))>>>>)
                 \cup Table(3, 4, <<<<Text, Count(Cardinality(DOMAIN d.tasks))>>>>)
                 \cup Table(3, 6, <<<<Text, Count(Cardinality(d.sources))>>>>)
                 \cup Table(4, 0, <<<<Text, Count(Cardinality(WithHours(d)))>>>>)
                 \cup Table(4, 2, <<<<Text, Count(Cardinality(Uncommented(d)))>>>>)
          /\ A = Table(5, 0, <<WeekHeader(d)>> \o
                     [i \in DOMAIN rows |-> WeekRow(d, rows[i].member, rows[i].weeks, rows[i].seconds)])
          /\ B = Table(5, start, <<Texts(2)>> \o
                     [i \in 1 .. w |-> <<WeekLabels(d)[i], WeekHours(d, d.weeks)[i]>>])
          /\ C = Table(5, left, <<Texts(2)>> \o SliceRows(d.taskSlices))
  OBVIOUS
<1>3. DashboardTables(d) = (A \cup B) \cup C
  BY <1>1, <1>2 DEF DashboardTables
<1>4. /\ all = P \cup ((A \cup B) \cup C)
      /\ s.filter = {} /\ s.charts = DashboardCharts(d)
  <2>1. PICK T, charts : T = DashboardTables(d) /\ charts = DashboardCharts(d)
    OBVIOUS
  <2>2. s = Sheet(P \cup T, {}, charts)
    BY <1>1, <1>2, <2>1, Zenon DEF TeamSummarySheet
  <2>3. s.cells = P \cup T /\ s.filter = {} /\ s.charts = charts
    BY <2>2 DEF Sheet
  <2>. QED BY <1>1, <1>3, <2>1, <2>3
<1>5. A \subseteq all /\ B \subseteq all /\ C \subseteq all
  BY <1>4
<1>6. w \in Nat
  BY <1>1 DEF IsSupported
<1>7. n \in Nat /\ IsDashboardTable(d, A, all, n, 0, right, right)
  BY <1>1, <1>2, <1>5, MembersTable, ZenonT(40)
<1>8. IsDashboardTable(d, B, all, w, start, stop, stop)
  BY <1>1, <1>2, <1>5, WeeksTable
<1>9. k \in Nat /\ IsDashboardTable(d, C, all, k, left, value, value)
  <2>1. AreBeside(w, left, value)
    BY <1>1 DEF AreBeside
  <2>2. /\ k = Len(d.taskSlices) /\ w = WeekCount(d)
        /\ C = Table(5, left, <<Texts(2)>> \o SliceRows(d.taskSlices))
    BY <1>1, <1>2
  <2>. QED BY <1>5, <2>1, <2>2, TaskSlicesTable
<1>10. lower \in Nat /\ 7 + n <= lower /\ 7 + w <= lower /\ 7 + k <= lower
  BY <1>1, <1>6, <1>7, <1>9, DashboardRow
<1>11. Fits(P, Box(0, 4, 0, 7))
  BY <1>2, MetricsFit, ZenonT(40)
\* Where the cells are.
<1>12. /\ 0 \in Nat /\ 4 \in Nat /\ 5 \in Nat /\ 7 \in Nat /\ lower - 1 \in Nat
       /\ 5 + n \in Nat /\ 5 + w \in Nat /\ 5 + k \in Nat
       /\ right \in Nat /\ start \in Nat /\ stop \in Nat /\ left \in Nat /\ value \in Nat
       /\ 5 + n <= lower - 1 /\ 5 + w <= lower - 1 /\ 5 + k <= lower - 1 /\ 7 <= value
       /\ right < start /\ start <= stop /\ stop < left /\ left <= value
  <2>1. left = w + 8 /\ value = w + 9 /\ right = w + 1 /\ start = w + 4 /\ stop = w + 5
    BY <1>1
  <2>2. n \in Nat /\ w \in Nat /\ k \in Nat /\ lower \in Nat /\ 7 + n <= lower /\ 7 + w <= lower /\ 7 + k <= lower
    BY <1>6, <1>7, <1>9, <1>10
  <2>3. lower - 1 \in Nat /\ 5 + n <= lower - 1 /\ 5 + w <= lower - 1 /\ 5 + k <= lower - 1
    BY <2>2, SMT
  <2>4. /\ right \in Nat /\ start \in Nat /\ stop \in Nat /\ left \in Nat /\ value \in Nat
        /\ 7 <= value /\ right < start /\ start <= stop /\ stop < left /\ left <= value
    BY <2>1, <2>2, SMT
  <2>5. 5 + n \in Nat /\ 5 + w \in Nat /\ 5 + k \in Nat
    BY <2>2, SMT
  <2>. QED BY <2>3, <2>4, <2>5
<1>13. PICK p, a, b, c, ab, abc, z :
          /\ p = Box(0, 4, 0, 7) /\ a = Box(5, 5 + n, 0, right) /\ b = Box(5, 5 + w, start, stop)
          /\ c = Box(5, 5 + k, left, value) /\ ab = Box(5, lower - 1, 0, stop)
          /\ abc = Box(5, lower - 1, 0, value) /\ z = Box(0, lower - 1, 0, value)
  OBVIOUS
<1>14. /\ p \in Boxes /\ p.top = 0 /\ p.bottom = 4 /\ p.left = 0 /\ p.right = 7
       /\ a \in Boxes /\ a.top = 5 /\ a.bottom = 5 + n /\ a.left = 0 /\ a.right = right
       /\ b \in Boxes /\ b.top = 5 /\ b.bottom = 5 + w /\ b.left = start /\ b.right = stop
       /\ c \in Boxes /\ c.top = 5 /\ c.bottom = 5 + k /\ c.left = left /\ c.right = value
       /\ ab \in Boxes /\ ab.top = 5 /\ ab.bottom = lower - 1 /\ ab.left = 0 /\ ab.right = stop
       /\ abc \in Boxes /\ abc.top = 5 /\ abc.bottom = lower - 1 /\ abc.left = 0 /\ abc.right = value
       /\ z \in Boxes /\ z.top = 0 /\ z.bottom = lower - 1 /\ z.left = 0 /\ z.right = value
  BY <1>12, <1>13 DEF Box, Boxes
<1>15. Fits(P, p) /\ Fits(A, a) /\ Fits(B, b) /\ Fits(C, c)
  BY <1>7, <1>8, <1>9, <1>11, <1>13 DEF IsDashboardTable
<1>16. Fits(A \cup B, ab)
  <2>1. /\ a.right < b.left /\ a.left <= a.right /\ b.left <= b.right /\ ab.top <= a.top /\ ab.top <= b.top
        /\ a.bottom <= ab.bottom /\ b.bottom <= ab.bottom /\ ab.left <= a.left /\ b.right <= ab.right
    BY <1>12, <1>14, SMT
  <2>. QED BY <1>14, <1>15, <2>1, Beside
<1>17. Fits((A \cup B) \cup C, abc)
  <2>1. /\ ab.right < c.left /\ ab.left <= ab.right /\ c.left <= c.right /\ abc.top <= ab.top /\ abc.top <= c.top
        /\ ab.bottom <= abc.bottom /\ c.bottom <= abc.bottom /\ abc.left <= ab.left /\ c.right <= abc.right
    BY <1>12, <1>14, SMT
  <2>. QED BY <1>14, <1>15, <1>16, <2>1, Beside
<1>18. Fits(all, z)
  <2>1. /\ p.bottom < abc.top /\ p.top <= p.bottom /\ abc.top <= abc.bottom /\ z.top <= p.top
        /\ abc.bottom <= z.bottom /\ z.left <= p.left /\ z.left <= abc.left /\ p.right <= z.right
        /\ abc.right <= z.right
    BY <1>7, <1>12, <1>14, SMT
  <2>. QED BY <1>4, <1>14, <1>15, <1>17, <2>1, Under
\* The charts.
<1>19. PICK front, second, third, later :
          /\ front = ColumnSeries(6, 5 + n, 0, right) /\ second = ColumnSeries(6, 5 + w, start, stop)
          /\ third = ColumnSeries(6, 5 + k, left, value) /\ later = lower + 16
  OBVIOUS
<1>20. ASSUME NEW chart \in s.charts
       PROVE  \/ chart \in ChartAt(lower, 0, front) \/ chart \in ChartAt(lower, 8, second)
              \/ chart \in ChartAt(later, 0, third)
  <2>1. chart \in DashboardCharts(d)
    BY <1>4
  <2>2. \/ chart \in ChartAt(lower, 0, ColumnSeries(6, 5 + n, 0, w + 1))
        \/ chart \in ChartAt(lower, 8, ColumnSeries(6, 5 + w, w + 4, w + 5))
        \/ chart \in ChartAt(lower + 16, 0, ColumnSeries(6, 5 + k, w + 8, w + 9))
    BY <1>1, <1>6, <2>1, DashboardChartsAre
  <2>. QED BY <1>1, <1>19, <2>2
<1>21. later \in Nat /\ lower + ChartRows - 1 < later /\ lower - 1 < lower /\ lower - 1 < later /\ lower # later
  BY <1>10, <1>19, SMT DEF ChartRows
<1>22. ASSUME NEW chart \in s.charts
       PROVE  /\ chart.row \in {lower, later} /\ chart.column \in {0, 8}
              /\ chart.row = later => chart.column = 0
  BY <1>20, <1>21, ChartsAt
<1>23. ASSUME NEW chart \in s.charts PROVE IsClear(all, chart)
  <2>1. chart.row \in Nat /\ chart.column \in Nat /\ z.bottom < chart.row
    BY <1>10, <1>14, <1>21, <1>22
  <2>. QED BY <1>14, <1>18, <2>1, BoxIsClear
<1>24. ASSUME NEW chart \in s.charts, NEW other \in s.charts, chart.row = other.row, chart.column = other.column
       PROVE  chart = other
  <2>1. ASSUME NEW x \in s.charts, NEW row, NEW column, NEW series, x \in ChartAt(row, column, series)
        PROVE  x = [row |-> row, column |-> column, series |-> series] /\ x.row = row /\ x.column = column
    BY <2>1 DEF ChartAt
  <2>2. CASE chart \in ChartAt(lower, 0, front)
    <3>1. other \in ChartAt(lower, 0, front)
      BY <1>20, <1>21, <1>24, <2>1, <2>2
    <3>. QED BY <2>1, <2>2, <3>1
  <2>3. CASE chart \in ChartAt(lower, 8, second)
    <3>1. other \in ChartAt(lower, 8, second)
      BY <1>20, <1>21, <1>24, <2>1, <2>3
    <3>. QED BY <2>1, <2>3, <3>1
  <2>4. CASE chart \in ChartAt(later, 0, third)
    <3>1. other \in ChartAt(later, 0, third)
      BY <1>20, <1>21, <1>24, <2>1, <2>4
    <3>. QED BY <2>1, <2>4, <3>1
  <2>. QED BY <1>20, <2>2, <2>3, <2>4
<1>25. ASSUME NEW chart \in s.charts, NEW other \in s.charts \ {chart}
       PROVE  ~Covers(chart, <<other.row, other.column>>)
  <2>1. chart.row # other.row \/ chart.column # other.column
    BY <1>24
  <2>2. CASE chart.row # other.row
    <3>1. \/ chart.row = lower /\ other.row = later
          \/ chart.row = later /\ other.row = lower
      BY <1>22, <2>2
    <3>2. other.row \notin chart.row .. chart.row + ChartRows - 1
      BY <1>10, <1>21, <3>1, SMT DEF ChartRows
    <3>. QED BY <3>2 DEF Covers
  <2>3. CASE chart.column # other.column
    <3>1. \/ chart.column = 0 /\ other.column = 8
          \/ chart.column = 8 /\ other.column = 0
      BY <1>22, <2>3
    <3>2. other.column \notin chart.column .. chart.column + ChartColumns - 1
      BY <3>1, SMT DEF ChartColumns
    <3>. QED BY <3>2 DEF Covers
  <2>. QED BY <2>1, <2>2, <2>3
<1>26. SheetIsWellLaidOut(s)
  BY <1>1, <1>4, <1>14, <1>18, <1>23, <1>25, LaidOut
<1>27. Fits(s.cells, z)
  BY <1>1, <1>18
<1>28. ASSUME NEW chart, chart.series = front PROVE ChartIsOfTheDocument(d, s, chart)
  BY <1>1, <1>7, <1>19, <1>27, <1>28, TablePlotted
<1>29. ASSUME NEW chart, chart.series = second PROVE ChartIsOfTheDocument(d, s, chart)
  BY <1>1, <1>6, <1>8, <1>19, <1>27, <1>29, TablePlotted
<1>30. ASSUME NEW chart, chart.series = third PROVE ChartIsOfTheDocument(d, s, chart)
  BY <1>1, <1>9, <1>19, <1>27, <1>30, TablePlotted
<1>31. ASSUME NEW chart \in s.charts PROVE ChartIsOfTheDocument(d, s, chart)
  BY <1>20, <1>28, <1>29, <1>30, ChartsAt
<1>. QED
  BY <1>1, <1>26, <1>31 DEF IsRightSheet

---------------------------------------------------------------------------
(* The team's workbook, and all that is made of an exported document.       *)

LEMMA TeamWorkbookIsRight ==
    ASSUME NEW d, IsSupported(d), NEW s \in ToSet(TeamWorkbook(d))
    PROVE  IsRightSheet(d, s)
<1>1. s \in {TeamSummarySheet(d), TeamWeeklySheet(d), TeamDailySheet(d), TeamMembersSheet(d),
             TeamClassificationSheet(d), TeamTasksSheet(d), TeamSourcesSheet(d), ScopeSheet(TeamScope(d))}
  <2>1. PICK a, b, c, e, f, g, h, i : /\ a = TeamSummarySheet(d) /\ b = TeamWeeklySheet(d)
                                      /\ c = TeamDailySheet(d) /\ e = TeamMembersSheet(d)
                                      /\ f = TeamClassificationSheet(d) /\ g = TeamTasksSheet(d)
                                      /\ h = TeamSourcesSheet(d) /\ i = ScopeSheet(TeamScope(d))
    OBVIOUS
  <2>2. PICK book : book = <<a, b, c, e, f, g, h, i>>
    OBVIOUS
  <2>3. s \in {book[k] : k \in DOMAIN book}
    BY <2>1, <2>2 DEF TeamWorkbook, ToSet
  <2>4. DOMAIN book = {1, 2, 3, 4, 5, 6, 7, 8} /\ book[1] = a /\ book[2] = b /\ book[3] = c
        /\ book[4] = e /\ book[5] = f /\ book[6] = g /\ book[7] = h /\ book[8] = i
    BY <2>2, SMT
  <2>. QED BY <2>1, <2>3, <2>4
<1>2. IsRightSheet(d, ScopeSheet(TeamScope(d)))
  <2>1. PICK n, rows : n = 13 /\ rows = TeamScope(d)
    OBVIOUS
  <2>2. n \in Nat /\ DOMAIN rows = 1 .. n
    BY <2>1, TeamScopeIs
  <2>3. IsRightSheet(d, ScopeSheet(rows))
    BY <2>2, ScopeSheetIsRight
  <2>. QED BY <2>1, <2>3
<1>. QED
  BY <1>1, <1>2, TeamSummarySheetIsRight, TeamWeeklySheetIsRight, TeamDailySheetIsRight, TeamMembersSheetIsRight,
     TeamClassificationSheetIsRight, TeamTasksSheetIsRight, TeamSourcesSheetIsRight

LEMMA SheetsAreRight ==
    ASSUME NEW d, IsSupported(d)
    PROVE  WorkbookIsRight(d)
<1>1. ASSUME NEW s \in ToSet(Workbook(d)) PROVE IsRightSheet(d, s)
  <2>1. Workbook(d) = PersonalWorkbook(d) \/ Workbook(d) = TeamWorkbook(d)
    BY DEF Workbook
  <2>. QED BY <2>1, PersonalWorkbookIsRight, TeamWorkbookIsRight
<1>. QED
  BY <1>1 DEF WorkbookIsRight, IsRightSheet

\* No cell of an exported workbook is written twice, a filter covers its whole table, no
\* chart lies over a cell or begins on another chart, and every chart plots as many hours
\* as it labels: in all those of the document, or of the members for whom it has room.
THEOREM ExportedWorkbooksAreRight == DeskSpec => [](Exporting => WorkbookIsRight(page.document))
<1>1. ExportsAreComplete => (Exporting => WorkbookIsRight(page.document))
  BY CompleteReportsAreSupported, SheetsAreRight DEF ExportsAreComplete
<1>. QED
  BY <1>1, ExportsAreOfCompleteReports, PTL

LEMMA CompleteReportsAreAccountedFor ==
    ASSUME NEW d, IsOfCompleteReport(d)
    PROVE  [document |-> d, right |-> TRUE] \in Judged
<1>1. IsSupported(d) /\ IsTabled(d) /\ d.scope \in {"individual", "team"}
  BY CompleteReportsAreSupported, CompleteReportsAreTabled
<1>2. TablesAccountForHours(d)
  BY <1>1 DEF IsSupported
<1>3. WorkbookIsRight(d) /\ PdfIsRight(d) /\ FiguresAgree(d) /\ PageIsRight(d)
  BY <1>1, SheetsAreRight, PagesAreRight, SameFigures, PageShowsAll
<1>4. IsAccountedFor(d) = TRUE
  BY <1>2, <1>3 DEF IsAccountedFor
<1>. DEFINE S == {PersonalDocument(p) : p \in Periods}
                 \cup {TeamDocument(p, Within(p, Hours), filters) : p \in Periods, filters \in Filters}
<1>6. d \in S
  BY DEF IsOfCompleteReport
<1>7. Judged = {[document |-> x, right |-> IsAccountedFor(x)] : x \in S}
  BY DEF Judged
<1>. HIDE DEF S
<1>8. [document |-> d, right |-> IsAccountedFor(d)] \in Judged
  BY <1>6, <1>7
<1>. QED
  BY <1>4, <1>8

\* Whatever was chosen, answered and filtered before, an export is of a complete report,
\* and its tables, charts, sheets and pages account for all of its hours.
THEOREM ExportsAlwaysAccountForHours == DeskSpec => []ExportsAccountForHours
<1>1. ExportsAreComplete => ExportsAccountForHours
  BY CompleteReportsAreAccountedFor DEF ExportsAreComplete, ExportsAccountForHours
<1>. QED
  BY <1>1, ExportsAreOfCompleteReports, PTL

---------------------------------------------------------------------------
(* The parts side by side.  Whichever of them is at work, each behaves as    *)
(* it does alone, so that what is proved of a part holds beside the others.  *)

Suites == {"pages", "reports", "desktop", "consent", "week", "entry", "finder"}

LEMMA PartsInit ==
    Init => ReadInit /\ ReportInit /\ DeskInit /\ PermissionsInit /\ EntryInit /\ suite \in Suites
BY DEF Init, NothingRead, NothingReported, NothingShown, Suites

LEMMA PartsStep ==
    [Next]_vars => /\ [ReadNext]_readVars /\ [ReportNext]_reportVars /\ [DeskNext]_deskVars
                   /\ [PermissionsNext]_permissionVars /\ [EntryNext]_entryVars
                   /\ UNCHANGED suite
<1>. SUFFICES ASSUME [Next]_vars
              PROVE  /\ [ReadNext]_readVars /\ [ReportNext]_reportVars /\ [DeskNext]_deskVars
                     /\ [PermissionsNext]_permissionVars /\ [EntryNext]_entryVars
                     /\ UNCHANGED suite
  OBVIOUS
<1>1. CASE UNCHANGED vars
  BY <1>1, Zenon DEF vars
<1>2. ASSUME suite = "pages", ReadNext,
             UNCHANGED <<reportVars, deskVars, permissionVars, entryVars>>
      PROVE  /\ [ReadNext]_readVars /\ [ReportNext]_reportVars /\ [DeskNext]_deskVars
             /\ [PermissionsNext]_permissionVars /\ [EntryNext]_entryVars
  BY <1>2, Zenon
<1>3. ASSUME suite = "reports", ReportNext,
             UNCHANGED <<readVars, deskVars, permissionVars, entryVars>>
      PROVE  /\ [ReadNext]_readVars /\ [ReportNext]_reportVars /\ [DeskNext]_deskVars
             /\ [PermissionsNext]_permissionVars /\ [EntryNext]_entryVars
  BY <1>3, Zenon
<1>4. ASSUME suite = "desktop", DeskNext,
             UNCHANGED <<readVars, reportVars, permissionVars, entryVars>>
      PROVE  /\ [ReadNext]_readVars /\ [ReportNext]_reportVars /\ [DeskNext]_deskVars
             /\ [PermissionsNext]_permissionVars /\ [EntryNext]_entryVars
  BY <1>4, Zenon
<1>5. ASSUME suite = "consent", PermissionsNext,
             UNCHANGED <<readVars, reportVars, deskVars, entryVars>>
      PROVE  /\ [ReadNext]_readVars /\ [ReportNext]_reportVars /\ [DeskNext]_deskVars
             /\ [PermissionsNext]_permissionVars /\ [EntryNext]_entryVars
  BY <1>5, Zenon
<1>6. ASSUME PeriodNext \/ ShiftPeriod \/ FinderNext \/ DialogNext,
             UNCHANGED <<readVars, reportVars, deskVars, permissionVars>>
      PROVE  /\ [ReadNext]_readVars /\ [ReportNext]_reportVars /\ [DeskNext]_deskVars
             /\ [PermissionsNext]_permissionVars /\ [EntryNext]_entryVars
  BY <1>6, Zenon DEF EntryNext, PeriodNext
<1>7. Entering => ShiftPeriod \/ FinderNext \/ DialogNext
  BY Zenon DEF Entering, FinderNext, DialogNext
<1>8. Finding => FinderNext \/ DialogNext
  BY Zenon DEF Finding, DialogNext
<1>. QED
  BY <1>1, <1>2, <1>3, <1>4, <1>5, <1>6, <1>7, <1>8, Zenon DEF Next

\* A suite is a behaviour of each of its parts.
THEOREM PartsActAsAlone ==
    Spec => ReadSpec /\ ReportSpec /\ DeskSpec /\ PermissionsSpec /\ EntrySpec
BY PartsInit, PartsStep, PTL DEF Spec, ReadSpec, ReportSpec, DeskSpec, PermissionsSpec, EntrySpec

LEMMA SuiteStays == Spec => [](suite \in Suites)
<1>1. suite \in Suites /\ [Next]_vars => (suite \in Suites)'
  BY PartsStep
<1>. QED
  BY PartsInit, <1>1, PTL DEF Spec

LEMMA ReadsAreTyped == ReadSpec => []ReadTypeOK
<1>1. ReadInv => ReadTypeOK
  BY DEF ReadInv, ReadsTyped, ReadRecords, ReadTypeOK
<1>. QED
  BY <1>1, ReadInitInv, ReadStepKeepsInv, PTL DEF ReadSpec

LEMMA ReportsAreTyped == ReportSpec => []ReportTypeOK
<1>1. ReportsInv => ReportTypeOK
  BY DEF ReportsInv
<1>. QED
  BY <1>1, ReportInitInv, ReportStepInv, PTL DEF ReportSpec

\* The variables of every part have their types, of the part at work and of the others.
THEOREM PartsAreTyped == Spec => []TypeOK
<1>1. /\ suite \in Suites /\ ReadTypeOK /\ ReportTypeOK /\ DeskTypeOK /\ PermissionsTypeOK
      /\ EntryTypeOK
      => TypeOK
  <2>. SUFFICES ASSUME suite \in Suites, ReadTypeOK, ReportTypeOK, DeskTypeOK,
                       PermissionsTypeOK, EntryTypeOK
                PROVE  TypeOK
    OBVIOUS
  <2>1. CASE suite \in {"week", "entry", "finder"}
    BY <2>1 DEF TypeOK
  <2>2. CASE suite = "pages"
    BY <2>2 DEF TypeOK
  <2>3. CASE suite = "reports"
    BY <2>3 DEF TypeOK
  <2>4. CASE suite = "desktop"
    BY <2>4 DEF TypeOK
  <2>5. CASE suite = "consent"
    BY <2>5 DEF TypeOK
  <2>. QED
    BY <2>1, <2>2, <2>3, <2>4, <2>5 DEF Suites
<1>. QED
  BY <1>1, PartsActAsAlone, SuiteStays, ReadsAreTyped, ReportsAreTyped, DeskIsAlwaysTyped,
     PermissionsTyped, PageIsAlwaysTyped, PTL

\* A switch on the consent page and a setup grant and withdraw what they name, whatever
\* was granted before and whatever profile applies.
THEOREM ConsentIsAskedForInSuites == Spec => []ConsentIsAskedFor
<1>1. GrantsAreAskedFor => ConsentIsAskedFor
  BY DEF ConsentIsAskedFor
<1>. QED
  BY <1>1, PartsActAsAlone, ConsentIsAlwaysAskedFor, PTL
=============================================================================
