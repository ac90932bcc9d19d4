------------------------ MODULE ReportPresentation ------------------------
(* What is made of the document of a report: the tables and charts of the   *)
(* page (desktop-app/src/reports.rs), the sheets of the workbook            *)
(* (report_export.rs) and the pages of the PDF (report_pdf.rs).  Texts,     *)
(* colours and sizes are left out; what is kept is which figure stands in   *)
(* which cell, which cells a chart plots, and on which page a record is.    *)
EXTENDS DesktopReports

CONSTANTS MaxChartMembers,      \* maximum_team_chart_members
          MaxTaskBars,          \* 8 in the code
          MaxTrendLabels,       \* maximum_trend_labels
          RecordsPerPage,       \* DETAILS_ROWS_PER_PAGE
          RowsPerTable,         \* table_page_size
          BarScale              \* BAR_SCALE

ASSUME ReportPresentationAssumption ==
    /\ {MaxChartMembers, MaxTaskBars, RecordsPerPage, RowsPerTable, BarScale} \subseteq Nat \ {0}
    /\ MaxTrendLabels \in Nat

AtMost(n, limit) == IF n > limit THEN limit ELSE n
Ceiling(n, d) == (n + d - 1) \div d

---------------------------------------------------------------------------
(* The analytics of a document.                                             *)

\* summarize_tasks, summarize_team_tasks
TaskRows(d) ==
    LET keys == Ranked(d.tasks)
    IN  [i \in DOMAIN keys |->
            [task |-> keys[i], seconds |-> d.tasks[keys[i]],
             entries |-> Cardinality({h \in d.sources : h.task = keys[i]})]]

\* summarize_members, in the order of their hours.
RankedMembers(d) ==
    LET keys == Ranked([m \in DOMAIN d.members |-> d.members[m].total])
        own(m) == {h \in d.sources : h.author = m}
    IN  [i \in DOMAIN keys |->
            [member |-> keys[i], seconds |-> d.members[keys[i]].total,
             entries |-> d.members[keys[i]].entries, weeks |-> d.members[keys[i]].weeks,
             days |-> Cardinality({h.day : h \in own(keys[i])}),
             tasks |-> Cardinality({h.task : h \in own(keys[i])})]]

\* trend_points
Trend(d) ==
    [i \in 1 .. d.period.to - d.period.from + 1 |->
        LET day == d.period.from + i - 1
        IN  [day |-> day, seconds |-> d.days[day],
             cumulative |-> SumOf([k \in d.period.from .. day |-> d.days[k]])]]

ActiveDays(d) == {k \in DOMAIN d.days : d.days[k] > 0}

AverageDay(d) == IF ActiveDays(d) = {} THEN 0 ELSE d.total \div Cardinality(ActiveDays(d))

\* busiest_day: of equal days the last.
BusiestDays(d) ==
    {k \in ActiveDays(d) : \A o \in ActiveDays(d) :
        d.days[o] < d.days[k] \/ (d.days[o] = d.days[k] /\ o <= k)}

Uncommented(d) == {h \in d.sources : ~h.comment}

\* team_member_slices: the members with the most hours, and the others in one.
MemberSlices(d) ==
    LET rows == RankedMembers(d)
        maximum == IF MaxChartMembers < 2 THEN 2 ELSE MaxChartMembers
        largest == IF Len(rows) <= maximum THEN Len(rows) ELSE maximum - 1
        rest == SumOf([i \in largest + 1 .. Len(rows) |-> rows[i].seconds])
    IN  [i \in 1 .. largest |-> rows[i].seconds] \o (IF largest = Len(rows) THEN <<>> ELSE <<rest>>)

\* members_with_hours, team_members_with_hours
WithHours(d) == {m \in DOMAIN d.members : d.members[m].total > 0}

\* top_task_percentage
TopTask(d) ==
    IF d.tasks = <<>> THEN 0 ELSE Percentage(TaskRows(d)[1].seconds, d.total)

Text == <<"text">>
Label(x) == <<"label", x>>
Seconds(n) == <<"seconds", n>>
Count(n) == <<"count", n>>
Duration(n) == <<"hours", n>>

\* ReportMetrics of the page and personal_metrics of the PDF.
PersonalMetrics(d) ==
    <<Duration(d.total), Count(Cardinality(ActiveDays(d))), Count(Cardinality(DOMAIN d.tasks)),
      Count(Cardinality(d.sources)), Duration(AverageDay(d)), Label(BusiestDays(d)),
      Count(TopTask(d)), Count(Cardinality(Uncommented(d)))>>

\* TeamMetrics and TeamCoverage of the page and team_metrics of the PDF.
TeamMetrics(d) ==
    <<Duration(d.total), Count(Cardinality(WithHours(d))), Count(Cardinality(DOMAIN d.tasks)),
      Count(Cardinality(d.sources)), Count(Cardinality(Uncommented(d)))>>

---------------------------------------------------------------------------
(* The page.                                                                *)

\* visible_trend_points: the first, the last, and as many as fit at an interval.
LabelledPoints(d) ==
    LET maximum == IF MaxTrendLabels < 2 THEN 2 ELSE MaxTrendLabels
        count == Len(Trend(d))
        interval == Ceiling(count - 1, maximum - 1)
    IN  {i \in 1 .. count :
            i \in {1, count} \/ (i - 1) % (IF interval = 0 THEN 1 ELSE interval) = 0}

\* Mutant: a table whose rows fill its pages has one page more.
WindowsAndOne(count, requested) ==
    LET total == count \div RowsPerTable + 1
        current == AtMost(requested, total - 1)
        start == AtMost(current * RowsPerTable, count)
    IN  [current |-> current, total |-> total,
         rows |-> start + 1 .. AtMost(start + RowsPerTable, count)]

\* page_window, PaginationControls: a table keeps the page that was chosen, whatever
\* the rows have become.
PageWindow(count, requested) ==
    LET total == Ceiling(IF count = 0 THEN 1 ELSE count, RowsPerTable)
        current == AtMost(requested, total - 1)
        start == AtMost(current * RowsPerTable, count)
    IN  [current |-> current, total |-> total,
         rows |-> start + 1 .. AtMost(start + RowsPerTable, count)]

\* The tables of the page that are shown in windows.
PageTables(d) ==
    {Len(TaskRows(d)), Cardinality(d.sources)}
    \cup (IF d.scope = "team" THEN {Len(RankedMembers(d))} ELSE {})

---------------------------------------------------------------------------
(* The workbook: a sheet has cells, a filter over its table, and charts.    *)

\* Rows of values written from a cell on: xlsx_row, xlsx_column.
Table(row, column, rows) ==
    UNION {{[row |-> row + i - 1, column |-> column + j - 1, value |-> rows[i][j]] :
               j \in DOMAIN rows[i]} : i \in DOMAIN rows}

Texts(n) == [i \in 1 .. n |-> Text]
Merged(row, lastColumn) == Table(row, 0, <<Texts(lastColumn + 1)>>)
LabelValue(row, value) == Table(row, 0, <<<<Text, value>>>>)

Down(from, last, column) == {<<row, column>> : row \in from .. last}
Across(row, from, last) == {<<row, column>> : column \in from .. last}

\* insert_chart: its corner, and the labels and values of its series.
ChartAt(row, column, series) == {[row |-> row, column |-> column, series |-> series]}
Series(labels, values) == [labels |-> labels, values |-> values]

\* finish_table: the filter covers the header and the rows, if there are any.
Filtered(rows, lastColumn) ==
    IF rows = 0 THEN {} ELSE {[lastRow |-> rows, lastColumn |-> lastColumn]}

Sheet(cells, filter, charts) == [cells |-> cells, filter |-> filter, charts |-> charts]

WeekCount(d) == Cardinality(DOMAIN ReportWeeks(d.period))
WeekLabels(d) == [i \in 1 .. WeekCount(d) |-> Label(ReportWeeks(d.period)[i - 1].from)]
WeekHours(d, weeks) == [i \in 1 .. WeekCount(d) |-> Duration(weeks[i - 1])]
WeekHeader(d) == <<Text>> \o WeekLabels(d) \o <<Text>>
WeekRow(d, member, weeks, total) ==
    <<Label(member)>> \o WeekHours(d, weeks) \o <<Duration(total)>>

TrendRows(d) ==
    [i \in DOMAIN Trend(d) |->
        <<Label(Trend(d)[i].day), Duration(Trend(d)[i].seconds), Duration(Trend(d)[i].cumulative)>>]
SliceRows(slices) == [i \in DOMAIN slices |-> <<Label(slices[i].label), Duration(slices[i].seconds)>>]
SourceRows(d) == SetToSeq(d.sources)

\* insert_summary_charts
SummaryCharts(d) ==
    LET points == Len(Trend(d))
        slices == Len(d.taskSlices)
    IN  ChartAt(1, 4, {Series(Down(15, 14 + points, 0), Down(15, 14 + points, 1))})
        \cup IF slices = 0 THEN {}
             ELSE ChartAt(16, 4, {Series(Down(0, slices - 1, 12), Down(0, slices - 1, 13))})

\* write_summary_sheet: the figures, the trend, and the data of a chart in hidden columns.
SummarySheet(d) ==
    Sheet(Merged(0, 7) \cup LabelValue(2, Label(User)) \cup LabelValue(3, Text)
          \cup LabelValue(4, Text) \cup LabelValue(5, Duration(d.total))
          \cup LabelValue(6, Count(Cardinality(ActiveDays(d))))
          \cup LabelValue(7, Count(Cardinality(DOMAIN d.tasks)))
          \cup LabelValue(8, Count(Cardinality(d.sources)))
          \cup LabelValue(9, Duration(AverageDay(d)))
          \cup LabelValue(10, Label(BusiestDays(d))) \cup LabelValue(11, Count(TopTask(d)))
          \cup LabelValue(12, Count(Cardinality(Uncommented(d))))
          \cup Table(14, 0, <<Texts(3)>> \o TrendRows(d))
          \cup Table(0, 12, SliceRows(d.taskSlices)),
          {}, SummaryCharts(d))

\* write_personal_weekly_sheet
WeeklySheet(d) ==
    LET weeks == WeekCount(d)
    IN  Sheet(Table(0, 0, <<WeekHeader(d), WeekRow(d, User, d.weeks, d.total)>>),
              Filtered(1, weeks + 1),
              ChartAt(3, weeks + 2, {Series(Across(0, 1, weeks), Across(1, 1, weeks))}))

\* write_task_rows_sheet
TasksSheet(d) ==
    LET rows == TaskRows(d)
    IN  Sheet(Table(0, 0, <<Texts(5)>> \o
                  [i \in DOMAIN rows |-> <<Label(rows[i].task), Text, Count(rows[i].entries),
                                           Duration(rows[i].seconds), Text>>]),
              Filtered(Len(rows), 4), {})

\* write_worklogs_sheet, write_worklog_fields
WorklogsSheet(d) ==
    LET rows == SourceRows(d)
    IN  Sheet(Table(0, 0, <<Texts(10)>> \o
                  [i \in DOMAIN rows |->
                      <<Text, Label(rows[i].author)>>
                      \o <<Label(rows[i].day), Text, Seconds(rows[i].seconds), Duration(rows[i].seconds)>>
                      \o <<Label(rows[i].task), Text, Text, Text>>]),
              Filtered(Len(rows), 9), {})

\* write_scope_sheet
ScopeSheet(rows) ==
    Sheet(Merged(0, 3) \cup UNION {LabelValue(1 + i, rows[i]) : i \in DOMAIN rows}, {}, {})

\* personal_scope_rows, with the rows of the context.
PersonalScope(d) ==
    <<Label(User), Text, Text, Text, Count(Cardinality(d.sources)),
      Count(Cardinality(DOMAIN d.tasks)), Duration(d.total)>> \o Texts(4)

\* build_workbook
PersonalWorkbook(d) ==
    <<SummarySheet(d), WeeklySheet(d), TasksSheet(d), WorklogsSheet(d), ScopeSheet(PersonalScope(d))>>

ShownMembersOf(d) == SubSeq(RankedMembers(d), 1, AtMost(Cardinality(DOMAIN d.members), MaxChartMembers))

\* team_dashboard_chart_row: below the longest table.
DashboardChartRow(d) ==
    LET rows == {Len(ShownMembersOf(d)), WeekCount(d), Len(d.taskSlices)}
    IN  7 + CHOOSE n \in rows : \A o \in rows : o <= n

\* Mutant: the rows of the members' chart are counted from the header.
DashboardChartsFromHeader(d) ==
    LET weeks == WeekCount(d)
        members == Len(ShownMembersOf(d))
        lower == DashboardChartRow(d)
    IN  IF d.total = 0 THEN {}
        ELSE ChartAt(lower, 0, {Series(Down(6, 4 + members, 0), Down(6, 4 + members, weeks + 1))})

\* insert_team_charts: the tables are plotted when there are hours.
DashboardCharts(d) ==
    LET weeks == WeekCount(d)
        members == Len(ShownMembersOf(d))
        slices == Len(d.taskSlices)
        lower == DashboardChartRow(d)
        plot(column, rows, values) == {Series(Down(6, 5 + rows, column), Down(6, 5 + rows, values))}
    IN  IF d.total = 0 THEN {}
        ELSE (IF members = 0 THEN {} ELSE ChartAt(lower, 0, plot(0, members, weeks + 1)))
             \cup ChartAt(lower, 8, plot(weeks + 4, weeks, weeks + 5))
             \cup (IF slices = 0 THEN {} ELSE ChartAt(lower + 16, 0, plot(weeks + 8, slices, weeks + 9)))

\* write_team_dashboard_tables: three tables side by side.
DashboardTables(d) ==
    LET weeks == WeekCount(d)
        members == ShownMembersOf(d)
    IN  Table(5, 0, <<WeekHeader(d)>> \o
            [i \in DOMAIN members |->
                WeekRow(d, members[i].member, members[i].weeks, members[i].seconds)])
        \cup Table(5, weeks + 4, <<Texts(2)>> \o
                 [i \in 1 .. weeks |-> <<WeekLabels(d)[i], WeekHours(d, d.weeks)[i]>>])
        \cup Table(5, weeks + 8, <<Texts(2)>> \o SliceRows(d.taskSlices))

\* write_team_summary_sheet: six figures over the tables.
TeamSummarySheet(d) ==
    LET metric(row, column, value) == Table(row, column, <<<<Text, value>>>>)
    IN  Sheet(Merged(0, 7) \cup Merged(1, 7)
              \cup metric(3, 0, Duration(d.total))
              \cup metric(3, 2, Count(Cardinality(DOMAIN d.members)))
              \cup metric(3, 4, Count(Cardinality(DOMAIN d.tasks)))
              \cup metric(3, 6, Count(Cardinality(d.sources)))
              \cup metric(4, 0, Count(Cardinality(WithHours(d))))
              \cup metric(4, 2, Count(Cardinality(Uncommented(d))))
              \cup DashboardTables(d),
              {}, DashboardCharts(d))

\* write_team_weekly_sheet: the chart has a series for each week.
TeamWeeklySheet(d) ==
    LET weeks == WeekCount(d)
        rows == RankedMembers(d)
        last == Len(ShownMembersOf(d))
    IN  Sheet(Table(0, 0, <<WeekHeader(d)>> \o
                  [i \in DOMAIN rows |-> WeekRow(d, rows[i].member, rows[i].weeks, rows[i].seconds)]),
              Filtered(Len(rows), weeks + 1),
              IF rows = <<>> THEN {}
              ELSE ChartAt(3, weeks + 3, {Series(Down(1, last, 0), Down(1, last, w)) : w \in 1 .. weeks}))

\* write_team_daily_sheet
TeamDailySheet(d) ==
    LET points == Len(Trend(d))
    IN  Sheet(Table(0, 0, <<Texts(3)>> \o TrendRows(d)), Filtered(points, 2),
              ChartAt(1, 4, {Series(Down(1, points, 0), Down(1, points, 1))}))

\* write_team_classification_sheet: types and states, each with its chart below.
TeamClassificationSheet(d) ==
    LET types == Len(d.categorySlices)
        states == Len(d.statusSlices)
        below == 3 + (IF types > states THEN types ELSE states)
        chart(column, rows, at) ==
            IF rows = 0 THEN {}
            ELSE ChartAt(below, at, {Series(Down(1, rows, column), Down(1, rows, column + 1))})
    IN  Sheet(Table(0, 0, <<Texts(2)>> \o SliceRows(d.categorySlices))
              \cup Table(0, 3, <<Texts(2)>> \o SliceRows(d.statusSlices)),
              {}, chart(0, types, 0) \cup chart(3, states, 8))

\* write_team_members_sheet
TeamMembersSheet(d) ==
    LET rows == RankedMembers(d)
    IN  Sheet(Table(0, 0, <<Texts(6)>> \o
                  [i \in DOMAIN rows |-> <<Label(rows[i].member), Text, Count(rows[i].days),
                       Count(rows[i].tasks), Count(rows[i].entries), Duration(rows[i].seconds)>>]),
              Filtered(Len(rows), 5), {})

\* write_team_tasks_sheet: type, state and assignee are those of the task's first worklog.
TeamTasksSheet(d) ==
    LET rows == TaskRows(d)
        one(task) == CHOOSE h \in d.sources : h.task = task
    IN  Sheet(Table(0, 0, <<Texts(8)>> \o
                  [i \in DOMAIN rows |-> <<Label(rows[i].task), Text, Label(one(rows[i].task).category),
                       Label(one(rows[i].task).status), Text, Count(rows[i].entries),
                       Duration(rows[i].seconds), Text>>]),
              Filtered(Len(rows), 7), {})

\* write_team_sources_sheet
TeamSourcesSheet(d) ==
    LET rows == SourceRows(d)
    IN  Sheet(Table(0, 0, <<Texts(16)>> \o
                  [i \in DOMAIN rows |->
                      <<Label(rows[i].author), Text, Label(rows[i].author), Label(rows[i].day), Text,
                        Seconds(rows[i].seconds), Duration(rows[i].seconds), Label(rows[i].task), Text,
                        Label(rows[i].category), Label(rows[i].status)>> \o Texts(5)]),
              Filtered(Len(rows), 15), {})

\* team_scope_rows, with the rows of the context.
TeamScope(d) ==
    <<Label(User), Text, Text, Text, Text, Count(Cardinality(d.sources)),
      Count(Cardinality(DOMAIN d.members)), Count(Cardinality(DOMAIN d.tasks)),
      Duration(d.total)>> \o Texts(4)

\* build_team_workbook
TeamWorkbook(d) ==
    <<TeamSummarySheet(d), TeamWeeklySheet(d), TeamDailySheet(d), TeamMembersSheet(d),
      TeamClassificationSheet(d), TeamTasksSheet(d), TeamSourcesSheet(d), ScopeSheet(TeamScope(d))>>

Workbook(d) == IF d.scope = "individual" THEN PersonalWorkbook(d) ELSE TeamWorkbook(d)

---------------------------------------------------------------------------
(* The PDF: a page has a title, bars or records, and a number in its footer. *)

PdfPage(title, cards, bars, records, number) ==
    [title |-> title, cards |-> cards, bars |-> bars, records |-> records, number |-> number]

\* bar_width: in u32, where the product saturates, and never over the full width.
BarWidth(seconds, maximum) ==
    IF maximum = 0 THEN 0 ELSE AtMost(AtMost(seconds * BarScale, U32Max) \div maximum, BarScale)

\* category_bars, team_member_bars, task_bars
Bars(seconds) ==
    LET maximum == CHOOSE n \in {0} \cup ToSet(seconds) : \A o \in ToSet(seconds) : o <= n
    IN  [i \in DOMAIN seconds |-> [seconds |-> seconds[i], width |-> BarWidth(seconds[i], maximum)]]

SliceSeconds(slices) == [i \in DOMAIN slices |-> slices[i].seconds]

\* Mutant: a page is begun only for as many records as fill it.
FullRecordPages(title, records, number) ==
    [k \in 1 .. Len(records) \div RecordsPerPage |->
        PdfPage(title, <<>>, <<>>, SubSeq(records, (k - 1) * RecordsPerPage + 1, k * RecordsPerPage),
                number + k - 1)]

\* record_pages: chunks of as many records as a page takes.
RecordPages(title, records, number) ==
    [k \in 1 .. Ceiling(Len(records), RecordsPerPage) |->
        PdfPage(title, <<>>, <<>>, SubSeq(records, (k - 1) * RecordsPerPage + 1,
                                    AtMost(k * RecordsPerPage, Len(records))),
                number + k - 1)]

\* append_record_pages
WithRecords(pages, title, records) == pages \o RecordPages(title, records, Len(pages) + 1)

\* personal_overview_page
PersonalOverview(d) ==
    LET rows == TaskRows(d)
    IN  PdfPage("overview", PersonalMetrics(d),
                Bars([i \in 1 .. AtMost(Len(rows), MaxTaskBars) |-> rows[i].seconds]),
                <<>>, 1)

\* team_overview_page, team_classification_page
TeamOverview(d) ==
    <<PdfPage("overview", TeamMetrics(d), IF d.total = 0 THEN <<>> ELSE Bars(MemberSlices(d)), <<>>, 1)>>
    \o IF d.total = 0 THEN <<>>
       ELSE <<PdfPage("classification", <<>>,
                      Bars(SliceSeconds(d.categorySlices)) \o Bars(SliceSeconds(d.statusSlices)),
                      <<>>, 2)>>

\* pdf_bytes, append_personal_details
PersonalPages(d) ==
    WithRecords(WithRecords(<<PersonalOverview(d)>>, "tasks", TaskRows(d)),
                "sources", SourceRows(d))

\* team_pdf_bytes, append_team_details
TeamPages(d) ==
    WithRecords(WithRecords(WithRecords(TeamOverview(d), "members", RankedMembers(d)),
                            "tasks", TaskRows(d)),
                "sources", SourceRows(d))

PdfPages(d) == IF d.scope = "individual" THEN PersonalPages(d) ELSE TeamPages(d)

---------------------------------------------------------------------------
(* Properties.                                                              *)

\* The rows and columns a chart covers, from its height and width in pixels.
ChartRows == 15
ChartColumns == 7

Places(cells) == {<<c.row, c.column>> : c \in cells}
Covers(chart, place) ==
    /\ place[1] \in chart.row .. chart.row + ChartRows - 1
    /\ place[2] \in chart.column .. chart.column + ChartColumns - 1

\* No cell is written twice, a filter covers its whole table and nothing else, and no
\* chart lies over a cell or begins on another chart.
SheetIsWellLaidOut(s) ==
    /\ Cardinality(Places(s.cells)) = Cardinality(s.cells)
    /\ \A f \in s.filter : Places(s.cells) = (0 .. f.lastRow) \X (0 .. f.lastColumn)
    /\ \A chart \in s.charts :
         /\ \A place \in Places(s.cells) : ~Covers(chart, place)
         /\ \A other \in s.charts \ {chart} : ~Covers(chart, <<other.row, other.column>>)

\* A chart plots as many hours as it labels, and in all the hours of the document or
\* those of the members it has room for.
ChartIsOfTheDocument(d, s, chart) ==
    LET at(range) == {c \in s.cells : <<c.row, c.column>> \in range}
        plotted == UNION {at(series.values) : series \in chart.series}
    IN  /\ \A series \in chart.series :
             /\ Cardinality(at(series.values)) = Cardinality(series.values)
             /\ Cardinality(at(series.labels)) = Cardinality(series.values)
             /\ \A c \in at(series.values) : c.value[1] = "hours"
             /\ \A c \in at(series.labels) : c.value[1] = "label"
        /\ SumOf([c \in plotted |-> c.value[2]]) \in
             {d.total, SumOf([i \in DOMAIN ShownMembersOf(d) |-> ShownMembersOf(d)[i].seconds])}

WorkbookIsRight(d) ==
    \A s \in ToSet(Workbook(d)) :
        SheetIsWellLaidOut(s) /\ \A chart \in s.charts : ChartIsOfTheDocument(d, s, chart)

PagesOf(pages, title) == {k \in DOMAIN pages : pages[k].title = title}

\* Where the records of some pages are, in the order in which one reads them.
RecordPlaces(pages, title) ==
    UNION {{<<k, i>> : i \in DOMAIN pages[k].records} : k \in PagesOf(pages, title)}
Before(place, other) ==
    place[1] < other[1] \/ (place[1] = other[1] /\ place[2] < other[2])

\* Every row is a record in one place and none is left out, in the order of the rows and
\* on as few pages as take them.
RecordsAre(pages, title, rows) ==
    LET places == RecordPlaces(pages, title)
        record(place) == pages[place[1]].records[place[2]]
    IN  /\ {record(place) : place \in places} = ToSet(rows)
        /\ Cardinality(places) = Len(rows)
        /\ \A place, other \in places, i, j \in DOMAIN rows :
             record(place) = rows[i] /\ record(other) = rows[j] /\ i < j => Before(place, other)
        /\ Cardinality(PagesOf(pages, title)) = Ceiling(Len(rows), RecordsPerPage)

\* The pages are numbered one after the other, no page is empty or too full, every
\* record is on one page in its order, and of two bars side by side the one of more
\* hours is not the shorter; the bars of the members and of a classification are of
\* all the hours.
PdfIsRight(d) ==
    LET pages == PdfPages(d)
    IN  /\ \A k \in DOMAIN pages :
             /\ pages[k].number = k
             /\ pages[k].title \notin {"overview", "classification"} =>
                    Len(pages[k].records) \in 1 .. RecordsPerPage
             /\ \A i, j \in DOMAIN pages[k].bars :
                  /\ pages[k].bars[i].width <= BarScale
                  /\ pages[k].title = "overview" /\ pages[k].bars[i].seconds <= pages[k].bars[j].seconds
                     => pages[k].bars[i].width <= pages[k].bars[j].width
        /\ RecordsAre(pages, "tasks", TaskRows(d)) /\ RecordsAre(pages, "sources", SourceRows(d))
        /\ d.scope = "team" =>
             /\ RecordsAre(pages, "members", RankedMembers(d))
             /\ \A k \in {1, 2} : d.total > 0 =>
                    SumOf([i \in DOMAIN pages[k].bars |-> pages[k].bars[i].seconds]) = k * d.total

\* Whatever page a table was left at, what it shows are rows that there are, and the
\* pages a person can turn to show every row; the trend labels its ends and no more
\* points than it may.
PageIsRight(d) ==
    /\ \A count \in PageTables(d) :
         /\ \A requested \in 0 .. Cardinality(Hours) :
              /\ PageWindow(count, requested).rows \subseteq 1 .. count
              /\ count > 0 => PageWindow(count, requested).rows # {}
         /\ UNION {PageWindow(count, k).rows : k \in 0 .. PageWindow(count, 0).total - 1} = 1 .. count
    /\ {1, Len(Trend(d))} \subseteq LabelledPoints(d)
    /\ Cardinality(LabelledPoints(d)) <= (IF MaxTrendLabels < 2 THEN 2 ELSE MaxTrendLabels)

\* The figures on the first sheet of the workbook are those on the first page of the PDF.
FiguresAgree(d) ==
    LET figures == {c.value : c \in {x \in Workbook(d)[1].cells : x.row \in 3 .. 12}}
        cards == PdfPages(d)[1].cards
    IN  IF d.scope = "team" THEN ToSet(cards) \subseteq figures
        ELSE \A i \in DOMAIN cards :
                [row |-> i + 4, column |-> 1, value |-> cards[i]] \in Workbook(d)[1].cells

\* What is made of a document for the page, the workbook and the PDF accounts for the
\* hours of the document, each figure in its place.
IsAccountedFor(d) ==
    TablesAccountForHours(d) /\ WorkbookIsRight(d) /\ PdfIsRight(d) /\ FiguresAgree(d) /\ PageIsRight(d)

\* The documents of complete reports, each judged once.
Judged ==
    {[document |-> d, right |-> IsAccountedFor(d)] :
        d \in {PersonalDocument(p) : p \in Periods}
              \cup {TeamDocument(p, Within(p, Hours), filters) : p \in Periods, filters \in Filters}}

\* Whatever was chosen, answered and filtered before, an export is of a complete report,
\* and its tables, charts, sheets and pages account for all of its hours.
ExportsAccountForHours == Exporting => [document |-> page.document, right |-> TRUE] \in Judged
===========================================================================
