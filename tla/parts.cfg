SPECIFICATION Spec
CONSTANTS
    a1 = a1
    a2 = a2
    a3 = a3
    a4 = a4
    i1 = i1
    i2 = i2
    w1 = w1
    w2 = w2
    w3 = w3
    me = me
    ann = ann
    t1 = t1
    t2 = t2
    t3 = t3
    story = story
    bug = bug
    done = done
    Items = {a1, a2, a3, a4}
    MaxItems = 3
    PageSize = 2
    OffsetMax = 4
    NoToken = NoToken
    NoItem = NoItem
    MaxLength = 4
    Issues = {i1, i2}
    Worklogs = {w1, w2, w3}
    IssueOf <- MCIssueOf
    SecondsOf <- MCSecondsOf
    Me = me
    Others = {ann}
    Today = 1
    MaximumDays = 1
    TargetSeconds = 6
    Width = 8
    Concurrency = 2
    NoPeriod = NoPeriod
    NoDay = NoDay
    MaxEdits = 1
    Members = {me, ann}
    User = me
    Roster = {me}
    Hours <- MCHours
    Periods <- MCPeriods
    MaxSlices = 2
    U32Max = 700
    MaxChartMembers = 2
    MaxTaskBars = 2
    MaxTrendLabels = 2
    RecordsPerPage = 2
    RowsPerTable = 2
    BarScale = 100
    Anything = Anything
    Unspecified = Unspecified
    Other = Other
    MaxRequests = 2
    issues = issues
    times = times
    log = log
    pullRequests = pullRequests
    Capabilities <- MCCapabilities
    ModuleOf <- MCModuleOf
    RequiredRead <- MCRequiredRead
    NoCapability = NoCapability
    ReadOwnTimeEntries = times
    WriteOwnTimeEntries = log
    Profiles <- MCProfiles
    Embedded <- MCEmbedded
    Imports <- MCImports
    NoConfiguration = NoConfiguration
    NoProfile = NoProfile
    k1 = k1
    k2 = k2
    part = part
    r1 = r1
    r2 = r2
    morning = morning
    noon = noon
    NewEntry = NewEntry
    NoOrder = NoOrder
    NoOption = NoOption
    NoText = NoText
    Now = 16
    MonthStart = 12
    MaximumRange = 10
    Sixty = 2
    FormHours = 2
    SavedHours = 1
    DefaultMinutes = 2
    DefaultTime = morning
    Rows <- MCRows
    Keys = {k1, k2}
    Queries = {NoText, part, k1, k2}
    Matching <- MCMatching
    Suggestions <- MCSuggestions
    EntryDays = {15, 17}
    EntryDurations <- MCDurations
INVARIANTS TypeOK ReadsAreBounded ReadsAreComplete ReportsAreRight TeamReportIsTheAskedOne ListedToolsWork ConsentIsAskedFor ExportsAccountForHours WorklogsAreSentAsReviewed ArrowsLeadBack
CHECK_DEADLOCK FALSE
