------------------------------ MODULE MCParts ------------------------------
(* Parts of the program that share no state, side by side: a suite is       *)
(* one of them at work while the others stand still.                        *)
EXTENDS ProviderReads, WorklogReports, ReportPresentation, Permissions, WorklogEntry, TLC

CONSTANTS a1, a2, a3, a4, i1, i2, w1, w2, w3, me, ann, t1, t2, t3, story, bug, done,
          issues, times, log, pullRequests, k1, k2, part, r1, r2, morning, noon

VARIABLE suite

vars == <<readVars, reportVars, deskVars, permissionVars, entryVars, suite>>

---------------------------------------------------------------------------
\* The items go by the order they are listed in.
ListedInOrder == list = SubSeq(<<a1, a2, a3, a4>>, 1, Len(list))

MCIssueOf == w1 :> i1 @@ w2 :> i1 @@ w3 :> i2
MCSecondsOf == w1 :> 3 @@ w2 :> 2 @@ w3 :> 4

\* The type and the state are those of the task.
Logged(author, task, category, comment, day, seconds) ==
    [author |-> author, task |-> task, category |-> category,
     status |-> IF task = t2 THEN done ELSE Unspecified, comment |-> comment,
     day |-> day, seconds |-> seconds]

\* Days 4 to 7 are the end of a week and the Monday after it.
MCHours ==
    {Logged(me,  t1, story,       TRUE,  4, 3), Logged(me,  t2, bug,         FALSE, 6, 2),
     Logged(ann, t1, story,       TRUE,  7, 5), Logged(ann, t3, Unspecified, FALSE, 7, 4),
     Logged(me,  t3, Unspecified, TRUE,  7, 1)}

MCPeriods == {[from |-> 4, to |-> 7], [from |-> 5, to |-> 6]}

MCCapabilities == {issues, times, log, pullRequests}
MCModuleOf == [c \in MCCapabilities |-> IF c = pullRequests THEN "bitbucket" ELSE "jira"]
MCRequiredRead == [c \in MCCapabilities |-> IF c = log THEN times ELSE NoCapability]

MCEmbedded == [modules |-> Modules, allowed |-> MCCapabilities, strict |-> FALSE]
MCProfiles ==
    {MCEmbedded, [modules |-> {"jira"}, allowed |-> {issues, times}, strict |-> TRUE],
     [modules |-> {"bitbucket"}, allowed |-> {pullRequests}, strict |-> FALSE]}

\* A file that lists a capability of a module that is off.
MCImports ==
    {[jira |-> "within", hours |-> "missing", bitbucket |-> "within",
      modules |-> [m \in Modules |->
                      [enabled |-> m = "jira",
                       capabilities |-> IF m = "jira" THEN {issues} ELSE {pullRequests}]]]}

\* A minute has two seconds here, and an hour two minutes.  A worklog of three seconds
\* is longer than its minutes.
MCRows == {[id |-> r1, issue |-> k1, day |-> 15, time |-> noon, seconds |-> 3],
           [id |-> r2, issue |-> k2, day |-> 13, time |-> morning, seconds |-> 4]}
MCMatching == NoText :> {k1, k2} @@ k1 :> {k1} @@ k2 :> {k2} @@ part :> {k2}
MCSuggestions == {<<k1, k2>>, <<k2>>}

\* No time, a minute, three of them, and more minutes than an hour has.
MCDurations == {[hours |-> 0, minutes |-> 0], [hours |-> 0, minutes |-> 1],
                [hours |-> 1, minutes |-> 1], [hours |-> 0, minutes |-> 2]}

---------------------------------------------------------------------------
\* The states the parts stand still in.
NothingRead == ReadInit /\ list = <<>> /\ read.kind = "pages"
NothingReported ==
    /\ worklogs = [w \in Worklogs |->
                     [there |-> FALSE, author |-> Me, day |-> 0, condition |-> "fine"]]
    /\ ReportInit
    /\ report.kind = "unlogged" /\ report.period = [from |-> 0, to |-> 0]
NothingShown == DeskInit /\ period.shown = [from |-> 5, to |-> 6]

\* Of three worklogs, the only one of the second issue is one's own and fine, and
\* one of the first issue is fine and of today.
ReportedWorklogs ==
    /\ worklogs[w3] = [there |-> TRUE, author |-> Me, day |-> 0, condition |-> "fine"]
    /\ worklogs[w1].there /\ worklogs[w1].condition = "fine" /\ worklogs[w1].day = Today

\* The part at work is the one that is not where it stands still.
Init ==
    \/ suite = "pages" /\ ReadInit /\ ListedInOrder
       /\ NothingReported /\ NothingShown /\ PermissionsInit /\ EntryInit
    \/ suite = "reports" /\ ReportInit /\ ReportedWorklogs
       /\ NothingRead /\ NothingShown /\ PermissionsInit /\ EntryInit
    \/ suite = "desktop" /\ DeskInit
       /\ NothingRead /\ NothingReported /\ PermissionsInit /\ EntryInit
    \/ suite \in {"consent", "week", "entry", "finder"} /\ PermissionsInit /\ EntryInit
       /\ NothingRead /\ NothingReported /\ NothingShown

\* Bounds of the page: all periods without a dialog; the dialog on the weeks the arrows
\* lead to, where only the issue is typed anew while a submission is under way; and the
\* suggestions up to the first submission.
Entering ==
    \/ ShiftPeriod \/ TypeQuery
    \/ order = NoOrder /\ TypeEntry
    \/ OpenNew \/ OpenRow \/ Cancel \/ Close \/ Review \/ Back
    \/ Submit \/ Send \/ SubmissionFails \/ SubmissionSucceeds
Finding ==
    \/ /\ order = NoOrder
       /\ \/ FinderNext
          \/ OpenNew \/ OpenRow \/ Cancel \/ Close \/ Review \/ Back \/ Submit
    \/ Send

Next ==
    /\ UNCHANGED suite
    /\ \/ /\ suite = "pages" /\ ReadNext
          /\ UNCHANGED <<reportVars, deskVars, permissionVars, entryVars>>
       \/ /\ suite = "reports" /\ ReportNext
          /\ UNCHANGED <<readVars, deskVars, permissionVars, entryVars>>
       \/ /\ suite = "desktop" /\ DeskNext
          /\ UNCHANGED <<readVars, reportVars, permissionVars, entryVars>>
       \/ /\ suite = "consent" /\ PermissionsNext
          /\ UNCHANGED <<readVars, reportVars, deskVars, entryVars>>
       \/ /\ suite = "week" /\ PeriodNext
          /\ UNCHANGED <<readVars, reportVars, deskVars, permissionVars>>
       \/ /\ suite = "entry" /\ Entering
          /\ UNCHANGED <<readVars, reportVars, deskVars, permissionVars>>
       \/ /\ suite = "finder" /\ Finding
          /\ UNCHANGED <<readVars, reportVars, deskVars, permissionVars>>

Spec == Init /\ [][Next]_vars

---------------------------------------------------------------------------
\* The variables of the part at work have their types.
TypeOK ==
    CASE suite = "pages"   -> ReadTypeOK
      [] suite = "reports" -> ReportTypeOK
      [] suite = "desktop" -> DeskTypeOK
      [] suite = "consent" -> PermissionsTypeOK
      [] suite \in {"week", "entry", "finder"} -> EntryTypeOK

\* A switch on the consent page and a setup grant and withdraw what they name, and
\* nothing else but what the profile forbids or the settings no longer allow.  The
\* other suites are spared the question, which is about every step from a state.
ConsentIsAskedFor == suite = "consent" => GrantsAreAskedFor
=============================================================================
