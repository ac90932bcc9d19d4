\* Field edits by three calls, and every tool of both providers by two: previews,
\* their confirmations, changes by others, which may be undone, and crashes.
SPECIFICATION SuiteSpec
CONSTANTS
    Calls = {c1, c2, c3}
    Tools = {"update", "comment", "transition", "worklog", "create", "pull"}
    Changes = {setA, setB}
    Others = others
    NoToken = noToken
    Numbers = {0, 1}
    MaxEdits = 2
SYMMETRY Alike
\* The calls are bounded: a behaviour stops when all were answered.
CHECK_DEADLOCK FALSE
INVARIANTS TypeOK OneWritePerPreview
PROPERTIES ConfirmedStateHeld RecheckedBeforeWrite
