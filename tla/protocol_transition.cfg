\* A transition is previewed, the issue changes, the preview is confirmed.
SPECIFICATION SuiteSpec
CONSTANTS
    Calls = {c1, c2}
    Tools = {"transition"}
    Changes = {setA}
    Others = others
    NoToken = noToken
    Numbers = {0}
    MaxEdits = 1
SYMMETRY Alike
\* The calls are bounded: a behaviour stops when all were answered.
CHECK_DEADLOCK FALSE
PROPERTIES ChangedTargetRejected
