\* The registrations of one file and one command, and two skills, against two
\* commands and two changes by others.
SPECIFICATION SuiteSpec
CONSTANTS
    Processes = {p1, p2}
    Files = {file}
    Commands = {codex}
    Skills = 2
    MaxEdits = 2

SYMMETRY Alike
INVARIANTS TypeOK EndsAsReported
PROPERTIES OthersKept
