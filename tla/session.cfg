\* An abandoned window stops.
CHECK_DEADLOCK FALSE
CONSTANTS
    Accounts = {a1, a2}
    home = a1
    Targets = {g1}
    Limits = {l1}
    None = None
    MaxAsked = 4
    MaxOpen = 2
SPECIFICATION SmallSpec
INVARIANTS TypeOK DisconnectHolds BoardWasDiscovered
PROPERTIES LateAnswersIgnored ShownMovesForward ReportedAsWritten NothingStaysBusy
