\* An abandoned window stops.
CHECK_DEADLOCK FALSE
CONSTANTS
    Accounts = {a1}
    Targets = {g1}
    Limits = {l1, l2}
    home = a1
    None = None
    MaxAsked = 3
    MaxOpen = 5
SPECIFICATION FairSpec
PROPERTIES SavedPreferencesApplied
