\* A table of two, lifetimes that end within the horizon or stop being
\* representable, a wall clock that is steady and one that is not.
SPECIFICATION Spec
CONSTANTS
    Payloads = {changeA, changeB}
    TTL = 2
    MaximumPending = 2
    InstantMax = 3
    MaxSequence = 3
    Horizon = 3
INVARIANTS TypeOK SingleOutcome CapacityRespected RecentPreviewsKept
PROPERTIES ConfirmedAsPreviewed ImplementsPermit FailsClosed
