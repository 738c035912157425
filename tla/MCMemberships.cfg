SPECIFICATION Spec
CONSTANTS
    a1 = a1
    a2 = a2
    None = None
    Readers <- MCReaders
    Admins <- MCAdmins
    Items <- MCItems
    Owns <- MCOwns
    Limit <- MCLimit
    DefaultLimit = 2
    MaxLimit = 2
    Observed = a1
    Changes <- MCChanges
    MaxCalls <- MCMaxCalls
    Returns = {"ok", "rejected", "transport"}
    Eligible <- MCEligible
INVARIANTS
    TypeOK
    SeenOnce
    AcknowledgedStands
PROPERTIES
    LoopEnds
    Undisturbed
    FreshReplaceSparesOthers
CHECK_DEADLOCK FALSE
