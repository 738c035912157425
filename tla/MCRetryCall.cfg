SPECIFICATION Spec
CONSTANTS
    c1 = c1
    c2 = c2
    b1 = b1
    b2 = b2
    Second = 1
    MaxInt64 = 63
    BailOut = 5
    Calls <- MCCalls
    Body <- MCBody
    Clients <- MCClients
    RetryAfters <- MCRetryAfters
INVARIANTS
    TypeOK
    AtMostOnce
    SafeToReissue
    OneInFlight
    Ledger
PROPERTIES
    ImplementsContract
    RespectsAsk
    EveryCallReturns
    CancelledCallReturns
