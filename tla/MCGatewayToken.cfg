SPECIFICATION Spec
CONSTANTS
    Gateways <- MCGateways
    Tokens <- MCTokens
    None <- MCNone
    Grace = 2
    MaxLost = 3
INVARIANTS
    PickupConfirmed
    OrphansCounted
PROPERTIES
    
    Recovers
