SPECIFICATION Spec
CONSTANTS
    Second = 1
    MaxInt64 = 63
    BailOut = 5
    URLs <- MCURLs
    Options <- MCOptions
    MaxOptions = 3
INVARIANTS
    TypeOK
    LastOptionWins
    BuiltToWork
    BaseAddsNothing
CHECK_DEADLOCK FALSE
