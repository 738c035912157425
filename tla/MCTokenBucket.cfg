SPECIFICATION Spec
CONSTANTS
    Second = 2
    MaxInt64 = 127
    BailOut = 6
    Calls = {c1, c2, c3, c4, c5, c6, c7}
    Burst = 2
    MaxRetries = 2
    RetryMaxWait = 0
SYMMETRY Symmetry
INVARIANTS
    TypeOK
    LosersWereOutrun
