SPECIFICATION BudgetSpec
CONSTANTS
    Second = 4
    MaxInt64 = 1023
    BailOut = 8
    MaxWaits <- MCMaxWaits
    Headers <- MCHeaders
INVARIANTS
    MaxWaitIsACap
CHECK_DEADLOCK FALSE
