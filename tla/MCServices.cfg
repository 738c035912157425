SPECIFICATION Spec
CONSTANTS
    Atoms <- MCAtoms
    IDs <- MCIDs
    Bases <- MCBases
CHECK_DEADLOCK FALSE
INVARIANTS
    TypeOK
    ReachesItsRoute
    RefusedForAReason
    DecodesItsAnswer
