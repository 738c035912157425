SPECIFICATION MergeSpec
CONSTANTS
    Calls <- MCCalls
    Body <- MCBody
    MaxNamed <- MCMaxNamed
    Results = {"ok", "rejected", "transport"}
INVARIANTS
    TypeOK
    AnswerShowsTheUpdate
PROPERTIES
    AssignsWhatItNames
CHECK_DEADLOCK FALSE
