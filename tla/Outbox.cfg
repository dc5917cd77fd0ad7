SPECIFICATION FairSpec
CONSTANTS
    Ops <- TwoOps
    EntityOf <- OneList
    RepoOf <- FirstRepo
    FoldingSets <- BothOrNone
    Repos = 2
    MaxAttempts = 2
    BatchLimit = 2
    Trouble = 2
    Retries = 1
CHECK_DEADLOCK FALSE
INVARIANTS Safety
PROPERTIES CleanOrder Drains
