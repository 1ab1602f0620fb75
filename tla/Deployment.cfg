SPECIFICATION Spec
CONSTANTS
    Tokens <- MCTokens
    MaxRuns = 3
CHECK_DEADLOCK FALSE
INVARIANTS WiredToSaved CompleteWhenDone
PROPERTY EventuallyWired
