SPECIFICATION Spec
CONSTANTS
    None = None
    MaxBlock = 2
    MaxStarts = 2
    MaxFailures = 1
INVARIANTS StateBelongsToItsBlock ReadsOneBlock
CHECK_DEADLOCK FALSE
PROPERTY KeepsUp
