SPECIFICATION Spec
CONSTANTS
    Nodes = {n1, n2}
    MaxBlock = 2
    MaxSockets = 2
    Waits = {w1}
    Subscribers = {u1}
    Confirmations = 1
    None = None
    Calls = {c1, c2}
INVARIANTS HearsBlocksOnce AnsweredAtItsBlock
PROPERTY EverythingEnds
