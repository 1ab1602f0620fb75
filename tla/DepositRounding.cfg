SPECIFICATION Spec
CONSTANTS
    RewardsDuration = 2
    InitialMAHA = 8
    DECIMAL_PRECISION = 25
    SCALE_FACTOR = 5
    Depositors = {d1}
    FrontEnds = {}
    NoFrontEnd = NoFrontEnd
    KickbackRate <- MCKickbackRate
    Amounts = {44}
    Debts = {2, 35}
    Collaterals = {5}
    Rewards = {4}
    MaxDeposits = 49
    MaxOffsets = 2
    MaxSteps = 3
    Tolerance = 2
INVARIANT DepositsCovered
CHECK_DEADLOCK FALSE
