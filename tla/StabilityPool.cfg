SPECIFICATION Spec
CONSTANTS
    RewardsDuration = 2
    InitialMAHA = 8
    DECIMAL_PRECISION = 25
    SCALE_FACTOR = 5
    Depositors = {d1, d2}
    FrontEnds = {f1}
    NoFrontEnd = NoFrontEnd
    KickbackRate <- MCKickbackRate
    Amounts = {3, 7}
    Debts = {2, 6}
    Collaterals = {5}
    Rewards = {4}
    MaxDeposits = 24
    MaxOffsets = 2
    MaxSteps = 6
    Tolerance = 2
INVARIANTS DepositsNearlyCovered GainsCovered IssuancePaidOnce StakesFollowDeposits
CHECK_DEADLOCK FALSE
