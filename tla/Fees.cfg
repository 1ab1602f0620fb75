SPECIFICATION Spec
CONSTANTS
    DIGITS = 10000
    INFINITY = 1000000000
    MINUTE_DECAY_FACTOR = 9000
    BETA = 2
    SECONDS_IN_ONE_MINUTE = 60
    BORROWING_FEE_FLOOR = 25
    REDEMPTION_FEE_FLOOR = 10
    MAX_BORROWING_FEE = 300
    MCR = 105
    CCR = 110
    LUSD_GAS_COMPENSATION = 5
    MINIMUM_BORROWING_RATE = 50
    MAXIMUM_BORROWING_RATE = 500
    MINIMUM_REDEMPTION_RATE = 50
    CRITICAL_COLLATERAL_RATIO = 150
    Waits = {59, 61}
    Fractions = {300, 9000}
    Ratios = {104, 107, 120, 160}
    MaxTime = 250
    LUSD_LIQUIDATION_RESERVE = 200
    Collaterals = {300, 450}
    Debts = {2017, 5003}
INVARIANTS RateKeepsDecaying RateNotLostEarly ClientAgrees ReachesTheTarget
