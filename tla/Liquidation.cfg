SPECIFICATION Spec
SYMMETRY Symmetry
CONSTANTS
    Borrowers = {a, b, c}
    NONE = NONE
    DECIMAL_PRECISION = 100
    NICR_PRECISION = 100
    MAX_UINT = 1000000
    MCR = 105
    CCR = 110
    LUSD_GAS_COMPENSATION = 1
    MIN_NET_DEBT = 5
    PERCENT_DIVISOR = 25
    MaxTransactions = 6
    CollAmounts = {24, 25, 29}
    DebtAmounts = {19}
    CollChanges = {}
    DebtChanges = {}
    BorrowingFees = {0}
    Deposits = {15}
    Redemptions = {}
    Prices = {120, 88, 85, 70}
INVARIANTS TypeOK ActivePoolBacksTroves DefaultPoolCoversRewards StakesAddUp OwnersConsistent SupplyEqualsDebt GasPoolCoversReserves SurplusIsFunded SequenceTracksSystem
