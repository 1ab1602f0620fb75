SPECIFICATION Spec
SYMMETRY Symmetry
CONSTANTS
    Borrowers = {a, b, c}
    NONE = NONE
    DECIMAL_PRECISION = 100
    NICR_PRECISION = 100
    MAX_UINT = 1000000
    MCR = 105
    CCR = 110
    LUSD_GAS_COMPENSATION = 1
    MIN_NET_DEBT = 5
    PERCENT_DIVISOR = 10
    MaxTransactions = 5
    CollAmounts = {13, 30}
    DebtAmounts = {9}
    CollChanges = {5}
    DebtChanges = {3}
    BorrowingFees = {1}
    Deposits = {}
    Redemptions = {3, 12}
    Prices = {120, 70}
INVARIANTS LedgerBalanced NetDebtAboveMinimum
PROPERTIES HintsStayExact NormalModeKept RedemptionSparesRisky OthersOnlyGain
