SPECIFICATION SubgraphSpec
SYMMETRY Symmetry
CONSTANTS
    Borrowers = {a, b, c}
    NONE = NONE
    DECIMAL_PRECISION = 100
    NICR_PRECISION = 100
    MAX_UINT = 1000000
    MCR = 105
    CCR = 110
    LUSD_GAS_COMPENSATION = 1
    MIN_NET_DEBT = 50
    PERCENT_DIVISOR = 100
    MaxTransactions = 5
    MaxBlockEvents = 2
    CollAmounts = {250, 260}
    DebtAmounts = {199}
    CollChanges = {50}
    DebtChanges = {}
    BorrowingFees = {0}
    Deposits = {150}
    Redemptions = {120, 199}
    Prices = {120, 85, 82, 70}
INVARIANT GainWithdrawalsReportNoChange
