SPECIFICATION Spec
SYMMETRY Symmetry
CONSTANTS
    Borrowers = {a, b, c}
    NONE = NONE
    DECIMAL_PRECISION = 1000
    NICR_PRECISION = 1000
    MAX_UINT = 1000000
    MCR = 1050
    CCR = 1100
    LUSD_GAS_COMPENSATION = 1
    MIN_NET_DEBT = 50
    PERCENT_DIVISOR = 200
    MaxTransactions = 4
    CollAmounts = {107, 108, 109}
    DebtAmounts = {99}
    CollChanges = {}
    DebtChanges = {}
    BorrowingFees = {0}
    Deposits = {200}
    Redemptions = {}
    Prices = {1200, 1000}
PROPERTIES BatchCapsBelowTCR
