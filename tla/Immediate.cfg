SPECIFICATION Spec
CONSTANTS
    p1 = p1  p2 = p2  p3 = p3
    a1 = a1  b1 = b1
    Pairs = {p1, p2, p3}
    Accounts = {a1}
    Signers = {a1}
    Bots = {b1}
    None = None
    RUN_MODE = "NORMAL"
    MAX_INSPECT_ATTEMPTS = 1
    INSPECT_INTERVAL = 1
    WATCHLIST_CAPACITY = 2
    INVENTORY_CAPACITY = 1
    HOLD_MAX_DURATION = 1
    BUY_AMOUNT = 2
    MIN_BUY_AMOUNT = 1
    MAX_BUY_AMOUNT = 3
    AMOUNT_CHANGE_STEP = 1
    GAS_COST = 0
    MIN_EXPECTED_PNL = 10
    RISK_REWARD_RATIO = 1
    HARD_STOP_PNL_THRESHOLD <- TightHardStop
    GasQuotes = {"low", "high", "None"}
    SellReturns = {0, 5}
    Clock = {"same hour", "new epoch", "midnight"}
    PendingPositions <- OnePosition
    MaxBacklog = 1
    RpcMayFail = FALSE
SYMMETRY NewPairs
INVARIANTS SlotAccounting CapacityRespected TracksAllHeld BuyAmountInRange
PROPERTIES BuyOnlyWhileRunning
CHECK_DEADLOCK FALSE
