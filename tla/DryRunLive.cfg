SPECIFICATION Spec
CONSTANTS
    p1 = p1  p2 = p2  p3 = p3
    a1 = a1  b1 = b1
    Pairs = {p1, p2}
    Accounts = {a1}
    Signers = {a1}
    Bots = {b1}
    None = None
    RUN_MODE = "PAPER_TRADE"
    MAX_INSPECT_ATTEMPTS = 1
    INSPECT_INTERVAL = 1
    WATCHLIST_CAPACITY = 2
    INVENTORY_CAPACITY = 1
    HOLD_MAX_DURATION = 1
    BUY_AMOUNT = 1
    MIN_BUY_AMOUNT = 1
    MAX_BUY_AMOUNT = 1
    AMOUNT_CHANGE_STEP = 1
    GAS_COST = 0
    MIN_EXPECTED_PNL = 10
    RISK_REWARD_RATIO = 1
    HARD_STOP_PNL_THRESHOLD <- NoHardStop
    GasQuotes = {"low", "high"}
    SellReturns = {1}
    Clock = {"same hour"}
    PendingPositions <- NoPositions
    MaxBacklog = 1
    RpcMayFail = FALSE
SYMMETRY Symmetry
INVARIANTS DryRunTradesOnPaper
