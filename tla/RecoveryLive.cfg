SPECIFICATION FairRecoverySpec
CONSTANTS
    p1 = p1  p2 = p2  c1 = c1  c2 = c2
    Pairs = {p1}
    Accounts = {"a1"}
    Signers = {"a1"}
    Bots = {"b1"}
    None = None
    RUN_MODE = "NORMAL"
    MAX_INSPECT_ATTEMPTS = 1
    INSPECT_INTERVAL = 1
    WATCHLIST_CAPACITY = 2
    INVENTORY_CAPACITY = 1
    HOLD_MAX_DURATION = 0
    BUY_AMOUNT = 1
    MIN_BUY_AMOUNT = 1
    MAX_BUY_AMOUNT = 1
    AMOUNT_CHANGE_STEP = 0
    GAS_COST = 1
    MIN_EXPECTED_PNL = 10
    RISK_REWARD_RATIO = 1
    HARD_STOP_PNL_THRESHOLD <- NoHardStop
    GasQuotes = {"low"}
    SellReturns = {2}
    Clock = {"same hour"}
    PendingPositions <- NoPositions
    MaxBacklog = 1
    RpcMayFail = FALSE
    Creators = {c1, c2}
    CreatorOf <- OneCreator
    MaxHour = 1
    MaxTorn = 1
    MaxCrashes = 2
PROPERTIES EveryPositionClosed
