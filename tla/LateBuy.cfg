SPECIFICATION Spec
CONSTANTS
    a1 = a1  a2 = a2  b1 = b1  p1 = p1
    Pairs = {p1}
    Accounts = {a1}
    Signers = {a1}
    Bots = {b1}
    None = None
    NodeMayFail = TRUE
    RECEIPT_TIMEOUT = 120
    DEADLINE_DELAY_SECONDS = 30
    BOT_MAX_NUMBER_USED = 1
    DbMayFail = FALSE
    StoredBots <- NoRows
    Keys <- OneKey
    INVENTORY_CAPACITY = 2
    Paper = {FALSE}
    OpenPositions <- NoOpenPositions
INVARIANTS FailedBuysLeaveNothing
CHECK_DEADLOCK FALSE
