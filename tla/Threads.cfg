SPECIFICATION Spec
CONSTANTS
    a1 = a1  a2 = a2  b1 = b1  p1 = p1
    Pairs = {p1, p2}
    Accounts = {a1, a2}
    Signers = {a1, a2}
    Bots = {b1, b2, b3}
    None = None
    NodeMayFail = FALSE
    RECEIPT_TIMEOUT = 120
    DEADLINE_DELAY_SECONDS = 30
    BOT_MAX_NUMBER_USED = 1
    DbMayFail = TRUE
    StoredBots <- NoRows
    Keys <- TwoKeys
    INVENTORY_CAPACITY = 2
    Paper = {FALSE}
    OpenPositions <- NoOpenPositions
SYMMETRY Symmetry
INVARIANTS TypeOK PositionsHaveTokens FailedBuysLeaveNothing SignedByOwner
PROPERTIES Implements
CHECK_DEADLOCK FALSE
