SPECIFICATION FairSpec
CONSTANTS
    a1 = a1  a2 = a2  b1 = b1  p1 = p1
    Pairs = {p1, p2}
    Accounts = {a1}
    Signers = {a1}
    Bots = {b1, b2, b3}
    None = None
    NodeMayFail = TRUE
    RECEIPT_TIMEOUT = 120
    DEADLINE_DELAY_SECONDS = 30
    BOT_MAX_NUMBER_USED = 2
    DbMayFail = FALSE
    StoredBots <- OneRow
    Keys <- OneKey
    INVENTORY_CAPACITY = 2
    Paper = {TRUE, FALSE}
    OpenPositions <- NoOpenPositions
INVARIANTS BooksAgree RenewalUnderWay
PROPERTIES Implements FailedBotRetired AccountGetsBot EveryOrderSettles
CHECK_DEADLOCK FALSE
