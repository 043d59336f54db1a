SPECIFICATION Spec
CONSTANTS
    p1 = p1  p2 = p2  c1 = c1
    Pairs = {p1}
    None = None
    Creators = {c1}
    Pools <- AllPools
    MaxHeight = 5
    MaxEvents = 2
    LastCreation = 1
    CreatorOf <- OneCreator
    MaxBacklog = 1
    HeadsMayBeLost = TRUE
    RpcMayFail = TRUE
    MinReserve = 4000
    MaxReserve = 30000
    MinSlippage = 100
    MaxSlippage = 400
    SimulationAmount = 100
    FrozenFor = 2
    ListedFor = 2
    PageSize = 1
    FreezeTimes = {2}
    BalanceSlot <- FirstSlot
    ExplorerMayRefuse = TRUE
    CallsMayFail = TRUE
    MAX_INSPECT_ATTEMPTS = 3
    INSPECT_INTERVAL = 0
INVARIANTS DiscoveryTypeOK ReservesCurrent
PROPERTIES WatcherImplements CreatorVetted CallsNoticed BoughtWasTradable LossBounded
CHECK_DEADLOCK FALSE
