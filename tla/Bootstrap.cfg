SPECIFICATION Spec
CONSTANTS
    e1 = e1  e2 = e2
    Executors <- TwoExecutors
    Manager = Manager
    Treasury = Treasury
    Factory = Factory
    Idle = Idle
    INITIAL_BALANCE = 5
    RESERVE = 2
    FEES = {1, 3}
    MANAGER_BALANCE = 20
    MAX_CALLS = 4
INVARIANTS PaidAsAsked DoneInOrder
CHECK_DEADLOCK FALSE
