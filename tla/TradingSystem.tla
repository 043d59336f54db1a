---------------------------- MODULE TradingSystem ----------------------------
(***************************************************************************)
(* The running program: the main process (strategy, execution reports,     *)
(* control orders, block watcher, the reader of the report queue) and the  *)
(* executor process, joined by the queues of Brokers.                      *)
(***************************************************************************)
EXTENDS Strategy, AbstractExecutor, BlockWatcher

\* How many restored positions have joined the inventory: a history variable,
\* read by the properties only.
VARIABLE restored

vars == <<queues, strategyVars, executorVars, watcherVars, restored>>

\* The database has one row per pair (reporter.py:194).
ASSUME TradingSystemAssumption ==
    \A i, j \in DOMAIN PendingPositions :
        i # j => PendingPositions[i].pair # PendingPositions[j].pair

Init ==
    /\ watching_broker = <<>>
    /\ watching_notifier = <<>>
    /\ execution_broker = <<>>
    /\ execution_report = <<>>
    /\ report_broker = <<>>
    \* Reporter.bootstrap sends the open positions, if there are any
    /\ control_receiver = IF PendingPositions = <<>> THEN <<>> ELSE <<PendingPositions>>
    /\ StrategyInit
    /\ ExecutorInit
    /\ WatcherInit({p.pair : p \in ToSet(PendingPositions)})
    /\ restored = 0

\* Reporter.listen_report takes a report and stores it (see Reporter).
TakeReport ==
    /\ report_broker # <<>>
    /\ report_broker' = Tail(report_broker)
    /\ UNCHANGED <<watching_broker, watching_notifier, execution_broker,
                   execution_report, control_receiver>>

\* A task of the main process that is not strategy(): it runs between two
\* passes, and not at all once the process has died.
OtherTask(A) ==
    /\ pc = "get"
    /\ A
    /\ UNCHANGED <<strategyVars, executorVars, restored>>

StrategyTask(A) ==
    /\ A
    /\ UNCHANGED <<executorVars, watcherVars, restored>>

ControlTask ==
    /\ HandleControlOrder
    /\ restored' = restored + Len(Head(control_receiver))
    /\ UNCHANGED <<executorVars, watcherVars>>

ExecutorProcess(A) ==
    /\ A
    /\ UNCHANGED <<strategyVars, watcherVars, restored>>

Next ==
    \/ StrategyTask(ReceiveBlock)
    \/ StrategyTask(Pass)
    \/ StrategyTask(HandleExecutionReport)
    \/ ControlTask
    \/ OtherTask(NewHead)
    \/ OtherTask(ListenReport)
    \/ OtherTask(TakeReport) /\ UNCHANGED watcherVars
    \/ ExecutorProcess(ExecutorNext)

Spec == Init /\ [][Next]_vars

(***************************************************************************)
(* Fairness.  The event loop of the main process runs its ready tasks in   *)
(* FIFO order, so a task whose queue is not empty gets its turn; but every *)
(* pass of strategy() disables it for a while, hence SF.  The chain goes   *)
(* on producing heads and the watcher reconnects.  Every call a thread of  *)
(* the executor makes returns, raises or times out.                        *)
(***************************************************************************)
Fairness ==
    /\ WF_vars(StrategyTask(Pass))
    /\ SF_vars(StrategyTask(ReceiveBlock))
    /\ SF_vars(StrategyTask(HandleExecutionReport))
    /\ SF_vars(ControlTask)
    /\ SF_vars(OtherTask(NewHead))
    /\ SF_vars(OtherTask(ListenReport))
    /\ SF_vars(OtherTask(TakeReport) /\ UNCHANGED watcherVars)
    /\ WF_vars(ExecutorProcess(Take \/ Drop))
    /\ \A p \in Pairs : WF_vars(ExecutorProcess(Settle(p)))

FairSpec == Spec /\ Fairness

-----------------------------------------------------------------------------
TypeOK ==
    /\ QueuesTypeOK
    /\ StrategyTypeOK
    /\ ExecutorTypeOK
    /\ WatcherTypeOK
    /\ restored \in Nat

\* Everything that is bought, being bought or being sold.
Commitments ==
    Len(execution_broker) + Cardinality(taken) + Len(execution_report)
        + Len(glb_inventory)

\* Every slot of the inventory that send_exec_order takes is held by an order
\* on its way, a position or a lost order, and by one of them only, however the
\* acknowledgements of buys and sells come back (main.py:125-126, 394, 411, 414).
\* Restored positions give back slots that they never took.
SlotAccounting == glb_fullfilled + restored = Commitments + lost

\* The bot never commits itself to more pairs than INVENTORY_CAPACITY, but for
\* the positions that were open when it started (main.py:124, 438-442).
CapacityRespected == Commitments <= INVENTORY_CAPACITY + restored

Orders == ToSet(execution_broker) \cup {t.order : t \in taken}
Acks == ToSet(execution_report)

Sells(messages) == {m \in messages : ~ m.is_buy}

\* The lock that stops further liquidations (main.py:161, 180) is only ever
\* held while a sell that will release it is under way (main.py:395, 415).
LockHeldForASell == glb_liquidated => Sells(Orders \cup Acks) # {}

\* A pair is watched, ordered, being executed, acknowledged or held, and only
\* one of these: no pair is bought twice, sold twice, or inspected for a buy
\* while it is held (main.py:180-184, 244-250, 279).
PairInOnePlace ==
    LET Count(s, p) == Cardinality({i \in DOMAIN s : s[i].pair = p}) IN
    \A p \in Pairs :
        Count(glb_watchlist, p) + Count(execution_broker, p)
          + Cardinality({t \in taken : t.order.pair = p})
          + Count(execution_report, p) + Count(glb_inventory, p) <= 1

SendsBuy(p) ==
    /\ Len(execution_broker') > Len(execution_broker)
    /\ Last(execution_broker').is_buy
    /\ Last(execution_broker').pair = p

\* With more than one inspection configured, a pair is bought only in the pass
\* of its last inspection, when it is older than all the intervals before it
\* (main.py:221, 243-250).
BuyAfterProbation ==
    [][\A p \in Pairs : SendsBuy(p) /\ MAX_INSPECT_ATTEMPTS > 1 =>
          \E w \in ToSet(glb_watchlist) :
             /\ w.pair = p
             /\ w.inspect_attempts = MAX_INSPECT_ATTEMPTS - 1
             /\ w.age > w.inspect_attempts * INSPECT_INTERVAL]_vars

\* No buy is sent once the loss has passed the hard stop, even if the PnL is
\* reset later, nor in the pass that finds it passed (main.py:196-203).
BuyOnlyWhileRunning ==
    [][\A p \in Pairs : SendsBuy(p) => glb_auto_run /\ ~ BelowHardStop]_vars

\* Raising, lowering and resetting the amount never leaves its range
\* (main.py:213, 401, 422).
BuyAmountInRange == buy_amount \in MIN_BUY_AMOUNT .. MAX_BUY_AMOUNT

\* In the dry-run mode of .env.example:1 nothing is traded but on paper.
DryRunTradesOnPaper ==
    RUN_MODE = "PAPER_TRADE" =>
        \A m \in Orders \cup Acks \cup ToSet(glb_inventory) : m.is_paper

\* A pair is held from the moment its buy is acknowledged to the main process
\* until its sell is.
Held(p) ==
    \/ \E position \in ToSet(glb_inventory) : position.pair = p
    \/ \E m \in Sells(Orders \cup Acks) : m.pair = p

\* Whether the watcher will track p once it has read all its notices: the last
\* notice about p opens a position, or there is none and p is tracked now.
WillTrack(p) ==
    \/ \E i \in DOMAIN watching_notifier :
          /\ watching_notifier[i].pair = p
          /\ watching_notifier[i].is_buy
          /\ watching_notifier[i].tx_status = "SUCCESS"
          /\ \A j \in DOMAIN watching_notifier :
                j > i => watching_notifier[j].pair # p
    \/ /\ p \in watch_inventory
       /\ \A notice \in ToSet(watching_notifier) : notice.pair # p

\* The watcher forgets a pair when its position is closed: it does not go on
\* fetching logs of pairs that are gone (block_watcher.py:240-246).
TracksOnlyHeld == \A p \in Pairs : WillTrack(p) => Held(p)

\* If fetching reserves never fails, the price of every position that was
\* bought in this run is known (block_watcher.py:217-226).
TracksAllHeld ==
    LET bought == Pairs \ {p.pair : p \in ToSet(PendingPositions)} IN
    ~ RpcMayFail => \A p \in bought : Held(p) => WillTrack(p)

-----------------------------------------------------------------------------
\* The lock is released again, so liquidations never stop for good.
LockReleased == glb_liquidated ~> ~ glb_liquidated

\* A watched pair is bought or given up in the end.
WatchlistDrains == []<>(glb_watchlist = <<>>)

\* Every position is closed and every order settled in the end, and all the
\* slots are free again but those of the lost orders.
EventuallyFlat == <>[](Commitments = 0 /\ glb_fullfilled + restored = lost)
=============================================================================
