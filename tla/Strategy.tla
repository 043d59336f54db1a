------------------------------ MODULE Strategy ------------------------------
(***************************************************************************)
(* The tasks of the main process that own the trading state (main.py):     *)
(* strategy(), handle_execution_report() and handle_control_order().       *)
(*                                                                         *)
(* They are asyncio tasks of one thread.  A task runs from one coro_get    *)
(* to the next without yielding, so no other task of the process acts      *)
(* while a pass of strategy() is under way (pc # "get").  The executor is  *)
(* another process and may take an order in the middle of a pass.  A pass  *)
(* is therefore cut into steps, one per turn of each of its loops.         *)
(*                                                                         *)
(* A definition named Faulty... is a plausible mistake in the definition   *)
(* that follows it.  Nothing uses it; putting it in the other's place      *)
(* shows that a property notices.                                          *)
(***************************************************************************)
EXTENDS Brokers, SequencesExt

CONSTANTS
    RUN_MODE,               \* one of the RunModes
    MAX_INSPECT_ATTEMPTS,
    INSPECT_INTERVAL,       \* INSPECT_INTERVAL_SECONDS, in blocks
    WATCHLIST_CAPACITY,
    INVENTORY_CAPACITY,
    HOLD_MAX_DURATION,      \* HOLD_MAX_DURATION_SECONDS, in blocks
    BUY_AMOUNT, MIN_BUY_AMOUNT, MAX_BUY_AMOUNT, AMOUNT_CHANGE_STEP,
    GAS_COST,
    MIN_EXPECTED_PNL, RISK_REWARD_RATIO,
    HARD_STOP_PNL_THRESHOLD,
    \* the outside world
    GasQuotes,              \* what get_base_gas_price may return
    SellReturns,            \* what a successful sell may return
    Clock,                  \* what the hour may be found to be
    PendingPositions        \* the positions the reporter restores at the start

RunModes == {"NORMAL", "WATCHING_ONLY", "PAPER_TRADE"}

ASSUME StrategyAssumption ==
    /\ RUN_MODE \in RunModes
    /\ MAX_INSPECT_ATTEMPTS \in Nat
    /\ INSPECT_INTERVAL \in Nat
    /\ WATCHLIST_CAPACITY \in Nat
    /\ INVENTORY_CAPACITY \in Nat
    /\ HOLD_MAX_DURATION \in Nat
    /\ BUY_AMOUNT \in Nat \ {0} /\ MIN_BUY_AMOUNT \in Nat \ {0}
    /\ MAX_BUY_AMOUNT \in Nat /\ AMOUNT_CHANGE_STEP \in Nat
    /\ MIN_BUY_AMOUNT <= BUY_AMOUNT /\ BUY_AMOUNT <= MAX_BUY_AMOUNT
    /\ GAS_COST \in Nat /\ SellReturns \subseteq Nat
    /\ MIN_EXPECTED_PNL \in Int /\ RISK_REWARD_RATIO \in Int
    /\ HARD_STOP_PNL_THRESHOLD \in Int
    /\ GasQuotes \subseteq {"low", "high", "None"}
    /\ Clock \subseteq {"same hour", "new epoch", "midnight"}
    /\ PendingPositions \in Seq(Position)

VARIABLES
    glb_fullfilled, glb_liquidated, glb_watchlist, glb_inventory,
    glb_daily_pnl, glb_auto_run, buy_amount,
    pc,             \* where strategy() stands
    block,          \* the block_data of the pass
    scan,           \* the index of the loop that enumerates a list
    inspecting,     \* the pairs whose inspection result is still to be read
    failed          \* failed_pairs

strategyVars == <<glb_fullfilled, glb_liquidated, glb_watchlist, glb_inventory,
                  glb_daily_pnl, glb_auto_run, buy_amount,
                  pc, block, scan, inspecting, failed>>

\* Ages saturate where no comparison tells them apart any more.
MaxPositionAge == HOLD_MAX_DURATION + 1
MaxPairAge == MAX_INSPECT_ATTEMPTS * INSPECT_INTERVAL + 1

\* A pair on the watchlist; age is block_timestamp - created_at.
WatchedPair == [pair: Pairs, age: Nat, inspect_attempts: Nat,
                contract_verified: BOOLEAN]

Phases == {"get", "liquidate", "inspect", "purge", "admit", "dead"}

StrategyTypeOK ==
    /\ glb_fullfilled \in Int
    /\ glb_liquidated \in BOOLEAN
    /\ glb_watchlist \in Seq(WatchedPair)
    /\ glb_inventory \in Seq(Position)
    /\ glb_daily_pnl \in Int
    /\ glb_auto_run \in BOOLEAN
    /\ buy_amount \in Nat \ {0}
    /\ pc \in Phases
    /\ block \in BlockData
    /\ scan \in Nat \ {0}
    /\ inspecting \subseteq Pairs
    /\ failed \subseteq Pairs

EmptyBlock == [pairs |-> {}, inventory |-> {}]

\* The module's globals (main.py:31-36).
StrategyInit ==
    /\ glb_fullfilled = 0
    /\ glb_liquidated = FALSE
    /\ glb_watchlist = <<>>
    /\ glb_inventory = <<>>
    /\ glb_daily_pnl = 0
    /\ glb_auto_run = TRUE
    /\ buy_amount = BUY_AMOUNT
    /\ pc = "get"
    /\ block = EmptyBlock
    /\ scan = 1
    /\ inspecting = {}
    /\ failed = {}

-----------------------------------------------------------------------------
(* strategy(): one pass over a block.                                      *)

Older(age, bound) == IF age < bound THEN age + 1 ELSE age

ReceiveBlock ==
    /\ pc = "get"
    /\ watching_broker # <<>>
    /\ watching_broker' = Tail(watching_broker)
    /\ block' = Head(watching_broker)
    /\ report_broker' =
          IF block'.pairs # {}
          THEN Append(report_broker, [type |-> "BLOCK", pairs |-> block'.pairs])
          ELSE report_broker
    /\ glb_watchlist' =
          [i \in DOMAIN glb_watchlist |->
              [glb_watchlist[i] EXCEPT !.age = Older(@, MaxPairAge)]]
    /\ glb_inventory' =
          [i \in DOMAIN glb_inventory |->
              [glb_inventory[i] EXCEPT !.age = Older(@, MaxPositionAge)]]
    /\ pc' = IF RUN_MODE = "WATCHING_ONLY" THEN "get" ELSE "liquidate"
    \* the liquidation loop is skipped while a liquidation is under way
    /\ scan' = IF glb_liquidated THEN Len(glb_inventory) + 1 ELSE 1
    /\ UNCHANGED <<watching_notifier, execution_broker, execution_report,
                   control_receiver, glb_fullfilled, glb_liquidated,
                   glb_daily_pnl, glb_auto_run, buy_amount, inspecting, failed>>

Overdue(position) == position.age > HOLD_MAX_DURATION

\* The price is known for the pairs the watcher tracks only.
MayExit(position) == position.pair \in block.inventory \/ Overdue(position)

FaultyPopPosition(idx) == glb_inventory
PopPosition(idx) == RemoveAt(glb_inventory, idx)

\* One turn of the loop over glb_inventory.  The loop goes on with index
\* scan + 1 whether it popped the element at scan or not.
LiquidateNext ==
    /\ pc = "liquidate"
    /\ scan <= Len(glb_inventory)
    /\ LET position == glb_inventory[scan] IN
       \/ /\ MayExit(position)
          /\ glb_liquidated' = TRUE
          /\ glb_inventory' = PopPosition(scan)
          /\ execution_broker' = Append(execution_broker, SellOrder(position))
       \/ /\ ~ Overdue(position)
          /\ UNCHANGED <<glb_liquidated, glb_inventory, execution_broker>>
    /\ scan' = scan + 1
    /\ UNCHANGED <<watching_broker, watching_notifier, execution_report,
                   report_broker, control_receiver, glb_fullfilled,
                   glb_watchlist, glb_daily_pnl, glb_auto_run, buy_amount,
                   pc, block, inspecting, failed>>

\* The pairs of the block that are admitted when the watchlist is done:
\* len(glb_watchlist) is tested once, before the loop over the results.
Admitting(watchlist) ==
    IF Len(watchlist) < WATCHLIST_CAPACITY THEN block.pairs ELSE {}

After(rest) == IF rest = {} THEN "get" ELSE "admit"

\* The block, the loop index and failed_pairs are not read again in this pass.
Forget == block' = EmptyBlock /\ scan' = 1 /\ failed' = {}

BelowHardStop == glb_daily_pnl < HARD_STOP_PNL_THRESHOLD

FaultyStopped == BelowHardStop
Stopped == BelowHardStop \/ ~ glb_auto_run

\* The hard stop, and every pass after it, ends here.
HardStop ==
    /\ pc = "liquidate"
    /\ scan > Len(glb_inventory)
    /\ Stopped
    /\ glb_auto_run' = FALSE
    /\ pc' = "get"
    /\ Forget
    /\ UNCHANGED <<queues, glb_fullfilled, glb_liquidated, glb_watchlist,
                   glb_inventory, glb_daily_pnl, buy_amount, inspecting>>

\* created_at is as old as the attempts made so far, and one interval more.
FaultyDue(watched) == watched.age >= watched.inspect_attempts * INSPECT_INTERVAL
Due(watched) == watched.age > watched.inspect_attempts * INSPECT_INTERVAL

DuePairs == {w.pair : w \in {v \in ToSet(glb_watchlist) : Due(v)}}

\* The reset of the PnL and of the amount, and the start of the inspections.
GoOn ==
    /\ pc = "liquidate"
    /\ scan > Len(glb_inventory)
    /\ ~ Stopped
    /\ \E hour \in Clock :
          /\ glb_daily_pnl' = IF hour = "same hour" THEN glb_daily_pnl ELSE 0
          /\ buy_amount' = IF hour = "midnight" THEN BUY_AMOUNT ELSE buy_amount
    /\ \/ /\ DuePairs # {}
          /\ inspecting' = DuePairs
          /\ pc' = "inspect"
          /\ UNCHANGED <<block, scan, failed>>
       \/ /\ DuePairs = {}
          /\ inspecting' = Admitting(glb_watchlist)
          /\ pc' = After(inspecting')
          /\ Forget
    /\ UNCHANGED <<queues, glb_fullfilled, glb_liquidated, glb_watchlist,
                   glb_inventory, glb_auto_run>>

FaultyHasSlot == glb_fullfilled <= INVENTORY_CAPACITY
HasSlot == glb_fullfilled < INVENTORY_CAPACITY

\* send_exec_order.  A gas price of None raises a TypeError that ends the task
\* and, through asyncio.gather, the main process with it.
SendExecOrder(pair, is_paper, next) ==
    \E gas_price \in GasQuotes :
       IF gas_price = "None"
       THEN pc' = "dead" /\ UNCHANGED <<glb_fullfilled, execution_broker>>
       ELSE /\ pc' = next
            /\ IF gas_price = "low" /\ HasSlot
               THEN /\ glb_fullfilled' = glb_fullfilled + 1
                    /\ execution_broker' =
                          Append(execution_broker, BuyOrder(pair, is_paper))
               ELSE UNCHANGED <<glb_fullfilled, execution_broker>>

\* inspect(inspection_batch): the results come in any order.  A pair that is
\* malicious, that cannot be simulated or whose inspection raised has failed.
InspectionFails(p) ==
    /\ pc = "inspect"
    /\ p \in inspecting
    /\ inspecting' = inspecting \ {p}
    /\ failed' = failed \cup {p}
    /\ UNCHANGED <<queues, glb_fullfilled, glb_liquidated, glb_watchlist,
                   glb_inventory, glb_daily_pnl, glb_auto_run, buy_amount,
                   pc, block, scan>>

\* No other pair has made its last attempt, so line 243 concerns this one only.
InspectionPasses(p, verified, enough_mm) ==
    /\ pc = "inspect"
    /\ p \in inspecting
    /\ inspecting' = inspecting \ {p}
    /\ \E i \in DOMAIN glb_watchlist :
       LET inspected ==
              [glb_watchlist[i] EXCEPT !.inspect_attempts = @ + 1,
                                       !.contract_verified = @ \/ verified]
       IN /\ inspected.pair = p
          /\ \/ /\ inspected.inspect_attempts < MAX_INSPECT_ATTEMPTS
                /\ glb_watchlist' = [glb_watchlist EXCEPT ![i] = inspected]
                /\ UNCHANGED <<glb_fullfilled, execution_broker, pc>>
             \/ /\ inspected.inspect_attempts >= MAX_INSPECT_ATTEMPTS
                /\ glb_watchlist' = RemoveAt(glb_watchlist, i)
                /\ IF enough_mm /\ inspected.contract_verified
                   THEN SendExecOrder(p, RUN_MODE = "PAPER_TRADE", pc)
                   ELSE UNCHANGED <<glb_fullfilled, execution_broker, pc>>
    /\ UNCHANGED <<watching_broker, watching_notifier, execution_report,
                   report_broker, control_receiver, glb_liquidated,
                   glb_inventory, glb_daily_pnl, glb_auto_run, buy_amount,
                   block, scan, failed>>

InspectDone ==
    /\ pc = "inspect"
    /\ inspecting = {}
    /\ pc' = "purge"
    /\ scan' = 1
    /\ UNCHANGED <<queues, glb_fullfilled, glb_liquidated, glb_watchlist,
                   glb_inventory, glb_daily_pnl, glb_auto_run, buy_amount,
                   block, inspecting, failed>>

FaultyHasFailed(watched) == watched.pair \in failed /\ ~ watched.contract_verified
HasFailed(watched) == watched.pair \in failed

\* One turn of the loop that removes the failed pairs.  As in LiquidateNext,
\* the element after a popped one is passed over.
PurgeNext ==
    /\ pc = "purge"
    /\ scan <= Len(glb_watchlist)
    /\ glb_watchlist' = IF HasFailed(glb_watchlist[scan])
                        THEN RemoveAt(glb_watchlist, scan)
                        ELSE glb_watchlist
    /\ scan' = scan + 1
    /\ UNCHANGED <<queues, glb_fullfilled, glb_liquidated, glb_inventory,
                   glb_daily_pnl, glb_auto_run, buy_amount, pc, block,
                   inspecting, failed>>

PurgeDone ==
    /\ pc = "purge"
    /\ scan > Len(glb_watchlist)
    /\ inspecting' = Admitting(glb_watchlist)
    /\ pc' = After(inspecting')
    /\ Forget
    /\ UNCHANGED <<queues, glb_fullfilled, glb_liquidated, glb_watchlist,
                   glb_inventory, glb_daily_pnl, glb_auto_run, buy_amount>>

\* One result of inspect(block_data.pairs), the initial inspection.
Admitted(p) ==
    /\ pc = "admit"
    /\ p \in inspecting
    /\ inspecting' = inspecting \ {p}
    /\ UNCHANGED <<watching_broker, watching_notifier, execution_report,
                   report_broker, control_receiver, glb_liquidated,
                   glb_inventory, glb_daily_pnl, glb_auto_run, buy_amount,
                   block, scan, failed>>

Reject(p) ==
    /\ Admitted(p)
    /\ pc' = After(inspecting')
    /\ UNCHANGED <<glb_fullfilled, glb_watchlist, execution_broker>>

Watch(p, verified) ==
    /\ Admitted(p)
    /\ MAX_INSPECT_ATTEMPTS > 1
    /\ glb_watchlist' =
          Append(glb_watchlist,
                 [pair |-> p, age |-> 0, inspect_attempts |-> 1,
                  contract_verified |-> verified])
    /\ pc' = After(inspecting')
    /\ UNCHANGED <<glb_fullfilled, execution_broker>>

\* The order is sent with the default of is_paper, whatever RUN_MODE is.
BuyAtOnce(p) ==
    /\ Admitted(p)
    /\ MAX_INSPECT_ATTEMPTS <= 1
    /\ SendExecOrder(p, FALSE, After(inspecting'))
    /\ UNCHANGED glb_watchlist

-----------------------------------------------------------------------------
(* handle_execution_report(): one action per kind of acknowledgement.      *)

FaultyNotify(ack) == UNCHANGED watching_notifier
Notify(ack) == watching_notifier' = Append(watching_notifier, ack)

\* What every acknowledgement goes through before it is looked at.
ReceiveAck(extra) ==
    /\ pc = "get"
    /\ execution_report # <<>>
    /\ execution_report' = Tail(execution_report)
    /\ report_broker' =
          Append(report_broker,
                 [type |-> "EXECUTION", ack |-> Head(execution_report)]) \o extra
    /\ Notify(Head(execution_report))
    /\ UNCHANGED <<watching_broker, execution_broker, control_receiver,
                   glb_watchlist, glb_auto_run, pc, block, scan, inspecting,
                   failed>>

Received(is_buy, status) ==
    /\ execution_report # <<>>
    /\ Head(execution_report).is_buy = is_buy
    /\ Head(execution_report).tx_status = status

FaultyReleaseSlot == UNCHANGED glb_fullfilled
ReleaseSlot == glb_fullfilled' = glb_fullfilled - 1

FaultyReleaseLock == UNCHANGED glb_liquidated
ReleaseLock == glb_liquidated' = FALSE

BuySucceeded ==
    /\ Received(TRUE, "SUCCESS")
    /\ ReceiveAck(<<>>)
    /\ glb_inventory' = Append(glb_inventory, NewPosition(Head(execution_report)))
    /\ UNCHANGED <<glb_fullfilled, glb_liquidated, glb_daily_pnl, buy_amount>>

BuyFailed ==
    /\ Received(TRUE, "FAILED")
    /\ ReceiveAck(<<>>)
    /\ ReleaseSlot
    /\ UNCHANGED <<glb_inventory, glb_liquidated, glb_daily_pnl, buy_amount>>

\* In percent of the amount that is bought with now.
Pnl(amount_out) == ((amount_out - buy_amount - GAS_COST) * 100) \div buy_amount

\* glb_daily_pnl > calculate_expect_pnl(...), multiplied out (helpers/utils.py).
ExceedsExpectation(pnl) ==
    pnl * buy_amount > MIN_BUY_AMOUNT * MIN_EXPECTED_PNL
                          + 100 * (buy_amount - MIN_BUY_AMOUNT) * RISK_REWARD_RATIO

FaultyCanRaise == buy_amount <= MAX_BUY_AMOUNT
CanRaise == buy_amount + AMOUNT_CHANGE_STEP <= MAX_BUY_AMOUNT

SellSucceeded ==
    /\ Received(FALSE, "SUCCESS")
    /\ ReceiveAck(<<>>)
    /\ ReleaseSlot
    /\ ReleaseLock
    /\ \E amount_out \in SellReturns :
       LET pnl == glb_daily_pnl + Pnl(amount_out) IN
       IF ExceedsExpectation(pnl) /\ CanRaise
       THEN buy_amount' = buy_amount + AMOUNT_CHANGE_STEP /\ glb_daily_pnl' = 0
       ELSE glb_daily_pnl' = pnl /\ UNCHANGED buy_amount
    /\ UNCHANGED glb_inventory

SellFailed ==
    /\ Received(FALSE, "FAILED")
    /\ ReceiveAck(<<[type |-> "BLACKLIST_ADDED",
                     creator_of |-> Head(execution_report).pair]>>)
    /\ ReleaseSlot
    /\ ReleaseLock
    /\ LET pnl == glb_daily_pnl + Pnl(0) IN
       IF pnl < -100 /\ buy_amount - AMOUNT_CHANGE_STEP >= MIN_BUY_AMOUNT
       THEN buy_amount' = buy_amount - AMOUNT_CHANGE_STEP /\ glb_daily_pnl' = 0
       ELSE glb_daily_pnl' = pnl /\ UNCHANGED buy_amount
    /\ UNCHANGED glb_inventory

-----------------------------------------------------------------------------
(* handle_control_order(): the restored positions join the inventory.      *)

HandleControlOrder ==
    /\ pc = "get"
    /\ control_receiver # <<>>
    /\ control_receiver' = Tail(control_receiver)
    /\ glb_inventory' = glb_inventory \o Head(control_receiver)
    /\ UNCHANGED <<watching_broker, watching_notifier, execution_broker,
                   execution_report, report_broker, glb_fullfilled,
                   glb_liquidated, glb_watchlist, glb_daily_pnl, glb_auto_run,
                   buy_amount, pc, block, scan, inspecting, failed>>

-----------------------------------------------------------------------------
Pass ==
    \/ LiquidateNext \/ HardStop \/ GoOn
    \/ InspectDone \/ PurgeNext \/ PurgeDone
    \/ \E p \in Pairs :
          \/ InspectionFails(p)
          \/ \E verified, enough_mm \in BOOLEAN :
                InspectionPasses(p, verified, enough_mm)
          \/ Reject(p)
          \/ \E verified \in BOOLEAN : Watch(p, verified)
          \/ BuyAtOnce(p)

HandleExecutionReport == BuySucceeded \/ BuyFailed \/ SellSucceeded \/ SellFailed

StrategyNext == ReceiveBlock \/ Pass \/ HandleExecutionReport \/ HandleControlOrder
=============================================================================
