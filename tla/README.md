# Verification of eth-snipe-bot

This directory models the bot in TLA+: modules translated from the Python
source, TLC configurations that check them on small instances, and theorems
that TLAPS proves for every value of the constants.

All paths are relative to the root of the repository (`src/` below is the
directory that holds `main.py`).

## 1. The system

The bot watches an Ethereum chain for new Uniswap-V2 liquidity pairs, inspects
them a few times, buys the ones that pass through a smart contract of its own
(a *bot*, one per account), and sells again by price or by age.

| Component | Source | State | Operations |
|---|---|---|---|
| Main process | `main.py` | `glb_fullfilled` (slots taken), `glb_liquidated` (the liquidation lock), `glb_watchlist`, `glb_inventory`, `glb_daily_pnl`, `glb_auto_run`, the `BUY_AMOUNT` variable | `strategy()` (one pass per block), `send_exec_order`, `handle_execution_report`, `handle_control_order` |
| Block watcher | `watcher/block_watcher.py` | `inventory`: the pairs whose reserves go with each block | `listen_block`, `listen_report` |
| Executor process | `executor/buysell_executor.py` | the accounts with their bots, a thread pool, `counter` | `handle_execution_order`, `execute`, `execute_paper` |
| Bot factory | `factory/bot_factory.py` | rows of bots in the database | create, retry, update, answer to the executor |
| Reporter | `reporter/reporter.py` | database rows: blocks, pairs, positions, hourly PnL, blacklist | `bootstrap` (restores open positions), `listen_report`, `save_to_db` |
| Inspector | `inspector/pair_inspector.py`, `inspector/ethcall_simulator.py` | none that outlives a batch; it reads the blacklist | `inspect_batch`, `inspect_pair`, the simulated buy and sell |
| Bootstrap script | `executor/bootstrap.py` | none of its own: accounts and balances on the chain | `create_executor_and_fund`, `fund_executor`, `create_bot`, `withdraw`, run by hand |
| Contracts | `contracts/src/*.sol` | the tokens of a bot, its signers | `buy`, `sell`, `createBot` |

**How they interact.** `main.py` starts the executor as a second process and
joins everything with six unbounded FIFO queues that cross processes by
pickling (`AioQueue`):

    block watcher --watching_broker--> strategy --execution_broker--> executor
          ^                                                              |
          +--watching_notifier-- handle_execution_report <--execution_report--+
                                        |
    reporter <--report_broker-- strategy, handle_execution_report
        +-----control_receiver--> handle_control_order

The tasks of the main process share its globals. They are asyncio tasks of one
thread: a task is not interrupted between two awaits that really suspend, and
the only ones that do are the reads of queues and of the websocket. The
executor runs at the same time, with a pool of threads of its own.

**What is hard.** A slot is taken in one task and given back in another, on
an answer of another process that may never come; the lock of the liquidations
is closed in one task and opened in another; two lists are popped while they
are enumerated; the watcher learns of positions late and may fail to learn of
them; a pair moves through a watchlist, a queue, a thread, a second queue and
an inventory and must never be in two of them; the threads of the executor
share accounts, nonces and bots without locks; after a restart the program
rebuilds its positions from rows that it wrote for other purposes.
`PROJECT.json` lists these hazards one by one, at their lines, with the
properties that watch them.

**What makes each component correct.**

- Main process: slots are accounted for and never exceed the capacity; a pair
  is in one place only; the lock is only held while a sell is under way; a pair
  is bought after its probation, within the limits of the amount, never after
  the hard stop, on paper only in dry-run mode; every position is closed.
- Watcher: exactly the pairs that are held are tracked, and their reserves are
  those of the last head.
- Executor: every order is answered at most once, every sell is answered, by
  the bot it names.
- Bot factory: an account has at most one current bot, and gets one again.
- Reporter: what is restored after a crash is what was really open; what was
  sold stays sold; nobody is frozen without a cause; statistics agree with rows.
- Bootstrap script: nobody is paid more often than asked for, and a call that
  fails can be continued at the account it stopped at.
- Inspector: no order for a pair of a frozen or unknown creator, after a
  suspicious call that was seen, that cannot be sold, or at too great a loss.

## 2. The modules

| Module | Models | Extends |
|---|---|---|
| `Brokers` | the six queues, the messages on them and how the main process builds them | |
| `Strategy` | the three tasks of `main.py` that own the trading state | `Brokers` |
| `BlockWatcher` | the two tasks of the block watcher | `Brokers` |
| `AbstractExecutor` | what the executor process promises | `Brokers` |
| `TradingSystem` | the main process, the watcher and the abstract executor together, fairness, the properties | the three above |
| `Reporter` | the rows of the database, the saves query by query, `bootstrap` | `Brokers` |
| `Recovery` | the trading system with its database, crashes and restarts | `TradingSystem`, `Reporter` |
| `Chain` | the node and the chain as the executor uses them; what a SnipeBot call requires | `Brokers` |
| `BotFactory` | the factory task and the rows of the bots | `Chain` |
| `Executor` | the tasks and threads of the executor process | `BotFactory` |
| `ExecutionSystem` | executor, factory and chain, driven by the main process; refinement of `AbstractExecutor` | `Executor` |
| `Market` | the chain as watcher and inspector see it: pools and calls to tokens, block by block | |
| `SnipeBot` | what `buy` and `sell` of the contract return, in integer arithmetic | `Market` |
| `LogWatcher` | the block watcher with its logs, failing calls, lost heads and late pickling | `Market` |
| `Inspector` | the inspection of a batch of pairs, one step per question | `SnipeBot` |
| `Discovery` | from the creation of a pair to its order: `LogWatcher`, `Inspector` and what of the strategy stands between them; refinement of `BlockWatcher` | `LogWatcher`, `Inspector` |
| `Bootstrap` | the script that pays and empties the accounts; it meets the bot on the chain only | |
| `MCTradingSystem`, `MCRecovery`, `MCExecutionSystem`, `MCDiscovery`, `MCBootstrap` | values of constants for TLC | |
| `QueueLemmas` | lemmas about sequences, the pairs in a list, and moving a pair between places | |
| `TradingSystemProofs` | type correctness, slots, capacity and lock, proved | `TradingSystem` |
| `SafetyProofs` | places of pairs, amount, hard stop, probation, dry run and tracking, proved | `TradingSystemProofs` |
| `RecoveryProofs` | every safety property of `Recovery`, proved | `Recovery`, `SafetyProofs` |
| `ExecutionProofs` | types, refinement of `AbstractExecutor`, renewal and ownership of bots, tokens of positions, failed buys, books and retired bots, proved | `ExecutionSystem` |
| `SnipeBotProofs` | the arithmetic of a round trip, proved | `SnipeBot` |
| `DiscoveryProofs` | every property of `Discovery`, proved | `Discovery` |
| `BootstrapProofs` | both properties of `Bootstrap`, and that transfers queue, proved | `Bootstrap` |

The modules fit together like this; a double arrow is a refinement:

    TradingSystem = Strategy + BlockWatcher + AbstractExecutor
                                  ^^              ^^
                      Discovery (LogWatcher)   ExecutionSystem
    Recovery = TradingSystem with Reporter instead of a reader that forgets

**Atomicity.** `strategy()` holds the event loop from the moment it has a
block until it waits for the next one, so no other task of the main process
acts in between: the actions of these tasks need `pc = "get"`. The executor is
another process and may take an order, or answer one, in the middle of a pass;
a pass is therefore cut into one action per turn of its loops:

    get --ReceiveBlock--> liquidate --(LiquidateNext)*--+--HardStop--> get
                                                        +--GoOn--> inspect | admit | get
    inspect --(InspectionFails | InspectionPasses)*--InspectDone--> purge
    purge --(PurgeNext)*--PurgeDone--> admit | get
    admit --(Reject | Watch | BuyAtOnce)*--> get        any send --> dead

`handle_execution_report` and `handle_control_order` handle one message
without suspending and are one action per kind of message. `dead` is the end
of the main process: a gas price of `None` raises a `TypeError`
(`helpers/gas.py`, `main.py:120`) that leaves `strategy()` and, through
`asyncio.gather`, `main()`; the executor process goes on.

**Data that is abstracted.**

- *Time.* A position or a watched pair carries its age in blocks instead of a
  timestamp; every block makes it one older. An age saturates one beyond the
  largest value any comparison distinguishes (`MaxPositionAge`, `MaxPairAge`).
- *Prices.* Whether a position's price says "sell" is a free choice, but only
  for the pairs in the block's inventory, since the code has no price for the
  others. The return of a sell (`amount_out`) is chosen from `SellReturns` when
  its acknowledgement is handled, which is the only place that reads it.
- *Inspection.* In `Strategy` the results of `inspect_batch` come in any order;
  each is a pass or a fail, with the facts `strategy()` reads
  (`contract_verified`, enough market makers). `Discovery` has how they come about.
- *Gas.* `get_base_gas_price` is low enough, too high, or `None`.
- *The chain.* A pair is announced at most once (a factory creates it once);
  a head that is lost while the websocket reconnects is a pair never announced.
- *The clock.* The hourly reset of the PnL sees the same hour, a new epoch, or
  midnight, whatever the age of the block: no property depends on how often.
- *The amount.* `amount`, gas tips, deadlines, hashes and block numbers of
  orders are left out. `Pnl` is the code's formula on integers.

**The abstract executor.** `Take` moves an order to a thread, `Drop` loses a
buy whose account has no bot (`buysell_executor.py:260,282`), `Answer` puts one
acknowledgement, `Vanish` is the thread of a buy that dies outside its `try`
block (line 91, if another thread took the bot away at line 177). `lost` counts
the orders without an answer. A sell names its bot and is always answered.

**The abstract watcher.** `BlockWatcher` puts every new pair in a block, with
the pairs it tracks, tracks a pair from the acknowledgement of its buy unless
the reserves cannot be fetched, and forgets it at any other acknowledgement.

**Why several compositions.** The trading system, the executor's internals and
the way from the chain to an order are each too large to be checked with the
others in full. `AbstractExecutor` and `BlockWatcher` are the seams:
`TradingSystem` uses them, `Discovery` shows that the detailed watcher
implements the one (`WatcherImplements`) and `ExecutionSystem` that the executor
implements the other (`Implements`), driven by the part of
the main process that talks to it (buys while there are slots, sells of
positions, acknowledgements), with every choice that depends on prices, ages
and inspections left open. The lock of the liquidations is left open as well,
which allows more sells at a time than the code has.

**The executor in detail.** An order becomes a *job*, with the account of its
turn or of its signer, which waits for one of `Len(Keys)` threads and then goes
through the phases of `execute`:

    queued --Start--> nonce --GetNonce--> send --Send--> wait --+-- GetReceipt
       |                 (NodeRaises from any, SendRefused)     +-- Timeout
       +--Start--> simulate --Simulate--> end                        |
    check --TellFactory--> count --CountUse--> replace --ReplaceBot--> request --RequestBot--> end

Threads and event loop share `bot_of` (`accounts[idx].bot`) without a lock. They
interleave at calls, which is where CPython 3.11 (the version the repository's
README asks for) switches threads: lines 166-175 of `execute` make no call and
are one step, and so is the test at line 237. A factory handler is one action:
it shares nothing but its queues and its rows with others, and its rows with
nobody. `create_bot` blocks the event loop and a retry sleeps; either only
delays the action.

**The chain.** A transaction has a signer, a nonce and the contract it calls;
the node accepts it, puts it in the place of a pending one with the same nonce,
or refuses it. A transaction with the next nonce may be mined at any time, or
never; it succeeds only if its signer owns the contract and the deadline has
not passed (`SnipeBot.sol`), and may always revert. It is late once the thread
has waited `RECEIPT_TIMEOUT` (web3's 120 s) if that is no less than
`DEADLINE_DELAY_SECONDS`. With `NodeMayFail` any call may raise, and the sending
may raise though the node has taken the transaction. With `DbMayFail` any query
or save of the factory may raise.

**The database.** A save is a sequence of awaited queries, and other tasks run
in between: `Saving` holds the report and the query it waits for. A query may
raise, which ends the save and keeps the rows before it (`torn` remembers the
pairs). `Restart` is the end of the program at any moment and its next start,
under supervisord: the globals, the queues, the orders of the executor and the
list of the watcher are gone, tables and chain stay, and `bootstrap()` sends
what it finds open and purchased within the hour. An hour is a value of
`hour`; a row of the hour before may or may not be older than one hour. A restored
position is made ten minutes older than it is (`reporter.py:58`), which with
`HOLD_MAX_DURATION_SECONDS` of at most ten minutes is "liquidate immediately".
`bootstrap()` is the first query of a run since Django runs all async queries on
one thread in FIFO order.

**From the chain to an order.** `Market` is external: block `n` of `blocks` has,
for each pair, the state of its pool at the end and the kind of call to its
token that it contains. Time is the height of the chain, everywhere. The
watcher handles heads in order (`seen`), reads logs by number but new pairs'
reserves, tracked pairs' first reserves and simulations at `latest`, which is
ahead of the head. `put_buffer` is what `put()` has handed to the feeder thread
of the queue: the inventory is pickled later, with what the list holds then
(`block_watcher.py:79`). An inspection is a record in `threads` that goes from
question to question; the chain, the reporter and the watcher's feeder move on
between them. Of `strategy()`, `Discovery` keeps the probation of the pairs and
abstracts slots, capacity of the watchlist and gas to "an order may not be sent".
The swap of `SnipeBot` is UniswapV2's integer formula with the 0.3% fee; tokens
that take a fee on transfers are not in the model, and the simulator does not
tell them from a poor price.

**The bootstrap script.** A call (`call`) works through its list inside one
`try` block: `ReadBalance` (withdrawals only), `Send`, `GetReceipt` for each
account, and `Raises` ends it wherever it is, with the transaction of the turn
sent or not. What an earlier call sent may be mined at any time later, in the
order of the nonces. `fund_executor` and `withdraw` pass no nonce: web3 fills in
`get_transaction_count(from, "pending")` when it signs, so a transfer queues
behind what the sender has pending, and both may be mined. `create_bot` passes
the count of the mined ones (`bot_factory.py:58`): its transaction takes the
place of the manager's next pending one, a transfer perhaps, or is refused
(`Nonce`, `SameSlot`). A withdrawal leaves `RESERVE` on the account and pays what
the chain asks (`FEES`). `asked` is a history variable.

## 3. The runs

The runs of `MCTradingSystem` and `MCRecovery` have `BUY_AMOUNT`s, capacities
and ages of a few units. Bounds that are the model's and not the code's:
`MaxBacklog` (the watcher waits while that many blocks are unread), the number
of `Pairs`, the sets of returns, and in `MCRecovery` `MaxHour`, `MaxTorn` and
`MaxCrashes`. In those of `MCExecutionSystem` the bounds are the number of
`Pairs`, each bought once, and of addresses for new `Bots`; in `MCDiscovery`
`MaxHeight`, `MaxEvents` (changes of pools and calls), `LastCreation`,
`FreezeTimes`, and `Pools` whose products stay below 2^31, TLC's integers; in
`MCBootstrap` `MAX_CALLS`.

| Run | Instance | Shows |
|---|---|---|
| `slots` | 2 pairs, 3 inspections, capacity 1, dry-run mode, reserves that may not be fetched, fair scheduling | `TypeOK`, `LockHeldForASell`, `PairInOnePlace`, `BuyAfterProbation`, `TracksOnlyHeld`, `DryRunTradesOnPaper`, `LockReleased`, `WatchlistDrains`, `EventuallyFlat` |
| `immediate` | 3 pairs, one of them a restored position, capacity 1, immediate buys, a gas API that may fail, gains and losses, hourly resets, a tight hard stop | `SlotAccounting`, `CapacityRespected`, `TracksAllHeld`, `BuyAmountInRange`, `BuyOnlyWhileRunning` when slots go below zero and the main process may die |
| `threads` | 2 accounts and threads, 2 pairs, 3 bots that sell once, a database that may fail | `TypeOK`, `PositionsHaveTokens`, `FailedBuysLeaveNothing`, `SignedByOwner`, and that the executor implements `AbstractExecutor` |
| `books` | 1 account, a stored bot, bots that sell twice, paper and real orders, a node that may fail, fair scheduling | `BooksAgree`, `RenewalUnderWay`, `FailedBotRetired`, `AccountGetsBot`, `EveryOrderSettles`, and the refinement again |
| `recovery` | 2 pairs of 2 creators, a query that may raise, the turn of an hour, a crash at any moment | `RecoveryTypeOK`, `OpenPositionsStored`, `SoldStaysSold`, `BlacklistedForCause`, `StatsAgree` |
| `recovery_live` | 1 pair, the same faults, two crashes, fair scheduling | `EveryPositionClosed` |
| `discovery` | 1 token over 5 blocks, 4 states of its pool, 3 inspections, every service failing at any question, lost heads | `DiscoveryTypeOK`, `ReservesCurrent`, `CreatorVetted`, `CallsNoticed`, `BoughtWasTradable`, `LossBounded`, and that the watcher implements `BlockWatcher` |
| `bootstrap` | 2 accounts, 4 calls, fees below and above the reserve | `PaidAsAsked`, `DoneInOrder` |
| `phantom` | 1 pair, one crash | violation, see below |
| `dry_run_live` | `MAX_INSPECT_ATTEMPTS = 1` in dry-run mode | violation, see below |
| `late_buy`, `wrong_bot_retired` | the executor with one failure each | violations, see below |

*Why the bounds are enough.* The slot, lock and tracking properties relate
places a pair can be in; two pairs in flight with one slot, or three with one
slot and a restored position, give every overlap of a buy, a sell and a failure of different pairs, a queue
of each kind with more than one message, and a pop in the middle of an
enumeration of the watchlist. In `slots` one position is sold at a time: several
sells under one lock, and the pop of the inventory with restored positions in
it, are what `LockIsHeldForASell` and `PairIsInOnePlace` of section 5 add. The backlog of one block still lets the watcher run ahead of a
pass, since a pass holds the block it has taken. Ages need one value on each
side of the comparison, amounts one step up and one down. The theorems of
section 5 remove the bounds altogether for every safety property of a passing run.

For the executor two accounts are two threads, the fewest that can take a nonce
or a bot from each other; two pairs give a buy and a sell, or two of each, at
the same time; bots that are worn out by their first sell are replaced within
the run, and three addresses are a renewal for every sell that may fail. `RECEIPT_TIMEOUT` and
`DEADLINE_DELAY_SECONDS` have the values of web3 and `main.py:74`.

For the database two pairs give a save of one while the other trades, a bare
row and a full one, and two rows of one hour; one crash meets every state of a
pass, a save and the queues, and the second crash of `recovery_live` meets what
the first left behind. Two hours are the one that is restored and the one that
may be too old. With `GAS_COST` 1 and a step of 0 the amount cannot move and
`SellReturns` has one value, so that no state is spent on the PnL of `main.py`,
which a restart forgets anyway.

For the discovery one pair is enough because pairs meet only in lists that are
modelled as sets, and the theorems hold for any number; three inspections are
the fewest with one that is neither the first nor the last; four pools are one
without liquidity, a good one, one that cannot be sold, one whose round trip
costs too much; two events are a bait and a switch. A creation after the first
block only shifts the numbers (`LastCreation`).

For the bootstrap script two accounts are a list with a first and a second
turn, and four calls are two that give up with a transfer pending, so that the
second queues behind the first, a deployment that takes the nonce of the first,
and a withdrawal. Both transfers to one account can be mined: the manager has
the money for them.

*Symmetry* is used in the runs that check invariants and action properties
with interchangeable pairs (or bots; in `recovery` a pair is exchanged together
with its creator); not in runs with liveness, and never of a restored
position's pair.

*Deadlock* is not checked in `immediate`, where the main process may die and the
system does stop once the executor has answered what it had, in the runs of
`ExecutionSystem`, which end when every pair was traded, in `discovery`,
whose chain ends at `MaxHeight`, and in `bootstrap`, whose calls end.

**Fairness** (`slots`). The event loop runs its ready tasks in FIFO order, so a
task whose queue is not empty gets its turn: weak fairness for the steps of a
pass; strong fairness for the other tasks of the main process, because each
pass disables them for a while. Strong fairness of `NewHead` says the chain
goes on and the watcher reconnects. Weak fairness of the executor's threads
says that every call of theirs returns, raises or times out (they pass a
timeout to `wait_for_transaction_receipt`). Nothing is assumed of the outcome
of a trade, an inspection or the price. `slots` has no missing gas price: with
one the main process dies and nothing is eventually true.

`books` has weak fairness of the executor's tasks, of every thread's calls
that do not raise (`Proceeds`: an exception may come but need not), and of the main process reading its acknowledgements; strong fairness of
`CreateBot` says that the node and the database do not fail for ever (an
account may still be left without a bot when deployments that were taken for
failures have used up `Bots`, `NoAddressLeft`: the model's bound). Nothing
is assumed of the chain: a transaction may stay pending for ever, and
`EveryOrderSettles` holds because of the timeout.

`recovery_live` has the same fairness; strong fairness of the reporter's steps
says that a query returns or raises. Nothing makes the program start again, and
nothing stops it for ever.

**What is real about the properties.** Each property of a passing run is
violated by a mutant of the model, a definition `Faulty...` that stands before
the definition it would replace.

## 4. What the runs found

1. *Dry-run mode may trade for real* (`dry_run_live`, `main.py:284`). With
   `MAX_INSPECT_ATTEMPTS <= 1` the order is sent with `is_paper=False` in every
   mode; `.env.example:1` calls mode 2 "dry-run". With more inspections
   (`slots`) everything stays on paper.
2. *A buy that "failed" may still buy* (`late_buy`, `buysell_executor.py:145`).
   An exception after `send_raw_transaction` is acknowledged as a failure; the
   transaction is mined in time and its tokens belong to no position. A receipt
   that is merely late is harmless, thanks to the deadline (`threads`).
3. *The wrong bot may be given up* (`wrong_bot_retired`,
   `buysell_executor.py:170`). The sell of a position that an earlier bot holds
   is booked on the account's present bot.
4. *A failed buy is restored as a position* (`phantom`, `reporter.py:201`). The
   report of a failed buy opens a row that is not liquidated; a restart within
   the hour brings it back and sells what was never bought. The sell fails and
   its report closes the row.

Seen while modelling, without a run of their own:

- A failed pair may stay on the watchlist: the list is popped while it is
  enumerated (`main.py:254-261`), so the pair after a removed one is passed
  over. It is inspected again later; `WatchlistDrains` still holds. The pop at
  `main.py:181` is its twin: the second of two restored positions waits for the
  acknowledgement of the first sell, against the comment at
  `reporter/reporter.py:58`.
- An order that names a signer that is not configured is not rejected:
  `idx` is left at the last account (`buysell_executor.py:289`), so line 313 is
  unreachable and the transaction calls a bot that its signer does not own.
  `SignedByOwner` is checked with positions of configured signers.
- A database exception in `handle_create_bot` (`bot_factory.py:125`) loses the
  creation order, and with `DbMayFail` an account may stay without a bot for
  ever (`RenewalUnderWay` fails). A failure that could not be saved
  (`bot_factory.py:144`), or that happens before the account has its first bot
  (`buysell_executor.py:164`, a restored position), leaves the failed bot to be
  found again (`FailedBotRetired` fails).
- A sell whose report is lost in a crash is repeated after the restart: its row
  is still open (`SoldStaysSold` begins with the stored report). A restored
  position is real, whatever its row says of paper (`reporter.py:45`).
- A row inserted over the turn of an hour is counted in one hour and recomputed
  in another (`reporter.py:136-158`): `Blurred` excepts it from `StatsAgree`.
- A refusal of the explorer has status 0, which every check of the inspector
  reads as "nothing found" (`pair_inspector.py:161`): without an answer the pair
  goes on. `CallsNoticed` therefore speaks of inspections that were answered.
- A creator frozen again more than 90 days after it was first listed is not
  seen: `created_at` is not renewed (`reporter.py:241-254`). `Frozen` says so.
- The minimum that `buy` of the contract demands is computed from the reserves
  at its execution, not when the order was sent (`SnipeBot.sol`): it bounds the
  fee, not the slippage.

- An account named again in `fund_executor` is paid again, also while its earlier
  transfer is pending: the new one queues behind it (`PaidAsAsked` counts the
  requests). A deployment while a transfer of the manager is pending may displace
  it (`bot_factory.py:58`); its account is then not paid, which only the receipt
  that never came has told (`TransfersQueue`). A withdrawal
  from an account with less than the reserve computes a negative value, and one
  while gas costs more than the 2 gwei of the reserve lacks the money; either
  raises, and the rest of the list is left (`bootstrap.py:79-102`).

Facts the properties state and a reader may not expect: an order that the
executor loses keeps its slot for good (`lost` in `SlotAccounting`), restored
positions give back slots they never took, so that as many pairs more than the
capacity may be held (`restored` in `CapacityRespected`), and the reserves of a
tracked pair may be ahead of the head that is being handled, or go back to it
(`ReservesCurrent`).

## 5. What is proved

Every theorem holds for any sets of pairs, accounts and bots, any capacities and
thresholds and any list of restored positions, from the named assumptions on the
constants and the hypotheses named below.

**The main process** (`TradingSystemProofs`, `SafetyProofs`).

- **TypeCorrect.** `TypeOK` is inductive by itself. Its content is that no list
  is indexed beyond its end while it is popped, that messages built in one
  process have the fields the other reads, and that an answer names a known
  account and bot. One lemma per task; the sequence facts are in `QueueLemmas`.
- **SlotsAccountedFor, CapacityIsRespected.** `SlotInv` adds
  `glb_fullfilled <= INVENTORY_CAPACITY` to `TypeOK /\ SlotAccounting`:
  `CapacityRespected` by itself says nothing of the counter that guards a buy,
  and the accounting equation carries the bound from the counter to the
  commitments. The effect lemmas (`PassEffect`, `AckEffect`, `ControlEffect`,
  `QuietEffect`, `ExecutorEffect`) reduce each task to what it does to the four
  places of a commitment; `SlotStep` is then arithmetic.
- **LockIsHeldForASell.** `LockHeldForASell` is inductive with `TypeOK`: the
  lock is closed by the step that sends a sell, orders leave the queue only for
  a thread or as lost buys, an answer has the direction of its order, and the
  acknowledgement of any sell opens the lock.
- **PairIsInOnePlace.** `PairInOnePlace` speaks of five places; to be inductive
  it needs all nine a pair passes through (`Place`): not yet announced, told by
  the watcher, pending in the pass, watched, ordered, executed, answered, held,
  and on the way back from the database. `PlaceInv` says that they are disjoint and
  that no list has a pair twice; each step only moves pairs (`MoveKeepsApart`).
- **AmountStaysInRange.** `AmountInv` is the property and the types; with a win,
  a loss and a reset as cases of integer arithmetic.
- **BuysOnlyWhileRunning.** After the hard stop `glb_auto_run` stays false, and
  `RunInv` says that a pass that inspects, purges or admits has passed the test of
  `main.py:196-203` and still would: no acknowledgement is handled until it ends.
- **BuysAfterProbation.** `ProbationInv` adds to `PlaceInv` that a watched pair
  has attempts left and that an inspected one is due, so its age is at least the
  intervals behind it.
- **DryRunIsOnPaper.** From three hypotheses (`DryRun`): the mode is paper,
  there is more than one inspection, and what is restored is on paper (which the
  code never does, so: nothing is restored). The run `dry_run_live` shows that
  the second is needed. Paper is then passed on from order to answer to position to sell.
- **TracksNothingElse, TracksEverythingHeld.** The properties hold when the
  watcher has read its notices; between them the induction looks at what the
  watcher *will* track when it has read the notices in its queue (`Tracks`),
  which every step keeps or moves with the inventory.

**The database** (`RecoveryProofs`). `StepIsTrading` shows that every step but
a restart is a step of the trading system or one it does not see, so that the
lemmas above are used again; a restart needs lemmas of its own, from the rows to
the restored positions. The one assumption about constants is that `None` is
no row and no save.

- **RecoveryTypeSafe.** With the types, `RecoveryTypeInv` says that finitely
  many pairs have a row; the sum over them is the statistics.
- **SoldForGood.** `SoldInv`: a pair whose sell is stored is in no place any
  more, not even on the way back, and whatever is stored or reported was
  announced, so nothing announces it again.
- **HeldCanBeRestored.** `StoredInv` follows the report of a buy from the queue
  through the queries of its save to the row; a save that raised is in `torn`.
- **FrozenForCause.** `FrozenInv`: a sell is reported once, and the report that
  freezes a creator stands behind that of its failed sell in the FIFO queue, so
  the row is closed before the creator is frozen.
- **StatisticsAgree.** `HeardInv` first: the report of a sell comes after that of
  its buy, so a sell finds its row. Then `StatsInv`: the statistics of an hour
  agree with its rows, or the save that is under way counts that hour next.

**The executor** (`ExecutionProofs`), whatever of the node, the database and the
transactions fails, unless a hypothesis is named:

- **ExecutionTypeCorrect.** `Spec => []TypeOK`.
- **ExecutionImplementsAbstract.** `Spec => Implements`: every step of the
  detailed executor is a step of `AbstractExecutor` or leaves it as it is, with
  `taken` the numbers and orders of the jobs not yet answered (`Taken`). So what
  is proved of `TradingSystem`, which has the abstract executor in the
  executor's place, does not rest on a guess about the threads.
- **BotsAreRenewed.** `Spec => []RenewalUnderWay` if the database answers
  (`~ DbMayFail`); without that assumption it is false, the factory drops an
  order it cannot look up.
- **HeldIsBacked.** From one open position per pair at the start (what
  `SoldForGood` and the rows of `Reporter` give), a real position names the contract that has its tokens.
- **FailedBuysAreOver.** From the same, no call to the node that raises, and
  `RECEIPT_TIMEOUT >= DEADLINE_DELAY_SECONDS`: a buy acknowledged as failed buys
  nothing afterwards. The run `late_buy` shows that the second is needed; web3's
  120 s and the code's 30 s give the third.
- **OwnersSign.** If stored rows and open positions name bots with the owners
  they have (`BotsHaveOwners`), every transaction is signed by the owner of the bot
  it calls. Without it the last account signs (`buysell_executor.py:289`).

`TypeOK` is not inductive: that a thread signs with a contract and not with
`None`, and puts a status and not `None` into an acknowledgement, depends on the
phase it is in. `IInv` adds what a job knows in each phase (`JobOK`), that
orders name both signer and bot or neither (`Shaped`: what `DropOrder` and
`StartRaises` lose is a buy), and that no two jobs have the same number (an
answer takes away one order of the abstract executor, not two equal ones).
`ThreadsAnswer` sorts the fourteen steps of a thread into those the main process
does not see, those that answer and those that lose a buy; the invariant and
the refinement are both proved from these three kinds. `RenewalUnderWay` is then
inductive with `IInv`.

The other three look inside a call, so `KindsOfSteps` sorts the same steps by
what they do on the chain: a job begins, asks, sends, settles with a status, or
leaves. `StageInv` says that a pair is in one stage (untraded, ordered, worked
on, reported, held, done), `LinkInv` that a job, its transaction and its receipt
share a number that no other has. On these stand `TokenInv` (a buy that was
carried out has its tokens until a sell of the same pair is), `FailInv` (a
failed buy has no transaction that can still succeed: it is reverted, refused or
late) and, beside them, `OwnInv` (jobs, accounts, rows and results name bots
with the owners they have).

**One account** (`ExecutionProofs`). `EXECUTION_KEYS` may list several keys, but two
promises of the executor are only kept with one (`OneAccount`: one key, hence one
thread) and a database that answers (`~ DbMayFail`: a lost order is never booked).
With two threads TLC finds both broken: a thread that has told the factory of a sell
of the old bot counts it on the new one, if another thread gave the old one up in
between (lines 165-172); and a buy starts with a bot whose failed sell another thread
has acknowledged and not yet counted (lines 143-177).

- **BooksOfOneAccountAgree.** `BooksAgree` speaks of the moment when nothing is
  under way; the induction needs all others. A row is compared as it *will* be
  when the factory has worked off its queue (`DueNumber`, `DueFailed`), and the
  account as it will be when the running job has counted its sell (`InStep`).
  `OwnBooks` says that these agree, that every order in the queue is about the
  present bot, and that the bot is worn out exactly while a job is about to
  give it up. Without a bot, `Renewal`: there is exactly one request for a new
  one, and it is in the job that makes it, last in the queue, or answered with
  a row that is fit for use. `OneThread` says that all calls but one wait.
  A number of uses in a queue is the cardinality of a set of indices
  (`IndicesOf`); `TailIndices` and `AppendIndices` in `QueueLemmas` say what a
  step of the queue does to it.
- **FailedBotsAreRetired.** `RetireInv` adds to these books what becomes of the bots that
  are *not* present: every bot that a position, an order, a job or an
  acknowledgement names is either the present one or `Retired` (its row will
  be worn out when the queue is worked off), so the factory will not find it
  again; if a sell of the present bot has failed, the only thread is on its way to
  give it up; and no running buy uses a bot that failed. The third hypothesis,
  `RestoredBotsRetired`, is about the database at the start: no address has two
  rows (which `console/models.py:136` demands) and the bots of open positions
  are worn out, or belong to accounts that are not configured any more. It cannot be
  dropped: if the sell of a restored position fails before the factory has answered,
  nobody counts it (`buysell_executor.py:164`), and the answer may be the same bot.

**The bootstrap script** (`BootstrapProofs`), for any list of accounts, calls and fees; the
treasury and the factory are not among the accounts.

- **NobodyPaidTwice.** `PaidInv` counts, for each account, its transfers, pending or mined,
  and the places of the running call that name it and have not been paid; both together
  do not exceed what was asked. A transfer takes the place it pays out of the second
  set, and a call that gives up only shrinks it.
- **TransfersQueue.** What was sent stays pending until it is mined, whatever
  transfers follow it; only a deployment displaces a transaction, the manager's
  next one. `QueueInv` says that the nonces of what an account has pending are
  different and below its 'pending' count; mining the next one lowers the number
  of those pending by one and raises the nonce by one.
- **CallsGoInOrder.** `OrderInv` says that what was sent has the number of a call that was
  made, and that the running call has everything before its place mined and
  nothing behind it sent.

**The discovery.**
`DiscoveryProofs` proves every property of the run `discovery`, for any pairs,
creators, pools, thresholds, page sizes and times, whatever heads are lost and
whatever calls fail:

- **DiscoveryTypeCorrect**, **CreatorIsVetted**, **CallsAreNoticed**,
  **OrdersWereTradable**, **LossIsBounded** follow from one invariant, `IInv`.
  Beside the types it says that every pair that is announced, listed or
  acknowledged exists on the chain (`Known`), that pairs stay, that a listed
  pair was last inspected no later than it was listed (which is why a question
  that was not answered is asked again over the same range), and of each inspection
  what the phases behind it have established (`Vetted`): the creator was not
  frozen as of the inspected head, the answered questions found nothing, the
  heights of the two simulated calls and that they succeeded there. `ThreadStep`
  is the induction step of one inspection, `VettedWhenMined` its stability
  under a new block.
- *The page.* `PageHoldsAll`: a page of the latest calls of a range shows each of them
  if the whole chain fits in it.
- *The loss.* `RoundTripIsBetter` (in `SnipeBotProofs`): the tokens of a buy sold back
  to the pool the buy has moved pay at least what the simulation sees, which
  sells them to the pool as it was. It is non-linear integer arithmetic with
  three divisions, so it is cut into lemmas on quotients (`QuotientMonotonic`,
  `QuotientAtMost`, ...) whose leaves the SMT solver can do.
- **ReservesAreCurrent.** `ReservesCurrent` is inductive with `IInv`: between
  two heads a pair without a Sync event has the same reserves
  (`NoSyncSameReserves`). The induction over blocks that this needs is by the
  least counterexample (`LeastNumber`, from the well-foundedness of strict
  inclusion on finite sets), since the induction theorems of the library take
  an operator as a parameter.
- **WatcherIsBlockWatcher.** `Spec => WatcherImplements`. An abstract head is
  the moment of pickling: a real head stutters. The invariant adds that no pair
  is announced in two blocks of the buffer (`Disjoint`), so that the pairs a
  pickled block announces are new to the abstract watcher, and that buffer and
  queue together respect `MaxBacklog`.

**Only model-checked.** Everything under fairness (`LockReleased`, `WatchlistDrains`,
`EventuallyFlat`, `AccountGetsBot`, `EveryOrderSettles`, `EveryPositionClosed`),
which is out of the prover's reach and stays with TLC; and the four violations of
section 4, which are counterexamples.

## 6. Plan

Every safety property of a passing run is checked by TLC on an instance and
proved for all of them. What could be added:

1. The investment as a field of a position, and what the PnL booked at an
   acknowledgement (`main.py:397`) has to do with it.
2. The books of several accounts. They agree only up to what the threads count on
   each other's bots, and it would have to be said first what the code promises.
3. Tokens with a fee on transfers in `SnipeBot`, and reorganisations in `Market`.

## 7. What is not modelled

The Ethereum node beyond what `Chain` and `Market` need and the encoding of
calls; tokens with a fee on transfers, and reorganisations of the chain, which
the code does not handle; gas tips, whose value no decision reads; the rows of
blocks, transactions and position_transactions, which only the console reads;
Django's admin, views and migrations (declarations and display); `filter_swap_log`,
`is_holding`, `inspect_transfer` and `inspect_token_by_transfer`, which the
running bot does not reach; settings and supervision (but for the restarts of `Recovery`); the clone factory in
assembly; `BootstrapBot.sol`; the second simulator (`revm_simulator.py`) and the
REVM experiment, which are not wired in; vendored Solidity libraries.
`PROJECT.json` gives the reason per component.
