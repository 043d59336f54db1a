--------------------------- MODULE ExecutionSystem ---------------------------
(***************************************************************************)
(* The executor process, the bot factory and the chain at work, driven by  *)
(* as much of the main process as the executor sees of it: buys while      *)
(* there are slots, sells of positions that were acknowledged or restored. *)
(* When a position is sold is left open, and every pair is bought once.    *)
(***************************************************************************)
EXTENDS Executor

CONSTANTS
    INVENTORY_CAPACITY,
    Paper,           \* the values that is_paper may take in an order
    OpenPositions    \* the positions restored from the database

ASSUME ExecutionSystemAssumption ==
    /\ INVENTORY_CAPACITY \in Nat
    /\ Paper \subseteq BOOLEAN
    /\ OpenPositions \subseteq Position

VARIABLES
    glb_inventory,   \* the positions, in no order
    glb_fullfilled,
    untraded,        \* the pairs that were never bought
    acked            \* every acknowledgement that was sent, a history variable

clientVars == <<glb_inventory, glb_fullfilled, untraded, acked>>

vars == <<queues, chainVars, factoryVars, threadVars, clientVars>>

StoredOwner(bot) ==
    LET stored == {i \in DOMAIN rows : rows[i].address = bot}
        holding == {p \in OpenPositions : p.bot = bot}
    IN IF stored # {} THEN rows[Min(stored)].owner
       ELSE IF holding # {} THEN (CHOOSE p \in holding : TRUE).signer
       ELSE None

\* Every account asks for a bot (buysell_executor.py:58-59).
Init ==
    /\ watching_broker = <<>> /\ watching_notifier = <<>>
    /\ execution_broker = <<>> /\ execution_report = <<>>
    /\ report_broker = <<>> /\ control_receiver = <<>>
    /\ ThreadsInit
    /\ rows = StoredBots
    /\ bot_order_broker = [i \in DOMAIN Keys |-> BotCreationOrder(Keys[i])]
    /\ bot_result_broker = <<>>
    /\ bot_owner = [b \in Bots |-> StoredOwner(b)]
    /\ next_nonce = [a \in Accounts |-> 0]
    /\ mempool = {}
    /\ receipts = {}
    /\ tokens = {<<p.bot, p.pair>> : p \in OpenPositions}
    /\ glb_inventory = OpenPositions
    /\ glb_fullfilled = 0
    /\ untraded = Pairs \ {p.pair : p \in OpenPositions}
    /\ acked = {}

-----------------------------------------------------------------------------
\* The main process does not touch the executor's state.
MainStep ==
    UNCHANGED <<otherQueues, chainVars, factoryVars, threadVars, acked>>

SendBuy(pair, is_paper) ==
    /\ pair \in untraded
    /\ glb_fullfilled < INVENTORY_CAPACITY
    /\ untraded' = untraded \ {pair}
    /\ glb_fullfilled' = glb_fullfilled + 1
    /\ execution_broker' = Append(execution_broker, BuyOrder(pair, is_paper))
    /\ UNCHANGED <<execution_report, glb_inventory>>
    /\ MainStep

SendSell(position) ==
    /\ position \in glb_inventory
    /\ glb_inventory' = glb_inventory \ {position}
    /\ execution_broker' = Append(execution_broker, SellOrder(position))
    /\ UNCHANGED <<execution_report, glb_fullfilled, untraded>>
    /\ MainStep

HandleAck ==
    /\ execution_report # <<>>
    /\ execution_report' = Tail(execution_report)
    /\ LET ack == Head(execution_report) IN
       IF ack.is_buy /\ ack.tx_status = "SUCCESS"
       THEN /\ glb_inventory' = glb_inventory \cup {NewPosition(ack)}
            /\ UNCHANGED glb_fullfilled
       ELSE /\ glb_fullfilled' = glb_fullfilled - 1
            /\ UNCHANGED glb_inventory
    /\ UNCHANGED <<execution_broker, untraded>>
    /\ MainStep

ClientNext ==
    \/ \E p \in Pairs, is_paper \in Paper : SendBuy(p, is_paper)
    \/ \E position \in glb_inventory : SendSell(position)
    \/ HandleAck

\* The history is brought up to date by whoever acknowledges.
ExecutorProcess(A) ==
    /\ A
    /\ acked' = acked \cup ToSet(execution_report')
    /\ UNCHANGED <<glb_inventory, glb_fullfilled, untraded>>

MineTransaction ==
    /\ \E tx \in mempool : Mine(tx)
    /\ UNCHANGED <<queues, factoryVars, threadVars>>

Next ==
    \/ ClientNext
    \/ ExecutorProcess(OrderTask)
    \/ ExecutorProcess(\E j \in jobs : Execute(j))
    \/ ExecutorProcess(AssignBot)
    \/ ExecutorProcess(FactoryTask)
    \/ ExecutorProcess(MineTransaction)

Spec == Init /\ [][Next]_vars

\* Every pair is bought and sold at most once.
MaxOrders == 2 * Cardinality(Pairs)

(***************************************************************************)
(* Fairness.  The event loop gives every task that can run its turn, and   *)
(* the operating system every thread: a call to the database or to the     *)
(* simulator returns or raises, a call to the node returns or times out,   *)
(* and need not raise.  The main process reads its acknowledgements.       *)
(* Deploying a bot does not fail for ever.                                 *)
(* Nothing is assumed of the blocks: a transaction may stay pending.       *)
(***************************************************************************)
Fairness ==
    /\ WF_vars(ExecutorProcess(OrderTask))
    /\ WF_vars(ExecutorProcess(AssignBot))
    /\ WF_vars(ExecutorProcess(FactoryTask))
    /\ \A a \in Accounts :
          SF_vars(ExecutorProcess(/\ \E b \in Bots : CreateBot(b, a)
                                  /\ UNCHANGED <<queues, threadVars>>))
    /\ \A n \in 1 .. MaxOrders :
          WF_vars(ExecutorProcess(\E j \in jobs : j.n = n /\ Proceeds(j)))
    /\ WF_vars(HandleAck)

FairSpec == Spec /\ Fairness

-----------------------------------------------------------------------------
TypeOK ==
    /\ QueuesTypeOK
    /\ ChainTypeOK
    /\ FactoryTypeOK
    /\ ThreadsTypeOK
    /\ glb_inventory \subseteq Position
    /\ glb_fullfilled \in Int
    /\ untraded \subseteq Pairs
    /\ acked \subseteq ExecutionAck

\* The orders that a thread has and has not answered.
Unanswered == {j \in jobs : j.phase \notin TailPhases}
Numbered(j) == [n |-> j.n, order |-> j.order]
Taken == {Numbered(j) : j \in Unanswered}

Abs == INSTANCE AbstractExecutor WITH taken <- Taken

\* Threads, nonces, bots, timeouts and the pool keep what AbstractExecutor
\* promises: orders are taken in order and answered at most once, by the right
\* account and bot, and only buys are ever lost (buysell_executor.py:69-311).
Implements == Abs!AbstractSpec

SellOrders(orders) == {o \in orders : ~ o.is_buy}

PendingSells ==
    SellOrders(ToSet(execution_broker) \cup {j.order : j \in {k \in jobs : k.phase = "queued"}})

\* A position, or the order that sells it, names the contract that does hold the
\* tokens: the bot that bought, whatever bot the account has by now
\* (buysell_executor.py:91, 139, 164).
PositionsHaveTokens ==
    \A holding \in glb_inventory \cup PendingSells :
        ~ holding.is_paper => <<holding.bot, holding.pair>> \in tokens

\* A buy that is acknowledged as failed is not carried out afterwards: its slot
\* is free and nobody would ever sell what it bought.  The deadline in the
\* transaction sees to that (main.py:408-411, buysell_executor.py:111, 147-161).
FailedBuysLeaveNothing ==
    \A ack \in acked :
        ack.is_buy /\ ack.tx_status = "FAILED" /\ ~ ack.is_paper
            => \A b \in Bots : <<b, ack.pair>> \notin tokens

\* A transaction calls a bot that its signer owns, so none is sent just to be
\* turned away (SnipeBot.sol:21, buysell_executor.py:237).
SignedByOwner == \A tx \in mempool : bot_owner[tx.bot] = tx.signer

\* An account without a bot is about to get one: the creation order is on its
\* way, is being retried, or has been answered (buysell_executor.py:177-178,
\* bot_factory.py:122-124).
RenewalUnderWay ==
    \A a \in Accounts :
        \/ HasBot(a)
        \/ \E order \in ToSet(bot_order_broker) : order = BotCreationOrder(a)
        \/ \E bot \in ToSet(bot_result_broker) : bot.owner = a
        \/ \E j \in jobs : j.phase = "request" /\ j.account = a

\* Once a sell of a bot has failed nothing is bought with that bot any more, even
\* if the factory looks for a bot in the database again
\* (buysell_executor.py:171-178, bot_factory.py:93, 138-140).
FailedBotRetired ==
    [][\A tx \in mempool' \ mempool : tx.is_buy =>
          ~ \E ack \in acked : /\ ~ ack.is_buy /\ ~ ack.is_paper
                               /\ ack.tx_status = "FAILED"
                               /\ ack.bot = tx.bot]_vars

\* When nothing is under way, an account and the database agree on how often its
\* bot was used and whether it failed (buysell_executor.py:170-172,
\* bot_factory.py:137-140).
BooksAgree ==
    jobs = {} /\ bot_order_broker = <<>> /\ bot_result_broker = <<>>
        => \A a \in Accounts : HasBot(a) => bot_of[a] \in ToSet(rows)

\* A bot is given up because of its own sells: BOT_MAX_NUMBER_USED of them, or one
\* that failed (buysell_executor.py:175-177).
WornBotsReplaced ==
    [][\A a \in Accounts : HasBot(a) /\ bot_of'[a] = None =>
          LET own == {ack \in acked : /\ ~ ack.is_buy /\ ~ ack.is_paper
                                      /\ ack.bot = bot_of[a].address}
          IN \/ Cardinality(own) >= BOT_MAX_NUMBER_USED
             \/ \E ack \in own : ack.tx_status = "FAILED"]_vars

-----------------------------------------------------------------------------
\* A deployment may succeed without the factory's knowledge, and there are only
\* so many addresses in Bots.
NoAddressLeft == \A b \in Bots : bot_owner[b] # None

\* An account that loses its bot gets another one, so it does not drop its buys
\* for ever.
AccountGetsBot == \A a \in Accounts : ~ HasBot(a) ~> HasBot(a) \/ NoAddressLeft

\* Every order is dropped or carried through to the end of its thread, even if
\* its transaction is never mined.
EveryOrderSettles == []<>(execution_broker = <<>> /\ jobs = {})
=============================================================================
