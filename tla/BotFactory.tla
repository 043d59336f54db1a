----------------------------- MODULE BotFactory -----------------------------
(***************************************************************************)
(* The task of the executor process that provides the accounts with        *)
(* SnipeBot contracts (factory/bot_factory.py).  It takes orders from a    *)
(* queue, looks bots up in the database or deploys them, and sends them    *)
(* back on another queue.                                                  *)
(*                                                                         *)
(* A handler is one action, at the moment of its last effect: no other     *)
(* task reads or writes the rows, and create_bot blocks the event loop.    *)
(* is_holding is written and never read: it is left out.                   *)
(*                                                                         *)
(* A definition named Faulty... is a plausible mistake in the definition   *)
(* that follows it.  Nothing uses it; putting it in the other's place      *)
(* shows that a property notices.                                          *)
(***************************************************************************)
EXTENDS Chain, SequencesExt

CONSTANTS
    BOT_MAX_NUMBER_USED,
    DbMayFail,           \* may a query or a save raise?
    StoredBots           \* the rows at the start

\* A row of the table bot, which the Bot messages copy.
BotRow == [address: Bots, owner: Signers, number_used: Nat, is_failed: BOOLEAN]

ASSUME BotFactoryAssumption ==
    /\ BOT_MAX_NUMBER_USED \in Nat \ {0}
    /\ DbMayFail \in BOOLEAN
    /\ StoredBots \in Seq(BotRow)
    /\ None \notin BotRow

VARIABLES bot_order_broker, bot_result_broker, rows

factoryVars == <<bot_order_broker, bot_result_broker, rows>>

BotCreationOrder(account) == [type |-> "create", owner |-> account]

FaultyBotUpdateOrder(bot, ack) ==
    [type |-> "update", bot |-> bot, is_buy |-> FALSE,
     tx_status |-> ack.tx_status]
BotUpdateOrder(bot, ack) ==
    [type |-> "update", bot |-> bot, is_buy |-> ack.is_buy,
     tx_status |-> ack.tx_status]

BotOrder ==
    [type: {"create"}, owner: Accounts]
        \cup [type: {"update"}, bot: Bots, is_buy: BOOLEAN, tx_status: TxStatus]

FactoryTypeOK ==
    /\ bot_order_broker \in Seq(BotOrder)
    /\ bot_result_broker \in Seq(BotRow)
    /\ rows \in Seq(BotRow)

NewBot(address, owner) ==
    [address |-> address, owner |-> owner, number_used |-> 0, is_failed |-> FALSE]

WornOut(bot) == bot.number_used >= BOT_MAX_NUMBER_USED \/ bot.is_failed

\* What a sell does to a row; Executor does the same to its copy.
FaultyBooked(row, tx_status) == [row EXCEPT !.number_used = @ + 1]
Booked(row, tx_status) ==
    [row EXCEPT !.number_used = @ + 1,
                !.is_failed = @ \/ tx_status # "SUCCESS"]

Handles(type) ==
    /\ bot_order_broker # <<>>
    /\ Head(bot_order_broker).type = type

Available(owner) ==
    {i \in DOMAIN rows : rows[i].owner = owner /\ ~ WornOut(rows[i])}

\* handle_create_bot finds a row: afirst() takes the one with the least id.
FoundBot ==
    /\ Handles("create")
    /\ LET available == Available(Head(bot_order_broker).owner) IN
       /\ available # {}
       /\ bot_result_broker' = Append(bot_result_broker, rows[Min(available)])
    /\ bot_order_broker' = Tail(bot_order_broker)
    /\ UNCHANGED <<rows, chainVars>>

\* There is none, and create_bot deploys a contract at a fresh address.
Deploy(address, owner) ==
    /\ Handles("create")
    /\ Head(bot_order_broker).owner = owner
    /\ Available(owner) = {}
    /\ Create(address, owner)

CreateBot(address, owner) ==
    /\ Deploy(address, owner)
    /\ rows' = Append(rows, NewBot(address, owner))
    /\ bot_result_broker' = Append(bot_result_broker, NewBot(address, owner))
    /\ bot_order_broker' = Tail(bot_order_broker)

\* create_bot raises or its transaction reverts: the order joins the queue again
\* after RETRY_SLEEP_SECONDS.  The contract may be deployed all the same.
FaultyRetry == bot_order_broker' = Tail(bot_order_broker)
Retry == bot_order_broker' = Append(Tail(bot_order_broker), Head(bot_order_broker))

CreateBotFails ==
    /\ Handles("create")
    /\ \/ Available(Head(bot_order_broker).owner) = {} /\ UNCHANGED chainVars
       \/ /\ NodeMayFail
          /\ \E address \in Bots : Deploy(address, Head(bot_order_broker).owner)
    /\ Retry
    /\ UNCHANGED <<rows, bot_result_broker>>

\* handle_update_bot.  An address without a row is only logged.
UpdateBot ==
    /\ Handles("update")
    /\ LET order == Head(bot_order_broker) IN
       rows' = [i \in DOMAIN rows |->
                   IF rows[i].address = order.bot /\ ~ order.is_buy
                   THEN Booked(rows[i], order.tx_status)
                   ELSE rows[i]]
    /\ bot_order_broker' = Tail(bot_order_broker)
    /\ UNCHANGED <<bot_result_broker, chainVars>>

\* The query or the save raises: the order is gone.  If it was the save of a new
\* bot, its contract is deployed and nobody knows of it.
DatabaseRaises ==
    /\ DbMayFail
    /\ bot_order_broker # <<>>
    /\ bot_order_broker' = Tail(bot_order_broker)
    /\ \/ UNCHANGED chainVars
       \/ \E address \in Bots, owner \in Accounts : Deploy(address, owner)
    /\ UNCHANGED <<rows, bot_result_broker>>

FactoryNext ==
    \/ FoundBot
    \/ \E address \in Bots, owner \in Accounts : CreateBot(address, owner)
    \/ CreateBotFails
    \/ UpdateBot
    \/ DatabaseRaises
=============================================================================
