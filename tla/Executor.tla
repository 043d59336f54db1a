------------------------------ MODULE Executor ------------------------------
(***************************************************************************)
(* The executor process (executor/buysell_executor.py): two tasks of an    *)
(* event loop, handle_execution_order and handle_bot_result, beside the    *)
(* one of BotFactory, and a pool with as many threads as there are         *)
(* accounts.  AbstractExecutor is what it promises the main process.       *)
(*                                                                         *)
(* The threads and the event loop share the accounts without a lock.  They *)
(* switch where CPython 3.11, the version the README asks for, lets them:  *)
(* at calls.  What lies between two calls is one step, so lines 166-175,   *)
(* which make none, are.                                                   *)
(***************************************************************************)
EXTENDS BotFactory

CONSTANT Keys    \* the accounts in the order of EXECUTION_KEYS

ASSUME ExecutorAssumption ==
    /\ Keys \in Seq(Accounts)
    /\ IsInjective(Keys)
    /\ Accounts = ToSet(Keys)
    /\ Accounts # {}

VARIABLES
    counter,    \* how many orders were received
    lost,       \* how many of them will never be answered
    jobs,       \* the calls of execute and execute_paper that have not returned
    bot_of      \* accounts[idx].bot

threadVars == <<counter, lost, jobs, bot_of>>

\* The queues of the main process that the executor has nothing to do with.
otherQueues == <<watching_broker, watching_notifier, report_broker, control_receiver>>

\* "nonce", "send" and "wait" are the calls to the node; "check" and what follows
\* is the update of the bot's status, after the acknowledgement.
FaultyChainPhases == {"nonce", "send", "wait", "check"}
ChainPhases == {"nonce", "send", "wait"}
TailPhases == {"check", "count", "replace", "request"}

Job ==
    [n: Nat, order: ExecutionOrder, account: Accounts,
     phase: {"queued", "simulate"} \cup ChainPhases \cup TailPhases,
     bot: Bots \cup {None}, nonce: Nat, status: TxStatus \cup {None}]

ThreadsTypeOK ==
    /\ counter \in Nat
    /\ lost \in Nat
    /\ jobs \subseteq Job
    /\ bot_of \in [Accounts -> BotRow \cup {None}]

ThreadsInit ==
    /\ counter = 0
    /\ lost = 0
    /\ jobs = {}
    /\ bot_of = [a \in Accounts |-> None]

-----------------------------------------------------------------------------
(* handle_execution_order: which account an order goes to.                 *)

\* A signer that is not found leaves idx at the last account.
FaultyAccountFor(order) == Keys[(counter % Len(Keys)) + 1]
AccountFor(order) ==
    IF order.signer = None THEN Keys[(counter % Len(Keys)) + 1]
    ELSE IF order.signer \in Accounts THEN order.signer
    ELSE Last(Keys)

ReceiveOrder ==
    /\ execution_broker # <<>>
    /\ execution_broker' = Tail(execution_broker)
    /\ counter' = counter + 1
    /\ UNCHANGED <<otherQueues, execution_report, bot_of, factoryVars, chainVars>>

HasBot(account) == bot_of[account] # None

Submit ==
    /\ ReceiveOrder
    /\ LET order == Head(execution_broker) IN
       /\ order.signer # None \/ HasBot(AccountFor(order))
       /\ jobs' = jobs \cup
             {[n |-> counter + 1, order |-> order, account |-> AccountFor(order),
               phase |-> "queued", bot |-> None, nonce |-> 0, status |-> None]}
    /\ UNCHANGED lost

DropOrder ==
    /\ ReceiveOrder
    /\ Head(execution_broker).signer = None
    /\ ~ HasBot(AccountFor(Head(execution_broker)))
    /\ lost' = lost + 1
    /\ UNCHANGED jobs

-----------------------------------------------------------------------------
(* The threads.                                                            *)

Becomes(j, next) == jobs' = (jobs \ {j}) \cup {next}
Goes(j, phase) == Becomes(j, [j EXCEPT !.phase = phase])
Returns(j) == jobs' = jobs \ {j}

\* Everything but jobs and the variables of the accounts and the chain.
ThreadStep ==
    UNCHANGED <<execution_broker, otherQueues, counter, bot_result_broker, rows>>

Queued == {j \in jobs : j.phase = "queued"}

\* ThreadPoolExecutor starts its calls in the order they were submitted.
MayStart(j) ==
    /\ j \in Queued
    /\ Cardinality(jobs \ Queued) < Len(Keys)
    /\ \A k \in Queued : j.n <= k.n

\* The bot of a buy is read here, and need not be the one the order was
\* submitted for.
Start(j) ==
    /\ MayStart(j)
    /\ j.order.bot # None \/ HasBot(j.account)
    /\ Becomes(j, [j EXCEPT
          !.phase = IF j.order.is_paper THEN "simulate" ELSE "nonce",
          !.bot = IF j.order.bot # None THEN j.order.bot
                  ELSE bot_of[j.account].address])
    /\ UNCHANGED <<execution_report, lost, bot_of, bot_order_broker, chainVars>>
    /\ ThreadStep

\* None has no address, and the try block is still to come.
StartRaises(j) ==
    /\ MayStart(j)
    /\ j.order.bot = None /\ ~ HasBot(j.account)
    /\ Returns(j)
    /\ lost' = lost + 1
    /\ UNCHANGED <<execution_report, bot_of, bot_order_broker, chainVars>>
    /\ ThreadStep

FaultyAck(j, status) ==
    [pair |-> j.order.pair, tx_status |-> status, is_buy |-> j.order.is_buy,
     signer |-> j.account,
     bot |-> IF HasBot(j.account) THEN bot_of[j.account].address ELSE j.bot,
     is_paper |-> j.order.is_paper]
Ack(j, status) ==
    [pair |-> j.order.pair, tx_status |-> status, is_buy |-> j.order.is_buy,
     signer |-> j.account, bot |-> j.bot, is_paper |-> j.order.is_paper]

\* The call to the simulator catches what it raises.
Simulate(j) ==
    /\ j.phase = "simulate"
    /\ \E status \in TxStatus :
          execution_report' = Append(execution_report, Ack(j, status))
    /\ Returns(j)
    /\ UNCHANGED <<lost, bot_of, bot_order_broker, chainVars>>
    /\ ThreadStep

GetNonce(j) ==
    /\ j.phase = "nonce"
    /\ Becomes(j, [j EXCEPT !.phase = "send", !.nonce = next_nonce[j.account]])
    /\ UNCHANGED <<execution_report, lost, bot_of, bot_order_broker, chainVars>>
    /\ ThreadStep

\* execute puts the acknowledgement, from its end or from its except clause, and
\* goes on with the status of the bot.
Acknowledge(j, status) ==
    /\ execution_report' = Append(execution_report, Ack(j, status))
    /\ Becomes(j, [j EXCEPT !.phase = "check", !.status = status])
    /\ UNCHANGED <<lost, bot_of, bot_order_broker>>
    /\ ThreadStep

TxOf(j) ==
    [n |-> j.n, signer |-> j.account, nonce |-> j.nonce, bot |-> j.bot,
     pair |-> j.order.pair, is_buy |-> j.order.is_buy, late |-> FALSE]

Send(j) ==
    /\ j.phase = "send"
    /\ Accept(TxOf(j))
    /\ Goes(j, "wait")
    /\ UNCHANGED <<execution_report, lost, bot_of, bot_order_broker>>
    /\ ThreadStep

SendRefused(j) ==
    /\ j.phase = "send"
    /\ Refuses(TxOf(j))
    /\ Acknowledge(j, "FAILED")
    /\ UNCHANGED chainVars

GetReceipt(j) ==
    /\ j.phase = "wait"
    /\ \E receipt \in receipts :
          receipt.n = j.n /\ Acknowledge(j, receipt.status)
    /\ UNCHANGED chainVars

Mined(n) == \E receipt \in receipts : receipt.n = n

FaultyTimesOut(j) == j.phase = "wait" /\ Mined(j.n)
TimesOut(j) == j.phase = "wait" /\ ~ Mined(j.n)

\* The transaction stays where it is.
Timeout(j) ==
    /\ TimesOut(j)
    /\ Acknowledge(j, "FAILED")
    /\ Expire(j.n)
    /\ UNCHANGED <<bot_owner, next_nonce, receipts, tokens>>

\* A call to the node raises; if it is the sending, the node may have accepted
\* the transaction.
NodeRaises(j) ==
    /\ NodeMayFail
    /\ j.phase \in ChainPhases
    /\ Acknowledge(j, "FAILED")
    /\ \/ UNCHANGED chainVars
       \/ j.phase = "send" /\ Accept(TxOf(j))

-----------------------------------------------------------------------------
(* The tail of execute: the status of the account's present bot.           *)

TailStep(j) ==
    /\ j \in jobs
    /\ UNCHANGED <<execution_report, lost, chainVars>>
    /\ ThreadStep

\* The thread ends with the tail if the account has no bot, or with an exception
\* if it has lost it since.
NoBotLeft(j) ==
    /\ j.phase \in {"check", "count"}
    /\ ~ HasBot(j.account)
    /\ Returns(j)
    /\ UNCHANGED <<bot_of, bot_order_broker>>
    /\ TailStep(j)

TellFactory(j) ==
    /\ j.phase = "check"
    /\ HasBot(j.account)
    /\ bot_order_broker' =
          Append(bot_order_broker,
                 BotUpdateOrder(bot_of[j.account].address, Ack(j, j.status)))
    /\ IF j.order.is_buy THEN Returns(j) ELSE Goes(j, "count")
    /\ UNCHANGED bot_of
    /\ TailStep(j)

FaultyUsed(bot, tx_status) == [bot EXCEPT !.number_used = @ + 1]
Used(bot, tx_status) ==
    [bot EXCEPT !.number_used = @ + 1,
                !.is_failed = @ \/ tx_status # "SUCCESS"]

CountUse(j) ==
    /\ j.phase = "count"
    /\ HasBot(j.account)
    /\ bot_of' = [bot_of EXCEPT ![j.account] = Used(@, j.status)]
    /\ IF WornOut(bot_of'[j.account]) THEN Goes(j, "replace") ELSE Returns(j)
    /\ UNCHANGED bot_order_broker
    /\ TailStep(j)

ReplaceBot(j) ==
    /\ j.phase = "replace"
    /\ bot_of' = [bot_of EXCEPT ![j.account] = None]
    /\ Goes(j, "request")
    /\ UNCHANGED bot_order_broker
    /\ TailStep(j)

RequestBot(j) ==
    /\ j.phase = "request"
    /\ bot_order_broker' = Append(bot_order_broker, BotCreationOrder(j.account))
    /\ Returns(j)
    /\ UNCHANGED bot_of
    /\ TailStep(j)

\* Every call to the node returns an answer.
Proceeds(j) ==
    \/ Start(j) \/ StartRaises(j)
    \/ Simulate(j)
    \/ GetNonce(j) \/ Send(j) \/ SendRefused(j)
    \/ GetReceipt(j) \/ Timeout(j)
    \/ NoBotLeft(j) \/ TellFactory(j) \/ CountUse(j)
    \/ ReplaceBot(j) \/ RequestBot(j)

Execute(j) == Proceeds(j) \/ NodeRaises(j)

-----------------------------------------------------------------------------
(* handle_bot_result: a result goes to the accounts of its owner that need *)
(* a bot.                                                                  *)

NeedsBot(account) == IF HasBot(account) THEN WornOut(bot_of[account]) ELSE TRUE

FaultyWants(account, result) == NeedsBot(account)
Wants(account, result) == NeedsBot(account) /\ account = result.owner

AssignBot ==
    /\ bot_result_broker # <<>>
    /\ bot_result_broker' = Tail(bot_result_broker)
    /\ LET result == Head(bot_result_broker) IN
       bot_of' = [a \in Accounts |-> IF Wants(a, result) THEN result ELSE bot_of[a]]
    /\ UNCHANGED <<queues, counter, lost, jobs, bot_order_broker, rows, chainVars>>

OrderTask == Submit \/ DropOrder

FactoryTask == FactoryNext /\ UNCHANGED <<queues, threadVars>>
=============================================================================
