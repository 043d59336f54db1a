-------------------------- MODULE AbstractExecutor --------------------------
(***************************************************************************)
(* What the executor process promises the main process, whatever its       *)
(* threads, bots and transactions do in between:                           *)
(*                                                                         *)
(*   - it takes the orders in the order they were sent;                    *)
(*   - it answers an order at most once, with the pair, direction and      *)
(*     paper flag of the order;                                            *)
(*   - a sell order is always answered, by the bot it names;               *)
(*   - a buy order may be lost without an answer: it is dropped when the   *)
(*     account whose turn it is has no bot (buysell_executor.py:260,282),  *)
(*     and its thread dies before the try block when the bot is taken      *)
(*     away between that check and line 91.                                *)
(***************************************************************************)
EXTENDS Brokers

VARIABLES
    counter,   \* how many orders were received (buysell_executor.py:246)
    taken,     \* the orders handed to a thread and not yet answered
    lost       \* how many orders were lost without an answer

executorVars == <<counter, taken, lost>>

ExecutorTypeOK ==
    /\ counter \in Nat
    /\ lost \in Nat
    /\ IsFiniteSet(taken)
    /\ taken \subseteq [n: 1 .. counter, order: ExecutionOrder]

ExecutorInit ==
    /\ counter = 0
    /\ taken = {}
    /\ lost = 0

Receive ==
    /\ execution_broker # <<>>
    /\ execution_broker' = Tail(execution_broker)
    /\ counter' = counter + 1
    /\ UNCHANGED <<watching_broker, watching_notifier, execution_report,
                   report_broker, control_receiver>>

\* handle_execution_order submits the order to the thread pool.
Take ==
    /\ Receive
    /\ taken' = taken \cup {[n |-> counter + 1, order |-> Head(execution_broker)]}
    /\ UNCHANGED lost

\* handle_execution_order drops a buy order: its account has no bot.
Drop ==
    /\ Receive
    /\ Head(execution_broker).is_buy
    /\ lost' = lost + 1
    /\ UNCHANGED taken

\* The signer that answers: a buy is signed by the account whose turn it is, a
\* sell by the account it names, or by the last account if that is unknown.
MayAnswer(signer, order) ==
    /\ signer \in Accounts
    /\ order.signer \in Accounts => signer = order.signer

\* A buy uses the account's own bot, a sell the bot the order names.
Answer(t) ==
    /\ \E status \in TxStatus, signer \in Accounts, bot \in Bots :
          /\ MayAnswer(signer, t.order)
          /\ t.order.bot # None => bot = t.order.bot
          /\ execution_report' =
                Append(execution_report,
                       [pair |-> t.order.pair, tx_status |-> status,
                        is_buy |-> t.order.is_buy, signer |-> signer,
                        bot |-> bot, is_paper |-> t.order.is_paper])
    /\ taken' = taken \ {t}
    /\ UNCHANGED <<watching_broker, watching_notifier, execution_broker,
                   report_broker, control_receiver, counter, lost>>

\* The thread of a buy raises before its try block.
Vanish(t) ==
    /\ t.order.is_buy
    /\ taken' = taken \ {t}
    /\ lost' = lost + 1
    /\ UNCHANGED <<queues, counter>>

Settle(p) == \E t \in taken : t.order.pair = p /\ (Answer(t) \/ Vanish(t))

ExecutorNext == Take \/ Drop \/ \E p \in Pairs : Settle(p)

\* The other end of the queues: it sends orders and reads the answers.
MainProcess ==
    /\ UNCHANGED executorVars
    /\ \/ /\ \E order \in ExecutionOrder :
                execution_broker' = Append(execution_broker, order)
          /\ UNCHANGED execution_report
       \/ /\ execution_report # <<>>
          /\ execution_report' = Tail(execution_report)
          /\ UNCHANGED execution_broker

AbstractSpec ==
    /\ ExecutorInit
    /\ [][ExecutorNext \/ MainProcess]_<<execution_broker, execution_report, executorVars>>
=============================================================================
