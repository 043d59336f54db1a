------------------------------- MODULE Brokers -------------------------------
(***************************************************************************)
(* The six queues that main.py creates (main.py:341-346) and the messages  *)
(* that travel on them (data/data_struct.py).  Every other module of the   *)
(* trading system EXTENDS this one and so shares the queues.               *)
(*                                                                         *)
(* A queue is an AioQueue, a multiprocessing queue: unbounded, FIFO, its   *)
(* messages are pickled copies, and a put never blocks.                    *)
(*                                                                         *)
(* Amounts, prices, block numbers and hashes are left out of the messages. *)
(* What the other side decides from them is a choice where it is read.     *)
(***************************************************************************)
EXTENDS Integers, Sequences, FiniteSets

CONSTANTS
    Pairs,      \* the liquidity pairs the chain ever announces
    Accounts,   \* the signing accounts of EXECUTION_KEYS
    Signers,    \* every signer a message may name, old accounts included
    Bots,       \* the addresses of SnipeBot contracts
    None        \* Python's None

ASSUME BrokersAssumption ==
    /\ Accounts \subseteq Signers
    /\ None \notin Signers /\ None \notin Bots

TxStatus == {"FAILED", "SUCCESS"}

\* A new head: the pairs created in it and the pairs the watcher tracks.
BlockData == [pairs: SUBSET Pairs, inventory: SUBSET Pairs]

ExecutionOrder ==
    [pair: Pairs, is_buy: BOOLEAN, signer: Signers \cup {None},
     bot: Bots \cup {None}, is_paper: BOOLEAN]

ExecutionAck ==
    [pair: Pairs, tx_status: TxStatus, is_buy: BOOLEAN, signer: Signers,
     bot: Bots, is_paper: BOOLEAN]

\* age is block_timestamp - start_time, which is all the code reads of
\* start_time.
Position ==
    [pair: Pairs, signer: Signers, bot: Bots, is_paper: BOOLEAN, age: Nat]

\* ReportData: what the main process asks the reporter to store.
ReportData ==
    [type: {"BLOCK"}, pairs: SUBSET Pairs]
        \cup [type: {"EXECUTION"}, ack: ExecutionAck]
        \cup [type: {"BLACKLIST_ADDED"}, creator_of: Pairs]

\* The messages the main process builds, and the position it makes of a reply.
\* A definition named Faulty... (or Unsigned...) is a plausible mistake in the
\* definition that follows it.  Nothing uses it; putting it in the other's place
\* shows that a property notices.
BuyOrder(pair, is_paper) ==
    [pair |-> pair, is_buy |-> TRUE, signer |-> None, bot |-> None,
     is_paper |-> is_paper]

SellOrder(position) ==
    [pair |-> position.pair, is_buy |-> FALSE, signer |-> position.signer,
     bot |-> position.bot, is_paper |-> position.is_paper]

FaultyNewPosition(ack) ==
    [pair |-> ack.pair, signer |-> ack.signer, bot |-> ack.bot,
     is_paper |-> FALSE, age |-> 0]
UnsignedNewPosition(ack) ==
    [pair |-> ack.pair, signer |-> None, bot |-> ack.bot,
     is_paper |-> ack.is_paper, age |-> 0]
NewPosition(ack) ==
    [pair |-> ack.pair, signer |-> ack.signer, bot |-> ack.bot,
     is_paper |-> ack.is_paper, age |-> 0]

VARIABLES
    watching_broker,    \* BlockData, from the watcher to the strategy
    watching_notifier,  \* ExecutionAck, from the main process to the watcher
    execution_broker,   \* ExecutionOrder, from the strategy to the executor
    execution_report,   \* ExecutionAck, from the executor to the main process
    report_broker,      \* ReportData, from the main process to the reporter
    control_receiver    \* ControlOrder, from the reporter to the main process

queues == <<watching_broker, watching_notifier, execution_broker,
            execution_report, report_broker, control_receiver>>

\* The only ControlOrder there is, PENDING_POSITIONS, is its list of positions.
QueuesTypeOK ==
    /\ watching_broker \in Seq(BlockData)
    /\ watching_notifier \in Seq(ExecutionAck)
    /\ execution_broker \in Seq(ExecutionOrder)
    /\ execution_report \in Seq(ExecutionAck)
    /\ report_broker \in Seq(ReportData)
    /\ control_receiver \in Seq(Seq(Position))
=============================================================================
