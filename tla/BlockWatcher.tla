---------------------------- MODULE BlockWatcher ----------------------------
(***************************************************************************)
(* watcher/block_watcher.py: the two tasks of the main process that turn   *)
(* new heads into BlockData for the strategy, and that keep the list of    *)
(* the pairs whose reserves go with every block.                           *)
(*                                                                         *)
(* Heads the websocket loses while it reconnects, and pairs whose creation *)
(* log cannot be fetched, are pairs that are never announced.              *)
(***************************************************************************)
EXTENDS Brokers

CONSTANTS
    MaxBacklog,     \* bound of the model on the length of watching_broker
    RpcMayFail      \* whether get_reserves may raise

ASSUME BlockWatcherAssumption ==
    /\ MaxBacklog \in Nat \ {0}
    /\ RpcMayFail \in BOOLEAN

VARIABLES
    watch_inventory,    \* the addresses in BlockWatcher.inventory
    announced           \* the pairs created so far: a factory creates one once

watcherVars == <<watch_inventory, announced>>

WatcherTypeOK ==
    /\ watch_inventory \subseteq Pairs
    /\ announced \subseteq Pairs

\* Nothing is tracked at the start, the pairs restored from the database included.
WatcherInit(known) ==
    /\ watch_inventory = {}
    /\ announced = known

\* listen_block: one head, with the pairs that were created in it.
NewHead ==
    /\ Len(watching_broker) < MaxBacklog
    /\ \E created \in SUBSET (Pairs \ announced) :
          /\ announced' = announced \cup created
          /\ watching_broker' =
                Append(watching_broker,
                       [pairs |-> created, inventory |-> watch_inventory])
    /\ UNCHANGED <<watching_notifier, execution_broker, execution_report,
                   report_broker, control_receiver, watch_inventory>>

FaultyOpens(ack) == ack.tx_status = "SUCCESS"
Opens(ack) == ack.is_buy /\ ack.tx_status = "SUCCESS"

\* listen_report: a pair is tracked from the acknowledgement of its buy on,
\* unless its reserves cannot be fetched, and until any other acknowledgement.
ListenReport ==
    /\ watching_notifier # <<>>
    /\ watching_notifier' = Tail(watching_notifier)
    /\ LET ack == Head(watching_notifier) IN
       IF Opens(ack)
       THEN \/ watch_inventory' = watch_inventory \cup {ack.pair}
            \/ RpcMayFail /\ UNCHANGED watch_inventory
       ELSE watch_inventory' = watch_inventory \ {ack.pair}
    /\ UNCHANGED <<watching_broker, execution_broker, execution_report,
                   report_broker, control_receiver, announced>>

\* The rest of the main process: it reads the blocks and sends the notices.
MainTasks ==
    /\ UNCHANGED watcherVars
    /\ \/ /\ watching_broker # <<>>
          /\ watching_broker' = Tail(watching_broker)
          /\ UNCHANGED watching_notifier
       \/ /\ \E pair \in Pairs, is_buy \in BOOLEAN, status \in TxStatus :
                watching_notifier' =
                   Append(watching_notifier,
                          [pair |-> pair, is_buy |-> is_buy, tx_status |-> status])
          /\ UNCHANGED watching_broker
=============================================================================
