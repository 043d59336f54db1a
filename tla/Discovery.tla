------------------------------- MODULE Discovery -------------------------------
(***************************************************************************)
(* How a pair comes to be bought: the chain, the watcher that announces    *)
(* the pair, the inspector that decides about it several times, and of the *)
(* strategy what stands between them (Strategy has all of it).  A time is  *)
(* a block number.                                                         *)
(***************************************************************************)
EXTENDS LogWatcher, Inspector

CONSTANTS MAX_INSPECT_ATTEMPTS, INSPECT_INTERVAL

ASSUME DiscoveryAssumption ==
    /\ MAX_INSPECT_ATTEMPTS \in Nat /\ MAX_INSPECT_ATTEMPTS > 1
    /\ INSPECT_INTERVAL \in Nat

VARIABLES
    glb_watchlist,  \* a set here: its order is a matter of Strategy
    new_pairs,      \* the pairs of the block in hand, still to be inspected
    pc,             \* what strategy() waits for
    orders          \* what became of the buy order of each pair

strategyVars == <<glb_watchlist, new_pairs, pc, orders>>
vars == <<blocks, watcherVars, inspectorVars, strategyVars>>

Init ==
    /\ blocks = <<>>
    /\ LogWatcherInit
    /\ InspectorInit
    /\ glb_watchlist = {}
    /\ new_pairs = {}
    /\ pc = "get"
    /\ orders = [p \in Pairs |-> "none"]

\* Pairs whose next inspection is due at a time.
Due(pair, time) == time - pair.created_at > pair.inspect_attempts * INSPECT_INTERVAL

ReceiveBlock ==
    /\ pc = "get"
    /\ watching_broker # <<>>
    /\ LET block_data == Head(watching_broker) IN
       /\ InspectBatch({pair \in glb_watchlist : Due(pair, block_data.number)},
                       FALSE, block_data.number)
       /\ new_pairs' =
             {[address |-> new.address, creator |-> new.creator,
               reserve_eth |-> new.reserve_eth, created_at |-> block_data.number,
               inspect_attempts |-> 0, contract_verified |-> FALSE,
               number_tx_mm |-> FALSE, last_inspected_block |-> 0]
                  : new \in block_data.pairs}
    /\ watching_broker' = Tail(watching_broker)
    /\ pc' = "again"
    /\ UNCHANGED <<seen, tracked, put_buffer, watching_notifier, announced, missed,
                   black_list, glb_watchlist, orders>>

\* A watched pair after an inspection that it passed.
FaultyAttempted(inspection) ==
    [inspection.pair EXCEPT
        !.inspect_attempts = @ + 1,
        !.number_tx_mm = inspection.number_tx_mm,
        !.contract_verified = @ \/ inspection.contract_verified,
        !.last_inspected_block = to_block]
Attempted(inspection) ==
    [inspection.pair EXCEPT
        !.inspect_attempts = @ + 1,
        !.number_tx_mm = inspection.number_tx_mm,
        !.contract_verified = @ \/ inspection.contract_verified]

MaxAttempts(pair) == pair.inspect_attempts >= MAX_INSPECT_ATTEMPTS

Qualified(pair) == pair.number_tx_mm /\ pair.contract_verified

\* The watched pairs that were inspected: bought, kept or removed.  A failed
\* pair after a removed one is skipped and stays as it was; an order is not sent
\* if gas is dear or the inventory is full.
InspectedAgain ==
    /\ pc = "again"
    /\ BatchDone
    /\ LET attempted == {Attempted(threads[p]) : p \in {q \in Pairs : Passed(q)}}
           failed == {w \in glb_watchlist :
                        threads[w.address] # None /\ ~ Passed(w.address)}
           bought == {w.address : w \in {v \in attempted : MaxAttempts(v) /\ Qualified(v)}}
       IN \E skipped \in SUBSET failed, sent \in SUBSET bought :
             /\ failed # {} => skipped # failed
             /\ glb_watchlist' =
                   {w \in glb_watchlist : threads[w.address] = None}
                      \cup skipped \cup {w \in attempted : ~ MaxAttempts(w)}
             /\ orders' = [p \in Pairs |-> IF p \in sent THEN "ordered" ELSE orders[p]]
    /\ InspectBatch(new_pairs, TRUE, to_block)
    /\ new_pairs' = {}
    /\ pc' = "initial"
    /\ UNCHANGED <<blocks, watcherVars, black_list>>

\* The new pairs that passed are watched from now on (the capacity of the list
\* is a matter of Strategy).
Listed(inspection) ==
    [inspection.pair EXCEPT
        !.inspect_attempts = 1,
        !.last_inspected_block = to_block,
        !.contract_verified = inspection.contract_verified,
        !.number_tx_mm = inspection.number_tx_mm]

InspectedFirst ==
    /\ pc = "initial"
    /\ BatchDone
    /\ glb_watchlist' =
          glb_watchlist \cup {Listed(threads[p]) : p \in {q \in Pairs : Passed(q)}}
    /\ threads' = [p \in Pairs |-> None]
    /\ pc' = "get"
    /\ UNCHANGED <<blocks, watcherVars, to_block, black_list, new_pairs, orders>>

\* handle_execution_report notifies the watcher of every acknowledgement: of
\* the buy, and of the sell that closes the position.
NotifyWatcher(p, is_buy, from, to) ==
    /\ pc = "get"
    /\ orders[p] = from
    /\ \E status \in {"FAILED", "SUCCESS"} :
          /\ watching_notifier' =
                Append(watching_notifier,
                       [pair |-> p, is_buy |-> is_buy, tx_status |-> status])
          /\ orders' = [orders EXCEPT ![p] =
                           IF is_buy /\ status = "FAILED" THEN "closed" ELSE to]
    /\ UNCHANGED <<blocks, seen, tracked, put_buffer, watching_broker, announced,
                   missed, inspectorVars, glb_watchlist, new_pairs, pc>>

BuyAcknowledged(p) == NotifyWatcher(p, TRUE, "ordered", "held")
SellAcknowledged(p) == NotifyWatcher(p, FALSE, "held", "closed")

\* The watcher is a task of the main process: it runs between two passes.  The
\* feeder thread of its queue runs at any time.
WatcherTask ==
    /\ \/ pc = "get" /\ (NewHead \/ ListenReport)
       \/ Pickle
    /\ UNCHANGED <<blocks, inspectorVars, strategyVars>>

InspectorThread(p) ==
    /\ InspectPair(p)
    /\ UNCHANGED <<blocks, watcherVars, strategyVars>>

ReporterThread ==
    /\ \E creator \in Creators : SaveBlackList(creator)
    /\ UNCHANGED <<blocks, watcherVars, strategyVars>>

World ==
    /\ Mine
    /\ UNCHANGED <<watcherVars, inspectorVars, strategyVars>>

Next ==
    \/ World
    \/ WatcherTask
    \/ \E p \in Pairs : InspectorThread(p)
    \/ ReceiveBlock /\ UNCHANGED blocks
    \/ InspectedAgain \/ InspectedFirst
    \/ \E p \in Pairs : BuyAcknowledged(p) \/ SellAcknowledged(p)
    \/ ReporterThread

Spec == Init /\ [][Next]_vars

-----------------------------------------------------------------------------
DiscoveryTypeOK ==
    /\ MarketTypeOK /\ LogWatcherTypeOK /\ InspectorTypeOK
    /\ glb_watchlist \subseteq Pair
    /\ new_pairs \subseteq Pair
    /\ pc \in {"get", "again", "initial"}
    /\ orders \in [Pairs -> {"none", "ordered", "held", "closed"}]

\* The reserves of a tracked pair are never older than the last head, whatever
\* the chain does between the questions, unless a Sync event was lost with a
\* head or in a failed call (block_watcher.py:198-207, 217-226).
ReservesCurrent ==
    \A p \in Pairs :
        IsTracked(p) /\ p \notin missed =>
            \E n \in seen .. Height :
               /\ Exists(p, n)
               /\ tracked[p].native = PoolAt(p, n).native
               /\ tracked[p].token = PoolAt(p, n).token

\* With its logs, failing calls, lost heads and late pickling, the watcher does
\* what BlockWatcher does: the abstract block is put when it is pickled.
AsBlockData(block) ==
    [pairs |-> {new.address : new \in block.pairs},
     inventory |-> {p \in Pairs : block.inventory[p] # None}]

\* The pairs that are announced in blocks that are not pickled yet.
Buffered == {new.address : new \in UNION {block.pairs : block \in ToSet(put_buffer)}}

Abstract ==
    INSTANCE BlockWatcher WITH
        Accounts <- {}, Signers <- {}, Bots <- {},
        watching_broker <-
            [i \in DOMAIN watching_broker |-> AsBlockData(watching_broker[i])],
        execution_broker <- <<>>, execution_report <- <<>>,
        report_broker <- <<>>, control_receiver <- <<>>,
        watch_inventory <- {p \in Pairs : IsTracked(p)},
        announced <- announced \ Buffered

WatcherImplements ==
    /\ Abstract!WatcherInit({})
    /\ [][Abstract!NewHead \/ Abstract!ListenReport \/ Abstract!MainTasks]_
          <<watching_broker, watching_notifier, Abstract!watcherVars>>

\* No order is sent for a pair whose creator is unknown, or was frozen before
\* the head of the last inspection and still is, but for a creator listed so
\* long ago that the 90 days are over (pair_inspector.py:151-154).
Frozen(creator, before) ==
    LET row == black_list[creator]
        Since(time) == time < before /\ Height - time <= FrozenFor
    IN /\ row # None
       /\ Since(row.created_at) \/ Since(row.frozen_at)
       /\ Height - row.created_at <= ListedFor

IsOrdered(p) == orders[p] = "none" /\ orders'[p] = "ordered"

CreatorVetted ==
    [][\A p \in Pairs : IsOrdered(p) =>
          LET creator == threads[p].pair.creator IN
          creator # None /\ ~ Frozen(creator, to_block)]_vars

\* Whether the explorer's page holds all the calls up to block n.
FitsPage(p, n) ==
    Cardinality({k \in 1 .. n : blocks[k][p].call # "none"}) <= PageSize

\* When the explorer answers the last inspection and its page holds all the calls
\* to the token, no pair is bought after an abnormal one, nor after a transfer
\* since it is watched, however many inspections before it were not answered
\* (main.py:237-239, pair_inspector.py:163-168, 204-206).
CallsNoticed ==
    [][\A p \in Pairs : IsOrdered(p) /\ FitsPage(p, to_block) =>
          /\ threads[p].cleared => ~ Called(p, 1 .. to_block, {"abnormal"})
          /\ threads[p].quiet =>
                ~ Called(p, threads[p].pair.created_at + 1 .. to_block,
                         {"abnormal", "transfer"})]_vars

\* Behind every order there is a moment at which the token could be bought and
\* one after it at which it could be sold, no earlier than the head that was
\* inspected (pair_inspector.py:210-213, ethcall_simulator.py:63-90).
BoughtWasTradable ==
    [][\A p \in Pairs : IsOrdered(p) =>
          \E buy \in to_block .. Height : \E sell \in buy .. Height :
             /\ BuySucceeds(PoolAt(p, buy), SimulationAmount)
             /\ SellSucceeds(PoolAt(p, sell),
                             TokensBought(PoolAt(p, buy), SimulationAmount))]_vars

\* The two calls are simulated apart, on a pool the buy has not moved.  Selling
\* the tokens back for real would have lost less than MaxSlippage, if the pool
\* did not change between the calls.
LossBounded ==
    [][\A p \in Pairs : IsOrdered(p) =>
          LET pool == PoolAt(p, threads[p].bought_at) IN
          pool = PoolAt(p, threads[p].sold_at) =>
             Slippage(RoundTrip(pool, SimulationAmount))
                < MaxSlippage * SimulationAmount]_vars
=============================================================================
