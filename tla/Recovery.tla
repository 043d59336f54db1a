------------------------------- MODULE Recovery -------------------------------
(***************************************************************************)
(* The trading system with its database: the reader of the report queue is *)
(* the Reporter, and the program may stop at any moment, in the middle of  *)
(* a pass or of a save, and be started again.  A start forgets everything  *)
(* but the tables and the chain: the globals of main.py, the queues, the   *)
(* orders of the executor and the list of the watcher are gone, and the    *)
(* open positions come back from the database.                             *)
(***************************************************************************)
EXTENDS TradingSystem, Reporter

CONSTANT MaxCrashes     \* bound of the model

ASSUME RecoveryAssumption ==
    /\ MaxCrashes \in Nat
    /\ PendingPositions = <<>>

VARIABLE crashes        \* how often the program was started again

recoveryVars == <<vars, reporterVars, crashes>>

RecoveryInit ==
    /\ Init
    /\ ReporterInit
    /\ crashes = 0

\* The trading system as it was, but for the reader of the reports.
Trade ==
    /\ \/ StrategyTask(ReceiveBlock)
       \/ StrategyTask(Pass)
       \/ StrategyTask(HandleExecutionReport)
       \/ ControlTask
       \/ OtherTask(NewHead)
       \/ OtherTask(ListenReport)
       \/ ExecutorProcess(ExecutorNext)
    /\ UNCHANGED <<reporterVars, crashes>>

\* The reporter is a task of the main process as well.
ReporterTask(A) ==
    /\ pc = "get"
    /\ A
    /\ UNCHANGED <<watching_broker, watching_notifier, execution_broker,
                   execution_report, control_receiver, strategyVars,
                   executorVars, watcherVars, restored, crashes>>

ClockTick ==
    /\ HourPasses
    /\ UNCHANGED <<vars, crashes>>

\* The program stops and is started again.  All that was on its way is lost;
\* what the chain has settled is not known.  The restored positions are ten
\* minutes older than they are, "to force liquidate immediately".
Restart ==
    /\ crashes < MaxCrashes
    /\ crashes' = crashes + 1
    /\ \E previous \in SUBSET PurchasedBefore :
       LET pending == {p \in Pairs : IsPending(p, previous)} IN
       /\ reopened' = pending
       /\ \E order \in SetToSeqs(pending) :
             control_receiver' =
                IF order = <<>> THEN <<>>
                ELSE <<[i \in DOMAIN order |-> Reopened(order[i], MaxPositionAge)]>>
    /\ saving' = None
    /\ torn' = torn \cup (IF saving = None THEN {} ELSE PairsOf(saving.report))
    /\ watching_broker' = <<>> /\ watching_notifier' = <<>>
    /\ execution_broker' = <<>> /\ execution_report' = <<>>
    /\ report_broker' = <<>>
    /\ glb_fullfilled' = 0 /\ glb_liquidated' = FALSE
    /\ glb_watchlist' = <<>> /\ glb_inventory' = <<>>
    /\ glb_daily_pnl' = 0 /\ glb_auto_run' = TRUE /\ buy_amount' = BUY_AMOUNT
    /\ pc' = "get" /\ block' = EmptyBlock /\ scan' = 1
    /\ inspecting' = {} /\ failed' = {}
    /\ counter' = 0 /\ taken' = {} /\ lost' = 0
    /\ watch_inventory' = {} /\ restored' = 0
    /\ UNCHANGED <<announced, pair_rows, position_rows, pnl_rows, blacklist, hour>>

RecoveryNext ==
    \/ Trade
    \/ ReporterTask(TakeFirstReport)
    \/ ReporterTask(SaveStep)
    \/ ReporterTask(SaveFails)
    \/ ClockTick
    \/ Restart

RecoverySpec == RecoveryInit /\ [][RecoveryNext]_recoveryVars

\* The fairness of TradingSystem; a query returns or raises; nobody stops the
\* program for ever, and nothing makes it start again.
WithoutDatabase(A) == A /\ UNCHANGED <<reporterVars, crashes>>

RecoveryFairness ==
    /\ WF_recoveryVars(WithoutDatabase(StrategyTask(Pass)))
    /\ SF_recoveryVars(WithoutDatabase(StrategyTask(ReceiveBlock)))
    /\ SF_recoveryVars(WithoutDatabase(StrategyTask(HandleExecutionReport)))
    /\ SF_recoveryVars(WithoutDatabase(ControlTask))
    /\ SF_recoveryVars(WithoutDatabase(OtherTask(NewHead)))
    /\ SF_recoveryVars(WithoutDatabase(OtherTask(ListenReport)))
    /\ SF_recoveryVars(ReporterTask(TakeFirstReport))
    /\ SF_recoveryVars(ReporterTask(SaveStep \/ SaveFails))
    /\ WF_recoveryVars(WithoutDatabase(ExecutorProcess(Take \/ Drop)))
    /\ \A p \in Pairs : WF_recoveryVars(WithoutDatabase(ExecutorProcess(Settle(p))))

FairRecoverySpec == RecoverySpec /\ RecoveryFairness

-----------------------------------------------------------------------------
RecoveryTypeOK == TypeOK /\ ReporterTypeOK /\ crashes \in Nat

\* The reports still to be stored, the one being saved included.
Unsaved ==
    ToSet(report_broker) \cup (IF saving = None THEN {} ELSE {saving.report})

\* A position that is held can be restored: its row is open, or the report of
\* its buy is still to be saved, unless a save was cut short, by a query that
\* raised or by a crash (reporter.py:194-210).
OpenPositionsStored ==
    \A position \in ToSet(glb_inventory) :
        \/ IsOpen(position.pair)
        \/ position.pair \in torn
        \/ \E report \in Unsaved :
              /\ report.type = "EXECUTION"
              /\ report.ack.pair = position.pair
              /\ report.ack.is_buy

\* What is held, and what the bootstrap has sent.
Positions == ToSet(glb_inventory) \cup UNION {ToSet(o) : o \in ToSet(control_receiver)}

\* Once the sell of a position is stored, the pair is not held, ordered or sold
\* again, whatever restarts there are (reporter.py:44, 215-224).
SoldStaysSold ==
    \A p \in Pairs :
        position_rows[p] # None /\ position_rows[p].is_liquidated =>
            /\ \A position \in Positions : position.pair # p
            /\ \A m \in Orders \cup Acks : m.pair # p

\* A creator is frozen only for a pair whose sell was stored and did not pay,
\* unless that report was lost in a failing save (main.py:424-427).
BlacklistedForCause ==
    \A c \in blacklist :
        \E p \in Pairs :
            /\ CreatorOf[p] = c
            /\ \/ p \in torn
               \/ position_rows[p] # None /\ position_rows[p].is_liquidated
                     /\ position_rows[p].pnl # "some"

\* The positions whose row says another hour than their purchase, or whose
\* report was cut short.
Blurred ==
    torn \cup {p \in Pairs : position_rows[p] # None
                       /\ position_rows[p].created_at # position_rows[p].purchased_at}

\* Between two saves the statistics of an hour agree with its positions, unless
\* one of them was stored over the turn of the hour or its save was cut short
\* (reporter.py:136-158).
StatsAgree ==
    saving = None =>
        \A h \in Hours :
            Purchased(h) \cap Blurred = {} =>
                IF pnl_rows[h] = None THEN Purchased(h) = {}
                                      ELSE pnl_rows[h] = FreshPnL(h)

\* A position that was bought and stored is sold in the end, over restarts too,
\* unless one of its saves was cut short, by a query that raised or by a crash, or
\* the row was too old to be restored (reporter.py:44).
EveryPositionClosed ==
    \A p \in Pairs :
        IsOpen(p) /\ position_rows[p].has_amount
            ~> \/ ~ IsOpen(p)
               \/ p \in torn
               \/ crashes > 0 /\ hour > position_rows[p].purchased_at

\* What bootstrap() restores was bought.
RestoredWasBought ==
    \A position \in ToSet(glb_inventory) :
        position.pair \in reopened => position_rows[position.pair].has_amount
=============================================================================
