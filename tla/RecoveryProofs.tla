---------------------------- MODULE RecoveryProofs ----------------------------
(***************************************************************************)
(* What the database keeps over a save that fails and over a restart:      *)
(* proofs of RecoveryTypeOK, OpenPositionsStored, SoldStaysSold,           *)
(* BlacklistedForCause and StatsAgree, for every value of the constants.   *)
(***************************************************************************)
EXTENDS Recovery, SafetyProofs

-----------------------------------------------------------------------------
(* The trading system within the system with a database.                   *)

(* Every step but a restart is a step of the trading system, or one that   *)
(* the trading system does not see.                                        *)
LEMMA StepIsTrading == [RecoveryNext]_recoveryVars => [Next]_vars \/ Restart
<1> SUFFICES ASSUME [RecoveryNext]_recoveryVars PROVE [Next]_vars \/ Restart
  OBVIOUS
<1>1. CASE Trade
  BY <1>1 DEF Trade, Next
<1>2. CASE ReporterTask(TakeFirstReport)
  <2>1. OtherTask(TakeReport) /\ UNCHANGED watcherVars
    BY <1>2 DEF ReporterTask, TakeFirstReport, OtherTask, TakeReport
  <2> QED BY <2>1 DEF Next
<1>3. CASE ReporterTask(SaveStep) \/ ReporterTask(SaveFails)
  <2>1. UNCHANGED report_broker
    BY <1>3 DEF ReporterTask, SaveStep, SaveFails, SaveBlockPair, SavePairOfPosition,
                SavePositionRow, SaveStats, SaveBlacklist, Saving
  <2> QED BY <1>3, <2>1 DEF ReporterTask, vars, queues
<1>4. CASE ClockTick \/ UNCHANGED recoveryVars
  BY <1>4 DEF ClockTick, recoveryVars, vars
<1> QED BY <1>1, <1>2, <1>3, <1>4 DEF RecoveryNext

(* The reports by their types.                                             *)
LEMMA ReportKinds ==
  ASSUME NEW r \in ReportData
  PROVE  /\ r.type \in {"BLOCK", "EXECUTION", "BLACKLIST_ADDED"}
         /\ r.type = "BLOCK" => r \in [type: {"BLOCK"}, pairs: SUBSET Pairs]
         /\ r.type = "EXECUTION" => r \in [type: {"EXECUTION"}, ack: ExecutionAck]
         /\ r.type = "BLACKLIST_ADDED" => r \in [type: {"BLACKLIST_ADDED"}, creator_of: Pairs]
         /\ PairsOf(r) \subseteq Pairs
<1>1. CASE r \in [type: {"BLOCK"}, pairs: SUBSET Pairs]
  BY <1>1 DEF PairsOf
<1>2. CASE r \in [type: {"EXECUTION"}, ack: ExecutionAck]
  BY <1>2 DEF PairsOf, ExecutionAck
<1>3. CASE r \in [type: {"BLACKLIST_ADDED"}, creator_of: Pairs]
  BY <1>3 DEF PairsOf
<1> QED BY <1>1, <1>2, <1>3 DEF ReportData

\* The positions that were ever stored; there are never infinitely many.
Rows == {p \in Pairs : position_rows[p] # None}

RecoveryTypeInv == RecoveryTypeOK /\ IsFiniteSet(Rows)

LEMMA RecoveryTypeInit == RecoveryInit => RecoveryTypeInv
<1> SUFFICES ASSUME RecoveryInit PROVE RecoveryTypeInv
  OBVIOUS
<1>1. TypeOK
  BY TypeInit DEF RecoveryInit
<1>2. ReporterTypeOK
  <2>1. 0 \in Hours
    BY ReporterAssumption DEF Hours
  <2> QED BY <2>1 DEF RecoveryInit, ReporterInit, ReporterTypeOK
<1>3. Rows = {}
  BY DEF RecoveryInit, ReporterInit, Rows
<1>4. crashes \in Nat
  BY DEF RecoveryInit
<1> QED BY <1>1, <1>2, <1>3, <1>4, FS_EmptySet DEF RecoveryTypeInv, RecoveryTypeOK

(* What bootstrap() sends at a start.                                      *)
LEMMA RestartSends ==
  ASSUME RecoveryTypeInv, Restart
  PROVE  /\ reopened' \subseteq {p \in Pairs : IsOpen(p)}
         /\ control_receiver' \in Seq(Seq(Position))
         /\ \A i, j \in DOMAIN control_receiver' : i = j
         /\ \A i \in DOMAIN control_receiver' :
               /\ Distinct(control_receiver'[i])
               /\ PairsIn(control_receiver'[i]) \subseteq reopened'
<1>1. PICK previous \in SUBSET PurchasedBefore :
         LET pending == {p \in Pairs : IsPending(p, previous)} IN
         /\ reopened' = pending
         /\ \E order \in SetToSeqs(pending) :
               control_receiver' =
                  IF order = <<>> THEN <<>>
                  ELSE <<[i \in DOMAIN order |-> Reopened(order[i], MaxPositionAge)]>>
  BY DEF Restart
<1> DEFINE pending == {p \in Pairs : IsPending(p, previous)}
<1>2. PICK order \in SetToSeqs(pending) :
         control_receiver' =
            IF order = <<>> THEN <<>>
            ELSE <<[i \in DOMAIN order |-> Reopened(order[i], MaxPositionAge)]>>
  BY <1>1
<1>3. reopened' = pending /\ pending \subseteq {p \in Pairs : IsOpen(p)}
  BY <1>1 DEF IsPending
<1>4. IsFiniteSet(pending)
  <2>1. pending \subseteq Rows
    BY <1>3 DEF IsOpen, Rows
  <2> QED BY <2>1, FS_Subset DEF RecoveryTypeInv
<1> HIDE DEF pending
<1>5. /\ Cardinality(pending) \in Nat
      /\ order \in [1 .. Cardinality(pending) -> pending]
      /\ \A i, j \in 1 .. Cardinality(pending) : i # j => order[i] # order[j]
  BY <1>2, <1>4, FS_CardinalityType DEF SetToSeqs
<1> DEFINE positions == [i \in DOMAIN order |-> Reopened(order[i], MaxPositionAge)]
<1>6. \A p \in pending : Reopened(p, MaxPositionAge) \in Position
                         /\ Reopened(p, MaxPositionAge).pair = p
  <2>1. ASSUME NEW p \in pending
        PROVE  Reopened(p, MaxPositionAge) \in Position
               /\ Reopened(p, MaxPositionAge).pair = p
    <3>1. p \in Pairs /\ position_rows[p] \in PositionRow
      BY <1>3 DEF IsOpen, RecoveryTypeInv, RecoveryTypeOK, ReporterTypeOK
    <3> QED BY <3>1, AgeBounds DEF Reopened, Position, PositionRow
  <2> QED BY <2>1
<1>7. /\ positions \in Seq(Position)
      /\ DOMAIN positions = 1 .. Cardinality(pending)
      /\ \A i \in DOMAIN positions : positions[i].pair = order[i] /\ order[i] \in pending
  BY <1>5, <1>6
<1>8. Distinct(positions) /\ PairsIn(positions) \subseteq pending
  <2> HIDE DEF positions
  <2> QED BY <1>5, <1>7 DEF Distinct, PairsIn
<1> HIDE DEF positions
<1>9. control_receiver' = <<>> \/ control_receiver' = <<positions>>
  BY <1>2 DEF positions
<1>10. CASE control_receiver' = <<>>
  BY <1>3, <1>10
<1>11. CASE control_receiver' = <<positions>>
  <2>1. /\ control_receiver' \in Seq(Seq(Position))
        /\ DOMAIN control_receiver' = {1}
        /\ control_receiver'[1] = positions
    BY <1>7, <1>11
  <2> QED BY <1>3, <1>8, <2>1
<1> QED BY <1>9, <1>10, <1>11

LEMMA RestartType ==
  ASSUME RecoveryTypeInv, Restart
  PROVE  RecoveryTypeInv'
<1>1. QueuesTypeOK'
  <2>1. \A S : <<>> \in Seq(S)
    OBVIOUS
  <2> QED BY <2>1, RestartSends DEF Restart, QueuesTypeOK
<1>2. StrategyTypeOK'
  <2>1. BUY_AMOUNT \in Nat \ {0}
    BY StrategyAssumption
  <2>2. EmptyBlock \in BlockData
    BY DEF EmptyBlock, BlockData
  <2>3. "get" \in Phases
    BY DEF Phases
  <2>4. /\ <<>> \in Seq(WatchedPair) /\ <<>> \in Seq(Position)
        /\ {} \subseteq Pairs /\ 0 \in Int /\ 1 \in Nat \ {0}
    OBVIOUS
  <2>5. /\ glb_fullfilled' = 0 /\ glb_liquidated' = FALSE /\ glb_watchlist' = <<>>
        /\ glb_inventory' = <<>> /\ glb_daily_pnl' = 0 /\ glb_auto_run' = TRUE
        /\ buy_amount' = BUY_AMOUNT /\ pc' = "get" /\ block' = EmptyBlock
        /\ scan' = 1 /\ inspecting' = {} /\ failed' = {}
    BY DEF Restart
  <2> QED BY <2>1, <2>2, <2>3, <2>4, <2>5 DEF StrategyTypeOK
<1>3. ExecutorTypeOK' /\ WatcherTypeOK' /\ restored' \in Nat /\ crashes' \in Nat
  BY FS_EmptySet DEF Restart, ExecutorTypeOK, WatcherTypeOK, RecoveryTypeInv, RecoveryTypeOK, TypeOK
<1>4. ReporterTypeOK'
  <2>1. reopened' \subseteq Pairs
    BY RestartSends
  <2>2. torn' \subseteq Pairs
    <3>1. saving # None => saving.report \in ReportData
      BY DEF RecoveryTypeInv, RecoveryTypeOK, ReporterTypeOK, Save
    <3>2. torn \subseteq Pairs
      BY DEF RecoveryTypeInv, RecoveryTypeOK, ReporterTypeOK
    <3> QED BY <3>1, <3>2, ReportKinds DEF Restart
  <2> QED BY <2>1, <2>2 DEF Restart, RecoveryTypeInv, RecoveryTypeOK, ReporterTypeOK
<1>5. Rows' = Rows
  BY DEF Restart, Rows
<1> QED BY <1>1, <1>2, <1>3, <1>4, <1>5 DEF RecoveryTypeInv, RecoveryTypeOK, TypeOK

(* What is being saved.                                                    *)
LEMMA SavingFacts ==
  ASSUME RecoveryTypeOK, saving # None
  PROVE  /\ saving \in Save
         /\ saving.report \in ReportData
         /\ saving.step \in {"pair", "position", "stats"}
         /\ saving.report.type = "BLOCK" =>
               saving.report \in [type: {"BLOCK"}, pairs: SUBSET Pairs]
         /\ saving.report.type = "EXECUTION" =>
               /\ saving.report \in [type: {"EXECUTION"}, ack: ExecutionAck]
               /\ saving.report.ack \in ExecutionAck
               /\ saving.report.ack.pair \in Pairs
         /\ saving.report.type = "BLACKLIST_ADDED" =>
               /\ saving.report \in [type: {"BLACKLIST_ADDED"}, creator_of: Pairs]
               /\ saving.report.creator_of \in Pairs
         /\ \A step \in {"pair", "position", "stats"} :
               /\ [saving EXCEPT !.step = step] \in Save
               /\ [saving EXCEPT !.step = step].report = saving.report
               /\ [saving EXCEPT !.step = step].step = step
<1>1. saving \in Save
  BY DEF RecoveryTypeOK, ReporterTypeOK
<1>2. saving.report \in ReportData /\ saving.step \in {"pair", "position", "stats"}
  BY <1>1 DEF Save
<1>3. /\ saving.report.type = "BLOCK" =>
            saving.report \in [type: {"BLOCK"}, pairs: SUBSET Pairs]
      /\ saving.report.type = "EXECUTION" =>
            saving.report \in [type: {"EXECUTION"}, ack: ExecutionAck]
      /\ saving.report.type = "BLACKLIST_ADDED" =>
            saving.report \in [type: {"BLACKLIST_ADDED"}, creator_of: Pairs]
  BY <1>2, ReportKinds
<1>4. ASSUME NEW step \in {"pair", "position", "stats"}
      PROVE  /\ [saving EXCEPT !.step = step] \in Save
             /\ [saving EXCEPT !.step = step].report = saving.report
             /\ [saving EXCEPT !.step = step].step = step
  <2> HIDE DEF ReportData
  <2> QED BY <1>1 DEF Save
<1>5. saving.report.type = "EXECUTION" =>
         saving.report.ack \in ExecutionAck /\ saving.report.ack.pair \in Pairs
  BY <1>3 DEF ExecutionAck
<1>6. saving.report.type = "BLACKLIST_ADDED" => saving.report.creator_of \in Pairs
  BY <1>3
<1> QED BY <1>1, <1>2, <1>3, <1>4, <1>5, <1>6

(* A row of a pair more, or a row changed.                                 *)
LEMMA RowsGrow ==
  ASSUME RecoveryTypeInv, NEW p \in Pairs, NEW row \in PositionRow,
         position_rows' = [position_rows EXCEPT ![p] = row]
  PROVE  /\ position_rows' \in [Pairs -> PositionRow \cup {None}]
         /\ Rows' = Rows \cup {p}
         /\ IsFiniteSet(Rows')
<1>1. position_rows \in [Pairs -> PositionRow \cup {None}]
  BY DEF RecoveryTypeInv, RecoveryTypeOK, ReporterTypeOK
<1>2. row # None
  BY NoneAssumption
<1>3. Rows' = Rows \cup {p}
  BY <1>1, <1>2 DEF Rows
<1> QED BY <1>1, <1>3, FS_AddElement DEF RecoveryTypeInv

(* A save of a position writes a new row, closes an open one, or leaves it *)
(* as it is.                                                               *)
LEMMA PositionRowEffect ==
  ASSUME RecoveryTypeInv, SavePositionRow
  PROVE  LET ack == saving.report.ack
             p == ack.pair
             row == position_rows[p]
         IN /\ ack \in ExecutionAck
            /\ p \in Pairs
            /\ hour' \in Hours
            /\ \/ /\ p \notin Rows
                  /\ NewRow(ack, hour') \in PositionRow
                  /\ position_rows' = [position_rows EXCEPT ![p] = NewRow(ack, hour')]
               \/ /\ p \in Rows
                  /\ row \in PositionRow
                  /\ hour' = hour
                  /\ Closes(row, ack)
                  /\ \E pnl \in PnlOfSell(row, ack) :
                        /\ [row EXCEPT !.is_liquidated = TRUE, !.pnl = pnl] \in PositionRow
                        /\ position_rows' =
                              [position_rows EXCEPT
                                  ![p] = [row EXCEPT !.is_liquidated = TRUE, !.pnl = pnl]]
               \/ /\ p \in Rows
                  /\ row \in PositionRow
                  /\ hour' = hour
                  /\ ~ Closes(row, ack)
                  /\ position_rows' = position_rows
<1> DEFINE ack == saving.report.ack
           p == ack.pair
           row == position_rows[p]
<1>1. saving # None /\ saving.report.type = "EXECUTION"
  BY DEF SavePositionRow, Saving
<1>2. ack \in ExecutionAck /\ p \in Pairs
  BY <1>1, SavingFacts DEF RecoveryTypeInv
<1>3. /\ hour \in Hours
      /\ row \in PositionRow \cup {None}
      /\ position_rows \in [Pairs -> PositionRow \cup {None}]
  BY <1>2 DEF RecoveryTypeInv, RecoveryTypeOK, ReporterTypeOK
<1>4. \/ /\ row = None
         /\ hour' \in {hour, hour + 1} \cap Hours
         /\ position_rows' = [position_rows EXCEPT ![p] = NewRow(ack, hour')]
      \/ /\ row # None
         /\ hour' = hour
         /\ IF Closes(row, ack)
            THEN \E pnl \in PnlOfSell(row, ack) :
                    position_rows' = [position_rows EXCEPT ![p].is_liquidated = TRUE,
                                                           ![p].pnl = pnl]
            ELSE position_rows' = position_rows
  BY DEF SavePositionRow
<1> HIDE DEF ack
<1>5. CASE row = None
  <2>1. hour' \in Hours /\ position_rows' = [position_rows EXCEPT ![p] = NewRow(ack, hour')]
    BY <1>4, <1>5
  <2>2. NewRow(ack, hour') \in PositionRow
    BY <1>2, <1>3, <2>1 DEF NewRow, PositionRow, ExecutionAck
  <2>3. p \notin Rows
    BY <1>5 DEF Rows
  <2> QED BY <1>2, <2>1, <2>2, <2>3 DEF ack
<1>6. CASE row # None
  <2>1. p \in Rows /\ row \in PositionRow /\ hour' = hour /\ hour' \in Hours
    BY <1>2, <1>3, <1>4, <1>6 DEF Rows
  <2>2. CASE Closes(row, ack)
    <3>1. PICK pnl \in PnlOfSell(row, ack) :
             position_rows' = [position_rows EXCEPT ![p].is_liquidated = TRUE, ![p].pnl = pnl]
      BY <1>4, <1>6, <2>2
    <3>2. pnl \in {"zero", "lost", "some"}
      BY DEF PnlOfSell
    <3>3. [row EXCEPT !.is_liquidated = TRUE, !.pnl = pnl] \in PositionRow
      BY <2>1, <3>2 DEF PositionRow
    <3>4. position_rows' =
             [position_rows EXCEPT ![p] = [row EXCEPT !.is_liquidated = TRUE, !.pnl = pnl]]
      BY <1>2, <1>3, <3>1
    <3> QED BY <1>2, <2>1, <2>2, <3>1, <3>3, <3>4 DEF ack
  <2>3. CASE ~ Closes(row, ack)
    BY <1>2, <1>4, <1>6, <2>1, <2>3 DEF ack
  <2> QED BY <2>2, <2>3
<1> QED BY <1>5, <1>6

(* The statistics counted anew.                                            *)
LEMMA FreshType ==
  ASSUME RecoveryTypeInv, NEW h
  PROVE  FreshPnL(h) \in PnLRow /\ FreshPnL(h) # None
<1>1. Purchased(h) \subseteq Rows /\ LostIn(h) \subseteq Rows
  BY DEF Purchased, LostIn, Rows
<1>2. Cardinality(Purchased(h)) \in Nat /\ Cardinality(LostIn(h)) \in Nat
  BY <1>1, FS_Subset, FS_CardinalityType DEF RecoveryTypeInv
<1>3. FreshPnL(h) \in PnLRow
  BY <1>2 DEF FreshPnL, PnLRow
<1> QED BY <1>3, NoneAssumption

LEMMA SaveStepType ==
  ASSUME RecoveryTypeInv, SaveStep
  PROVE  ReporterTypeOK' /\ IsFiniteSet(Rows')
<1> USE DEF RecoveryTypeInv, RecoveryTypeOK, ReporterTypeOK
<1>1. ASSUME NEW p \in Pairs, SaveBlockPair(p)
      PROVE  ReporterTypeOK' /\ IsFiniteSet(Rows')
  <2>1. saving # None /\ saving.report.type = "BLOCK"
    BY <1>1 DEF SaveBlockPair, Saving
  <2>2. saving' \in Save \cup {None}
    <3> DEFINE rest == saving.report.pairs \ {p}
               report == [saving.report EXCEPT !.pairs = rest]
    <3>1. saving \in Save /\ saving.report \in [type: {"BLOCK"}, pairs: SUBSET Pairs]
      BY <2>1, SavingFacts
    <3>2. report \in ReportData
      BY <3>1 DEF ReportData
    <3>3. saving' = None \/ saving' = [saving EXCEPT !.report = report]
      BY <1>1, <3>1 DEF SaveBlockPair, Save
    <3> HIDE DEF report
    <3> QED BY <3>1, <3>2, <3>3 DEF Save
  <2>3. pair_rows' \in [Pairs -> {"absent", "bare", "full"}]
    BY <1>1 DEF SaveBlockPair
  <2>4. Rows' = Rows
    BY <1>1 DEF SaveBlockPair, Rows
  <2> QED BY <1>1, <2>2, <2>3, <2>4 DEF SaveBlockPair
<1>2. CASE SavePairOfPosition
  <2>1. saving # None
    BY <1>2 DEF SavePairOfPosition, Saving
  <2>2. saving' \in Save
    BY <1>2, <2>1, SavingFacts DEF SavePairOfPosition
  <2>3. pair_rows' \in [Pairs -> {"absent", "bare", "full"}]
    BY <1>2 DEF SavePairOfPosition
  <2>4. Rows' = Rows
    BY <1>2 DEF SavePairOfPosition, Rows
  <2> QED BY <1>2, <2>2, <2>3, <2>4 DEF SavePairOfPosition
<1>3. CASE SavePositionRow
  <2>1. saving # None
    BY <1>3 DEF SavePositionRow, Saving
  <2>2. saving' \in Save
    BY <1>3, <2>1, SavingFacts DEF SavePositionRow
  <2>3. position_rows' \in [Pairs -> PositionRow \cup {None}] /\ IsFiniteSet(Rows')
    <3>1. CASE UNCHANGED position_rows
      BY <3>1 DEF Rows
    <3>2. ASSUME NEW p \in Pairs, NEW row \in PositionRow,
                 position_rows' = [position_rows EXCEPT ![p] = row]
          PROVE  position_rows' \in [Pairs -> PositionRow \cup {None}] /\ IsFiniteSet(Rows')
      BY <3>2, RowsGrow
    <3> QED BY <1>3, <3>1, <3>2, PositionRowEffect
  <2>4. hour' \in Hours
    BY <1>3, PositionRowEffect
  <2> QED BY <1>3, <2>2, <2>3, <2>4 DEF SavePositionRow
<1>4. CASE SaveStats
  <2>1. saving # None /\ saving.report.type = "EXECUTION"
    BY <1>4 DEF SaveStats, Saving
  <2>2. saving.report.ack.pair \in Pairs
    BY <2>1, SavingFacts
  <2>3. torn' \subseteq Pairs
    BY <1>4, <2>2 DEF SaveStats
  <2>4. \A h : FreshPnL(h) \in PnLRow
    BY FreshType
  <2>5. pnl_rows' \in [Hours -> PnLRow \cup {None}]
    <3> DEFINE row == position_rows[saving.report.ack.pair]
               h == row.created_at
               old == pnl_rows[h]
    <3>1. UNCHANGED pnl_rows \/
          pnl_rows' = [pnl_rows EXCEPT ![h] = IF old = None THEN FreshPnL(h)
                                              ELSE Recount(row, old)]
      BY <1>4 DEF SaveStats
    <3>2. \A o \in PnLRow : Recount(row, o) \in PnLRow
      <4> SUFFICES ASSUME NEW o \in PnLRow PROVE Recount(row, o) \in PnLRow
        OBVIOUS
      <4>1. FreshPnL(h).number_failed \in Nat /\ FreshPnL(h).number_positions \in Nat
        BY <2>4 DEF PnLRow
      <4> HIDE DEF h
      <4>2. /\ [o EXCEPT !.number_failed = FreshPnL(h).number_failed] \in PnLRow
            /\ [o EXCEPT !.number_positions = FreshPnL(h).number_positions] \in PnLRow
        BY <4>1 DEF PnLRow
      <4> QED BY <4>2 DEF Recount, h
    <3> HIDE DEF row, h
    <3>3. ASSUME NEW new \in PnLRow
          PROVE  [pnl_rows EXCEPT ![h] = new] \in [Hours -> PnLRow \cup {None}]
      OBVIOUS
    <3>4. CASE h \in Hours
      <4>1. old \in PnLRow \cup {None}
        BY <3>4
      <4> QED BY <2>4, <3>1, <3>2, <3>3, <4>1
    <3>5. CASE h \notin Hours
      <4>1. \A new : [pnl_rows EXCEPT ![h] = new] = pnl_rows
        BY <3>5
      <4> QED BY <3>1, <4>1
    <3> QED BY <3>4, <3>5
  <2>6. Rows' = Rows
    BY <1>4 DEF SaveStats, Rows
  <2> QED BY <1>4, <2>3, <2>5, <2>6 DEF SaveStats
<1>5. CASE SaveBlacklist
  <2>1. saving # None /\ saving.report.type = "BLACKLIST_ADDED"
    BY <1>5 DEF SaveBlacklist, Saving
  <2>2. saving.report.creator_of \in Pairs
    BY <2>1, SavingFacts
  <2>3. CreatorOf[saving.report.creator_of] \in Creators
    BY <2>2, ReporterAssumption
  <2>4. torn' \subseteq Pairs /\ blacklist' \subseteq Creators
    BY <1>5, <2>2, <2>3 DEF SaveBlacklist
  <2>5. Rows' = Rows
    BY <1>5 DEF SaveBlacklist, Rows
  <2> QED BY <1>5, <2>4, <2>5 DEF SaveBlacklist
<1> QED BY <1>1, <1>2, <1>3, <1>4, <1>5 DEF SaveStep

LEMMA RecoveryTypeStep == RecoveryTypeInv /\ [RecoveryNext]_recoveryVars => RecoveryTypeInv'
<1> SUFFICES ASSUME RecoveryTypeInv, [RecoveryNext]_recoveryVars PROVE RecoveryTypeInv'
  OBVIOUS
<1>1. CASE Restart
  BY <1>1, RestartType
<1>2. CASE ~ Restart
  <2>1. TypeOK'
    BY <1>2, StepIsTrading, TypeNext DEF RecoveryTypeInv, RecoveryTypeOK
  <2>2. crashes' \in Nat /\ ReporterTypeOK' /\ IsFiniteSet(Rows')
    <3>1. CASE Trade \/ UNCHANGED recoveryVars
      BY <3>1 DEF Trade, recoveryVars, reporterVars, RecoveryTypeInv, RecoveryTypeOK,
                  ReporterTypeOK, Rows
    <3>2. CASE ReporterTask(TakeFirstReport)
      <4>1. [report |-> Head(report_broker), step |-> "pair"] \in Save
        BY <3>2, TailFacts DEF ReporterTask, TakeFirstReport, Save, RecoveryTypeInv,
                               RecoveryTypeOK, TypeOK, QueuesTypeOK
      <4> QED BY <3>2, <4>1 DEF ReporterTask, TakeFirstReport, RecoveryTypeInv,
                                RecoveryTypeOK, ReporterTypeOK, Rows
    <3>3. CASE ReporterTask(SaveStep)
      BY <3>3, SaveStepType DEF ReporterTask, RecoveryTypeInv, RecoveryTypeOK
    <3>4. CASE ReporterTask(SaveFails)
      <4>1. torn' \subseteq Pairs
        BY <3>4, SavingFacts, ReportKinds DEF ReporterTask, SaveFails, RecoveryTypeInv,
                                              RecoveryTypeOK, ReporterTypeOK
      <4> QED BY <3>4, <4>1 DEF ReporterTask, SaveFails, RecoveryTypeInv, RecoveryTypeOK,
                                ReporterTypeOK, Rows
    <3>5. CASE ClockTick
      <4>1. hour' \in Hours
        BY <3>5, ReporterAssumption DEF ClockTick, HourPasses, Hours, RecoveryTypeInv,
                                        RecoveryTypeOK, ReporterTypeOK
      <4> QED BY <3>5, <4>1 DEF ClockTick, HourPasses, RecoveryTypeInv, RecoveryTypeOK,
                                ReporterTypeOK, Rows
    <3> QED BY <1>2, <3>1, <3>2, <3>3, <3>4, <3>5 DEF RecoveryNext
  <2> QED BY <2>1, <2>2 DEF RecoveryTypeInv, RecoveryTypeOK
<1> QED BY <1>1, <1>2

(***************************************************************************)
(* The tables, the report being saved and the trading system keep their    *)
(* types over every failing query and every restart.                       *)
(***************************************************************************)
THEOREM RecoveryTypeSafe == RecoverySpec => []RecoveryTypeOK
<1>1. RecoveryTypeInv => RecoveryTypeOK
  BY DEF RecoveryTypeInv
<1> QED BY RecoveryTypeInit, RecoveryTypeStep, <1>1, PTL DEF RecoverySpec

-----------------------------------------------------------------------------
(* The acknowledgements that are still to be stored.                       *)

Queued == {r.ack : r \in {u \in ToSet(report_broker) : u.type = "EXECUTION"}}

InSave == IF saving # None /\ saving.report.type = "EXECUTION"
          THEN {saving.report.ack} ELSE {}

LEMMA QueuedAfterAppend ==
  ASSUME NEW s \in Seq(ReportData), NEW r \in ReportData,
         report_broker = s, report_broker' = Append(s, r)
  PROVE  Queued' = Queued \cup (IF r.type = "EXECUTION" THEN {r.ack} ELSE {})
<1>1. ToSet(report_broker') = ToSet(report_broker) \cup {r}
  BY AppendFacts
<1> QED BY <1>1 DEF Queued

(* The reports of a pair.                                                  *)
IsBuy(r, p) == r.type = "EXECUTION" /\ r.ack.is_buy /\ r.ack.pair = p
IsSell(r, p) == r.type = "EXECUTION" /\ ~ r.ack.is_buy /\ r.ack.pair = p
IsFailedSell(r, p) == IsSell(r, p) /\ r.ack.tx_status = "FAILED"
IsFreeze(r, p) == r.type = "BLACKLIST_ADDED" /\ r.creator_of = p

(* What the main process appends to the queue of the reports.              *)
LEMMA TradeQueue ==
  ASSUME RecoveryTypeOK, Trade
  PROVE  \/ ~ StrategyTask(HandleExecutionReport) /\ UNCHANGED report_broker
         \/ /\ ~ StrategyTask(HandleExecutionReport)
            /\ \E told \in ReportData :
                  told.type = "BLOCK" /\ report_broker' = Append(report_broker, told)
         \/ /\ StrategyTask(HandleExecutionReport)
            /\ \E stored \in ReportData :
                  /\ stored.type = "EXECUTION" /\ stored.ack = Head(execution_report)
                  /\ \/ report_broker' = Append(report_broker, stored)
                     \/ \E frozen \in ReportData :
                           /\ frozen.type = "BLACKLIST_ADDED"
                           /\ IsFailedSell(stored, frozen.creator_of)
                           /\ report_broker' = Append(Append(report_broker, stored), frozen)
<1>1. report_broker \in Seq(ReportData)
  BY DEF RecoveryTypeOK, TypeOK, QueuesTypeOK
<1>2. CASE StrategyTask(HandleExecutionReport)
  <2> DEFINE ack == Head(execution_report)
             stored == [type |-> "EXECUTION", ack |-> ack]
             frozen == [type |-> "BLACKLIST_ADDED", creator_of |-> ack.pair]
  <2>1. ack \in ExecutionAck
    BY <1>2, AckLists DEF RecoveryTypeOK
  <2>2. /\ stored \in ReportData /\ stored.type = "EXECUTION" /\ stored.ack = ack
        /\ frozen \in ReportData /\ frozen.type = "BLACKLIST_ADDED"
        /\ frozen.creator_of = ack.pair
    BY <2>1 DEF ReportData, ExecutionAck
  <2>3. \/ report_broker' = Append(report_broker, stored) \o <<>>
        \/ /\ ~ ack.is_buy /\ ack.tx_status = "FAILED"
           /\ report_broker' = Append(report_broker, stored) \o <<frozen>>
    BY <1>2 DEF StrategyTask, HandleExecutionReport, BuySucceeded, BuyFailed, SellSucceeded,
                SellFailed, ReceiveAck, Received
  <2> HIDE DEF stored, frozen, ack
  <2> DEFINE longer == Append(report_broker, stored)
  <2>4. longer \in Seq(ReportData)
    BY <1>1, <2>2, AppendFacts
  <2> HIDE DEF longer
  <2>5. longer \o <<>> = longer /\ longer \o <<frozen>> = Append(longer, frozen)
    BY <2>2, <2>4
  <2>6. CASE report_broker' = longer
    BY <1>2, <2>2, <2>6 DEF longer, ack
  <2>7. CASE /\ ~ ack.is_buy /\ ack.tx_status = "FAILED"
             /\ report_broker' = Append(longer, frozen)
    <3>1. IsFailedSell(stored, frozen.creator_of)
      BY <2>2, <2>7 DEF IsFailedSell, IsSell
    <3> QED BY <1>2, <2>2, <2>7, <3>1 DEF longer, ack
  <2> QED BY <2>3, <2>5, <2>6, <2>7 DEF longer
<1>3. StrategyTask(ReceiveBlock) =>
         \/ UNCHANGED report_broker
         \/ \E told \in ReportData :
               told.type = "BLOCK" /\ report_broker' = Append(report_broker, told)
  <2> SUFFICES ASSUME StrategyTask(ReceiveBlock)
               PROVE  \/ UNCHANGED report_broker
                      \/ \E told \in ReportData :
                            told.type = "BLOCK" /\ report_broker' = Append(report_broker, told)
    OBVIOUS
  <2> DEFINE told == [type |-> "BLOCK", pairs |-> block'.pairs]
  <2>1. block' \in BlockData
    BY TailFacts DEF StrategyTask, ReceiveBlock, RecoveryTypeOK, TypeOK, QueuesTypeOK
  <2>2. told \in ReportData /\ told.type = "BLOCK"
    BY <2>1 DEF ReportData, BlockData
  <2>3. report_broker' = report_broker \/ report_broker' = Append(report_broker, told)
    BY DEF StrategyTask, ReceiveBlock
  <2> HIDE DEF told
  <2> QED BY <2>2, <2>3
<1>4. StrategyTask(Pass) => UNCHANGED report_broker
  BY DEF StrategyTask, Pass, LiquidateNext, HardStop, GoOn, InspectDone, PurgeNext,
     PurgeDone, InspectionFails, InspectionPasses, Reject, Watch, BuyAtOnce, Admitted, queues
<1>5. (ControlTask \/ OtherTask(NewHead) \/ OtherTask(ListenReport)
         \/ ExecutorProcess(ExecutorNext))
      => UNCHANGED report_broker
  BY DEF ControlTask, HandleControlOrder, OtherTask, NewHead, ListenReport, ExecutorProcess,
         ExecutorNext, Take, Drop, Receive, Settle, Answer, Vanish, queues
<1> QED BY <1>2, <1>3, <1>4, <1>5 DEF Trade

(* What it leaves to be stored.                                            *)
LEMMA TradeReports ==
  ASSUME RecoveryTypeOK, Trade
  PROVE  /\ InSave' = InSave /\ Rows' = Rows
         /\ UNCHANGED <<saving, torn, position_rows, pnl_rows, blacklist>>
         /\ \/ Queued' = Queued /\ ~ StrategyTask(HandleExecutionReport)
            \/ /\ StrategyTask(HandleExecutionReport)
               /\ Head(execution_report) \in ExecutionAck
               /\ Queued' = Queued \cup {Head(execution_report)}
<1> DEFINE s == report_broker
<1>1. UNCHANGED <<saving, torn, position_rows, pnl_rows, blacklist>>
  BY DEF Trade, reporterVars
<1>2. InSave' = InSave /\ Rows' = Rows
  BY <1>1 DEF InSave, Rows
<1>3. s \in Seq(ReportData)
  BY DEF RecoveryTypeOK, TypeOK, QueuesTypeOK
<1>4. UNCHANGED report_broker => Queued' = Queued
  BY DEF Queued
<1>5. ASSUME NEW told \in ReportData, told.type = "BLOCK", s' = Append(s, told)
      PROVE  Queued' = Queued
  BY <1>3, <1>5, QueuedAfterAppend
<1>6. StrategyTask(HandleExecutionReport) => Head(execution_report) \in ExecutionAck
  BY AckLists DEF RecoveryTypeOK
<1>7. ASSUME NEW stored \in ReportData, stored.type = "EXECUTION", s' = Append(s, stored)
      PROVE  Queued' = Queued \cup {stored.ack}
  BY <1>3, <1>7, QueuedAfterAppend
<1>8. ASSUME NEW stored \in ReportData, stored.type = "EXECUTION",
             NEW frozen \in ReportData, frozen.type = "BLACKLIST_ADDED",
             s' = Append(Append(s, stored), frozen)
      PROVE  Queued' = Queued \cup {stored.ack}
  <2> DEFINE l == Append(s, stored)
  <2>1. l \in Seq(ReportData) /\ ToSet(l) = ToSet(s) \cup {stored}
    BY <1>3, AppendFacts
  <2>2. s' = Append(l, frozen)
    BY <1>8
  <2> HIDE DEF l
  <2>3. ToSet(s') = ToSet(s) \cup {stored, frozen}
    BY <2>1, <2>2, AppendFacts
  <2> QED BY <1>8, <2>3 DEF Queued
<1> QED BY <1>1, <1>2, <1>4, <1>5, <1>6, <1>7, <1>8, TradeQueue

(* What the reporter has stored after a step of its own.                   *)
LEMMA TakeReports ==
  ASSUME RecoveryTypeOK, ReporterTask(TakeFirstReport)
  PROVE  /\ InSave = {}
         /\ Queued = Queued' \cup InSave'
         /\ UNCHANGED <<torn, position_rows, pnl_rows, blacklist>> /\ Rows' = Rows
         /\ saving' \in Save
         /\ saving' = [report |-> Head(report_broker), step |-> "pair"]
<1>1. /\ report_broker # <<>> /\ report_broker' = Tail(report_broker)
      /\ report_broker \in Seq(ReportData)
      /\ saving = None /\ saving' = [report |-> Head(report_broker), step |-> "pair"]
      /\ UNCHANGED <<torn, position_rows, pnl_rows, blacklist>>
  BY DEF ReporterTask, TakeFirstReport, RecoveryTypeOK, TypeOK, QueuesTypeOK
<1>2. /\ Head(report_broker) \in ReportData
      /\ ToSet(report_broker) = {Head(report_broker)} \cup ToSet(report_broker')
  BY <1>1, TailFacts
<1>3. saving' \in Save
  BY <1>1, <1>2 DEF Save
<1>4. saving' # None /\ saving'.report = Head(report_broker)
  BY <1>1, <1>3, NoneAssumption
<1>5. Queued = Queued' \cup InSave'
  <2>1. InSave' = IF Head(report_broker).type = "EXECUTION"
                  THEN {Head(report_broker).ack} ELSE {}
    BY <1>4 DEF InSave
  <2> QED BY <1>2, <2>1 DEF Queued
<1> QED BY <1>1, <1>3, <1>5 DEF InSave, Rows

(* The steps of a save, each with what it changes.                         *)
LEMMA SaveReports ==
  ASSUME RecoveryTypeInv, ReporterTask(SaveStep) \/ ReporterTask(SaveFails)
  PROVE  /\ Queued' = Queued /\ UNCHANGED report_broker
         /\ torn \subseteq torn'
         /\ saving # None
         /\ \/ /\ SavePositionRow
               /\ saving' \in Save /\ saving' # None
               /\ saving'.report = saving.report /\ saving'.step = "stats"
               /\ InSave' = InSave /\ InSave = {saving.report.ack}
               /\ UNCHANGED <<torn, pnl_rows, blacklist>>
            \/ /\ UNCHANGED position_rows /\ Rows' = Rows
               /\ \/ /\ saving.report.type # "EXECUTION"
                     /\ InSave = {} /\ InSave' = {}
                     /\ \/ saving' = None
                        \/ /\ saving' \in Save /\ saving' # None
                           /\ saving.report.type = "BLOCK" /\ saving'.report.type = "BLOCK"
                     /\ UNCHANGED <<pnl_rows, hour>>
                     /\ \/ UNCHANGED blacklist
                        \/ /\ saving.report.type = "BLACKLIST_ADDED"
                           /\ blacklist' = blacklist \cup {CreatorOf[saving.report.creator_of]}
                  \/ /\ InSave' = InSave /\ InSave = {saving.report.ack}
                     /\ saving' \in Save /\ saving' # None
                     /\ saving'.report = saving.report /\ saving'.step = "position"
                     /\ saving.step = "pair"
                     /\ UNCHANGED <<torn, pnl_rows, blacklist, hour>>
                  \/ /\ InSave = {saving.report.ack} /\ InSave' = {} /\ saving' = None
                     /\ \/ SaveStats
                        \/ saving.report.ack.pair \in torn' /\ UNCHANGED pnl_rows
                     /\ UNCHANGED <<blacklist, hour>>
<1>1. saving # None
  BY DEF ReporterTask, SaveStep, SaveFails, SaveBlockPair, SavePairOfPosition,
         SavePositionRow, SaveStats, SaveBlacklist, Saving
<1>2. UNCHANGED report_broker
  BY DEF ReporterTask, SaveStep, SaveFails, SaveBlockPair, SavePairOfPosition,
         SavePositionRow, SaveStats, SaveBlacklist, Saving
<1>3. Queued' = Queued
  BY <1>2 DEF Queued
<1>4. torn \subseteq torn'
  BY DEF ReporterTask, SaveStep, SaveFails, SaveBlockPair, SavePairOfPosition,
         SavePositionRow, SaveStats, SaveBlacklist
<1>5. RecoveryTypeOK
  BY DEF RecoveryTypeInv
<1>6. ASSUME NEW p \in Pairs, SaveBlockPair(p)
      PROVE  /\ UNCHANGED <<position_rows, pnl_rows, blacklist, hour>>
             /\ saving.report.type # "EXECUTION"
             /\ \/ saving' = None
                \/ /\ saving' \in Save /\ saving' # None
                   /\ saving.report.type = "BLOCK" /\ saving'.report.type = "BLOCK"
  <2> DEFINE rest == saving.report.pairs \ {p}
             report == [saving.report EXCEPT !.pairs = rest]
  <2>1. saving.report.type = "BLOCK"
    BY <1>6 DEF SaveBlockPair, Saving
  <2>2. saving \in Save /\ saving.report \in [type: {"BLOCK"}, pairs: SUBSET Pairs]
    BY <1>1, <1>5, <2>1, SavingFacts
  <2>3. report \in ReportData /\ report.type = "BLOCK"
    BY <2>2 DEF ReportData
  <2>4. saving' = None \/ saving' = [saving EXCEPT !.report = report]
    BY <1>6, <2>2 DEF SaveBlockPair, Save
  <2> HIDE DEF report
  <2>5. [saving EXCEPT !.report = report] \in Save
        /\ [saving EXCEPT !.report = report].report = report
    BY <2>2, <2>3 DEF Save
  <2> QED BY <1>6, <2>1, <2>3, <2>4, <2>5, NoneAssumption DEF SaveBlockPair
<1>7. \A step \in {"pair", "position", "stats"} :
         /\ [saving EXCEPT !.step = step] \in Save
         /\ [saving EXCEPT !.step = step] # None
         /\ [saving EXCEPT !.step = step].report = saving.report
         /\ [saving EXCEPT !.step = step].step = step
  BY <1>1, <1>5, SavingFacts, NoneAssumption
<1>8. CASE SavePositionRow
  <2>1. saving.report.type = "EXECUTION" /\ saving' = [saving EXCEPT !.step = "stats"]
    BY <1>8 DEF SavePositionRow, Saving
  <2>2. saving' \in Save /\ saving' # None
        /\ saving'.report = saving.report /\ saving'.step = "stats"
    BY <1>7, <2>1
  <2> QED BY <1>1, <1>2, <1>3, <1>4, <1>8, <2>1, <2>2 DEF InSave, SavePositionRow
<1>9. ASSUME NEW p \in Pairs, SaveBlockPair(p)
      PROVE  /\ UNCHANGED <<position_rows, pnl_rows, blacklist, hour>>
             /\ Rows' = Rows
             /\ saving.report.type # "EXECUTION"
             /\ InSave = {} /\ InSave' = {}
             /\ \/ saving' = None
                \/ /\ saving' \in Save /\ saving' # None
                   /\ saving.report.type = "BLOCK" /\ saving'.report.type = "BLOCK"
  BY <1>6, <1>9 DEF InSave, Rows
<1>10. CASE SavePairOfPosition
  <2>1. saving.report.type = "EXECUTION" /\ saving' = [saving EXCEPT !.step = "position"]
        /\ saving.step = "pair"
        /\ UNCHANGED <<position_rows, pnl_rows, blacklist, torn, hour>>
    BY <1>10 DEF SavePairOfPosition, Saving
  <2>2. saving' \in Save /\ saving' # None
        /\ saving'.report = saving.report /\ saving'.step = "position"
    BY <1>7, <2>1
  <2> QED BY <1>1, <1>2, <1>3, <1>4, <2>1, <2>2 DEF InSave, Rows
<1>11. CASE SaveStats
  <2>1. saving.report.type = "EXECUTION" /\ saving' = None
        /\ UNCHANGED <<position_rows, blacklist, hour>>
    BY <1>11 DEF SaveStats, Saving
  <2> QED BY <1>1, <1>2, <1>3, <1>4, <1>11, <2>1 DEF InSave, Rows
<1>12. CASE SaveBlacklist
  <2>1. saving.report.type = "BLACKLIST_ADDED" /\ saving' = None
        /\ UNCHANGED <<position_rows, pnl_rows, hour>>
        /\ \/ UNCHANGED blacklist
           \/ blacklist' = blacklist \cup {CreatorOf[saving.report.creator_of]}
    BY <1>12 DEF SaveBlacklist, Saving
  <2> QED BY <1>1, <1>2, <1>3, <1>4, <2>1 DEF InSave, Rows
<1>13. CASE SaveFails
  <2>1. saving' = None /\ UNCHANGED <<position_rows, pnl_rows, blacklist, hour>>
        /\ torn' = torn \cup PairsOf(saving.report)
    BY <1>13 DEF SaveFails
  <2>2. CASE saving.report.type = "EXECUTION"
    <3>1. PairsOf(saving.report) = {saving.report.ack.pair}
      BY <2>2 DEF PairsOf
    <3> QED BY <1>1, <1>2, <1>3, <1>4, <2>1, <2>2, <3>1 DEF InSave, Rows
  <2>3. CASE saving.report.type # "EXECUTION"
    <3>1. InSave = {} /\ InSave' = {} /\ Rows' = Rows
      BY <2>1, <2>3 DEF InSave, Rows
    <3> QED BY <1>1, <1>2, <1>3, <1>4, <2>1, <2>3, <3>1
  <2> QED BY <2>2, <2>3
<1> QED BY <1>1, <1>2, <1>3, <1>4, <1>8, <1>9, <1>10, <1>11, <1>12, <1>13
    DEF ReporterTask, SaveStep

-----------------------------------------------------------------------------
(* What is sold and stored is gone for good.                               *)

Reports == Queued \cup InSave

\* The pairs with a sell that is stored or still to be stored.
Gone(p) ==
  \/ p \in Rows /\ position_rows[p].is_liquidated
  \/ \E ack \in Reports : ack.pair = p /\ ~ ack.is_buy

\* What the database knows was announced, and what is gone is in no place of
\* the trading system, not even among the pairs that may yet be announced.
SoldInv ==
  /\ RecoveryTypeInv
  /\ PlaceInv
  /\ Rows \cup {ack.pair : ack \in Reports} \subseteq announced
  /\ \A p \in Pairs : Gone(p) => p \notin Live(Place)

(* After a restart a pair is restored, or it is not announced yet.         *)
LEMMA RestartPlaces ==
  ASSUME SoldInv, Restart
  PROVE  /\ PlaceInv'
         /\ Live(Place') \subseteq (Pairs \ announced) \cup {p \in Pairs : IsOpen(p)}
         /\ Restoring' \subseteq {p \in Pairs : IsOpen(p)}
<1>1. /\ watching_broker' = <<>> /\ execution_broker' = <<>> /\ execution_report' = <<>>
      /\ glb_watchlist' = <<>> /\ glb_inventory' = <<>> /\ taken' = {} /\ pc' = "get"
      /\ announced' = announced
  BY DEF Restart
<1>2. PairsIn(<<>>) = {} /\ Distinct(<<>>)
  BY DEF PairsIn, Distinct
<1>3. Told' = {} /\ Pending' = {} /\ Executed' = {}
  BY <1>1 DEF Told, Pending, Executed
<1>4. Restoring' \subseteq {p \in Pairs : IsOpen(p)}
  BY RestartSends DEF Restoring, SoldInv
<1>5. {p \in Pairs : IsOpen(p)} \subseteq announced
  BY DEF SoldInv, IsOpen, Rows
<1>6. \A n \in Places \ {"unannounced", "restoring"} : Place'[n] = {}
  BY <1>1, <1>2, <1>3, PlaceDefsAfter DEF Places
<1>7. Place'["unannounced"] = Pairs \ announced /\ Place'["restoring"] = Restoring'
  BY <1>1, PlaceDefsAfter
<1>8. Apart(Place')
  <2>1. Place'["unannounced"] \cap Place'["restoring"] = {}
    BY <1>4, <1>5, <1>7
  <2> HIDE DEF Place, Places
  <2> QED BY <1>6, <2>1 DEF Apart
<1>9. Live(Place') \subseteq (Pairs \ announced) \cup {p \in Pairs : IsOpen(p)}
  <2> HIDE DEF Place, Places
  <2> QED BY <1>4, <1>6, <1>7 DEF Live
<1>10. NoPairTwice'
  <2>1. /\ \A i, j \in DOMAIN control_receiver' : i = j
        /\ \A i \in DOMAIN control_receiver' : Distinct(control_receiver'[i])
    BY RestartSends DEF SoldInv
  <2> QED BY <1>1, <1>2, <2>1 DEF NoPairTwice
<1>11. TypeOK'
  BY RestartType DEF SoldInv, RecoveryTypeInv, RecoveryTypeOK
<1> QED BY <1>4, <1>8, <1>9, <1>10, <1>11 DEF PlaceInv

(* A pair whose acknowledgement opens no position is in no place any more. *)
LEMMA AckEnds ==
  ASSUME PlaceInv, StrategyTask(HandleExecutionReport)
  PROVE  /\ Head(execution_report).pair \in announced
         /\ ~ Opens(Head(execution_report)) =>
               \A p : p = Head(execution_report).pair => p \notin Live(Place')
<1> DEFINE ack == Head(execution_report)
<1>1. /\ execution_report # <<>> /\ execution_report' = Tail(execution_report)
      /\ UNCHANGED <<watching_broker, execution_broker, control_receiver, announced,
                     taken, glb_watchlist, pc, block, inspecting>>
  BY DEF StrategyTask, HandleExecutionReport, BuySucceeded, BuyFailed, SellSucceeded,
         SellFailed, ReceiveAck, executorVars, watcherVars
<1>2. ack.pair \in PairsIn(execution_report) /\ ack.pair \notin PairsIn(execution_report')
  BY <1>1, TailPairs DEF PlaceInv, TypeOK, QueuesTypeOK, NoPairTwice
<1>3. ~ Opens(ack) => UNCHANGED glb_inventory
  BY AckLists DEF PlaceInv
<1>4. ack \in ExecutionAck
  BY AckLists DEF PlaceInv
<1> HIDE DEF ack
<1>5. \A n \in Places \ {"answered"} : ack.pair \notin Place[n]
  BY <1>2, PlaceDefs DEF PlaceInv, Apart, Places
<1>6. ack.pair \in announced
  <2>1. ack.pair \in Pairs /\ "unannounced" \in Places \ {"answered"}
    BY <1>4 DEF ExecutionAck, Places
  <2> QED BY <1>5, <2>1, PlaceDefs
<1>7. Told' = Told /\ Pending' = Pending /\ Executed' = Executed /\ Restoring' = Restoring
  BY <1>1 DEF Told, Pending, Executed, Restoring
<1>8. ASSUME ~ Opens(ack)
      PROVE  ack.pair \notin Live(Place')
  <2>1. \A n \in Places \ {"answered"} : Place'[n] = Place[n]
    BY <1>1, <1>3, <1>7, <1>8, PlaceDefs, PlaceDefsAfter DEF Places
  <2>2. ack.pair \notin Place'["answered"]
    BY <1>2, PlaceDefsAfter
  <2> HIDE DEF Place, Places
  <2> QED BY <1>5, <2>1, <2>2 DEF Live
<1> QED BY <1>6, <1>8 DEF ack

LEMMA AnnouncedGrows ==
  ASSUME [RecoveryNext]_recoveryVars
  PROVE  announced \subseteq announced'
<1>1. CASE Restart
  BY <1>1 DEF Restart
<1>2. CASE [Next]_vars
  BY <1>2 DEF Next, StrategyTask, ControlTask, OtherTask, NewHead, ListenReport,
              ExecutorProcess, watcherVars, vars
<1> QED BY <1>1, <1>2, StepIsTrading

(* What is gone after a step was gone before, but for the sell that is     *)
(* acknowledged in it.                                                     *)
LEMMA GoneGrows ==
  ASSUME RecoveryTypeInv, [RecoveryNext]_recoveryVars, ~ Restart
  PROVE  /\ \A p : Gone(p)' =>
               \/ Gone(p)
               \/ /\ StrategyTask(HandleExecutionReport)
                  /\ Head(execution_report).pair = p
                  /\ ~ Head(execution_report).is_buy
         /\ \/ Rows' \cup {ack.pair : ack \in Reports'}
                  \subseteq Rows \cup {ack.pair : ack \in Reports}
            \/ /\ StrategyTask(HandleExecutionReport)
               /\ Rows' \cup {ack.pair : ack \in Reports'} \subseteq
                     Rows \cup {ack.pair : ack \in Reports} \cup {Head(execution_report).pair}
<1>1. CASE Trade
  BY <1>1, TradeReports DEF RecoveryTypeInv, Trade, reporterVars, Gone, Reports
<1>2. CASE ReporterTask(TakeFirstReport)
  <2>1. Reports' = Reports /\ Rows' = Rows /\ UNCHANGED position_rows
    BY <1>2, TakeReports DEF RecoveryTypeInv, Reports
  <2> QED BY <2>1 DEF Gone
<1>3. CASE ClockTick \/ UNCHANGED recoveryVars
  <2>1. UNCHANGED <<report_broker, saving, position_rows>>
    BY <1>3 DEF ClockTick, HourPasses, recoveryVars, vars, queues, reporterVars
  <2>2. Reports' = Reports /\ Rows' = Rows
    BY <2>1 DEF Reports, Queued, InSave, Rows
  <2> QED BY <2>1, <2>2 DEF Gone
<1>4. CASE (ReporterTask(SaveStep) \/ ReporterTask(SaveFails)) /\ ~ SavePositionRow
  <2>1. Reports' \subseteq Reports /\ Rows' = Rows /\ UNCHANGED position_rows
    BY <1>4, SaveReports DEF Reports
  <2> QED BY <2>1 DEF Gone
<1>5. CASE (ReporterTask(SaveStep) \/ ReporterTask(SaveFails)) /\ SavePositionRow
  <2> DEFINE ack == saving.report.ack
             q == ack.pair
             row == position_rows[q]
  <2>1. Queued' = Queued /\ InSave' = InSave /\ ack \in Reports
    <3>1. saving.report.type = "EXECUTION" /\ saving # None
      BY <1>5 DEF SavePositionRow, Saving
    <3>2. saving'.report = saving.report /\ saving' # None
      BY <1>5, SavingFacts, NoneAssumption DEF SavePositionRow, Saving, RecoveryTypeInv
    <3>3. UNCHANGED report_broker
      BY <1>5 DEF SavePositionRow, Saving
    <3> QED BY <3>1, <3>2, <3>3 DEF Queued, InSave, Reports
  <2>2. Reports' = Reports
    BY <2>1 DEF Reports
  <2> HIDE DEF ack
  <2>3. q \in Pairs /\ position_rows \in [Pairs -> PositionRow \cup {None}]
    BY <1>5, PositionRowEffect DEF RecoveryTypeInv, RecoveryTypeOK, ReporterTypeOK, ack
  <2>4. \A p : p # q => (p \in Rows' <=> p \in Rows)
               /\ (p \in Rows => position_rows'[p] = position_rows[p])
    <3>1. \/ \E new : position_rows' = [position_rows EXCEPT ![q] = new]
          \/ position_rows' = position_rows
      BY <1>5, PositionRowEffect DEF ack
    <3> QED BY <2>3, <3>1 DEF Rows
  <2>5. q \in Rows' /\ position_rows'[q].is_liquidated => Gone(q)
    <3> SUFFICES ASSUME q \in Rows', position_rows'[q].is_liquidated, ack.is_buy
                 PROVE  q \in Rows /\ position_rows[q].is_liquidated
      BY <2>1 DEF Gone
    <3>1. CASE position_rows' = [position_rows EXCEPT ![q] = NewRow(ack, hour')]
      BY <2>3, <3>1 DEF NewRow
    <3>2. CASE position_rows' = position_rows
      BY <3>2 DEF Rows
    <3>3. ~ Closes(row, ack)
      BY DEF Closes
    <3> QED BY <1>5, <3>1, <3>2, <3>3, PositionRowEffect DEF ack
  <2>6. \A p : Gone(p)' => Gone(p)
    BY <2>2, <2>4, <2>5 DEF Gone
  <2>7. Rows' \subseteq Rows \cup {q}
    BY <2>4
  <2> QED BY <2>1, <2>2, <2>6, <2>7
<1> QED BY <1>1, <1>2, <1>3, <1>4, <1>5 DEF RecoveryNext

LEMMA SoldInit == RecoveryInit => SoldInv
<1> SUFFICES ASSUME RecoveryInit PROVE SoldInv
  OBVIOUS
<1>1. report_broker = <<>> /\ saving = None /\ position_rows = [p \in Pairs |-> None]
  BY DEF RecoveryInit, Init, ReporterInit
<1>2. Reports = {} /\ Rows = {}
  BY <1>1 DEF Reports, Queued, InSave, Rows, ToSet
<1>3. \A p : ~ Gone(p)
  BY <1>2 DEF Gone
<1> QED BY <1>2, <1>3, RecoveryTypeInit, PlaceInit DEF SoldInv, RecoveryInit

LEMMA SoldStep == SoldInv /\ [RecoveryNext]_recoveryVars => SoldInv'
<1> SUFFICES ASSUME SoldInv, [RecoveryNext]_recoveryVars PROVE SoldInv'
  OBVIOUS
<1>1. RecoveryTypeInv'
  BY RecoveryTypeStep DEF SoldInv
<1>2. announced \subseteq announced'
  BY AnnouncedGrows
<1>3. CASE Restart
  <2>1. report_broker' = <<>> /\ saving' = None /\ UNCHANGED <<position_rows, announced>>
    BY <1>3 DEF Restart
  <2>2. Reports' = {} /\ Rows' = Rows
    BY <2>1 DEF Reports, Queued, InSave, Rows, ToSet
  <2>3. ASSUME NEW p \in Pairs, Gone(p)'
        PROVE  p \notin Live(Place')
    <3>1. p \in Rows /\ position_rows[p].is_liquidated
      BY <2>1, <2>2, <2>3 DEF Gone
    <3>2. p \in announced /\ ~ IsOpen(p)
      BY <3>1 DEF SoldInv, IsOpen
    <3> QED BY <1>3, <3>2, RestartPlaces
  <2> QED BY <1>1, <1>3, <2>1, <2>2, <2>3, RestartPlaces DEF SoldInv
<1>4. CASE ~ Restart
  <2>1. PlaceInv' /\ Live(Place') \subseteq Live(Place)
    BY <1>4, StepIsTrading, PlaceStep DEF SoldInv, OnlyMoved
  <2>2. ASSUME NEW p \in Pairs, Gone(p)'
        PROVE  p \notin Live(Place')
    <3>1. CASE Gone(p)
      BY <2>1, <3>1 DEF SoldInv
    <3>2. CASE /\ StrategyTask(HandleExecutionReport)
               /\ Head(execution_report).pair = p
               /\ ~ Head(execution_report).is_buy
      BY <3>2, AckEnds DEF SoldInv, Opens
    <3> QED BY <1>4, <2>2, <3>1, <3>2, GoneGrows DEF SoldInv
  <2>3. Rows' \cup {ack.pair : ack \in Reports'} \subseteq announced
    <3>1. StrategyTask(HandleExecutionReport) => Head(execution_report).pair \in announced
      BY AckEnds DEF SoldInv
    <3>2. Rows \cup {ack.pair : ack \in Reports} \subseteq announced
      BY DEF SoldInv
    <3>3. \/ Rows' \cup {ack.pair : ack \in Reports'}
                \subseteq Rows \cup {ack.pair : ack \in Reports}
          \/ /\ StrategyTask(HandleExecutionReport)
             /\ Rows' \cup {ack.pair : ack \in Reports'} \subseteq
                   Rows \cup {ack.pair : ack \in Reports} \cup {Head(execution_report).pair}
      BY <1>4, GoneGrows DEF SoldInv
    <3> QED BY <3>1, <3>2, <3>3
  <2> QED BY <1>1, <1>2, <2>1, <2>2, <2>3 DEF SoldInv
<1> QED BY <1>3, <1>4

(* Whatever is held, ordered, answered or sent by bootstrap() is live.     *)
LEMMA LiveThings ==
  ASSUME PlaceInv
  PROVE  /\ \A position \in ToSet(glb_inventory) : position.pair \in Live(Place)
         /\ \A positions \in ToSet(control_receiver) : \A position \in ToSet(positions) :
               position.pair \in Live(Place)
         /\ \A m \in Orders \cup Acks : m.pair \in Live(Place)
<1>1. \A n \in Places : Place[n] \subseteq Live(Place)
  BY DEF Live
<1>2. \A s : \A e \in ToSet(s) : e.pair \in PairsIn(s)
  BY DEF ToSet, PairsIn
<1>3. \A position \in ToSet(glb_inventory) : position.pair \in Live(Place)
  BY <1>1, <1>2, PlaceDefs DEF Places
<1>4. \A positions \in ToSet(control_receiver) : \A position \in ToSet(positions) :
         position.pair \in Live(Place)
  <2>1. \A positions \in ToSet(control_receiver) : PairsIn(positions) \subseteq Restoring
    BY DEF Restoring, ToSet
  <2>2. Restoring \subseteq Live(Place)
    BY <1>1, PlaceDefs DEF Places
  <2> QED BY <1>2, <2>1, <2>2
<1>5. \A m \in Orders \cup Acks : m.pair \in Live(Place)
  <2>1. \A m \in Orders \cup Acks :
           m.pair \in PairsIn(execution_broker) \cup Executed \cup PairsIn(execution_report)
    BY <1>2 DEF Orders, Acks, Executed
  <2>2. PairsIn(execution_broker) \cup Executed \cup PairsIn(execution_report)
           \subseteq Live(Place)
    BY <1>1, PlaceDefs DEF Places
  <2> QED BY <2>1, <2>2
<1> QED BY <1>3, <1>4, <1>5

(***************************************************************************)
(* Once the sell of a position is stored, no restart, no failing save and  *)
(* no late message brings the pair back: it is not restored, held, ordered *)
(* or sold again (reporter.py:44, 215-224).                                *)
(***************************************************************************)
THEOREM SoldForGood == RecoverySpec => []SoldStaysSold
<1>1. SoldInv => SoldStaysSold
  <2> SUFFICES ASSUME SoldInv, NEW p \in Pairs,
                      position_rows[p] # None, position_rows[p].is_liquidated
               PROVE  /\ \A position \in Positions : position.pair # p
                      /\ \A m \in Orders \cup Acks : m.pair # p
    BY DEF SoldStaysSold
  <2>1. p \notin Live(Place)
    BY DEF SoldInv, Gone, Rows
  <2> QED BY <2>1, LiveThings DEF SoldInv, Positions
<1> QED BY SoldInit, SoldStep, <1>1, PTL DEF RecoverySpec

-----------------------------------------------------------------------------
(* What is held is stored, or about to be.                                 *)

Bought == {ack.pair : ack \in {a \in Reports : a.is_buy}}

\* The pairs whose buy the database knows, will know, or has missed.
Covered == Rows \cup torn \cup Bought

\* The statistics come after the row.
RowFirst ==
  saving # None /\ saving.report.type = "EXECUTION" /\ saving.step = "stats"
     => saving.report.ack.pair \in Rows

StoredInv ==
  /\ SoldInv
  /\ RowFirst
  /\ \A p \in Pairs : Held(p) \/ p \in Restoring => p \in Covered

LEMMA RowFirstStep ==
  ASSUME RecoveryTypeInv, RowFirst, [RecoveryNext]_recoveryVars
  PROVE  RowFirst'
<1>1. CASE Trade
  <2>1. UNCHANGED saving /\ Rows' = Rows
    BY <1>1, TradeReports DEF RecoveryTypeInv
  <2> QED BY <2>1 DEF RowFirst
<1>2. CASE ReporterTask(TakeFirstReport)
  <2>1. saving'.step = "pair"
    BY <1>2, TakeReports DEF RecoveryTypeInv
  <2> QED BY <2>1 DEF RowFirst
<1>3. CASE ReporterTask(SaveStep) \/ ReporterTask(SaveFails)
  <2>1. CASE SavePositionRow
    <3>1. saving'.report = saving.report
      BY <2>1, SavingFacts DEF SavePositionRow, Saving, RecoveryTypeInv
    <3>2. saving.report.ack.pair \in Rows'
      <4> DEFINE q == saving.report.ack.pair
      <4>1. /\ q \in Pairs
            /\ position_rows \in [Pairs -> PositionRow \cup {None}]
            /\ \/ \E new \in PositionRow : position_rows' = [position_rows EXCEPT ![q] = new]
               \/ q \in Rows /\ position_rows' = position_rows
        BY <2>1, PositionRowEffect DEF RecoveryTypeInv, RecoveryTypeOK, ReporterTypeOK
      <4> HIDE DEF q
      <4>2. q \in Rows /\ position_rows' = position_rows => q \in Rows'
        BY DEF Rows
      <4>3. ASSUME NEW new \in PositionRow, position_rows' = [position_rows EXCEPT ![q] = new]
            PROVE  q \in Rows'
        BY <4>1, <4>3, RowsGrow
      <4> QED BY <4>1, <4>2, <4>3 DEF q
    <3> QED BY <3>1, <3>2 DEF RowFirst
  <2>2. CASE ~ SavePositionRow
    <3>1. \/ saving' = None
          \/ saving'.report.type = "BLOCK"
          \/ saving'.step = "position"
      BY <1>3, <2>2, SaveReports
    <3> QED BY <3>1 DEF RowFirst
  <2> QED BY <2>1, <2>2
<1>4. CASE ClockTick \/ UNCHANGED recoveryVars
  <2>1. UNCHANGED <<saving, position_rows>>
    BY <1>4 DEF ClockTick, HourPasses, recoveryVars, reporterVars
  <2> QED BY <2>1 DEF RowFirst, Rows
<1>5. CASE Restart
  BY <1>5 DEF Restart, RowFirst
<1> QED BY <1>1, <1>2, <1>3, <1>4, <1>5 DEF RecoveryNext

(* What is known of a buy is not forgotten but in a restart.               *)
LEMMA CoveredGrows ==
  ASSUME RecoveryTypeInv, RowFirst, [RecoveryNext]_recoveryVars, ~ Restart
  PROVE  Covered \subseteq Covered'
<1>1. CASE Trade
  <2>1. Reports \subseteq Reports' /\ Rows' = Rows /\ torn' = torn
    BY <1>1, TradeReports DEF RecoveryTypeInv, Reports
  <2> QED BY <2>1 DEF Covered, Bought
<1>2. CASE ReporterTask(TakeFirstReport)
  <2>1. Reports' = Reports /\ Rows' = Rows /\ torn' = torn
    BY <1>2, TakeReports DEF RecoveryTypeInv, Reports
  <2> QED BY <2>1 DEF Covered, Bought
<1>3. CASE ReporterTask(SaveStep) \/ ReporterTask(SaveFails)
  <2>1. torn \subseteq torn' /\ Queued' = Queued
    BY <1>3, SaveReports
  <2>2. Rows \subseteq Rows'
    <3>1. CASE SavePositionRow
      <4> DEFINE q == saving.report.ack.pair
      <4>1. /\ q \in Pairs
            /\ \/ \E new \in PositionRow : position_rows' = [position_rows EXCEPT ![q] = new]
               \/ position_rows' = position_rows
        BY <3>1, PositionRowEffect
      <4> HIDE DEF q
      <4>2. CASE position_rows' = position_rows
        BY <4>2 DEF Rows
      <4>3. ASSUME NEW new \in PositionRow, position_rows' = [position_rows EXCEPT ![q] = new]
            PROVE  Rows \subseteq Rows'
        BY <4>1, <4>3, RowsGrow
      <4> QED BY <4>1, <4>2, <4>3
    <3>2. CASE ~ SavePositionRow
      BY <1>3, <3>2, SaveReports
    <3> QED BY <3>1, <3>2
  <2>3. CASE InSave \subseteq InSave'
    BY <2>1, <2>2, <2>3 DEF Covered, Bought, Reports
  <2>4. CASE ~ InSave \subseteq InSave'
    <3>1. /\ InSave = {saving.report.ack} /\ InSave' = {}
          /\ \/ SaveStats
             \/ saving.report.ack.pair \in torn'
      BY <1>3, <2>4, SaveReports
    <3>2. SaveStats => saving.report.ack.pair \in Rows
      BY DEF SaveStats, Saving, RowFirst
    <3>3. saving.report.ack.pair \in Rows' \cup torn'
      BY <2>2, <3>1, <3>2
    <3> QED BY <2>1, <2>2, <3>1, <3>3 DEF Covered, Bought, Reports
  <2> QED BY <2>3, <2>4
<1>4. CASE ClockTick \/ UNCHANGED recoveryVars
  <2>1. UNCHANGED <<saving, position_rows, torn, report_broker>>
    BY <1>4 DEF ClockTick, HourPasses, recoveryVars, reporterVars, vars, queues
  <2> QED BY <2>1 DEF Covered, Bought, Reports, Queued, InSave, Rows
<1> QED BY <1>1, <1>2, <1>3, <1>4 DEF RecoveryNext

(* What a step of the trading system makes the bot hold: nothing, but what *)
(* bootstrap() has sent, and what it was told it has bought.               *)
LEMMA HeldGrows ==
  ASSUME PlaceInv, PlaceInv', [Next]_vars, NEW p \in Pairs, Held(p)' \/ p \in Restoring'
  PROVE  \/ Held(p)
         \/ p \in Restoring
         \/ /\ StrategyTask(HandleExecutionReport)
            /\ Head(execution_report).pair = p
            /\ Opens(Head(execution_report))
<1>1. TypeOK
  BY DEF PlaceInv
<1>2. CASE StrategyTask(HandleExecutionReport)
  <2>1. Restoring' = Restoring
    BY <1>1, <1>2, AckLists DEF Restoring
  <2>2. CASE Head(execution_report).pair = p
    <3>1. ~ Opens(Head(execution_report)) => p \notin Live(Place')
      BY <1>2, <2>2, AckEnds
    <3>2. Held(p)' => p \in Live(Place')
      <4> DEFINE Somewhere == PairsIn(glb_inventory') \cup PairsIn(execution_broker')
                                 \cup Executed' \cup PairsIn(execution_report')
      <4>1. Held(p)' => p \in Somewhere
        BY DEF Held, Sells, Orders, Acks, Executed, PairsIn, ToSet
      <4>2. Somewhere \subseteq Live(Place')
        BY PlaceDefsAfter DEF Live, Places
      <4> QED BY <4>1, <4>2
    <3> QED BY <1>2, <2>1, <2>2, <3>1, <3>2
  <2>3. CASE Head(execution_report).pair # p
    BY <1>1, <1>2, <2>1, <2>3, HeldAck
  <2> QED BY <2>2, <2>3
<1>3. CASE ControlTask
  <2>1. /\ control_receiver # <<>> /\ control_receiver \in Seq(Seq(Position))
        /\ control_receiver' = Tail(control_receiver)
        /\ glb_inventory' = glb_inventory \o Head(control_receiver)
        /\ UNCHANGED <<execution_broker, execution_report, taken>>
        /\ glb_inventory \in Seq(Position)
    BY <1>1, <1>3 DEF ControlTask, HandleControlOrder, executorVars, TypeOK, QueuesTypeOK,
                      StrategyTypeOK
  <2>2. /\ Head(control_receiver) \in Seq(Position)
        /\ ToSet(control_receiver) = {Head(control_receiver)} \cup ToSet(control_receiver')
    BY <2>1, TailFacts
  <2>3. ToSet(glb_inventory') = ToSet(glb_inventory) \cup ToSet(Head(control_receiver))
    BY <2>1, <2>2, ConcatPairs
  <2>4. Orders' = Orders /\ Acks' = Acks
    BY <2>1 DEF Orders, Acks
  <2>5. Restoring = UNION {PairsIn(s) : s \in ToSet(control_receiver)}
        /\ Restoring' = UNION {PairsIn(s) : s \in ToSet(control_receiver')}
    BY DEF Restoring, ToSet
  <2>6. \A position \in ToSet(Head(control_receiver)) : position.pair \in Restoring
    <3>1. \A position \in ToSet(Head(control_receiver)) :
             position.pair \in PairsIn(Head(control_receiver))
      BY DEF ToSet, PairsIn
    <3> QED BY <2>2, <2>5, <3>1
  <2>7. Restoring' \subseteq Restoring
    BY <2>2, <2>5
  <2> QED BY <2>3, <2>4, <2>6, <2>7 DEF Held
<1>4. CASE \/ StrategyTask(Pass) \/ StrategyTask(ReceiveBlock)
           \/ ExecutorProcess(ExecutorNext)
           \/ OtherTask(NewHead) \/ OtherTask(ListenReport)
           \/ OtherTask(TakeReport) /\ UNCHANGED watcherVars
           \/ UNCHANGED vars
  <2>1. Held(p)' <=> Held(p)
    BY <1>1, <1>4, HeldKept
  <2>2. UNCHANGED control_receiver
    BY <1>1, <1>4, PassLists, BlockLists, ExecutorLists, QuietLists
  <2>3. Restoring' = Restoring
    BY <2>2 DEF Restoring
  <2> QED BY <2>1, <2>3
<1> QED BY <1>2, <1>3, <1>4 DEF Next

LEMMA StoredInit == RecoveryInit => StoredInv
<1> SUFFICES ASSUME RecoveryInit PROVE StoredInv
  OBVIOUS
<1>1. /\ glb_inventory = <<>> /\ execution_broker = <<>> /\ execution_report = <<>>
      /\ taken = {} /\ control_receiver = <<>> /\ saving = None
  BY RecoveryAssumption DEF RecoveryInit, Init, StrategyInit, ExecutorInit, ReporterInit
<1>2. \A p : ~ Held(p) /\ p \notin Restoring
  BY <1>1 DEF Held, Sells, Orders, Acks, ToSet, Restoring
<1> QED BY <1>1, <1>2, SoldInit DEF StoredInv, RowFirst

LEMMA StoredStep == StoredInv /\ [RecoveryNext]_recoveryVars => StoredInv'
<1> SUFFICES ASSUME StoredInv, [RecoveryNext]_recoveryVars PROVE StoredInv'
  OBVIOUS
<1>1. SoldInv' /\ RowFirst'
  BY SoldStep, RowFirstStep DEF StoredInv, SoldInv
<1> SUFFICES ASSUME NEW p \in Pairs, Held(p)' \/ p \in Restoring' PROVE p \in Covered'
  BY <1>1 DEF StoredInv
<1>2. CASE Restart
  <2>1. /\ glb_inventory' = <<>> /\ execution_broker' = <<>> /\ execution_report' = <<>>
        /\ taken' = {} /\ UNCHANGED position_rows
    BY <1>2 DEF Restart
  <2>2. ~ Held(p)'
    BY <2>1 DEF Held, Sells, Orders, Acks, ToSet
  <2>3. IsOpen(p)
    BY <1>2, <2>2, RestartPlaces DEF StoredInv
  <2>4. p \in Rows'
    BY <2>1, <2>3 DEF IsOpen, Rows
  <2> QED BY <2>4 DEF Covered
<1>3. CASE ~ Restart
  <2>1. Covered \subseteq Covered'
    BY <1>3, CoveredGrows DEF StoredInv, SoldInv
  <2>2. [Next]_vars
    BY <1>3, StepIsTrading
  <2>3. CASE Held(p) \/ p \in Restoring
    BY <2>1, <2>3 DEF StoredInv
  <2>4. CASE /\ StrategyTask(HandleExecutionReport)
             /\ Head(execution_report).pair = p
             /\ Opens(Head(execution_report))
    <3>1. Head(execution_report) \in Reports'
      <4>1. CASE Trade
        <5>1. Queued' = Queued \cup {Head(execution_report)}
          BY <2>4, <4>1, TradeReports DEF StoredInv, SoldInv, RecoveryTypeInv
        <5> QED BY <5>1 DEF Reports
      <4>2. CASE ~ Trade
        <5>1. UNCHANGED execution_report
          BY <1>3, <4>2 DEF RecoveryNext, ReporterTask, ClockTick, recoveryVars, vars, queues
        <5>2. execution_report # <<>> /\ execution_report' = Tail(execution_report)
          BY <2>4 DEF StrategyTask, HandleExecutionReport, BuySucceeded, BuyFailed,
                      SellSucceeded, SellFailed, ReceiveAck
        <5>3. Len(execution_report') # Len(execution_report)
          BY <5>2, TailFacts DEF StoredInv, SoldInv, PlaceInv, TypeOK, QueuesTypeOK
        <5> QED BY <5>1, <5>3
      <4> QED BY <4>1, <4>2
    <3> QED BY <2>4, <3>1 DEF Covered, Bought, Opens
  <2> QED BY <1>1, <2>2, <2>3, <2>4, HeldGrows DEF StoredInv, SoldInv
<1> QED BY <1>2, <1>3

(***************************************************************************)
(* A position in the inventory can be restored from the database, or its   *)
(* buy is still to be saved, unless a query raised while its report was    *)
(* saved, whatever the order in which positions are stored, sold and       *)
(* restored (reporter.py:194-210).                                         *)
(***************************************************************************)
THEOREM HeldCanBeRestored == RecoverySpec => []OpenPositionsStored
<1>1. StoredInv => OpenPositionsStored
  <2> SUFFICES ASSUME StoredInv, NEW position \in ToSet(glb_inventory),
                      position.pair \notin torn
               PROVE  \/ IsOpen(position.pair)
                      \/ \E report \in Unsaved :
                            /\ report.type = "EXECUTION"
                            /\ report.ack.pair = position.pair
                            /\ report.ack.is_buy
    BY DEF OpenPositionsStored
  <2> DEFINE p == position.pair
  <2>1. p \in Pairs
    <3>1. position \in Position
      BY ElementOfSeq, LenProperties DEF ToSet, StoredInv, SoldInv, PlaceInv, TypeOK,
                                         StrategyTypeOK
    <3> QED BY <3>1 DEF Position
  <2>2. p \in Covered
    BY <2>1 DEF StoredInv, Held
  <2>3. p \in Live(Place)
    BY LiveThings DEF StoredInv, SoldInv
  <2> HIDE DEF p
  <2>4. CASE p \in Rows
    BY <2>1, <2>3, <2>4 DEF StoredInv, SoldInv, Gone, IsOpen, Rows, p
  <2>5. CASE p \in Bought
    <3>1. PICK ack \in Reports : ack.pair = p /\ ack.is_buy
      BY <2>5 DEF Bought
    <3>2. \E report \in Unsaved : report.type = "EXECUTION" /\ report.ack = ack
      BY <3>1 DEF Reports, Queued, InSave, Unsaved
    <3> QED BY <3>1, <3>2 DEF p
  <2> QED BY <2>2, <2>4, <2>5 DEF Covered, p
<1> QED BY StoredInit, StoredStep, <1>1, PTL DEF RecoverySpec

-----------------------------------------------------------------------------
(* The order of the reports.                                               *)

HasBuy(s, p) == \E i \in DOMAIN s : IsBuy(s[i], p)
HasSell(s, p) == \E i \in DOMAIN s : IsSell(s[i], p)

\* No pair is sold twice.
SellsDistinct(s) ==
  \A i, j \in DOMAIN s : \A p : IsSell(s[i], p) /\ IsSell(s[j], p) => i = j

\* A creator is frozen next to the failed sell.
FreezesFollow(s) ==
  \A i \in DOMAIN s : i # 1 => \A p : IsFreeze(s[i], p) => IsFailedSell(s[i - 1], p)

FirstFreezes(s, p) == s # <<>> /\ IsFreeze(s[1], p)

\* A buy comes before its sell.
BuyFirst(s, p) ==
  \A i \in DOMAIN s : IsSell(s[i], p) => \E j \in DOMAIN s : j < i /\ IsBuy(s[j], p)

LEMMA AppendOrder ==
  ASSUME NEW s \in Seq(ReportData), NEW r \in ReportData
  PROVE  /\ Append(s, r) \in Seq(ReportData)
         /\ Append(s, r) # <<>> /\ Append(s, r)[Len(Append(s, r))] = r
         /\ \A p : HasSell(Append(s, r), p) <=> HasSell(s, p) \/ IsSell(r, p)
         /\ \A p : HasBuy(Append(s, r), p) <=> HasBuy(s, p) \/ IsBuy(r, p)
         /\ SellsDistinct(s) /\ (\A p : IsSell(r, p) => ~ HasSell(s, p))
               => SellsDistinct(Append(s, r))
         /\ FreezesFollow(s)
            /\ (\A p : IsFreeze(r, p) => s # <<>> /\ IsFailedSell(s[Len(s)], p))
               => FreezesFollow(Append(s, r))
         /\ \A p : FirstFreezes(Append(s, r), p)
                     => FirstFreezes(s, p) \/ (s = <<>> /\ IsFreeze(r, p))
         /\ \A p : BuyFirst(s, p) /\ (IsSell(r, p) => HasBuy(s, p))
                     => BuyFirst(Append(s, r), p)
<1> DEFINE n == Len(s)
           l == Append(s, r)
<1>1. /\ n \in Nat
      /\ DOMAIN s = 1 .. n /\ DOMAIN l = 1 .. n + 1
      /\ \A i \in 1 .. n : l[i] = s[i]
      /\ l[n + 1] = r
      /\ l \in Seq(ReportData) /\ Len(l) = n + 1
      /\ s = <<>> <=> n = 0
  <2>1. /\ l \in Seq(ReportData) /\ Len(l) = n + 1
        /\ \A i \in 1 .. n : l[i] = s[i]
        /\ l[n + 1] = r
    BY AppendProperties
  <2>2. n \in Nat /\ (s = <<>> <=> n = 0)
    BY EmptySeq
  <2> QED BY <2>1, <2>2, LenProperties
<1>2. l # <<>>
  BY <1>1
<1> HIDE DEF n, l
<1>3. /\ \A i \in DOMAIN s : i \in DOMAIN l /\ i # n + 1 /\ l[i] = s[i] /\ i < n + 1
      /\ n + 1 \in DOMAIN l /\ l[n + 1] = r
      /\ \A i \in DOMAIN l : i \in DOMAIN s \/ i = n + 1
  BY <1>1
<1>4. \A p : /\ HasSell(l, p) <=> HasSell(s, p) \/ IsSell(r, p)
             /\ HasBuy(l, p) <=> HasBuy(s, p) \/ IsBuy(r, p)
  <2> TAKE p
  <2>1. HasSell(l, p) <=> HasSell(s, p) \/ IsSell(r, p)
    BY <1>3 DEF HasSell
  <2>2. HasBuy(l, p) <=> HasBuy(s, p) \/ IsBuy(r, p)
    BY <1>3 DEF HasBuy
  <2> QED BY <2>1, <2>2
<1>5. ASSUME SellsDistinct(s), \A p : IsSell(r, p) => ~ HasSell(s, p)
      PROVE  SellsDistinct(l)
  <2> SUFFICES ASSUME NEW i \in DOMAIN l, NEW j \in DOMAIN l, NEW p,
                      IsSell(l[i], p), IsSell(l[j], p)
               PROVE  i = j
    BY DEF SellsDistinct
  <2>1. CASE i \in DOMAIN s /\ j \in DOMAIN s
    BY <1>3, <1>5, <2>1 DEF SellsDistinct
  <2>2. CASE i = n + 1 /\ j \in DOMAIN s
    BY <1>3, <1>5, <2>2 DEF HasSell
  <2>3. CASE i \in DOMAIN s /\ j = n + 1
    BY <1>3, <1>5, <2>3 DEF HasSell
  <2> QED BY <1>3, <2>1, <2>2, <2>3
<1>6. ASSUME FreezesFollow(s), \A p : IsFreeze(r, p) => s # <<>> /\ IsFailedSell(s[n], p)
      PROVE  FreezesFollow(l)
  <2> SUFFICES ASSUME NEW i \in DOMAIN l, i # 1, NEW p, IsFreeze(l[i], p)
               PROVE  IsFailedSell(l[i - 1], p)
    BY DEF FreezesFollow
  <2>1. CASE i \in DOMAIN s
    <3>1. i - 1 \in 1 .. n /\ l[i - 1] = s[i - 1] /\ l[i] = s[i]
      BY <1>1, <2>1
    <3> QED BY <1>6, <2>1, <3>1 DEF FreezesFollow
  <2>2. CASE i = n + 1
    <3>1. i - 1 = n /\ n \in 1 .. n
      BY <1>1, <2>2
    <3> QED BY <1>1, <1>6, <2>2, <3>1
  <2> QED BY <1>3, <2>1, <2>2
<1>7. \A p : FirstFreezes(l, p) => FirstFreezes(s, p) \/ (s = <<>> /\ IsFreeze(r, p))
  <2>1. CASE s = <<>>
    BY <1>1, <2>1 DEF FirstFreezes
  <2>2. CASE s # <<>>
    BY <1>1, <2>2 DEF FirstFreezes
  <2> QED BY <2>1, <2>2
<1>8. ASSUME NEW p, BuyFirst(s, p), IsSell(r, p) => HasBuy(s, p)
      PROVE  BuyFirst(l, p)
  <2> SUFFICES ASSUME NEW i \in DOMAIN l, IsSell(l[i], p)
               PROVE  \E j \in DOMAIN l : j < i /\ IsBuy(l[j], p)
    BY DEF BuyFirst
  <2>1. CASE i \in DOMAIN s
    <3>1. PICK j \in DOMAIN s : j < i /\ IsBuy(s[j], p)
      BY <1>3, <1>8, <2>1 DEF BuyFirst
    <3> QED BY <1>3, <3>1
  <2>2. CASE i = n + 1
    <3>1. PICK j \in DOMAIN s : IsBuy(s[j], p)
      BY <1>3, <1>8, <2>2 DEF HasBuy
    <3> QED BY <1>3, <2>2, <3>1
  <2> QED BY <1>3, <2>1, <2>2
<1>9. Len(l) = n + 1 /\ l[Len(l)] = r
  BY <1>1
<1> QED BY <1>1, <1>2, <1>4, <1>5, <1>6, <1>7, <1>8, <1>9 DEF n, l

LEMMA TailOrder ==
  ASSUME NEW s \in Seq(ReportData), s # <<>>
  PROVE  /\ Head(s) \in ReportData
         /\ Tail(s) \in Seq(ReportData)
         /\ \A p : HasSell(s, p) <=> HasSell(Tail(s), p) \/ IsSell(Head(s), p)
         /\ \A p : HasBuy(s, p) <=> HasBuy(Tail(s), p) \/ IsBuy(Head(s), p)
         /\ SellsDistinct(s) =>
               /\ SellsDistinct(Tail(s))
               /\ \A p : IsSell(Head(s), p) => ~ HasSell(Tail(s), p)
         /\ FreezesFollow(s) =>
               /\ FreezesFollow(Tail(s))
               /\ \A p : FirstFreezes(Tail(s), p) => IsFailedSell(Head(s), p)
         /\ \A p : IsFreeze(Head(s), p) => FirstFreezes(s, p)
         /\ \A p : BuyFirst(s, p) =>
               /\ BuyFirst(Tail(s), p) \/ IsBuy(Head(s), p)
               /\ ~ IsSell(Head(s), p)
<1> DEFINE n == Len(s)
           l == Tail(s)
           e == Head(s)
<1>1. /\ n \in Nat \ {0}
      /\ DOMAIN s = 1 .. n /\ DOMAIN l = 1 .. n - 1
      /\ \A i \in 1 .. n - 1 : l[i] = s[i + 1]
      /\ e = s[1]
      /\ l \in Seq(ReportData)
      /\ l # <<>> => 1 \in DOMAIN l
  <2>1. /\ l \in Seq(ReportData) /\ Len(l) = n - 1
        /\ \A i \in 1 .. Len(l) : l[i] = s[i + 1]
    BY HeadTailProperties
  <2>2. n \in Nat \ {0}
    BY EmptySeq
  <2>3. e = s[1]
    OBVIOUS
  <2>4. l = <<>> <=> Len(l) = 0
    BY <2>1, EmptySeq
  <2> QED BY <2>1, <2>2, <2>3, <2>4, LenProperties
<1>2. e \in ReportData
  BY TailFacts
<1> HIDE DEF n, l, e
<1>3. /\ 1 \in DOMAIN s /\ e = s[1]
      /\ \A i \in DOMAIN l : i + 1 \in DOMAIN s /\ i + 1 # 1 /\ 1 < i + 1 /\ l[i] = s[i + 1]
      /\ \A i, j \in DOMAIN l : i + 1 = j + 1 => i = j
      /\ \A i \in DOMAIN s : i = 1 \/ (i - 1 \in DOMAIN l /\ l[i - 1] = s[i])
  <2>1. \A i \in DOMAIN s : i # 1 => i - 1 \in DOMAIN l /\ (i - 1) + 1 = i
    BY <1>1
  <2> QED BY <1>1, <2>1
<1>4. \A p : /\ HasSell(s, p) <=> HasSell(l, p) \/ IsSell(e, p)
             /\ HasBuy(s, p) <=> HasBuy(l, p) \/ IsBuy(e, p)
  <2> TAKE p
  <2>1. HasSell(s, p) <=> HasSell(l, p) \/ IsSell(e, p)
    BY <1>3 DEF HasSell
  <2>2. HasBuy(s, p) <=> HasBuy(l, p) \/ IsBuy(e, p)
    BY <1>3 DEF HasBuy
  <2> QED BY <2>1, <2>2
<1>5. ASSUME SellsDistinct(s)
      PROVE  SellsDistinct(l) /\ \A p : IsSell(e, p) => ~ HasSell(l, p)
  <2>1. SellsDistinct(l)
    <3> SUFFICES ASSUME NEW i \in DOMAIN l, NEW j \in DOMAIN l, NEW p,
                        IsSell(l[i], p), IsSell(l[j], p)
                 PROVE  i = j
      BY DEF SellsDistinct
    <3>1. i + 1 = j + 1
      BY <1>3, <1>5 DEF SellsDistinct
    <3> QED BY <1>3, <3>1
  <2>2. ASSUME NEW p, IsSell(e, p), NEW i \in DOMAIN l, IsSell(l[i], p)
        PROVE  FALSE
    BY <1>3, <1>5, <2>2 DEF SellsDistinct
  <2> QED BY <2>1, <2>2 DEF HasSell
<1>6. ASSUME FreezesFollow(s)
      PROVE  FreezesFollow(l) /\ \A p : FirstFreezes(l, p) => IsFailedSell(e, p)
  <2>1. ASSUME NEW i \in DOMAIN l, i # 1, NEW p, IsFreeze(l[i], p)
        PROVE  IsFailedSell(l[i - 1], p)
    <3>1. /\ i + 1 \in DOMAIN s /\ i + 1 # 1 /\ s[i + 1] = l[i]
          /\ (i + 1) - 1 = i /\ i - 1 \in 1 .. n - 1 /\ (i - 1) + 1 = i
      BY <1>1, <2>1
    <3>2. l[i - 1] = s[i]
      BY <1>1, <3>1
    <3> QED BY <1>6, <2>1, <3>1, <3>2 DEF FreezesFollow
  <2>2. ASSUME NEW p, FirstFreezes(l, p)
        PROVE  IsFailedSell(e, p)
    <3>1. 1 \in DOMAIN l /\ IsFreeze(l[1], p)
      BY <1>1, <2>2 DEF FirstFreezes
    <3>2. 1 + 1 \in DOMAIN s /\ s[1 + 1] = l[1] /\ 1 + 1 # 1 /\ (1 + 1) - 1 = 1
      BY <1>3, <3>1
    <3> QED BY <1>3, <1>6, <3>1, <3>2 DEF FreezesFollow
  <2> QED BY <2>1, <2>2 DEF FreezesFollow
<1>7. \A p : IsFreeze(e, p) => FirstFreezes(s, p)
  BY <1>3 DEF FirstFreezes
<1>8. ASSUME NEW p, BuyFirst(s, p)
      PROVE  (BuyFirst(l, p) \/ IsBuy(e, p)) /\ ~ IsSell(e, p)
  <2>1. ~ IsSell(e, p)
    <3>1. ~ \E j \in DOMAIN s : j < 1
      BY <1>1
    <3> QED BY <1>3, <1>8, <3>1 DEF BuyFirst
  <2>2. ASSUME ~ IsBuy(e, p), NEW i \in DOMAIN l, IsSell(l[i], p)
        PROVE  \E j \in DOMAIN l : j < i /\ IsBuy(l[j], p)
    <3>1. i + 1 \in DOMAIN s /\ IsSell(s[i + 1], p)
      BY <1>3, <2>2
    <3>2. PICK k \in DOMAIN s : k < i + 1 /\ IsBuy(s[k], p)
      BY <1>8, <3>1 DEF BuyFirst
    <3>3. k # 1
      BY <1>3, <2>2, <3>2
    <3>4. k - 1 \in DOMAIN l /\ l[k - 1] = s[k] /\ k - 1 < i
      BY <1>1, <1>3, <3>2, <3>3
    <3> QED BY <3>2, <3>4
  <2> QED BY <2>1, <2>2 DEF BuyFirst
<1> QED BY <1>1, <1>2, <1>4, <1>5, <1>6, <1>7, <1>8 DEF n, l, e

-----------------------------------------------------------------------------
(* A creator is frozen for a cause.                                        *)

Closed(p) == p \in Rows /\ position_rows[p].is_liquidated

ForCause(p) == p \in torn \/ (Closed(p) /\ position_rows[p].pnl # "some")

SavesSell(p) == saving # None /\ IsSell(saving.report, p)
SavesFailedSell(p) == saving # None /\ IsFailedSell(saving.report, p)
SavesFreeze(p) == saving # None /\ IsFreeze(saving.report, p)

\* No row is closed before the only sell of its pair is stored.
SellsOnce ==
  /\ SellsDistinct(report_broker)
  /\ \A p \in Pairs : SavesSell(p) => ~ HasSell(report_broker, p)
  /\ \A p \in Pairs :
        HasSell(report_broker, p) \/ (SavesSell(p) /\ saving.step # "stats") => ~ Closed(p)

\* The failed sell is stored before its creator is frozen.
CauseFirst ==
  /\ FreezesFollow(report_broker)
  /\ \A p \in Pairs :
        /\ FirstFreezes(report_broker, p) => ForCause(p) \/ SavesFailedSell(p)
        /\ SavesFreeze(p) => ForCause(p)
        /\ SavesFailedSell(p) /\ saving.step = "stats" => ForCause(p)

Frozen == \A c \in blacklist : \E p \in Pairs : CreatorOf[p] = c /\ ForCause(p)

FrozenInv == SoldInv /\ SellsOnce /\ CauseFirst /\ Frozen

\* A sell on its way to the database is known.
LEMMA SellIsGone ==
  ASSUME NEW p, HasSell(report_broker, p) \/ SavesSell(p)
  PROVE  Gone(p)
<1>1. CASE HasSell(report_broker, p)
  <2>1. PICK i \in DOMAIN report_broker : IsSell(report_broker[i], p)
    BY <1>1 DEF HasSell
  <2>2. report_broker[i].ack \in Queued
    BY <2>1 DEF Queued, ToSet, IsSell
  <2> QED BY <2>1, <2>2 DEF Gone, Reports, IsSell
<1>2. CASE SavesSell(p)
  <2>1. saving.report.ack \in InSave
    BY <1>2 DEF SavesSell, InSave, IsSell
  <2> QED BY <1>2, <2>1 DEF SavesSell, IsSell, Gone, Reports
<1> QED BY <1>1, <1>2

\* When a sell is acknowledged, nothing of it is known yet.
LEMMA SellIsNews ==
  ASSUME SoldInv, StrategyTask(HandleExecutionReport)
  PROVE  /\ Head(execution_report).pair \in Pairs
         /\ ~ Gone(Head(execution_report).pair)
<1>1. TypeOK
  BY DEF SoldInv, PlaceInv
<1>2. Head(execution_report) \in ExecutionAck /\ Head(execution_report) \in Acks
  BY <1>1, AckLists DEF Acks
<1>3. Head(execution_report).pair \in Live(Place)
  BY <1>2, LiveThings DEF SoldInv
<1> QED BY <1>2, <1>3 DEF SoldInv, ExecutionAck

\* How a save of a position closes a row.
LEMMA ClosesFor ==
  ASSUME RecoveryTypeInv, SavePositionRow, NEW p \in Pairs
  PROVE  /\ Closed(p) => Closed(p)' /\ position_rows'[p] = position_rows[p]
         /\ Closed(p)' => Closed(p) \/ SavesSell(p)
         /\ SavesFailedSell(p) /\ ~ Closed(p) =>
               Closed(p)' /\ position_rows'[p].pnl # "some"
<1> DEFINE ack == saving.report.ack
           q == ack.pair
           row == position_rows[q]
<1>1. /\ q \in Pairs /\ ack \in ExecutionAck
      /\ position_rows \in [Pairs -> PositionRow \cup {None}]
      /\ saving # None /\ saving.report.type = "EXECUTION"
  BY PositionRowEffect DEF RecoveryTypeInv, RecoveryTypeOK, ReporterTypeOK, SavePositionRow, Saving
<1>2. SavesSell(p) <=> p = q /\ ~ ack.is_buy
  BY <1>1 DEF SavesSell, IsSell
<1>3. SavesFailedSell(p) <=> p = q /\ ~ ack.is_buy /\ ack.tx_status = "FAILED"
  BY <1>1 DEF SavesFailedSell, IsFailedSell, IsSell
<1>4. \/ /\ q \notin Rows
         /\ NewRow(ack, hour') \in PositionRow
         /\ position_rows' = [position_rows EXCEPT ![q] = NewRow(ack, hour')]
      \/ /\ q \in Rows
         /\ Closes(row, ack)
         /\ row \in PositionRow
         /\ \E pnl \in PnlOfSell(row, ack) :
               /\ [row EXCEPT !.is_liquidated = TRUE, !.pnl = pnl] \in PositionRow
               /\ position_rows' =
                     [position_rows EXCEPT
                         ![q] = [row EXCEPT !.is_liquidated = TRUE, !.pnl = pnl]]
      \/ /\ q \in Rows /\ ~ Closes(row, ack) /\ position_rows' = position_rows
  BY PositionRowEffect
<1> HIDE DEF ack
<1>5. CASE /\ q \notin Rows
           /\ NewRow(ack, hour') \in PositionRow
           /\ position_rows' = [position_rows EXCEPT ![q] = NewRow(ack, hour')]
  <2>1. Rows' = Rows \cup {q}
    BY <1>1, <1>5, RowsGrow
  <2>2. position_rows'[q] = NewRow(ack, hour')
        /\ \A o \in Pairs : o # q => position_rows'[o] = position_rows[o]
    BY <1>1, <1>5
  <2>3. NewRow(ack, hour').is_liquidated = ~ ack.is_buy /\ NewRow(ack, hour').pnl = "zero"
    BY DEF NewRow
  <2> QED BY <1>2, <1>3, <1>5, <2>1, <2>2, <2>3 DEF Closed
<1>6. CASE /\ q \in Rows /\ ~ Closes(row, ack) /\ position_rows' = position_rows
  <2>1. Rows' = Rows
    BY <1>6 DEF Rows
  <2>2. ack.is_buy \/ row.is_liquidated
    BY <1>6 DEF Closes
  <2> QED BY <1>2, <1>3, <1>6, <2>1, <2>2 DEF Closed
<1>7. ASSUME q \in Rows, Closes(row, ack), row \in PositionRow,
             NEW pnl \in PnlOfSell(row, ack),
             [row EXCEPT !.is_liquidated = TRUE, !.pnl = pnl] \in PositionRow,
             position_rows' =
                [position_rows EXCEPT ![q] = [row EXCEPT !.is_liquidated = TRUE, !.pnl = pnl]]
      PROVE  /\ Closed(p) => Closed(p)' /\ position_rows'[p] = position_rows[p]
             /\ Closed(p)' => Closed(p) \/ SavesSell(p)
             /\ SavesFailedSell(p) /\ ~ Closed(p) =>
                   Closed(p)' /\ position_rows'[p].pnl # "some"
  <2> DEFINE new == [row EXCEPT !.is_liquidated = TRUE, !.pnl = pnl]
  <2>1. Rows' = Rows
    <3>1. new \in PositionRow /\ position_rows' = [position_rows EXCEPT ![q] = new]
      BY <1>7
    <3> HIDE DEF new, row
    <3>2. Rows' = Rows \cup {q}
      BY <1>1, <3>1, RowsGrow
    <3> QED BY <1>7, <3>2
  <2> HIDE DEF new
  <2>2. /\ position_rows'[q].is_liquidated = TRUE /\ position_rows'[q].pnl = pnl
        /\ \A o \in Pairs : o # q => position_rows'[o] = position_rows[o]
    BY <1>1, <1>7 DEF PositionRow
  <2>3. ~ ack.is_buy /\ ~ row.is_liquidated
    BY <1>7 DEF Closes
  <2>4. ack.tx_status = "FAILED" => pnl # "some"
    BY <1>7 DEF PnlOfSell
  <2> QED BY <1>2, <1>3, <1>7, <2>1, <2>2, <2>3, <2>4 DEF Closed
<1> QED BY <1>4, <1>5, <1>6, <1>7

\* A cause is not forgotten.
LEMMA CauseStays ==
  ASSUME RecoveryTypeInv, [RecoveryNext]_recoveryVars, NEW p \in Pairs, ForCause(p)
  PROVE  ForCause(p)'
<1>1. CASE SavePositionRow
  <2>1. UNCHANGED torn
    BY <1>1 DEF SavePositionRow
  <2> QED BY <1>1, <2>1, ClosesFor DEF ForCause
<1>2. CASE ReporterTask(TakeFirstReport)
  BY <1>2, TakeReports DEF ForCause, Closed, RecoveryTypeInv
<1>3. CASE (ReporterTask(SaveStep) \/ ReporterTask(SaveFails)) /\ ~ SavePositionRow
  BY <1>3, SaveReports DEF ForCause, Closed
<1>4. CASE Trade \/ Restart \/ ClockTick \/ UNCHANGED recoveryVars
  <2>1. UNCHANGED position_rows /\ torn \subseteq torn'
    BY <1>4 DEF Trade, Restart, ClockTick, HourPasses, recoveryVars, reporterVars
  <2> QED BY <2>1 DEF ForCause, Closed, Rows
<1> QED BY <1>1, <1>2, <1>3, <1>4 DEF RecoveryNext

LEMMA FrozenTrade ==
  ASSUME FrozenInv, Trade
  PROVE  (SellsOnce /\ CauseFirst /\ Frozen)'
<1> DEFINE s == report_broker
<1>1. /\ RecoveryTypeOK /\ s \in Seq(ReportData)
      /\ SellsDistinct(s) /\ FreezesFollow(s)
  BY DEF FrozenInv, SoldInv, RecoveryTypeInv, RecoveryTypeOK, TypeOK, QueuesTypeOK,
         SellsOnce, CauseFirst
<1>2. UNCHANGED <<saving, torn, position_rows, blacklist>>
  BY DEF Trade, reporterVars
<1>3. \A p : /\ Closed(p)' <=> Closed(p)
             /\ ForCause(p)' <=> ForCause(p)
             /\ SavesSell(p)' <=> SavesSell(p)
             /\ SavesFailedSell(p)' <=> SavesFailedSell(p)
             /\ SavesFreeze(p)' <=> SavesFreeze(p)
  BY <1>2 DEF Closed, ForCause, SavesSell, SavesFailedSell, SavesFreeze, Rows
<1>4. Frozen'
  BY <1>2, <1>3 DEF FrozenInv, Frozen
<1>5. SUFFICES
        /\ SellsDistinct(s') /\ FreezesFollow(s')
        /\ \A p \in Pairs : FirstFreezes(s', p) => FirstFreezes(s, p)
        /\ \A p \in Pairs : HasSell(s', p) => HasSell(s, p) \/ ~ Gone(p)
  <2> SUFFICES ASSUME SellsDistinct(s'), FreezesFollow(s'),
                      \A p \in Pairs : FirstFreezes(s', p) => FirstFreezes(s, p),
                      \A p \in Pairs : HasSell(s', p) => HasSell(s, p) \/ ~ Gone(p)
               PROVE  SellsOnce' /\ CauseFirst'
    BY <1>4
  <2>1. SellsOnce'
    <3>1. \A p \in Pairs : SavesSell(p) \/ Closed(p) => Gone(p)
      BY SellIsGone DEF Closed, Gone
    <3>2. \A p \in Pairs : SavesSell(p)' => ~ HasSell(s', p)
      BY <1>3, <3>1 DEF FrozenInv, SellsOnce
    <3>3. \A p \in Pairs :
             HasSell(s', p) \/ (SavesSell(p)' /\ saving'.step # "stats") => ~ Closed(p)'
      BY <1>2, <1>3, <3>1 DEF FrozenInv, SellsOnce
    <3> QED BY <3>2, <3>3 DEF SellsOnce
  <2>2. CauseFirst'
    BY <1>2, <1>3 DEF FrozenInv, CauseFirst
  <2> QED BY <2>1, <2>2
<1>6. CASE UNCHANGED report_broker
  BY <1>1, <1>6
<1>7. ASSUME NEW told \in ReportData, told.type = "BLOCK", s' = Append(s, told)
      PROVE  /\ SellsDistinct(s') /\ FreezesFollow(s')
             /\ \A p \in Pairs : FirstFreezes(s', p) => FirstFreezes(s, p)
             /\ \A p \in Pairs : HasSell(s', p) => HasSell(s, p) \/ ~ Gone(p)
  <2>1. \A p : ~ IsSell(told, p) /\ ~ IsFreeze(told, p)
    BY <1>7 DEF IsSell, IsFreeze
  <2> HIDE DEF s
  <2> QED BY <1>1, <1>7, <2>1, AppendOrder
<1>8. ASSUME NEW stored \in ReportData, StrategyTask(HandleExecutionReport),
             stored.type = "EXECUTION", stored.ack = Head(execution_report)
      PROVE  LET l == Append(s, stored) IN
             /\ l \in Seq(ReportData) /\ l # <<>> /\ l[Len(l)] = stored
             /\ SellsDistinct(l) /\ FreezesFollow(l)
             /\ \A p \in Pairs : FirstFreezes(l, p) => FirstFreezes(s, p)
             /\ \A p \in Pairs : HasSell(l, p) => HasSell(s, p) \/ ~ Gone(p)
  <2>1. \A p : ~ IsFreeze(stored, p)
    BY <1>8 DEF IsFreeze
  <2>2. \A p : IsSell(stored, p) => ~ Gone(p)
    BY <1>8, SellIsNews DEF FrozenInv, IsSell
  <2>3. \A p : IsSell(stored, p) => ~ HasSell(s, p)
    BY <2>2, SellIsGone
  <2> HIDE DEF s
  <2> QED BY <1>1, <2>1, <2>2, <2>3, AppendOrder
<1>9. ASSUME NEW stored \in ReportData, NEW frozen \in ReportData,
             StrategyTask(HandleExecutionReport),
             stored.type = "EXECUTION", stored.ack = Head(execution_report),
             frozen.type = "BLACKLIST_ADDED", IsFailedSell(stored, frozen.creator_of),
             s' = Append(Append(s, stored), frozen)
      PROVE  /\ SellsDistinct(s') /\ FreezesFollow(s')
             /\ \A p \in Pairs : FirstFreezes(s', p) => FirstFreezes(s, p)
             /\ \A p \in Pairs : HasSell(s', p) => HasSell(s, p) \/ ~ Gone(p)
  <2> DEFINE l == Append(s, stored)
  <2>1. /\ l \in Seq(ReportData) /\ l # <<>> /\ l[Len(l)] = stored
        /\ SellsDistinct(l) /\ FreezesFollow(l)
        /\ \A p \in Pairs : FirstFreezes(l, p) => FirstFreezes(s, p)
        /\ \A p \in Pairs : HasSell(l, p) => HasSell(s, p) \/ ~ Gone(p)
    BY <1>8, <1>9
  <2>2. \A p : IsFreeze(frozen, p) => IsFailedSell(stored, p)
    BY <1>9 DEF IsFreeze
  <2>3. \A p : ~ IsSell(frozen, p)
    BY <1>9 DEF IsSell
  <2>4. s' = Append(l, frozen)
    BY <1>9
  <2> HIDE DEF l, s
  <2> QED BY <1>9, <2>1, <2>2, <2>3, <2>4, AppendOrder
<1> QED BY <1>1, <1>6, <1>7, <1>8, <1>9, TradeQueue

LEMMA FrozenTake ==
  ASSUME FrozenInv, ReporterTask(TakeFirstReport)
  PROVE  (SellsOnce /\ CauseFirst /\ Frozen)'
<1> DEFINE s == report_broker
           e == Head(report_broker)
<1>1. /\ RecoveryTypeOK /\ s \in Seq(ReportData) /\ s # <<>> /\ s' = Tail(s)
      /\ saving = None
      /\ SellsDistinct(s) /\ FreezesFollow(s)
  BY DEF FrozenInv, SoldInv, RecoveryTypeInv, RecoveryTypeOK, TypeOK, QueuesTypeOK,
         SellsOnce, CauseFirst, ReporterTask, TakeFirstReport
<1>2. /\ UNCHANGED <<torn, position_rows, blacklist>>
      /\ saving' # None /\ saving'.report = e /\ saving'.step = "pair"
  BY <1>1, TakeReports, NoneAssumption
<1> HIDE DEF s, e
<1>3. \A p : /\ Closed(p)' <=> Closed(p)
             /\ ForCause(p)' <=> ForCause(p)
             /\ SavesSell(p)' <=> IsSell(e, p)
             /\ SavesFailedSell(p)' <=> IsFailedSell(e, p)
             /\ SavesFreeze(p)' <=> IsFreeze(e, p)
  BY <1>2 DEF Closed, ForCause, SavesSell, SavesFailedSell, SavesFreeze, Rows
<1>4. /\ \A p : HasSell(s, p) <=> HasSell(s', p) \/ IsSell(e, p)
      /\ SellsDistinct(s') /\ FreezesFollow(s')
      /\ \A p : IsSell(e, p) => ~ HasSell(s', p)
      /\ \A p : FirstFreezes(s', p) => IsFailedSell(e, p)
      /\ \A p : IsFreeze(e, p) => FirstFreezes(s, p)
  BY <1>1, TailOrder DEF e, s
<1>5. SellsOnce'
  <2>1. \A p \in Pairs : HasSell(s, p) => ~ Closed(p)
    BY DEF FrozenInv, SellsOnce, s
  <2>2. /\ \A p \in Pairs : SavesSell(p)' => ~ HasSell(s', p)
        /\ \A p \in Pairs :
              HasSell(s', p) \/ (SavesSell(p)' /\ saving'.step # "stats") => ~ Closed(p)'
    BY <1>3, <1>4, <2>1
  <2> QED BY <1>4, <2>2 DEF SellsOnce, s
<1>6. CauseFirst'
  <2>1. \A p \in Pairs : FirstFreezes(s, p) => ForCause(p)
    BY <1>1 DEF FrozenInv, CauseFirst, s, SavesFailedSell
  <2>2. /\ \A p \in Pairs : FirstFreezes(s', p) => SavesFailedSell(p)'
        /\ \A p \in Pairs : SavesFreeze(p)' => ForCause(p)'
    BY <1>3, <1>4, <2>1
  <2> QED BY <1>2, <1>4, <2>2 DEF CauseFirst, s
<1>7. Frozen'
  BY <1>2, <1>3 DEF FrozenInv, Frozen
<1> QED BY <1>5, <1>6, <1>7

LEMMA FrozenSave ==
  ASSUME FrozenInv, ReporterTask(SaveStep) \/ ReporterTask(SaveFails)
  PROVE  (SellsOnce /\ CauseFirst /\ Frozen)'
<1>1. /\ RecoveryTypeInv /\ SellsOnce /\ CauseFirst /\ Frozen
      /\ [RecoveryNext]_recoveryVars
  BY DEF FrozenInv, SoldInv, RecoveryNext
<1>2. /\ UNCHANGED report_broker /\ saving # None
      /\ \A p \in Pairs : ForCause(p) => ForCause(p)'
  BY <1>1, SaveReports, CauseStays
<1>3. CASE SavePositionRow
  <2>1. /\ saving.step = "position" /\ saving.report.type = "EXECUTION"
        /\ saving' # None /\ saving'.report = saving.report /\ saving'.step = "stats"
        /\ UNCHANGED <<torn, blacklist>>
    BY <1>1, <1>3, SavingFacts, NoneAssumption
       DEF RecoveryTypeInv, SavePositionRow, Saving
  <2>2. \A p : /\ SavesSell(p)' <=> SavesSell(p)
               /\ SavesFailedSell(p)' <=> SavesFailedSell(p)
               /\ SavesFailedSell(p) => SavesSell(p)
               /\ ~ SavesFreeze(p)'
    BY <1>2, <2>1 DEF SavesSell, SavesFailedSell, SavesFreeze, IsFreeze, IsFailedSell
  <2>3. SellsOnce'
    <3>1. \A p \in Pairs : HasSell(report_broker', p) => ~ Closed(p)'
      BY <1>1, <1>2, <1>3, ClosesFor DEF SellsOnce
    <3> QED BY <1>1, <1>2, <2>1, <2>2, <3>1 DEF SellsOnce
  <2>4. CauseFirst'
    <3>1. \A p \in Pairs : SavesFailedSell(p) => ForCause(p)'
      BY <1>1, <1>3, <2>1, <2>2, ClosesFor DEF SellsOnce, ForCause
    <3> QED BY <1>1, <1>2, <2>2, <3>1 DEF CauseFirst
  <2>5. Frozen'
    BY <1>1, <1>2, <2>1 DEF Frozen
  <2> QED BY <2>3, <2>4, <2>5
<1>4. CASE ~ SavePositionRow
  <2>1. \A p : Closed(p)' <=> Closed(p)
    BY <1>1, <1>4, SaveReports DEF Closed
  <2>2. \/ saving' = None
        \/ saving' # None /\ saving.report.type = "BLOCK" /\ saving'.report.type = "BLOCK"
        \/ saving' # None /\ saving'.report = saving.report /\ saving.step = "pair"
           /\ saving'.step = "position" /\ InSave = {saving.report.ack}
    BY <1>1, <1>4, SaveReports
  <2>3. InSave = {saving.report.ack} => saving.report.type = "EXECUTION"
    BY DEF InSave
  <2>4. \A p : /\ SavesSell(p)' => SavesSell(p) /\ saving.step # "stats"
               /\ SavesFailedSell(p)' => SavesFailedSell(p) /\ saving'.step # "stats"
               /\ SavesFreeze(p)' => SavesFreeze(p)
    BY <1>2, <2>2, <2>3 DEF SavesSell, SavesFailedSell, SavesFreeze, IsFreeze, IsFailedSell,
                            IsSell
  <2>5. SellsOnce'
    BY <1>1, <1>2, <2>1, <2>4 DEF SellsOnce
  <2>6. ASSUME NEW p \in Pairs, SavesFailedSell(p), ~ SavesFailedSell(p)'
        PROVE  ForCause(p)'
    <3>1. saving.report.type = "EXECUTION" /\ saving.report.ack.pair = p
      BY <2>6 DEF SavesFailedSell, IsFailedSell, IsSell
    <3>2. saving' = None
      BY <1>2, <2>2, <2>6, <3>1 DEF SavesFailedSell
    <3>3. SaveStats \/ p \in torn'
      BY <1>1, <1>4, <3>1, <3>2, SaveReports
    <3>4. SaveStats => ForCause(p)
      BY <1>1, <2>6 DEF SaveStats, Saving, CauseFirst
    <3> QED BY <1>2, <3>3, <3>4 DEF ForCause
  <2>7. CauseFirst'
    BY <1>1, <1>2, <2>4, <2>6 DEF CauseFirst
  <2>8. Frozen'
    <3>1. \/ UNCHANGED blacklist
          \/ /\ saving.report.type = "BLACKLIST_ADDED"
             /\ blacklist' = blacklist \cup {CreatorOf[saving.report.creator_of]}
      BY <1>1, <1>4, SaveReports
    <3>2. CASE UNCHANGED blacklist
      BY <1>1, <1>2, <3>2 DEF Frozen
    <3>3. CASE /\ saving.report.type = "BLACKLIST_ADDED"
               /\ blacklist' = blacklist \cup {CreatorOf[saving.report.creator_of]}
      <4>1. PICK p \in Pairs : p = saving.report.creator_of
        BY <1>1, <1>2, <3>3, SavingFacts DEF RecoveryTypeInv
      <4>2. SavesFreeze(p)
        BY <1>2, <3>3, <4>1 DEF SavesFreeze, IsFreeze
      <4>3. ForCause(p)'
        BY <1>1, <1>2, <4>2 DEF CauseFirst
      <4> QED BY <1>1, <1>2, <3>3, <4>1, <4>3 DEF Frozen
    <3> QED BY <3>1, <3>2, <3>3
  <2> QED BY <2>5, <2>7, <2>8
<1> QED BY <1>3, <1>4

LEMMA FrozenInit == RecoveryInit => FrozenInv
<1> SUFFICES ASSUME RecoveryInit PROVE FrozenInv
  OBVIOUS
<1>1. report_broker = <<>> /\ saving = None /\ blacklist = {}
  BY DEF RecoveryInit, Init, ReporterInit
<1>2. DOMAIN <<>> = {}
  BY LenProperties
<1>3. SellsOnce
  BY <1>1, <1>2 DEF SellsOnce, SellsDistinct, HasSell, SavesSell
<1>4. CauseFirst
  BY <1>1, <1>2 DEF CauseFirst, FreezesFollow, FirstFreezes, SavesFreeze, SavesFailedSell
<1>5. Frozen
  BY <1>1 DEF Frozen
<1> QED BY <1>3, <1>4, <1>5, SoldInit DEF FrozenInv

LEMMA FrozenStep == FrozenInv /\ [RecoveryNext]_recoveryVars => FrozenInv'
<1> SUFFICES ASSUME FrozenInv, [RecoveryNext]_recoveryVars PROVE FrozenInv'
  OBVIOUS
<1>1. SoldInv'
  BY SoldStep DEF FrozenInv
<1>2. \A p \in Pairs : ForCause(p) => ForCause(p)'
  BY CauseStays DEF FrozenInv, SoldInv
<1>3. CASE Restart
  <2>1. report_broker' = <<>> /\ saving' = None /\ UNCHANGED blacklist
    BY <1>3 DEF Restart
  <2>2. DOMAIN <<>> = {}
    BY LenProperties
  <2>3. SellsOnce'
    BY <2>1, <2>2 DEF SellsOnce, SellsDistinct, HasSell, SavesSell
  <2>4. CauseFirst'
    BY <2>1, <2>2 DEF CauseFirst, FreezesFollow, FirstFreezes, SavesFreeze, SavesFailedSell
  <2>5. Frozen'
    BY <1>2, <2>1 DEF FrozenInv, Frozen
  <2> QED BY <1>1, <2>3, <2>4, <2>5 DEF FrozenInv
<1>4. CASE Trade
  BY <1>1, <1>4, FrozenTrade DEF FrozenInv
<1>5. CASE ReporterTask(TakeFirstReport)
  BY <1>1, <1>5, FrozenTake DEF FrozenInv
<1>6. CASE ReporterTask(SaveStep) \/ ReporterTask(SaveFails)
  BY <1>1, <1>6, FrozenSave DEF FrozenInv
<1>7. CASE ClockTick \/ UNCHANGED recoveryVars
  <2>1. UNCHANGED <<report_broker, saving, torn, position_rows, blacklist>>
    BY <1>7 DEF ClockTick, HourPasses, recoveryVars, reporterVars, vars, queues
  <2>2. (SellsOnce /\ CauseFirst /\ Frozen)'
    BY <2>1 DEF FrozenInv, SellsOnce, CauseFirst, Frozen, Closed, ForCause, SavesSell,
                SavesFailedSell, SavesFreeze, Rows
  <2> QED BY <1>1, <2>2 DEF FrozenInv
<1> QED BY <1>3, <1>4, <1>5, <1>6, <1>7 DEF RecoveryNext

(***************************************************************************)
(* A creator is in the blacklist only if the row of one of its pairs is    *)
(* closed without a gain, or a report of that pair was lost: the failed    *)
(* sell is always stored before its creator is frozen, and no later report *)
(* or restart turns the row into a gain (main.py:424-427).                 *)
(***************************************************************************)
THEOREM FrozenForCause == RecoverySpec => []BlacklistedForCause
<1>1. FrozenInv => BlacklistedForCause
  BY DEF FrozenInv, Frozen, BlacklistedForCause, ForCause, Closed, Rows
<1> QED BY FrozenInit, FrozenStep, <1>1, PTL DEF RecoverySpec

-----------------------------------------------------------------------------
(* The database hears of a buy before it hears of the sell.                *)

SavesBuy(p) == saving # None /\ IsBuy(saving.report, p)

Known(p) == p \in Rows \cup torn

BuyBefore ==
  \A p \in Pairs :
     /\ HasSell(report_broker, p) =>
           Known(p) \/ SavesBuy(p) \/ BuyFirst(report_broker, p)
     /\ SavesSell(p) => Known(p)

HeardInv == StoredInv /\ BuyBefore

LEMMA KnownStays ==
  ASSUME RecoveryTypeInv, [RecoveryNext]_recoveryVars, NEW p, Known(p)
  PROVE  Known(p)'
<1>1. Rows \subseteq Rows'
  <2>1. CASE SavePositionRow
    <3> DEFINE q == saving.report.ack.pair
    <3>1. /\ q \in Pairs
          /\ \/ \E new \in PositionRow : position_rows' = [position_rows EXCEPT ![q] = new]
             \/ position_rows' = position_rows
      BY <2>1, PositionRowEffect
    <3> HIDE DEF q
    <3>2. CASE position_rows' = position_rows
      BY <3>2 DEF Rows
    <3>3. ASSUME NEW new \in PositionRow, position_rows' = [position_rows EXCEPT ![q] = new]
          PROVE  Rows \subseteq Rows'
      BY <3>1, <3>3, RowsGrow
    <3> QED BY <3>1, <3>2, <3>3
  <2>2. CASE ~ SavePositionRow
    <3>1. CASE ReporterTask(SaveStep) \/ ReporterTask(SaveFails)
      BY <2>2, <3>1, SaveReports
    <3>2. CASE ReporterTask(TakeFirstReport)
      BY <3>2, TakeReports DEF RecoveryTypeInv
    <3>3. CASE Trade \/ Restart \/ ClockTick \/ UNCHANGED recoveryVars
      BY <3>3 DEF Trade, Restart, ClockTick, HourPasses, recoveryVars, reporterVars, Rows
    <3> QED BY <3>1, <3>2, <3>3 DEF RecoveryNext
  <2> QED BY <2>1, <2>2
<1>2. torn \subseteq torn'
  <2>1. CASE ReporterTask(SaveStep) \/ ReporterTask(SaveFails)
    BY <2>1, SaveReports
  <2>2. CASE ReporterTask(TakeFirstReport)
    BY <2>2, TakeReports DEF RecoveryTypeInv
  <2>3. CASE Trade \/ Restart \/ ClockTick \/ UNCHANGED recoveryVars
    BY <2>3 DEF Trade, Restart, ClockTick, HourPasses, recoveryVars, reporterVars
  <2> QED BY <2>1, <2>2, <2>3 DEF RecoveryNext
<1> QED BY <1>1, <1>2 DEF Known

\* The buy of a pair whose sell is acknowledged is known or on its way.
LEMMA BuyWasHeard ==
  ASSUME StoredInv, StrategyTask(HandleExecutionReport),
         ~ Head(execution_report).is_buy, NEW p, p = Head(execution_report).pair
  PROVE  Known(p) \/ SavesBuy(p) \/ HasBuy(report_broker, p)
<1>1. Head(execution_report) \in ExecutionAck /\ Head(execution_report) \in Acks
  BY AckLists DEF StoredInv, SoldInv, PlaceInv, Acks
<1>2. p \in Pairs /\ Held(p)
  BY <1>1 DEF ExecutionAck, Held, Sells
<1>3. p \in Covered
  BY <1>2 DEF StoredInv
<1>4. CASE p \in Bought
  <2>1. PICK ack \in Reports : ack.pair = p /\ ack.is_buy
    BY <1>4 DEF Bought
  <2>2. CASE ack \in Queued
    <3>1. PICK r \in ToSet(report_broker) : r.type = "EXECUTION" /\ r.ack = ack
      BY <2>2 DEF Queued
    <3>2. PICK i \in DOMAIN report_broker : report_broker[i] = r
      BY <3>1 DEF ToSet
    <3> QED BY <2>1, <3>1, <3>2 DEF HasBuy, IsBuy
  <2>3. CASE ack \in InSave
    BY <2>1, <2>3 DEF InSave, SavesBuy, IsBuy
  <2> QED BY <2>1, <2>2, <2>3 DEF Reports
<1> QED BY <1>3, <1>4 DEF Covered, Known

LEMMA NoSellNoOrder ==
  ASSUME NEW s, NEW p, ~ HasSell(s, p)
  PROVE  BuyFirst(s, p)
BY DEF HasSell, BuyFirst

LEMMA HeardTrade ==
  ASSUME HeardInv, Trade
  PROVE  BuyBefore'
<1> DEFINE s == report_broker
<1>1. RecoveryTypeOK /\ s \in Seq(ReportData)
  BY DEF HeardInv, StoredInv, SoldInv, RecoveryTypeInv, RecoveryTypeOK, TypeOK, QueuesTypeOK
<1>2. UNCHANGED <<saving, torn, position_rows>>
  BY DEF Trade, reporterVars
<1>3. \A p : /\ Known(p)' <=> Known(p)
             /\ SavesSell(p)' <=> SavesSell(p)
             /\ SavesBuy(p)' <=> SavesBuy(p)
  BY <1>2 DEF Known, SavesSell, SavesBuy, Rows
<1> DEFINE Preceded(l, p) == Known(p) \/ SavesBuy(p) \/ BuyFirst(l, p)
<1>4. SUFFICES ASSUME NEW p \in Pairs, HasSell(s', p)
               PROVE  Preceded(s', p)
  BY <1>3 DEF HeardInv, BuyBefore
<1>5. HasSell(s, p) => Preceded(s, p)
  BY DEF HeardInv, BuyBefore
<1>6. CASE UNCHANGED report_broker
  BY <1>4, <1>5, <1>6
<1>7. ASSUME NEW told \in ReportData, told.type = "BLOCK", s' = Append(s, told)
      PROVE  Preceded(s', p)
  <2>1. ~ IsSell(told, p)
    BY <1>7 DEF IsSell
  <2> HIDE DEF s
  <2> QED BY <1>1, <1>4, <1>5, <1>7, <2>1, AppendOrder
<1>8. ASSUME NEW stored \in ReportData, StrategyTask(HandleExecutionReport),
             stored.type = "EXECUTION", stored.ack = Head(execution_report)
      PROVE  LET l == Append(s, stored) IN
             l \in Seq(ReportData) /\ (HasSell(l, p) => Preceded(l, p))
  <2>1. CASE IsSell(stored, p)
    <3>1. p = Head(execution_report).pair /\ ~ Head(execution_report).is_buy
      BY <1>8, <2>1 DEF IsSell
    <3>2. ~ HasSell(s, p)
      BY <1>8, <3>1, SellIsNews, SellIsGone DEF HeardInv, StoredInv
    <3>3. Known(p) \/ SavesBuy(p) \/ HasBuy(s, p)
      BY <1>8, <3>1, BuyWasHeard DEF HeardInv
    <3>4. BuyFirst(s, p)
      BY <3>2, NoSellNoOrder
    <3> HIDE DEF s
    <3> QED BY <1>1, <3>3, <3>4, AppendOrder
  <2>2. CASE ~ IsSell(stored, p)
    <3> HIDE DEF s
    <3> QED BY <1>1, <1>5, <2>2, AppendOrder
  <2> QED BY <2>1, <2>2
<1>9. ASSUME NEW stored \in ReportData, NEW frozen \in ReportData,
             StrategyTask(HandleExecutionReport),
             stored.type = "EXECUTION", stored.ack = Head(execution_report),
             frozen.type = "BLACKLIST_ADDED",
             s' = Append(Append(s, stored), frozen)
      PROVE  Preceded(s', p)
  <2> DEFINE l == Append(s, stored)
  <2>1. l \in Seq(ReportData) /\ (HasSell(l, p) => Preceded(l, p))
    BY <1>8, <1>9
  <2>2. ~ IsSell(frozen, p)
    BY <1>9 DEF IsSell
  <2>3. s' = Append(l, frozen)
    BY <1>9
  <2> HIDE DEF l, s
  <2> QED BY <1>4, <1>9, <2>1, <2>2, <2>3, AppendOrder
<1> HIDE DEF Preceded
<1>10. ASSUME NEW stored \in ReportData, StrategyTask(HandleExecutionReport),
              stored.type = "EXECUTION", stored.ack = Head(execution_report),
              s' = Append(s, stored)
       PROVE  Preceded(s', p)
  BY <1>4, <1>8, <1>10
<1> QED BY <1>1, <1>6, <1>7, <1>9, <1>10, TradeQueue

LEMMA HeardTake ==
  ASSUME HeardInv, ReporterTask(TakeFirstReport)
  PROVE  BuyBefore'
<1> DEFINE s == report_broker
           e == Head(report_broker)
<1>1. /\ RecoveryTypeOK /\ s \in Seq(ReportData) /\ s # <<>> /\ s' = Tail(s)
      /\ saving = None
  BY DEF HeardInv, StoredInv, SoldInv, RecoveryTypeInv, RecoveryTypeOK, TypeOK, QueuesTypeOK,
         ReporterTask, TakeFirstReport
<1>2. /\ UNCHANGED <<torn, position_rows>>
      /\ saving' # None /\ saving'.report = e
  BY <1>1, TakeReports, NoneAssumption
<1> HIDE DEF e
<1>3. \A p : /\ Known(p)' <=> Known(p)
             /\ SavesSell(p)' <=> IsSell(e, p)
             /\ SavesBuy(p)' <=> IsBuy(e, p)
  BY <1>2 DEF Known, SavesSell, SavesBuy, Rows
<1>4. \A p \in Pairs : HasSell(s, p) => Known(p) \/ BuyFirst(s, p)
  BY <1>1 DEF HeardInv, BuyBefore, SavesBuy
<1> HIDE DEF s
<1>5. /\ \A p : HasSell(s, p) <=> HasSell(s', p) \/ IsSell(e, p)
      /\ \A p : BuyFirst(s, p) => /\ BuyFirst(s', p) \/ IsBuy(e, p)
                                  /\ ~ IsSell(e, p)
  BY <1>1, TailOrder DEF e, s
<1>6. \A p \in Pairs :
         /\ HasSell(s', p) => Known(p)' \/ SavesBuy(p)' \/ BuyFirst(s', p)
         /\ SavesSell(p)' => Known(p)'
  BY <1>3, <1>4, <1>5
<1> QED BY <1>6 DEF BuyBefore, s

LEMMA HeardSave ==
  ASSUME HeardInv, ReporterTask(SaveStep) \/ ReporterTask(SaveFails)
  PROVE  BuyBefore'
<1>1. /\ RecoveryTypeInv /\ RowFirst /\ BuyBefore /\ [RecoveryNext]_recoveryVars
      /\ UNCHANGED report_broker /\ saving # None
  BY SaveReports DEF HeardInv, StoredInv, SoldInv, RecoveryNext
<1>2. \A p : Known(p) => Known(p)'
  BY <1>1, KnownStays
<1>3. \/ saving' = None
      \/ saving' # None /\ saving.report.type = "BLOCK" /\ saving'.report.type = "BLOCK"
      \/ saving' # None /\ saving'.report = saving.report
  BY <1>1, SaveReports
<1>4. \A p : SavesSell(p)' => SavesSell(p)
  BY <1>1, <1>3 DEF SavesSell, IsSell
<1>5. ASSUME NEW p \in Pairs, SavesBuy(p)
      PROVE  SavesBuy(p)' \/ Known(p)'
  <2>1. saving.report.type = "EXECUTION" /\ saving.report.ack.pair = p
    BY <1>5 DEF SavesBuy, IsBuy
  <2>2. CASE saving' # None
    BY <1>3, <1>5, <2>1, <2>2 DEF SavesBuy
  <2>3. CASE saving' = None
    <3>1. SaveStats \/ p \in torn'
      BY <1>1, <2>1, <2>3, SaveReports
    <3>2. SaveStats => Known(p)
      BY <1>1, <2>1 DEF SaveStats, Saving, RowFirst, Known
    <3> QED BY <1>2, <3>1, <3>2 DEF Known
  <2> QED BY <2>2, <2>3
<1> QED BY <1>1, <1>2, <1>4, <1>5 DEF BuyBefore

LEMMA HeardInit == RecoveryInit => HeardInv
<1> SUFFICES ASSUME RecoveryInit PROVE HeardInv
  OBVIOUS
<1>1. report_broker = <<>> /\ saving = None
  BY DEF RecoveryInit, Init, ReporterInit
<1>2. DOMAIN <<>> = {}
  BY LenProperties
<1> QED BY <1>1, <1>2, StoredInit DEF HeardInv, BuyBefore, HasSell, SavesSell

LEMMA HeardStep == HeardInv /\ [RecoveryNext]_recoveryVars => HeardInv'
<1> SUFFICES ASSUME HeardInv, [RecoveryNext]_recoveryVars PROVE HeardInv'
  OBVIOUS
<1>1. StoredInv'
  BY StoredStep DEF HeardInv
<1>2. CASE Restart
  <2>1. report_broker' = <<>> /\ saving' = None
    BY <1>2 DEF Restart
  <2>2. DOMAIN <<>> = {}
    BY LenProperties
  <2> QED BY <1>1, <2>1, <2>2 DEF HeardInv, BuyBefore, HasSell, SavesSell
<1>3. CASE Trade
  BY <1>1, <1>3, HeardTrade DEF HeardInv
<1>4. CASE ReporterTask(TakeFirstReport)
  BY <1>1, <1>4, HeardTake DEF HeardInv
<1>5. CASE ReporterTask(SaveStep) \/ ReporterTask(SaveFails)
  BY <1>1, <1>5, HeardSave DEF HeardInv
<1>6. CASE ClockTick \/ UNCHANGED recoveryVars
  <2>1. UNCHANGED <<report_broker, saving, torn, position_rows>>
    BY <1>6 DEF ClockTick, HourPasses, recoveryVars, reporterVars, vars, queues
  <2>2. BuyBefore'
    BY <2>1 DEF HeardInv, BuyBefore, Known, SavesSell, SavesBuy, Rows
  <2> QED BY <1>1, <2>2 DEF HeardInv
<1> QED BY <1>2, <1>3, <1>4, <1>5, <1>6 DEF RecoveryNext

-----------------------------------------------------------------------------
(* The statistics of an hour agree with its positions.                     *)

Agrees(h) == IF pnl_rows[h] = None THEN Purchased(h) = {}
                                   ELSE pnl_rows[h] = FreshPnL(h)

SavesStats == saving # None /\ saving.report.type = "EXECUTION" /\ saving.step = "stats"

\* The row that was just written is not counted yet, and it is the only change.
CountsNext(h) ==
  /\ SavesStats
  /\ LET p == saving.report.ack.pair IN
     /\ p \in Purchased(h)
     /\ \/ pnl_rows[h] = None
        \/ /\ position_rows[p].is_liquidated
           /\ pnl_rows[h].number_positions = FreshPnL(h).number_positions
        \/ /\ ~ position_rows[p].is_liquidated
           /\ pnl_rows[h].number_failed = FreshPnL(h).number_failed

StatsInv ==
  /\ HeardInv
  /\ \A h \in Hours : Purchased(h) \cap Blurred = {} => Agrees(h) \/ CountsNext(h)

\* Without a change of a row, an hour agrees as it did, or the report that
\* would have counted its row is lost.
LEMMA StatsKept ==
  ASSUME StatsInv, UNCHANGED <<position_rows, pnl_rows>>, torn \subseteq torn',
         \/ ~ SavesStats
         \/ UNCHANGED saving
         \/ saving.report.ack.pair \in torn',
         NEW h \in Hours, (Purchased(h) \cap Blurred)' = {}
  PROVE  (Agrees(h) \/ CountsNext(h))'
<1>1. /\ Purchased(h)' = Purchased(h) /\ FreshPnL(h)' = FreshPnL(h)
      /\ Blurred \subseteq Blurred' /\ torn' \subseteq Blurred'
  BY DEF Purchased, LostIn, FreshPnL, Blurred
<1>2. Agrees(h) \/ CountsNext(h)
  BY <1>1 DEF StatsInv
<1>3. Agrees(h) => Agrees(h)'
  BY <1>1 DEF Agrees
<1>4. CASE CountsNext(h)
  <2>1. SavesStats /\ saving.report.ack.pair \in Purchased(h)
    BY <1>4 DEF CountsNext
  <2>2. UNCHANGED saving
    BY <1>1, <2>1
  <2> QED BY <1>1, <1>4, <2>2 DEF CountsNext, SavesStats
<1> QED BY <1>2, <1>3, <1>4

\* A save of a position adds a row, or closes one.
LEMMA StatsRow ==
  ASSUME StatsInv, SavePositionRow, saving' # None, saving'.report = saving.report,
         saving'.step = "stats",
         NEW h \in Hours, (Purchased(h) \cap Blurred)' = {}
  PROVE  (Agrees(h) \/ CountsNext(h))'
<1> DEFINE ack == saving.report.ack
           row == position_rows[ack.pair]
<1>1. PICK p \in Pairs : p = ack.pair
  BY PositionRowEffect DEF StatsInv, HeardInv, StoredInv, SoldInv
<1>2. /\ RecoveryTypeInv /\ ack \in ExecutionAck
      /\ position_rows \in [Pairs -> PositionRow \cup {None}]
      /\ saving # None /\ saving.report.type = "EXECUTION" /\ saving.step = "position"
      /\ UNCHANGED <<torn, pnl_rows>>
  BY PositionRowEffect
     DEF StatsInv, HeardInv, StoredInv, SoldInv, RecoveryTypeInv, RecoveryTypeOK,
         ReporterTypeOK, SavePositionRow, Saving
<1>3. SavesStats' /\ ~ SavesStats
  BY <1>2 DEF SavesStats
<1>4. Purchased(h) \cap Blurred = {} => Agrees(h)
  BY <1>3 DEF StatsInv, CountsNext
<1>5. saving'.report.ack.pair = p
  BY <1>1
<1>6. \/ /\ p \notin Rows
         /\ NewRow(ack, hour') \in PositionRow
         /\ position_rows' = [position_rows EXCEPT ![p] = NewRow(ack, hour')]
      \/ /\ p \in Rows
         /\ position_rows[p] \in PositionRow
         /\ \E pnl \in PnlOfSell(row, ack) :
               /\ [row EXCEPT !.is_liquidated = TRUE, !.pnl = pnl] \in PositionRow
               /\ position_rows' =
                     [position_rows EXCEPT
                         ![p] = [row EXCEPT !.is_liquidated = TRUE, !.pnl = pnl]]
      \/ position_rows' = position_rows
  BY <1>1, <1>2, PositionRowEffect
<1>7. CASE position_rows' = position_rows
  BY <1>2, <1>3, <1>7, StatsKept
<1>8. CASE /\ p \notin Rows
           /\ NewRow(ack, hour') \in PositionRow
           /\ position_rows' = [position_rows EXCEPT ![p] = NewRow(ack, hour')]
  <2> DEFINE new == NewRow(ack, hour')
  <2>1. /\ new.purchased_at = hour /\ new.pnl = "zero" /\ new # None
        /\ new.is_liquidated = ~ ack.is_buy
    BY <1>8, NoneAssumption DEF NewRow
  <2>2. position_rows'[p] = new
        /\ \A o \in Pairs : o # p => position_rows'[o] = position_rows[o]
    BY <1>2, <1>8
  <2> HIDE DEF new, ack
  <2>3. position_rows[p] = None
    BY <1>8 DEF Rows
  <2>4. /\ Purchased(h)' = Purchased(h) \cup (IF h = hour THEN {p} ELSE {})
        /\ LostIn(h)' = LostIn(h)
    <3>1. \A o : o \in Purchased(h)' <=> o \in Purchased(h) \/ (h = hour /\ o = p)
      BY <2>1, <2>2, <2>3 DEF Purchased
    <3>2. \A o : o \in LostIn(h)' <=> o \in LostIn(h)
      <4>1. \A o \in Pairs : o # p => (o \in Purchased(h)' <=> o \in Purchased(h))
        BY <3>1
      <4>2. p \notin LostIn(h)' /\ p \notin LostIn(h)
        BY <2>1, <2>2, <2>3 DEF LostIn, Purchased
      <4> QED BY <2>2, <4>1, <4>2 DEF LostIn, Purchased
    <3> QED BY <3>1, <3>2
  <2>5. Purchased(h) \cap Blurred = {}
    <3>1. \A o \in Purchased(h) : o \in Pairs /\ o # p
      BY <2>3 DEF Purchased
    <3>2. \A o \in Purchased(h) : o \in Blurred => o \in Blurred'
      BY <1>2, <2>2, <3>1 DEF Blurred
    <3> QED BY <2>4, <3>2
  <2>6. CASE h # hour
    <3>1. Purchased(h)' = Purchased(h) /\ FreshPnL(h)' = FreshPnL(h)
      BY <2>4, <2>6 DEF FreshPnL
    <3> QED BY <1>2, <1>4, <2>5, <3>1 DEF Agrees
  <2>7. CASE h = hour
    <3>1. p \in Purchased(h)' /\ p \notin torn
      BY <1>2, <2>4, <2>7 DEF Blurred
    <3>2. ack.is_buy
      <4>1. ~ Known(p)
        BY <1>8, <3>1 DEF Known
      <4>2. ~ SavesSell(p)
        BY <4>1 DEF StatsInv, HeardInv, BuyBefore
      <4> QED BY <1>1, <1>2, <4>2 DEF SavesSell, IsSell, ack
    <3>3. ~ position_rows'[p].is_liquidated
      BY <2>1, <2>2, <3>2
    <3>4. pnl_rows'[h] # None => pnl_rows'[h].number_failed = FreshPnL(h)'.number_failed
      BY <1>2, <1>4, <2>4, <2>5 DEF Agrees, FreshPnL
    <3> QED BY <1>3, <1>5, <3>1, <3>3, <3>4 DEF CountsNext
  <2> QED BY <2>6, <2>7
<1>9. ASSUME p \in Rows, position_rows[p] \in PositionRow, NEW pnl \in PnlOfSell(row, ack),
             [row EXCEPT !.is_liquidated = TRUE, !.pnl = pnl] \in PositionRow,
             position_rows' =
                [position_rows EXCEPT
                    ![p] = [row EXCEPT !.is_liquidated = TRUE, !.pnl = pnl]]
      PROVE  (Agrees(h) \/ CountsNext(h))'
  <2> DEFINE new == [row EXCEPT !.is_liquidated = TRUE, !.pnl = pnl]
  <2>1. /\ new.purchased_at = position_rows[p].purchased_at
        /\ new.created_at = position_rows[p].created_at
        /\ new.is_liquidated = TRUE /\ new # None
    BY <1>1, <1>9, NoneAssumption DEF PositionRow
  <2>2. position_rows'[p] = new
        /\ \A o \in Pairs : o # p => position_rows'[o] = position_rows[o]
    BY <1>2, <1>9
  <2>3. position_rows[p] # None
    BY <1>9 DEF Rows
  <2> HIDE DEF new, ack
  <2>4. Purchased(h)' = Purchased(h) /\ Blurred' = Blurred
    <3>1. \A o \in Pairs : (position_rows'[o] # None <=> position_rows[o] # None)
             /\ position_rows'[o].purchased_at = position_rows[o].purchased_at
             /\ position_rows'[o].created_at = position_rows[o].created_at
      BY <2>1, <2>2, <2>3
    <3> QED BY <1>2, <3>1 DEF Purchased, Blurred
  <2>5. Agrees(h)
    BY <1>4, <2>4
  <2>6. CASE p \in Purchased(h)
    <3>1. p \in Purchased(h)' /\ position_rows'[p].is_liquidated
      BY <2>1, <2>2, <2>4, <2>6
    <3>2. pnl_rows'[h] # None =>
             pnl_rows'[h].number_positions = FreshPnL(h)'.number_positions
      BY <1>2, <2>4, <2>5 DEF Agrees, FreshPnL
    <3> QED BY <1>3, <1>5, <3>1, <3>2 DEF CountsNext
  <2>7. CASE p \notin Purchased(h)
    <3>1. LostIn(h)' = LostIn(h)
      <4>1. \A o \in Purchased(h) : o \in Pairs /\ o # p
        BY <2>7 DEF Purchased
      <4> QED BY <2>2, <2>4, <4>1 DEF LostIn
    <3>2. FreshPnL(h)' = FreshPnL(h)
      BY <2>4, <3>1 DEF FreshPnL
    <3> QED BY <1>2, <2>4, <2>5, <3>2 DEF Agrees
  <2> QED BY <2>6, <2>7
<1> QED BY <1>6, <1>7, <1>8, <1>9

\* The statistics of the hour of the row that was just written are brought up
\* to date, or the report is lost.
LEMMA StatsCounted ==
  ASSUME StatsInv, SaveStats, NEW h \in Hours, (Purchased(h) \cap Blurred)' = {}
  PROVE  Agrees(h)'
<1> DEFINE p == saving.report.ack.pair
           row == position_rows[p]
           old == pnl_rows[row.created_at]
<1>1. /\ UNCHANGED position_rows /\ saving # None /\ SavesStats
      /\ saving' = None
      /\ \/ torn' = torn \cup {p} /\ UNCHANGED pnl_rows
         \/ /\ pnl_rows' = [pnl_rows EXCEPT ![row.created_at] =
                               IF old = None THEN FreshPnL(row.created_at)
                               ELSE Recount(row, old)]
            /\ UNCHANGED torn
  BY DEF SaveStats, Saving, SavesStats
<1>2. ~ CountsNext(h)'
  BY <1>1 DEF CountsNext, SavesStats
<1>3. /\ Purchased(h)' = Purchased(h) /\ FreshPnL(h)' = FreshPnL(h)
      /\ Blurred \subseteq Blurred'
  BY <1>1 DEF Purchased, LostIn, FreshPnL, Blurred
<1>4. FreshPnL(h) # None
  BY FreshType DEF StatsInv, HeardInv, StoredInv, SoldInv
<1>5. CASE torn' = torn \cup {p} /\ UNCHANGED pnl_rows
  BY <1>1, <1>2, <1>5, StatsKept
<1>6. CASE /\ pnl_rows' = [pnl_rows EXCEPT ![row.created_at] =
                              IF old = None THEN FreshPnL(row.created_at)
                              ELSE Recount(row, old)]
           /\ UNCHANGED torn
  <2>1. /\ Purchased(h) \cap Blurred = {} /\ (Agrees(h) \/ CountsNext(h))
        /\ pnl_rows \in [Hours -> PnLRow \cup {None}]
    BY <1>3 DEF StatsInv, HeardInv, StoredInv, SoldInv, RecoveryTypeInv, RecoveryTypeOK,
                ReporterTypeOK
  <2>2. p \in Purchased(h) => row.created_at = h
    BY <2>1 DEF Purchased, Blurred
  <2>3. CASE row.created_at # h
    <3>1. Agrees(h)
      BY <2>1, <2>2, <2>3 DEF CountsNext
    <3>2. pnl_rows'[h] = pnl_rows[h]
      BY <1>6, <2>1, <2>3
    <3> QED BY <1>3, <3>1, <3>2 DEF Agrees
  <2>4. CASE row.created_at = h
    <3>1. pnl_rows'[h] = IF pnl_rows[h] = None THEN FreshPnL(h) ELSE Recount(row, pnl_rows[h])
      BY <1>6, <2>1, <2>4
    <3>2. CASE pnl_rows[h] = None
      BY <1>3, <1>4, <3>1, <3>2 DEF Agrees
    <3>3. CASE pnl_rows[h] # None
      <4>1. /\ pnl_rows[h] \in PnLRow
            /\ pnl_rows'[h] =
                  IF row.is_liquidated
                  THEN [pnl_rows[h] EXCEPT !.number_failed = FreshPnL(h).number_failed]
                  ELSE [pnl_rows[h] EXCEPT !.number_positions = FreshPnL(h).number_positions]
        BY <2>1, <2>4, <3>1, <3>3 DEF Recount
      <4>2. \/ pnl_rows[h] = FreshPnL(h)
            \/ /\ row.is_liquidated
               /\ pnl_rows[h].number_positions = FreshPnL(h).number_positions
            \/ /\ ~ row.is_liquidated
               /\ pnl_rows[h].number_failed = FreshPnL(h).number_failed
        BY <2>1, <3>3 DEF Agrees, CountsNext
      <4>3. pnl_rows'[h] = FreshPnL(h)
        BY <4>1, <4>2 DEF PnLRow, FreshPnL
      <4> QED BY <1>3, <1>4, <4>3 DEF Agrees
    <3> QED BY <3>2, <3>3
  <2> QED BY <2>3, <2>4
<1> QED BY <1>1, <1>5, <1>6

LEMMA StatsInit == RecoveryInit => StatsInv
<1> SUFFICES ASSUME RecoveryInit PROVE StatsInv
  OBVIOUS
<1>1. /\ position_rows = [p \in Pairs |-> None]
      /\ pnl_rows = [h \in Hours |-> None]
  BY DEF RecoveryInit, ReporterInit
<1>2. \A h \in Hours : Agrees(h)
  BY <1>1 DEF Agrees, Purchased
<1> QED BY <1>2, HeardInit DEF StatsInv

LEMMA StatsStep == StatsInv /\ [RecoveryNext]_recoveryVars => StatsInv'
<1> SUFFICES ASSUME StatsInv, [RecoveryNext]_recoveryVars PROVE StatsInv'
  OBVIOUS
<1>1. HeardInv'
  BY HeardStep DEF StatsInv
<1> SUFFICES ASSUME NEW h \in Hours, (Purchased(h) \cap Blurred)' = {}
             PROVE  (Agrees(h) \/ CountsNext(h))'
  BY <1>1 DEF StatsInv, Hours
<1>2. RecoveryTypeInv
  BY DEF StatsInv, HeardInv, StoredInv, SoldInv
<1>3. CASE Trade
  <2>1. UNCHANGED <<position_rows, pnl_rows, torn, saving>>
    BY <1>3 DEF Trade, reporterVars
  <2> QED BY <2>1, StatsKept
<1>4. CASE ReporterTask(TakeFirstReport)
  <2>1. UNCHANGED <<position_rows, pnl_rows, torn>> /\ saving = None
    BY <1>2, <1>4, TakeReports DEF RecoveryTypeInv, ReporterTask, TakeFirstReport
  <2> QED BY <2>1, StatsKept DEF SavesStats
<1>5. CASE ReporterTask(SaveStep) \/ ReporterTask(SaveFails)
  <2>1. torn \subseteq torn'
    BY <1>2, <1>5, SaveReports
  <2>2. CASE SavePositionRow
    <3>1. saving' # None /\ saving'.report = saving.report /\ saving'.step = "stats"
      BY <1>2, <2>2, SavingFacts, NoneAssumption DEF RecoveryTypeInv, SavePositionRow, Saving
    <3> QED BY <2>2, <3>1, StatsRow
  <2>3. CASE SaveStats
    BY <2>3, StatsCounted
  <2>4. CASE ~ SavePositionRow /\ ~ SaveStats
    <3>1. UNCHANGED <<position_rows, pnl_rows>>
      BY <1>2, <1>5, <2>4, SaveReports
    <3>2. ~ SavesStats \/ saving.report.ack.pair \in torn'
      BY <1>2, <1>5, <2>4, SaveReports DEF SavesStats
    <3> QED BY <2>1, <3>1, <3>2, StatsKept
  <2> QED BY <2>2, <2>3, <2>4
<1>6. CASE ClockTick \/ UNCHANGED recoveryVars
  <2>1. UNCHANGED <<position_rows, pnl_rows, torn, saving>>
    BY <1>6 DEF ClockTick, HourPasses, recoveryVars, reporterVars
  <2> QED BY <2>1, StatsKept
<1>7. CASE Restart
  <2>1. /\ UNCHANGED <<position_rows, pnl_rows>>
        /\ torn' = torn \cup (IF saving = None THEN {} ELSE PairsOf(saving.report))
    BY <1>7 DEF Restart
  <2>2. SavesStats => saving.report.ack.pair \in torn'
    BY <2>1 DEF SavesStats, PairsOf
  <2>3. torn \subseteq torn'
    BY <2>1
  <2> QED BY <2>1, <2>2, <2>3, StatsKept
<1> QED BY <1>3, <1>4, <1>5, <1>6, <1>7 DEF RecoveryNext

(***************************************************************************)
(* Between two saves, the number of positions and of total losses stored   *)
(* for an hour is that of the rows of the hour, whatever buys and sells    *)
(* were stored in between and in which order, unless a row of that hour    *)
(* was stored over the turn of the hour or its save was cut short          *)
(* (reporter.py:136-158).                                                  *)
(***************************************************************************)
THEOREM StatisticsAgree == RecoverySpec => []StatsAgree
<1>1. StatsInv => StatsAgree
  BY DEF StatsInv, StatsAgree, Agrees, CountsNext, SavesStats
<1> QED BY StatsInit, StatsStep, <1>1, PTL DEF RecoverySpec
=============================================================================
