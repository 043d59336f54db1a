------------------------- MODULE TradingSystemProofs -------------------------
(***************************************************************************)
(* Machine-checked proofs about TradingSystem, for every value of its      *)
(* constants.                                                              *)
(***************************************************************************)
EXTENDS TradingSystem, QueueLemmas

-----------------------------------------------------------------------------
(* Type correctness.                                                       *)

(* The assumptions on the constants that the proofs use.                   *)
LEMMA ConstantTypes ==
  /\ MAX_INSPECT_ATTEMPTS \in Nat
  /\ INSPECT_INTERVAL \in Nat
  /\ INVENTORY_CAPACITY \in Nat
  /\ HOLD_MAX_DURATION \in Nat
  /\ BUY_AMOUNT \in Nat \ {0}
  /\ MIN_BUY_AMOUNT \in Nat \ {0}
  /\ MAX_BUY_AMOUNT \in Nat
  /\ AMOUNT_CHANGE_STEP \in Nat
  /\ GAS_COST \in Nat
  /\ SellReturns \subseteq Nat
  /\ PendingPositions \in Seq(Position)
BY StrategyAssumption

LEMMA AmountBounds ==
  MIN_BUY_AMOUNT <= BUY_AMOUNT /\ BUY_AMOUNT <= MAX_BUY_AMOUNT
BY StrategyAssumption

(* The messages and records that the code builds have the fields that the  *)
(* receiver expects.                                                       *)
LEMMA BuiltRecords ==
  /\ \A position \in Position : SellOrder(position) \in ExecutionOrder
  /\ \A pair \in Pairs, is_paper \in BOOLEAN : BuyOrder(pair, is_paper) \in ExecutionOrder
  /\ \A ack \in ExecutionAck : NewPosition(ack) \in Position
BY DEF SellOrder, BuyOrder, NewPosition, Position, ExecutionOrder, ExecutionAck

(* A booked profit or loss is a number, as the amount is never zero.       *)
LEMMA PnlType ==
  ASSUME buy_amount \in Nat \ {0}, NEW amount_out \in Nat
  PROVE  Pnl(amount_out) \in Int
<1>1. (amount_out - buy_amount - GAS_COST) * 100 \in Int
  BY ConstantTypes
<1>2. \A n \in Int, d \in Nat \ {0} : n \div d \in Int
  OBVIOUS
<1> QED BY <1>1, <1>2 DEF Pnl

LEMMA AgeBounds == MaxPairAge \in Nat /\ MaxPositionAge \in Nat
BY ConstantTypes DEF MaxPairAge, MaxPositionAge

LEMMA TypeInit == Init => TypeOK
<1> SUFFICES ASSUME Init PROVE TypeOK
  OBVIOUS
<1>1. QueuesTypeOK
  BY ConstantTypes DEF Init, QueuesTypeOK
<1>2. StrategyTypeOK
  <2>1. EmptyBlock \in BlockData
    BY DEF EmptyBlock, BlockData
  <2>2. <<>> \in Seq(WatchedPair) /\ <<>> \in Seq(Position)
    BY EmptySeq
  <2>3. BUY_AMOUNT \in Nat \ {0}
    BY ConstantTypes
  <2>4. StrategyInit
    BY DEF Init
  <2>5. glb_liquidated \in BOOLEAN /\ glb_auto_run \in BOOLEAN
    BY <2>4 DEF StrategyInit
  <2>6. glb_fullfilled \in Int /\ glb_daily_pnl \in Int /\ scan \in Nat \ {0}
    BY <2>4 DEF StrategyInit
  <2> QED BY <2>1, <2>2, <2>3, <2>4, <2>5, <2>6 DEF StrategyInit, StrategyTypeOK, Phases
<1>3. ExecutorTypeOK
  BY FS_EmptySet DEF Init, ExecutorInit, ExecutorTypeOK
<1>4. WatcherTypeOK
  <2>1. \A i \in DOMAIN PendingPositions : PendingPositions[i].pair \in Pairs
    <3> TAKE i \in DOMAIN PendingPositions
    <3>1. PendingPositions \in Seq(Position)
      BY ConstantTypes
    <3>2. PendingPositions[i] \in Position
      BY <3>1, ElementOfSeq, LenProperties
    <3> QED BY <3>2 DEF Position
  <2>2. {p.pair : p \in ToSet(PendingPositions)} \subseteq Pairs
    BY <2>1 DEF ToSet
  <2> QED BY <2>2 DEF Init, WatcherInit, WatcherTypeOK
<1>5. restored \in Nat
  BY DEF Init
<1> QED BY <1>1, <1>2, <1>3, <1>4, <1>5 DEF TypeOK

LEMMA TypeReceiveBlock ==
  ASSUME TypeOK, StrategyTask(ReceiveBlock)
  PROVE  TypeOK'
<1> USE DEF TypeOK, StrategyTask
<1>1. block' \in BlockData /\ watching_broker' \in Seq(BlockData)
  BY TailFacts DEF ReceiveBlock, QueuesTypeOK
<1>2. report_broker' \in Seq(ReportData)
  <2>1. [type |-> "BLOCK", pairs |-> block'.pairs] \in ReportData
    BY <1>1 DEF ReportData, BlockData
  <2> QED BY <2>1, AppendFacts DEF ReceiveBlock, QueuesTypeOK
<1>3. \A age \in Nat, bound \in Int : Older(age, bound) \in Nat
  BY DEF Older
<1>4. glb_watchlist' \in Seq(WatchedPair)
  <2> DEFINE f == [i \in DOMAIN glb_watchlist |->
                      [glb_watchlist[i] EXCEPT !.age = Older(@, MaxPairAge)]]
  <2>1. MaxPairAge \in Int
    BY AgeBounds
  <2>2. \A i \in DOMAIN glb_watchlist : f[i] \in WatchedPair
    <3> TAKE i \in DOMAIN glb_watchlist
    <3>1. glb_watchlist[i] \in WatchedPair
      BY ElementOfSeq, LenProperties DEF StrategyTypeOK
    <3> QED BY <3>1, <2>1, <1>3 DEF WatchedPair
  <2>3. f \in [DOMAIN glb_watchlist -> WatchedPair]
    BY <2>2
  <2> QED BY <2>3, MapFacts DEF ReceiveBlock, StrategyTypeOK
<1>5. glb_inventory' \in Seq(Position)
  <2> DEFINE f == [i \in DOMAIN glb_inventory |->
                      [glb_inventory[i] EXCEPT !.age = Older(@, MaxPositionAge)]]
  <2>1. MaxPositionAge \in Int
    BY AgeBounds
  <2>2. \A i \in DOMAIN glb_inventory : f[i] \in Position
    <3> TAKE i \in DOMAIN glb_inventory
    <3>1. glb_inventory[i] \in Position
      BY ElementOfSeq, LenProperties DEF StrategyTypeOK
    <3> QED BY <3>1, <2>1, <1>3 DEF Position
  <2>3. f \in [DOMAIN glb_inventory -> Position]
    BY <2>2
  <2> QED BY <2>3, MapFacts DEF ReceiveBlock, StrategyTypeOK
<1>6. scan' \in Nat \ {0}
  BY LenProperties DEF ReceiveBlock, StrategyTypeOK
<1>7. QueuesTypeOK'
  BY <1>1, <1>2 DEF ReceiveBlock, QueuesTypeOK
<1>8. StrategyTypeOK'
  BY <1>1, <1>4, <1>5, <1>6 DEF ReceiveBlock, StrategyTypeOK, Phases
<1>9. ExecutorTypeOK' /\ WatcherTypeOK' /\ restored' \in Nat
  BY DEF ReceiveBlock, ExecutorTypeOK, WatcherTypeOK, executorVars, watcherVars
<1> QED BY <1>7, <1>8, <1>9

(* What a step of strategy() that sends an order changes is well typed.    *)
LEMMA TypeSendExecOrder ==
  ASSUME TypeOK, NEW pair \in Pairs, NEW is_paper \in BOOLEAN,
         NEW next \in Phases, SendExecOrder(pair, is_paper, next)
  PROVE  /\ glb_fullfilled' \in Int
         /\ execution_broker' \in Seq(ExecutionOrder)
         /\ pc' \in Phases
<1>1. BuyOrder(pair, is_paper) \in ExecutionOrder
  BY BuiltRecords
<1>2. Append(execution_broker, BuyOrder(pair, is_paper)) \in Seq(ExecutionOrder)
  BY <1>1, AppendFacts DEF TypeOK, QueuesTypeOK
<1>3. glb_fullfilled + 1 \in Int /\ glb_fullfilled \in Int
      /\ execution_broker \in Seq(ExecutionOrder)
  BY DEF TypeOK, StrategyTypeOK, QueuesTypeOK
<1> QED BY <1>2, <1>3 DEF SendExecOrder, Phases

(* The pairs of a block are pairs.                                         *)
LEMMA TypeAdmitting ==
  ASSUME StrategyTypeOK
  PROVE  /\ Admitting(glb_watchlist) \subseteq Pairs
         /\ \A rest : After(rest) \in Phases
         /\ EmptyBlock \in BlockData
BY DEF StrategyTypeOK, Admitting, BlockData, After, Phases, EmptyBlock

LEMMA TypeLiquidateNext ==
  ASSUME TypeOK, LiquidateNext
  PROVE  QueuesTypeOK' /\ StrategyTypeOK'
<1>1. scan \in 1 .. Len(glb_inventory)
  BY LenProperties DEF LiquidateNext, TypeOK, StrategyTypeOK
<1>2. glb_inventory[scan] \in Position
  BY <1>1, ElementOfSeq DEF TypeOK, StrategyTypeOK
<1>3. PopPosition(scan) \in Seq(Position)
  BY <1>1, RemoveAtFacts DEF TypeOK, StrategyTypeOK, PopPosition
<1>4. Append(execution_broker, SellOrder(glb_inventory[scan])) \in Seq(ExecutionOrder)
  BY <1>2, BuiltRecords, AppendFacts DEF TypeOK, QueuesTypeOK
<1>5. /\ glb_inventory' \in Seq(Position)
      /\ execution_broker' \in Seq(ExecutionOrder)
      /\ glb_liquidated' \in BOOLEAN
  BY <1>3, <1>4 DEF LiquidateNext, TypeOK, StrategyTypeOK, QueuesTypeOK
<1>6. scan' \in Nat \ {0}
  BY DEF LiquidateNext, TypeOK, StrategyTypeOK
<1>7. QueuesTypeOK'
  BY <1>5 DEF LiquidateNext, TypeOK, QueuesTypeOK
<1>8. StrategyTypeOK'
  BY <1>5, <1>6 DEF LiquidateNext, TypeOK, StrategyTypeOK
<1> QED BY <1>7, <1>8

LEMMA TypeHardStop ==
  ASSUME TypeOK, HardStop
  PROVE  QueuesTypeOK' /\ StrategyTypeOK'
<1>1. block' \in BlockData /\ scan' \in Nat \ {0} /\ failed' \subseteq Pairs
  BY TypeAdmitting DEF HardStop, Forget, TypeOK
<1> QED BY <1>1 DEF HardStop, TypeOK, QueuesTypeOK, StrategyTypeOK, queues, Phases

LEMMA TypeGoOn ==
  ASSUME TypeOK, GoOn
  PROVE  QueuesTypeOK' /\ StrategyTypeOK'
<1>1. DuePairs \subseteq Pairs
  <2>1. \A w \in ToSet(glb_watchlist) : w.pair \in Pairs
    <3>1. \A i \in DOMAIN glb_watchlist : glb_watchlist[i] \in WatchedPair
      BY ElementOfSeq, LenProperties DEF TypeOK, StrategyTypeOK
    <3> QED BY <3>1 DEF ToSet, WatchedPair
  <2> QED BY <2>1 DEF DuePairs
<1>2. glb_daily_pnl' \in Int /\ buy_amount' \in Nat \ {0}
  <2>1. glb_daily_pnl' \in {glb_daily_pnl, 0} /\ buy_amount' \in {BUY_AMOUNT, buy_amount}
    BY DEF GoOn
  <2> QED BY <2>1, ConstantTypes DEF TypeOK, StrategyTypeOK
<1>3. /\ inspecting' \subseteq Pairs /\ pc' \in Phases
      /\ block' \in BlockData /\ scan' \in Nat \ {0} /\ failed' \subseteq Pairs
  <2>1. CASE DuePairs # {}
    BY <2>1, <1>1 DEF GoOn, TypeOK, StrategyTypeOK, Phases
  <2>2. CASE DuePairs = {}
    <3>1. /\ inspecting' = Admitting(glb_watchlist)
          /\ pc' = After(inspecting')
          /\ block' = EmptyBlock /\ scan' = 1 /\ failed' = {}
      BY <2>2 DEF GoOn, Forget
    <3> QED BY <3>1, TypeAdmitting DEF TypeOK
  <2> QED BY <2>1, <2>2
<1> QED BY <1>2, <1>3 DEF GoOn, TypeOK, QueuesTypeOK, StrategyTypeOK, queues

LEMMA TypeInspectionPasses ==
  ASSUME TypeOK, NEW p \in Pairs, NEW verified \in BOOLEAN, NEW enough_mm \in BOOLEAN,
         InspectionPasses(p, verified, enough_mm)
  PROVE  QueuesTypeOK' /\ StrategyTypeOK'
<1>1. PICK i \in DOMAIN glb_watchlist :
         LET inspected ==
                [glb_watchlist[i] EXCEPT !.inspect_attempts = @ + 1,
                                         !.contract_verified = @ \/ verified]
         IN \/ /\ glb_watchlist' = [glb_watchlist EXCEPT ![i] = inspected]
               /\ UNCHANGED <<glb_fullfilled, execution_broker, pc>>
            \/ /\ glb_watchlist' = RemoveAt(glb_watchlist, i)
               /\ \/ SendExecOrder(p, RUN_MODE = "PAPER_TRADE", pc)
                  \/ UNCHANGED <<glb_fullfilled, execution_broker, pc>>
  BY DEF InspectionPasses
<1> DEFINE inspected ==
             [glb_watchlist[i] EXCEPT !.inspect_attempts = @ + 1,
                                      !.contract_verified = @ \/ verified]
<1>2. i \in 1 .. Len(glb_watchlist) /\ glb_watchlist[i] \in WatchedPair
  BY ElementOfSeq, LenProperties DEF TypeOK, StrategyTypeOK
<1>3. inspected \in WatchedPair
  <2> DEFINE attempts == glb_watchlist[i].inspect_attempts + 1
             sticky == glb_watchlist[i].contract_verified \/ verified
  <2>1. attempts \in Nat
    BY <1>2 DEF WatchedPair
  <2>2. sticky \in BOOLEAN
    OBVIOUS
  <2>3. inspected = [glb_watchlist[i] EXCEPT !.inspect_attempts = attempts,
                                             !.contract_verified = sticky]
    OBVIOUS
  <2> HIDE DEF attempts, sticky
  <2> QED BY <1>2, <2>1, <2>2, <2>3 DEF WatchedPair
<1>4. glb_watchlist' \in Seq(WatchedPair)
  <2> HIDE DEF inspected
  <2>1. [glb_watchlist EXCEPT ![i] = inspected] \in Seq(WatchedPair)
    BY <1>2, <1>3, ExceptSeq DEF TypeOK, StrategyTypeOK
  <2>2. RemoveAt(glb_watchlist, i) \in Seq(WatchedPair)
    BY <1>2, RemoveAtFacts DEF TypeOK, StrategyTypeOK
  <2> QED BY <1>1, <2>1, <2>2 DEF inspected
<1>5. /\ glb_fullfilled' \in Int
      /\ execution_broker' \in Seq(ExecutionOrder)
      /\ pc' \in Phases
  <2>1. CASE SendExecOrder(p, RUN_MODE = "PAPER_TRADE", pc)
    <3>1. pc \in Phases /\ (RUN_MODE = "PAPER_TRADE") \in BOOLEAN
      BY DEF TypeOK, StrategyTypeOK
    <3> QED BY <3>1, <2>1, TypeSendExecOrder
  <2>2. CASE UNCHANGED <<glb_fullfilled, execution_broker, pc>>
    BY <2>2 DEF TypeOK, StrategyTypeOK, QueuesTypeOK
  <2> QED BY <1>1, <2>1, <2>2
<1>6. inspecting' \subseteq Pairs
  BY DEF InspectionPasses, TypeOK, StrategyTypeOK
<1>7. QueuesTypeOK'
  BY <1>5 DEF InspectionPasses, TypeOK, QueuesTypeOK
<1>8. StrategyTypeOK'
  BY <1>4, <1>5, <1>6 DEF InspectionPasses, TypeOK, StrategyTypeOK
<1> QED BY <1>7, <1>8

LEMMA TypeInspection ==
  ASSUME TypeOK, InspectDone \/ \E p \in Pairs : InspectionFails(p)
  PROVE  QueuesTypeOK' /\ StrategyTypeOK'
BY DEF InspectionFails, InspectDone, TypeOK, QueuesTypeOK, StrategyTypeOK, queues, Phases

LEMMA TypePurge ==
  ASSUME TypeOK, PurgeNext \/ PurgeDone
  PROVE  QueuesTypeOK' /\ StrategyTypeOK'
<1>1. CASE PurgeNext
  <2>1. scan \in 1 .. Len(glb_watchlist)
    BY <1>1, LenProperties DEF PurgeNext, TypeOK, StrategyTypeOK
  <2>2. RemoveAt(glb_watchlist, scan) \in Seq(WatchedPair)
    BY <2>1, RemoveAtFacts DEF TypeOK, StrategyTypeOK
  <2>3. glb_watchlist' \in Seq(WatchedPair) /\ scan' \in Nat \ {0}
    BY <1>1, <2>2 DEF PurgeNext, TypeOK, StrategyTypeOK
  <2> QED BY <1>1, <2>3 DEF PurgeNext, TypeOK, QueuesTypeOK, StrategyTypeOK, queues
<1>2. CASE PurgeDone
  <2>1. /\ inspecting' = Admitting(glb_watchlist)
        /\ pc' = After(inspecting')
        /\ block' = EmptyBlock /\ scan' = 1 /\ failed' = {}
    BY <1>2 DEF PurgeDone, Forget
  <2>2. /\ inspecting' \subseteq Pairs /\ pc' \in Phases /\ block' \in BlockData
        /\ scan' \in Nat \ {0} /\ failed' \subseteq Pairs
    BY <2>1, TypeAdmitting DEF TypeOK
  <2> QED BY <1>2, <2>2 DEF PurgeDone, TypeOK, QueuesTypeOK, StrategyTypeOK, queues
<1> QED BY <1>1, <1>2

LEMMA TypeAdmission ==
  ASSUME TypeOK, NEW p \in Pairs,
         Reject(p) \/ (\E verified \in BOOLEAN : Watch(p, verified)) \/ BuyAtOnce(p)
  PROVE  QueuesTypeOK' /\ StrategyTypeOK'
<1>1. Admitted(p)
  BY DEF Reject, Watch, BuyAtOnce
<1>2. After(inspecting') \in Phases /\ FALSE \in BOOLEAN
  BY TypeAdmitting DEF TypeOK
<1> DEFINE Typed == /\ glb_fullfilled' \in Int
                    /\ execution_broker' \in Seq(ExecutionOrder)
                    /\ pc' \in Phases
                    /\ glb_watchlist' \in Seq(WatchedPair)
<1>3. Typed
  <2>1. CASE Reject(p)
    BY <2>1, <1>2 DEF Reject, TypeOK, QueuesTypeOK, StrategyTypeOK
  <2>2. ASSUME NEW verified \in BOOLEAN, Watch(p, verified)
        PROVE  Typed
    <3> DEFINE watched == [pair |-> p, age |-> 0, inspect_attempts |-> 1,
                           contract_verified |-> verified]
    <3>1. watched \in WatchedPair
      BY DEF WatchedPair
    <3>2. glb_watchlist' = Append(glb_watchlist, watched)
      BY <2>2 DEF Watch
    <3> HIDE DEF watched
    <3>3. glb_watchlist' \in Seq(WatchedPair)
      BY <3>1, <3>2, AppendFacts DEF TypeOK, StrategyTypeOK
    <3> QED BY <2>2, <1>2, <3>3 DEF Watch, TypeOK, QueuesTypeOK, StrategyTypeOK
  <2>3. CASE BuyAtOnce(p)
    BY <2>3, <1>2, TypeSendExecOrder DEF BuyAtOnce, TypeOK, StrategyTypeOK
  <2> QED BY <2>1, <2>2, <2>3
<1>4. QueuesTypeOK'
  BY <1>1, <1>3 DEF Admitted, TypeOK, QueuesTypeOK
<1>5. StrategyTypeOK'
  BY <1>1, <1>3 DEF Admitted, TypeOK, StrategyTypeOK
<1> QED BY <1>4, <1>5

LEMMA TypePass ==
  ASSUME TypeOK, Pass
  PROVE  QueuesTypeOK' /\ StrategyTypeOK'
<1>1. CASE LiquidateNext \/ HardStop \/ GoOn
  BY <1>1, TypeLiquidateNext, TypeHardStop, TypeGoOn
<1>2. CASE PurgeNext \/ PurgeDone
  BY <1>2, TypePurge
<1>3. ASSUME NEW p \in Pairs, InspectionFails(p)
      PROVE  QueuesTypeOK' /\ StrategyTypeOK'
  BY <1>3, TypeInspection
<1>4. ASSUME NEW p \in Pairs, NEW verified \in BOOLEAN, NEW enough_mm \in BOOLEAN,
             InspectionPasses(p, verified, enough_mm)
      PROVE  QueuesTypeOK' /\ StrategyTypeOK'
  BY <1>4, TypeInspectionPasses
<1>5. ASSUME NEW p \in Pairs,
             Reject(p) \/ (\E verified \in BOOLEAN : Watch(p, verified)) \/ BuyAtOnce(p)
      PROVE  QueuesTypeOK' /\ StrategyTypeOK'
  BY <1>5, TypeAdmission
<1>6. CASE InspectDone
  BY <1>6, TypeInspection
<1> QED BY <1>1, <1>2, <1>3, <1>4, <1>5, <1>6 DEF Pass

(* What all the ways to handle an acknowledgement do to the queues.        *)
LEMMA TypeReceiveAck ==
  ASSUME TypeOK, NEW extra \in Seq(ReportData), ReceiveAck(extra)
  PROVE  QueuesTypeOK' /\ Head(execution_report) \in ExecutionAck
<1>1. Head(execution_report) \in ExecutionAck /\ execution_report' \in Seq(ExecutionAck)
  BY TailFacts DEF ReceiveAck, TypeOK, QueuesTypeOK
<1>2. watching_notifier' \in Seq(ExecutionAck)
  BY <1>1, AppendFacts DEF ReceiveAck, Notify, TypeOK, QueuesTypeOK
<1>3. report_broker' \in Seq(ReportData)
  <2>1. [type |-> "EXECUTION", ack |-> Head(execution_report)] \in ReportData
    BY <1>1 DEF ReportData
  <2>2. Append(report_broker, [type |-> "EXECUTION", ack |-> Head(execution_report)])
           \in Seq(ReportData)
    BY <2>1, AppendFacts DEF TypeOK, QueuesTypeOK
  <2> QED BY <2>2, ConcatFacts DEF ReceiveAck
<1> QED BY <1>1, <1>2, <1>3 DEF ReceiveAck, TypeOK, QueuesTypeOK

LEMMA TypeBuyAck ==
  ASSUME TypeOK, BuySucceeded \/ BuyFailed
  PROVE  QueuesTypeOK' /\ StrategyTypeOK'
<1>1. ReceiveAck(<<>>) /\ <<>> \in Seq(ReportData)
  BY EmptySeq DEF BuySucceeded, BuyFailed
<1>2. QueuesTypeOK' /\ Head(execution_report) \in ExecutionAck
  BY <1>1, TypeReceiveAck
<1>3. glb_inventory' \in Seq(Position) /\ glb_fullfilled' \in Int
  <2>1. Append(glb_inventory, NewPosition(Head(execution_report))) \in Seq(Position)
    BY <1>2, BuiltRecords, AppendFacts DEF TypeOK, StrategyTypeOK
  <2>2. CASE BuySucceeded
    BY <2>1, <2>2 DEF BuySucceeded, TypeOK, StrategyTypeOK
  <2>3. CASE BuyFailed
    BY <2>3 DEF BuyFailed, ReleaseSlot, TypeOK, StrategyTypeOK
  <2> QED BY <2>2, <2>3
<1>4. UNCHANGED <<glb_liquidated, glb_daily_pnl, buy_amount>>
  BY DEF BuySucceeded, BuyFailed
<1> QED BY <1>1, <1>2, <1>3, <1>4 DEF ReceiveAck, TypeOK, StrategyTypeOK

LEMMA TypeSellAck ==
  ASSUME TypeOK, SellSucceeded \/ SellFailed
  PROVE  QueuesTypeOK' /\ StrategyTypeOK'
<1>1. PICK extra \in Seq(ReportData) : ReceiveAck(extra)
  <2>1. CASE SellSucceeded
    BY <2>1, EmptySeq DEF SellSucceeded
  <2>2. CASE SellFailed
    <3> DEFINE blacklist == [type |-> "BLACKLIST_ADDED",
                             creator_of |-> Head(execution_report).pair]
    <3>1. execution_report # <<>>
      BY <2>2 DEF SellFailed, Received
    <3>2. Head(execution_report) \in ExecutionAck
      BY <3>1, TailFacts DEF TypeOK, QueuesTypeOK
    <3>3. blacklist \in ReportData
      BY <3>2 DEF ReportData, ExecutionAck
    <3>4. ReceiveAck(<<blacklist>>)
      BY <2>2 DEF SellFailed
    <3> HIDE DEF blacklist
    <3>5. <<blacklist>> \in Seq(ReportData)
      BY <3>3
    <3> QED BY <3>4, <3>5
  <2> QED BY <2>1, <2>2
<1>2. QueuesTypeOK'
  BY <1>1, TypeReceiveAck
<1>3. /\ glb_fullfilled' = glb_fullfilled - 1 /\ glb_liquidated' = FALSE
      /\ UNCHANGED glb_inventory
  BY DEF SellSucceeded, SellFailed, ReleaseSlot, ReleaseLock
<1>4. glb_daily_pnl' \in Int /\ buy_amount' \in Nat \ {0}
  <2>1. PICK amount_out \in Nat :
           /\ glb_daily_pnl' \in {glb_daily_pnl + Pnl(amount_out), 0}
           /\ \/ buy_amount' = buy_amount
              \/ buy_amount' = buy_amount + AMOUNT_CHANGE_STEP
              \/ /\ buy_amount' = buy_amount - AMOUNT_CHANGE_STEP
                 /\ buy_amount - AMOUNT_CHANGE_STEP >= MIN_BUY_AMOUNT
    <3>1. CASE SellSucceeded
      BY <3>1, ConstantTypes DEF SellSucceeded
    <3>2. CASE SellFailed
      BY <3>2, 0 \in Nat DEF SellFailed
    <3> QED BY <3>1, <3>2
  <2>2. Pnl(amount_out) \in Int
    BY PnlType DEF TypeOK, StrategyTypeOK
  <2> QED BY <2>1, <2>2, ConstantTypes DEF TypeOK, StrategyTypeOK
<1>5. glb_fullfilled' \in Int
  BY <1>3 DEF TypeOK, StrategyTypeOK
<1>6. glb_liquidated' \in BOOLEAN
  BY <1>3
<1> QED BY <1>1, <1>2, <1>3, <1>4, <1>5, <1>6 DEF ReceiveAck, TypeOK, StrategyTypeOK

LEMMA TypeControl ==
  ASSUME TypeOK, ControlTask
  PROVE  TypeOK'
<1>1. /\ Head(control_receiver) \in Seq(Position)
      /\ control_receiver' \in Seq(Seq(Position))
  BY TailFacts DEF ControlTask, HandleControlOrder, TypeOK, QueuesTypeOK
<1>2. /\ glb_inventory' \in Seq(Position)
      /\ Len(Head(control_receiver)) \in Nat
  BY <1>1, ConcatFacts DEF ControlTask, HandleControlOrder, TypeOK, StrategyTypeOK
<1>3. restored' \in Nat
  BY <1>2 DEF ControlTask, TypeOK
<1>4. QueuesTypeOK'
  BY <1>1 DEF ControlTask, HandleControlOrder, TypeOK, QueuesTypeOK
<1>5. StrategyTypeOK'
  BY <1>2 DEF ControlTask, HandleControlOrder, TypeOK, StrategyTypeOK
<1>6. ExecutorTypeOK' /\ WatcherTypeOK'
  BY DEF ControlTask, TypeOK, ExecutorTypeOK, WatcherTypeOK, executorVars, watcherVars
<1> QED BY <1>3, <1>4, <1>5, <1>6 DEF TypeOK

(* The tasks of the main process that do not touch the trading state.      *)
LEMMA TypeOther ==
  ASSUME TypeOK,
         \/ OtherTask(NewHead) \/ OtherTask(ListenReport)
         \/ OtherTask(TakeReport) /\ UNCHANGED watcherVars
  PROVE  TypeOK'
<1>1. UNCHANGED <<strategyVars, executorVars, restored>>
  BY DEF OtherTask
<1>2. StrategyTypeOK' /\ ExecutorTypeOK' /\ restored' \in Nat
  BY <1>1 DEF TypeOK, StrategyTypeOK, ExecutorTypeOK, strategyVars, executorVars
<1>3. QueuesTypeOK' /\ WatcherTypeOK'
  <2>1. CASE NewHead
    <3>1. PICK created \in SUBSET (Pairs \ announced) :
             /\ announced' = announced \cup created
             /\ watching_broker' =
                   Append(watching_broker,
                          [pairs |-> created, inventory |-> watch_inventory])
      BY <2>1 DEF NewHead
    <3> DEFINE head == [pairs |-> created, inventory |-> watch_inventory]
    <3>2. head \in BlockData
      BY DEF TypeOK, WatcherTypeOK, BlockData
    <3> HIDE DEF head
    <3>3. watching_broker' \in Seq(BlockData)
      BY <3>1, <3>2, AppendFacts DEF TypeOK, QueuesTypeOK, head
    <3> QED BY <2>1, <3>1, <3>3 DEF NewHead, TypeOK, QueuesTypeOK, WatcherTypeOK
  <2>2. CASE ListenReport
    <3>1. /\ Head(watching_notifier) \in ExecutionAck
          /\ watching_notifier' \in Seq(ExecutionAck)
      BY <2>2, TailFacts DEF ListenReport, TypeOK, QueuesTypeOK
    <3>2. Head(watching_notifier).pair \in Pairs
      BY <3>1 DEF ExecutionAck
    <3>3. watch_inventory' \subseteq Pairs
      BY <2>2, <3>2 DEF ListenReport, TypeOK, WatcherTypeOK
    <3> QED BY <2>2, <3>1, <3>3 DEF ListenReport, TypeOK, QueuesTypeOK, WatcherTypeOK
  <2>3. CASE TakeReport /\ UNCHANGED watcherVars
    <3>1. report_broker' \in Seq(ReportData)
      BY <2>3, TailFacts DEF TakeReport, TypeOK, QueuesTypeOK
    <3> QED BY <2>3, <3>1 DEF TakeReport, TypeOK, QueuesTypeOK, WatcherTypeOK, watcherVars
  <2> QED BY <2>1, <2>2, <2>3 DEF OtherTask
<1> QED BY <1>2, <1>3 DEF TypeOK

LEMMA TypeReceive ==
  ASSUME TypeOK, Receive
  PROVE  /\ QueuesTypeOK'
         /\ counter' \in Nat /\ counter' = counter + 1
         /\ Head(execution_broker) \in ExecutionOrder
         /\ taken \subseteq [n: 1 .. counter', order: ExecutionOrder]
<1>1. /\ Head(execution_broker) \in ExecutionOrder
      /\ execution_broker' \in Seq(ExecutionOrder)
  BY TailFacts DEF Receive, TypeOK, QueuesTypeOK
<1>2. counter' \in Nat /\ counter' = counter + 1 /\ 1 .. counter \subseteq 1 .. counter'
  BY DEF Receive, TypeOK, ExecutorTypeOK
<1>3. taken \subseteq [n: 1 .. counter', order: ExecutionOrder]
  BY <1>2 DEF TypeOK, ExecutorTypeOK
<1> QED BY <1>1, <1>2, <1>3 DEF Receive, TypeOK, QueuesTypeOK

LEMMA TypeExecutor ==
  ASSUME TypeOK, ExecutorProcess(ExecutorNext)
  PROVE  TypeOK'
<1>1. UNCHANGED <<strategyVars, watcherVars, restored>>
  BY DEF ExecutorProcess
<1>2. StrategyTypeOK' /\ WatcherTypeOK' /\ restored' \in Nat
  BY <1>1 DEF TypeOK, StrategyTypeOK, WatcherTypeOK, strategyVars, watcherVars
<1>3. QueuesTypeOK' /\ ExecutorTypeOK'
  <2>1. CASE Take
    <3> DEFINE ticket == [n |-> counter + 1, order |-> Head(execution_broker)]
    <3>1. Receive /\ taken' = taken \cup {ticket} /\ lost' = lost
      BY <2>1 DEF Take
    <3>2. ticket \in [n: 1 .. counter', order: ExecutionOrder]
      <4>1. counter + 1 \in 1 .. counter'
        BY <3>1, TypeReceive DEF TypeOK, ExecutorTypeOK
      <4> QED BY <4>1, <3>1, TypeReceive
    <3> HIDE DEF ticket
    <3>3. IsFiniteSet(taken')
      BY <3>1, FS_AddElement DEF TypeOK, ExecutorTypeOK
    <3> QED BY <3>1, <3>2, <3>3, TypeReceive DEF TypeOK, ExecutorTypeOK
  <2>2. CASE Drop
    BY <2>2, TypeReceive DEF Drop, TypeOK, ExecutorTypeOK
  <2>3. ASSUME NEW t \in taken, Answer(t) \/ Vanish(t)
        PROVE  QueuesTypeOK' /\ ExecutorTypeOK'
    <3>1. taken' = taken \ {t} /\ counter' = counter /\ lost' \in Nat
      BY <2>3 DEF Answer, Vanish, TypeOK, ExecutorTypeOK
    <3>2. IsFiniteSet(taken')
      BY <3>1, FS_RemoveElement DEF TypeOK, ExecutorTypeOK
    <3>3. ExecutorTypeOK'
      BY <3>1, <3>2 DEF TypeOK, ExecutorTypeOK
    <3>4. t.order \in ExecutionOrder
      BY DEF TypeOK, ExecutorTypeOK
    <3>5. CASE Answer(t)
      <4>1. PICK ack \in ExecutionAck : execution_report' = Append(execution_report, ack)
        BY <3>4, <3>5, BrokersAssumption DEF Answer, ExecutionAck, ExecutionOrder, TxStatus
      <4>2. execution_report' \in Seq(ExecutionAck)
        BY <4>1, AppendFacts DEF TypeOK, QueuesTypeOK
      <4> QED BY <3>3, <3>5, <4>2 DEF Answer, TypeOK, QueuesTypeOK
    <3>6. CASE Vanish(t)
      BY <3>3, <3>6 DEF Vanish, TypeOK, QueuesTypeOK, queues
    <3> QED BY <2>3, <3>5, <3>6
  <2> QED BY <2>1, <2>2, <2>3 DEF ExecutorProcess, ExecutorNext, Settle
<1> QED BY <1>2, <1>3 DEF TypeOK

LEMMA TypeStrategy ==
  ASSUME TypeOK, StrategyTask(Pass) \/ StrategyTask(HandleExecutionReport)
  PROVE  TypeOK'
<1>1. QueuesTypeOK' /\ StrategyTypeOK'
  BY TypePass, TypeBuyAck, TypeSellAck DEF StrategyTask, HandleExecutionReport
<1>2. ExecutorTypeOK' /\ WatcherTypeOK' /\ restored' \in Nat
  BY DEF StrategyTask, TypeOK, ExecutorTypeOK, WatcherTypeOK, executorVars, watcherVars
<1> QED BY <1>1, <1>2 DEF TypeOK

LEMMA TypeNext == TypeOK /\ [Next]_vars => TypeOK'
<1> SUFFICES ASSUME TypeOK, [Next]_vars PROVE TypeOK'
  OBVIOUS
<1>1. CASE Next
  BY <1>1, TypeReceiveBlock, TypeStrategy, TypeControl, TypeOther, TypeExecutor DEF Next
<1>2. CASE UNCHANGED vars
  BY <1>2 DEF vars, queues, strategyVars, executorVars, watcherVars, TypeOK,
     QueuesTypeOK, StrategyTypeOK, ExecutorTypeOK, WatcherTypeOK
<1> QED BY <1>1, <1>2

(***************************************************************************)
(* In every reachable state every variable has its type: whatever the      *)
(* prices, the results of inspections and of transactions, the messages    *)
(* have the fields their receivers read, and no list is indexed beyond its *)
(* end while strategy() pops from the lists it enumerates.                 *)
(***************************************************************************)
THEOREM TypeCorrect == Spec => []TypeOK
<1>1. Init => TypeOK
  BY TypeInit
<1>2. TypeOK /\ [Next]_vars => TypeOK'
  BY TypeNext
<1> QED BY <1>1, <1>2, PTL DEF Spec

-----------------------------------------------------------------------------
(***************************************************************************)
(* The slots of the inventory and the liquidation lock: proofs of          *)
(* SlotAccounting, CapacityRespected and LockHeldForASell.                 *)
(*                                                                         *)
(* Each kind of step is first described by what it does to the lists and   *)
(* counters that the three invariants mention; the invariants follow from  *)
(* these descriptions by arithmetic and set theory alone.                  *)
(***************************************************************************)

(* What is counted are numbers.                                            *)
LEMMA Counts ==
  ASSUME TypeOK
  PROVE  /\ Len(execution_broker) \in Nat
         /\ Len(execution_report) \in Nat
         /\ Len(glb_inventory) \in Nat
         /\ IsFiniteSet(taken) /\ Cardinality(taken) \in Nat
         /\ glb_fullfilled \in Int
         /\ lost \in Nat /\ restored \in Nat
<1>1. Cardinality(taken) \in Nat /\ IsFiniteSet(taken)
  BY FS_CardinalityType DEF TypeOK, ExecutorTypeOK
<1> QED BY <1>1, LenProperties
        DEF TypeOK, QueuesTypeOK, StrategyTypeOK, ExecutorTypeOK

-----------------------------------------------------------------------------
(* What the steps do.                                                      *)

\* A step that leaves alone all that the invariants speak of.
Idle == UNCHANGED <<glb_fullfilled, restored, execution_broker, taken,
                    execution_report, glb_inventory, lost, glb_liquidated>>

\* A step of strategy() that sells a position.
SellsOne ==
  /\ \E position \in Position :
        execution_broker' = Append(execution_broker, SellOrder(position))
  /\ Len(glb_inventory') = Len(glb_inventory) - 1
  /\ glb_liquidated' = TRUE
  /\ UNCHANGED <<glb_fullfilled, restored, taken, execution_report, lost>>

\* A step of strategy() that buys.
BuysOne ==
  /\ pc \in {"inspect", "admit"}
  /\ glb_fullfilled < INVENTORY_CAPACITY
  /\ glb_fullfilled' = glb_fullfilled + 1
  /\ \E pair \in Pairs, is_paper \in BOOLEAN :
        execution_broker' = Append(execution_broker, BuyOrder(pair, is_paper))
  /\ UNCHANGED <<glb_inventory, glb_liquidated, restored, taken,
                 execution_report, lost>>

(* A step of a pass sells one position, buys one pair, or does neither.    *)
LEMMA PassEffect ==
  ASSUME TypeOK, StrategyTask(Pass)
  PROVE  Idle \/ SellsOne \/ BuysOne
<1>1. Pass /\ UNCHANGED <<taken, lost, restored>>
  BY DEF StrategyTask, executorVars
<1>2. CASE LiquidateNext
  <2>1. scan \in 1 .. Len(glb_inventory)
    BY <1>2, LenProperties DEF LiquidateNext, TypeOK, StrategyTypeOK
  <2>2. glb_inventory[scan] \in Position
    BY <2>1, ElementOfSeq DEF TypeOK, StrategyTypeOK
  <2>3. Len(PopPosition(scan)) = Len(glb_inventory) - 1
    BY <2>1, RemoveAtFacts DEF TypeOK, StrategyTypeOK, PopPosition
  <2>4. UNCHANGED <<glb_fullfilled, execution_report>>
    BY <1>2 DEF LiquidateNext
  <2>5. \/ /\ glb_liquidated' = TRUE
           /\ glb_inventory' = PopPosition(scan)
           /\ execution_broker' = Append(execution_broker, SellOrder(glb_inventory[scan]))
        \/ UNCHANGED <<glb_liquidated, glb_inventory, execution_broker>>
    BY <1>2 DEF LiquidateNext
  <2> QED BY <1>1, <2>2, <2>3, <2>4, <2>5 DEF Idle, SellsOne
<1>3. CASE HardStop \/ GoOn \/ InspectDone \/ PurgeNext \/ PurgeDone
  BY <1>1, <1>3 DEF HardStop, GoOn, InspectDone, PurgeNext, PurgeDone, queues, Idle
<1>4. ASSUME NEW p \in Pairs, InspectionFails(p)
      PROVE  Idle
  BY <1>1, <1>4 DEF InspectionFails, queues, Idle
<1>5. ASSUME NEW p \in Pairs, NEW is_paper \in BOOLEAN, NEW next,
             SendExecOrder(p, is_paper, next), pc \in {"inspect", "admit"},
             UNCHANGED <<glb_inventory, glb_liquidated, execution_report>>
      PROVE  Idle \/ BuysOne
  BY <1>1, <1>5 DEF SendExecOrder, HasSlot, Idle, BuysOne
<1>6. ASSUME NEW p \in Pairs, NEW verified \in BOOLEAN, NEW enough_mm \in BOOLEAN,
             InspectionPasses(p, verified, enough_mm)
      PROVE  Idle \/ BuysOne
  <2>1. UNCHANGED <<glb_inventory, glb_liquidated, execution_report>> /\ pc = "inspect"
    BY <1>6 DEF InspectionPasses
  <2>2. \/ SendExecOrder(p, RUN_MODE = "PAPER_TRADE", pc)
        \/ UNCHANGED <<glb_fullfilled, execution_broker, pc>>
    BY <1>6 DEF InspectionPasses
  <2>3. (RUN_MODE = "PAPER_TRADE") \in BOOLEAN
    OBVIOUS
  <2>4. CASE SendExecOrder(p, RUN_MODE = "PAPER_TRADE", pc)
    BY <2>1, <2>3, <2>4, <1>5
  <2>5. CASE UNCHANGED <<glb_fullfilled, execution_broker, pc>>
    BY <2>1, <2>5, <1>1 DEF Idle
  <2> QED BY <2>2, <2>4, <2>5
<1>7. ASSUME NEW p \in Pairs, Admitted(p),
             Reject(p) \/ \E verified \in BOOLEAN : Watch(p, verified)
      PROVE  Idle
  BY <1>1, <1>7 DEF Admitted, Reject, Watch, Idle
<1>8. ASSUME NEW p \in Pairs, BuyAtOnce(p)
      PROVE  Idle \/ BuysOne
  <2>1. /\ SendExecOrder(p, FALSE, After(inspecting'))
        /\ UNCHANGED <<glb_inventory, glb_liquidated, execution_report>>
        /\ pc = "admit"
    BY <1>8 DEF BuyAtOnce, Admitted
  <2> QED BY <2>1, <1>5
<1> QED BY <1>1, <1>2, <1>3, <1>4, <1>6, <1>7, <1>8 DEF Pass, Reject, Watch

(* An acknowledgement leaves the report queue; it becomes a position, or   *)
(* it gives back its slot; that of a sell releases the lock.               *)
LEMMA AckEffect ==
  ASSUME TypeOK, StrategyTask(HandleExecutionReport)
  PROVE  /\ Len(execution_report') = Len(execution_report) - 1
         /\ ToSet(execution_report) =
               {Head(execution_report)} \cup ToSet(execution_report')
         /\ UNCHANGED <<restored, execution_broker, taken, lost>>
         /\ \/ /\ Len(glb_inventory') = Len(glb_inventory) + 1
               /\ UNCHANGED glb_fullfilled
            \/ /\ glb_fullfilled' = glb_fullfilled - 1
               /\ UNCHANGED glb_inventory
         /\ \/ Head(execution_report).is_buy /\ UNCHANGED glb_liquidated
            \/ glb_liquidated' = FALSE
<1>1. /\ execution_report # <<>>
      /\ execution_report' = Tail(execution_report)
      /\ UNCHANGED <<restored, execution_broker, taken, lost>>
  BY DEF StrategyTask, HandleExecutionReport, BuySucceeded, BuyFailed, SellSucceeded,
         SellFailed, ReceiveAck, executorVars
<1>2. /\ Len(execution_report') = Len(execution_report) - 1
      /\ ToSet(execution_report) =
            {Head(execution_report)} \cup ToSet(execution_report')
      /\ Head(execution_report) \in ExecutionAck
  BY <1>1, TailFacts DEF TypeOK, QueuesTypeOK
<1>3. CASE BuySucceeded
  <2>1. NewPosition(Head(execution_report)) \in Position
    BY <1>2, BuiltRecords
  <2>2. Len(glb_inventory') = Len(glb_inventory) + 1
    BY <1>3, <2>1, AppendFacts DEF BuySucceeded, TypeOK, StrategyTypeOK
  <2>3. Head(execution_report).is_buy /\ UNCHANGED <<glb_liquidated, glb_fullfilled>>
    BY <1>3 DEF BuySucceeded, Received
  <2> QED BY <1>1, <1>2, <2>2, <2>3
<1>4. CASE BuyFailed
  BY <1>1, <1>2, <1>4 DEF BuyFailed, Received, ReleaseSlot
<1>5. CASE SellSucceeded \/ SellFailed
  BY <1>1, <1>2, <1>5 DEF SellSucceeded, SellFailed, ReleaseSlot, ReleaseLock
<1> QED BY <1>3, <1>4, <1>5 DEF StrategyTask, HandleExecutionReport

(* Restored positions join the inventory and are counted in restored.      *)
LEMMA ControlEffect ==
  ASSUME TypeOK, ControlTask
  PROVE  /\ \E n \in Nat : /\ Len(glb_inventory') = Len(glb_inventory) + n
                           /\ restored' = restored + n
         /\ UNCHANGED <<glb_fullfilled, execution_broker, taken,
                        execution_report, lost, glb_liquidated>>
<1>1. Head(control_receiver) \in Seq(Position)
  BY TailFacts DEF ControlTask, HandleControlOrder, TypeOK, QueuesTypeOK
<1>2. /\ Len(glb_inventory') = Len(glb_inventory) + Len(Head(control_receiver))
      /\ Len(Head(control_receiver)) \in Nat
  BY <1>1, ConcatFacts DEF ControlTask, HandleControlOrder, TypeOK, StrategyTypeOK
<1> QED BY <1>2 DEF ControlTask, HandleControlOrder, executorVars

(* Receiving a block and the tasks of the watcher and the reporter change  *)
(* none of the counts.                                                     *)
LEMMA QuietEffect ==
  ASSUME TypeOK,
         \/ StrategyTask(ReceiveBlock)
         \/ OtherTask(NewHead) \/ OtherTask(ListenReport)
         \/ OtherTask(TakeReport) /\ UNCHANGED watcherVars
  PROVE  /\ Len(glb_inventory') = Len(glb_inventory)
         /\ UNCHANGED <<glb_fullfilled, restored, execution_broker, taken,
                        execution_report, lost, glb_liquidated>>
<1>1. CASE StrategyTask(ReceiveBlock)
  <2>1. DOMAIN glb_inventory' = DOMAIN glb_inventory
    BY <1>1 DEF StrategyTask, ReceiveBlock
  <2>2. glb_inventory' \in Seq(Position) /\ glb_inventory \in Seq(Position)
    BY <1>1, TypeReceiveBlock DEF TypeOK, StrategyTypeOK
  <2>3. Len(glb_inventory') = Len(glb_inventory)
    <3>1. \A n, m \in Nat : 1 .. n = 1 .. m => n = m
      <4> SUFFICES ASSUME NEW n \in Nat, NEW m \in Nat, n < m
                   PROVE  1 .. n # 1 .. m
        OBVIOUS
      <4>1. m \in 1 .. m /\ m \notin 1 .. n
        OBVIOUS
      <4> QED BY <4>1
    <3> DEFINE n == Len(glb_inventory')
               m == Len(glb_inventory)
    <3>2. n \in Nat /\ m \in Nat /\ 1 .. n = 1 .. m
      BY <2>1, <2>2, LenProperties
    <3> HIDE DEF n, m
    <3> QED BY <3>1, <3>2 DEF n, m
  <2>4. UNCHANGED <<glb_fullfilled, restored, execution_broker, taken,
                    execution_report, lost, glb_liquidated>>
    BY <1>1 DEF StrategyTask, ReceiveBlock, executorVars
  <2> QED BY <2>3, <2>4
<1>2. CASE \/ OtherTask(NewHead) \/ OtherTask(ListenReport)
           \/ OtherTask(TakeReport) /\ UNCHANGED watcherVars
  <2>1. UNCHANGED <<strategyVars, executorVars, restored>>
    BY <1>2 DEF OtherTask
  <2>2. UNCHANGED <<execution_broker, execution_report>>
    BY <1>2 DEF OtherTask, NewHead, ListenReport, TakeReport
  <2>3. Len(glb_inventory') = Len(glb_inventory)
    BY <2>1 DEF strategyVars
  <2>4. UNCHANGED <<glb_fullfilled, restored, taken, lost, glb_liquidated>>
    BY <2>1 DEF strategyVars, executorVars
  <2> QED BY <2>2, <2>3, <2>4
<1> QED BY <1>1, <1>2

(* The executor moves an order from the queue to a thread, and from there  *)
(* to the queue of the acknowledgements, or loses it if it is a buy.       *)
LEMMA ExecutorEffect ==
  ASSUME TypeOK, ExecutorProcess(ExecutorNext)
  PROVE  /\ UNCHANGED <<glb_fullfilled, restored, glb_inventory, glb_liquidated>>
         /\ \/ /\ Len(execution_broker') = Len(execution_broker) - 1
               /\ Cardinality(taken') = Cardinality(taken) + 1
               /\ UNCHANGED <<execution_report, lost>>
            \/ /\ Len(execution_broker') = Len(execution_broker) - 1
               /\ lost' = lost + 1
               /\ UNCHANGED <<execution_report, taken>>
            \/ /\ Cardinality(taken') = Cardinality(taken) - 1
               /\ Len(execution_report') = Len(execution_report) + 1
               /\ UNCHANGED <<execution_broker, lost>>
            \/ /\ Cardinality(taken') = Cardinality(taken) - 1
               /\ lost' = lost + 1
               /\ UNCHANGED <<execution_broker, execution_report>>
         /\ Sells(Orders \cup Acks) # {} => Sells(Orders' \cup Acks') # {}
<1>1. UNCHANGED <<glb_fullfilled, restored, glb_inventory, glb_liquidated>>
  BY DEF ExecutorProcess, strategyVars
<1>2. IsFiniteSet(taken) /\ Cardinality(taken) \in Nat
  BY Counts
<1>3. ASSUME Receive
      PROVE  /\ Len(execution_broker') = Len(execution_broker) - 1
             /\ ToSet(execution_broker) =
                   {Head(execution_broker)} \cup ToSet(execution_broker')
             /\ UNCHANGED execution_report
  BY <1>3, TailFacts DEF Receive, TypeOK, QueuesTypeOK
<1>4. CASE Take
  <2> DEFINE ticket == [n |-> counter + 1, order |-> Head(execution_broker)]
  <2>1. Receive /\ taken' = taken \cup {ticket} /\ UNCHANGED lost
    BY <1>4 DEF Take
  <2>2. ticket \notin taken
    <3>1. counter + 1 \notin 1 .. counter
      BY DEF TypeOK, ExecutorTypeOK
    <3>2. \A t \in taken : t.n \in 1 .. counter
      BY DEF TypeOK, ExecutorTypeOK
    <3> QED BY <3>1, <3>2
  <2>3. ticket.order = Head(execution_broker)
    OBVIOUS
  <2> HIDE DEF ticket
  <2>4. Cardinality(taken') = Cardinality(taken) + 1
    BY <1>2, <2>1, <2>2, FS_AddElement
  <2>5. {t.order : t \in taken'} = {t.order : t \in taken} \cup {Head(execution_broker)}
    BY <2>1, <2>3
  <2>6. Orders' \cup Acks' = Orders \cup Acks
    BY <2>1, <2>5, <1>3 DEF Orders, Acks
  <2> QED BY <1>1, <1>3, <2>1, <2>4, <2>6
<1>5. CASE Drop
  <2>1. /\ Receive /\ lost' = lost + 1 /\ UNCHANGED taken
        /\ Head(execution_broker).is_buy
    BY <1>5 DEF Drop
  <2>2. Orders \cup Acks = {Head(execution_broker)} \cup Orders' \cup Acks'
    BY <2>1, <1>3 DEF Orders, Acks
  <2>3. Sells(Orders \cup Acks) # {} => Sells(Orders' \cup Acks') # {}
    BY <2>1, <2>2 DEF Sells
  <2> QED BY <1>1, <1>3, <2>1, <2>3
<1>6. ASSUME NEW t \in taken, Answer(t) \/ Vanish(t)
      PROVE  /\ \/ /\ Cardinality(taken') = Cardinality(taken) - 1
                   /\ Len(execution_report') = Len(execution_report) + 1
                   /\ UNCHANGED <<execution_broker, lost>>
                \/ /\ Cardinality(taken') = Cardinality(taken) - 1
                   /\ lost' = lost + 1
                   /\ UNCHANGED <<execution_broker, execution_report>>
             /\ Sells(Orders \cup Acks) # {} => Sells(Orders' \cup Acks') # {}
  <2>1. taken' = taken \ {t} /\ UNCHANGED execution_broker
    BY <1>6 DEF Answer, Vanish, queues
  <2>2. Cardinality(taken') = Cardinality(taken) - 1
    BY <1>2, <2>1, FS_RemoveElement
  <2>3. Orders \subseteq Orders' \cup {t.order}
    BY <2>1 DEF Orders
  <2>4. CASE Answer(t)
    <3>1. t.order \in ExecutionOrder
      BY DEF TypeOK, ExecutorTypeOK
    <3>2. PICK ack \in ExecutionAck :
             /\ execution_report' = Append(execution_report, ack)
             /\ ack.is_buy = t.order.is_buy
      BY <2>4, <3>1, BrokersAssumption DEF Answer, ExecutionAck, ExecutionOrder, TxStatus
    <3>3. /\ Len(execution_report') = Len(execution_report) + 1
          /\ ToSet(execution_report') = ToSet(execution_report) \cup {ack}
      BY <3>2, AppendFacts DEF TypeOK, QueuesTypeOK
    <3>4. Sells(Orders \cup Acks) # {} => Sells(Orders' \cup Acks') # {}
      BY <2>3, <3>2, <3>3 DEF Sells, Acks
    <3> QED BY <2>1, <2>2, <2>4, <3>3, <3>4 DEF Answer
  <2>5. CASE Vanish(t)
    <3>1. t.order.is_buy /\ lost' = lost + 1 /\ UNCHANGED execution_report
      BY <2>5 DEF Vanish, queues
    <3>2. Sells(Orders \cup Acks) # {} => Sells(Orders' \cup Acks') # {}
      BY <2>3, <3>1 DEF Sells, Acks
    <3> QED BY <2>1, <2>2, <3>1, <3>2
  <2> QED BY <1>6, <2>4, <2>5
<1> QED BY <1>1, <1>4, <1>5, <1>6 DEF ExecutorProcess, ExecutorNext, Settle
-----------------------------------------------------------------------------
(* The invariants.                                                         *)

\* No slot beyond the capacity is ever taken; with SlotAccounting this is
\* what makes the capacity hold.
SlotInv == TypeOK /\ SlotAccounting /\ glb_fullfilled <= INVENTORY_CAPACITY

\* The four places of a commitment, counted.
Ordered == Len(execution_broker)
Executing == Cardinality(taken)
Answered == Len(execution_report)
Holding == Len(glb_inventory)

LEMMA SlotInit == Init => SlotInv
<1> SUFFICES ASSUME Init PROVE SlotInv
  OBVIOUS
<1>1. TypeOK
  BY TypeInit
<1>2. Cardinality(taken) = 0
  BY FS_EmptySet DEF Init, ExecutorInit
<1>3. /\ execution_broker = <<>> /\ execution_report = <<>> /\ glb_inventory = <<>>
      /\ glb_fullfilled = 0 /\ lost = 0 /\ restored = 0
  BY DEF Init, StrategyInit, ExecutorInit
<1> QED BY <1>1, <1>2, <1>3, ConstantTypes DEF SlotInv, SlotAccounting, Commitments

LEMMA SlotStep == SlotInv /\ [Next]_vars => SlotInv'
<1> SUFFICES ASSUME SlotInv, [Next]_vars PROVE SlotInv'
  OBVIOUS
<1>1. TypeOK /\ TypeOK'
  BY TypeNext DEF SlotInv
<1>2. /\ Ordered \in Nat /\ Executing \in Nat /\ Answered \in Nat /\ Holding \in Nat
      /\ glb_fullfilled \in Int /\ lost \in Nat /\ restored \in Nat
      /\ INVENTORY_CAPACITY \in Nat
  BY <1>1, Counts, ConstantTypes DEF Ordered, Executing, Answered, Holding
<1>3. /\ Ordered' \in Nat /\ Executing' \in Nat /\ Answered' \in Nat /\ Holding' \in Nat
      /\ glb_fullfilled' \in Int /\ lost' \in Nat /\ restored' \in Nat
  <2>1. Cardinality(taken') \in Nat
    BY <1>1, FS_CardinalityType DEF TypeOK, ExecutorTypeOK
  <2> QED BY <1>1, <2>1, LenProperties
          DEF TypeOK, QueuesTypeOK, StrategyTypeOK, ExecutorTypeOK,
              Ordered, Executing, Answered, Holding
<1>4. /\ glb_fullfilled + restored = Ordered + Executing + Answered + Holding + lost
      /\ glb_fullfilled <= INVENTORY_CAPACITY
  BY DEF SlotInv, SlotAccounting, Commitments, Ordered, Executing, Answered, Holding
<1> SUFFICES
      /\ glb_fullfilled' + restored' = Ordered' + Executing' + Answered' + Holding' + lost'
      /\ glb_fullfilled' <= INVENTORY_CAPACITY
  BY <1>1 DEF SlotInv, SlotAccounting, Commitments, Ordered, Executing, Answered, Holding
<1>5. CASE Idle
  <2>1. UNCHANGED <<Ordered, Executing, Answered, Holding, glb_fullfilled, restored, lost>>
    BY <1>5 DEF Idle, Ordered, Executing, Answered, Holding
  <2> QED BY <1>4, <2>1
<1>6. CASE StrategyTask(Pass)
  <2>1. CASE SellsOne
    <3>1. PICK position \in Position :
             execution_broker' = Append(execution_broker, SellOrder(position))
      BY <2>1 DEF SellsOne
    <3>2. Ordered' = Ordered + 1
      BY <3>1, <1>1, BuiltRecords, AppendFacts DEF TypeOK, QueuesTypeOK, Ordered
    <3>3. /\ Holding' = Holding - 1
          /\ UNCHANGED <<Executing, Answered, glb_fullfilled, restored, lost>>
      BY <2>1 DEF SellsOne, Executing, Answered, Holding
    <3> QED BY <1>2, <1>3, <1>4, <3>2, <3>3
  <2>2. CASE BuysOne
    <3>1. PICK pair \in Pairs, is_paper \in BOOLEAN :
             execution_broker' = Append(execution_broker, BuyOrder(pair, is_paper))
      BY <2>2 DEF BuysOne
    <3>2. Ordered' = Ordered + 1
      BY <3>1, <1>1, BuiltRecords, AppendFacts DEF TypeOK, QueuesTypeOK, Ordered
    <3>3. /\ glb_fullfilled < INVENTORY_CAPACITY
          /\ glb_fullfilled' = glb_fullfilled + 1
          /\ UNCHANGED <<Executing, Answered, Holding, restored, lost>>
      BY <2>2 DEF BuysOne, Executing, Answered, Holding
    <3> QED BY <1>2, <1>3, <1>4, <3>2, <3>3
  <2> QED BY <1>1, <1>5, <1>6, <2>1, <2>2, PassEffect
<1>7. CASE StrategyTask(HandleExecutionReport)
  <2>1. /\ Answered' = Answered - 1
        /\ UNCHANGED <<Ordered, Executing, restored, lost>>
        /\ \/ Holding' = Holding + 1 /\ UNCHANGED glb_fullfilled
           \/ glb_fullfilled' = glb_fullfilled - 1 /\ UNCHANGED Holding
    BY <1>1, <1>7, AckEffect DEF Ordered, Executing, Answered, Holding
  <2> QED BY <1>2, <1>3, <1>4, <2>1
<1>8. CASE ControlTask
  <2>1. /\ \E n \in Nat : Holding' = Holding + n /\ restored' = restored + n
        /\ UNCHANGED <<Ordered, Executing, Answered, glb_fullfilled, lost>>
    BY <1>1, <1>8, ControlEffect DEF Ordered, Executing, Answered, Holding
  <2> QED BY <1>2, <1>3, <1>4, <2>1
<1>9. CASE \/ StrategyTask(ReceiveBlock)
           \/ OtherTask(NewHead) \/ OtherTask(ListenReport)
           \/ OtherTask(TakeReport) /\ UNCHANGED watcherVars
  <2>1. UNCHANGED <<Ordered, Executing, Answered, Holding, glb_fullfilled, restored, lost>>
    BY <1>1, <1>9, QuietEffect DEF Ordered, Executing, Answered, Holding
  <2> QED BY <1>4, <2>1
<1>10. CASE ExecutorProcess(ExecutorNext)
  <2>1. Holding' = Holding /\ glb_fullfilled' = glb_fullfilled /\ restored' = restored
    BY <1>1, <1>10, ExecutorEffect DEF Holding
  <2>2. \/ /\ Ordered' = Ordered - 1 /\ Executing' = Executing + 1
           /\ UNCHANGED <<Answered, lost>>
        \/ /\ Ordered' = Ordered - 1 /\ lost' = lost + 1
           /\ UNCHANGED <<Executing, Answered>>
        \/ /\ Executing' = Executing - 1 /\ Answered' = Answered + 1
           /\ UNCHANGED <<Ordered, lost>>
        \/ /\ Executing' = Executing - 1 /\ lost' = lost + 1
           /\ UNCHANGED <<Ordered, Answered>>
    BY <1>1, <1>10, ExecutorEffect DEF Ordered, Executing, Answered
  <2>3. CASE /\ Ordered' = Ordered - 1 /\ Executing' = Executing + 1
             /\ UNCHANGED <<Answered, lost>>
    BY <1>2, <1>3, <1>4, <2>1, <2>3
  <2>4. CASE /\ Ordered' = Ordered - 1 /\ lost' = lost + 1
             /\ UNCHANGED <<Executing, Answered>>
    BY <1>2, <1>3, <1>4, <2>1, <2>4
  <2>5. CASE /\ Executing' = Executing - 1 /\ Answered' = Answered + 1
             /\ UNCHANGED <<Ordered, lost>>
    BY <1>2, <1>3, <1>4, <2>1, <2>5
  <2>6. CASE /\ Executing' = Executing - 1 /\ lost' = lost + 1
             /\ UNCHANGED <<Ordered, Answered>>
    BY <1>2, <1>3, <1>4, <2>1, <2>6
  <2> QED BY <2>2, <2>3, <2>4, <2>5, <2>6
<1>11. CASE UNCHANGED vars
  BY <1>5, <1>11 DEF vars, queues, strategyVars, executorVars, Idle
<1> QED BY <1>6, <1>7, <1>8, <1>9, <1>10, <1>11 DEF Next

(***************************************************************************)
(* Every slot is held by exactly one order, position, acknowledgement or   *)
(* lost order, for any number of pairs, slots, accounts and restored       *)
(* positions, and however executor and main process interleave: no         *)
(* acknowledgement gives back a slot twice, and none forgets to            *)
(* (main.py:125-126, 394, 411, 414).                                       *)
(***************************************************************************)
THEOREM SlotsAccountedFor == Spec => []SlotAccounting
<1>1. SlotInv => SlotAccounting
  BY DEF SlotInv
<1> QED BY SlotInit, SlotStep, <1>1, PTL DEF Spec

(***************************************************************************)
(* The bot commits itself to at most INVENTORY_CAPACITY pairs, and the     *)
(* restored ones (main.py:124).                                            *)
(***************************************************************************)
THEOREM CapacityIsRespected == Spec => []CapacityRespected
<1>1. SlotInv => CapacityRespected
  BY Counts, ConstantTypes DEF SlotInv, SlotAccounting, CapacityRespected, Commitments
<1> QED BY SlotInit, SlotStep, <1>1, PTL DEF Spec

-----------------------------------------------------------------------------
LockInv == TypeOK /\ LockHeldForASell

LEMMA LockInit == Init => LockInv
BY TypeInit DEF LockInv, LockHeldForASell, Init, StrategyInit

LEMMA LockStep == LockInv /\ [Next]_vars => LockInv'
<1> SUFFICES ASSUME LockInv, [Next]_vars PROVE LockInv'
  OBVIOUS
<1>1. TypeOK /\ TypeOK'
  BY TypeNext DEF LockInv
<1>2. CASE UNCHANGED <<execution_broker, taken, execution_report, glb_liquidated>>
  BY <1>1, <1>2 DEF LockInv, LockHeldForASell, Sells, Orders, Acks
<1>3. CASE StrategyTask(Pass)
  <2>1. CASE SellsOne
    <3>1. PICK position \in Position :
             execution_broker' = Append(execution_broker, SellOrder(position))
      BY <2>1 DEF SellsOne
    <3>2. SellOrder(position) \in ToSet(execution_broker')
      BY <3>1, <1>1, BuiltRecords, AppendFacts DEF TypeOK, QueuesTypeOK
    <3>3. ~ SellOrder(position).is_buy
      BY DEF SellOrder
    <3>4. SellOrder(position) \in Sells(Orders' \cup Acks')
      BY <3>2, <3>3 DEF Sells, Orders
    <3> QED BY <1>1, <3>4 DEF LockInv, LockHeldForASell, Sells
  <2>2. CASE BuysOne
    <3>1. PICK pair \in Pairs, is_paper \in BOOLEAN :
             execution_broker' = Append(execution_broker, BuyOrder(pair, is_paper))
      BY <2>2 DEF BuysOne
    <3>2. ToSet(execution_broker) \subseteq ToSet(execution_broker')
      BY <3>1, <1>1, BuiltRecords, AppendFacts DEF TypeOK, QueuesTypeOK
    <3> QED BY <1>1, <2>2, <3>2
            DEF BuysOne, LockInv, LockHeldForASell, Sells, Orders, Acks
  <2> QED BY <1>1, <1>2, <1>3, <2>1, <2>2, PassEffect DEF Idle
<1>4. CASE StrategyTask(HandleExecutionReport)
  <2>1. /\ ToSet(execution_report) =
              {Head(execution_report)} \cup ToSet(execution_report')
        /\ UNCHANGED <<execution_broker, taken>>
        /\ \/ Head(execution_report).is_buy /\ UNCHANGED glb_liquidated
           \/ glb_liquidated' = FALSE
    BY <1>1, <1>4, AckEffect
  <2> QED BY <1>1, <2>1 DEF LockInv, LockHeldForASell, Sells, Orders, Acks
<1>5. CASE ControlTask
  BY <1>1, <1>2, <1>5, ControlEffect
<1>6. CASE \/ StrategyTask(ReceiveBlock)
           \/ OtherTask(NewHead) \/ OtherTask(ListenReport)
           \/ OtherTask(TakeReport) /\ UNCHANGED watcherVars
  BY <1>1, <1>2, <1>6, QuietEffect
<1>7. CASE ExecutorProcess(ExecutorNext)
  <2>1. /\ UNCHANGED glb_liquidated
        /\ Sells(Orders \cup Acks) # {} => Sells(Orders' \cup Acks') # {}
    BY <1>1, <1>7, ExecutorEffect
  <2> QED BY <1>1, <2>1 DEF LockInv, LockHeldForASell, Sells
<1>8. CASE UNCHANGED vars
  BY <1>2, <1>8 DEF vars, queues, strategyVars, executorVars
<1> QED BY <1>1, <1>3, <1>4, <1>5, <1>6, <1>7, <1>8 DEF Next

(***************************************************************************)
(* The liquidation lock is only held while a sell is on its way whose      *)
(* acknowledgement releases it, although the first of several sells opens  *)
(* it for all (main.py:161, 180, 395, 415).                                *)
(***************************************************************************)
THEOREM LockIsHeldForASell == Spec => []LockHeldForASell
<1>1. LockInv => LockHeldForASell
  BY DEF LockInv
<1> QED BY LockInit, LockStep, <1>1, PTL DEF Spec
=============================================================================
