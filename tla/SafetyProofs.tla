----------------------------- MODULE SafetyProofs -----------------------------
(***************************************************************************)
(* What the bot may buy, sell and spend, and what its watcher tracks:      *)
(* proofs of PairInOnePlace, BuyAfterProbation, TracksOnlyHeld,            *)
(* TracksAllHeld, BuyAmountInRange, BuyOnlyWhileRunning and                *)
(* DryRunTradesOnPaper, for every value of the constants.                  *)
(***************************************************************************)
EXTENDS TradingSystemProofs

-----------------------------------------------------------------------------
(* Where the pairs are.                                                    *)

\* The pairs of the block of the pass that may still be admitted.
Pending ==
  IF pc = "admit" THEN inspecting
  ELSE IF pc \in {"liquidate", "inspect", "purge"} THEN block.pairs ELSE {}

Told == UNION {watching_broker[i].pairs : i \in DOMAIN watching_broker}
Executed == {t.order.pair : t \in taken}
Restoring == UNION {PairsIn(control_receiver[i]) : i \in DOMAIN control_receiver}

\* The way of a pair through the program, from the chain that has not created
\* it yet to the inventory.
Places == {"unannounced", "told", "pending", "watched", "ordered",
           "executed", "answered", "held", "restoring"}

Place ==
  [n \in Places |->
     CASE n = "unannounced" -> Pairs \ announced
       [] n = "told"        -> Told
       [] n = "pending"     -> Pending
       [] n = "watched"     -> PairsIn(glb_watchlist)
       [] n = "ordered"     -> PairsIn(execution_broker)
       [] n = "executed"    -> Executed
       [] n = "answered"    -> PairsIn(execution_report)
       [] n = "held"        -> PairsIn(glb_inventory)
       [] n = "restoring"   -> Restoring]

\* No pair is in two places, ...
Apart(place) == \A m, n \in Places : m # n => place[m] \cap place[n] = {}

\* ... nor twice in one.
NoPairTwice ==
  /\ \A i, j \in DOMAIN watching_broker :
        i # j => watching_broker[i].pairs \cap watching_broker[j].pairs = {}
  /\ Distinct(glb_watchlist)
  /\ Distinct(execution_broker)
  /\ \A t, u \in taken : t.order.pair = u.order.pair => t = u
  /\ Distinct(execution_report)
  /\ Distinct(glb_inventory)
  /\ \A i, j \in DOMAIN control_receiver :
        i # j => PairsIn(control_receiver[i]) \cap PairsIn(control_receiver[j]) = {}
  /\ \A i \in DOMAIN control_receiver : Distinct(control_receiver[i])

PlaceInv == TypeOK /\ Apart(Place) /\ NoPairTwice

(* The places by name, before and after a step.                            *)
LEMMA PlaceDefs ==
  /\ Place["unannounced"] = Pairs \ announced
  /\ Place["told"] = Told
  /\ Place["pending"] = Pending
  /\ Place["watched"] = PairsIn(glb_watchlist)
  /\ Place["ordered"] = PairsIn(execution_broker)
  /\ Place["executed"] = Executed
  /\ Place["answered"] = PairsIn(execution_report)
  /\ Place["held"] = PairsIn(glb_inventory)
  /\ Place["restoring"] = Restoring
BY DEF Place, Places

LEMMA PlaceDefsAfter ==
  /\ Place'["unannounced"] = Pairs \ announced'
  /\ Place'["told"] = Told'
  /\ Place'["pending"] = Pending'
  /\ Place'["watched"] = PairsIn(glb_watchlist')
  /\ Place'["ordered"] = PairsIn(execution_broker')
  /\ Place'["executed"] = Executed'
  /\ Place'["answered"] = PairsIn(execution_report')
  /\ Place'["held"] = PairsIn(glb_inventory')
  /\ Place'["restoring"] = Restoring'
BY DEF Place, Places

\* The pairs that may still be bought, held or sold, and what a step does to them:
\* it leaves them apart, and brings none back that is gone.
Live(place) == UNION {place[n] : n \in Places}
OnlyMoved(before, after) == Apart(after) /\ Live(after) \subseteq Live(before)

(* Pairs that leave one place for one other, or for none, stay apart.      *)
LEMMA MoveApart ==
  ASSUME NEW f, NEW g, Apart(f), NEW a \in Places, NEW b \in Places, a # b,
         NEW M, M \subseteq f[a],
         g[a] \subseteq f[a] \ M,
         g[b] \subseteq f[b] \cup M,
         \A n \in Places \ {a, b} : g[n] \subseteq f[n]
  PROVE  OnlyMoved(f, g)
<1>0. Live(g) \subseteq Live(f)
  <2>1. ASSUME NEW n \in Places
        PROVE  g[n] \subseteq Live(f)
    <3>1. CASE n = a \/ n = b
      BY <3>1 DEF Live
    <3>2. CASE n \in Places \ {a, b}
      BY <3>2 DEF Live
    <3> QED BY <3>1, <3>2
  <2> QED BY <2>1 DEF Live
<1>1. ApartOn(Places, f)
  BY DEF Apart, ApartOn
<1>2. ApartOn(Places, g)
  BY <1>1, MoveKeepsApart
<1> QED BY <1>0, <1>2 DEF Apart, ApartOn, OnlyMoved

LEMMA StayApart ==
  ASSUME NEW f, NEW g, Apart(f), \A n \in Places : g[n] \subseteq f[n]
  PROVE  OnlyMoved(f, g)
BY DEF Apart, OnlyMoved, Live

-----------------------------------------------------------------------------
(* The pairs that a pass moves.                                            *)

(* A pass touches neither the chain nor the queues it does not write.      *)
LEMMA PassPlaces ==
  ASSUME StrategyTask(Pass)
  PROVE  /\ UNCHANGED <<taken, announced, watching_broker, control_receiver,
                        execution_report>>
         /\ \A n \in {"unannounced", "told", "executed", "answered", "restoring"} :
               Place'[n] = Place[n]
<1>1. UNCHANGED <<taken, announced>> /\ Pass
  BY DEF StrategyTask, executorVars, watcherVars
<1>2. UNCHANGED <<watching_broker, control_receiver, execution_report>>
  BY <1>1 DEF Pass, LiquidateNext, HardStop, GoOn, InspectDone, PurgeNext, PurgeDone,
     InspectionFails, InspectionPasses, Reject, Watch, BuyAtOnce, Admitted, queues
<1>3. Told' = Told /\ Executed' = Executed /\ Restoring' = Restoring
  BY <1>1, <1>2 DEF Told, Executed, Restoring
<1> QED BY <1>1, <1>2, <1>3, PlaceDefs, PlaceDefsAfter

(* A step of a pass that orders nothing and admits nothing only drops      *)
(* pairs.                                                                  *)
LEMMA PassDrops ==
  ASSUME PlaceInv, StrategyTask(Pass),
         UNCHANGED <<execution_broker, glb_inventory>>,
         Pending' \subseteq Pending,
         PairsIn(glb_watchlist') \subseteq PairsIn(glb_watchlist),
         Distinct(glb_watchlist')
  PROVE  OnlyMoved(Place, Place') /\ NoPairTwice'
<1>1. \A n \in Places : Place'[n] \subseteq Place[n]
  BY PassPlaces, PlaceDefs, PlaceDefsAfter DEF Places
<1>2. OnlyMoved(Place, Place')
  BY <1>1, StayApart DEF PlaceInv
<1>3. NoPairTwice'
  BY PassPlaces DEF PlaceInv, NoPairTwice
<1> QED BY <1>2, <1>3

(* A step of a pass that orders a pair takes it from the place it was in.  *)
LEMMA PassOrders ==
  ASSUME PlaceInv, StrategyTask(Pass),
         NEW a \in {"pending", "watched", "held"}, NEW p \in Place[a],
         NEW order \in ExecutionOrder, order.pair = p,
         execution_broker' = Append(execution_broker, order),
         Pending' \subseteq Pending,
         PairsIn(glb_watchlist') \subseteq PairsIn(glb_watchlist),
         PairsIn(glb_inventory') \subseteq PairsIn(glb_inventory),
         p \notin Place'[a],
         Distinct(glb_watchlist'), Distinct(glb_inventory')
  PROVE  OnlyMoved(Place, Place') /\ NoPairTwice'
<1>1. execution_broker \in Seq(ExecutionOrder)
  BY DEF PlaceInv, TypeOK, QueuesTypeOK
<1>2. p \notin PairsIn(execution_broker)
  <2>1. a \in Places /\ "ordered" \in Places /\ a # "ordered"
    BY DEF Places
  <2> QED BY <2>1, PlaceDefs DEF PlaceInv, Apart
<1>3. /\ PairsIn(execution_broker') = PairsIn(execution_broker) \cup {p}
      /\ Distinct(execution_broker')
  BY <1>1, <1>2, AppendPairs DEF PlaceInv, NoPairTwice
<1>4. OnlyMoved(Place, Place')
  <2>1. a \in Places /\ "ordered" \in Places /\ a # "ordered"
    BY DEF Places
  <2>2. \A n \in Places \ {"ordered"} : Place'[n] \subseteq Place[n]
    BY PassPlaces, PlaceDefs, PlaceDefsAfter DEF Places
  <2> DEFINE M == {p}
  <2>3. Place'["ordered"] \subseteq Place["ordered"] \cup M
    BY <1>3, PlaceDefs, PlaceDefsAfter
  <2>4. Place'[a] \subseteq Place[a] \ M /\ M \subseteq Place[a]
    BY <2>1, <2>2
  <2>5. Apart(Place) /\ \A n \in Places \ {a, "ordered"} : Place'[n] \subseteq Place[n]
    BY <2>2 DEF PlaceInv
  <2> HIDE DEF Place, Places, M
  <2> QED BY <2>1, <2>2, <2>3, <2>4, <2>5, MoveApart
<1>5. NoPairTwice'
  BY <1>3, PassPlaces DEF PlaceInv, NoPairTwice
<1> QED BY <1>4, <1>5

LEMMA PlaceLiquidateNext ==
  ASSUME PlaceInv, StrategyTask(Pass), LiquidateNext
  PROVE  OnlyMoved(Place, Place') /\ NoPairTwice'
<1>1. scan \in 1 .. Len(glb_inventory) /\ glb_inventory \in Seq(Position)
  BY LenProperties DEF LiquidateNext, PlaceInv, TypeOK, StrategyTypeOK
<1>2. UNCHANGED <<pc, block, inspecting, glb_watchlist>> /\ pc = "liquidate"
  BY DEF LiquidateNext
<1>3. Pending' = Pending
  BY <1>2 DEF Pending
<1>4. CASE /\ glb_inventory' = PopPosition(scan)
           /\ execution_broker' = Append(execution_broker, SellOrder(glb_inventory[scan]))
  <2> DEFINE position == glb_inventory[scan]
             order == SellOrder(position)
  <2>1. position \in Position
    BY <1>1, ElementOfSeq
  <2>2. order \in ExecutionOrder /\ order.pair = position.pair
    BY <2>1, BuiltRecords DEF SellOrder
  <2>3. /\ position.pair \in PairsIn(glb_inventory)
        /\ position.pair \notin PairsIn(glb_inventory')
        /\ PairsIn(glb_inventory') \subseteq PairsIn(glb_inventory)
        /\ Distinct(glb_inventory')
    BY <1>1, <1>4, RemoveAtPairs DEF PopPosition, PlaceInv, NoPairTwice
  <2>4. position.pair \in Place["held"] /\ position.pair \notin Place'["held"]
    BY <2>3, PlaceDefs, PlaceDefsAfter
  <2>5. Distinct(glb_watchlist') /\ PairsIn(glb_watchlist') \subseteq PairsIn(glb_watchlist)
    BY <1>2 DEF PlaceInv, NoPairTwice
  <2>6. execution_broker' = Append(execution_broker, order)
    BY <1>4
  <2> HIDE DEF position, order
  <2> QED BY <1>3, <2>2, <2>3, <2>4, <2>5, <2>6, PassOrders
<1>5. CASE UNCHANGED <<glb_inventory, execution_broker>>
  BY <1>2, <1>3, <1>5, PassDrops DEF PlaceInv, NoPairTwice
<1> QED BY <1>4, <1>5 DEF LiquidateNext

(* What may still be admitted is part of the block.                        *)
LEMMA PlaceGoOn ==
  ASSUME PlaceInv, StrategyTask(Pass), HardStop \/ GoOn \/ InspectDone \/ PurgeDone
  PROVE  OnlyMoved(Place, Place') /\ NoPairTwice'
<1>1. UNCHANGED <<execution_broker, glb_inventory, glb_watchlist>>
  BY DEF HardStop, GoOn, InspectDone, PurgeDone, queues
<1>2. \A rest : After(rest) \in {"get", "admit"}
  BY DEF After
<1>3. Admitting(glb_watchlist) \subseteq block.pairs
  BY DEF Admitting
<1>4. Pending' \subseteq Pending
  <2>1. CASE HardStop
    BY <2>1 DEF HardStop, Pending
  <2>2. CASE GoOn
    <3>1. pc = "liquidate" /\ \/ pc' = "inspect" /\ UNCHANGED block
                              \/ /\ inspecting' = Admitting(glb_watchlist)
                                 /\ pc' \in {"get", "admit"}
      BY <2>2, <1>2 DEF GoOn
    <3> QED BY <3>1, <1>3 DEF Pending
  <2>3. CASE InspectDone
    BY <2>3 DEF InspectDone, Pending
  <2>4. CASE PurgeDone
    <3>1. /\ pc = "purge" /\ inspecting' = Admitting(glb_watchlist)
          /\ pc' \in {"get", "admit"}
      BY <2>4, <1>2 DEF PurgeDone
    <3> QED BY <3>1, <1>3 DEF Pending
  <2> QED BY <2>1, <2>2, <2>3, <2>4
<1> QED BY <1>1, <1>4, PassDrops DEF PlaceInv, NoPairTwice

LEMMA PlacePurgeNext ==
  ASSUME PlaceInv, StrategyTask(Pass), PurgeNext
  PROVE  OnlyMoved(Place, Place') /\ NoPairTwice'
<1>1. scan \in 1 .. Len(glb_watchlist) /\ glb_watchlist \in Seq(WatchedPair)
  BY LenProperties DEF PurgeNext, PlaceInv, TypeOK, StrategyTypeOK
<1>2. Distinct(glb_watchlist)
  BY DEF PlaceInv, NoPairTwice
<1>3. /\ PairsIn(RemoveAt(glb_watchlist, scan)) \subseteq PairsIn(glb_watchlist)
      /\ Distinct(RemoveAt(glb_watchlist, scan))
  BY <1>1, <1>2, RemoveAtPairs
<1>4. glb_watchlist' \in {RemoveAt(glb_watchlist, scan), glb_watchlist}
  BY DEF PurgeNext
<1>5. UNCHANGED <<execution_broker, glb_inventory, pc, block, inspecting>>
  BY DEF PurgeNext, queues
<1>6. Pending' = Pending
  BY <1>5 DEF Pending
<1> QED BY <1>2, <1>3, <1>4, <1>5, <1>6, PassDrops

(* What sending a buy order does.                                          *)
LEMMA SendEffect ==
  ASSUME NEW p \in Pairs, NEW is_paper \in BOOLEAN, NEW next,
         SendExecOrder(p, is_paper, next)
  PROVE  /\ pc' \in {next, "dead"}
         /\ \/ UNCHANGED execution_broker
            \/ execution_broker' = Append(execution_broker, BuyOrder(p, is_paper))
BY DEF SendExecOrder

LEMMA PlaceInspection ==
  ASSUME PlaceInv, StrategyTask(Pass), NEW p \in Pairs,
         \/ InspectionFails(p)
         \/ \E verified, enough_mm \in BOOLEAN : InspectionPasses(p, verified, enough_mm)
  PROVE  OnlyMoved(Place, Place') /\ NoPairTwice'
<1>1. CASE InspectionFails(p)
  <2>1. UNCHANGED <<execution_broker, glb_inventory, glb_watchlist, pc, block>>
        /\ pc = "inspect"
    BY <1>1 DEF InspectionFails, queues
  <2>2. Pending' \subseteq Pending
    BY <2>1 DEF Pending
  <2> QED BY <2>1, <2>2, PassDrops DEF PlaceInv, NoPairTwice
<1>2. ASSUME NEW verified \in BOOLEAN, NEW enough_mm \in BOOLEAN,
             InspectionPasses(p, verified, enough_mm)
      PROVE  OnlyMoved(Place, Place') /\ NoPairTwice'
  <2>1. UNCHANGED <<glb_inventory, block>> /\ pc = "inspect"
    BY <1>2 DEF InspectionPasses
  <2>2. PICK i \in DOMAIN glb_watchlist :
          LET inspected ==
                 [glb_watchlist[i] EXCEPT !.inspect_attempts = @ + 1,
                                          !.contract_verified = @ \/ verified]
          IN /\ inspected.pair = p
             /\ \/ /\ glb_watchlist' = [glb_watchlist EXCEPT ![i] = inspected]
                   /\ UNCHANGED <<execution_broker, pc>>
                \/ /\ glb_watchlist' = RemoveAt(glb_watchlist, i)
                   /\ \/ SendExecOrder(p, RUN_MODE = "PAPER_TRADE", pc)
                      \/ UNCHANGED <<execution_broker, pc>>
    BY <1>2 DEF InspectionPasses
  <2> DEFINE inspected ==
               [glb_watchlist[i] EXCEPT !.inspect_attempts = @ + 1,
                                        !.contract_verified = @ \/ verified]
  <2>3. glb_watchlist \in Seq(WatchedPair) /\ i \in 1 .. Len(glb_watchlist)
    BY LenProperties DEF PlaceInv, TypeOK, StrategyTypeOK
  <2>4. glb_watchlist[i] \in WatchedPair
    BY <2>3, ElementOfSeq
  <2>5. glb_watchlist[i].pair = inspected.pair /\ glb_watchlist[i].pair = p
    BY <2>2, <2>4 DEF WatchedPair
  <2>6. Distinct(glb_watchlist) /\ Distinct(glb_inventory)
    BY DEF PlaceInv, NoPairTwice
  <2>7. pc' \in {pc, "dead"}
    BY <2>2, SendEffect
  <2>8. Pending' \subseteq Pending
    BY <2>1, <2>7 DEF Pending
  <2>9. CASE glb_watchlist' = [glb_watchlist EXCEPT ![i] = inspected]
             /\ UNCHANGED execution_broker
    <3>1. /\ DOMAIN glb_watchlist' = DOMAIN glb_watchlist
          /\ \A j \in DOMAIN glb_watchlist : glb_watchlist'[j].pair = glb_watchlist[j].pair
      <4> HIDE DEF inspected
      <4> QED BY <2>5, <2>9
    <3>2. PairsIn(glb_watchlist') = PairsIn(glb_watchlist) /\ Distinct(glb_watchlist')
      BY <3>1, <2>6, MapPairs
    <3> QED BY <2>1, <2>8, <2>9, <3>2, PassDrops
  <2>10. CASE glb_watchlist' = RemoveAt(glb_watchlist, i)
    <3>1. /\ p \in PairsIn(glb_watchlist)
          /\ p \notin PairsIn(glb_watchlist')
          /\ PairsIn(glb_watchlist') \subseteq PairsIn(glb_watchlist)
          /\ Distinct(glb_watchlist')
      BY <2>3, <2>5, <2>6, <2>10, RemoveAtPairs
    <3>2. CASE UNCHANGED execution_broker
      BY <2>1, <2>8, <3>1, <3>2, PassDrops
    <3>3. ASSUME NEW is_paper \in BOOLEAN,
                 execution_broker' = Append(execution_broker, BuyOrder(p, is_paper))
          PROVE  OnlyMoved(Place, Place') /\ NoPairTwice'
      <4> DEFINE order == BuyOrder(p, is_paper)
      <4>1. order \in ExecutionOrder /\ order.pair = p
        BY BuiltRecords DEF BuyOrder
      <4>2. p \in Place["watched"] /\ p \notin Place'["watched"]
        BY <3>1, PlaceDefs, PlaceDefsAfter
      <4>3. execution_broker' = Append(execution_broker, order)
        BY <3>3
      <4>4. PairsIn(glb_inventory') \subseteq PairsIn(glb_inventory) /\ Distinct(glb_inventory')
        BY <2>1, <2>6
      <4> HIDE DEF order
      <4> QED BY <2>8, <3>1, <4>1, <4>2, <4>3, <4>4, PassOrders
    <3>4. (RUN_MODE = "PAPER_TRADE") \in BOOLEAN
      OBVIOUS
    <3>5. UNCHANGED execution_broker \/ SendExecOrder(p, RUN_MODE = "PAPER_TRADE", pc)
      BY <2>2
    <3> QED BY <3>2, <3>3, <3>4, <3>5, SendEffect
  <2> QED BY <2>2, <2>9, <2>10
<1> QED BY <1>1, <1>2

LEMMA PlaceAdmission ==
  ASSUME PlaceInv, StrategyTask(Pass), NEW p \in Pairs,
         Reject(p) \/ (\E verified \in BOOLEAN : Watch(p, verified)) \/ BuyAtOnce(p)
  PROVE  OnlyMoved(Place, Place') /\ NoPairTwice'
<1>1. /\ pc = "admit" /\ p \in inspecting /\ inspecting' = inspecting \ {p}
      /\ UNCHANGED glb_inventory
  BY DEF Reject, Watch, BuyAtOnce, Admitted
<1>2. \A rest : After(rest) \in {"get", "admit"}
  BY DEF After
<1>3. pc' \in {"get", "admit", "dead"}
  BY <1>2, SendEffect DEF Reject, Watch, BuyAtOnce
<1>4. Pending' \subseteq Pending \ {p} /\ p \in Pending
  BY <1>1, <1>3 DEF Pending
<1>5. p \in Place["pending"] /\ Place'["pending"] \subseteq Place["pending"] \ {p}
  BY <1>4, PlaceDefs, PlaceDefsAfter
<1>6. Distinct(glb_watchlist) /\ Distinct(glb_inventory)
  BY DEF PlaceInv, NoPairTwice
<1>7. CASE Reject(p)
  <2>1. UNCHANGED <<execution_broker, glb_watchlist>>
    BY <1>7 DEF Reject
  <2> QED BY <1>1, <1>4, <1>6, <2>1, PassDrops
<1>8. ASSUME NEW verified \in BOOLEAN, Watch(p, verified)
      PROVE  OnlyMoved(Place, Place') /\ NoPairTwice'
  <2> DEFINE watched == [pair |-> p, age |-> 0, inspect_attempts |-> 1,
                         contract_verified |-> verified]
  <2>1. watched \in WatchedPair /\ watched.pair = p
    BY DEF WatchedPair
  <2>2. glb_watchlist' = Append(glb_watchlist, watched) /\ UNCHANGED execution_broker
    BY <1>8 DEF Watch
  <2> HIDE DEF watched
  <2>3. p \notin PairsIn(glb_watchlist)
    BY <1>5, PlaceDefs DEF PlaceInv, Apart, Places
  <2>4. glb_watchlist \in Seq(WatchedPair)
    BY DEF PlaceInv, TypeOK, StrategyTypeOK
  <2>5. /\ PairsIn(glb_watchlist') = PairsIn(glb_watchlist) \cup {p}
        /\ Distinct(glb_watchlist')
    BY <1>6, <2>1, <2>2, <2>3, <2>4, AppendPairs
  <2>6. OnlyMoved(Place, Place')
    <3>1. "pending" \in Places /\ "watched" \in Places /\ "pending" # "watched"
      BY DEF Places
    <3>2. Place'["watched"] \subseteq Place["watched"] \cup {p}
      BY <2>5, PlaceDefs, PlaceDefsAfter
    <3>3. \A n \in Places \ {"pending", "watched"} : Place'[n] \subseteq Place[n]
      BY <1>1, <2>2, PassPlaces, PlaceDefs, PlaceDefsAfter DEF Places
    <3>4. Apart(Place) /\ {p} \subseteq Place["pending"]
      BY <1>5 DEF PlaceInv
    <3> HIDE DEF Place, Places
    <3> QED BY <1>5, <3>1, <3>2, <3>3, <3>4, MoveApart
  <2>7. NoPairTwice'
    BY <1>1, <2>2, <2>5, PassPlaces DEF PlaceInv, NoPairTwice
  <2> QED BY <2>6, <2>7
<1>9. CASE BuyAtOnce(p)
  <2>1. UNCHANGED glb_watchlist /\ SendExecOrder(p, FALSE, After(inspecting'))
    BY <1>9 DEF BuyAtOnce
  <2>2. CASE UNCHANGED execution_broker
    BY <1>1, <1>4, <1>6, <2>1, <2>2, PassDrops
  <2>3. CASE execution_broker' = Append(execution_broker, BuyOrder(p, FALSE))
    <3> DEFINE order == BuyOrder(p, FALSE)
    <3>1. order \in ExecutionOrder /\ order.pair = p
      BY BuiltRecords DEF BuyOrder
    <3>2. execution_broker' = Append(execution_broker, order)
      BY <2>3
    <3> HIDE DEF order
    <3>3. /\ PairsIn(glb_inventory') \subseteq PairsIn(glb_inventory)
          /\ Distinct(glb_inventory')
          /\ PairsIn(glb_watchlist') \subseteq PairsIn(glb_watchlist)
          /\ Distinct(glb_watchlist')
      BY <1>1, <1>6, <2>1
    <3>4. p \in Place["pending"] /\ p \notin Place'["pending"] /\ Pending' \subseteq Pending
      BY <1>4, <1>5
    <3> QED BY <3>1, <3>2, <3>3, <3>4, PassOrders
  <2> QED BY <2>1, <2>2, <2>3, SendEffect
<1> QED BY <1>7, <1>8, <1>9

LEMMA PlacePass ==
  ASSUME PlaceInv, StrategyTask(Pass)
  PROVE  OnlyMoved(Place, Place') /\ NoPairTwice'
<1>1. Pass
  BY DEF StrategyTask
<1> QED BY <1>1, PlaceLiquidateNext, PlaceGoOn, PlacePurgeNext, PlaceInspection,
           PlaceAdmission DEF Pass

-----------------------------------------------------------------------------
(* The pairs that the other steps move.                                    *)

(* A step that moves no pair at all.                                       *)
LEMMA PlaceIdle ==
  ASSUME PlaceInv,
         UNCHANGED <<announced, watching_broker, pc, block, inspecting, glb_watchlist,
                     execution_broker, taken, execution_report, glb_inventory,
                     control_receiver>>
  PROVE  OnlyMoved(Place, Place') /\ NoPairTwice'
<1>1. Told' = Told /\ Pending' = Pending /\ Executed' = Executed /\ Restoring' = Restoring
  BY DEF Told, Pending, Executed, Restoring
<1>2. \A n \in Places : Place'[n] \subseteq Place[n]
  BY <1>1, PlaceDefs, PlaceDefsAfter DEF Places
<1>3. OnlyMoved(Place, Place')
  BY <1>2, StayApart DEF PlaceInv
<1>4. NoPairTwice'
  BY DEF PlaceInv, NoPairTwice
<1> QED BY <1>3, <1>4

(* The pairs of the head of a queue of blocks, and of the others.          *)
LEMMA BlocksApart ==
  ASSUME NEW s \in Seq(BlockData), s # <<>>,
         \A i, j \in DOMAIN s : i # j => s[i].pairs \cap s[j].pairs = {}
  PROVE  /\ Head(s).pairs \subseteq UNION {s[i].pairs : i \in DOMAIN s}
         /\ UNION {Tail(s)[i].pairs : i \in DOMAIN Tail(s)}
               \subseteq (UNION {s[i].pairs : i \in DOMAIN s}) \ Head(s).pairs
         /\ \A i, j \in DOMAIN Tail(s) :
               i # j => Tail(s)[i].pairs \cap Tail(s)[j].pairs = {}
<1>1. /\ Len(s) \in Nat \ {0}
      /\ DOMAIN s = 1 .. Len(s)
      /\ DOMAIN Tail(s) = 1 .. Len(s) - 1
      /\ \A i \in 1 .. Len(s) - 1 : Tail(s)[i] = s[i + 1]
      /\ Head(s) = s[1]
  <2>1. /\ Tail(s) \in Seq(BlockData)
        /\ Len(Tail(s)) = Len(s) - 1
        /\ \A i \in 1 .. Len(Tail(s)) : Tail(s)[i] = s[i + 1]
    BY HeadTailProperties
  <2>2. Len(s) \in Nat \ {0}
    BY EmptySeq
  <2>3. Head(s) = s[1]
    OBVIOUS
  <2> QED BY <2>1, <2>2, <2>3, LenProperties
<1>2. /\ 1 \in DOMAIN s
      /\ \A i \in DOMAIN Tail(s) : i + 1 \in DOMAIN s /\ i + 1 # 1 /\ Tail(s)[i] = s[i + 1]
      /\ \A i, j \in DOMAIN Tail(s) : i # j => i + 1 # j + 1
  BY <1>1
<1>3. \A i \in DOMAIN Tail(s) : Tail(s)[i].pairs \cap Head(s).pairs = {}
  BY <1>1, <1>2
<1>4. \A i, j \in DOMAIN Tail(s) : i # j => Tail(s)[i].pairs \cap Tail(s)[j].pairs = {}
  BY <1>2
<1>5. Head(s).pairs \subseteq UNION {s[i].pairs : i \in DOMAIN s}
  BY <1>1, <1>2
<1>6. ASSUME NEW i \in DOMAIN Tail(s)
      PROVE  Tail(s)[i].pairs \subseteq (UNION {s[j].pairs : j \in DOMAIN s}) \ Head(s).pairs
  <2>1. i + 1 \in DOMAIN s /\ Tail(s)[i] = s[i + 1]
    BY <1>2
  <2>2. Tail(s)[i].pairs \subseteq UNION {s[j].pairs : j \in DOMAIN s}
    BY <2>1
  <2> QED BY <2>2, <1>3
<1> QED BY <1>4, <1>5, <1>6

(* Ageing the lists does not change what they are about.                   *)
LEMMA PlaceReceiveBlock ==
  ASSUME PlaceInv, StrategyTask(ReceiveBlock)
  PROVE  OnlyMoved(Place, Place') /\ NoPairTwice'
<1>1. /\ pc = "get" /\ pc' \in {"get", "liquidate"}
      /\ watching_broker # <<>>
      /\ watching_broker' = Tail(watching_broker)
      /\ block' = Head(watching_broker)
      /\ UNCHANGED <<execution_broker, execution_report, control_receiver, announced, taken>>
  BY DEF StrategyTask, ReceiveBlock, executorVars, watcherVars
<1>2. PairsIn(glb_watchlist') = PairsIn(glb_watchlist) /\ Distinct(glb_watchlist')
  <2>1. /\ DOMAIN glb_watchlist' = DOMAIN glb_watchlist
        /\ \A i \in DOMAIN glb_watchlist : glb_watchlist'[i].pair = glb_watchlist[i].pair
    <3>1. \A i \in DOMAIN glb_watchlist : glb_watchlist[i] \in WatchedPair
      BY ElementOfSeq, LenProperties DEF PlaceInv, TypeOK, StrategyTypeOK
    <3> QED BY <3>1 DEF StrategyTask, ReceiveBlock, WatchedPair
  <2> QED BY <2>1, MapPairs DEF PlaceInv, NoPairTwice
<1>3. PairsIn(glb_inventory') = PairsIn(glb_inventory) /\ Distinct(glb_inventory')
  <2>1. /\ DOMAIN glb_inventory' = DOMAIN glb_inventory
        /\ \A i \in DOMAIN glb_inventory : glb_inventory'[i].pair = glb_inventory[i].pair
    <3>1. \A i \in DOMAIN glb_inventory : glb_inventory[i] \in Position
      BY ElementOfSeq, LenProperties DEF PlaceInv, TypeOK, StrategyTypeOK
    <3> QED BY <3>1 DEF StrategyTask, ReceiveBlock, Position
  <2> QED BY <2>1, MapPairs DEF PlaceInv, NoPairTwice
<1>4. /\ Head(watching_broker).pairs \subseteq Told
      /\ Told' \subseteq Told \ Head(watching_broker).pairs
      /\ \A i, j \in DOMAIN watching_broker' :
            i # j => watching_broker'[i].pairs \cap watching_broker'[j].pairs = {}
  <2>1. watching_broker \in Seq(BlockData)
    BY DEF PlaceInv, TypeOK, QueuesTypeOK
  <2>2. \A i, j \in DOMAIN watching_broker :
           i # j => watching_broker[i].pairs \cap watching_broker[j].pairs = {}
    BY DEF PlaceInv, NoPairTwice
  <2> QED BY <1>1, <2>1, <2>2, BlocksApart DEF Told
<1>5. Pending' \subseteq Pending \cup Head(watching_broker).pairs
  BY <1>1 DEF Pending
<1>6. Executed' = Executed /\ Restoring' = Restoring
  BY <1>1 DEF Executed, Restoring
<1>7. OnlyMoved(Place, Place')
  <2> DEFINE M == Head(watching_broker).pairs
  <2>1. "told" \in Places /\ "pending" \in Places /\ "told" # "pending"
    BY DEF Places
  <2>2. /\ M \subseteq Place["told"]
        /\ Place'["told"] \subseteq Place["told"] \ M
        /\ Place'["pending"] \subseteq Place["pending"] \cup M
    BY <1>4, <1>5, PlaceDefs, PlaceDefsAfter
  <2>3. \A n \in Places \ {"told", "pending"} : Place'[n] \subseteq Place[n]
    BY <1>1, <1>2, <1>3, <1>6, PlaceDefs, PlaceDefsAfter DEF Places
  <2>4. Apart(Place)
    BY DEF PlaceInv
  <2> HIDE DEF Place, Places, M
  <2> QED BY <2>1, <2>2, <2>3, <2>4, MoveApart
<1>8. NoPairTwice'
  BY <1>1, <1>2, <1>3, <1>4 DEF PlaceInv, NoPairTwice
<1> QED BY <1>7, <1>8

(* An acknowledged pair joins the inventory or is gone.                    *)
LEMMA PlaceAck ==
  ASSUME PlaceInv, StrategyTask(HandleExecutionReport)
  PROVE  OnlyMoved(Place, Place') /\ NoPairTwice'
<1> DEFINE ack == Head(execution_report)
<1>1. /\ execution_report # <<>>
      /\ execution_report' = Tail(execution_report)
      /\ UNCHANGED <<watching_broker, execution_broker, control_receiver, announced,
                     taken, glb_watchlist, pc, block, inspecting>>
  BY DEF StrategyTask, HandleExecutionReport, BuySucceeded, BuyFailed, SellSucceeded,
         SellFailed, ReceiveAck, executorVars, watcherVars
<1>2. glb_inventory' \in {glb_inventory, Append(glb_inventory, NewPosition(ack))}
  BY DEF StrategyTask, HandleExecutionReport, BuySucceeded, BuyFailed, SellSucceeded,
         SellFailed
<1>3. execution_report \in Seq(ExecutionAck) /\ Distinct(execution_report)
      /\ glb_inventory \in Seq(Position) /\ Distinct(glb_inventory)
  BY DEF PlaceInv, TypeOK, QueuesTypeOK, StrategyTypeOK, NoPairTwice
<1>4. /\ ack.pair \in PairsIn(execution_report)
      /\ PairsIn(execution_report') \subseteq PairsIn(execution_report) \ {ack.pair}
      /\ Distinct(execution_report')
  BY <1>1, <1>3, TailPairs
<1>5. ack \in ExecutionAck
  BY <1>1, <1>3, TailFacts
<1> HIDE DEF ack
<1>6. NewPosition(ack) \in Position /\ NewPosition(ack).pair = ack.pair
  BY <1>5, BuiltRecords DEF NewPosition
<1>7. ack.pair \notin PairsIn(glb_inventory)
  BY <1>4, PlaceDefs DEF PlaceInv, Apart, Places
<1>8. /\ PairsIn(glb_inventory') \subseteq PairsIn(glb_inventory) \cup {ack.pair}
      /\ Distinct(glb_inventory')
  <2> DEFINE position == NewPosition(ack)
  <2>1. position \in Position /\ position.pair = ack.pair
    BY <1>6
  <2> HIDE DEF position
  <2>2. /\ PairsIn(Append(glb_inventory, position)) = PairsIn(glb_inventory) \cup {ack.pair}
        /\ Distinct(Append(glb_inventory, position))
    BY <1>3, <1>7, <2>1, AppendPairs
  <2> QED BY <1>2, <1>3, <2>2 DEF position
<1>9. Told' = Told /\ Pending' = Pending /\ Executed' = Executed /\ Restoring' = Restoring
  BY <1>1 DEF Told, Pending, Executed, Restoring
<1>10. OnlyMoved(Place, Place')
  <2>1. "answered" \in Places /\ "held" \in Places /\ "answered" # "held"
    BY DEF Places
  <2>2. /\ {ack.pair} \subseteq Place["answered"]
        /\ Place'["answered"] \subseteq Place["answered"] \ {ack.pair}
        /\ Place'["held"] \subseteq Place["held"] \cup {ack.pair}
    BY <1>4, <1>8, PlaceDefs, PlaceDefsAfter
  <2>3. \A n \in Places \ {"answered", "held"} : Place'[n] \subseteq Place[n]
    BY <1>1, <1>9, PlaceDefs, PlaceDefsAfter DEF Places
  <2>4. Apart(Place)
    BY DEF PlaceInv
  <2> HIDE DEF Place, Places
  <2> QED BY <2>1, <2>2, <2>3, <2>4, MoveApart
<1>11. NoPairTwice'
  BY <1>1, <1>4, <1>8 DEF PlaceInv, NoPairTwice
<1> QED BY <1>10, <1>11

LEMMA PlaceControl ==
  ASSUME PlaceInv, ControlTask
  PROVE  OnlyMoved(Place, Place') /\ NoPairTwice'
<1>1. /\ control_receiver # <<>>
      /\ control_receiver' = Tail(control_receiver)
      /\ glb_inventory' = glb_inventory \o Head(control_receiver)
      /\ UNCHANGED <<watching_broker, execution_broker, execution_report, announced,
                     taken, glb_watchlist, pc, block, inspecting>>
  BY DEF ControlTask, HandleControlOrder, executorVars, watcherVars
<1> DEFINE positions == Head(control_receiver)
<1>2. control_receiver \in Seq(Seq(Position))
  BY DEF PlaceInv, TypeOK, QueuesTypeOK
<1>3. /\ Distinct(positions) /\ positions \in Seq(Position)
      /\ PairsIn(positions) \subseteq Restoring
      /\ Restoring' \subseteq Restoring \ PairsIn(positions)
      /\ \A i, j \in DOMAIN control_receiver' :
            i # j => PairsIn(control_receiver'[i]) \cap PairsIn(control_receiver'[j]) = {}
      /\ \A i \in DOMAIN control_receiver' : Distinct(control_receiver'[i])
  <2>1. /\ 1 \in DOMAIN control_receiver
        /\ positions = control_receiver[1]
        /\ \A i \in DOMAIN control_receiver' :
              /\ i + 1 \in DOMAIN control_receiver /\ i + 1 # 1
              /\ control_receiver'[i] = control_receiver[i + 1]
        /\ \A i, j \in DOMAIN control_receiver' : i # j => i + 1 # j + 1
    <3>1. /\ control_receiver' \in Seq(Seq(Position))
          /\ Len(control_receiver') = Len(control_receiver) - 1
          /\ \A i \in 1 .. Len(control_receiver') :
                control_receiver'[i] = control_receiver[i + 1]
      BY <1>1, <1>2, HeadTailProperties
    <3>2. Len(control_receiver) \in Nat \ {0}
      BY <1>1, <1>2, EmptySeq
    <3>3. /\ DOMAIN control_receiver = 1 .. Len(control_receiver)
          /\ DOMAIN control_receiver' = 1 .. Len(control_receiver')
      BY <1>2, <3>1, LenProperties
    <3> QED BY <3>1, <3>2, <3>3
  <2> HIDE DEF positions
  <2>2. \A i, j \in DOMAIN control_receiver :
           i # j => PairsIn(control_receiver[i]) \cap PairsIn(control_receiver[j]) = {}
    BY DEF PlaceInv, NoPairTwice
  <2>3. \A i \in DOMAIN control_receiver' :
           PairsIn(control_receiver'[i]) \cap PairsIn(positions) = {}
    BY <2>1, <2>2
  <2>4. PairsIn(positions) \subseteq Restoring
    BY <2>1 DEF Restoring
  <2>5. Restoring' \subseteq Restoring \ PairsIn(positions)
    <3>1. ASSUME NEW i \in DOMAIN control_receiver'
          PROVE  PairsIn(control_receiver'[i]) \subseteq Restoring \ PairsIn(positions)
      <4>1. PairsIn(control_receiver'[i]) \subseteq Restoring
        BY <2>1 DEF Restoring
      <4> QED BY <2>3, <4>1
    <3> QED BY <3>1 DEF Restoring
  <2>6. positions \in Seq(Position)
    BY <1>1, <1>2, HeadTailProperties DEF positions
  <2>7. Distinct(positions)
    BY <2>1 DEF PlaceInv, NoPairTwice
  <2>8. \A i \in DOMAIN control_receiver' : Distinct(control_receiver'[i])
    BY <2>1 DEF PlaceInv, NoPairTwice
  <2>9. \A i, j \in DOMAIN control_receiver' :
            i # j => PairsIn(control_receiver'[i]) \cap PairsIn(control_receiver'[j]) = {}
    BY <2>1, <2>2
  <2> QED BY <2>4, <2>5, <2>6, <2>7, <2>8, <2>9
<1> HIDE DEF positions
<1>4. PairsIn(glb_inventory) \cap PairsIn(positions) = {}
  BY <1>3, PlaceDefs DEF PlaceInv, Apart, Places
<1>5. /\ PairsIn(glb_inventory') = PairsIn(glb_inventory) \cup PairsIn(positions)
      /\ Distinct(glb_inventory')
  <2>1. glb_inventory \in Seq(Position) /\ Distinct(glb_inventory)
    BY DEF PlaceInv, TypeOK, StrategyTypeOK, NoPairTwice
  <2>2. glb_inventory' = glb_inventory \o positions
    BY <1>1 DEF positions
  <2> QED BY <1>3, <1>4, <2>1, <2>2, ConcatPairs
<1>6. Told' = Told /\ Pending' = Pending /\ Executed' = Executed
  BY <1>1 DEF Told, Pending, Executed
<1>7. OnlyMoved(Place, Place')
  <2> DEFINE M == PairsIn(positions)
  <2>1. "restoring" \in Places /\ "held" \in Places /\ "restoring" # "held"
    BY DEF Places
  <2>2. /\ M \subseteq Place["restoring"]
        /\ Place'["restoring"] \subseteq Place["restoring"] \ M
        /\ Place'["held"] \subseteq Place["held"] \cup M
    BY <1>3, <1>5, PlaceDefs, PlaceDefsAfter
  <2>3. \A n \in Places \ {"restoring", "held"} : Place'[n] \subseteq Place[n]
    BY <1>1, <1>6, PlaceDefs, PlaceDefsAfter DEF Places
  <2>4. Apart(Place)
    BY DEF PlaceInv
  <2> HIDE DEF Place, Places, M
  <2> QED BY <2>1, <2>2, <2>3, <2>4, MoveApart
<1>8. NoPairTwice'
  BY <1>1, <1>3, <1>5 DEF PlaceInv, NoPairTwice
<1> QED BY <1>7, <1>8

(* A head announces pairs that were never announced before.                *)
LEMMA PlaceNewHead ==
  ASSUME PlaceInv, OtherTask(NewHead)
  PROVE  OnlyMoved(Place, Place') /\ NoPairTwice'
<1>1. UNCHANGED <<strategyVars, taken>>
      /\ UNCHANGED <<execution_broker, execution_report, control_receiver>>
  BY DEF OtherTask, NewHead, executorVars
<1>2. PICK created \in SUBSET (Pairs \ announced) :
         /\ announced' = announced \cup created
         /\ watching_broker' =
               Append(watching_broker, [pairs |-> created, inventory |-> watch_inventory])
  BY DEF OtherTask, NewHead
<1> DEFINE data == [pairs |-> created, inventory |-> watch_inventory]
<1>3. data \in BlockData /\ data.pairs = created /\ watching_broker \in Seq(BlockData)
  BY DEF BlockData, PlaceInv, TypeOK, QueuesTypeOK, WatcherTypeOK
<1>4. watching_broker' = Append(watching_broker, data)
  BY <1>2
<1> HIDE DEF data
<1>5. /\ Len(watching_broker) \in Nat
      /\ DOMAIN watching_broker = 1 .. Len(watching_broker)
      /\ DOMAIN watching_broker' = DOMAIN watching_broker \cup {Len(watching_broker) + 1}
      /\ Len(watching_broker) + 1 \notin DOMAIN watching_broker
      /\ \A i \in DOMAIN watching_broker : watching_broker'[i] = watching_broker[i]
      /\ watching_broker'[Len(watching_broker) + 1] = data
  <2>1. /\ watching_broker' \in Seq(BlockData)
        /\ Len(watching_broker') = Len(watching_broker) + 1
        /\ \A i \in 1 .. Len(watching_broker) : watching_broker'[i] = watching_broker[i]
        /\ watching_broker'[Len(watching_broker) + 1] = data
    BY <1>3, <1>4, AppendProperties
  <2>2. /\ Len(watching_broker) \in Nat
        /\ DOMAIN watching_broker = 1 .. Len(watching_broker)
        /\ DOMAIN watching_broker' = 1 .. Len(watching_broker) + 1
    BY <1>3, <2>1, LenProperties
  <2> QED BY <2>1, <2>2
<1>6. Told' = Told \cup created
  <2>1. Told' \subseteq Told \cup created
    BY <1>3, <1>5 DEF Told
  <2>2. Told \subseteq Told'
    BY <1>5 DEF Told
  <2>3. created \subseteq Told'
    BY <1>3, <1>5 DEF Told
  <2> QED BY <2>1, <2>2, <2>3
<1>7. Told \cap created = {}
  BY PlaceDefs DEF PlaceInv, Apart, Places
<1>8. \A i \in DOMAIN watching_broker : watching_broker[i].pairs \cap created = {}
  BY <1>7 DEF Told
<1>9. \A i, j \in DOMAIN watching_broker' :
         i # j => watching_broker'[i].pairs \cap watching_broker'[j].pairs = {}
  BY <1>3, <1>5, <1>8 DEF PlaceInv, NoPairTwice
<1>10. /\ UNCHANGED <<pc, block, inspecting, glb_watchlist, glb_inventory>>
       /\ Pending' = Pending /\ Executed' = Executed /\ Restoring' = Restoring
  BY <1>1 DEF strategyVars, Pending, Executed, Restoring
<1>11. OnlyMoved(Place, Place')
  <2>1. "unannounced" \in Places /\ "told" \in Places /\ "unannounced" # "told"
    BY DEF Places
  <2>2. /\ created \subseteq Place["unannounced"]
        /\ Place'["unannounced"] \subseteq Place["unannounced"] \ created
        /\ Place'["told"] \subseteq Place["told"] \cup created
    BY <1>2, <1>6, PlaceDefs, PlaceDefsAfter
  <2>3. \A n \in Places \ {"unannounced", "told"} : Place'[n] \subseteq Place[n]
    BY <1>1, <1>10, PlaceDefs, PlaceDefsAfter DEF Places
  <2>4. Apart(Place)
    BY DEF PlaceInv
  <2> HIDE DEF Place, Places
  <2> QED BY <2>1, <2>2, <2>3, <2>4, MoveApart
<1>12. NoPairTwice'
  BY <1>1, <1>9, <1>10 DEF PlaceInv, NoPairTwice
<1> QED BY <1>11, <1>12

LEMMA PlaceOther ==
  ASSUME PlaceInv,
         \/ OtherTask(ListenReport)
         \/ OtherTask(TakeReport) /\ UNCHANGED watcherVars
  PROVE  OnlyMoved(Place, Place') /\ NoPairTwice'
<1>1. UNCHANGED <<strategyVars, executorVars>>
  BY DEF OtherTask
<1>2. UNCHANGED <<announced, watching_broker, execution_broker, execution_report,
                  control_receiver>>
  BY DEF OtherTask, ListenReport, TakeReport, watcherVars
<1> QED BY <1>1, <1>2, PlaceIdle DEF strategyVars, executorVars

(* An order goes from the queue to a thread, from there to the queue of    *)
(* acknowledgements, or it is lost.                                        *)
LEMMA PlaceExecutor ==
  ASSUME PlaceInv, ExecutorProcess(ExecutorNext)
  PROVE  OnlyMoved(Place, Place') /\ NoPairTwice'
<1>1. UNCHANGED <<pc, block, inspecting, glb_watchlist, glb_inventory, announced>>
  BY DEF ExecutorProcess, strategyVars, watcherVars
<1>2. UNCHANGED <<watching_broker, control_receiver>>
  BY DEF ExecutorProcess, ExecutorNext, Take, Drop, Receive, Settle, Answer, Vanish, queues
<1>3. Told' = Told /\ Pending' = Pending /\ Restoring' = Restoring
  BY <1>1, <1>2 DEF Told, Pending, Restoring
<1>4. \A n \in {"unannounced", "told", "pending", "watched", "held", "restoring"} :
         Place'[n] \subseteq Place[n]
  BY <1>1, <1>3, PlaceDefs, PlaceDefsAfter
<1>5. /\ execution_broker \in Seq(ExecutionOrder) /\ Distinct(execution_broker)
      /\ execution_report \in Seq(ExecutionAck) /\ Distinct(execution_report)
      /\ Apart(Place)
      /\ \A t, u \in taken : t.order.pair = u.order.pair => t = u
  BY DEF PlaceInv, TypeOK, QueuesTypeOK, NoPairTwice
<1>6. CASE Take \/ Drop
  <2> DEFINE order == Head(execution_broker)
  <2>1. /\ execution_broker # <<>> /\ execution_broker' = Tail(execution_broker)
        /\ UNCHANGED execution_report
    BY <1>6 DEF Take, Drop, Receive
  <2>2. /\ order.pair \in PairsIn(execution_broker)
        /\ PairsIn(execution_broker') \subseteq PairsIn(execution_broker) \ {order.pair}
        /\ Distinct(execution_broker')
    BY <1>5, <2>1, TailPairs
  <2>3. taken' = taken \/ taken' = taken \cup {[n |-> counter + 1, order |-> order]}
    BY <1>6 DEF Take, Drop
  <2>4. order.pair \notin Executed
    BY <2>2, PlaceDefs DEF PlaceInv, Apart, Places
  <2> HIDE DEF order
  <2>5. /\ Executed' \subseteq Executed \cup {order.pair}
        /\ \A t, u \in taken' : t.order.pair = u.order.pair => t = u
    <3> DEFINE ticket == [n |-> counter + 1, order |-> order]
    <3>1. ticket.order = order /\ (taken' = taken \/ taken' = taken \cup {ticket})
      BY <2>3
    <3> HIDE DEF ticket
    <3>2. \A t \in taken : t.order.pair # order.pair
      BY <2>4 DEF Executed
    <3>3. Executed' \subseteq Executed \cup {order.pair}
      BY <3>1 DEF Executed
    <3> QED BY <1>5, <3>1, <3>2, <3>3
  <2>6. OnlyMoved(Place, Place')
    <3>1. "ordered" \in Places /\ "executed" \in Places /\ "ordered" # "executed"
      BY DEF Places
    <3>2. /\ {order.pair} \subseteq Place["ordered"]
          /\ Place'["ordered"] \subseteq Place["ordered"] \ {order.pair}
          /\ Place'["executed"] \subseteq Place["executed"] \cup {order.pair}
      BY <2>2, <2>5, PlaceDefs, PlaceDefsAfter
    <3>3. \A n \in Places \ {"ordered", "executed"} : Place'[n] \subseteq Place[n]
      BY <1>4, <2>1, PlaceDefs, PlaceDefsAfter DEF Places
    <3> HIDE DEF Place, Places
    <3> QED BY <1>5, <3>1, <3>2, <3>3, MoveApart
  <2>7. NoPairTwice'
    BY <1>1, <1>2, <2>1, <2>2, <2>5 DEF PlaceInv, NoPairTwice
  <2> QED BY <2>6, <2>7
<1>7. ASSUME NEW t \in taken, Answer(t) \/ Vanish(t)
      PROVE  OnlyMoved(Place, Place') /\ NoPairTwice'
  <2>1. taken' = taken \ {t} /\ UNCHANGED execution_broker
    BY <1>7 DEF Answer, Vanish, queues
  <2>2. t.order \in ExecutionOrder
    BY DEF PlaceInv, TypeOK, ExecutorTypeOK
  <2>3. /\ t.order.pair \in Executed
        /\ Executed' \subseteq Executed \ {t.order.pair}
        /\ \A u, v \in taken' : u.order.pair = v.order.pair => u = v
    BY <1>5, <2>1 DEF Executed
  <2>4. t.order.pair \notin PairsIn(execution_report)
    BY <2>3, PlaceDefs DEF PlaceInv, Apart, Places
  <2>5. /\ PairsIn(execution_report') \subseteq PairsIn(execution_report) \cup {t.order.pair}
        /\ Distinct(execution_report')
    <3>1. CASE Answer(t)
      <4>1. PICK ack \in ExecutionAck : /\ execution_report' = Append(execution_report, ack)
                                        /\ ack.pair = t.order.pair
        BY <2>2, <3>1, BrokersAssumption DEF Answer, ExecutionAck, ExecutionOrder, TxStatus
      <4> QED BY <1>5, <2>4, <4>1, AppendPairs
    <3>2. CASE Vanish(t)
      BY <1>5, <3>2 DEF Vanish, queues
    <3> QED BY <1>7, <3>1, <3>2
  <2>6. OnlyMoved(Place, Place')
    <3> DEFINE M == {t.order.pair}
    <3>1. "executed" \in Places /\ "answered" \in Places /\ "executed" # "answered"
      BY DEF Places
    <3>2. /\ M \subseteq Place["executed"]
          /\ Place'["executed"] \subseteq Place["executed"] \ M
          /\ Place'["answered"] \subseteq Place["answered"] \cup M
      BY <2>3, <2>5, PlaceDefs, PlaceDefsAfter
    <3>3. \A n \in Places \ {"executed", "answered"} : Place'[n] \subseteq Place[n]
      BY <1>4, <2>1, PlaceDefs, PlaceDefsAfter DEF Places
    <3> HIDE DEF Place, Places, M
    <3> QED BY <1>5, <3>1, <3>2, <3>3, MoveApart
  <2>7. NoPairTwice'
    BY <1>1, <1>2, <2>1, <2>3, <2>5 DEF PlaceInv, NoPairTwice
  <2> QED BY <2>6, <2>7
<1> QED BY <1>6, <1>7 DEF ExecutorProcess, ExecutorNext, Settle

-----------------------------------------------------------------------------
(* The restored positions are about distinct pairs.                        *)
LEMMA RestoredDistinct ==
  /\ Distinct(PendingPositions)
  /\ PendingPositions \in Seq(Position)
BY TradingSystemAssumption, ConstantTypes DEF Distinct

LEMMA PlaceInit == Init => PlaceInv
<1> SUFFICES ASSUME Init PROVE PlaceInv
  OBVIOUS
<1>1. /\ watching_broker = <<>> /\ execution_broker = <<>> /\ execution_report = <<>>
      /\ glb_watchlist = <<>> /\ glb_inventory = <<>> /\ taken = {} /\ pc = "get"
      /\ control_receiver \in {<<>>, <<PendingPositions>>}
      /\ announced = {p.pair : p \in ToSet(PendingPositions)}
  BY DEF Init, StrategyInit, ExecutorInit, WatcherInit
<1>2. PairsIn(<<>>) = {} /\ Distinct(<<>>)
  BY DEF PairsIn, Distinct
<1>3. Told = {} /\ Pending = {} /\ Executed = {}
  BY <1>1 DEF Told, Pending, Executed
<1>4. Restoring \subseteq announced
  <2>1. announced = PairsIn(PendingPositions)
    BY <1>1 DEF PairsIn, ToSet
  <2>2. CASE control_receiver = <<>>
    BY <2>2 DEF Restoring
  <2>3. CASE control_receiver = <<PendingPositions>>
    <3>1. DOMAIN control_receiver = {1} /\ control_receiver[1] = PendingPositions
      BY <2>3
    <3>2. Restoring = PairsIn(PendingPositions)
      BY <3>1 DEF Restoring
    <3> QED BY <2>1, <3>2
  <2> QED BY <1>1, <2>2, <2>3
<1>5. Apart(Place)
  <2>1. \A n \in Places \ {"unannounced", "restoring"} : Place[n] = {}
    BY <1>1, <1>2, <1>3, PlaceDefs DEF Places
  <2>2. Place["unannounced"] \cap Place["restoring"] = {}
    BY <1>4, PlaceDefs
  <2> HIDE DEF Place, Places
  <2> QED BY <2>1, <2>2 DEF Apart
<1>6. NoPairTwice
  <2>1. \A i \in DOMAIN control_receiver : i = 1 /\ control_receiver[i] = PendingPositions
    <3>1. CASE control_receiver = <<>>
      BY <3>1
    <3>2. CASE control_receiver = <<PendingPositions>>
      BY <3>2
    <3> QED BY <1>1, <3>1, <3>2
  <2> QED BY <1>1, <1>2, <2>1, RestoredDistinct DEF NoPairTwice
<1> QED BY <1>5, <1>6, TypeInit DEF PlaceInv

LEMMA PlaceStep == PlaceInv /\ [Next]_vars => PlaceInv' /\ OnlyMoved(Place, Place')
<1> SUFFICES ASSUME PlaceInv, [Next]_vars PROVE PlaceInv' /\ OnlyMoved(Place, Place')
  OBVIOUS
<1>1. TypeOK'
  BY TypeNext DEF PlaceInv
<1>2. OnlyMoved(Place, Place') /\ NoPairTwice'
  <2>1. CASE UNCHANGED vars
    BY <2>1, PlaceIdle DEF vars, queues, strategyVars, executorVars, watcherVars
  <2>2. CASE StrategyTask(ReceiveBlock) \/ StrategyTask(Pass)
    BY <2>2, PlacePass, PlaceReceiveBlock
  <2>3. CASE StrategyTask(HandleExecutionReport) \/ ControlTask
    BY <2>3, PlaceAck, PlaceControl
  <2>4. CASE \/ OtherTask(NewHead) \/ OtherTask(ListenReport)
             \/ OtherTask(TakeReport) /\ UNCHANGED watcherVars
    BY <2>4, PlaceNewHead, PlaceOther
  <2>5. CASE ExecutorProcess(ExecutorNext)
    BY <2>5, PlaceExecutor
  <2> QED BY <2>1, <2>2, <2>3, <2>4, <2>5 DEF Next
<1> QED BY <1>1, <1>2 DEF PlaceInv, OnlyMoved

(* A set whose elements are all the same has at most one element.          *)
LEMMA AtMostOne ==
  ASSUME NEW T, NEW p, IsFiniteSet(T), \A t, u \in T : t = u
  PROVE  Cardinality(T) = IF T = {} THEN 0 ELSE 1
<1>1. CASE T = {}
  BY <1>1, FS_EmptySet
<1>2. ASSUME NEW t \in T
      PROVE  Cardinality(T) = 1
  <2>1. T = {t}
    OBVIOUS
  <2> QED BY <2>1, FS_Singleton
<1> QED BY <1>1, <1>2

LEMMA PlacesCounted == PlaceInv => PairInOnePlace
<1> SUFFICES ASSUME PlaceInv, NEW p \in Pairs
             PROVE  Cardinality({i \in DOMAIN glb_watchlist : glb_watchlist[i].pair = p})
                    + Cardinality({i \in DOMAIN execution_broker : execution_broker[i].pair = p})
                    + Cardinality({t \in taken : t.order.pair = p})
                    + Cardinality({i \in DOMAIN execution_report : execution_report[i].pair = p})
                    + Cardinality({i \in DOMAIN glb_inventory : glb_inventory[i].pair = p}) <= 1
  BY DEF PairInOnePlace
<1> DEFINE In(n) == IF p \in Place[n] THEN 1 ELSE 0
<1>1. /\ Distinct(glb_watchlist) /\ Distinct(execution_broker)
      /\ Distinct(execution_report) /\ Distinct(glb_inventory)
  BY DEF PlaceInv, NoPairTwice
<1>2. Cardinality({i \in DOMAIN glb_watchlist : glb_watchlist[i].pair = p}) = In("watched")
  BY <1>1, CountPairs, PlaceDefs
<1>3. Cardinality({i \in DOMAIN execution_broker : execution_broker[i].pair = p}) = In("ordered")
  BY <1>1, CountPairs, PlaceDefs
<1>4. Cardinality({t \in taken : t.order.pair = p}) = In("executed")
  <2> DEFINE T == {t \in taken : t.order.pair = p}
  <2>1. IsFiniteSet(T)
    BY FS_Subset DEF PlaceInv, TypeOK, ExecutorTypeOK
  <2>2. \A t, u \in T : t = u
    BY DEF PlaceInv, NoPairTwice
  <2>3. T = {} <=> p \notin Place["executed"]
    BY PlaceDefs DEF Executed
  <2> HIDE DEF T
  <2>4. Cardinality(T) = In("executed")
    BY <2>1, <2>2, <2>3, AtMostOne
  <2> QED BY <2>4 DEF T
<1>5. Cardinality({i \in DOMAIN execution_report : execution_report[i].pair = p}) = In("answered")
  BY <1>1, CountPairs, PlaceDefs
<1>6. Cardinality({i \in DOMAIN glb_inventory : glb_inventory[i].pair = p}) = In("held")
  BY <1>1, CountPairs, PlaceDefs
<1>7. \A m, n \in Places : m # n => ~ (p \in Place[m] /\ p \in Place[n])
  BY DEF PlaceInv, Apart
<1>8. In("watched") + In("ordered") + In("executed") + In("answered") + In("held") <= 1
  <2> HIDE DEF Place
  <2> QED BY <1>7 DEF Places
<1> HIDE DEF In
<1> QED BY <1>2, <1>3, <1>4, <1>5, <1>6, <1>8

(***************************************************************************)
(* A pair is watched, ordered, being executed, acknowledged or held, and   *)
(* only one of these, for any number of pairs and restored positions: no   *)
(* interleaving makes the bot buy or sell a pair twice, or inspect for a   *)
(* buy what it holds (main.py:180-184, 244-250, 279).                      *)
(***************************************************************************)
THEOREM PairIsInOnePlace == Spec => []PairInOnePlace
BY PlaceInit, PlaceStep, PlacesCounted, PTL DEF Spec

-----------------------------------------------------------------------------
(* The amount that is bought with.                                         *)

AmountInv == TypeOK /\ BuyAmountInRange

LEMMA AmountInit == Init => AmountInv
BY TypeInit, ConstantTypes, AmountBounds DEF AmountInv, BuyAmountInRange, Init, StrategyInit

(* Every step leaves the amount, resets it, or moves it one step within    *)
(* its range.                                                              *)
LEMMA AmountEffect ==
  ASSUME TypeOK, [Next]_vars
  PROVE  \/ buy_amount' \in {buy_amount, BUY_AMOUNT}
         \/ /\ buy_amount' = buy_amount + AMOUNT_CHANGE_STEP
            /\ buy_amount' <= MAX_BUY_AMOUNT
         \/ /\ buy_amount' = buy_amount - AMOUNT_CHANGE_STEP
            /\ buy_amount' >= MIN_BUY_AMOUNT
<1>1. CASE StrategyTask(Pass)
  BY <1>1 DEF StrategyTask, Pass, LiquidateNext, HardStop, GoOn, InspectDone, PurgeNext,
     PurgeDone, InspectionFails, InspectionPasses, Reject, Watch, BuyAtOnce, Admitted
<1>2. CASE StrategyTask(HandleExecutionReport)
  <2>1. CASE BuySucceeded \/ BuyFailed
    BY <2>1 DEF BuySucceeded, BuyFailed
  <2>2. CASE SellSucceeded
    BY <2>2 DEF SellSucceeded, CanRaise
  <2>3. CASE SellFailed
    BY <2>3 DEF SellFailed
  <2> QED BY <1>2, <2>1, <2>2, <2>3 DEF StrategyTask, HandleExecutionReport
<1>3. CASE StrategyTask(ReceiveBlock) \/ ControlTask
  BY <1>3 DEF StrategyTask, ReceiveBlock, ControlTask, HandleControlOrder
<1>4. CASE \/ OtherTask(NewHead) \/ OtherTask(ListenReport)
           \/ OtherTask(TakeReport) /\ UNCHANGED watcherVars
           \/ ExecutorProcess(ExecutorNext) \/ UNCHANGED vars
  BY <1>4 DEF OtherTask, ExecutorProcess, vars, strategyVars
<1> QED BY <1>1, <1>2, <1>3, <1>4 DEF Next

LEMMA AmountStep == AmountInv /\ [Next]_vars => AmountInv'
<1> SUFFICES ASSUME AmountInv, [Next]_vars PROVE AmountInv'
  OBVIOUS
<1>1. TypeOK /\ TypeOK'
  BY TypeNext DEF AmountInv
<1>2. buy_amount \in MIN_BUY_AMOUNT .. MAX_BUY_AMOUNT
  BY DEF AmountInv, BuyAmountInRange
<1>3. buy_amount' \in MIN_BUY_AMOUNT .. MAX_BUY_AMOUNT
  BY <1>1, <1>2, AmountEffect, AmountBounds, ConstantTypes
<1> QED BY <1>1, <1>3 DEF AmountInv, BuyAmountInRange

(***************************************************************************)
(* Whatever is won and lost and however often the day ends, the bot never  *)
(* buys for less than the least amount or for more than the largest        *)
(* (main.py:213, 401, 422).                                                *)
(***************************************************************************)
THEOREM AmountStaysInRange == Spec => []BuyAmountInRange
<1>1. AmountInv => BuyAmountInRange
  BY DEF AmountInv
<1> QED BY AmountInit, AmountStep, <1>1, PTL DEF Spec

-----------------------------------------------------------------------------
(* Which steps send a buy order.                                           *)

(* The last message of a queue to which one was put.                       *)
LEMMA LastOfAppend ==
  ASSUME NEW S, NEW s \in Seq(S), NEW e \in S
  PROVE  Last(Append(s, e)) = e
BY AppendProperties DEF Last

(* Only strategy() sends buy orders, and it takes a slot for each.         *)
LEMMA BuyIsAPass ==
  ASSUME TypeOK, [Next]_vars, NEW p \in Pairs, SendsBuy(p)
  PROVE  /\ StrategyTask(Pass) /\ pc \in {"inspect", "admit"}
         /\ \E is_paper \in BOOLEAN :
               execution_broker' = Append(execution_broker, BuyOrder(p, is_paper))
<1>1. Len(execution_broker') > Len(execution_broker) /\ Len(execution_broker) \in Nat
  BY LenProperties DEF SendsBuy, TypeOK, QueuesTypeOK
<1>2. execution_broker' # execution_broker
  BY <1>1
<1>3. ~ (\/ StrategyTask(ReceiveBlock) \/ StrategyTask(HandleExecutionReport)
         \/ ControlTask \/ OtherTask(NewHead) \/ OtherTask(ListenReport)
         \/ OtherTask(TakeReport) /\ UNCHANGED watcherVars
         \/ UNCHANGED vars)
  BY <1>2, AckEffect, ControlEffect, QuietEffect DEF vars, queues
<1>4. ~ ExecutorProcess(ExecutorNext)
  <2>1. ExecutorProcess(ExecutorNext) =>
           \/ Len(execution_broker') = Len(execution_broker) - 1
           \/ UNCHANGED execution_broker
    BY ExecutorEffect
  <2> QED BY <2>1, <1>1, <1>2
<1>5. StrategyTask(Pass)
  BY <1>3, <1>4 DEF Next
<1>6. ~ SellsOne
  <2> SUFFICES ASSUME NEW position \in Position,
                      execution_broker' = Append(execution_broker, SellOrder(position))
               PROVE  FALSE
    BY DEF SellsOne
  <2>1. Last(execution_broker') = SellOrder(position)
    BY LastOfAppend, BuiltRecords DEF TypeOK, QueuesTypeOK
  <2> QED BY <2>1 DEF SellOrder, SendsBuy
<1>7. BuysOne
  BY <1>2, <1>5, <1>6, PassEffect DEF Idle
<1>8. PICK pair \in Pairs, is_paper \in BOOLEAN :
         execution_broker' = Append(execution_broker, BuyOrder(pair, is_paper))
  BY <1>7 DEF BuysOne
<1>9. Last(execution_broker') = BuyOrder(pair, is_paper)
  BY <1>8, LastOfAppend, BuiltRecords DEF TypeOK, QueuesTypeOK
<1>10. pair = p
  BY <1>9 DEF BuyOrder, SendsBuy
<1> QED BY <1>5, <1>7, <1>8, <1>10 DEF BuysOne

-----------------------------------------------------------------------------
(* The hard stop.                                                          *)

\* Nothing is under way between the main process and the executor.
NoOrders == execution_broker = <<>> /\ taken = {} /\ execution_report = <<>>

\* From its inspections on, a pass is one that was not stopped.  Before that it
\* may be about to be; with a threshold above zero the first pass always is,
\* and nothing can have been lost or won until then.
RunInv ==
  /\ TypeOK
  /\ pc \in {"inspect", "purge", "admit"} => glb_auto_run /\ ~ BelowHardStop
  /\ HARD_STOP_PNL_THRESHOLD > 0 /\ glb_auto_run =>
        glb_daily_pnl = 0 /\ (pc # "liquidate" => NoOrders)

LEMMA RunInit == Init => RunInv
BY TypeInit DEF RunInv, Init, StrategyInit, ExecutorInit, NoOrders

LEMMA ThresholdType == HARD_STOP_PNL_THRESHOLD \in Int
BY StrategyAssumption

LEMMA RunPass ==
  ASSUME RunInv, StrategyTask(Pass)
  PROVE  /\ pc' \in {"inspect", "purge", "admit"} => glb_auto_run' /\ ~ BelowHardStop'
         /\ HARD_STOP_PNL_THRESHOLD > 0 /\ glb_auto_run' =>
               glb_daily_pnl' = 0 /\ (pc' # "liquidate" => NoOrders')
<1>1. HARD_STOP_PNL_THRESHOLD > 0 /\ glb_auto_run => BelowHardStop
  BY ThresholdType DEF RunInv, BelowHardStop
<1>2. CASE LiquidateNext
  <2>1. UNCHANGED <<pc, glb_auto_run, glb_daily_pnl>> /\ pc = "liquidate"
    BY <1>2 DEF LiquidateNext
  <2> QED BY <2>1 DEF RunInv
<1>3. CASE HardStop
  BY <1>3 DEF HardStop
<1>4. CASE GoOn
  <2>1. /\ ~ BelowHardStop /\ glb_auto_run /\ UNCHANGED glb_auto_run
        /\ glb_daily_pnl' \in {glb_daily_pnl, 0}
    BY <1>4 DEF GoOn, Stopped
  <2>2. ~ HARD_STOP_PNL_THRESHOLD > 0
    BY <1>1, <2>1
  <2>3. ~ BelowHardStop'
    BY <2>1, <2>2, ThresholdType DEF BelowHardStop
  <2> QED BY <2>1, <2>2, <2>3
<1>5. CASE pc \in {"inspect", "purge", "admit"} /\ UNCHANGED <<glb_auto_run, glb_daily_pnl>>
  <2>1. glb_auto_run' /\ ~ BelowHardStop'
    BY <1>5 DEF RunInv, BelowHardStop
  <2>2. ~ HARD_STOP_PNL_THRESHOLD > 0
    BY <1>1, <1>5 DEF RunInv
  <2> QED BY <2>1, <2>2
<1>6. Pass
  BY DEF StrategyTask
<1>7. CASE \/ InspectDone \/ PurgeNext \/ PurgeDone
           \/ \E p \in Pairs :
                 \/ InspectionFails(p)
                 \/ \E verified, enough_mm \in BOOLEAN :
                       InspectionPasses(p, verified, enough_mm)
                 \/ Reject(p) \/ (\E verified \in BOOLEAN : Watch(p, verified))
                 \/ BuyAtOnce(p)
  <2>1. pc \in {"inspect", "purge", "admit"} /\ UNCHANGED <<glb_auto_run, glb_daily_pnl>>
    BY <1>7 DEF InspectDone, PurgeNext, PurgeDone, InspectionFails, InspectionPasses,
       Reject, Watch, BuyAtOnce, Admitted
  <2> QED BY <1>5, <2>1
<1> QED BY <1>2, <1>3, <1>4, <1>6, <1>7 DEF Pass

LEMMA RunStep == RunInv /\ [Next]_vars => RunInv'
<1> SUFFICES ASSUME RunInv, [Next]_vars PROVE RunInv'
  OBVIOUS
<1>1. TypeOK /\ TypeOK'
  BY TypeNext DEF RunInv
<1>2. CASE StrategyTask(Pass)
  BY <1>1, <1>2, RunPass DEF RunInv
<1>3. CASE StrategyTask(HandleExecutionReport)
  <2>1. /\ pc = "get" /\ execution_report # <<>>
        /\ UNCHANGED <<pc, glb_auto_run>>
    BY <1>3 DEF StrategyTask, HandleExecutionReport, BuySucceeded, BuyFailed, SellSucceeded,
       SellFailed, ReceiveAck
  <2>2. ~ (HARD_STOP_PNL_THRESHOLD > 0 /\ glb_auto_run)
    BY <2>1 DEF RunInv, NoOrders
  <2> QED BY <1>1, <2>1, <2>2 DEF RunInv
<1>4. CASE StrategyTask(ReceiveBlock) \/ ControlTask
  <2>1. /\ pc = "get" /\ pc' \in {"get", "liquidate"}
        /\ UNCHANGED <<glb_auto_run, glb_daily_pnl, execution_broker, taken, execution_report>>
    BY <1>4 DEF StrategyTask, ReceiveBlock, ControlTask, HandleControlOrder, executorVars
  <2> QED BY <1>1, <2>1 DEF RunInv, NoOrders
<1>5. CASE \/ OtherTask(NewHead) \/ OtherTask(ListenReport)
           \/ OtherTask(TakeReport) /\ UNCHANGED watcherVars
           \/ UNCHANGED vars
  <2>1. UNCHANGED <<pc, glb_auto_run, glb_daily_pnl, execution_broker, taken, execution_report>>
    BY <1>5 DEF OtherTask, NewHead, ListenReport, TakeReport, vars, queues, strategyVars,
       executorVars
  <2> QED BY <1>1, <2>1 DEF RunInv, NoOrders, BelowHardStop
<1>6. CASE ExecutorProcess(ExecutorNext)
  <2>1. UNCHANGED <<pc, glb_auto_run, glb_daily_pnl>>
    BY <1>6 DEF ExecutorProcess, strategyVars
  <2>2. NoOrders => FALSE
    BY <1>6 DEF NoOrders, ExecutorProcess, ExecutorNext, Take, Drop, Receive, Settle
  <2> QED BY <1>1, <2>1, <2>2 DEF RunInv, BelowHardStop
<1> QED BY <1>2, <1>3, <1>4, <1>5, <1>6 DEF Next

(***************************************************************************)
(* No buy is sent by a stopped bot, for any threshold, the senseless ones  *)
(* above zero included: not in the pass that finds the loss, and not after *)
(* a new day has forgotten it (main.py:196-215).                           *)
(***************************************************************************)
THEOREM BuysOnlyWhileRunning == Spec => BuyOnlyWhileRunning
<1>1. RunInv /\ [Next]_vars =>
         [\A p \in Pairs : SendsBuy(p) => glb_auto_run /\ ~ BelowHardStop]_vars
  BY BuyIsAPass DEF RunInv
<1> QED BY RunInit, RunStep, <1>1, PTL DEF Spec, BuyOnlyWhileRunning

-----------------------------------------------------------------------------
(* The probation of a pair.                                                *)

\* With more than one inspection configured no watched pair has had its last
\* one, and those that are being inspected are due: no pair is on the watchlist
\* twice, so an inspection that is due for one entry is not made on another.
ProbationInv ==
  /\ PlaceInv
  /\ MAX_INSPECT_ATTEMPTS > 1 =>
        \A w \in ToSet(glb_watchlist) :
           /\ w.inspect_attempts < MAX_INSPECT_ATTEMPTS
           /\ pc = "inspect" /\ w.pair \in inspecting => Due(w)

LEMMA ProbationInit == Init => ProbationInv
<1> SUFFICES ASSUME Init PROVE ProbationInv
  OBVIOUS
<1>1. ToSet(glb_watchlist) = {}
  BY DEF Init, StrategyInit, ToSet
<1> QED BY <1>1, PlaceInit DEF ProbationInv

(* One successful inspection of p, not the last one or the last one.       *)
LEMMA InspectionEffect ==
  ASSUME TypeOK, NEW p \in Pairs, NEW verified \in BOOLEAN, NEW enough_mm \in BOOLEAN,
         InspectionPasses(p, verified, enough_mm)
  PROVE  /\ pc = "inspect" /\ p \in inspecting /\ inspecting' = inspecting \ {p}
         /\ pc' \in {pc, "dead"}
         /\ \E w \in ToSet(glb_watchlist) :
               /\ w.pair = p
               /\ \/ /\ w.inspect_attempts + 1 < MAX_INSPECT_ATTEMPTS
                     /\ UNCHANGED execution_broker
                     /\ \A v \in ToSet(glb_watchlist') :
                           \/ v \in ToSet(glb_watchlist)
                           \/ v.pair = p /\ v.inspect_attempts = w.inspect_attempts + 1
                  \/ /\ w.inspect_attempts + 1 >= MAX_INSPECT_ATTEMPTS
                     /\ ToSet(glb_watchlist') \subseteq ToSet(glb_watchlist)
                     /\ \/ UNCHANGED execution_broker
                        \/ execution_broker' = Append(execution_broker,
                                                  BuyOrder(p, RUN_MODE = "PAPER_TRADE"))
<1>1. pc = "inspect" /\ p \in inspecting /\ inspecting' = inspecting \ {p}
  BY DEF InspectionPasses
<1>2. PICK i \in DOMAIN glb_watchlist :
        LET inspected ==
               [glb_watchlist[i] EXCEPT !.inspect_attempts = @ + 1,
                                        !.contract_verified = @ \/ verified]
        IN /\ inspected.pair = p
           /\ \/ /\ inspected.inspect_attempts < MAX_INSPECT_ATTEMPTS
                 /\ glb_watchlist' = [glb_watchlist EXCEPT ![i] = inspected]
                 /\ UNCHANGED <<execution_broker, pc>>
              \/ /\ inspected.inspect_attempts >= MAX_INSPECT_ATTEMPTS
                 /\ glb_watchlist' = RemoveAt(glb_watchlist, i)
                 /\ \/ SendExecOrder(p, RUN_MODE = "PAPER_TRADE", pc)
                    \/ UNCHANGED <<execution_broker, pc>>
  BY DEF InspectionPasses
<1> DEFINE w == glb_watchlist[i]
           inspected == [w EXCEPT !.inspect_attempts = @ + 1,
                                  !.contract_verified = @ \/ verified]
<1>3. /\ glb_watchlist \in Seq(WatchedPair) /\ i \in 1 .. Len(glb_watchlist)
      /\ w \in WatchedPair /\ w \in ToSet(glb_watchlist)
  BY LenProperties, ElementOfSeq DEF TypeOK, StrategyTypeOK, ToSet
<1>4. inspected.pair = w.pair /\ inspected.inspect_attempts = w.inspect_attempts + 1
  BY <1>3 DEF WatchedPair
<1>5. /\ w.pair = p
      /\ \/ /\ w.inspect_attempts + 1 < MAX_INSPECT_ATTEMPTS
            /\ glb_watchlist' = [glb_watchlist EXCEPT ![i] = inspected]
            /\ UNCHANGED <<execution_broker, pc>>
         \/ /\ w.inspect_attempts + 1 >= MAX_INSPECT_ATTEMPTS
            /\ glb_watchlist' = RemoveAt(glb_watchlist, i)
            /\ \/ SendExecOrder(p, RUN_MODE = "PAPER_TRADE", pc)
               \/ UNCHANGED <<execution_broker, pc>>
  BY <1>2, <1>4
<1> HIDE DEF inspected, w
<1>6. (RUN_MODE = "PAPER_TRADE") \in BOOLEAN
  OBVIOUS
<1>7. pc' \in {pc, "dead"}
  BY <1>5, <1>6, SendEffect
<1>8. ToSet(RemoveAt(glb_watchlist, i)) \subseteq ToSet(glb_watchlist)
  BY <1>3, RemoveAtPairs
<1>9. \A v \in ToSet([glb_watchlist EXCEPT ![i] = inspected]) :
         v \in ToSet(glb_watchlist) \/ v = inspected
  BY DEF ToSet
<1>10. CASE /\ w.inspect_attempts + 1 < MAX_INSPECT_ATTEMPTS
            /\ glb_watchlist' = [glb_watchlist EXCEPT ![i] = inspected]
            /\ UNCHANGED <<execution_broker, pc>>
  BY <1>1, <1>3, <1>4, <1>5, <1>7, <1>9, <1>10
<1>11. CASE /\ w.inspect_attempts + 1 >= MAX_INSPECT_ATTEMPTS
            /\ glb_watchlist' = RemoveAt(glb_watchlist, i)
            /\ \/ SendExecOrder(p, RUN_MODE = "PAPER_TRADE", pc)
               \/ UNCHANGED <<execution_broker, pc>>
  <2>1. \/ UNCHANGED execution_broker
        \/ execution_broker' = Append(execution_broker, BuyOrder(p, RUN_MODE = "PAPER_TRADE"))
    BY <1>6, <1>11, SendEffect
  <2>2. ToSet(glb_watchlist') \subseteq ToSet(glb_watchlist)
    BY <1>8, <1>11
  <2> QED BY <1>1, <1>3, <1>5, <1>7, <1>11, <2>1, <2>2
<1> QED BY <1>5, <1>10, <1>11

(* A step that adds nothing to the watchlist and starts no inspections.    *)
LEMMA ProbationKept ==
  ASSUME ProbationInv, PlaceInv',
         ToSet(glb_watchlist') \subseteq ToSet(glb_watchlist),
         \/ pc' # "inspect"
         \/ pc = "inspect" /\ inspecting' \subseteq inspecting
  PROVE  ProbationInv'
BY DEF ProbationInv, Due

LEMMA ProbationPass ==
  ASSUME ProbationInv, PlaceInv', StrategyTask(Pass)
  PROVE  ProbationInv'
<1>1. TypeOK /\ glb_watchlist \in Seq(WatchedPair) /\ Distinct(glb_watchlist)
  BY DEF ProbationInv, PlaceInv, TypeOK, StrategyTypeOK, NoPairTwice
<1>2. CASE \/ LiquidateNext \/ HardStop \/ InspectDone \/ PurgeDone
           \/ \E p \in Pairs : InspectionFails(p) \/ Reject(p) \/ BuyAtOnce(p)
  <2>1. UNCHANGED glb_watchlist
    BY <1>2 DEF LiquidateNext, HardStop, InspectDone, PurgeDone, InspectionFails, Reject,
       BuyAtOnce
  <2>2. \A rest : After(rest) # "inspect"
    BY DEF After
  <2>3. \/ pc' # "inspect"
        \/ pc = "inspect" /\ inspecting' \subseteq inspecting
    <3>1. CASE LiquidateNext \/ HardStop \/ InspectDone \/ PurgeDone
      BY <2>2, <3>1 DEF LiquidateNext, HardStop, InspectDone, PurgeDone
    <3>2. ASSUME NEW p \in Pairs, InspectionFails(p) \/ Reject(p)
          PROVE  \/ pc' # "inspect"
                 \/ pc = "inspect" /\ inspecting' \subseteq inspecting
      BY <2>2, <3>2 DEF InspectionFails, Reject
    <3>3. ASSUME NEW p \in Pairs, BuyAtOnce(p)
          PROVE  pc' # "inspect"
      BY <2>2, <3>3, SendEffect DEF BuyAtOnce
    <3> QED BY <1>2, <3>1, <3>2, <3>3
  <2> QED BY <2>1, <2>3, ProbationKept
<1>3. CASE GoOn
  <2>1. UNCHANGED glb_watchlist /\ (pc' = "inspect" => inspecting' = DuePairs)
    BY <1>3 DEF GoOn, After
  <2>2. \A v, w \in ToSet(glb_watchlist) : v.pair = w.pair => v = w
    BY <1>1 DEF Distinct, ToSet
  <2>3. \A w \in ToSet(glb_watchlist) : w.pair \in DuePairs => Due(w)
    BY <2>2 DEF DuePairs
  <2> QED BY <2>1, <2>3 DEF ProbationInv, Due
<1>4. CASE PurgeNext
  <2>1. scan \in 1 .. Len(glb_watchlist) /\ pc' # "inspect"
    BY <1>1, <1>4, LenProperties DEF PurgeNext, TypeOK, StrategyTypeOK
  <2>2. glb_watchlist' \in {RemoveAt(glb_watchlist, scan), glb_watchlist}
    BY <1>4 DEF PurgeNext
  <2>3. ToSet(glb_watchlist') \subseteq ToSet(glb_watchlist)
    BY <1>1, <2>1, <2>2, RemoveAtPairs
  <2> QED BY <2>1, <2>3, ProbationKept
<1>5. ASSUME NEW p \in Pairs, NEW verified \in BOOLEAN, NEW enough_mm \in BOOLEAN,
             InspectionPasses(p, verified, enough_mm)
      PROVE  ProbationInv'
  <2>1. /\ pc = "inspect" /\ inspecting' = inspecting \ {p} /\ MAX_INSPECT_ATTEMPTS \in Nat
        /\ \A v \in ToSet(glb_watchlist') :
              \/ v \in ToSet(glb_watchlist)
              \/ v.pair = p /\ v.inspect_attempts < MAX_INSPECT_ATTEMPTS
    <3>1. PICK w \in ToSet(glb_watchlist) :
             \/ /\ w.inspect_attempts + 1 < MAX_INSPECT_ATTEMPTS
                /\ \A v \in ToSet(glb_watchlist') :
                      \/ v \in ToSet(glb_watchlist)
                      \/ v.pair = p /\ v.inspect_attempts = w.inspect_attempts + 1
             \/ ToSet(glb_watchlist') \subseteq ToSet(glb_watchlist)
      BY <1>1, <1>5, InspectionEffect
    <3>2. pc = "inspect" /\ inspecting' = inspecting \ {p}
      BY <1>1, <1>5, InspectionEffect
    <3>3. \A v \in ToSet(glb_watchlist') :
              \/ v \in ToSet(glb_watchlist)
              \/ v.pair = p /\ v.inspect_attempts < MAX_INSPECT_ATTEMPTS
      BY <3>1
    <3> QED BY <3>2, <3>3, ConstantTypes
  <2> QED BY <2>1 DEF ProbationInv, Due
<1>6. ASSUME NEW p \in Pairs, NEW verified \in BOOLEAN, Watch(p, verified)
      PROVE  ProbationInv'
  <2> DEFINE watched == [pair |-> p, age |-> 0, inspect_attempts |-> 1,
                         contract_verified |-> verified]
  <2>1. watched \in WatchedPair /\ watched.inspect_attempts = 1
    BY DEF WatchedPair
  <2>2. glb_watchlist' = Append(glb_watchlist, watched)
    BY <1>6 DEF Watch
  <2>3. pc' # "inspect"
    BY <1>6 DEF Watch, After
  <2> HIDE DEF watched
  <2>4. ToSet(glb_watchlist') = ToSet(glb_watchlist) \cup {watched}
    BY <1>1, <2>1, <2>2, AppendFacts
  <2> QED BY <2>1, <2>3, <2>4 DEF ProbationInv
<1> QED BY <1>2, <1>3, <1>4, <1>5, <1>6 DEF StrategyTask, Pass

LEMMA ProbationStep == ProbationInv /\ [Next]_vars => ProbationInv'
<1> SUFFICES ASSUME ProbationInv, [Next]_vars PROVE ProbationInv'
  OBVIOUS
<1>1. PlaceInv' /\ TypeOK
  BY PlaceStep DEF ProbationInv, PlaceInv
<1>2. CASE StrategyTask(Pass)
  BY <1>1, <1>2, ProbationPass
<1>3. CASE StrategyTask(ReceiveBlock)
  <2>1. pc' # "inspect"
    BY <1>3 DEF StrategyTask, ReceiveBlock
  <2>2. \A w \in ToSet(glb_watchlist') : \E v \in ToSet(glb_watchlist) :
           w.inspect_attempts = v.inspect_attempts
    <3> SUFFICES ASSUME NEW i \in DOMAIN glb_watchlist'
                 PROVE  \E v \in ToSet(glb_watchlist) :
                           glb_watchlist'[i].inspect_attempts = v.inspect_attempts
      BY DEF ToSet
    <3>1. i \in DOMAIN glb_watchlist
          /\ glb_watchlist'[i] = [glb_watchlist[i] EXCEPT !.age = Older(@, MaxPairAge)]
      BY <1>3 DEF StrategyTask, ReceiveBlock
    <3>2. glb_watchlist[i] \in WatchedPair
      BY <1>1, <3>1, ElementOfSeq, LenProperties DEF TypeOK, StrategyTypeOK
    <3>3. glb_watchlist'[i].inspect_attempts = glb_watchlist[i].inspect_attempts
      BY <3>1, <3>2 DEF WatchedPair
    <3> QED BY <3>1, <3>3 DEF ToSet
  <2> QED BY <1>1, <2>1, <2>2 DEF ProbationInv
<1>4. CASE StrategyTask(HandleExecutionReport) \/ ControlTask
  <2>1. UNCHANGED <<glb_watchlist, pc, inspecting>>
    BY <1>4 DEF StrategyTask, HandleExecutionReport, BuySucceeded, BuyFailed, SellSucceeded,
       SellFailed, ReceiveAck, ControlTask, HandleControlOrder
  <2> QED BY <1>1, <2>1, ProbationKept
<1>5. CASE \/ OtherTask(NewHead) \/ OtherTask(ListenReport)
           \/ OtherTask(TakeReport) /\ UNCHANGED watcherVars
           \/ ExecutorProcess(ExecutorNext)
           \/ UNCHANGED vars
  <2>1. UNCHANGED <<glb_watchlist, pc, inspecting>>
    BY <1>5 DEF OtherTask, ExecutorProcess, vars, strategyVars
  <2> QED BY <1>1, <2>1, ProbationKept
<1> QED BY <1>2, <1>3, <1>4, <1>5 DEF Next

LEMMA BuyIsProbed ==
  ASSUME ProbationInv, [Next]_vars, NEW p \in Pairs, SendsBuy(p), MAX_INSPECT_ATTEMPTS > 1
  PROVE  \E w \in ToSet(glb_watchlist) :
            /\ w.pair = p
            /\ w.inspect_attempts = MAX_INSPECT_ATTEMPTS - 1
            /\ w.age > w.inspect_attempts * INSPECT_INTERVAL
<1>1. TypeOK /\ execution_broker \in Seq(ExecutionOrder) /\ glb_watchlist \in Seq(WatchedPair)
  BY DEF ProbationInv, PlaceInv, TypeOK, QueuesTypeOK, StrategyTypeOK
<1>2. StrategyTask(Pass) /\ pc \in {"inspect", "admit"}
  BY <1>1, BuyIsAPass
<1>3. execution_broker' # execution_broker
  <2>1. Len(execution_broker') > Len(execution_broker) /\ Len(execution_broker) \in Nat
    BY <1>1, LenProperties DEF SendsBuy
  <2> QED BY <2>1
<1>4. PICK q \in Pairs, verified \in BOOLEAN, enough_mm \in BOOLEAN :
         InspectionPasses(q, verified, enough_mm)
  <2>1. ~ (LiquidateNext \/ HardStop \/ GoOn \/ InspectDone \/ PurgeNext \/ PurgeDone)
    BY <1>2, <1>3 DEF LiquidateNext, HardStop, GoOn, InspectDone, PurgeNext, PurgeDone, queues
  <2>2. \A q \in Pairs : ~ InspectionFails(q) /\ ~ Reject(q)
    BY <1>3 DEF InspectionFails, Reject, queues
  <2>3. ~ MAX_INSPECT_ATTEMPTS <= 1
    BY ConstantTypes
  <2>4. \A q \in Pairs : ~ BuyAtOnce(q)
    BY <2>3 DEF BuyAtOnce
  <2>5. \A q \in Pairs, verified \in BOOLEAN : ~ Watch(q, verified)
    BY <1>3 DEF Watch
  <2> QED BY <1>2, <2>1, <2>2, <2>4, <2>5 DEF StrategyTask, Pass
<1>5. PICK w \in ToSet(glb_watchlist) :
         /\ w.pair = q
         /\ w.inspect_attempts + 1 >= MAX_INSPECT_ATTEMPTS
         /\ execution_broker' = Append(execution_broker, BuyOrder(q, RUN_MODE = "PAPER_TRADE"))
  BY <1>1, <1>3, <1>4, InspectionEffect
<1>6. q = p
  <2>1. BuyOrder(q, RUN_MODE = "PAPER_TRADE") \in ExecutionOrder
    <3>1. (RUN_MODE = "PAPER_TRADE") \in BOOLEAN
      OBVIOUS
    <3> QED BY <3>1, BuiltRecords
  <2>2. Last(execution_broker') = BuyOrder(q, RUN_MODE = "PAPER_TRADE")
    BY <1>1, <1>5, <2>1, LastOfAppend
  <2> QED BY <2>2 DEF BuyOrder, SendsBuy
<1>7. pc = "inspect" /\ q \in inspecting
  BY <1>1, <1>4, InspectionEffect
<1>8. w.inspect_attempts < MAX_INSPECT_ATTEMPTS /\ Due(w)
  BY <1>5, <1>7 DEF ProbationInv
<1>9. w.inspect_attempts \in Nat
  <2>1. PICK i \in DOMAIN glb_watchlist : w = glb_watchlist[i]
    BY DEF ToSet
  <2>2. w \in WatchedPair
    BY <1>1, <2>1, ElementOfSeq, LenProperties
  <2> QED BY <2>2 DEF WatchedPair
<1>10. w.inspect_attempts = MAX_INSPECT_ATTEMPTS - 1
  BY <1>5, <1>8, <1>9, ConstantTypes
<1> QED BY <1>5, <1>6, <1>8, <1>10 DEF Due

(***************************************************************************)
(* For any number of inspections above one and any interval, no pair is    *)
(* bought before its last inspection, nor earlier than all the intervals   *)
(* before it take (main.py:221, 243-250).                                  *)
(***************************************************************************)
THEOREM BuysAfterProbation == Spec => BuyAfterProbation
<1>1. ProbationInv /\ [Next]_vars =>
         [\A p \in Pairs : SendsBuy(p) /\ MAX_INSPECT_ATTEMPTS > 1 =>
             \E w \in ToSet(glb_watchlist) :
                /\ w.pair = p
                /\ w.inspect_attempts = MAX_INSPECT_ATTEMPTS - 1
                /\ w.age > w.inspect_attempts * INSPECT_INTERVAL]_vars
  BY BuyIsProbed
<1> QED BY ProbationInit, ProbationStep, <1>1, PTL DEF Spec, BuyAfterProbation

-----------------------------------------------------------------------------
(* The dry run.                                                            *)

(* What a step of a pass may put on the executor's queue, and what it      *)
(* leaves in the inventory: a sell for a position that it takes away, or a *)
(* buy; with more than one inspection a buy is marked by the mode.         *)
LEMMA PassLists ==
  ASSUME TypeOK, StrategyTask(Pass)
  PROVE  /\ UNCHANGED <<taken, execution_report, control_receiver, watching_notifier,
                        watch_inventory>>
         /\ \/ UNCHANGED <<execution_broker, glb_inventory>>
            \/ /\ \E position \in ToSet(glb_inventory) :
                     /\ position \in Position
                     /\ execution_broker' = Append(execution_broker, SellOrder(position))
                     /\ \A e \in ToSet(glb_inventory) :
                           e # position => e \in ToSet(glb_inventory')
               /\ ToSet(glb_inventory') \subseteq ToSet(glb_inventory)
            \/ /\ UNCHANGED glb_inventory
               /\ \E pair \in Pairs, is_paper \in BOOLEAN :
                     /\ execution_broker' = Append(execution_broker, BuyOrder(pair, is_paper))
                     /\ MAX_INSPECT_ATTEMPTS > 1 => (is_paper <=> RUN_MODE = "PAPER_TRADE")
<1> DEFINE Lists ==
      \/ UNCHANGED <<execution_broker, glb_inventory>>
      \/ /\ \E position \in ToSet(glb_inventory) :
               /\ position \in Position
               /\ execution_broker' = Append(execution_broker, SellOrder(position))
               /\ \A e \in ToSet(glb_inventory) : e # position => e \in ToSet(glb_inventory')
         /\ ToSet(glb_inventory') \subseteq ToSet(glb_inventory)
      \/ /\ UNCHANGED glb_inventory
         /\ \E pair \in Pairs, is_paper \in BOOLEAN :
               /\ execution_broker' = Append(execution_broker, BuyOrder(pair, is_paper))
               /\ MAX_INSPECT_ATTEMPTS > 1 => (is_paper <=> RUN_MODE = "PAPER_TRADE")
<1>1. UNCHANGED <<taken, execution_report, control_receiver, watching_notifier, watch_inventory>>
  <2>1. Pass /\ UNCHANGED <<taken, watch_inventory>>
    BY DEF StrategyTask, executorVars, watcherVars
  <2>2. UNCHANGED <<execution_report, control_receiver, watching_notifier>>
    BY <2>1 DEF Pass, LiquidateNext, HardStop, GoOn, InspectDone, PurgeNext, PurgeDone,
       InspectionFails, InspectionPasses, Reject, Watch, BuyAtOnce, Admitted, queues
  <2> QED BY <2>1, <2>2
<1>2. CASE LiquidateNext
  <2>1. scan \in 1 .. Len(glb_inventory) /\ glb_inventory \in Seq(Position)
    BY <1>2, LenProperties DEF LiquidateNext, TypeOK, StrategyTypeOK
  <2> DEFINE position == glb_inventory[scan]
  <2>2. position \in Position /\ position \in ToSet(glb_inventory)
    BY <2>1, ElementOfSeq, LenProperties DEF ToSet
  <2>3. /\ ToSet(PopPosition(scan)) \subseteq ToSet(glb_inventory)
        /\ \A e \in ToSet(glb_inventory) : e # position => e \in ToSet(PopPosition(scan))
    BY <2>1, RemoveAtPairs DEF PopPosition
  <2>4. \/ /\ glb_inventory' = PopPosition(scan)
           /\ execution_broker' = Append(execution_broker, SellOrder(position))
        \/ UNCHANGED <<execution_broker, glb_inventory>>
    BY <1>2 DEF LiquidateNext
  <2> HIDE DEF position
  <2> QED BY <1>1, <2>2, <2>3, <2>4
<1>3. CASE HardStop \/ GoOn \/ InspectDone \/ PurgeNext \/ PurgeDone
  BY <1>1, <1>3 DEF HardStop, GoOn, InspectDone, PurgeNext, PurgeDone, queues
<1>4. ASSUME NEW p \in Pairs, InspectionFails(p) \/ Reject(p)
      PROVE  Lists
  BY <1>4 DEF InspectionFails, Reject, Admitted, queues
<1>5. ASSUME NEW p \in Pairs, NEW verified \in BOOLEAN, Watch(p, verified)
      PROVE  Lists
  BY <1>5 DEF Watch, Admitted
<1>6. ASSUME NEW p \in Pairs, NEW verified \in BOOLEAN, NEW enough_mm \in BOOLEAN,
             InspectionPasses(p, verified, enough_mm)
      PROVE  Lists
  <2>1. UNCHANGED glb_inventory
    BY <1>6 DEF InspectionPasses
  <2>2. \/ UNCHANGED execution_broker
        \/ execution_broker' = Append(execution_broker, BuyOrder(p, RUN_MODE = "PAPER_TRADE"))
    BY <1>6, InspectionEffect
  <2>3. (RUN_MODE = "PAPER_TRADE") \in BOOLEAN
    OBVIOUS
  <2> QED BY <2>1, <2>2, <2>3
<1>7. ASSUME NEW p \in Pairs, BuyAtOnce(p)
      PROVE  Lists
  <2>1. UNCHANGED glb_inventory /\ MAX_INSPECT_ATTEMPTS <= 1
        /\ SendExecOrder(p, FALSE, After(inspecting'))
    BY <1>7 DEF BuyAtOnce, Admitted
  <2>2. \/ UNCHANGED execution_broker
        \/ execution_broker' = Append(execution_broker, BuyOrder(p, FALSE))
    BY <2>1, SendEffect
  <2>3. ~ MAX_INSPECT_ATTEMPTS > 1
    BY <2>1, ConstantTypes
  <2> QED BY <2>1, <2>2, <2>3
<1>8. Pass
  BY DEF StrategyTask
<1> HIDE DEF Lists
<1>9. Lists
  BY <1>2, <1>3, <1>4, <1>5, <1>6, <1>7, <1>8 DEF Pass, Lists
<1> QED BY <1>1, <1>9 DEF Lists

(* What an acknowledgement puts into the inventory.                        *)
LEMMA AckLists ==
  ASSUME TypeOK, StrategyTask(HandleExecutionReport)
  PROVE  /\ Head(execution_report) \in ExecutionAck
         /\ ToSet(execution_report) = {Head(execution_report)} \cup ToSet(execution_report')
         /\ UNCHANGED <<execution_broker, taken, control_receiver, watch_inventory>>
         /\ watching_notifier' = Append(watching_notifier, Head(execution_report))
         /\ \/ /\ Opens(Head(execution_report))
               /\ ToSet(glb_inventory') =
                     ToSet(glb_inventory) \cup {NewPosition(Head(execution_report))}
            \/ ~ Opens(Head(execution_report)) /\ UNCHANGED glb_inventory
<1> DEFINE ack == Head(execution_report)
<1>1. /\ execution_report # <<>> /\ execution_report' = Tail(execution_report)
      /\ UNCHANGED <<execution_broker, taken, control_receiver, watch_inventory>>
      /\ watching_notifier' = Append(watching_notifier, ack)
  BY DEF StrategyTask, HandleExecutionReport, BuySucceeded, BuyFailed, SellSucceeded,
         SellFailed, ReceiveAck, Notify, executorVars, watcherVars
<1>2. ack \in ExecutionAck /\ ToSet(execution_report) = {ack} \cup ToSet(execution_report')
  BY <1>1, TailFacts DEF TypeOK, QueuesTypeOK
<1>3. \/ Opens(ack) /\ glb_inventory' = Append(glb_inventory, NewPosition(ack))
      \/ ~ Opens(ack) /\ UNCHANGED glb_inventory
  BY DEF StrategyTask, HandleExecutionReport, BuySucceeded, BuyFailed, SellSucceeded,
         SellFailed, Received, Opens
<1> HIDE DEF ack
<1>4. glb_inventory' = Append(glb_inventory, NewPosition(ack)) =>
         ToSet(glb_inventory') = ToSet(glb_inventory) \cup {NewPosition(ack)}
  BY <1>2, BuiltRecords, AppendFacts DEF TypeOK, StrategyTypeOK
<1> QED BY <1>1, <1>2, <1>3, <1>4 DEF ack

(* Receiving a block makes every position older and nothing else.          *)
LEMMA BlockLists ==
  ASSUME TypeOK, StrategyTask(ReceiveBlock)
  PROVE  /\ UNCHANGED <<execution_broker, execution_report, taken, control_receiver,
                        watching_notifier, watch_inventory>>
         /\ DOMAIN glb_inventory' = DOMAIN glb_inventory
         /\ \A i \in DOMAIN glb_inventory :
               /\ glb_inventory'[i].pair = glb_inventory[i].pair
               /\ glb_inventory'[i].is_paper = glb_inventory[i].is_paper
<1>1. \A i \in DOMAIN glb_inventory : glb_inventory[i] \in Position
  BY ElementOfSeq, LenProperties DEF TypeOK, StrategyTypeOK
<1>2. /\ DOMAIN glb_inventory' = DOMAIN glb_inventory
      /\ \A i \in DOMAIN glb_inventory :
            glb_inventory'[i] = [glb_inventory[i] EXCEPT !.age = Older(@, MaxPositionAge)]
  BY DEF StrategyTask, ReceiveBlock
<1>3. UNCHANGED <<execution_broker, execution_report, taken, control_receiver,
                  watching_notifier, watch_inventory>>
  BY DEF StrategyTask, ReceiveBlock, executorVars, watcherVars
<1> QED BY <1>1, <1>2, <1>3 DEF Position

(* The executor answers an order with its pair, direction and paper flag,  *)
(* and loses no sell.                                                      *)
LEMMA ExecutorLists ==
  ASSUME TypeOK, ExecutorProcess(ExecutorNext)
  PROVE  /\ UNCHANGED <<glb_inventory, control_receiver, watching_notifier, watch_inventory>>
         /\ \A m \in Orders' \cup Acks' : \E o \in Orders \cup Acks :
               m.pair = o.pair /\ m.is_buy = o.is_buy /\ m.is_paper = o.is_paper
         /\ \A o \in Sells(Orders \cup Acks) : \E m \in Sells(Orders' \cup Acks') :
               m.pair = o.pair
<1>1. UNCHANGED <<glb_inventory, control_receiver, watching_notifier, watch_inventory>>
  BY DEF ExecutorProcess, ExecutorNext, Take, Drop, Receive, Settle, Answer, Vanish, queues,
         strategyVars, watcherVars
<1>2. CASE Take \/ Drop
  <2> DEFINE order == Head(execution_broker)
  <2>1. /\ execution_broker # <<>> /\ execution_broker' = Tail(execution_broker)
        /\ UNCHANGED execution_report
    BY <1>2 DEF Take, Drop, Receive
  <2>2. ToSet(execution_broker) = {order} \cup ToSet(execution_broker')
    BY <2>1, TailFacts DEF TypeOK, QueuesTypeOK
  <2>3. \/ taken' = taken \cup {[n |-> counter + 1, order |-> order]}
        \/ taken' = taken /\ order.is_buy
    BY <1>2 DEF Take, Drop
  <2> HIDE DEF order
  <2>4. \/ Orders' = Orders
        \/ order.is_buy /\ Orders' \subseteq Orders /\ Orders \subseteq Orders' \cup {order}
    <3>1. CASE taken' = taken \cup {[n |-> counter + 1, order |-> order]}
      <4> DEFINE ticket == [n |-> counter + 1, order |-> order]
      <4>1. ticket.order = order /\ taken' = taken \cup {ticket}
        BY <3>1
      <4> HIDE DEF ticket
      <4>2. {t.order : t \in taken'} = {t.order : t \in taken} \cup {order}
        BY <4>1
      <4> QED BY <2>2, <4>2 DEF Orders
    <3>2. CASE taken' = taken /\ order.is_buy
      BY <2>2, <3>2 DEF Orders
    <3> QED BY <2>3, <3>1, <3>2
  <2>5. Acks' = Acks
    BY <2>1 DEF Acks
  <2> QED BY <1>1, <2>4, <2>5 DEF Sells
<1>3. ASSUME NEW t \in taken, Answer(t) \/ Vanish(t)
      PROVE  /\ \A m \in Orders' \cup Acks' : \E o \in Orders \cup Acks :
                   m.pair = o.pair /\ m.is_buy = o.is_buy /\ m.is_paper = o.is_paper
             /\ \A o \in Sells(Orders \cup Acks) : \E m \in Sells(Orders' \cup Acks') :
                   m.pair = o.pair
  <2>1. taken' = taken \ {t} /\ UNCHANGED execution_broker
    BY <1>3 DEF Answer, Vanish, queues
  <2>2. /\ Orders' \subseteq Orders /\ Orders \subseteq Orders' \cup {t.order}
        /\ t.order \in Orders
    BY <2>1 DEF Orders
  <2>3. t.order \in ExecutionOrder
    BY DEF TypeOK, ExecutorTypeOK
  <2>4. CASE Answer(t)
    <3>1. PICK ack \in ExecutionAck : /\ execution_report' = Append(execution_report, ack)
                                      /\ ack.pair = t.order.pair
                                      /\ ack.is_buy = t.order.is_buy
                                      /\ ack.is_paper = t.order.is_paper
      BY <2>3, <2>4, BrokersAssumption DEF Answer, ExecutionAck, ExecutionOrder, TxStatus
    <3>2. Acks' = Acks \cup {ack}
      BY <3>1, AppendFacts DEF Acks, TypeOK, QueuesTypeOK
    <3> QED BY <2>2, <3>1, <3>2 DEF Sells
  <2>5. CASE Vanish(t)
    <3>1. t.order.is_buy /\ Acks' = Acks
      BY <2>5 DEF Vanish, Acks, queues
    <3> QED BY <2>2, <3>1 DEF Sells
  <2> QED BY <1>3, <2>4, <2>5
<1> QED BY <1>1, <1>2, <1>3 DEF ExecutorProcess, ExecutorNext, Settle

(* The other tasks touch neither orders, acknowledgements nor positions.   *)
LEMMA QuietLists ==
  ASSUME \/ OtherTask(NewHead) \/ OtherTask(ListenReport)
         \/ OtherTask(TakeReport) /\ UNCHANGED watcherVars
         \/ UNCHANGED vars
  PROVE  UNCHANGED <<execution_broker, execution_report, taken, control_receiver, glb_inventory>>
BY DEF OtherTask, NewHead, ListenReport, TakeReport, vars, queues, strategyVars, executorVars

\* Everything that is or will be a trade is on paper.
PaperInv ==
  /\ TypeOK
  /\ \A m \in Orders \cup Acks \cup ToSet(glb_inventory) : m.is_paper
  /\ \A positions \in ToSet(control_receiver) : \A m \in ToSet(positions) : m.is_paper

\* What a dry run takes: that pairs are inspected more than once, or line 284
\* of main.py sends them to be bought for real, and that no real position is
\* restored.  main.py never restores a position on paper, so that this means a
\* database without open positions.
DryRun ==
  /\ RUN_MODE = "PAPER_TRADE"
  /\ MAX_INSPECT_ATTEMPTS > 1
  /\ \A i \in DOMAIN PendingPositions : PendingPositions[i].is_paper

LEMMA PaperInit ==
  ASSUME DryRun, Init
  PROVE  PaperInv
<1>1. /\ execution_broker = <<>> /\ execution_report = <<>> /\ glb_inventory = <<>>
      /\ taken = {}
      /\ control_receiver \in {<<>>, <<PendingPositions>>}
  BY DEF Init, StrategyInit, ExecutorInit
<1>2. \A positions \in ToSet(control_receiver) : positions = PendingPositions
  BY <1>1 DEF ToSet
<1>3. \A m \in ToSet(PendingPositions) : m.is_paper
  BY DEF DryRun, ToSet
<1>4. Orders \cup Acks \cup ToSet(glb_inventory) = {}
  BY <1>1 DEF Orders, Acks, ToSet
<1> QED BY <1>2, <1>3, <1>4, TypeInit DEF PaperInv

LEMMA PaperStep ==
  ASSUME DryRun, PaperInv, [Next]_vars
  PROVE  PaperInv'
<1>1. TypeOK /\ TypeOK'
  BY TypeNext DEF PaperInv
<1>2. /\ execution_broker \in Seq(ExecutionOrder)
      /\ \A m \in Orders : m.is_paper
      /\ \A m \in Acks : m.is_paper
      /\ \A m \in ToSet(glb_inventory) : m.is_paper
      /\ \A positions \in ToSet(control_receiver) : \A m \in ToSet(positions) : m.is_paper
  BY <1>1 DEF PaperInv, TypeOK, QueuesTypeOK
<1> SUFFICES /\ \A m \in Orders' \cup Acks' : m.is_paper
             /\ \A m \in ToSet(glb_inventory') : m.is_paper
             /\ \A positions \in ToSet(control_receiver') :
                   \A m \in ToSet(positions) : m.is_paper
  BY <1>1 DEF PaperInv
<1>3. CASE StrategyTask(Pass)
  <2>1. Acks' = Acks /\ UNCHANGED <<taken, control_receiver>>
    BY <1>1, <1>3, PassLists DEF Acks
  <2>2. CASE UNCHANGED <<execution_broker, glb_inventory>>
    BY <1>2, <2>1, <2>2 DEF Orders
  <2>3. ASSUME NEW order \in ExecutionOrder, order.is_paper,
               execution_broker' = Append(execution_broker, order)
        PROVE  \A m \in Orders' : m.is_paper
    <3>1. Orders' = Orders \cup {order}
      BY <1>2, <2>1, <2>3, AppendFacts DEF Orders
    <3> QED BY <1>2, <2>3, <3>1
  <2>4. ASSUME NEW position \in ToSet(glb_inventory), position \in Position,
               execution_broker' = Append(execution_broker, SellOrder(position))
        PROVE  \A m \in Orders' : m.is_paper
    <3>1. SellOrder(position) \in ExecutionOrder /\ SellOrder(position).is_paper
      BY <1>2, <2>4, BuiltRecords DEF SellOrder
    <3> QED BY <2>3, <2>4, <3>1
  <2>5. ASSUME NEW pair \in Pairs,
               execution_broker' = Append(execution_broker, BuyOrder(pair, TRUE))
        PROVE  \A m \in Orders' : m.is_paper
    <3>1. BuyOrder(pair, TRUE) \in ExecutionOrder /\ BuyOrder(pair, TRUE).is_paper
      BY BuiltRecords DEF BuyOrder
    <3> QED BY <2>3, <2>5, <3>1
  <2>6. \A is_paper \in BOOLEAN :
           (MAX_INSPECT_ATTEMPTS > 1 => (is_paper <=> RUN_MODE = "PAPER_TRADE"))
              => is_paper = TRUE
    BY DEF DryRun
  <2> QED BY <1>1, <1>2, <1>3, <2>1, <2>2, <2>4, <2>5, <2>6, PassLists
<1>4. CASE StrategyTask(HandleExecutionReport)
  <2>1. Orders' = Orders /\ Acks' \subseteq Acks /\ UNCHANGED control_receiver
    BY <1>1, <1>4, AckLists DEF Orders, Acks
  <2>2. NewPosition(Head(execution_report)).is_paper
    <3>1. Head(execution_report) \in Acks
      BY <1>1, <1>4, AckLists DEF Acks
    <3> QED BY <1>2, <3>1 DEF NewPosition
  <2> QED BY <1>1, <1>2, <1>4, <2>1, <2>2, AckLists
<1>5. CASE StrategyTask(ReceiveBlock)
  <2>1. Orders' = Orders /\ Acks' = Acks /\ UNCHANGED control_receiver
    BY <1>1, <1>5, BlockLists DEF Orders, Acks
  <2>2. \A m \in ToSet(glb_inventory') : m.is_paper
    BY <1>1, <1>2, <1>5, BlockLists DEF ToSet
  <2> QED BY <1>2, <2>1, <2>2
<1>6. CASE ControlTask
  <2> DEFINE positions == Head(control_receiver)
  <2>1. /\ control_receiver # <<>> /\ control_receiver' = Tail(control_receiver)
        /\ glb_inventory' = glb_inventory \o positions
        /\ UNCHANGED <<execution_broker, execution_report, taken>>
    BY <1>6 DEF ControlTask, HandleControlOrder, executorVars
  <2>2. /\ positions \in Seq(Position)
        /\ ToSet(control_receiver) = {positions} \cup ToSet(control_receiver')
    BY <1>1, <2>1, TailFacts DEF TypeOK, QueuesTypeOK
  <2> HIDE DEF positions
  <2>3. ToSet(glb_inventory') = ToSet(glb_inventory) \cup ToSet(positions)
    BY <1>1, <2>1, <2>2, ConcatPairs DEF TypeOK, StrategyTypeOK
  <2>4. Orders' = Orders /\ Acks' = Acks
    BY <2>1 DEF Orders, Acks
  <2> QED BY <1>2, <2>2, <2>3, <2>4
<1>7. CASE ExecutorProcess(ExecutorNext)
  <2>1. \A m \in Orders' \cup Acks' : \E o \in Orders \cup Acks : m.is_paper = o.is_paper
    BY <1>1, <1>7, ExecutorLists
  <2> QED BY <1>1, <1>2, <1>7, <2>1, ExecutorLists
<1>8. CASE \/ OtherTask(NewHead) \/ OtherTask(ListenReport)
           \/ OtherTask(TakeReport) /\ UNCHANGED watcherVars
           \/ UNCHANGED vars
  BY <1>2, <1>8, QuietLists DEF Orders, Acks
<1> QED BY <1>3, <1>4, <1>5, <1>6, <1>7, <1>8 DEF Next

(***************************************************************************)
(* A dry run trades nothing but on paper, from the first order to the last *)
(* sell, if pairs are inspected more than once and no real position is     *)
(* restored (main.py:137, 193, 249, 389).  With one inspection it does not *)
(* hold: main.py:284 leaves the flag out.                                  *)
(***************************************************************************)
THEOREM DryRunIsOnPaper == DryRun => (Spec => []DryRunTradesOnPaper)
<1> SUFFICES ASSUME DryRun PROVE Spec => []DryRunTradesOnPaper
  OBVIOUS
<1>1. Init => PaperInv
  BY PaperInit
<1>2. PaperInv /\ [Next]_vars => PaperInv'
  BY PaperStep
<1>3. PaperInv => DryRunTradesOnPaper
  BY DEF PaperInv, DryRunTradesOnPaper
<1> QED BY <1>1, <1>2, <1>3, PTL DEF Spec

-----------------------------------------------------------------------------
(* What the watcher tracks.                                                *)

\* WillTrack(p) for any notices and tracked pairs.
Tracks(notices, tracked, p) ==
  \/ \E i \in DOMAIN notices :
        /\ notices[i].pair = p
        /\ notices[i].is_buy
        /\ notices[i].tx_status = "SUCCESS"
        /\ \A j \in DOMAIN notices : j > i => notices[j].pair # p
  \/ /\ p \in tracked
     /\ \A notice \in ToSet(notices) : notice.pair # p

LEMMA TracksDef ==
  /\ \A p : WillTrack(p) <=> Tracks(watching_notifier, watch_inventory, p)
  /\ \A p : WillTrack(p)' <=> Tracks(watching_notifier', watch_inventory', p)
BY DEF WillTrack, Tracks

(* A new notice decides about its pair, and about no other.                *)
LEMMA TracksAppend ==
  ASSUME NEW s \in Seq(ExecutionAck), NEW e \in ExecutionAck, NEW W, NEW p
  PROVE  Tracks(Append(s, e), W, p) <=>
            IF e.pair = p THEN Opens(e) ELSE Tracks(s, W, p)
<1> DEFINE n == Len(s)
           r == Append(s, e)
<1>1. /\ n \in Nat
      /\ DOMAIN s = 1 .. n /\ DOMAIN r = 1 .. n + 1
      /\ \A i \in 1 .. n : r[i] = s[i]
      /\ r[n + 1] = e
  <2>1. /\ r \in Seq(ExecutionAck) /\ Len(r) = n + 1
        /\ \A i \in 1 .. n : r[i] = s[i]
        /\ r[n + 1] = e
    BY AppendProperties
  <2> QED BY <2>1, LenProperties
<1>2. ToSet(r) = ToSet(s) \cup {e}
  BY AppendFacts
<1> HIDE DEF n, r
<1>3. /\ DOMAIN r = DOMAIN s \cup {n + 1}
      /\ n + 1 \notin DOMAIN s
      /\ \A i \in DOMAIN s : n + 1 > i
      /\ \A j \in DOMAIN r : ~ j > n + 1
  BY <1>1
<1>4. CASE e.pair = p
  <2>1. Tracks(r, W, p) => Opens(e)
    <3> SUFFICES ASSUME NEW i \in DOMAIN r, r[i].pair = p, r[i].is_buy,
                        r[i].tx_status = "SUCCESS",
                        \A j \in DOMAIN r : j > i => r[j].pair # p
                 PROVE  Opens(e)
      BY <1>2, <1>4 DEF Tracks
    <3>1. i = n + 1
      BY <1>1, <1>3, <1>4
    <3> QED BY <1>1, <3>1 DEF Opens
  <2>2. Opens(e) => Tracks(r, W, p)
    BY <1>1, <1>3, <1>4 DEF Tracks, Opens
  <2> QED BY <1>4, <2>1, <2>2 DEF r
<1>5. CASE e.pair # p
  <2>1. Tracks(r, W, p) => Tracks(s, W, p)
    <3>1. ASSUME NEW i \in DOMAIN r, r[i].pair = p, r[i].is_buy,
                 r[i].tx_status = "SUCCESS",
                 \A j \in DOMAIN r : j > i => r[j].pair # p
          PROVE  Tracks(s, W, p)
      <4>1. i \in DOMAIN s /\ r[i] = s[i]
        BY <1>1, <1>3, <1>5, <3>1
      <4>2. \A j \in DOMAIN s : j > i => s[j].pair # p
        BY <1>1, <1>3, <3>1
      <4> QED BY <3>1, <4>1, <4>2 DEF Tracks
    <3>2. ASSUME p \in W, \A notice \in ToSet(r) : notice.pair # p
          PROVE  Tracks(s, W, p)
      BY <1>2, <3>2 DEF Tracks
    <3> QED BY <3>1, <3>2 DEF Tracks
  <2>2. Tracks(s, W, p) => Tracks(r, W, p)
    <3>1. ASSUME NEW i \in DOMAIN s, s[i].pair = p, s[i].is_buy,
                 s[i].tx_status = "SUCCESS",
                 \A j \in DOMAIN s : j > i => s[j].pair # p
          PROVE  Tracks(r, W, p)
      <4>1. i \in DOMAIN r /\ r[i] = s[i]
        BY <1>1, <1>3
      <4>2. \A j \in DOMAIN r : j > i => r[j].pair # p
        BY <1>1, <1>3, <1>5, <3>1
      <4> QED BY <3>1, <4>1, <4>2 DEF Tracks
    <3>2. ASSUME p \in W, \A notice \in ToSet(s) : notice.pair # p
          PROVE  Tracks(r, W, p)
      BY <1>2, <1>5, <3>2 DEF Tracks
    <3> QED BY <3>1, <3>2 DEF Tracks
  <2> QED BY <1>5, <2>1, <2>2 DEF r
<1> QED BY <1>4, <1>5

(* Reading a notice does what the notice says.                             *)
LEMMA TracksTail ==
  ASSUME NEW s \in Seq(ExecutionAck), s # <<>>, NEW W, NEW V, NEW p
  PROVE  /\ (Opens(Head(s)) => V \subseteq W \cup {Head(s).pair})
            /\ (~ Opens(Head(s)) => V \subseteq W \ {Head(s).pair})
               => (Tracks(Tail(s), V, p) => Tracks(s, W, p))
         /\ (Opens(Head(s)) => W \cup {Head(s).pair} \subseteq V)
            /\ (~ Opens(Head(s)) => W \ {Head(s).pair} \subseteq V)
               => (Tracks(s, W, p) => Tracks(Tail(s), V, p))
<1> DEFINE n == Len(s)
           r == Tail(s)
           e == Head(s)
<1>1. /\ n \in Nat \ {0}
      /\ DOMAIN s = 1 .. n /\ DOMAIN r = 1 .. n - 1
      /\ \A i \in 1 .. n - 1 : r[i] = s[i + 1]
      /\ e = s[1]
  <2>1. /\ r \in Seq(ExecutionAck) /\ Len(r) = n - 1
        /\ \A i \in 1 .. Len(r) : r[i] = s[i + 1]
    BY HeadTailProperties
  <2>2. n \in Nat \ {0}
    BY EmptySeq
  <2>3. e = s[1]
    OBVIOUS
  <2> QED BY <2>1, <2>2, <2>3, LenProperties
<1>2. ToSet(s) = ToSet(r) \cup {e}
  BY TailFacts
<1> HIDE DEF n, r, e
<1>3. /\ 1 \in DOMAIN s
      /\ \A i \in DOMAIN r : i + 1 \in DOMAIN s /\ i + 1 > 1 /\ r[i] = s[i + 1]
      /\ \A i \in DOMAIN s : i = 1 \/ (i - 1 \in DOMAIN r /\ r[i - 1] = s[i])
  <2>1. \A i \in DOMAIN s : i # 1 => i - 1 \in DOMAIN r /\ (i - 1) + 1 = i
    BY <1>1
  <2> QED BY <1>1, <2>1
\* The last notice about p in the tail is the last one in the whole.
<1>4. \A i \in DOMAIN r : (\A j \in DOMAIN r : j > i => r[j].pair # p)
                             <=> (\A j \in DOMAIN s : j > i + 1 => s[j].pair # p)
  <2> TAKE i \in DOMAIN r
  <2>1. ASSUME \A j \in DOMAIN r : j > i => r[j].pair # p,
               NEW j \in DOMAIN s, j > i + 1
        PROVE  s[j].pair # p
    <3>1. j - 1 \in DOMAIN r /\ r[j - 1] = s[j] /\ j - 1 > i
      BY <1>1, <1>3, <2>1
    <3> QED BY <2>1, <3>1
  <2>2. ASSUME \A j \in DOMAIN s : j > i + 1 => s[j].pair # p,
               NEW j \in DOMAIN r, j > i
        PROVE  r[j].pair # p
    <3>1. j + 1 \in DOMAIN s /\ j + 1 > i + 1 /\ r[j] = s[j + 1]
      BY <1>1, <1>3, <2>2
    <3> QED BY <2>2, <3>1
  <2> QED BY <2>1, <2>2
<1>5. ASSUME Opens(e) => V \subseteq W \cup {e.pair}, ~ Opens(e) => V \subseteq W \ {e.pair},
             Tracks(r, V, p)
      PROVE  Tracks(s, W, p)
  <2>1. ASSUME NEW i \in DOMAIN r, r[i].pair = p, r[i].is_buy,
               r[i].tx_status = "SUCCESS",
               \A j \in DOMAIN r : j > i => r[j].pair # p
        PROVE  Tracks(s, W, p)
    <3>1. /\ i + 1 \in DOMAIN s /\ s[i + 1] = r[i]
          /\ \A j \in DOMAIN s : j > i + 1 => s[j].pair # p
      BY <1>3, <1>4, <2>1
    <3> QED BY <2>1, <3>1 DEF Tracks
  <2>2. ASSUME p \in V, \A notice \in ToSet(r) : notice.pair # p
        PROVE  Tracks(s, W, p)
    <3>1. CASE e.pair = p
      <4>1. Opens(e)
        BY <1>5, <2>2, <3>1
      <4>2. \A j \in DOMAIN s : j > 1 => s[j].pair # p
        <5>1. \A j \in DOMAIN r : r[j].pair # p
          BY <2>2 DEF ToSet
        <5>2. \A j \in DOMAIN s : j > 1 => j # 1
          BY <1>1
        <5> QED BY <1>3, <5>1, <5>2
      <4> QED BY <1>1, <1>3, <3>1, <4>1, <4>2 DEF Tracks, Opens
    <3>2. CASE e.pair # p
      <4>1. p \in W
        BY <1>5, <2>2, <3>2
      <4> QED BY <1>2, <2>2, <3>2, <4>1 DEF Tracks
    <3> QED BY <3>1, <3>2
  <2> QED BY <1>5, <2>1, <2>2 DEF Tracks
<1>6. ASSUME Opens(e) => W \cup {e.pair} \subseteq V, ~ Opens(e) => W \ {e.pair} \subseteq V,
             Tracks(s, W, p)
      PROVE  Tracks(r, V, p)
  <2>1. ASSUME NEW i \in DOMAIN s, s[i].pair = p, s[i].is_buy,
               s[i].tx_status = "SUCCESS",
               \A j \in DOMAIN s : j > i => s[j].pair # p
        PROVE  Tracks(r, V, p)
    <3>1. CASE i = 1
      <4>1. Opens(e) /\ e.pair = p
        BY <1>1, <2>1, <3>1 DEF Opens
      <4>2. \A j \in DOMAIN r : r[j].pair # p
        BY <1>3, <2>1, <3>1
      <4> QED BY <1>6, <4>1, <4>2 DEF Tracks, ToSet
    <3>2. CASE i # 1
      <4>1. i - 1 \in DOMAIN r /\ r[i - 1] = s[i] /\ (i - 1) + 1 = i
        BY <1>1, <1>3, <3>2
      <4>2. \A j \in DOMAIN r : j > i - 1 => r[j].pair # p
        <5> DEFINE k == i - 1
        <5>1. k \in DOMAIN r /\ k + 1 = i
          BY <4>1
        <5> HIDE DEF k
        <5>2. \A j \in DOMAIN r : j > k => r[j].pair # p
          BY <1>4, <2>1, <5>1
        <5> QED BY <5>2 DEF k
      <4> QED BY <2>1, <4>1, <4>2 DEF Tracks
    <3> QED BY <3>1, <3>2
  <2>2. ASSUME p \in W, \A notice \in ToSet(s) : notice.pair # p
        PROVE  Tracks(r, V, p)
    <3>1. e.pair # p /\ \A notice \in ToSet(r) : notice.pair # p
      BY <1>2, <2>2
    <3> QED BY <1>6, <2>2, <3>1 DEF Tracks
  <2> QED BY <1>6, <2>1, <2>2 DEF Tracks
<1> QED BY <1>5, <1>6 DEF r, e

(* Steps that change neither what is held nor what will be tracked.        *)
LEMMA HeldKept ==
  ASSUME TypeOK, NEW p,
         \/ StrategyTask(Pass) \/ StrategyTask(ReceiveBlock)
         \/ ExecutorProcess(ExecutorNext)
         \/ OtherTask(NewHead) \/ OtherTask(ListenReport)
         \/ OtherTask(TakeReport) /\ UNCHANGED watcherVars
         \/ UNCHANGED vars
  PROVE  Held(p)' <=> Held(p)
<1> DEFINE Positions == \E position \in ToSet(glb_inventory) : position.pair = p
           Sold == \E m \in Sells(Orders \cup Acks) : m.pair = p
<1>1. /\ Held(p) <=> Positions \/ Sold
      /\ Held(p)' <=> Positions' \/ Sold'
  BY DEF Held
<1>2. CASE StrategyTask(Pass)
  <2>1. Acks' = Acks /\ UNCHANGED taken
    BY <1>2, PassLists DEF Acks
  <2>2. CASE UNCHANGED <<execution_broker, glb_inventory>>
    BY <2>1, <2>2 DEF Held, Orders, Acks, Sells
  <2>3. ASSUME NEW order \in ExecutionOrder,
               execution_broker' = Append(execution_broker, order)
        PROVE  Orders' = Orders \cup {order}
    BY <2>1, <2>3, AppendFacts DEF Orders, TypeOK, QueuesTypeOK
  <2>4. ASSUME NEW position \in ToSet(glb_inventory), position \in Position,
               execution_broker' = Append(execution_broker, SellOrder(position)),
               \A e \in ToSet(glb_inventory) : e # position => e \in ToSet(glb_inventory'),
               ToSet(glb_inventory') \subseteq ToSet(glb_inventory)
        PROVE  Held(p)' <=> Held(p)
    <3> DEFINE order == SellOrder(position)
    <3>1. order \in ExecutionOrder /\ ~ order.is_buy /\ order.pair = position.pair
      BY <2>4, BuiltRecords DEF SellOrder
    <3>2. Orders' = Orders \cup {order}
      BY <2>3, <2>4, <3>1
    <3> HIDE DEF order
    <3>3. Sells(Orders' \cup Acks') = Sells(Orders \cup Acks) \cup {order}
      BY <2>1, <3>1, <3>2 DEF Sells
    <3>4. Sold' <=> Sold \/ position.pair = p
      BY <3>1, <3>3
    <3>5. Positions' => Positions
      BY <2>4
    <3>6. Positions => Positions' \/ position.pair = p
      BY <2>4
    <3>7. position.pair = p => Positions
      OBVIOUS
    <3> QED BY <1>1, <3>4, <3>5, <3>6, <3>7
  <2>5. ASSUME NEW pair \in Pairs, NEW is_paper \in BOOLEAN, UNCHANGED glb_inventory,
               execution_broker' = Append(execution_broker, BuyOrder(pair, is_paper))
        PROVE  Held(p)' <=> Held(p)
    <3> DEFINE order == BuyOrder(pair, is_paper)
    <3>1. order \in ExecutionOrder /\ order.is_buy
      BY BuiltRecords DEF BuyOrder
    <3>2. Orders' = Orders \cup {order}
      BY <2>3, <2>5, <3>1
    <3> HIDE DEF order
    <3>3. Sells(Orders' \cup Acks') = Sells(Orders \cup Acks)
      BY <2>1, <3>1, <3>2 DEF Sells
    <3> QED BY <2>5, <3>3 DEF Held
  <2> QED BY <1>2, <2>2, <2>4, <2>5, PassLists
<1>3. CASE StrategyTask(ReceiveBlock)
  <2>1. Orders' = Orders /\ Acks' = Acks
    BY <1>3, BlockLists DEF Orders, Acks
  <2>2. Positions' <=> Positions
    BY <1>3, BlockLists DEF ToSet
  <2> QED BY <1>1, <2>1, <2>2
<1>4. CASE ExecutorProcess(ExecutorNext)
  <2>1. UNCHANGED glb_inventory
    BY <1>4, ExecutorLists
  <2>2. Sold => Sold'
    BY <1>4, ExecutorLists
  <2>3. Sold' => Sold
    <3> SUFFICES ASSUME NEW m \in Sells(Orders' \cup Acks'), m.pair = p
                 PROVE  Sold
      OBVIOUS
    <3>1. m \in Orders' \cup Acks' /\ ~ m.is_buy
      BY DEF Sells
    <3>2. PICK o \in Orders \cup Acks : m.pair = o.pair /\ m.is_buy = o.is_buy
      BY <1>4, <3>1, ExecutorLists
    <3>3. o \in Sells(Orders \cup Acks)
      BY <3>1, <3>2 DEF Sells
    <3> QED BY <3>2, <3>3
  <2> QED BY <1>1, <2>1, <2>2, <2>3
<1>5. CASE \/ OtherTask(NewHead) \/ OtherTask(ListenReport)
           \/ OtherTask(TakeReport) /\ UNCHANGED watcherVars
           \/ UNCHANGED vars
  BY <1>5, QuietLists DEF Held, Orders, Acks
<1> QED BY <1>2, <1>3, <1>4, <1>5

(* An acknowledgement is of consequence for its own pair only.             *)
LEMMA HeldAck ==
  ASSUME TypeOK, StrategyTask(HandleExecutionReport)
  PROVE  /\ \A p : p # Head(execution_report).pair => (Held(p)' <=> Held(p))
         /\ Opens(Head(execution_report)) =>
               \A p : p = Head(execution_report).pair => Held(p)'
<1> DEFINE ack == Head(execution_report)
<1>1. /\ ack \in ExecutionAck
      /\ Acks = {ack} \cup Acks' /\ Orders' = Orders
      /\ \/ Opens(ack) /\ ToSet(glb_inventory') = ToSet(glb_inventory) \cup {NewPosition(ack)}
         \/ ~ Opens(ack) /\ UNCHANGED glb_inventory
  BY AckLists DEF Acks, Orders
<1> HIDE DEF ack
<1>2. NewPosition(ack).pair = ack.pair
  BY DEF NewPosition
<1>3. ASSUME NEW p, p # ack.pair
      PROVE  Held(p)' <=> Held(p)
  <2>1. (\E position \in ToSet(glb_inventory') : position.pair = p)
           <=> (\E position \in ToSet(glb_inventory) : position.pair = p)
    BY <1>1, <1>2, <1>3
  <2>2. (\E m \in Sells(Orders' \cup Acks') : m.pair = p)
           <=> (\E m \in Sells(Orders \cup Acks) : m.pair = p)
    BY <1>1, <1>3 DEF Sells
  <2> QED BY <2>1, <2>2 DEF Held
<1>4. ASSUME Opens(ack), NEW p, p = ack.pair
      PROVE  Held(p)'
  <2>1. NewPosition(ack) \in ToSet(glb_inventory') /\ NewPosition(ack).pair = p
    BY <1>1, <1>2, <1>4
  <2> QED BY <2>1 DEF Held
<1>5. \A p : p # ack.pair => (Held(p)' <=> Held(p))
  BY <1>3
<1> QED BY <1>4, <1>5 DEF ack

(* Restored positions are held from now on.                                *)
LEMMA HeldControl ==
  ASSUME PlaceInv, ControlTask, control_receiver \in {<<>>, <<PendingPositions>>}, NEW p
  PROVE  /\ Held(p) => Held(p)'
         /\ Held(p)' => Held(p) \/ p \in PairsIn(PendingPositions)
<1>1. /\ control_receiver = <<PendingPositions>>
      /\ glb_inventory' = glb_inventory \o Head(control_receiver)
      /\ UNCHANGED <<execution_broker, execution_report, taken>>
  BY DEF ControlTask, HandleControlOrder, executorVars
<1>2. Head(<<PendingPositions>>) = PendingPositions
  OBVIOUS
<1>3. ToSet(glb_inventory') = ToSet(glb_inventory) \cup ToSet(PendingPositions)
  BY <1>1, <1>2, RestoredDistinct, ConcatPairs DEF PlaceInv, TypeOK, StrategyTypeOK
<1>4. Orders' = Orders /\ Acks' = Acks
  BY <1>1 DEF Orders, Acks
<1>5. \A position \in ToSet(PendingPositions) : position.pair \in PairsIn(PendingPositions)
  BY DEF PairsIn, ToSet
<1> QED BY <1>3, <1>4, <1>5 DEF Held

(* The steps that neither acknowledge nor read an acknowledgement leave    *)
(* the notices and the tracked pairs alone.                                *)
LEMMA TrackKept ==
  ASSUME TypeOK, NEW p,
         \/ StrategyTask(Pass) \/ StrategyTask(ReceiveBlock) \/ ControlTask
         \/ ExecutorProcess(ExecutorNext) \/ OtherTask(NewHead)
         \/ OtherTask(TakeReport) /\ UNCHANGED watcherVars
         \/ UNCHANGED vars
  PROVE  WillTrack(p)' <=> WillTrack(p)
<1>1. CASE ControlTask \/ OtherTask(NewHead)
  BY <1>1 DEF ControlTask, HandleControlOrder, OtherTask, NewHead, watcherVars, WillTrack
<1>2. CASE OtherTask(TakeReport) /\ UNCHANGED watcherVars
  BY <1>2 DEF OtherTask, TakeReport, watcherVars, WillTrack
<1>3. CASE UNCHANGED vars
  BY <1>3 DEF vars, queues, watcherVars, WillTrack
<1>4. CASE StrategyTask(Pass) \/ StrategyTask(ReceiveBlock) \/ ExecutorProcess(ExecutorNext)
  <2>1. UNCHANGED <<watching_notifier, watch_inventory>>
    BY <1>4, PassLists, BlockLists, ExecutorLists
  <2> QED BY <2>1 DEF WillTrack
<1> QED BY <1>1, <1>2, <1>3, <1>4

LEMMA TrackAck ==
  ASSUME TypeOK, StrategyTask(HandleExecutionReport), NEW p
  PROVE  WillTrack(p)' <=> IF Head(execution_report).pair = p
                           THEN Opens(Head(execution_report))
                           ELSE WillTrack(p)
<1> DEFINE ack == Head(execution_report)
<1>1. /\ ack \in ExecutionAck /\ UNCHANGED watch_inventory
      /\ watching_notifier' = Append(watching_notifier, ack)
      /\ watching_notifier \in Seq(ExecutionAck)
  BY AckLists DEF TypeOK, QueuesTypeOK
<1> HIDE DEF ack
<1>2. Tracks(Append(watching_notifier, ack), watch_inventory, p) <=>
         IF ack.pair = p THEN Opens(ack) ELSE Tracks(watching_notifier, watch_inventory, p)
  BY <1>1, TracksAppend
<1> QED BY <1>1, <1>2, TracksDef DEF ack

LEMMA TrackListen ==
  ASSUME TypeOK, OtherTask(ListenReport), NEW p
  PROVE  /\ WillTrack(p)' => WillTrack(p)
         /\ ~ RpcMayFail /\ WillTrack(p) => WillTrack(p)'
<1> DEFINE ack == Head(watching_notifier)
<1>1. /\ watching_notifier # <<>> /\ watching_notifier' = Tail(watching_notifier)
      /\ watching_notifier \in Seq(ExecutionAck)
      /\ IF Opens(ack)
         THEN \/ watch_inventory' = watch_inventory \cup {ack.pair}
              \/ RpcMayFail /\ UNCHANGED watch_inventory
         ELSE watch_inventory' = watch_inventory \ {ack.pair}
  BY DEF OtherTask, ListenReport, TypeOK, QueuesTypeOK
<1> HIDE DEF ack
<1>2. /\ Opens(ack) => watch_inventory' \subseteq watch_inventory \cup {ack.pair}
      /\ ~ Opens(ack) => watch_inventory' \subseteq watch_inventory \ {ack.pair}
      /\ ~ RpcMayFail =>
            /\ Opens(ack) => watch_inventory \cup {ack.pair} \subseteq watch_inventory'
            /\ ~ Opens(ack) => watch_inventory \ {ack.pair} \subseteq watch_inventory'
  BY <1>1
<1>3. /\ Tracks(watching_notifier', watch_inventory', p)
            => Tracks(watching_notifier, watch_inventory, p)
      /\ ~ RpcMayFail /\ Tracks(watching_notifier, watch_inventory, p)
            => Tracks(watching_notifier', watch_inventory', p)
  BY <1>1, <1>2, TracksTail DEF ack
<1> QED BY <1>3, TracksDef

OnlyInv == TypeOK /\ TracksOnlyHeld

LEMMA OnlyInit == Init => OnlyInv
<1> SUFFICES ASSUME Init PROVE OnlyInv
  OBVIOUS
<1>1. watching_notifier = <<>> /\ watch_inventory = {}
  BY DEF Init, WatcherInit
<1>2. \A p : ~ WillTrack(p)
  BY <1>1 DEF WillTrack
<1> QED BY <1>2, TypeInit DEF OnlyInv, TracksOnlyHeld

LEMMA OnlyStep == OnlyInv /\ [Next]_vars => OnlyInv'
<1> SUFFICES ASSUME OnlyInv, [Next]_vars PROVE OnlyInv'
  OBVIOUS
<1>1. TypeOK /\ TypeOK'
  BY TypeNext DEF OnlyInv
<1> SUFFICES ASSUME NEW p \in Pairs PROVE WillTrack(p)' => Held(p)'
  BY <1>1 DEF OnlyInv, TracksOnlyHeld
<1>2. WillTrack(p) => Held(p)
  BY DEF OnlyInv, TracksOnlyHeld
<1>3. CASE \/ StrategyTask(Pass) \/ StrategyTask(ReceiveBlock)
           \/ ExecutorProcess(ExecutorNext) \/ OtherTask(NewHead)
           \/ OtherTask(TakeReport) /\ UNCHANGED watcherVars
           \/ UNCHANGED vars
  <2>1. WillTrack(p)' <=> WillTrack(p)
    BY <1>1, <1>3, TrackKept
  <2>2. Held(p)' <=> Held(p)
    BY <1>1, <1>3, HeldKept
  <2> QED BY <1>2, <2>1, <2>2
<1>4. CASE StrategyTask(HandleExecutionReport)
  BY <1>1, <1>2, <1>4, TrackAck, HeldAck
<1>5. CASE ControlTask
  <2>1. Held(p) => Held(p)'
    <3>1. Head(control_receiver) \in Seq(Position)
      BY <1>1, <1>5, TailFacts DEF ControlTask, HandleControlOrder, TypeOK, QueuesTypeOK
    <3>2. ToSet(glb_inventory) \subseteq ToSet(glb_inventory')
      BY <1>1, <1>5, <3>1, ConcatPairs
         DEF ControlTask, HandleControlOrder, TypeOK, StrategyTypeOK
    <3>3. Orders' = Orders /\ Acks' = Acks
      BY <1>5 DEF ControlTask, HandleControlOrder, executorVars, Orders, Acks
    <3> QED BY <3>2, <3>3 DEF Held
  <2> QED BY <1>1, <1>2, <1>5, <2>1, TrackKept
<1>6. CASE OtherTask(ListenReport)
  BY <1>1, <1>2, <1>6, TrackListen, HeldKept
<1> QED BY <1>3, <1>4, <1>5, <1>6 DEF Next

(***************************************************************************)
(* However the acknowledgements of buys and sells, the notices and the     *)
(* failing calls of the watcher interleave, when the watcher has read its  *)
(* notices it tracks no pair that is not held (block_watcher.py:240-246).  *)
(***************************************************************************)
THEOREM TracksNothingElse == Spec => []TracksOnlyHeld
<1>1. OnlyInv => TracksOnlyHeld
  BY DEF OnlyInv
<1> QED BY OnlyInit, OnlyStep, <1>1, PTL DEF Spec

\* Here PairInOnePlace is needed: a failed buy makes the watcher forget its
\* pair, which would be wrong if the pair were also held.
AllInv ==
  /\ PlaceInv
  /\ control_receiver \in {<<>>, <<PendingPositions>>}
  /\ TracksAllHeld

LEMMA AllInit == Init => AllInv
<1> SUFFICES ASSUME Init PROVE AllInv
  OBVIOUS
<1>1. /\ glb_inventory = <<>> /\ execution_broker = <<>> /\ execution_report = <<>>
      /\ taken = {} /\ control_receiver \in {<<>>, <<PendingPositions>>}
  BY DEF Init, StrategyInit, ExecutorInit
<1>2. \A p : ~ Held(p)
  BY <1>1 DEF Held, Sells, Orders, Acks, ToSet
<1> QED BY <1>1, <1>2, PlaceInit DEF AllInv, TracksAllHeld

(* A pair that is acknowledged is not held as well.                        *)
LEMMA AckedIsGone ==
  ASSUME PlaceInv, PlaceInv', StrategyTask(HandleExecutionReport),
         ~ Opens(Head(execution_report)), NEW p, p = Head(execution_report).pair
  PROVE  ~ Held(p)'
<1>1. TypeOK
  BY DEF PlaceInv
<1>2. execution_report # <<>> /\ execution_report' = Tail(execution_report)
  BY DEF StrategyTask, HandleExecutionReport, BuySucceeded, BuyFailed, SellSucceeded,
         SellFailed, ReceiveAck
<1>3. UNCHANGED <<execution_broker, taken, glb_inventory>>
  BY <1>1, AckLists
<1>4. p \in PairsIn(execution_report) /\ p \notin PairsIn(execution_report')
  BY <1>2, TailPairs DEF PlaceInv, TypeOK, QueuesTypeOK, NoPairTwice
<1>5. /\ p \notin PairsIn(glb_inventory) /\ p \notin PairsIn(execution_broker)
      /\ p \notin Executed
  BY <1>4, PlaceDefs DEF PlaceInv, Apart, Places
<1>6. \A position \in ToSet(glb_inventory') : position.pair # p
  BY <1>3, <1>5 DEF PairsIn, ToSet
<1>7. \A m \in Orders' : m.pair # p
  BY <1>3, <1>5 DEF Orders, PairsIn, ToSet, Executed
<1>8. \A m \in Acks' : m.pair # p
  BY <1>4 DEF Acks, PairsIn, ToSet
<1> QED BY <1>6, <1>7, <1>8 DEF Held, Sells

LEMMA AllStep == AllInv /\ [Next]_vars => AllInv'
<1> SUFFICES ASSUME AllInv, [Next]_vars PROVE AllInv'
  OBVIOUS
<1>1. PlaceInv /\ PlaceInv' /\ TypeOK
  BY PlaceStep DEF AllInv, PlaceInv
<1>order. control_receiver \in {<<>>, <<PendingPositions>>}
      /\ control_receiver' \in {<<>>, <<PendingPositions>>}
  <2>1. CASE ControlTask
    <3>1. control_receiver # <<>> /\ control_receiver' = Tail(control_receiver)
      BY <2>1 DEF ControlTask, HandleControlOrder
    <3>2. control_receiver = <<PendingPositions>> /\ Tail(<<PendingPositions>>) = <<>>
      BY <3>1 DEF AllInv
    <3> QED BY <3>1, <3>2
  <2>2. CASE StrategyTask(Pass) \/ StrategyTask(ReceiveBlock)
    BY <1>1, <2>2, PassLists, BlockLists DEF AllInv
  <2>3. CASE StrategyTask(HandleExecutionReport) \/ ExecutorProcess(ExecutorNext)
    BY <1>1, <2>3, AckLists, ExecutorLists DEF AllInv
  <2>4. CASE \/ OtherTask(NewHead)
             \/ OtherTask(ListenReport)
             \/ OtherTask(TakeReport) /\ UNCHANGED watcherVars
             \/ UNCHANGED vars
    BY <2>4, QuietLists DEF AllInv
  <2> QED BY <2>1, <2>2, <2>3, <2>4 DEF Next
<1>2. {p.pair : p \in ToSet(PendingPositions)} = PairsIn(PendingPositions)
  BY DEF PairsIn, ToSet
<1> SUFFICES ASSUME ~ RpcMayFail, NEW p \in Pairs, p \notin PairsIn(PendingPositions), Held(p)'
             PROVE  WillTrack(p)'
  BY <1>order, <1>1, <1>2 DEF AllInv, TracksAllHeld
<1>3. Held(p) => WillTrack(p)
  BY <1>2 DEF AllInv, TracksAllHeld
<1>4. CASE \/ StrategyTask(Pass) \/ StrategyTask(ReceiveBlock)
           \/ ExecutorProcess(ExecutorNext) \/ OtherTask(NewHead)
           \/ OtherTask(TakeReport) /\ UNCHANGED watcherVars
           \/ UNCHANGED vars
  <2>1. WillTrack(p)' <=> WillTrack(p)
    BY <1>1, <1>4, TrackKept
  <2>2. Held(p)' <=> Held(p)
    BY <1>1, <1>4, HeldKept
  <2> QED BY <1>3, <2>1, <2>2
<1>5. CASE StrategyTask(HandleExecutionReport)
  <2>1. CASE Head(execution_report).pair = p
    BY <1>1, <1>5, <2>1, TrackAck, AckedIsGone
  <2>2. CASE Head(execution_report).pair # p
    BY <1>1, <1>3, <1>5, <2>2, TrackAck, HeldAck
  <2> QED BY <2>1, <2>2
<1>6. CASE ControlTask
  BY <1>order, <1>1, <1>3, <1>6, TrackKept, HeldControl
<1>7. CASE OtherTask(ListenReport)
  BY <1>1, <1>3, <1>7, TrackListen, HeldKept
<1> QED BY <1>4, <1>5, <1>6, <1>7 DEF Next

(***************************************************************************)
(* While reserves can be fetched, when the watcher has read its notices    *)
(* it tracks every position that was bought in this run                    *)
(* (block_watcher.py:217-226): no notice of a failed buy or of an older    *)
(* sell makes it forget a pair that is held.                               *)
(***************************************************************************)
THEOREM TracksEverythingHeld == Spec => []TracksAllHeld
<1>1. AllInv => TracksAllHeld
  BY DEF AllInv
<1> QED BY AllInit, AllStep, <1>1, PTL DEF Spec
=============================================================================
