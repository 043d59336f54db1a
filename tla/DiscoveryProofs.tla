--------------------------- MODULE DiscoveryProofs ---------------------------
(***************************************************************************)
(* Machine-checked proofs about Discovery, for every value of its          *)
(* constants: any number of pairs, any pools, thresholds and times, and    *)
(* whatever the node, the explorer and the websocket do.                   *)
(***************************************************************************)
EXTENDS Discovery, QueueLemmas, SnipeBotProofs

-----------------------------------------------------------------------------
(* The chain only grows.                                                   *)

(* The assumptions on the constants that the proofs use.                   *)
LEMMA ConstantTypes ==
  /\ Pools \subseteq Pool
  /\ None \notin Pools
  /\ None \notin Creators
  /\ None \notin Reserves
  /\ CreatorOf \in [Pairs -> Creators]
  /\ SimulationAmount \in Nat \ {0}
  /\ PageSize \in Nat \ {0}
  /\ MaxHeight \in Nat
BY MarketAssumption, LogWatcherAssumption, InspectorAssumption

LEMMA SetOfQueue ==
  ASSUME NEW S, NEW s \in Seq(S)
  PROVE  ToSet(s) \subseteq S
<1>1. DOMAIN s = 1 .. Len(s) /\ \A i \in 1 .. Len(s) : s[i] \in S
  BY LenProperties, ElementOfSeq
<1> QED BY <1>1 DEF ToSet

(* A pair that exists goes on to exist.                                    *)
PairsStay ==
    \A p \in Pairs, n \in 0 .. Height : \A m \in 0 .. n : Exists(p, m) => Exists(p, n)

LEMMA PoolTyped ==
  ASSUME MarketTypeOK, NEW p \in Pairs, NEW n \in 0 .. Height, Exists(p, n)
  PROVE  PoolAt(p, n) \in Pools /\ PoolAt(p, n) \in Pool /\ n > 0
<1>1. n > 0 /\ PoolAt(p, n) = blocks[n][p].pool
  BY DEF Exists, PoolAt
<1>2. Height \in Nat /\ \A i \in 1 .. Height : blocks[i] \in [Pairs -> PairState]
  BY LenProperties, ElementOfSeq DEF MarketTypeOK, Height
<1>3. blocks[n] \in [Pairs -> PairState]
  BY <1>1, <1>2
<1>4. blocks[n][p].pool \in Pools \cup {None}
  BY <1>3 DEF PairState
<1> QED BY <1>1, <1>4, ConstantTypes DEF Exists

(* A new block leaves the ones before it as they are.                      *)
LEMMA MineEffect ==
  ASSUME MarketTypeOK, PairsStay, Mine
  PROVE  /\ Height \in Nat /\ Height' = Height + 1
         /\ MarketTypeOK'
         /\ PairsStay'
         /\ \A n \in 1 .. Height : blocks'[n] = blocks[n]
         /\ \A p \in Pairs, n \in 0 .. Height : PoolAt(p, n)' = PoolAt(p, n)
<1>1. PICK next \in [Pairs -> PairState] :
         /\ \A p \in Pairs : Exists(p, Height) => next[p].pool # None
         /\ blocks' = Append(blocks, next)
  BY DEF Mine
<1>2. /\ Height \in Nat /\ Height' = Height + 1
      /\ blocks' \in Seq([Pairs -> PairState])
      /\ \A n \in 1 .. Height : blocks'[n] = blocks[n]
      /\ blocks'[Height + 1] = next
  BY <1>1, AppendProperties, LenProperties DEF MarketTypeOK, Height
<1>3. MarketTypeOK'
  BY <1>2, ConstantTypes DEF Mine, MarketTypeOK
<1>4. \A p \in Pairs, n \in 0 .. Height : PoolAt(p, n)' = PoolAt(p, n)
  BY <1>2 DEF PoolAt
<1>5. \A p \in Pairs, n \in 0 .. Height : Exists(p, n)' = Exists(p, n)
  BY <1>4 DEF Exists
<1>6. \A p \in Pairs, n \in Nat : n = Height + 1 /\ Exists(p, Height) => Exists(p, n)'
  <2> SUFFICES ASSUME NEW p \in Pairs, NEW n \in Nat, n = Height + 1, Exists(p, Height)
               PROVE  blocks'[n][p].pool # None /\ n # 0
    BY DEF Exists, PoolAt
  <2> QED BY <1>1, <1>2
<1>7. PairsStay'
  <2> SUFFICES ASSUME NEW p \in Pairs, NEW n \in 0 .. Height + 1, NEW m \in 0 .. n,
                      Exists(p, m)'
               PROVE  Exists(p, n)'
    BY <1>2 DEF PairsStay
  <2>1. CASE n <= Height
    <3>1. n \in 0 .. Height /\ m \in 0 .. Height
      BY <2>1, <1>2
    <3> QED BY <3>1, <1>5 DEF PairsStay
  <2>2. CASE n = Height + 1 /\ m <= Height
    <3>1. m \in 0 .. Height /\ Height \in 0 .. Height
      BY <2>2, <1>2
    <3>2. Exists(p, Height)
      BY <3>1, <1>5 DEF PairsStay
    <3>3. n \in Nat
      BY <1>2
    <3> QED BY <2>2, <3>2, <3>3, <1>6
  <2>3. CASE n = Height + 1 /\ m = Height + 1
    BY <2>3
  <2> QED BY <2>1, <2>2, <2>3, <1>2
<1> QED BY <1>2, <1>3, <1>4, <1>7

-----------------------------------------------------------------------------
(* What an inspection has found out.                                       *)

CreatorOK(t) ==
    t.phase \notin {"creator", "failed"} =>
        t.pair.creator # None /\ ~ Frozen(t.pair.creator, to_block)

CallsOK(p, t) ==
    FitsPage(p, to_block) =>
        /\ t.cleared => ~ Called(p, 1 .. to_block, {"abnormal"})
        /\ t.quiet => ~ Called(p, t.pair.created_at + 1 .. to_block,
                               {"abnormal", "transfer"})

BuyOK(p, t) ==
    t.phase \in {"sell", "passed"} =>
        /\ t.bought_at \in to_block .. Height
        /\ BuySucceeds(PoolAt(p, t.bought_at), SimulationAmount)

SellOK(p, t) ==
    LET amount == TokensBought(PoolAt(p, t.bought_at), SimulationAmount) IN
    t.phase = "passed" =>
        /\ t.sold_at \in t.bought_at .. Height
        /\ SellSucceeds(PoolAt(p, t.sold_at), amount)
        /\ Accepts(NativeSold(PoolAt(p, t.sold_at), amount))

Vetted(p, t) ==
    /\ t.pair.address = p
    /\ t.pair.last_inspected_block <= t.pair.created_at
    /\ CreatorOK(t) /\ CallsOK(p, t) /\ BuyOK(p, t) /\ SellOK(p, t)

(* The page of the explorer that holds all the calls up to a block holds   *)
(* those of every range that ends there.                                   *)
LEMMA PageHoldsAll ==
  ASSUME NEW p \in Pairs, NEW first \in Nat \ {0}, NEW last \in Nat, FitsPage(p, last),
         NEW methods, "none" \notin methods, Called(p, first .. last, methods)
  PROVE  Called(p, TxList(p, first, last), methods)
<1> DEFINE all == {k \in 1 .. last : blocks[k][p].call # "none"}
           called == {k \in first .. last : blocks[k][p].call # "none"}
<1>1. PICK n \in first .. last : blocks[n][p].call \in methods
  BY DEF Called
<1>2. IsFiniteSet(all) /\ Cardinality(all) \in Nat
  <2>1. IsFiniteSet(1 .. last)
    BY FS_Interval
  <2> QED BY <2>1, FS_Subset, FS_CardinalityType
<1>3. n \in all /\ n \in called
  BY <1>1
<1>4. {k \in called : k > n} \subseteq all \ {n}
  BY <1>1
<1>5. Cardinality(all \ {n}) = Cardinality(all) - 1 /\ IsFiniteSet(all \ {n})
  BY <1>2, <1>3, FS_RemoveElement
<1>6. Cardinality({k \in called : k > n}) <= Cardinality(all \ {n})
      /\ Cardinality({k \in called : k > n}) \in Nat
  BY <1>4, <1>5, FS_Subset, FS_CardinalityType
<1>7. Cardinality(all) <= PageSize
  BY DEF FitsPage
<1>8. Cardinality({k \in called : k > n}) < PageSize
  BY <1>2, <1>5, <1>6, <1>7, ConstantTypes
<1>9. n \in TxList(p, first, last)
  BY <1>3, <1>8 DEF TxList
<1> QED BY <1>1, <1>9 DEF Called

(* The rows of the blacklist were written in the past.                     *)
BlackListOK ==
    \A creator \in Creators :
        black_list[creator] # None =>
            /\ black_list[creator].created_at <= black_list[creator].frozen_at
            /\ black_list[creator].frozen_at <= Height

LEMMA NotFrozen ==
  ASSUME DiscoveryTypeOK, BlackListOK, NEW creator \in Creators, NEW before \in Nat,
         ~ IsBlacklisted(creator)
  PROVE  ~ Frozen(creator, before)
<1> SUFFICES ASSUME black_list[creator] # None, Height - black_list[creator].created_at <= ListedFor,
                    \/ Height - black_list[creator].created_at <= FrozenFor
                    \/ Height - black_list[creator].frozen_at <= FrozenFor
             PROVE  IsBlacklisted(creator)
  BY DEF Frozen
<1>1. black_list[creator] \in BlackList
  BY DEF DiscoveryTypeOK, InspectorTypeOK
<1>2. /\ black_list[creator].created_at \in Nat /\ black_list[creator].frozen_at \in Nat
      /\ Height \in Nat /\ FrozenFor \in Nat
  BY <1>1, LenProperties, InspectorAssumption
     DEF BlackList, Height, DiscoveryTypeOK, MarketTypeOK
<1>3. black_list[creator].created_at <= black_list[creator].frozen_at
  BY DEF BlackListOK
<1>4. Height - black_list[creator].frozen_at <= FrozenFor
  BY <1>2, <1>3
<1> QED BY <1>4 DEF IsBlacklisted

(* Every question an inspection asks leaves it a proper inspection that     *)
(* vouches for what it has found out so far.                               *)
StepOK(p, t) ==
    /\ threads[p] # None
    /\ threads' = [threads EXCEPT ![p] = t]
    /\ UNCHANGED <<to_block, black_list>>
    /\ t \in Inspection
    /\ t.pair = threads[p].pair
    /\ Vetted(p, t)

LEMMA ThreadStep ==
  ASSUME DiscoveryTypeOK, BlackListOK, to_block <= Height,
         NEW p \in Pairs, threads[p] # None => Vetted(p, threads[p]), InspectPair(p)
  PROVE  \E t : StepOK(p, t)
<1> DEFINE t == threads[p]
<1>1. t # None
  BY DEF InspectPair, CheckCreator, CheckIncomingTxs, IsContractVerified,
         CheckCallsOfCreator, CountSwaps, SimulateBuy, SimulateSell, Raises, At
<1>2. t \in Inspection /\ t.pair \in Pair /\ Vetted(p, t)
  <2>1. t \in Inspection
    BY <1>1 DEF DiscoveryTypeOK, InspectorTypeOK
  <2> QED BY <1>1, <2>1 DEF Inspection
<1>3. to_block \in Nat /\ Height \in Nat
  BY LenProperties DEF DiscoveryTypeOK, InspectorTypeOK, MarketTypeOK, Height
<1>4. t.pair.creator \in Creators \cup {None} /\ t.pair.created_at \in Nat
      /\ t.pair.last_inspected_block \in Nat
  BY <1>2 DEF Pair
<1> HIDE DEF t
<1>5. ASSUME NEW u, Becomes(p, u), u \in Inspection, u.pair = t.pair, Vetted(p, u)
      PROVE  StepOK(p, u)
  BY <1>1, <1>5 DEF Becomes, StepOK, t
<1>6. ASSUME Fails(p)
      PROVE  \E u : StepOK(p, u)
  <2> DEFINE u == [t EXCEPT !.phase = "failed"]
  <2>1. Becomes(p, u)
    BY <1>6 DEF Fails, GoesTo, t
  <2>2. /\ u \in Inspection /\ u.phase = "failed" /\ u.pair = t.pair
        /\ u.cleared = t.cleared /\ u.quiet = t.quiet
    BY <1>2 DEF Inspection
  <2>3. Vetted(p, u)
    BY <1>2, <2>2 DEF Vetted, CreatorOK, CallsOK, BuyOK, SellOK
  <2> QED BY <1>5, <2>1, <2>2, <2>3
<1>7. ASSUME NEW phase \in {"txlist", "source", "calls", "swaps", "buy"},
             NEW u \in Inspection, Becomes(p, u), u.phase = phase,
             u.pair = t.pair,
             t.phase = "creator" =>
                 t.pair.creator # None /\ ~ Frozen(t.pair.creator, to_block),
             t.phase # "failed",
             CallsOK(p, u)
      PROVE  \E v : StepOK(p, v)
  <2>1. CreatorOK(u)
    BY <1>2, <1>7 DEF Vetted, CreatorOK
  <2>2. BuyOK(p, u) /\ SellOK(p, u)
    BY <1>7 DEF BuyOK, SellOK
  <2>3. Vetted(p, u)
    BY <1>2, <1>7, <2>1, <2>2 DEF Vetted
  <2> QED BY <1>5, <1>7, <2>3
<1>8. CASE CheckCreator(p)
  <2>1. t.phase = "creator"
    BY <1>8 DEF CheckCreator, At, t
  <2>2. CASE Fails(p)
    BY <2>2, <1>6
  <2>3. CASE ~ Fails(p)
    <3> DEFINE u == [t EXCEPT !.phase = "txlist"]
    <3>1. Becomes(p, u) /\ t.pair.creator # None /\ ~ IsBlacklisted(t.pair.creator)
      BY <1>8, <2>3 DEF CheckCreator, GoesTo, t
    <3>2. u \in Inspection /\ u.phase = "txlist" /\ u.pair = t.pair
          /\ u.cleared = t.cleared /\ u.quiet = t.quiet
      BY <1>2 DEF Inspection
    <3>3. ~ Frozen(t.pair.creator, to_block)
      BY <3>1, <1>3, <1>4, NotFrozen
    <3>4. CallsOK(p, u)
      BY <1>2, <3>2 DEF Vetted, CallsOK
    <3> HIDE DEF u
    <3> QED BY <3>1, <3>2, <3>3, <3>4, <2>1, <1>7
  <2> QED BY <2>2, <2>3
<1>9. CASE CheckIncomingTxs(p)
  <2>1. t.phase = "txlist"
    BY <1>9 DEF CheckIncomingTxs, At, t
  <2>2. CASE Fails(p)
    BY <2>2, <1>6
  <2>3. CASE Becomes(p, [t EXCEPT !.phase = "source", !.cleared = TRUE])
             /\ ~ Called(p, TxList(p, 1, to_block), {"abnormal"})
    <3> DEFINE u == [t EXCEPT !.phase = "source", !.cleared = TRUE]
    <3>1. u \in Inspection /\ u.phase = "source" /\ u.pair = t.pair /\ u.quiet = t.quiet
      BY <1>2 DEF Inspection
    <3>2. FitsPage(p, to_block) => ~ Called(p, 1 .. to_block, {"abnormal"})
      BY <2>3, <1>3, PageHoldsAll
    <3>3. CallsOK(p, u)
      BY <1>2, <3>1, <3>2 DEF Vetted, CallsOK
    <3>4. Becomes(p, u)
      BY <2>3
    <3> HIDE DEF u
    <3> QED BY <3>1, <3>3, <3>4, <2>1, <1>7
  <2>4. CASE GoesTo(p, "source")
    <3> DEFINE u == [t EXCEPT !.phase = "source"]
    <3>1. u \in Inspection /\ u.phase = "source" /\ u.pair = t.pair
          /\ u.cleared = t.cleared /\ u.quiet = t.quiet
      BY <1>2 DEF Inspection
    <3>2. Becomes(p, u)
      BY <2>4 DEF GoesTo, t
    <3>3. CallsOK(p, u)
      BY <1>2, <3>1 DEF Vetted, CallsOK
    <3> HIDE DEF u
    <3> QED BY <3>1, <3>2, <3>3, <2>1, <1>7
  <2> QED BY <1>9, <2>2, <2>3, <2>4 DEF CheckIncomingTxs, t
<1>10. CASE IsContractVerified(p)
  <2>1. t.phase = "source"
    BY <1>10 DEF IsContractVerified, At, t
  <2>2. PICK verified \in BOOLEAN, phase \in {"buy", "calls"} :
           Becomes(p, [t EXCEPT !.contract_verified = verified, !.phase = phase])
    BY <1>10, Zenon DEF IsContractVerified, t
  <2> DEFINE u == [t EXCEPT !.contract_verified = verified, !.phase = phase]
  <2>3. u \in Inspection /\ u.phase = phase /\ u.pair = t.pair
        /\ u.cleared = t.cleared /\ u.quiet = t.quiet
    BY <1>2 DEF Inspection
  <2>4. CallsOK(p, u)
    BY <1>2, <2>3 DEF Vetted, CallsOK
  <2>5. Becomes(p, u)
    BY <2>2
  <2> HIDE DEF u
  <2> QED BY <2>1, <2>3, <2>4, <2>5, <1>7
<1>11. CASE CheckCallsOfCreator(p)
  <2>1. t.phase = "calls"
    BY <1>11 DEF CheckCallsOfCreator, At, t
  <2>2. CASE Fails(p)
    BY <2>2, <1>6
  <2>3. CASE Becomes(p, [t EXCEPT !.phase = "swaps", !.quiet = TRUE])
             /\ ~ Called(p, TxList(p, FromBlock(t.pair), to_block),
                         {"abnormal", "transfer"})
    <3> DEFINE u == [t EXCEPT !.phase = "swaps", !.quiet = TRUE]
    <3>1. u \in Inspection /\ u.phase = "swaps" /\ u.pair = t.pair
          /\ u.cleared = t.cleared
      BY <1>2 DEF Inspection
    <3>2. FitsPage(p, to_block) =>
              ~ Called(p, FromBlock(t.pair) .. to_block, {"abnormal", "transfer"})
      <4>1. FromBlock(t.pair) \in Nat \ {0}
        BY <1>4 DEF FromBlock
      <4> QED BY <2>3, <4>1, <1>3, PageHoldsAll
    <3>3. t.pair.created_at + 1 .. to_block \subseteq FromBlock(t.pair) .. to_block
      BY <1>2, <1>3, <1>4 DEF Vetted, FromBlock
    <3>4. CallsOK(p, u)
      BY <1>2, <3>1, <3>2, <3>3 DEF Vetted, CallsOK, Called
    <3>5. Becomes(p, u)
      BY <2>3
    <3> HIDE DEF u
    <3> QED BY <3>1, <3>4, <3>5, <2>1, <1>7
  <2>4. CASE GoesTo(p, "swaps")
    <3> DEFINE u == [t EXCEPT !.phase = "swaps"]
    <3>1. u \in Inspection /\ u.phase = "swaps" /\ u.pair = t.pair
          /\ u.cleared = t.cleared /\ u.quiet = t.quiet
      BY <1>2 DEF Inspection
    <3>2. Becomes(p, u)
      BY <2>4 DEF GoesTo, t
    <3>3. CallsOK(p, u)
      BY <1>2, <3>1 DEF Vetted, CallsOK
    <3> HIDE DEF u
    <3> QED BY <3>1, <3>2, <3>3, <2>1, <1>7
  <2> QED BY <1>11, <2>2, <2>3, <2>4 DEF CheckCallsOfCreator, t
<1>12. CASE CountSwaps(p)
  <2>1. t.phase = "swaps"
    BY <1>12 DEF CountSwaps, At, t
  <2>2. PICK enough \in BOOLEAN :
           Becomes(p, [t EXCEPT !.phase = "buy", !.number_tx_mm = enough])
    BY <1>12 DEF CountSwaps, t
  <2> DEFINE u == [t EXCEPT !.phase = "buy", !.number_tx_mm = enough]
  <2>3. u \in Inspection /\ u.phase = "buy" /\ u.pair = t.pair
        /\ u.cleared = t.cleared /\ u.quiet = t.quiet
    BY <1>2 DEF Inspection
  <2>4. CallsOK(p, u)
    BY <1>2, <2>3 DEF Vetted, CallsOK
  <2>5. Becomes(p, u)
    BY <2>2
  <2> HIDE DEF u
  <2> QED BY <2>1, <2>3, <2>4, <2>5, <1>7
<1>13. CASE SimulateBuy(p)
  <2>1. t.phase = "buy"
    BY <1>13 DEF SimulateBuy, At, t
  <2>2. CASE Fails(p)
    BY <2>2, <1>6
  <2>3. CASE ~ Fails(p)
    <3> DEFINE u == [t EXCEPT !.phase = "sell", !.bought_at = Height]
    <3>1. Becomes(p, u) /\ BuySucceeds(PoolAt(p, Height), SimulationAmount)
      BY <1>13, <2>3 DEF SimulateBuy, Latest, t
    <3>2. u \in Inspection /\ u.phase = "sell" /\ u.pair = t.pair
          /\ u.cleared = t.cleared /\ u.quiet = t.quiet /\ u.bought_at = Height
      BY <1>2, <1>3 DEF Inspection
    <3>3. Vetted(p, u)
      BY <1>2, <1>3, <2>1, <3>1, <3>2 DEF Vetted, CreatorOK, CallsOK, BuyOK, SellOK
    <3> HIDE DEF u
    <3> QED BY <1>5, <3>1, <3>2, <3>3
  <2> QED BY <2>2, <2>3
<1>14. CASE SimulateSell(p)
  <2>1. t.phase = "sell"
    BY <1>14 DEF SimulateSell, At, t
  <2>2. CASE Fails(p)
    BY <2>2, <1>6
  <2>3. CASE ~ Fails(p)
    <3> DEFINE u == [t EXCEPT !.phase = "passed", !.sold_at = Height]
    <3>1. /\ Becomes(p, u)
          /\ SellSucceeds(PoolAt(p, Height),
                          TokensBought(PoolAt(p, t.bought_at), SimulationAmount))
          /\ Accepts(NativeSold(PoolAt(p, Height),
                                TokensBought(PoolAt(p, t.bought_at), SimulationAmount)))
      BY <1>14, <2>3 DEF SimulateSell, SellAnswers, AmountToken, Latest, t
    <3>2. u \in Inspection /\ u.phase = "passed" /\ u.pair = t.pair
          /\ u.cleared = t.cleared /\ u.quiet = t.quiet
          /\ u.bought_at = t.bought_at /\ u.sold_at = Height
      BY <1>2, <1>3 DEF Inspection
    <3>3. t.bought_at \in to_block .. Height
          /\ BuySucceeds(PoolAt(p, t.bought_at), SimulationAmount)
      BY <1>2, <2>1 DEF Vetted, BuyOK
    <3>4. Height \in t.bought_at .. Height
      BY <3>3, <1>3
    <3> HIDE DEF u
    <3>5. BuyOK(p, u)
      BY <3>2, <3>3 DEF BuyOK
    <3>6. SellOK(p, u)
      BY <3>1, <3>2, <3>4 DEF SellOK
    <3>7. Vetted(p, u)
      BY <1>2, <2>1, <3>2, <3>5, <3>6 DEF Vetted, CreatorOK, CallsOK
    <3> QED BY <1>5, <3>1, <3>2, <3>7
  <2> QED BY <2>2, <2>3
<1>15. CASE \E phase \in {"creator", "txlist", "source", "calls", "swaps", "buy", "sell"} :
               Raises(p, phase)
  BY <1>15, <1>6 DEF Raises
<1> QED BY <1>8, <1>9, <1>10, <1>11, <1>12, <1>13, <1>14, <1>15 DEF InspectPair

-----------------------------------------------------------------------------
(* The inductive invariant: the types, what was just shown of every        *)
(* inspection, and that whatever speaks of a pair speaks of one that was   *)
(* announced, in a block that is on the chain.                             *)

Blocks == ToSet(put_buffer) \cup ToSet(watching_broker)

Known ==
    /\ \A p \in announced : Exists(p, seen)
    /\ \A block \in Blocks :
          /\ block.number <= Height
          /\ \A new \in block.pairs : new.address \in announced
    /\ \A notice \in ToSet(watching_notifier) : notice.pair \in announced
    /\ \A w \in glb_watchlist \cup new_pairs : w.address \in announced
    /\ \A p \in Pairs : threads[p] # None \/ orders[p] # "none" => p \in announced
    /\ to_block <= Height

Staged ==
    /\ \A w \in glb_watchlist \cup new_pairs : w.last_inspected_block <= w.created_at
    /\ pc = "again" => \A w \in new_pairs : w.created_at = to_block
    /\ pc = "initial" =>
          \A p \in Pairs : threads[p] # None => threads[p].pair.created_at = to_block

AllVetted == \A p \in Pairs : threads[p] # None => Vetted(p, threads[p])

IInv ==
    /\ DiscoveryTypeOK
    /\ PairsStay
    /\ Known
    /\ BlackListOK
    /\ Staged
    /\ AllVetted

LEMMA InitIInv == Init => IInv
<1> SUFFICES ASSUME Init PROVE IInv
  OBVIOUS
<1> USE DEF Init, LogWatcherInit, InspectorInit
<1>1. Height = 0 /\ blocks \in Seq([Pairs -> PairState])
  BY EmptySeq DEF Height
<1>2. DiscoveryTypeOK
  BY <1>1, EmptySeq, ConstantTypes
     DEF DiscoveryTypeOK, MarketTypeOK, LogWatcherTypeOK, InspectorTypeOK, Tracked
<1>3. PairsStay
  BY <1>1 DEF PairsStay
<1>4. Known
  BY <1>1, EmptySeq DEF Known, Blocks, ToSet
<1>5. BlackListOK /\ Staged /\ AllVetted
  BY DEF BlackListOK, Staged, AllVetted
<1> QED BY <1>2, <1>3, <1>4, <1>5 DEF IInv

LEMMA HeightTypes ==
  ASSUME DiscoveryTypeOK
  PROVE  Height \in Nat /\ seen \in 0 .. Height /\ to_block \in Nat
BY LenProperties DEF DiscoveryTypeOK, MarketTypeOK, LogWatcherTypeOK, InspectorTypeOK, Height

LEMMA BlockTypes ==
  ASSUME DiscoveryTypeOK, NEW block \in Blocks
  PROVE  block.number \in Nat /\ block.pairs \subseteq NewPair
<1>1. CASE block \in ToSet(put_buffer)
  <2>1. put_buffer \in Seq([number: Nat, pairs: SUBSET NewPair])
    BY DEF DiscoveryTypeOK, LogWatcherTypeOK
  <2> QED BY <1>1, <2>1, SetOfQueue
<1>2. CASE block \in ToSet(watching_broker)
  <2>1. watching_broker \in Seq([number: Nat, pairs: SUBSET NewPair, inventory: Tracked])
    BY DEF DiscoveryTypeOK, LogWatcherTypeOK
  <2> QED BY <1>2, <2>1, SetOfQueue
<1> QED BY <1>1, <1>2 DEF Blocks

(* What an inspection has found out is not forgotten when the chain grows. *)
LEMMA VettedWhenMined ==
  ASSUME IInv, Mine, UNCHANGED <<to_block, black_list>>,
         NEW p \in Pairs, NEW t \in Inspection, Vetted(p, t)
  PROVE  Vetted(p, t)'
<1>1. /\ Height \in Nat /\ Height' = Height + 1
      /\ \A n \in 1 .. Height : blocks'[n] = blocks[n]
      /\ \A n \in 0 .. Height : PoolAt(p, n)' = PoolAt(p, n)
      /\ to_block \in Nat /\ to_block <= Height
  BY MineEffect, HeightTypes DEF IInv, DiscoveryTypeOK, Known
<1>2. t.pair.created_at \in Nat /\ t.pair.creator \in Creators \cup {None}
      /\ t.bought_at \in Nat /\ t.sold_at \in Nat
  BY DEF Inspection, Pair
<1>3. CreatorOK(t)'
  <2> SUFFICES ASSUME NEW creator \in Creators, Frozen(creator, to_block)'
               PROVE  Frozen(creator, to_block)
    BY <1>2 DEF Vetted, CreatorOK
  <2>1. black_list[creator] \in BlackList
    BY DEF Frozen, IInv, DiscoveryTypeOK, InspectorTypeOK
  <2>2. /\ black_list[creator].created_at \in Nat /\ black_list[creator].frozen_at \in Nat
        /\ FrozenFor \in Nat /\ ListedFor \in Nat
    BY <2>1, InspectorAssumption DEF BlackList
  <2> QED BY <2>1, <2>2, <1>1 DEF Frozen
<1>4. CallsOK(p, t)'
  <2>1. FitsPage(p, to_block)' <=> FitsPage(p, to_block)
    <3>1. {k \in 1 .. to_block : blocks'[k][p].call # "none"}
            = {k \in 1 .. to_block : blocks[k][p].call # "none"}
      BY <1>1
    <3> QED BY <3>1 DEF FitsPage
  <2>2. \A methods : \A first \in Nat \ {0} :
           Called(p, first .. to_block, methods)' => Called(p, first .. to_block, methods)
    BY <1>1 DEF Called
  <2>3. t.pair.created_at + 1 \in Nat \ {0}
    BY <1>2
  <2> QED BY <2>1, <2>2, <2>3 DEF Vetted, CallsOK
<1>5. BuyOK(p, t)' /\ SellOK(p, t)'
  <2>1. t.phase \in {"sell", "passed"} =>
           PoolAt(p, t.bought_at)' = PoolAt(p, t.bought_at)
           /\ t.bought_at \in to_block .. Height'
    BY <1>1, <1>2 DEF Vetted, BuyOK
  <2>2. t.phase = "passed" =>
           PoolAt(p, t.sold_at)' = PoolAt(p, t.sold_at)
           /\ t.sold_at \in t.bought_at .. Height'
    BY <1>1, <1>2, <2>1 DEF Vetted, BuyOK, SellOK
  <2>3. BuyOK(p, t)'
    BY <2>1 DEF Vetted, BuyOK, BuySucceeds, TokensBought, AmountTokenMin, AmountTokenOut
  <2>4. SellOK(p, t)'
    BY <2>1, <2>2 DEF Vetted, SellOK
  <2> QED BY <2>3, <2>4
<1>6. t.pair.address = p /\ t.pair.last_inspected_block <= t.pair.created_at
  BY DEF Vetted
<1> QED BY <1>3, <1>4, <1>5, <1>6, Zenon DEF Vetted

LEMMA WorldKeepsIInv == IInv /\ World => IInv'
<1> SUFFICES ASSUME IInv, World PROVE IInv'
  OBVIOUS
<1> USE DEF World, watcherVars, inspectorVars, strategyVars
<1>1. /\ Height \in Nat /\ Height' = Height + 1
      /\ MarketTypeOK' /\ PairsStay'
      /\ \A p \in Pairs, n \in 0 .. Height : PoolAt(p, n)' = PoolAt(p, n)
  BY MineEffect DEF IInv, DiscoveryTypeOK
<1>2. seen \in 0 .. Height /\ to_block \in Nat
  BY HeightTypes DEF IInv
<1>3. DiscoveryTypeOK'
  BY <1>1, <1>2 DEF IInv, DiscoveryTypeOK, LogWatcherTypeOK, InspectorTypeOK
<1>4. Known'
  <2>1. announced \subseteq Pairs
    BY DEF IInv, DiscoveryTypeOK, LogWatcherTypeOK
  <2>2. \A p \in announced : Exists(p, seen)'
    BY <1>1, <1>2, <2>1 DEF IInv, Known, Exists
  <2>3. \A block \in Blocks : block.number <= Height'
    <3>1. \A block \in Blocks : block.number \in Nat
      BY BlockTypes DEF IInv
    <3> QED BY <3>1, <1>1 DEF IInv, Known
  <2> QED BY <1>1, <1>2, <2>2, <2>3 DEF IInv, Known, Blocks
<1>5. BlackListOK'
  <2>1. \A creator \in Creators : black_list[creator] # None =>
           black_list[creator].frozen_at \in Nat
    BY DEF IInv, DiscoveryTypeOK, InspectorTypeOK, BlackList
  <2> QED BY <2>1, <1>1 DEF IInv, BlackListOK
<1>6. Staged'
  BY DEF IInv, Staged
<1>7. AllVetted'
  <2>1. \A p \in Pairs : threads[p] # None => threads[p] \in Inspection
    BY DEF IInv, DiscoveryTypeOK, InspectorTypeOK
  <2>2. ASSUME NEW p \in Pairs, NEW t \in Inspection, Vetted(p, t)
        PROVE  Vetted(p, t)'
    BY <2>2, VettedWhenMined
  <2>3. ASSUME NEW p \in Pairs, threads'[p] # None
        PROVE  Vetted(p, threads[p])'
    <3>1. PICK t \in Inspection : t = threads[p] /\ t = threads'[p]
      BY <2>1, <2>3
    <3>2. Vetted(p, t)'
      BY <2>2, <2>3, <3>1 DEF IInv, AllVetted
    <3> QED BY <3>1, <3>2
  <2> QED BY <2>3 DEF AllVetted
<1> QED BY <1>1, <1>3, <1>4, <1>5, <1>6, <1>7 DEF IInv

(* A creator that the reporter freezes now was not frozen before the head  *)
(* that is inspected.                                                      *)
LEMMA ReporterKeepsIInv == IInv /\ ReporterThread => IInv'
<1> SUFFICES ASSUME IInv, ReporterThread PROVE IInv'
  OBVIOUS
<1> USE DEF watcherVars, strategyVars
<1>1. PICK c \in Creators : SaveBlackList(c)
  BY DEF ReporterThread
<1>2. Height \in Nat /\ to_block \in Nat /\ seen \in 0 .. Height
  BY HeightTypes DEF IInv
<1>3. UNCHANGED <<blocks, watcherVars, strategyVars, to_block, threads>>
  BY <1>1 DEF ReporterThread, SaveBlackList
<1>4. Height' = Height /\ \A p, n : PoolAt(p, n)' = PoolAt(p, n)
  BY <1>3 DEF Height, PoolAt
<1>5. \A creator \in Creators :
         /\ black_list[creator] # None => black_list[creator] \in BlackList
         /\ black_list[creator] # None =>
               /\ black_list[creator].created_at <= black_list[creator].frozen_at
               /\ black_list[creator].frozen_at <= Height
  BY DEF IInv, BlackListOK, DiscoveryTypeOK, InspectorTypeOK
<1>6. \A creator \in Creators :
         \/ black_list'[creator] = black_list[creator]
         \/ /\ black_list[creator] = None
            /\ black_list'[creator] = [created_at |-> Height, frozen_at |-> Height]
         \/ /\ black_list[creator] # None
            /\ black_list'[creator] = [black_list[creator] EXCEPT !.frozen_at = Height]
  BY <1>1 DEF SaveBlackList, IInv, DiscoveryTypeOK, InspectorTypeOK
<1>7. black_list' \in [Creators -> BlackList \cup {None}]
  <2>1. [created_at |-> Height, frozen_at |-> Height] \in BlackList
    BY <1>2 DEF BlackList
  <2>2. black_list[c] # None => [black_list[c] EXCEPT !.frozen_at = Height] \in BlackList
    BY <1>2, <1>5 DEF BlackList
  <2> QED BY <1>1, <2>1, <2>2 DEF SaveBlackList, IInv, DiscoveryTypeOK, InspectorTypeOK
<1>8. DiscoveryTypeOK'
  BY <1>3, <1>4, <1>7 DEF IInv, DiscoveryTypeOK, MarketTypeOK, LogWatcherTypeOK,
     InspectorTypeOK
<1>9. PairsStay' /\ Known' /\ Staged'
  BY <1>3, <1>4 DEF IInv, PairsStay, Known, Staged, Blocks, Exists
<1>10. BlackListOK'
  <2> SUFFICES ASSUME NEW creator \in Creators, black_list'[creator] # None
               PROVE  /\ black_list'[creator].created_at <= black_list'[creator].frozen_at
                      /\ black_list'[creator].frozen_at <= Height
    BY <1>4 DEF BlackListOK
  <2>1. CASE black_list'[creator] = black_list[creator]
    BY <2>1, <1>5
  <2>2. CASE black_list'[creator] = [created_at |-> Height, frozen_at |-> Height]
    BY <2>2, <1>2
  <2>3. CASE /\ black_list[creator] # None
             /\ black_list'[creator] = [black_list[creator] EXCEPT !.frozen_at = Height]
    <3>1. /\ black_list[creator].created_at \in Nat /\ black_list[creator].frozen_at \in Nat
          /\ black_list'[creator].created_at = black_list[creator].created_at
          /\ black_list'[creator].frozen_at = Height
      BY <1>5, <2>3 DEF BlackList
    <3>2. black_list[creator].created_at <= Height
      BY <1>2, <1>5, <2>3, <3>1
    <3> QED BY <1>2, <3>1, <3>2
  <2> QED BY <1>6, <2>1, <2>2, <2>3
<1>11. ASSUME NEW creator \in Creators, Frozen(creator, to_block)'
       PROVE  Frozen(creator, to_block)
  <2>1. /\ black_list'[creator] # None
        /\ \/ /\ black_list'[creator].created_at < to_block
              /\ Height - black_list'[creator].created_at <= FrozenFor
           \/ /\ black_list'[creator].frozen_at < to_block
              /\ Height - black_list'[creator].frozen_at <= FrozenFor
        /\ Height - black_list'[creator].created_at <= ListedFor
    BY <1>11, <1>3, <1>4 DEF Frozen
  <2>2. to_block <= Height
    BY DEF IInv, Known
  <2>3. CASE black_list'[creator] = black_list[creator]
    BY <2>1, <2>3 DEF Frozen
  <2>4. CASE black_list'[creator] = [created_at |-> Height, frozen_at |-> Height]
    BY <2>1, <2>2, <2>4, <1>2
  <2>5. CASE /\ black_list[creator] # None
             /\ black_list'[creator] = [black_list[creator] EXCEPT !.frozen_at = Height]
    <3>1. /\ black_list'[creator].created_at = black_list[creator].created_at
          /\ black_list'[creator].frozen_at = Height
      BY <1>5, <2>5 DEF BlackList
    <3> QED BY <2>1, <2>2, <2>5, <3>1, <1>2 DEF Frozen
  <2> QED BY <1>6, <2>3, <2>4, <2>5
<1>12. AllVetted'
  <2> SUFFICES ASSUME NEW p \in Pairs, NEW t \in Inspection, Vetted(p, t), t = threads[p]
               PROVE  Vetted(p, t)'
    BY <1>3 DEF IInv, AllVetted, DiscoveryTypeOK, InspectorTypeOK
  <2>1. t.pair.creator \in Creators \cup {None}
    BY DEF Inspection, Pair
  <2>2. CreatorOK(t)'
    BY <1>3, <1>11, <2>1 DEF Vetted, CreatorOK
  <2>3. CallsOK(p, t)'
    BY <1>3 DEF Vetted, CallsOK, Called, FitsPage
  <2>4. BuyOK(p, t)' /\ SellOK(p, t)'
    BY <1>3, <1>4 DEF Vetted, BuyOK, SellOK
  <2>5. t.pair.address = p /\ t.pair.last_inspected_block <= t.pair.created_at
    BY DEF Vetted
  <2> QED BY <2>2, <2>3, <2>4, <2>5, Zenon DEF Vetted
<1> QED BY <1>8, <1>9, <1>10, <1>12 DEF IInv

LEMMA InspectorKeepsIInv ==
  ASSUME IInv, NEW p \in Pairs, InspectorThread(p)
  PROVE  IInv'
<1> USE DEF watcherVars, strategyVars
<1>1. PICK t : StepOK(p, t)
  BY ThreadStep DEF InspectorThread, IInv, Known, AllVetted
<1>2. /\ UNCHANGED <<blocks, watcherVars, strategyVars, to_block, black_list>>
      /\ threads[p] # None
      /\ threads' = [threads EXCEPT ![p] = t]
      /\ t \in Inspection
      /\ t.pair = threads[p].pair
      /\ Vetted(p, t)
  BY <1>1 DEF InspectorThread, StepOK
<1>3. Height' = Height /\ \A q, n : PoolAt(q, n)' = PoolAt(q, n)
  BY <1>2 DEF Height, PoolAt
<1>4. threads \in [Pairs -> Inspection \cup {None}]
  BY DEF IInv, DiscoveryTypeOK, InspectorTypeOK
<1>5. DiscoveryTypeOK'
  BY <1>2, <1>3, <1>4 DEF IInv, DiscoveryTypeOK, MarketTypeOK, LogWatcherTypeOK,
     InspectorTypeOK
<1>6. PairsStay' /\ BlackListOK'
  BY <1>2, <1>3 DEF IInv, PairsStay, BlackListOK, Exists
<1>7. Known'
  BY <1>2, <1>3, <1>4 DEF IInv, Known, Blocks, Exists
<1>8. Staged'
  BY <1>2, <1>4 DEF IInv, Staged
<1>9. ASSUME NEW q, NEW u, Vetted(q, u)
      PROVE  Vetted(q, u)'
  BY <1>2, <1>3, <1>9
     DEF Vetted, CreatorOK, CallsOK, BuyOK, SellOK, Frozen, Called, FitsPage
<1>10. AllVetted'
  <2> SUFFICES ASSUME NEW q \in Pairs, threads'[q] # None
               PROVE  Vetted(q, threads[q])'
    BY DEF AllVetted
  <2>1. PICK u : u = threads'[q] /\ Vetted(q, u)
    <3>1. CASE q = p
      BY <1>2, <1>4, <3>1
    <3>2. CASE q # p
      BY <1>2, <1>4, <3>2 DEF IInv, AllVetted
    <3> QED BY <3>1, <3>2
  <2>2. Vetted(q, u)'
    BY <2>1, <1>9
  <2> QED BY <2>1, <2>2
<1> QED BY <1>5, <1>6, <1>7, <1>8, <1>10 DEF IInv

(* A new batch has found out nothing yet.                                  *)
LEMMA BatchEffect ==
  ASSUME NEW batch \in SUBSET Pair, NEW is_initial \in BOOLEAN, NEW n \in Nat,
         InspectBatch(batch, is_initial, n),
         \A w \in batch : w.last_inspected_block <= w.created_at
  PROVE  /\ to_block' = n
         /\ threads' \in [Pairs -> Inspection \cup {None}]
         /\ \A p \in Pairs : threads'[p] # None =>
               threads'[p].pair \in batch /\ threads'[p].pair.address = p
         /\ AllVetted'
<1>1. ASSUME NEW pair \in Pair
      PROVE  /\ NewInspection(pair, is_initial) \in Inspection
             /\ NewInspection(pair, is_initial).pair = pair
             /\ NewInspection(pair, is_initial).phase = "creator"
             /\ NewInspection(pair, is_initial).cleared = FALSE
             /\ NewInspection(pair, is_initial).quiet = FALSE
  BY DEF NewInspection, Inspection
<1>2. ASSUME NEW p \in Pairs, threads'[p] # None
      PROVE  \E u \in Inspection :
                /\ u = threads'[p]
                /\ u.pair \in batch /\ u.pair.address = p
                /\ u.phase = "creator" /\ u.cleared = FALSE /\ u.quiet = FALSE
  <2> DEFINE chosen == CHOOSE pair \in batch : pair.address = p
  <2>1. threads'[p] = IF \E pair \in batch : pair.address = p
                      THEN NewInspection(chosen, is_initial) ELSE None
    BY DEF InspectBatch
  <2>2. \E pair \in batch : pair.address = p
    BY <1>2, <2>1
  <2>3. chosen \in batch /\ chosen.address = p
    BY <2>2
  <2> HIDE DEF chosen
  <2>4. chosen \in Pair /\ threads'[p] = NewInspection(chosen, is_initial)
    BY <2>1, <2>2, <2>3
  <2> QED BY <2>3, <2>4, <1>1
<1>3. threads' \in [Pairs -> Inspection \cup {None}]
  <2>1. threads' = [p \in Pairs |-> threads'[p]]
    BY DEF InspectBatch
  <2>2. \A p \in Pairs : threads'[p] \in Inspection \cup {None}
    BY <1>2
  <2> QED BY <2>1, <2>2
<1>4. AllVetted'
  <2>1. ASSUME NEW p \in Pairs, NEW u, u.pair.address = p, u.phase = "creator",
               ~ u.cleared, ~ u.quiet, u.pair.last_inspected_block <= u.pair.created_at
        PROVE  Vetted(p, u)'
    BY <2>1 DEF Vetted, CreatorOK, CallsOK, BuyOK, SellOK
  <2>2. ASSUME NEW p \in Pairs, threads'[p] # None
        PROVE  Vetted(p, threads[p])'
    <3>1. PICK u \in Inspection :
             /\ u = threads'[p]
             /\ u.pair \in batch /\ u.pair.address = p
             /\ u.phase = "creator" /\ u.cleared = FALSE /\ u.quiet = FALSE
      BY <1>2, <2>2
    <3>2. u.pair.last_inspected_block <= u.pair.created_at
      BY <3>1
    <3>3. Vetted(p, u)'
      BY <2>1, <3>1, <3>2
    <3> QED BY <3>1, <3>3
  <2> QED BY <2>2 DEF AllVetted
<1>5. \A p \in Pairs : threads'[p] # None =>
         threads'[p].pair \in batch /\ threads'[p].pair.address = p
  BY <1>2
<1> QED BY <1>3, <1>4, <1>5 DEF InspectBatch

(* The chain is not touched by the program.                                *)
LEMMA ChainUntouched ==
  ASSUME IInv, UNCHANGED blocks
  PROVE  /\ MarketTypeOK' /\ PairsStay' /\ Height' = Height
         /\ \A p, n : Exists(p, n)' = Exists(p, n)
BY DEF IInv, DiscoveryTypeOK, MarketTypeOK, PairsStay, Exists, PoolAt, Height

(* The head of the blocks, its pairs and its number are known.             *)
LEMMA ReceiveKeepsIInv == IInv /\ ReceiveBlock /\ UNCHANGED blocks => IInv'
<1> SUFFICES ASSUME IInv, ReceiveBlock, UNCHANGED blocks PROVE IInv'
  OBVIOUS
<1> DEFINE block_data == Head(watching_broker)
           new_pair(new) ==
               [address |-> new.address, creator |-> new.creator,
                reserve_eth |-> new.reserve_eth, created_at |-> block_data.number,
                inspect_attempts |-> 0, contract_verified |-> FALSE,
                number_tx_mm |-> FALSE, last_inspected_block |-> 0]
           due == {pair \in glb_watchlist : Due(pair, block_data.number)}
<1>1. /\ watching_broker # <<>>
      /\ InspectBatch(due, FALSE, block_data.number)
      /\ new_pairs' = {new_pair(new) : new \in block_data.pairs}
      /\ watching_broker' = Tail(watching_broker)
      /\ pc' = "again"
      /\ UNCHANGED <<blocks, seen, tracked, put_buffer, watching_notifier, announced,
                     missed, black_list, glb_watchlist, orders>>
  BY DEF ReceiveBlock
<1>2. watching_broker \in Seq([number: Nat, pairs: SUBSET NewPair, inventory: Tracked])
  BY DEF IInv, DiscoveryTypeOK, LogWatcherTypeOK
<1>3. /\ block_data \in [number: Nat, pairs: SUBSET NewPair, inventory: Tracked]
      /\ watching_broker' \in Seq([number: Nat, pairs: SUBSET NewPair, inventory: Tracked])
      /\ ToSet(watching_broker) = {block_data} \cup ToSet(watching_broker')
  BY <1>1, <1>2, TailFacts
<1>4. block_data \in Blocks /\ Blocks' \subseteq Blocks
  BY <1>1, <1>3 DEF Blocks
<1>5. block_data.number \in Nat /\ block_data.pairs \subseteq NewPair
  BY <1>3
<1> HIDE DEF block_data
<1>6. \A new \in block_data.pairs :
         /\ new_pair(new) \in Pair
         /\ new_pair(new).address = new.address
         /\ new_pair(new).created_at = block_data.number
         /\ new_pair(new).last_inspected_block = 0
  BY <1>5 DEF NewPair, Pair
<1> HIDE DEF new_pair
<1>7. due \in SUBSET Pair /\ \A w \in due : w.last_inspected_block <= w.created_at
  BY DEF IInv, DiscoveryTypeOK, Staged
<1>8. /\ to_block' = block_data.number
      /\ threads' \in [Pairs -> Inspection \cup {None}]
      /\ \A p \in Pairs : threads'[p] # None =>
            threads'[p].pair \in due /\ threads'[p].pair.address = p
      /\ AllVetted'
  BY <1>1, <1>5, <1>7, BatchEffect
<1>9. DiscoveryTypeOK'
  BY <1>1, <1>3, <1>5, <1>6, <1>8, ChainUntouched
     DEF IInv, DiscoveryTypeOK, LogWatcherTypeOK, InspectorTypeOK, Height
<1>10. Known'
  <2>1. \A w \in new_pairs' : w.address \in announced
    BY <1>1, <1>4, <1>6 DEF IInv, Known
  <2>2. \A p \in Pairs : threads'[p] # None => p \in announced
    BY <1>8 DEF IInv, Known
  <2>3. to_block' <= Height'
    BY <1>4, <1>8, ChainUntouched DEF IInv, Known
  <2>4. \A block \in Blocks' : block.number <= Height' /\ \A new \in block.pairs : new.address \in announced
    BY <1>4, ChainUntouched DEF IInv, Known
  <2>5. \A p \in announced : Exists(p, seen)'
    BY <1>1, ChainUntouched DEF IInv, Known, Exists, PoolAt
  <2> QED BY <1>1, <2>1, <2>2, <2>3, <2>4, <2>5 DEF IInv, Known
<1>11. Staged'
  BY <1>1, <1>5, <1>6, <1>8 DEF IInv, Staged
<1>12. BlackListOK'
  BY <1>1, ChainUntouched DEF IInv, BlackListOK
<1> QED BY <1>8, <1>9, <1>10, <1>11, <1>12, ChainUntouched DEF IInv

(* The watched pairs keep their history through the inspections.           *)
LEMMA InspectedAgainKeepsIInv == IInv /\ InspectedAgain => IInv'
<1> SUFFICES ASSUME IInv, InspectedAgain PROVE IInv'
  OBVIOUS
<1> DEFINE passed == {q \in Pairs : Passed(q)}
           attempted == {Attempted(threads[p]) : p \in passed}
           failed == {w \in glb_watchlist :
                        threads[w.address] # None /\ ~ Passed(w.address)}
           bought == {w.address : w \in {v \in attempted : MaxAttempts(v) /\ Qualified(v)}}
<1>1. PICK skipped \in SUBSET failed, sent \in SUBSET bought :
         /\ glb_watchlist' =
               {w \in glb_watchlist : threads[w.address] = None}
                  \cup skipped \cup {w \in attempted : ~ MaxAttempts(w)}
         /\ orders' = [p \in Pairs |-> IF p \in sent THEN "ordered" ELSE orders[p]]
  BY DEF InspectedAgain
<1>2. /\ pc = "again" /\ pc' = "initial"
      /\ InspectBatch(new_pairs, TRUE, to_block)
      /\ new_pairs' = {}
      /\ UNCHANGED <<blocks, watcherVars, black_list>>
  BY DEF InspectedAgain
<1>3. \A p \in passed : /\ threads[p] \in Inspection /\ Vetted(p, threads[p])
                        /\ p \in announced
  BY DEF Passed, IInv, DiscoveryTypeOK, InspectorTypeOK, AllVetted, Known
<1>4. ASSUME NEW p \in passed
      PROVE  /\ Attempted(threads[p]) \in Pair
             /\ Attempted(threads[p]).address = p
             /\ Attempted(threads[p]).last_inspected_block
                   <= Attempted(threads[p]).created_at
  <2> DEFINE u == threads[p]
  <2>1. u \in Inspection /\ u.pair \in Pair /\ Vetted(p, u)
    BY <1>3 DEF Inspection
  <2>2. u.number_tx_mm \in BOOLEAN /\ u.contract_verified \in BOOLEAN
    BY <2>1 DEF Inspection
  <2>3. u.pair.inspect_attempts \in Nat
    BY <2>1 DEF Pair
  <2> HIDE DEF u
  <2> DEFINE verified == u.pair.contract_verified \/ u.contract_verified
             attempts == u.pair.inspect_attempts + 1
  <2>4. verified \in BOOLEAN /\ attempts \in Nat
    BY <2>3
  <2>5. Attempted(u) = [u.pair EXCEPT !.inspect_attempts = attempts,
                                      !.number_tx_mm = u.number_tx_mm,
                                      !.contract_verified = verified]
    BY DEF Attempted
  <2> HIDE DEF verified, attempts
  <2>6. /\ Attempted(u) \in Pair
        /\ Attempted(u).address = u.pair.address
        /\ Attempted(u).last_inspected_block = u.pair.last_inspected_block
        /\ Attempted(u).created_at = u.pair.created_at
    BY <2>1, <2>2, <2>4, <2>5 DEF Pair
  <2> QED BY <2>1, <2>6 DEF Vetted, u
<1>5. /\ attempted \subseteq Pair
      /\ \A w \in attempted : w.address \in announced /\ w.last_inspected_block <= w.created_at
  BY <1>3, <1>4
<1>6. glb_watchlist' \subseteq glb_watchlist \cup attempted
  BY <1>1
<1>7. \A p \in sent : p \in announced
  BY <1>5
<1> HIDE DEF passed, attempted, failed, bought
<1>8. new_pairs \in SUBSET Pair /\ \A w \in new_pairs :
         w.last_inspected_block <= w.created_at /\ w.created_at = to_block
  BY <1>2 DEF IInv, DiscoveryTypeOK, Staged
<1>9. /\ to_block' = to_block
      /\ threads' \in [Pairs -> Inspection \cup {None}]
      /\ \A p \in Pairs : threads'[p] # None =>
            threads'[p].pair \in new_pairs /\ threads'[p].pair.address = p
      /\ AllVetted'
  BY <1>2, <1>8, HeightTypes, BatchEffect DEF IInv
<1>10. DiscoveryTypeOK'
  <2>1. orders' \in [Pairs -> {"none", "ordered", "held", "closed"}]
    BY <1>1 DEF IInv, DiscoveryTypeOK
  <2> QED BY <1>2, <1>5, <1>6, <1>9, <2>1, ChainUntouched
          DEF IInv, DiscoveryTypeOK, LogWatcherTypeOK, InspectorTypeOK, watcherVars, Height
<1>11. Known'
  <2>1. \A w \in glb_watchlist' \cup new_pairs' : w.address \in announced
    BY <1>2, <1>5, <1>6 DEF IInv, Known
  <2>2. \A p \in Pairs : threads'[p] # None \/ orders'[p] # "none" => p \in announced
    BY <1>1, <1>7, <1>9 DEF IInv, Known
  <2>3. \A p \in announced : Exists(p, seen)'
    BY <1>2 DEF IInv, Known, Exists, PoolAt, watcherVars
  <2>4. Height' = Height /\ Blocks' = Blocks
    BY <1>2 DEF Height, Blocks, watcherVars
  <2> QED BY <1>2, <1>9, <2>1, <2>2, <2>3, <2>4 DEF IInv, Known, watcherVars
<1>12. Staged'
  BY <1>2, <1>5, <1>6, <1>8, <1>9 DEF IInv, Staged
<1>13. BlackListOK'
  BY <1>2, ChainUntouched DEF IInv, BlackListOK
<1> QED BY <1>2, <1>9, <1>10, <1>11, <1>12, <1>13, ChainUntouched DEF IInv

LEMMA InspectedFirstKeepsIInv == IInv /\ InspectedFirst => IInv'
<1> SUFFICES ASSUME IInv, InspectedFirst PROVE IInv'
  OBVIOUS
<1> DEFINE passed == {q \in Pairs : Passed(q)}
           listed == {Listed(threads[p]) : p \in passed}
<1>1. /\ pc = "initial" /\ pc' = "get"
      /\ glb_watchlist' = glb_watchlist \cup listed
      /\ threads' = [p \in Pairs |-> None]
      /\ UNCHANGED <<blocks, watcherVars, to_block, black_list, new_pairs, orders>>
  BY DEF InspectedFirst
<1>2. \A p \in passed : /\ threads[p] \in Inspection /\ Vetted(p, threads[p])
                        /\ p \in announced /\ threads[p].pair.created_at = to_block
  BY <1>1 DEF Passed, IInv, DiscoveryTypeOK, InspectorTypeOK, AllVetted, Known, Staged
<1>3. to_block \in Nat
  BY HeightTypes DEF IInv
<1>4. ASSUME NEW p \in passed
      PROVE  /\ Listed(threads[p]) \in Pair
             /\ Listed(threads[p]).address = p
             /\ Listed(threads[p]).last_inspected_block
                   <= Listed(threads[p]).created_at
  <2> DEFINE u == threads[p]
  <2>1. u \in Inspection /\ u.pair \in Pair /\ Vetted(p, u) /\ u.pair.created_at = to_block
    BY <1>2 DEF Inspection
  <2>2. u.number_tx_mm \in BOOLEAN /\ u.contract_verified \in BOOLEAN
    BY <2>1 DEF Inspection
  <2> HIDE DEF u
  <2>3. /\ Listed(u) \in Pair
        /\ Listed(u).address = u.pair.address
        /\ Listed(u).last_inspected_block = to_block
        /\ Listed(u).created_at = u.pair.created_at
    BY <1>3, <2>1, <2>2 DEF Listed, Pair
  <2> QED BY <1>3, <2>1, <2>3 DEF Vetted, u
<1>5. /\ listed \subseteq Pair
      /\ \A w \in listed : w.address \in announced /\ w.last_inspected_block <= w.created_at
  BY <1>2, <1>4
<1> HIDE DEF passed, listed
<1>6. DiscoveryTypeOK'
  BY <1>1, <1>5, ChainUntouched
     DEF IInv, DiscoveryTypeOK, LogWatcherTypeOK, InspectorTypeOK, watcherVars, Height
<1>7. Known'
  <2>1. \A w \in glb_watchlist' \cup new_pairs' : w.address \in announced
    BY <1>1, <1>5 DEF IInv, Known
  <2>2. \A p \in announced : Exists(p, seen)'
    BY <1>1 DEF IInv, Known, Exists, PoolAt, watcherVars
  <2>3. Height' = Height /\ Blocks' = Blocks
    BY <1>1 DEF Height, Blocks, watcherVars
  <2> QED BY <1>1, <2>1, <2>2, <2>3 DEF IInv, Known, watcherVars
<1>8. Staged' /\ AllVetted'
  BY <1>1, <1>5 DEF IInv, Staged, AllVetted
<1>9. BlackListOK'
  BY <1>1, ChainUntouched DEF IInv, BlackListOK
<1> QED BY <1>1, <1>6, <1>7, <1>8, <1>9, ChainUntouched DEF IInv

LEMMA VettedUntouched ==
  ASSUME UNCHANGED <<blocks, inspectorVars>>, AllVetted
  PROVE  AllVetted'
<1> USE DEF inspectorVars
<1>1. Height' = Height /\ \A p, n : PoolAt(p, n)' = PoolAt(p, n)
  BY DEF Height, PoolAt
<1>2. ASSUME NEW p, NEW t, Vetted(p, t)
      PROVE  Vetted(p, t)'
  BY <1>1, <1>2
     DEF Vetted, CreatorOK, CallsOK, BuyOK, SellOK, Frozen, Called, FitsPage
<1>3. ASSUME NEW p \in Pairs, threads'[p] # None
      PROVE  Vetted(p, threads[p])'
  <2>1. PICK t : t = threads'[p] /\ Vetted(p, t)
    BY <1>3 DEF AllVetted
  <2> QED BY <2>1, <1>2
<1> QED BY <1>3 DEF AllVetted

LEMMA NotifyKeepsIInv ==
  ASSUME IInv, NEW p \in Pairs, BuyAcknowledged(p) \/ SellAcknowledged(p)
  PROVE  IInv'
<1>1. PICK is_buy \in BOOLEAN, from \in {"ordered", "held"}, to \in {"held", "closed"} :
         NotifyWatcher(p, is_buy, from, to)
  BY DEF BuyAcknowledged, SellAcknowledged
<1>2. PICK status \in {"FAILED", "SUCCESS"} :
         /\ watching_notifier' =
               Append(watching_notifier,
                      [pair |-> p, is_buy |-> is_buy, tx_status |-> status])
         /\ orders' = [orders EXCEPT ![p] =
                          IF is_buy /\ status = "FAILED" THEN "closed" ELSE to]
  BY <1>1 DEF NotifyWatcher
<1>3. /\ orders[p] = from
      /\ UNCHANGED <<blocks, seen, tracked, put_buffer, watching_broker, announced,
                     missed, inspectorVars, glb_watchlist, new_pairs, pc>>
  BY <1>1 DEF NotifyWatcher
<1> DEFINE notice == [pair |-> p, is_buy |-> is_buy, tx_status |-> status]
<1>4. notice \in Ack /\ notice.pair = p
  BY DEF Ack
<1> HIDE DEF notice
<1>5. watching_notifier \in Seq(Ack) /\ watching_notifier' = Append(watching_notifier, notice)
  BY <1>2 DEF notice, IInv, DiscoveryTypeOK, LogWatcherTypeOK
<1>6. /\ watching_notifier' \in Seq(Ack)
      /\ ToSet(watching_notifier') = ToSet(watching_notifier) \cup {notice}
  BY <1>4, <1>5, AppendFacts
<1>7. p \in announced
  BY <1>3 DEF IInv, Known
<1>8. orders' \in [Pairs -> {"none", "ordered", "held", "closed"}]
      /\ \A q \in Pairs : orders'[q] # "none" => q = p \/ orders[q] # "none"
  BY <1>2 DEF IInv, DiscoveryTypeOK
<1>9. DiscoveryTypeOK'
  BY <1>3, <1>6, <1>8, ChainUntouched
     DEF IInv, DiscoveryTypeOK, LogWatcherTypeOK, InspectorTypeOK, inspectorVars, Height
<1>10. Known'
  <2>1. \A n \in ToSet(watching_notifier') : n.pair \in announced
    BY <1>4, <1>6, <1>7 DEF IInv, Known
  <2>2. \A q \in Pairs : threads'[q] # None \/ orders'[q] # "none" => q \in announced
    BY <1>3, <1>7, <1>8 DEF IInv, Known, inspectorVars
  <2>3. \A q \in announced : Exists(q, seen)'
    BY <1>3 DEF IInv, Known, Exists, PoolAt
  <2>4. Height' = Height /\ Blocks' = Blocks
    BY <1>3 DEF Height, Blocks
  <2> QED BY <1>3, <2>1, <2>2, <2>3, <2>4 DEF IInv, Known, inspectorVars
<1>11. Staged'
  BY <1>3 DEF IInv, Staged, inspectorVars
<1>12. BlackListOK'
  BY <1>3, ChainUntouched DEF IInv, BlackListOK, inspectorVars
<1>13. AllVetted'
  BY <1>3, VettedUntouched DEF IInv, AllVetted, inspectorVars
<1> QED BY <1>3, <1>9, <1>10, <1>11, <1>12, <1>13, ChainUntouched DEF IInv

(* What the watcher does leaves the inspections alone.                     *)
LEMMA WatcherKeepsIInv ==
  ASSUME IInv, UNCHANGED <<blocks, inspectorVars, strategyVars>>,
         LogWatcherTypeOK',
         seen <= seen', announced \subseteq announced',
         \A p \in announced' : Exists(p, seen'),
         \A block \in Blocks' :
            /\ block.number <= Height
            /\ \A new \in block.pairs : new.address \in announced',
         \A notice \in ToSet(watching_notifier') : notice.pair \in announced'
  PROVE  IInv'
<1> USE DEF inspectorVars, strategyVars
<1>1. DiscoveryTypeOK'
  BY ChainUntouched DEF IInv, DiscoveryTypeOK, InspectorTypeOK, Height
<1>2. Known'
  <2>1. Height' = Height
    BY DEF Height
  <2>2. \A p \in announced' : Exists(p, seen)'
    BY DEF Exists, PoolAt
  <2> QED BY <2>1, <2>2 DEF IInv, Known
<1>3. Staged'
  BY DEF IInv, Staged
<1>4. BlackListOK'
  BY ChainUntouched DEF IInv, BlackListOK
<1>5. AllVetted'
  BY VettedUntouched DEF IInv, AllVetted
<1> QED BY <1>1, <1>2, <1>3, <1>4, <1>5, ChainUntouched DEF IInv

LEMMA FoundPairsOK ==
  ASSUME IInv, NEW number \in 1 .. Height, NEW pairs \in FoundPairs(number), NEW new \in pairs
  PROVE  new \in NewPair /\ CreatedIn(new.address, number)
<1> DEFINE created == {p \in Pairs : CreatedIn(p, number)}
<1>1. PICK p \in created : new = Fetched(p, number) \/ new = NotFetched(p)
  BY DEF FoundPairs
<1>2. p \in Pairs /\ CreatedIn(p, number)
  BY <1>1
<1>3. Exists(p, Height)
  <2>1. Height \in Nat
    BY HeightTypes DEF IInv
  <2> QED BY <1>2, <2>1 DEF CreatedIn, IInv, PairsStay
<1>4. Latest(p).native \in Nat
  <2>1. PoolAt(p, Height) \in Pool
    BY <1>2, <1>3, PoolTyped, HeightTypes DEF IInv, DiscoveryTypeOK
  <2> QED BY <2>1 DEF Latest, Pool
<1>5. Fetched(p, number) \in NewPair /\ Fetched(p, number).address = p
  BY <1>2, <1>4, ConstantTypes DEF Fetched, NewPair
<1>6. NotFetched(p) \in NewPair /\ NotFetched(p).address = p
  BY <1>2 DEF NotFetched, NewPair
<1> QED BY <1>1, <1>2, <1>5, <1>6

LEMMA ReservesTyped ==
  ASSUME MarketTypeOK, NEW p \in Pairs, NEW n \in 0 .. Height, Exists(p, n)
  PROVE  ReservesAt(p, n) \in Reserves
BY PoolTyped DEF ReservesAt, Reserves

(* A new head announces pairs that were never announced.                   *)
LEMMA NewHeadEffect ==
  ASSUME IInv, NewHead, UNCHANGED blocks
  PROVE  \E number \in seen + 1 .. Height, pairs \in SUBSET NewPair,
            synced \in SUBSET Pairs :
            /\ pairs \in FoundPairs(number) /\ synced \in Synced(number)
            /\ \A new \in pairs :
                  /\ new.address \in Pairs \ announced
                  /\ Exists(new.address, number)
            /\ \A p \in synced : IsTracked(p) /\ ReservesAt(p, number) \in Reserves
                                /\ Exists(p, number)
            /\ tracked' = [p \in Pairs |-> IF p \in synced THEN ReservesAt(p, number)
                                                           ELSE tracked[p]]
            /\ missed' = (missed \cup WithSync(seen + 1 .. number)) \ synced
            /\ put_buffer' = Append(put_buffer, [number |-> number, pairs |-> pairs])
            /\ announced' = announced \cup {new.address : new \in pairs}
            /\ seen' = number
            /\ UNCHANGED <<watching_broker, watching_notifier>>
<1>1. Height \in Nat /\ seen \in 0 .. Height
  BY HeightTypes DEF IInv
<1>2. PICK number \in seen + 1 .. (IF HeadsMayBeLost \/ seen = Height THEN Height ELSE seen + 1) :
      \E pairs \in FoundPairs(number), synced \in Synced(number) :
          /\ tracked' = [p \in Pairs |-> IF p \in synced THEN ReservesAt(p, number)
                                                         ELSE tracked[p]]
          /\ missed' = (missed \cup WithSync(seen + 1 .. number)) \ synced
          /\ put_buffer' = Append(put_buffer, [number |-> number, pairs |-> pairs])
          /\ announced' = announced \cup {c.address : c \in pairs}
          /\ seen' = number
  BY DEF NewHead
<1>3. number \in seen + 1 .. Height /\ number \in 1 .. Height
  <2>1. CASE HeadsMayBeLost \/ seen = Height
    BY <1>1, <1>2, <2>1
  <2>2. CASE ~ (HeadsMayBeLost \/ seen = Height)
    BY <1>1, <1>2, <2>2
  <2> QED BY <2>1, <2>2
<1>4. PICK pairs \in FoundPairs(number), synced \in Synced(number) :
          /\ tracked' = [p \in Pairs |-> IF p \in synced THEN ReservesAt(p, number)
                                                         ELSE tracked[p]]
          /\ missed' = (missed \cup WithSync(seen + 1 .. number)) \ synced
          /\ put_buffer' = Append(put_buffer, [number |-> number, pairs |-> pairs])
          /\ announced' = announced \cup {c.address : c \in pairs}
          /\ seen' = number
  BY <1>2
<1>5. pairs \subseteq NewPair /\ \A new \in pairs : CreatedIn(new.address, number)
  BY <1>3, FoundPairsOK
<1>6. \A new \in pairs : new.address \in Pairs \ announced /\ Exists(new.address, number)
  <2> SUFFICES ASSUME NEW new \in pairs, new.address \in announced
               PROVE  FALSE
    BY <1>5 DEF NewPair, CreatedIn
  <2>1. ~ Exists(new.address, number - 1)
    BY <1>5 DEF CreatedIn
  <2>2. Exists(new.address, seen) /\ new.address \in Pairs
    BY <1>5 DEF IInv, Known, NewPair
  <2>3. number - 1 \in 0 .. Height /\ seen \in 0 .. number - 1
    BY <1>1, <1>3
  <2> QED BY <2>1, <2>2, <2>3 DEF IInv, PairsStay
<1>7. synced \subseteq {p \in Pairs : IsTracked(p) /\ Syncs(p, number)}
  BY <1>4 DEF Synced
<1>8. \A p \in synced : /\ IsTracked(p) /\ Exists(p, number)
                        /\ ReservesAt(p, number) \in Reserves
  BY <1>3, <1>7, ReservesTyped DEF Syncs, IInv, DiscoveryTypeOK
<1>9. UNCHANGED <<watching_broker, watching_notifier>>
  BY DEF NewHead
<1>10. synced \in SUBSET Pairs /\ pairs \in SUBSET NewPair
  BY <1>5, <1>7
<1> QED BY <1>3, <1>4, <1>6, <1>8, <1>9, <1>10

LEMMA NewHeadKeepsIInv ==
  ASSUME IInv, NewHead, UNCHANGED <<blocks, inspectorVars, strategyVars>>
  PROVE  IInv'
<1>1. PICK number \in seen + 1 .. Height, pairs \in SUBSET NewPair, synced \in SUBSET Pairs :
            /\ \A new \in pairs :
                  /\ new.address \in Pairs \ announced
                  /\ Exists(new.address, number)
            /\ \A p \in synced : IsTracked(p) /\ ReservesAt(p, number) \in Reserves
            /\ tracked' = [p \in Pairs |-> IF p \in synced THEN ReservesAt(p, number)
                                                           ELSE tracked[p]]
            /\ missed' = (missed \cup WithSync(seen + 1 .. number)) \ synced
            /\ put_buffer' = Append(put_buffer, [number |-> number, pairs |-> pairs])
            /\ announced' = announced \cup {new.address : new \in pairs}
            /\ seen' = number
            /\ UNCHANGED <<watching_broker, watching_notifier>>
  BY NewHeadEffect
<1>2. Height \in Nat /\ seen \in 0 .. Height /\ number \in Nat /\ seen <= number
  BY HeightTypes DEF IInv
<1> DEFINE block == [number |-> number, pairs |-> pairs]
<1> DEFINE S == [number: Nat, pairs: SUBSET NewPair]
<1>3. block \in S /\ block.number = number /\ block.pairs = pairs
  BY <1>2
<1> HIDE DEF block
<1>4. put_buffer \in Seq(S) /\ put_buffer' = Append(put_buffer, block)
  BY <1>1 DEF block, IInv, DiscoveryTypeOK, LogWatcherTypeOK
<1> HIDE DEF S
<1>5. put_buffer' \in Seq(S) /\ ToSet(put_buffer') = ToSet(put_buffer) \cup {block}
  BY <1>3, <1>4, AppendFacts
<1>6. tracked' \in Tracked /\ missed' \subseteq Pairs
  BY <1>1 DEF Tracked, WithSync, IInv, DiscoveryTypeOK, LogWatcherTypeOK
<1>7. announced' \subseteq Pairs
  BY <1>1 DEF IInv, DiscoveryTypeOK, LogWatcherTypeOK
<1>8. seen' \in 0 .. Height'
  BY <1>1, <1>2 DEF Height
<1>9. LogWatcherTypeOK'
  BY <1>1, <1>5, <1>6, <1>7, <1>8 DEF S, IInv, DiscoveryTypeOK, LogWatcherTypeOK
<1>10. \A p \in announced' : Exists(p, seen')
  <2>1. announced \subseteq Pairs
    BY DEF IInv, DiscoveryTypeOK, LogWatcherTypeOK
  <2>2. \A p \in announced : Exists(p, number)
    BY <1>2, <2>1 DEF IInv, Known, PairsStay
  <2> QED BY <1>1, <2>2
<1>11. \A b \in Blocks' :
          b.number <= Height /\ \A new \in b.pairs : new.address \in announced'
  <2>1. Blocks' = Blocks \cup {block}
    BY <1>1, <1>5 DEF Blocks
  <2>2. block.number <= Height
    BY <1>3
  <2> QED BY <1>1, <1>3, <2>1, <2>2 DEF IInv, Known
<1>12. \A notice \in ToSet(watching_notifier') : notice.pair \in announced'
  BY <1>1 DEF IInv, Known
<1> QED BY <1>1, <1>2, <1>9, <1>10, <1>11, <1>12, WatcherKeepsIInv

LEMMA PickleEffect ==
  ASSUME IInv, Pickle
  PROVE  /\ put_buffer # <<>>
         /\ put_buffer' = Tail(put_buffer)
         /\ Head(put_buffer).number \in Nat /\ Head(put_buffer).pairs \subseteq NewPair
         /\ put_buffer' \in Seq([number: Nat, pairs: SUBSET NewPair])
         /\ watching_broker' \in Seq([number: Nat, pairs: SUBSET NewPair, inventory: Tracked])
         /\ Head(put_buffer) \in ToSet(put_buffer)
         /\ ToSet(put_buffer') \subseteq ToSet(put_buffer)
         /\ \E block : /\ block = [number |-> Head(put_buffer).number,
                                   pairs |-> Head(put_buffer).pairs,
                                   inventory |-> tracked]
                        /\ watching_broker' = Append(watching_broker, block)
                        /\ ToSet(watching_broker') = ToSet(watching_broker) \cup {block}
                        /\ block.number = Head(put_buffer).number
                        /\ block.pairs = Head(put_buffer).pairs
         /\ UNCHANGED <<seen, tracked, watching_notifier, announced, missed>>
<1> DEFINE head == Head(put_buffer)
           block == [number |-> head.number, pairs |-> head.pairs, inventory |-> tracked]
<1>1. put_buffer # <<>> /\ put_buffer' = Tail(put_buffer)
      /\ watching_broker' = Append(watching_broker, block)
      /\ UNCHANGED <<seen, tracked, watching_notifier, announced, missed>>
  BY DEF Pickle
<1>2. put_buffer \in Seq([number: Nat, pairs: SUBSET NewPair])
  BY DEF IInv, DiscoveryTypeOK, LogWatcherTypeOK
<1>3. head \in [number: Nat, pairs: SUBSET NewPair]
      /\ put_buffer' \in Seq([number: Nat, pairs: SUBSET NewPair])
      /\ ToSet(put_buffer) = {head} \cup ToSet(put_buffer')
  BY <1>1, <1>2, TailFacts
<1> HIDE DEF head
<1> DEFINE S == [number: Nat, pairs: SUBSET NewPair, inventory: Tracked]
<1>4. block \in S /\ block.number = head.number /\ block.pairs = head.pairs
  BY <1>3 DEF IInv, DiscoveryTypeOK, LogWatcherTypeOK
<1>5. watching_broker \in Seq(S)
  BY DEF IInv, DiscoveryTypeOK, LogWatcherTypeOK
<1> HIDE DEF block, S
<1>6. watching_broker' \in Seq(S)
      /\ ToSet(watching_broker') = ToSet(watching_broker) \cup {block}
  BY <1>1, <1>4, <1>5, AppendFacts
<1>7. head.number \in Nat /\ head.pairs \subseteq NewPair
  BY <1>3
<1> QED BY <1>1, <1>3, <1>4, <1>6, <1>7 DEF head, block, S

LEMMA PickleKeepsIInv ==
  ASSUME IInv, Pickle, UNCHANGED <<blocks, inspectorVars, strategyVars>>
  PROVE  IInv'
<1>1. LogWatcherTypeOK'
  BY PickleEffect DEF IInv, DiscoveryTypeOK, LogWatcherTypeOK, Height
<1>2. \A b \in Blocks' :
         b.number <= Height /\ \A new \in b.pairs : new.address \in announced'
  BY PickleEffect DEF IInv, Known, Blocks
<1>3. seen \in Nat
  BY HeightTypes DEF IInv
<1>4. UNCHANGED <<seen, watching_notifier, announced>>
  BY PickleEffect
<1> QED BY <1>1, <1>2, <1>3, <1>4, WatcherKeepsIInv DEF IInv, Known

LEMMA ListenReportEffect ==
  ASSUME IInv, ListenReport
  PROVE  \E ack \in Ack :
            /\ ack = Head(watching_notifier)
            /\ ack.pair \in Pairs /\ ack.pair \in announced
            /\ ReservesAt(ack.pair, Height) \in Reserves
            /\ Exists(ack.pair, Height)
            /\ \/ /\ Opens(ack) /\ IsTracked(ack.pair)
                  /\ UNCHANGED <<tracked, missed>>
               \/ /\ Opens(ack)
                  /\ tracked' = [tracked EXCEPT ![ack.pair] = ReservesAt(ack.pair, Height)]
                  /\ missed' = missed \ {ack.pair}
               \/ RpcMayFail /\ Opens(ack) /\ UNCHANGED <<tracked, missed>>
               \/ ~ Opens(ack) /\ Forget(ack.pair)
            /\ watching_notifier # <<>>
            /\ watching_notifier' = Tail(watching_notifier)
            /\ watching_notifier' \in Seq(Ack)
            /\ ToSet(watching_notifier') \subseteq ToSet(watching_notifier)
            /\ UNCHANGED <<seen, put_buffer, watching_broker, announced>>
<1> DEFINE ack == Head(watching_notifier)
<1>1. /\ watching_notifier # <<>>
      /\ watching_notifier' = Tail(watching_notifier)
      /\ UNCHANGED <<seen, put_buffer, watching_broker, announced>>
  BY DEF ListenReport
<1>2. watching_notifier \in Seq(Ack)
  BY DEF IInv, DiscoveryTypeOK, LogWatcherTypeOK
<1>3. /\ ack \in Ack
      /\ watching_notifier' \in Seq(Ack)
      /\ ToSet(watching_notifier) = {ack} \cup ToSet(watching_notifier')
  BY <1>1, <1>2, TailFacts
<1>4. \/ /\ Opens(ack) /\ IsTracked(ack.pair)
         /\ UNCHANGED <<tracked, missed>>
      \/ /\ Opens(ack)
         /\ tracked' = [tracked EXCEPT ![ack.pair] = ReservesAt(ack.pair, Height)]
         /\ missed' = missed \ {ack.pair}
      \/ RpcMayFail /\ Opens(ack) /\ UNCHANGED <<tracked, missed>>
      \/ ~ Opens(ack) /\ Forget(ack.pair)
  <2>1. IF Opens(ack)
        THEN IF IsTracked(ack.pair) THEN UNCHANGED <<tracked, missed>>
                                    ELSE Follow(ack.pair)
        ELSE Forget(ack.pair)
    BY DEF ListenReport
  <2> QED BY <2>1, Zenon DEF Follow
<1> HIDE DEF ack
<1>5. ack.pair \in Pairs /\ ack.pair \in announced
  BY <1>3 DEF Ack, IInv, Known
<1>6. Height \in Nat /\ seen \in 0 .. Height /\ Height \in 0 .. Height
  BY HeightTypes DEF IInv
<1>7. Exists(ack.pair, Height)
  BY <1>5, <1>6 DEF IInv, Known, PairsStay
<1>8. ReservesAt(ack.pair, Height) \in Reserves
  BY <1>5, <1>6, <1>7, ReservesTyped DEF IInv, DiscoveryTypeOK
<1> QED BY <1>1, <1>3, <1>4, <1>5, <1>7, <1>8 DEF ack

LEMMA ListenReportKeepsIInv ==
  ASSUME IInv, ListenReport, UNCHANGED <<blocks, inspectorVars, strategyVars>>
  PROVE  IInv'
<1>1. PICK ack \in Ack :
         /\ ack.pair \in Pairs
         /\ ReservesAt(ack.pair, Height) \in Reserves
         /\ \/ UNCHANGED <<tracked, missed>>
            \/ /\ tracked' = [tracked EXCEPT ![ack.pair] = ReservesAt(ack.pair, Height)]
               /\ missed' = missed \ {ack.pair}
            \/ Forget(ack.pair)
         /\ watching_notifier' \in Seq(Ack)
         /\ ToSet(watching_notifier') \subseteq ToSet(watching_notifier)
         /\ UNCHANGED <<seen, put_buffer, watching_broker, announced>>
  BY ListenReportEffect
<1>2. tracked' \in Tracked /\ missed' \subseteq Pairs
  BY <1>1 DEF Forget, Tracked, IInv, DiscoveryTypeOK, LogWatcherTypeOK
<1>3. LogWatcherTypeOK'
  BY <1>1, <1>2 DEF IInv, DiscoveryTypeOK, LogWatcherTypeOK, Height
<1>4. seen \in Nat
  BY HeightTypes DEF IInv
<1>5. Blocks' = Blocks
  BY <1>1 DEF Blocks
<1> QED BY <1>1, <1>3, <1>4, <1>5, WatcherKeepsIInv DEF IInv, Known

LEMMA NextKeepsIInv == IInv /\ [Next]_vars => IInv'
<1> SUFFICES ASSUME IInv, [Next]_vars PROVE IInv'
  OBVIOUS
<1>1. CASE World
  BY <1>1, WorldKeepsIInv
<1>2. CASE WatcherTask
  BY <1>2, NewHeadKeepsIInv, ListenReportKeepsIInv, PickleKeepsIInv DEF WatcherTask
<1>3. CASE \E p \in Pairs : InspectorThread(p)
  BY <1>3, InspectorKeepsIInv
<1>4. CASE ReceiveBlock /\ UNCHANGED blocks
  BY <1>4, ReceiveKeepsIInv
<1>5. CASE InspectedAgain
  BY <1>5, InspectedAgainKeepsIInv
<1>6. CASE InspectedFirst
  BY <1>6, InspectedFirstKeepsIInv
<1>7. CASE \E p \in Pairs : BuyAcknowledged(p) \/ SellAcknowledged(p)
  BY <1>7, NotifyKeepsIInv
<1>8. CASE ReporterThread
  BY <1>8, ReporterKeepsIInv
<1>9. CASE UNCHANGED vars
  <2>1. LogWatcherTypeOK'
    BY <1>9, ChainUntouched
       DEF vars, watcherVars, IInv, DiscoveryTypeOK, LogWatcherTypeOK, Height
  <2>2. seen \in Nat
    BY HeightTypes DEF IInv
  <2> QED BY <1>9, <2>1, <2>2, WatcherKeepsIInv DEF vars, watcherVars, IInv, Known, Blocks
<1> QED BY <1>1, <1>2, <1>3, <1>4, <1>5, <1>6, <1>7, <1>8, <1>9 DEF Next

LEMMA SpecKeepsIInv == Spec => []IInv
BY InitIInv, NextKeepsIInv, PTL DEF Spec

(* Every value stays in its type: the records that pass between the        *)
(* watcher, the strategy, the threads of the inspector and the reporter    *)
(* have the fields that the receiver reads, and no pool is looked up that  *)
(* does not exist yet.                                                     *)
THEOREM DiscoveryTypeCorrect == Spec => []DiscoveryTypeOK
BY SpecKeepsIInv, PTL DEF IInv

-----------------------------------------------------------------------------
(* The orders.                                                             *)

(* A pair is only ordered after an inspection that it passed.              *)
LEMMA OrderedWasVetted ==
  ASSUME IInv, [Next]_vars, NEW p \in Pairs, IsOrdered(p)
  PROVE  /\ threads[p] \in Inspection
         /\ threads[p].phase = "passed"
         /\ Vetted(p, threads[p])
<1>1. orders[p] = "none" /\ orders'[p] = "ordered"
  BY DEF IsOrdered
<1>2. orders \in [Pairs -> {"none", "ordered", "held", "closed"}]
  BY DEF IInv, DiscoveryTypeOK
<1>3. \/ InspectedAgain
      \/ \E q \in Pairs : BuyAcknowledged(q) \/ SellAcknowledged(q)
      \/ UNCHANGED orders
  BY DEF Next, World, WatcherTask, InspectorThread, ReceiveBlock, InspectedFirst,
         ReporterThread, strategyVars, vars
<1>4. CASE InspectedAgain
  <2> DEFINE attempted == {Attempted(threads[q]) : q \in {r \in Pairs : Passed(r)}}
             bought == {w.address : w \in {v \in attempted : MaxAttempts(v) /\ Qualified(v)}}
  <2>1. PICK sent \in SUBSET bought :
           orders' = [q \in Pairs |-> IF q \in sent THEN "ordered" ELSE orders[q]]
    BY <1>4 DEF InspectedAgain
  <2>2. p \in sent
    BY <1>1, <2>1
  <2>3. PICK q \in Pairs : Passed(q) /\ p = Attempted(threads[q]).address
    BY <2>2
  <2> HIDE DEF attempted, bought
  <2>4. threads[q] \in Inspection /\ threads[q].phase = "passed" /\ Vetted(q, threads[q])
    BY <2>3 DEF Passed, IInv, DiscoveryTypeOK, InspectorTypeOK, AllVetted
  <2>5. threads[q].pair \in Pair /\ threads[q].pair.address = q
    BY <2>4 DEF Inspection, Vetted
  <2>6. p = q
    BY <2>3, <2>5 DEF Attempted, Pair
  <2> QED BY <2>4, <2>6
<1>5. CASE \E q \in Pairs : BuyAcknowledged(q) \/ SellAcknowledged(q)
  <2>1. PICK q \in Pairs, to \in {"held", "closed"}, is_buy \in BOOLEAN,
             from \in {"ordered", "held"} :
           NotifyWatcher(q, is_buy, from, to)
    BY <1>5 DEF BuyAcknowledged, SellAcknowledged
  <2>2. orders'[p] \in {orders[p], "held", "closed"}
    BY <1>2, <2>1 DEF NotifyWatcher
  <2> QED BY <1>1, <2>2
<1> QED BY <1>1, <1>3, <1>4, <1>5

(* No order is sent for a pair whose creator is unknown or frozen.         *)
THEOREM CreatorIsVetted == Spec => CreatorVetted
<1>1. IInv /\ [Next]_vars =>
        [\A p \in Pairs : IsOrdered(p) =>
            LET creator == threads[p].pair.creator IN
            creator # None /\ ~ Frozen(creator, to_block)]_vars
  BY OrderedWasVetted DEF Vetted, CreatorOK
<1> QED BY <1>1, SpecKeepsIInv, PTL DEF Spec, CreatorVetted

(* An abnormal call, or a transfer by the creator while the pair is        *)
(* watched, is noticed by the last inspection that the explorer answers,   *)
(* whatever the inspections before it were answered.                       *)
THEOREM CallsAreNoticed == Spec => CallsNoticed
<1>1. IInv /\ [Next]_vars =>
        [\A p \in Pairs : IsOrdered(p) /\ FitsPage(p, to_block) =>
            /\ threads[p].cleared => ~ Called(p, 1 .. to_block, {"abnormal"})
            /\ threads[p].quiet =>
                  ~ Called(p, threads[p].pair.created_at + 1 .. to_block,
                           {"abnormal", "transfer"})]_vars
  BY OrderedWasVetted DEF Vetted, CallsOK
<1> QED BY <1>1, SpecKeepsIInv, PTL DEF Spec, CallsNoticed

(* Behind every order there is a moment at which the token could be bought *)
(* and a later one at which it could be sold, though the chain goes on     *)
(* between the calls.                                                      *)
THEOREM OrdersWereTradable == Spec => BoughtWasTradable
<1>1. ASSUME IInv, [Next]_vars, NEW p \in Pairs, IsOrdered(p)
      PROVE  \E buy \in to_block .. Height : \E sell \in buy .. Height :
                /\ BuySucceeds(PoolAt(p, buy), SimulationAmount)
                /\ SellSucceeds(PoolAt(p, sell),
                                TokensBought(PoolAt(p, buy), SimulationAmount))
  <2> DEFINE t == threads[p]
  <2>1. /\ t.bought_at \in to_block .. Height
        /\ BuySucceeds(PoolAt(p, t.bought_at), SimulationAmount)
    BY <1>1, OrderedWasVetted DEF Vetted, BuyOK
  <2>2. /\ t.sold_at \in t.bought_at .. Height
        /\ SellSucceeds(PoolAt(p, t.sold_at),
                        TokensBought(PoolAt(p, t.bought_at), SimulationAmount))
    BY <1>1, OrderedWasVetted DEF Vetted, SellOK
  <2> QED BY <2>1, <2>2
<1>2. IInv /\ [Next]_vars =>
        [\A p \in Pairs : IsOrdered(p) =>
            \E buy \in to_block .. Height : \E sell \in buy .. Height :
               /\ BuySucceeds(PoolAt(p, buy), SimulationAmount)
               /\ SellSucceeds(PoolAt(p, sell),
                               TokensBought(PoolAt(p, buy), SimulationAmount))]_vars
  BY <1>1
<1> QED BY <1>2, SpecKeepsIInv, PTL DEF Spec, BoughtWasTradable

(* The two simulated calls overestimate the loss: the real round trip of   *)
(* what was simulated loses less than the threshold.                       *)
THEOREM LossIsBounded == Spec => LossBounded
<1>1. ASSUME IInv, [Next]_vars, NEW p \in Pairs, IsOrdered(p),
             NEW pool, pool = PoolAt(p, threads[p].bought_at),
             pool = PoolAt(p, threads[p].sold_at)
      PROVE  Slippage(RoundTrip(pool, SimulationAmount)) < MaxSlippage * SimulationAmount
  <2> DEFINE t == threads[p]
             amount == TokensBought(pool, SimulationAmount)
  <2>1. t \in Inspection /\ t.phase = "passed" /\ Vetted(p, t)
    BY <1>1, OrderedWasVetted
  <2>2. BuySucceeds(pool, SimulationAmount) /\ t.bought_at \in 0 .. Height
    <3>1. t.bought_at \in to_block .. Height /\ BuySucceeds(pool, SimulationAmount)
      BY <1>1, <2>1 DEF Vetted, BuyOK
    <3> QED BY <3>1, <1>1, HeightTypes DEF IInv
  <2>3. Accepts(NativeSold(pool, amount))
    BY <1>1, <2>1 DEF Vetted, SellOK
  <2>4. pool \in Pool
    <3>1. Exists(p, t.bought_at)
      BY <1>1, <2>2 DEF BuySucceeds, HasLiquidity, Exists
    <3> QED BY <1>1, <2>2, <3>1, PoolTyped DEF IInv, DiscoveryTypeOK
  <2>5. HasLiquidity(pool) /\ amount > 0
    BY <2>2 DEF BuySucceeds
  <2>6. /\ NativeSold(pool, amount) \in Nat
        /\ RoundTrip(pool, SimulationAmount) \in Nat
        /\ NativeSold(pool, amount) <= RoundTrip(pool, SimulationAmount)
    BY <2>4, <2>5, ConstantTypes, RoundTripIsBetter
  <2>7. Slippage(NativeSold(pool, amount)) < MaxSlippage * SimulationAmount
    BY <2>3 DEF Accepts
  <2> HIDE DEF amount
  <2>8. SimulationAmount \in Nat /\ MaxSlippage \in Nat /\ MaxSlippage * SimulationAmount \in Nat
    BY InspectorAssumption
  <2>9. Slippage(RoundTrip(pool, SimulationAmount)) <= Slippage(NativeSold(pool, amount))
        /\ Slippage(RoundTrip(pool, SimulationAmount)) \in Int
        /\ Slippage(NativeSold(pool, amount)) \in Int
    BY <2>6, <2>8 DEF Slippage
  <2> QED BY <2>7, <2>8, <2>9
<1>2. IInv /\ [Next]_vars =>
        [\A p \in Pairs : IsOrdered(p) =>
            LET pool == PoolAt(p, threads[p].bought_at) IN
            pool = PoolAt(p, threads[p].sold_at) =>
               Slippage(RoundTrip(pool, SimulationAmount))
                  < MaxSlippage * SimulationAmount]_vars
  BY <1>1
<1> QED BY <1>2, SpecKeepsIInv, PTL DEF Spec, LossBounded

-----------------------------------------------------------------------------
(* The reserves of the tracked pairs.                                      *)

(* Without a Sync event the reserves stay what they are.                   *)
LEMMA NoSyncSameReserves ==
  ASSUME IInv, NEW p \in Pairs, NEW a \in 0 .. Height, NEW b \in a .. Height, Exists(p, a),
         \A n \in a + 1 .. b : ~ Syncs(p, n)
  PROVE  /\ Exists(p, b)
         /\ PoolAt(p, b).native = PoolAt(p, a).native
         /\ PoolAt(p, b).token = PoolAt(p, a).token
<1> DEFINE Same(n) == /\ PoolAt(p, n).native = PoolAt(p, a).native
                      /\ PoolAt(p, n).token = PoolAt(p, a).token
           changed == {n \in a .. b : ~ Same(n)}
<1>1. Height \in Nat /\ a \in Nat /\ b \in Nat
  BY HeightTypes DEF IInv
<1>2. \A n \in a .. b : Exists(p, n)
  BY <1>1 DEF IInv, PairsStay
<1>3. ASSUME changed # {}
      PROVE  FALSE
  <2>1. changed \in SUBSET Nat
    BY <1>1
  <2> HIDE DEF changed
  <2>2. PICK m \in changed : \A n \in changed : m <= n
    BY <1>3, <2>1, LeastNumber
  <2>3. m \in a .. b /\ ~ Same(m)
    BY <2>2 DEF changed
  <2>4. m # a
    BY <2>3
  <2>5. m - 1 \in a .. b /\ m \in a + 1 .. b
    BY <2>3, <2>4, <1>1
  <2>6. m - 1 \notin changed
    BY <2>1, <2>2, <2>5, <1>1
  <2>7. Same(m - 1)
    BY <2>5, <2>6 DEF changed
  <2>8. Exists(p, m) /\ Exists(p, m - 1) /\ ~ Syncs(p, m)
    BY <1>2, <2>3, <2>5
  <2> QED BY <2>3, <2>7, <2>8 DEF Syncs
<1>4. b \in a .. b
  BY <1>1
<1> QED BY <1>2, <1>3, <1>4

LEMMA NewHeadKeepsReserves ==
  ASSUME IInv, ReservesCurrent, NewHead, UNCHANGED blocks
  PROVE  ReservesCurrent'
<1>1. PICK number \in seen + 1 .. Height, synced \in SUBSET Pairs :
            /\ \A p \in synced : Exists(p, number)
            /\ tracked' = [p \in Pairs |-> IF p \in synced THEN ReservesAt(p, number)
                                                           ELSE tracked[p]]
            /\ missed' = (missed \cup WithSync(seen + 1 .. number)) \ synced
            /\ seen' = number
  BY NewHeadEffect
<1>2. Height \in Nat /\ seen \in 0 .. Height /\ number \in Nat
  BY HeightTypes DEF IInv
<1>3. ASSUME NEW p \in Pairs, tracked'[p] # None, p \notin missed'
      PROVE  \E n \in number .. Height :
                /\ Exists(p, n)
                /\ tracked'[p].native = PoolAt(p, n).native
                /\ tracked'[p].token = PoolAt(p, n).token
  <2>1. CASE p \in synced
    <3>1. tracked'[p] = ReservesAt(p, number) /\ Exists(p, number)
      BY <1>1, <2>1
    <3>2. number \in number .. Height
      BY <1>1, <1>2
    <3> QED BY <3>1, <3>2 DEF ReservesAt
  <2>2. CASE p \notin synced
    <3>1. tracked'[p] = tracked[p] /\ p \notin missed /\ p \notin WithSync(seen + 1 .. number)
      BY <1>1, <1>3, <2>2
    <3>2. IsTracked(p)
      BY <1>3, <3>1 DEF IsTracked
    <3>3. PICK a \in seen .. Height :
             /\ Exists(p, a)
             /\ tracked[p].native = PoolAt(p, a).native
             /\ tracked[p].token = PoolAt(p, a).token
      BY <3>1, <3>2 DEF ReservesCurrent
    <3>4. CASE number <= a
      <4>1. a \in number .. Height
        BY <3>4, <1>2
      <4> QED BY <3>1, <3>3, <4>1
    <3>5. CASE a < number
      <4>1. \A n \in seen + 1 .. number : ~ Syncs(p, n)
        BY <3>1, <3>2 DEF WithSync
      <4>2. a \in 0 .. Height /\ number \in a .. Height /\ number \in number .. Height
            /\ a + 1 .. number \subseteq seen + 1 .. number
        BY <3>5, <1>1, <1>2
      <4>3. /\ Exists(p, number)
            /\ PoolAt(p, number).native = PoolAt(p, a).native
            /\ PoolAt(p, number).token = PoolAt(p, a).token
        BY <3>3, <4>1, <4>2, NoSyncSameReserves
      <4> QED BY <3>1, <3>3, <4>2, <4>3
    <3> QED BY <3>4, <3>5, <1>2
  <2> QED BY <2>1, <2>2
<1> QED BY <1>1, <1>3 DEF ReservesCurrent, IsTracked, Exists, PoolAt, Height

LEMMA ReservesStep == IInv /\ ReservesCurrent /\ [Next]_vars => ReservesCurrent'
<1> SUFFICES ASSUME IInv, ReservesCurrent, [Next]_vars PROVE ReservesCurrent'
  OBVIOUS
<1>1. Height \in Nat /\ seen \in 0 .. Height
  BY HeightTypes DEF IInv
<1>2. CASE World
  <2>1. /\ Height' = Height + 1
        /\ \A p \in Pairs, n \in 0 .. Height : PoolAt(p, n)' = PoolAt(p, n)
    BY <1>2, MineEffect DEF World, IInv, DiscoveryTypeOK
  <2>2. \A p \in Pairs, n \in seen .. Height :
           n \in seen' .. Height' /\ Exists(p, n)' = Exists(p, n)
    BY <1>1, <1>2, <2>1 DEF World, watcherVars, Exists
  <2> QED BY <1>1, <1>2, <2>1, <2>2 DEF World, watcherVars, ReservesCurrent, IsTracked
<1>3. CASE WatcherTask
  <2>1. UNCHANGED blocks
    BY <1>3 DEF WatcherTask
  <2>2. CASE NewHead
    BY <2>1, <2>2, NewHeadKeepsReserves
  <2>3. CASE ListenReport
    <3>1. PICK ack \in Ack :
             /\ ack.pair \in Pairs
             /\ Exists(ack.pair, Height)
             /\ \/ UNCHANGED <<tracked, missed>>
                \/ /\ tracked' = [tracked EXCEPT ![ack.pair] = ReservesAt(ack.pair, Height)]
                   /\ missed' = missed \ {ack.pair}
                \/ Forget(ack.pair)
             /\ UNCHANGED seen
      BY <2>3, ListenReportEffect
    <3>2. tracked \in [Pairs -> Reserves \cup {None}]
      BY DEF IInv, DiscoveryTypeOK, LogWatcherTypeOK, Tracked
    <3>3. CASE UNCHANGED <<tracked, missed>>
      BY <2>1, <3>1, <3>3 DEF ReservesCurrent, IsTracked, Exists, PoolAt, Height
    <3>4. CASE /\ tracked' = [tracked EXCEPT ![ack.pair] = ReservesAt(ack.pair, Height)]
               /\ missed' = missed \ {ack.pair}
      <4>1. ASSUME NEW p \in Pairs, tracked'[p] # None, p \notin missed'
            PROVE  \E n \in seen .. Height :
                      /\ Exists(p, n)
                      /\ tracked'[p].native = PoolAt(p, n).native
                      /\ tracked'[p].token = PoolAt(p, n).token
        <5>1. CASE p = ack.pair
          <6>1. tracked'[p] = ReservesAt(p, Height) /\ Height \in seen .. Height
            BY <3>2, <3>4, <5>1, <1>1
          <6> QED BY <3>1, <5>1, <6>1 DEF ReservesAt
        <5>2. CASE p # ack.pair
          <6>1. tracked'[p] = tracked[p] /\ p \notin missed
            BY <3>2, <3>4, <4>1, <5>2
          <6> QED BY <4>1, <6>1 DEF ReservesCurrent, IsTracked
        <5> QED BY <5>1, <5>2
      <4> QED BY <2>1, <3>1, <4>1 DEF ReservesCurrent, IsTracked, Exists, PoolAt, Height
    <3>5. CASE Forget(ack.pair)
      <4>1. \A p \in Pairs : tracked'[p] # None /\ p \notin missed' =>
               tracked'[p] = tracked[p] /\ p \notin missed
        BY <3>1, <3>2, <3>5 DEF Forget
      <4> QED BY <2>1, <3>1, <4>1 DEF ReservesCurrent, IsTracked, Exists, PoolAt, Height
    <3> QED BY <3>1, <3>3, <3>4, <3>5
  <2>4. CASE Pickle
    BY <2>1, <2>4 DEF Pickle, ReservesCurrent, IsTracked, Exists, PoolAt, Height
  <2> QED BY <1>3, <2>2, <2>3, <2>4 DEF WatcherTask
<1>4. ASSUME UNCHANGED <<blocks, seen, tracked, missed>>
      PROVE  ReservesCurrent'
  BY <1>4 DEF ReservesCurrent, IsTracked, Exists, PoolAt, Height
<1>5. CASE ~ World /\ ~ WatcherTask
  BY <1>4, <1>5 DEF Next, InspectorThread, ReceiveBlock, InspectedAgain, InspectedFirst,
        BuyAcknowledged, SellAcknowledged, NotifyWatcher, ReporterThread, vars, watcherVars
<1> QED BY <1>2, <1>3, <1>5

(* The reserves of a tracked pair are those of the last head or of a later *)
(* block, unless a Sync event was lost, however many blocks lie between    *)
(* two heads.                                                              *)
THEOREM ReservesAreCurrent == Spec => []ReservesCurrent
<1>1. Init => ReservesCurrent
  BY DEF Init, LogWatcherInit, ReservesCurrent, IsTracked
<1> QED BY <1>1, SpecKeepsIInv, ReservesStep, PTL DEF Spec

-----------------------------------------------------------------------------
(* The watcher implements BlockWatcher.                                    *)

(* Rewriting the messages of a queue commutes with reading and putting.    *)
LEMMA MapTail ==
  ASSUME NEW S, NEW T, NEW f \in [S -> T], NEW s \in Seq(S), s # <<>>
  PROVE  [i \in DOMAIN Tail(s) |-> f[Tail(s)[i]]] = Tail([i \in DOMAIN s |-> f[s[i]]])
         /\ [i \in DOMAIN s |-> f[s[i]]] # <<>>
<1> DEFINE g == [i \in DOMAIN s |-> f[s[i]]]
           h == [i \in DOMAIN Tail(s) |-> f[Tail(s)[i]]]
<1>1. /\ Tail(s) \in Seq(S) /\ Len(s) \in Nat \ {0} /\ Len(Tail(s)) = Len(s) - 1
      /\ \A i \in 1 .. Len(Tail(s)) : Tail(s)[i] = s[i + 1]
      /\ DOMAIN s = 1 .. Len(s) /\ DOMAIN Tail(s) = 1 .. Len(s) - 1
      /\ \A i \in 1 .. Len(s) : s[i] \in S
  BY TailFacts, HeadTailProperties, LenProperties, ElementOfSeq
<1>2. g \in Seq(T) /\ Len(g) = Len(s) /\ \A i \in 1 .. Len(s) : g[i] = f[s[i]]
  <2>1. g \in [1 .. Len(s) -> T]
    BY <1>1
  <2> QED BY <1>1, <2>1
<1>3. h \in Seq(T) /\ Len(h) = Len(s) - 1
      /\ \A i \in 1 .. Len(s) - 1 : h[i] = f[Tail(s)[i]]
  <2>1. \A i \in 1 .. Len(s) - 1 : Tail(s)[i] \in S
    BY <1>1, ElementOfSeq
  <2>2. h \in [1 .. Len(s) - 1 -> T]
    BY <1>1, <2>1
  <2> QED BY <1>1, <2>2
<1> HIDE DEF g, h
<1>4. g # <<>>
  BY <1>1, <1>2, EmptySeq
<1>5. /\ Tail(g) \in Seq(T) /\ Len(Tail(g)) = Len(s) - 1
      /\ \A i \in 1 .. Len(s) - 1 : Tail(g)[i] = g[i + 1]
  BY <1>2, <1>4, HeadTailProperties
<1>6. \A i \in 1 .. Len(s) - 1 : h[i] = Tail(g)[i]
  <2> SUFFICES ASSUME NEW i \in 1 .. Len(s) - 1 PROVE h[i] = Tail(g)[i]
    OBVIOUS
  <2>1. i + 1 \in 1 .. Len(s)
    BY <1>1
  <2> QED BY <1>1, <1>2, <1>3, <1>5, <2>1
<1>7. h = Tail(g)
  BY <1>3, <1>5, <1>6, SeqEqual
<1> QED BY <1>4, <1>7 DEF g, h

LEMMA MapAppend ==
  ASSUME NEW S, NEW T, NEW f \in [S -> T], NEW s \in Seq(S), NEW e \in S
  PROVE  [i \in DOMAIN Append(s, e) |-> f[Append(s, e)[i]]]
            = Append([i \in DOMAIN s |-> f[s[i]]], f[e])
         /\ Len([i \in DOMAIN s |-> f[s[i]]]) = Len(s)
<1> DEFINE g == [i \in DOMAIN s |-> f[s[i]]]
           h == [i \in DOMAIN Append(s, e) |-> f[Append(s, e)[i]]]
<1>1. /\ Append(s, e) \in Seq(S) /\ Len(s) \in Nat /\ Len(Append(s, e)) = Len(s) + 1
      /\ \A i \in 1 .. Len(s) : Append(s, e)[i] = s[i]
      /\ Append(s, e)[Len(s) + 1] = e
      /\ DOMAIN s = 1 .. Len(s) /\ DOMAIN Append(s, e) = 1 .. Len(s) + 1
      /\ \A i \in 1 .. Len(s) : s[i] \in S
  BY AppendProperties, LenProperties, ElementOfSeq
<1>2. g \in Seq(T) /\ Len(g) = Len(s) /\ \A i \in 1 .. Len(s) : g[i] = f[s[i]]
  <2>1. g \in [1 .. Len(s) -> T]
    BY <1>1
  <2> QED BY <1>1, <2>1
<1>3. h \in Seq(T) /\ Len(h) = Len(s) + 1
      /\ \A i \in 1 .. Len(s) + 1 : h[i] = f[Append(s, e)[i]]
  <2>1. \A i \in 1 .. Len(s) + 1 : Append(s, e)[i] \in S
    BY <1>1, ElementOfSeq
  <2>2. h \in [1 .. Len(s) + 1 -> T]
    BY <1>1, <2>1
  <2> QED BY <1>1, <2>2
<1> HIDE DEF g, h
<1>4. f[e] \in T
  OBVIOUS
<1>5. /\ Append(g, f[e]) \in Seq(T) /\ Len(Append(g, f[e])) = Len(s) + 1
      /\ \A i \in 1 .. Len(s) : Append(g, f[e])[i] = g[i]
      /\ Append(g, f[e])[Len(s) + 1] = f[e]
  BY <1>2, <1>4, AppendProperties
<1>6. \A i \in 1 .. Len(s) + 1 : h[i] = Append(g, f[e])[i]
  <2> SUFFICES ASSUME NEW i \in 1 .. Len(s) + 1 PROVE h[i] = Append(g, f[e])[i]
    OBVIOUS
  <2>1. CASE i = Len(s) + 1
    BY <1>1, <1>3, <1>5, <2>1
  <2>2. CASE i # Len(s) + 1
    <3>1. i \in 1 .. Len(s)
      BY <1>1, <2>2
    <3> QED BY <1>1, <1>2, <1>3, <1>5, <3>1
  <2> QED BY <2>1, <2>2
<1>7. h = Append(g, f[e])
  BY <1>3, <1>5, <1>6, SeqEqual
<1> QED BY <1>2, <1>7 DEF g, h

(* The backlog is bounded wherever its blocks are, and no pair is announced *)
(* in two of the blocks that wait to be pickled.                           *)
Disjoint(s) ==
    \A i, j \in 1 .. Len(s) : i # j =>
        \A a \in s[i].pairs, b \in s[j].pairs : a.address # b.address

BInv ==
    /\ IInv
    /\ Len(put_buffer) + Len(watching_broker) <= MaxBacklog
    /\ Disjoint(put_buffer)

PutBlock == [number: Nat, pairs: SUBSET NewPair]
SentBlock == [number: Nat, pairs: SUBSET NewPair, inventory: Tracked]

LEMMA QueueTypes ==
  ASSUME IInv
  PROVE  /\ put_buffer \in Seq(PutBlock) /\ watching_broker \in Seq(SentBlock)
         /\ watching_notifier \in Seq(Ack) /\ tracked \in Tracked
         /\ Len(put_buffer) \in Nat /\ Len(watching_broker) \in Nat
  BY LenProperties DEF PutBlock, SentBlock, IInv, DiscoveryTypeOK, LogWatcherTypeOK

LEMMA BlocksMap ==
  ASSUME NEW s \in Seq(SentBlock)
  PROVE  /\ s # <<>> =>
               /\ [i \in DOMAIN Tail(s) |-> AsBlockData(Tail(s)[i])]
                     = Tail([i \in DOMAIN s |-> AsBlockData(s[i])])
               /\ [i \in DOMAIN s |-> AsBlockData(s[i])] # <<>>
         /\ Len([i \in DOMAIN s |-> AsBlockData(s[i])]) = Len(s)
         /\ \A e \in SentBlock :
               [i \in DOMAIN Append(s, e) |-> AsBlockData(Append(s, e)[i])]
                  = Append([i \in DOMAIN s |-> AsBlockData(s[i])], AsBlockData(e))
<1> DEFINE f == [b \in SentBlock |-> AsBlockData(b)]
           T == {AsBlockData(b) : b \in SentBlock}
<1>1. f \in [SentBlock -> T] /\ \A b \in SentBlock : f[b] = AsBlockData(b)
  OBVIOUS
<1>2. ASSUME NEW t \in Seq(SentBlock)
      PROVE  [i \in DOMAIN t |-> AsBlockData(t[i])] = [i \in DOMAIN t |-> f[t[i]]]
  <2>1. DOMAIN t = 1 .. Len(t) /\ \A i \in 1 .. Len(t) : t[i] \in SentBlock
    BY LenProperties, ElementOfSeq
  <2>2. \A i \in DOMAIN t : f[t[i]] = AsBlockData(t[i])
    BY <2>1, <1>1
  <2> HIDE DEF f
  <2> QED BY <2>2
<1> HIDE DEF f, T
<1>3. ASSUME s # <<>>
      PROVE  /\ [i \in DOMAIN Tail(s) |-> AsBlockData(Tail(s)[i])]
                   = Tail([i \in DOMAIN s |-> AsBlockData(s[i])])
             /\ [i \in DOMAIN s |-> AsBlockData(s[i])] # <<>>
  <2>1. Tail(s) \in Seq(SentBlock)
    BY <1>3, TailFacts
  <2>2. [i \in DOMAIN Tail(s) |-> f[Tail(s)[i]]] = Tail([i \in DOMAIN s |-> f[s[i]]])
        /\ [i \in DOMAIN s |-> f[s[i]]] # <<>>
    BY <1>1, <1>3, MapTail
  <2>3. [i \in DOMAIN s |-> AsBlockData(s[i])] = [i \in DOMAIN s |-> f[s[i]]]
    BY <1>2
  <2>4. [i \in DOMAIN Tail(s) |-> AsBlockData(Tail(s)[i])]
           = [i \in DOMAIN Tail(s) |-> f[Tail(s)[i]]]
    BY <1>2, <2>1
  <2> QED BY <2>2, <2>3, <2>4
<1>4. ASSUME NEW e \in SentBlock
      PROVE  /\ [i \in DOMAIN Append(s, e) |-> AsBlockData(Append(s, e)[i])]
                   = Append([i \in DOMAIN s |-> AsBlockData(s[i])], AsBlockData(e))
             /\ Len([i \in DOMAIN s |-> AsBlockData(s[i])]) = Len(s)
  <2>1. Append(s, e) \in Seq(SentBlock)
    BY AppendFacts
  <2>2. [i \in DOMAIN Append(s, e) |-> f[Append(s, e)[i]]]
           = Append([i \in DOMAIN s |-> f[s[i]]], f[e])
        /\ Len([i \in DOMAIN s |-> f[s[i]]]) = Len(s)
    BY <1>1, MapAppend
  <2>3. [i \in DOMAIN s |-> AsBlockData(s[i])] = [i \in DOMAIN s |-> f[s[i]]]
    BY <1>2
  <2>4. [i \in DOMAIN Append(s, e) |-> AsBlockData(Append(s, e)[i])]
           = [i \in DOMAIN Append(s, e) |-> f[Append(s, e)[i]]]
    BY <1>2, <2>1
  <2> QED BY <1>1, <2>2, <2>3, <2>4
<1>5. Len([i \in DOMAIN s |-> AsBlockData(s[i])]) = Len(s)
  <2>1. DOMAIN s = 1 .. Len(s) /\ Len(s) \in Nat
    BY LenProperties
  <2> QED BY <2>1
<1> QED BY <1>3, <1>4, <1>5

AbsQueue == [i \in DOMAIN watching_broker |-> AsBlockData(watching_broker[i])]
AbsTracked == {p \in Pairs : IsTracked(p)}
AbsAnnounced == announced \ Buffered

LEMMA BufferedAt ==
  IInv => /\ Buffered = {a \in announced : \E i \in 1 .. Len(put_buffer) :
                             \E new \in put_buffer[i].pairs : new.address = a}
          /\ Buffered \subseteq announced
<1> SUFFICES ASSUME IInv
             PROVE  /\ Buffered = {a \in announced : \E i \in 1 .. Len(put_buffer) :
                                       \E new \in put_buffer[i].pairs : new.address = a}
                    /\ Buffered \subseteq announced
  OBVIOUS
<1>1. DOMAIN put_buffer = 1 .. Len(put_buffer)
  BY QueueTypes, LenProperties
<1>2. \A i \in 1 .. Len(put_buffer) : put_buffer[i] \in Blocks
  BY <1>1 DEF Blocks, ToSet
<1>3. \A i \in 1 .. Len(put_buffer) : \A new \in put_buffer[i].pairs : new.address \in announced
  BY <1>2 DEF IInv, Known
<1>4. \A a : a \in Buffered <=> \E i \in 1 .. Len(put_buffer) :
                                   \E new \in put_buffer[i].pairs : new.address = a
  BY <1>1 DEF Buffered, ToSet
<1> QED BY <1>3, <1>4

(* A head is not seen by the abstract watcher: its block is still in the   *)
(* buffer.                                                                 *)
LEMMA NewHeadStutters ==
  ASSUME BInv, NewHead, UNCHANGED blocks, IInv'
  PROVE  /\ Len(put_buffer') + Len(watching_broker') <= MaxBacklog
         /\ Disjoint(put_buffer)'
         /\ UNCHANGED <<watching_broker, watching_notifier, AbsTracked, AbsAnnounced>>
<1>0. IInv
  BY DEF BInv
<1>1. PICK number \in seen + 1 .. Height, pairs \in SUBSET NewPair, synced \in SUBSET Pairs :
            /\ \A new \in pairs : new.address \in Pairs \ announced
            /\ \A p \in synced : IsTracked(p) /\ ReservesAt(p, number) \in Reserves
            /\ tracked' = [p \in Pairs |-> IF p \in synced THEN ReservesAt(p, number)
                                                           ELSE tracked[p]]
            /\ put_buffer' = Append(put_buffer, [number |-> number, pairs |-> pairs])
            /\ announced' = announced \cup {new.address : new \in pairs}
            /\ UNCHANGED <<watching_broker, watching_notifier>>
  BY <1>0, NewHeadEffect
<1>2. number \in Nat
  BY <1>0, HeightTypes DEF IInv
<1> DEFINE block == [number |-> number, pairs |-> pairs]
<1>3. block \in PutBlock /\ block.pairs = pairs
  BY <1>2 DEF PutBlock
<1> HIDE DEF block
<1>4. put_buffer' = Append(put_buffer, block)
  BY <1>1 DEF block
<1>5. /\ Len(put_buffer') = Len(put_buffer) + 1
      /\ \A i \in 1 .. Len(put_buffer) : put_buffer'[i] = put_buffer[i]
      /\ put_buffer'[Len(put_buffer) + 1] = block
      /\ Len(put_buffer) \in Nat /\ Len(watching_broker) \in Nat
  BY <1>0, <1>3, <1>4, QueueTypes, AppendProperties
<1>6. Len(put_buffer') + Len(watching_broker') <= MaxBacklog
  <2>1. Len(put_buffer) + Len(watching_broker) < MaxBacklog /\ MaxBacklog \in Nat
    BY LogWatcherAssumption DEF NewHead
  <2> QED BY <1>1, <1>5, <2>1
<1>7. \A i \in 1 .. Len(put_buffer) : \A a \in put_buffer[i].pairs :
         a.address \in announced
  <2>1. DOMAIN put_buffer = 1 .. Len(put_buffer)
    BY <1>0, QueueTypes, LenProperties
  <2> QED BY <1>0, <2>1 DEF IInv, Known, Blocks, ToSet
<1>8. Disjoint(put_buffer)'
  <2> SUFFICES ASSUME NEW i \in 1 .. Len(put_buffer) + 1, NEW j \in 1 .. Len(put_buffer) + 1,
                      i # j, NEW a \in put_buffer'[i].pairs, NEW b \in put_buffer'[j].pairs,
                      a.address = b.address
               PROVE  FALSE
    BY <1>5 DEF Disjoint
  <2>1. CASE i \in 1 .. Len(put_buffer) /\ j \in 1 .. Len(put_buffer)
    BY <1>5, <2>1 DEF BInv, Disjoint
  <2>2. CASE i = Len(put_buffer) + 1 /\ j \in 1 .. Len(put_buffer)
    BY <1>1, <1>3, <1>5, <1>7, <2>2
  <2>3. CASE j = Len(put_buffer) + 1 /\ i \in 1 .. Len(put_buffer)
    BY <1>1, <1>3, <1>5, <1>7, <2>3
  <2> QED BY <1>5, <2>1, <2>2, <2>3
<1>9. UNCHANGED AbsTracked
  <2>1. \A p \in Pairs : tracked'[p] # None <=> tracked[p] # None
    BY <1>1, ConstantTypes DEF IsTracked
  <2> QED BY <2>1 DEF AbsTracked, IsTracked
<1>10. UNCHANGED AbsAnnounced
  <2>1. \A a : a \in announced' /\ a \notin Buffered' <=> a \in announced /\ a \notin Buffered
    <3>1. Buffered' = {a \in announced' : \E i \in 1 .. Len(put_buffer') :
                           \E new \in put_buffer'[i].pairs : new.address = a}
      <4>1. (/\ Buffered = {a \in announced : \E i \in 1 .. Len(put_buffer) :
                              \E new \in put_buffer[i].pairs : new.address = a}
             /\ Buffered \subseteq announced)'
        BY BufferedAt, PTL
      <4> QED BY <4>1
    <3>2. \A a : a \in Buffered' <=> \/ a \in Buffered
                                     \/ \E new \in pairs : new.address = a
      <4>1. \A i : i \in 1 .. Len(put_buffer') <=>
                      i \in 1 .. Len(put_buffer) \/ i = Len(put_buffer) + 1
        BY <1>5
      <4> QED BY <1>0, <1>1, <1>3, <1>5, <3>1, <4>1, BufferedAt
    <3>3. Buffered \subseteq announced
      BY <1>0, BufferedAt
    <3> QED BY <1>1, <3>2, <3>3
  <2> QED BY <2>1 DEF AbsAnnounced
<1> QED BY <1>1, <1>6, <1>8, <1>9, <1>10

(* The abstract watcher sees the head when its block is pickled.           *)
LEMMA PickleIsNewHead ==
  ASSUME BInv, Pickle, IInv'
  PROVE  /\ Len(put_buffer') + Len(watching_broker') <= MaxBacklog
         /\ Disjoint(put_buffer)'
         /\ Abstract!NewHead
<1>0. IInv
  BY DEF BInv
<1>1. /\ put_buffer # <<>>
      /\ put_buffer' = Tail(put_buffer)
      /\ UNCHANGED <<seen, tracked, watching_notifier, announced, missed>>
  BY <1>0, PickleEffect
<1> DEFINE head == Head(put_buffer)
           block == [number |-> head.number, pairs |-> head.pairs, inventory |-> tracked]
           created == {new.address : new \in head.pairs}
<1>2. /\ put_buffer \in Seq(PutBlock) /\ watching_broker \in Seq(SentBlock)
      /\ tracked \in Tracked
      /\ Len(put_buffer) \in Nat /\ Len(watching_broker) \in Nat
  BY <1>0, QueueTypes
<1>3. /\ head \in PutBlock /\ head = put_buffer[1]
      /\ Len(put_buffer) \in Nat \ {0} /\ Len(put_buffer') = Len(put_buffer) - 1
      /\ \A i \in 1 .. Len(put_buffer) - 1 : put_buffer'[i] = put_buffer[i + 1]
  BY <1>1, <1>2, TailFacts, HeadTailProperties
<1> HIDE DEF head
<1>4. block \in SentBlock /\ block.pairs = head.pairs /\ block.inventory = tracked
  BY <1>2, <1>3 DEF PutBlock, SentBlock
<1>5. watching_broker' = Append(watching_broker, block)
  BY DEF Pickle, head
<1>6. AsBlockData(block) = [pairs |-> created, inventory |-> AbsTracked]
  BY <1>4 DEF AsBlockData, AbsTracked, IsTracked
<1> HIDE DEF block
<1>7. /\ Len(watching_broker') = Len(watching_broker) + 1
      /\ AbsQueue' = Append(AbsQueue, AsBlockData(block))
      /\ Len(AbsQueue) = Len(watching_broker)
  <2>1. Len(watching_broker') = Len(watching_broker) + 1
    BY <1>2, <1>4, <1>5, AppendFacts
  <2>2. AbsQueue' = Append(AbsQueue, AsBlockData(block))
    BY <1>2, <1>4, <1>5, BlocksMap DEF AbsQueue
  <2>3. Len(AbsQueue) = Len(watching_broker)
    BY <1>2, BlocksMap DEF AbsQueue
  <2> QED BY <2>1, <2>2, <2>3
<1>8. Len(put_buffer') + Len(watching_broker') <= MaxBacklog /\ Len(AbsQueue) < MaxBacklog
  <2>1. Len(put_buffer) + Len(watching_broker) <= MaxBacklog /\ MaxBacklog \in Nat
    BY LogWatcherAssumption DEF BInv
  <2> QED BY <1>2, <1>3, <1>7, <2>1
<1>9. Disjoint(put_buffer)'
  <2> SUFFICES ASSUME NEW i \in 1 .. Len(put_buffer) - 1, NEW j \in 1 .. Len(put_buffer) - 1,
                      i # j, NEW a \in put_buffer[i + 1].pairs, NEW b \in put_buffer[j + 1].pairs
               PROVE  a.address # b.address
    BY <1>3 DEF Disjoint
  <2>1. i + 1 \in 1 .. Len(put_buffer) /\ j + 1 \in 1 .. Len(put_buffer) /\ i + 1 # j + 1
    BY <1>3
  <2> QED BY <2>1 DEF BInv, Disjoint
<1>10. /\ created \subseteq Buffered
       /\ AbsAnnounced' = AbsAnnounced \cup created
  <2>1. Buffered' = {a \in announced : \E i \in 1 .. Len(put_buffer') :
                         \E new \in put_buffer'[i].pairs : new.address = a}
    <3>1. (/\ Buffered = {a \in announced : \E i \in 1 .. Len(put_buffer) :
                            \E new \in put_buffer[i].pairs : new.address = a}
           /\ Buffered \subseteq announced)'
      BY BufferedAt, PTL
    <3> QED BY <1>1, <3>1
  <2>2. Buffered = {a \in announced : \E i \in 1 .. Len(put_buffer) :
                        \E new \in put_buffer[i].pairs : new.address = a}
        /\ Buffered \subseteq announced
    BY <1>0, BufferedAt
  <2>3. created \subseteq announced
    <3>1. DOMAIN put_buffer = 1 .. Len(put_buffer) /\ 1 \in 1 .. Len(put_buffer)
      BY <1>2, <1>3, LenProperties
    <3>2. head \in Blocks
      BY <1>3, <3>1 DEF Blocks, ToSet
    <3> QED BY <1>0, <3>2 DEF IInv, Known
  <2>4. \A a : a \in Buffered <=> a \in created \/ a \in Buffered'
    <3>1. \A a : a \in created => a \in Buffered
      <4>1. 1 \in 1 .. Len(put_buffer)
        BY <1>3
      <4> QED BY <1>3, <2>2, <2>3, <4>1
    <3>2. \A a : a \in Buffered' => a \in Buffered
      <4>1. \A i \in 1 .. Len(put_buffer) - 1 : i + 1 \in 1 .. Len(put_buffer)
        BY <1>3
      <4> QED BY <1>3, <2>1, <2>2, <4>1
    <3>3. ASSUME NEW a \in Buffered, a \notin created
          PROVE  a \in Buffered'
      <4>1. PICK i \in 1 .. Len(put_buffer) :
               \E new \in put_buffer[i].pairs : new.address = a
        BY <2>2
      <4>2. i # 1
        BY <1>3, <3>3, <4>1
      <4>3. i - 1 \in 1 .. Len(put_buffer) - 1 /\ put_buffer'[i - 1] = put_buffer[i]
        <5>1. i - 1 \in 1 .. Len(put_buffer) - 1 /\ i - 1 + 1 = i
          BY <1>3, <4>2
        <5> QED BY <1>3, <5>1
      <4>4. a \in announced
        BY <2>2
      <4> QED BY <1>3, <2>1, <4>1, <4>3, <4>4
    <3> QED BY <3>1, <3>2, <3>3
  <2>5. \A a \in created : a \notin Buffered'
    <3> SUFFICES ASSUME NEW new \in head.pairs, new.address \in Buffered'
                 PROVE  FALSE
      OBVIOUS
    <3>1. PICK i \in 1 .. Len(put_buffer) - 1 :
             \E b \in put_buffer[i + 1].pairs : b.address = new.address
      BY <1>3, <2>1
    <3>2. i + 1 \in 1 .. Len(put_buffer) /\ 1 \in 1 .. Len(put_buffer) /\ i + 1 # 1
      BY <1>3
    <3> QED BY <1>3, <3>1, <3>2 DEF BInv, Disjoint
  <2>6. \A a : a \in AbsAnnounced' <=> a \in AbsAnnounced \/ a \in created
    <3> HIDE DEF created
    <3> QED BY <1>1, <2>2, <2>3, <2>4, <2>5 DEF AbsAnnounced
  <2> HIDE DEF created
  <2> QED BY <2>4, <2>6
<1>11. created \in SUBSET (Pairs \ AbsAnnounced)
  <2>1. head.pairs \subseteq NewPair
    BY <1>3 DEF PutBlock
  <2> QED BY <1>10, <2>1 DEF AbsAnnounced, NewPair
<1>12. UNCHANGED <<watching_notifier, AbsTracked>>
  BY <1>1 DEF AbsTracked, IsTracked
<1> HIDE DEF created
<1>13. Abstract!NewHead
  BY <1>6, <1>7, <1>8, <1>10, <1>11, <1>12
     DEF Abstract!NewHead, AbsQueue, AbsAnnounced, AbsTracked
<1> QED BY <1>8, <1>9, <1>13

LEMMA ListenReportRefines ==
  ASSUME BInv, ListenReport
  PROVE  Abstract!ListenReport /\ UNCHANGED <<put_buffer, watching_broker>>
<1>1. PICK ack \in Ack :
         /\ ack = Head(watching_notifier)
         /\ ack.pair \in Pairs
         /\ ReservesAt(ack.pair, Height) \in Reserves
         /\ \/ /\ Opens(ack) /\ IsTracked(ack.pair)
               /\ UNCHANGED <<tracked, missed>>
            \/ /\ Opens(ack)
               /\ tracked' = [tracked EXCEPT ![ack.pair] = ReservesAt(ack.pair, Height)]
               /\ missed' = missed \ {ack.pair}
            \/ RpcMayFail /\ Opens(ack) /\ UNCHANGED <<tracked, missed>>
            \/ ~ Opens(ack) /\ Forget(ack.pair)
         /\ watching_notifier # <<>>
         /\ watching_notifier' = Tail(watching_notifier)
         /\ UNCHANGED <<seen, put_buffer, watching_broker, announced>>
  BY ListenReportEffect DEF BInv
<1>2. tracked \in [Pairs -> Reserves \cup {None}]
  BY DEF BInv, IInv, DiscoveryTypeOK, LogWatcherTypeOK, Tracked
<1>3. UNCHANGED <<AbsQueue, AbsAnnounced>>
  BY <1>1 DEF AbsQueue, AbsAnnounced, Buffered
<1>4. Opens(ack) <=> Abstract!Opens(ack)
  BY DEF Opens, Abstract!Opens
<1>5. IF Opens(ack)
      THEN \/ AbsTracked' = AbsTracked \cup {ack.pair}
           \/ RpcMayFail /\ UNCHANGED AbsTracked
      ELSE AbsTracked' = AbsTracked \ {ack.pair}
  <2>1. CASE Opens(ack) /\ IsTracked(ack.pair) /\ UNCHANGED <<tracked, missed>>
    BY <1>1, <2>1 DEF AbsTracked, IsTracked
  <2>2. CASE /\ Opens(ack)
             /\ tracked' = [tracked EXCEPT ![ack.pair] = ReservesAt(ack.pair, Height)]
    <3>1. tracked'[ack.pair] # None /\ \A p \in Pairs : p # ack.pair => tracked'[p] = tracked[p]
      BY <1>1, <1>2, <2>2, ConstantTypes
    <3>2. \A p : p \in AbsTracked' <=> p \in AbsTracked \/ p = ack.pair
      BY <1>1, <3>1 DEF AbsTracked, IsTracked
    <3> QED BY <2>2, <3>2
  <2>3. CASE RpcMayFail /\ Opens(ack) /\ UNCHANGED <<tracked, missed>>
    BY <2>3 DEF AbsTracked, IsTracked
  <2>4. CASE ~ Opens(ack) /\ Forget(ack.pair)
    <3>1. tracked' = [tracked EXCEPT ![ack.pair] = None]
      BY <2>4 DEF Forget
    <3>2. tracked'[ack.pair] = None /\ \A p \in Pairs : p # ack.pair => tracked'[p] = tracked[p]
      BY <1>1, <1>2, <3>1
    <3>3. \A p : p \in AbsTracked' <=> p \in AbsTracked /\ p # ack.pair
      BY <1>1, <3>2 DEF AbsTracked, IsTracked
    <3> QED BY <2>4, <3>3
  <2> QED BY <1>1, <2>1, <2>2, <2>3, <2>4
<1>6. Abstract!ListenReport
  BY <1>1, <1>3, <1>4, <1>5
     DEF Abstract!ListenReport, AbsQueue, AbsAnnounced, AbsTracked
<1> QED BY <1>1, <1>6

(* The rest of the main process takes the blocks and sends the notices.    *)
LEMMA ReceiveRefines ==
  ASSUME BInv, ReceiveBlock, UNCHANGED blocks
  PROVE  /\ Abstract!MainTasks
         /\ UNCHANGED put_buffer /\ Len(watching_broker') <= Len(watching_broker)
<1>1. /\ watching_broker # <<>> /\ watching_broker' = Tail(watching_broker)
      /\ UNCHANGED <<watching_notifier, tracked, announced, put_buffer>>
  BY DEF ReceiveBlock
<1>2. watching_broker \in Seq(SentBlock) /\ Len(watching_broker) \in Nat
  BY QueueTypes DEF BInv
<1>3. AbsQueue # <<>> /\ AbsQueue' = Tail(AbsQueue)
  BY <1>1, <1>2, BlocksMap DEF AbsQueue
<1>4. UNCHANGED <<AbsTracked, AbsAnnounced>>
  BY <1>1 DEF AbsTracked, IsTracked, AbsAnnounced, Buffered
<1>5. Abstract!MainTasks
  BY <1>1, <1>3, <1>4
     DEF Abstract!MainTasks, Abstract!watcherVars, AbsQueue, AbsTracked, AbsAnnounced
<1>6. Len(watching_broker') <= Len(watching_broker)
  BY <1>1, <1>2, TailFacts
<1> QED BY <1>1, <1>5, <1>6

LEMMA NotifyRefines ==
  ASSUME BInv, NEW p \in Pairs, NEW is_buy \in BOOLEAN, NEW from, NEW to,
         NotifyWatcher(p, is_buy, from, to)
  PROVE  Abstract!MainTasks /\ UNCHANGED <<put_buffer, watching_broker>>
<1>1. PICK status \in {"FAILED", "SUCCESS"} :
         watching_notifier' =
            Append(watching_notifier,
                   [pair |-> p, is_buy |-> is_buy, tx_status |-> status])
  BY DEF NotifyWatcher
<1>2. UNCHANGED <<watching_broker, tracked, announced, put_buffer>>
  BY DEF NotifyWatcher
<1>3. UNCHANGED <<AbsQueue, AbsTracked, AbsAnnounced>>
  BY <1>2 DEF AbsQueue, AbsTracked, IsTracked, AbsAnnounced, Buffered
<1>4. status \in Abstract!TxStatus
  BY DEF Abstract!TxStatus
<1>5. Abstract!MainTasks
  BY <1>1, <1>3, <1>4
     DEF Abstract!MainTasks, Abstract!watcherVars, AbsQueue, AbsTracked, AbsAnnounced
<1> QED BY <1>2, <1>5

AbsVars == <<watching_broker, watching_notifier, Abstract!watcherVars>>

AbstractStep == Abstract!NewHead \/ Abstract!ListenReport \/ Abstract!MainTasks

LEMMA WatcherStep ==
  ASSUME BInv, [Next]_vars, IInv'
  PROVE  BInv' /\ [AbstractStep]_AbsVars
<1>1. /\ Len(put_buffer) \in Nat /\ Len(watching_broker) \in Nat /\ MaxBacklog \in Nat
      /\ Len(put_buffer) + Len(watching_broker) <= MaxBacklog
  BY QueueTypes, LogWatcherAssumption DEF BInv
<1>2. ASSUME UNCHANGED <<put_buffer, watching_broker>>
      PROVE  BInv'
  BY <1>2 DEF BInv, Disjoint
<1>3. ASSUME UNCHANGED <<watching_broker, watching_notifier, AbsTracked, AbsAnnounced>>
      PROVE  [AbstractStep]_AbsVars
  <2>1. UNCHANGED AbsVars
    BY <1>3 DEF AbsVars, Abstract!watcherVars, AbsTracked, AbsAnnounced
  <2> QED BY <2>1
<1>4. ASSUME UNCHANGED watcherVars
      PROVE  BInv' /\ [AbstractStep]_AbsVars
  <2>1. UNCHANGED <<put_buffer, watching_broker, watching_notifier, tracked, announced>>
    BY <1>4 DEF watcherVars
  <2>2. UNCHANGED <<AbsTracked, AbsAnnounced>>
    BY <2>1 DEF AbsTracked, IsTracked, AbsAnnounced, Buffered
  <2> QED BY <1>2, <1>3, <2>1, <2>2
<1>5. CASE UNCHANGED vars
  BY <1>4, <1>5 DEF vars
<1>6. CASE World
  BY <1>4, <1>6 DEF World
<1>7. CASE pc = "get" /\ NewHead /\ UNCHANGED blocks
  <2>1. /\ Len(put_buffer') + Len(watching_broker') <= MaxBacklog
        /\ Disjoint(put_buffer)'
        /\ UNCHANGED <<watching_broker, watching_notifier, AbsTracked, AbsAnnounced>>
    BY <1>7, NewHeadStutters
  <2> QED BY <1>3, <2>1 DEF BInv
<1>8. CASE pc = "get" /\ ListenReport
  <2>1. Abstract!ListenReport /\ UNCHANGED <<put_buffer, watching_broker>>
    BY <1>8, ListenReportRefines
  <2> QED BY <1>2, <2>1 DEF AbstractStep
<1>9. CASE Pickle
  <2>1. /\ Len(put_buffer') + Len(watching_broker') <= MaxBacklog
        /\ Disjoint(put_buffer)'
        /\ Abstract!NewHead
    BY <1>9, PickleIsNewHead
  <2> QED BY <2>1 DEF BInv, AbstractStep
<1>10. CASE \E p \in Pairs : InspectorThread(p)
  BY <1>4, <1>10 DEF InspectorThread
<1>11. CASE ReceiveBlock /\ UNCHANGED blocks
  <2>1. /\ Abstract!MainTasks
        /\ UNCHANGED put_buffer /\ Len(watching_broker') <= Len(watching_broker)
    BY <1>11, ReceiveRefines
  <2>2. Len(watching_broker') \in Nat
    BY QueueTypes, LenProperties DEF IInv, DiscoveryTypeOK, LogWatcherTypeOK
  <2>3. Len(put_buffer') + Len(watching_broker') <= MaxBacklog
    BY <1>1, <2>1, <2>2
  <2>4. Disjoint(put_buffer)'
    BY <2>1 DEF BInv, Disjoint
  <2> QED BY <2>1, <2>3, <2>4 DEF BInv, AbstractStep
<1>12. CASE InspectedAgain \/ InspectedFirst
  BY <1>4, <1>12 DEF InspectedAgain, InspectedFirst
<1>13. CASE \E p \in Pairs : BuyAcknowledged(p) \/ SellAcknowledged(p)
  <2>1. Abstract!MainTasks /\ UNCHANGED <<put_buffer, watching_broker>>
    BY <1>13, NotifyRefines DEF BuyAcknowledged, SellAcknowledged
  <2> QED BY <1>2, <2>1 DEF AbstractStep
<1>14. CASE ReporterThread
  BY <1>4, <1>14 DEF ReporterThread
<1> QED BY <1>5, <1>6, <1>7, <1>8, <1>9, <1>10, <1>11, <1>12, <1>13, <1>14
        DEF Next, WatcherTask

LEMMA WatcherInitially == Init => BInv /\ Abstract!WatcherInit({})
<1> SUFFICES ASSUME Init PROVE BInv /\ Abstract!WatcherInit({})
  OBVIOUS
<1>1. /\ put_buffer = <<>> /\ watching_broker = <<>> /\ announced = {}
      /\ tracked = [p \in Pairs |-> None]
  BY DEF Init, LogWatcherInit
<1>2. Len(put_buffer) = 0 /\ Len(watching_broker) = 0 /\ MaxBacklog \in Nat
  BY <1>1, LogWatcherAssumption
<1>3. BInv
  BY <1>2, InitIInv DEF BInv, Disjoint
<1>4. {p \in Pairs : IsTracked(p)} = {}
  BY <1>1 DEF IsTracked
<1> QED BY <1>1, <1>3, <1>4 DEF Abstract!WatcherInit

(* With the logs it reads, the calls that fail, the heads that are lost and *)
(* the blocks that are pickled late, watcher/block_watcher.py does no more  *)
(* than BlockWatcher says, whatever the chain does: the strategy may be     *)
(* studied with the simpler watcher.                                        *)
THEOREM WatcherIsBlockWatcher == Spec => WatcherImplements
<1>1. Init => BInv /\ Abstract!WatcherInit({})
  BY WatcherInitially
<1>2. BInv /\ [Next]_vars /\ IInv' => BInv' /\ [AbstractStep]_AbsVars
  BY WatcherStep
<1>3. [][AbstractStep]_AbsVars
        <=> [][Abstract!NewHead \/ Abstract!ListenReport \/ Abstract!MainTasks]_
               <<watching_broker, watching_notifier, Abstract!watcherVars>>
  BY DEF AbstractStep, AbsVars
<1> QED BY <1>1, <1>2, <1>3, SpecKeepsIInv, PTL DEF Spec, WatcherImplements
=============================================================================
