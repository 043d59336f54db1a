------------------------------- MODULE Inspector -------------------------------
(***************************************************************************)
(* inspector/pair_inspector.py and inspector/ethcall_simulator.py: the     *)
(* decision about each pair of a batch.  A batch runs in a pool of threads *)
(* and every question to the database, the explorer or the node is a step: *)
(* the chain goes on between two of them.                                  *)
(*                                                                         *)
(* A phase is named for the question it waits for.  An exception that      *)
(* leaves inspect_pair drops the result of the pair, which the strategy    *)
(* treats like a result without a simulation: both are "failed".           *)
(* The explorer's answer with status 0 (a refusal, or nothing found) is    *)
(* not an exception and means "nothing wrong" to every check.              *)
(***************************************************************************)
EXTENDS SnipeBot, FiniteSets, FiniteSetsExt

CONSTANTS
    MinReserve, MaxReserve,     \* RESERVE_ETH_MIN_THRESHOLD and ..._MAX_...
    MinSlippage, MaxSlippage,   \* SLIPPAGE_MIN_THRESHOLD and ..._MAX_..., basis points
    SimulationAmount,           \* SIMULATION_AMOUNT in wei
    FrozenFor,                  \* ROGUE_CREATOR_FROZEN_SECONDS
    ListedFor,                  \* the 90 days of is_malicious
    PageSize,                   \* page_size of get_txlist
    FreezeTimes,                \* bound of the model: when the reporter freezes a creator
    BalanceSlot,                \* the storage slot of each token's balances
    ExplorerMayRefuse,          \* whether the explorer may answer with status 0
    CallsMayFail                \* whether a call to a service may raise

ASSUME InspectorAssumption ==
    /\ MinReserve \in Nat /\ MaxReserve \in Nat
    /\ MinSlippage \in Nat /\ MaxSlippage \in Nat
    /\ SimulationAmount \in Nat \ {0}
    /\ FrozenFor \in Nat /\ ListedFor \in Nat
    /\ PageSize \in Nat \ {0}
    /\ FreezeTimes \subseteq Nat
    /\ BalanceSlot \in [Pairs -> Nat]
    /\ ExplorerMayRefuse \in BOOLEAN /\ CallsMayFail \in BOOLEAN

VARIABLES
    to_block,       \* the block_number of the batch
    threads,        \* the inspection of each pair of the batch, or None
    black_list      \* table blacklist: the row of each creator, or None

inspectorVars == <<to_block, threads, black_list>>

\* data_struct.Pair, as far as an inspection and the strategy read it.
\* number_tx_mm is whether it reaches NUMBER_TX_MM_THRESHOLD.
Pair ==
    [address: Pairs, creator: Creators \cup {None}, reserve_eth: Nat, created_at: Nat,
     inspect_attempts: Nat, contract_verified: BOOLEAN, number_tx_mm: BOOLEAN,
     last_inspected_block: Nat]

BlackList == [created_at: Nat, frozen_at: Nat]

\* bought_at and sold_at are the heights of the simulated calls, cleared and
\* quiet say whether the explorer answered about the token's calls.
Inspection ==
    [pair: Pair, is_initial: BOOLEAN,
     phase: {"creator", "txlist", "source", "calls", "swaps",
             "buy", "sell", "passed", "failed"},
     contract_verified: BOOLEAN, number_tx_mm: BOOLEAN,
     bought_at: Nat, sold_at: Nat, cleared: BOOLEAN, quiet: BOOLEAN]

InspectorTypeOK ==
    /\ to_block \in Nat
    /\ threads \in [Pairs -> Inspection \cup {None}]
    /\ black_list \in [Creators -> BlackList \cup {None}]

InspectorInit ==
    /\ to_block = 0
    /\ threads = [p \in Pairs |-> None]
    /\ black_list = [c \in Creators |-> None]

NewInspection(pair, is_initial) ==
    [pair |-> pair, is_initial |-> is_initial, phase |-> "creator",
     contract_verified |-> FALSE, number_tx_mm |-> FALSE,
     bought_at |-> 0, sold_at |-> 0, cleared |-> FALSE, quiet |-> FALSE]

\* inspect_batch of a set of pairs.
InspectBatch(batch, is_initial, block_number) ==
    /\ to_block' = block_number
    /\ threads' = [p \in Pairs |->
          IF \E pair \in batch : pair.address = p
          THEN NewInspection(CHOOSE pair \in batch : pair.address = p, is_initial)
          ELSE None]

IsDone(p) == threads[p] # None => threads[p].phase \in {"passed", "failed"}
BatchDone == \A p \in Pairs : IsDone(p)
Passed(p) == threads[p] # None /\ threads[p].phase = "passed"

At(p, phase) == threads[p] # None /\ threads[p].phase = phase

Becomes(p, inspection) ==
    /\ threads' = [threads EXCEPT ![p] = inspection]
    /\ UNCHANGED <<to_block, black_list>>

GoesTo(p, phase) == Becomes(p, [threads[p] EXCEPT !.phase = phase])
Fails(p) == GoesTo(p, "failed")

Raises(p, phase) == CallsMayFail /\ At(p, phase) /\ Fails(p)

-----------------------------------------------------------------------------
(* is_malicious                                                            *)

ReserveInRange(pair) == pair.reserve_eth >= MinReserve /\ pair.reserve_eth <= MaxReserve

\* The time is the height of the chain.
FaultyIsBlacklisted(creator) ==
    /\ black_list[creator] # None
    /\ Height - black_list[creator].frozen_at >= FrozenFor
    /\ Height - black_list[creator].created_at <= ListedFor
IsBlacklisted(creator) ==
    /\ black_list[creator] # None
    /\ Height - black_list[creator].frozen_at <= FrozenFor
    /\ Height - black_list[creator].created_at <= ListedFor

\* A new pair out of range is not inspected; a pair whose creator is None
\* raises outside the try block.
CheckCreator(p) ==
    /\ At(p, "creator")
    /\ LET pair == threads[p].pair IN
       IF \/ threads[p].is_initial /\ ~ ReserveInRange(pair)
          \/ pair.creator = None
          \/ pair.creator # None /\ IsBlacklisted(pair.creator)
       THEN Fails(p)
       ELSE GoesTo(p, "txlist")

\* The calls to a token the explorer lists: the latest PageSize of a range.
TxList(p, first, last) ==
    LET called == {n \in first .. last : blocks[n][p].call # "none"} IN
    {n \in called : Cardinality({k \in called : k > n}) < PageSize}

Called(p, numbers, methods) == \E n \in numbers : blocks[n][p].call \in methods

\* getcontractcreation and txlist; any exception is UNVERIFIED.  The creation
\* of the token is before block 1 or in it.
CheckIncomingTxs(p) ==
    /\ At(p, "txlist")
    /\ \/ IF Called(p, TxList(p, 1, to_block), {"abnormal"})
          THEN Fails(p)
          ELSE Becomes(p, [threads[p] EXCEPT !.phase = "source", !.cleared = TRUE])
       \/ ExplorerMayRefuse /\ GoesTo(p, "source")

-----------------------------------------------------------------------------
(* The rest of inspect_pair.                                               *)

\* is_contract_verified: asked once it is true never again, and no reason to
\* stop if it is false.
IsContractVerified(p) ==
    /\ At(p, "source")
    /\ \E verified \in IF threads[p].pair.contract_verified THEN {TRUE} ELSE BOOLEAN :
          Becomes(p, [threads[p] EXCEPT
                         !.contract_verified = verified,
                         !.phase = IF threads[p].is_initial THEN "buy" ELSE "calls"])

FromBlock(pair) == pair.last_inspected_block + 1

\* is_creator_call_contract: transfers count as well.
CheckCallsOfCreator(p) ==
    /\ At(p, "calls")
    /\ \/ IF Called(p, TxList(p, FromBlock(threads[p].pair), to_block),
                    {"abnormal", "transfer"})
          THEN Fails(p)
          ELSE Becomes(p, [threads[p] EXCEPT !.phase = "swaps", !.quiet = TRUE])
       \/ ExplorerMayRefuse /\ GoesTo(p, "swaps")

CountSwaps(p) ==
    /\ At(p, "swaps")
    /\ \E enough \in BOOLEAN :
          Becomes(p, [threads[p] EXCEPT !.phase = "buy", !.number_tx_mm = enough])

-----------------------------------------------------------------------------
(* EthCallSimulator.inspect_pair: a buy and a sell, each an eth_call at    *)
(* 'latest', the second with the tokens of the first written into storage. *)

SimulateBuy(p) ==
    /\ At(p, "buy")
    /\ IF BuySucceeds(Latest(p), SimulationAmount)
       THEN Becomes(p, [threads[p] EXCEPT !.phase = "sell", !.bought_at = Height])
       ELSE Fails(p)

\* determine_balance_slot_index: the first of nine slots that changes the balance.
HasBalanceSlot(p) == \E idx \in 0 .. 8 : idx = BalanceSlot[p]

AmountToken(p) == TokensBought(PoolAt(p, threads[p].bought_at), SimulationAmount)

\* In basis points, times SimulationAmount.
Slippage(amount_out) == (SimulationAmount - amount_out) * 10000

FaultyAccepts(amount_out) == Slippage(amount_out) > MinSlippage * SimulationAmount
Accepts(amount_out) ==
    /\ Slippage(amount_out) > MinSlippage * SimulationAmount
    /\ Slippage(amount_out) < MaxSlippage * SimulationAmount

FaultySellAnswers(p) == HasBalanceSlot(p) /\ HasLiquidity(Latest(p))
SellAnswers(p) == HasBalanceSlot(p) /\ SellSucceeds(Latest(p), AmountToken(p))

SimulateSell(p) ==
    /\ At(p, "sell")
    /\ IF SellAnswers(p) /\ Accepts(NativeSold(Latest(p), AmountToken(p)))
       THEN Becomes(p, [threads[p] EXCEPT !.phase = "passed", !.sold_at = Height])
       ELSE Fails(p)

-----------------------------------------------------------------------------
InspectPair(p) ==
    \/ CheckCreator(p)
    \/ CheckIncomingTxs(p) \/ IsContractVerified(p)
    \/ CheckCallsOfCreator(p) \/ CountSwaps(p)
    \/ SimulateBuy(p) \/ SimulateSell(p)
    \/ \E phase \in {"creator", "txlist", "source", "calls", "swaps",
                     "buy", "sell"} : Raises(p, phase)

\* Reporter.save_blacklist, about another pair of the creator.
SaveBlackList(creator) ==
    /\ Height \in FreezeTimes
    /\ black_list' =
          [black_list EXCEPT ![creator] =
              IF @ = None THEN [created_at |-> Height, frozen_at |-> Height]
                          ELSE [@ EXCEPT !.frozen_at = Height]]
    /\ UNCHANGED <<to_block, threads>>
=============================================================================
