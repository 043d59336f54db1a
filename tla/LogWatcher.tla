------------------------------ MODULE LogWatcher ------------------------------
(***************************************************************************)
(* watcher/block_watcher.py in detail: heads are delivered in order but    *)
(* those that come while the websocket reconnects are lost, the logs of a  *)
(* head are fetched by its number while the state of a new pair is fetched *)
(* at 'latest', and each of these calls may fail on its own.               *)
(*                                                                         *)
(* multiprocessing's put() hands the BlockData to a feeder thread that     *)
(* pickles it later: the inventory it carries is that of the later moment. *)
(***************************************************************************)
EXTENDS Market, SequencesExt, FiniteSetsExt

CONSTANTS
    CreatorOf,      \* who gets the first liquidity tokens of each pair
    MaxBacklog,     \* bound of the model on the blocks under way to the strategy
    HeadsMayBeLost, \* whether the websocket may reconnect
    RpcMayFail      \* whether a call to the node may raise

\* The reserves of a pair, as the watcher keeps them.
Reserves == {[native |-> pool.native, token |-> pool.token] : pool \in Pools}

ASSUME LogWatcherAssumption ==
    /\ None \notin Reserves
    /\ CreatorOf \in [Pairs -> Creators]
    /\ MaxBacklog \in Nat \ {0}
    /\ HeadsMayBeLost \in BOOLEAN /\ RpcMayFail \in BOOLEAN

VARIABLES
    seen,               \* the number of the last head
    tracked,            \* BlockWatcher.inventory: the reserves of each pair, or None
    put_buffer,         \* blocks that are put but not pickled
    watching_broker,
    watching_notifier,
    announced,          \* history: the pairs of all the blocks
    missed              \* history: tracked pairs with a Sync event not read

watcherVars == <<seen, tracked, put_buffer, watching_broker, watching_notifier,
                 announced, missed>>

\* What the watcher says of a new pair: its creator, None if unknown, and its
\* reserves, zero if they could not be fetched.
NewPair == [address: Pairs, creator: Creators \cup {None}, reserve_eth: Nat]

Tracked == [Pairs -> Reserves \cup {None}]

Ack == [pair: Pairs, is_buy: BOOLEAN, tx_status: {"FAILED", "SUCCESS"}]

LogWatcherTypeOK ==
    /\ seen \in 0 .. Height
    /\ tracked \in Tracked
    /\ put_buffer \in Seq([number: Nat, pairs: SUBSET NewPair])
    /\ watching_broker \in Seq([number: Nat, pairs: SUBSET NewPair, inventory: Tracked])
    /\ watching_notifier \in Seq(Ack)
    /\ announced \subseteq Pairs
    /\ missed \subseteq Pairs

LogWatcherInit ==
    /\ seen = 0
    /\ tracked = [p \in Pairs |-> None]
    /\ put_buffer = <<>>
    /\ watching_broker = <<>>
    /\ watching_notifier = <<>>
    /\ announced = {}
    /\ missed = {}

\* Which of the two is the token depends on the order of the addresses.
FaultyReservesAt(p, n) ==
    [native |-> PoolAt(p, n).token, token |-> PoolAt(p, n).native]
ReservesAt(p, n) ==
    [native |-> PoolAt(p, n).native, token |-> PoolAt(p, n).token]

IsTracked(p) == tracked[p] # None

\* get_reserves_and_creator: the creator is who got the first liquidity tokens,
\* so there is none if the block of the creation has no deposit.
Fetched(p, number) ==
    [address |-> p,
     creator |-> IF PoolAt(p, number).native > 0 THEN CreatorOf[p] ELSE None,
     reserve_eth |-> Latest(p).native]
FaultyNotFetched(p) == [address |-> p, creator |-> None, reserve_eth |-> None]
NotFetched(p) == [address |-> p, creator |-> None, reserve_eth |-> 0]

\* filter_paircreated_log: the logs of all the pairs, then each pair by itself.
FoundPairs(number) ==
    LET created == {p \in Pairs : CreatedIn(p, number)}
        Found(failing) == {Fetched(p, number) : p \in created \ failing}
                             \cup {NotFetched(p) : p \in failing}
    IN IF RpcMayFail THEN {Found(failing) : failing \in SUBSET created} \cup {{}}
                     ELSE {Found({})}

\* filter_sync_log of the tracked pairs.
Synced(number) ==
    LET logs == {p \in Pairs : IsTracked(p) /\ Syncs(p, number)} IN
    IF RpcMayFail THEN SUBSET logs ELSE {logs}

\* Tracked pairs with a Sync event in one of the blocks.
WithSync(numbers) == {p \in Pairs : IsTracked(p) /\ \E n \in numbers : Syncs(p, n)}

\* listen_block and filter_log_in_block.
NewHead ==
    /\ Len(put_buffer) + Len(watching_broker) < MaxBacklog
    /\ \E number \in seen + 1 .. (IF HeadsMayBeLost \/ seen = Height
                                  THEN Height ELSE seen + 1) :
       \E pairs \in FoundPairs(number), synced \in Synced(number) :
          /\ tracked' = [p \in Pairs |-> IF p \in synced THEN ReservesAt(p, number)
                                                         ELSE tracked[p]]
          /\ missed' = (missed \cup WithSync(seen + 1 .. number)) \ synced
          /\ put_buffer' = Append(put_buffer, [number |-> number, pairs |-> pairs])
          /\ announced' = announced \cup {c.address : c \in pairs}
          /\ seen' = number
    /\ UNCHANGED <<watching_broker, watching_notifier>>

\* The feeder thread of the queue.
Pickle ==
    /\ put_buffer # <<>>
    /\ put_buffer' = Tail(put_buffer)
    /\ watching_broker' =
          Append(watching_broker,
                 [number |-> Head(put_buffer).number, pairs |-> Head(put_buffer).pairs,
                  inventory |-> tracked])
    /\ UNCHANGED <<seen, tracked, watching_notifier, announced, missed>>

\* add_pair_to_inventory
Follow(p) ==
    \/ /\ tracked' = [tracked EXCEPT ![p] = ReservesAt(p, Height)]
       /\ missed' = missed \ {p}
    \/ RpcMayFail /\ UNCHANGED <<tracked, missed>>

\* remove_pair_from_inventory
Forget(p) ==
    /\ tracked' = [tracked EXCEPT ![p] = None]
    /\ missed' = missed \ {p}

FaultyOpens(ack) == ack.is_buy
Opens(ack) == ack.is_buy /\ ack.tx_status = "SUCCESS"

ListenReport ==
    /\ watching_notifier # <<>>
    /\ watching_notifier' = Tail(watching_notifier)
    /\ LET ack == Head(watching_notifier) IN
       IF Opens(ack)
       THEN IF IsTracked(ack.pair) THEN UNCHANGED <<tracked, missed>>
                                   ELSE Follow(ack.pair)
       ELSE Forget(ack.pair)
    /\ UNCHANGED <<seen, put_buffer, watching_broker, announced>>

LogWatcherNext == NewHead \/ Pickle \/ ListenReport
=============================================================================
