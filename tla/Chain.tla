-------------------------------- MODULE Chain --------------------------------
(***************************************************************************)
(* The Ethereum node and chain as the executor and the bot factory use     *)
(* them through web3: nonces, the pool of pending transactions, receipts,  *)
(* the SnipeBot contracts and the tokens they hold.  Only what SnipeBot    *)
(* itself demands comes from the repository (SnipeBot.sol); the node is    *)
(* not part of it.                                                         *)
(*                                                                         *)
(* Amounts are left out: a contract holds tokens of a pair or it does not. *)
(***************************************************************************)
EXTENDS Brokers

CONSTANTS
    NodeMayFail,             \* may a call to the node raise?
    RECEIPT_TIMEOUT,         \* of wait_for_transaction_receipt, in seconds
    DEADLINE_DELAY_SECONDS

ASSUME ChainAssumption ==
    /\ NodeMayFail \in BOOLEAN
    /\ RECEIPT_TIMEOUT \in Nat /\ DEADLINE_DELAY_SECONDS \in Nat

VARIABLES
    bot_owner,    \* who owns the contract at an address, None if there is none
    next_nonce,   \* what get_transaction_count returns
    mempool,      \* the transactions that are pending
    receipts,     \* the status of the mined ones, by the order they serve
    tokens        \* the pairs whose tokens a contract holds: <<bot, pair>>

chainVars == <<bot_owner, next_nonce, mempool, receipts, tokens>>

\* A call of SnipeBot.buy or SnipeBot.sell on behalf of order n.  It is late
\* when its deadline has passed.
Transaction ==
    [n: Nat, signer: Accounts, nonce: Nat, bot: Bots, pair: Pairs,
     is_buy: BOOLEAN, late: BOOLEAN]

ChainTypeOK ==
    /\ bot_owner \in [Bots -> Signers \cup {None}]
    /\ next_nonce \in [Accounts -> Nat]
    /\ mempool \subseteq Transaction
    /\ receipts \subseteq [n: Nat, status: TxStatus]
    /\ tokens \subseteq Bots \X Pairs

Deployed == {b \in Bots : bot_owner[b] # None}

\* Factory.createBot makes a clone with its owner in the code, at an address where
\* there is none yet; the salt is the time, so there is always a fresh address.
Create(address, owner) ==
    /\ address \notin Deployed
    /\ bot_owner' = [bot_owner EXCEPT ![address] = owner]
    /\ UNCHANGED <<next_nonce, mempool, receipts, tokens>>

SameSlot(tx) ==
    {old \in mempool : old.signer = tx.signer /\ old.nonce = tx.nonce}

\* send_raw_transaction succeeds.  A transaction with the nonce of a pending one
\* takes its place, if it pays more.
Accept(tx) ==
    /\ tx.nonce >= next_nonce[tx.signer]
    /\ mempool' = (mempool \ SameSlot(tx)) \cup {tx}
    /\ UNCHANGED <<bot_owner, next_nonce, receipts, tokens>>

\* send_raw_transaction raises: the nonce is used up, or pays too little to
\* replace a pending transaction.
Refuses(tx) == tx.nonce < next_nonce[tx.signer] \/ SameSlot(tx) # {}

\* What SnipeBot.buy and SnipeBot.sell require: the caller owns the contract,
\* the router accepts the deadline, and there is something to sell.
MaySucceed(tx) ==
    /\ bot_owner[tx.bot] = tx.signer
    /\ ~ tx.late
    /\ tx.is_buy \/ <<tx.bot, tx.pair>> \in tokens

\* A pending transaction enters a block.  It may always revert: another trade
\* may have moved the price, or the token may forbid the transfer.
Mine(tx) ==
    /\ tx \in mempool
    /\ tx.nonce = next_nonce[tx.signer]
    /\ mempool' = mempool \ {tx}
    /\ next_nonce' = [next_nonce EXCEPT ![tx.signer] = @ + 1]
    /\ \/ /\ MaySucceed(tx)
          /\ receipts' = receipts \cup {[n |-> tx.n, status |-> "SUCCESS"]}
          /\ tokens' = IF tx.is_buy
                       THEN tokens \cup {<<tx.bot, tx.pair>>}
                       ELSE tokens \ {<<tx.bot, tx.pair>>}
       \/ /\ receipts' = receipts \cup {[n |-> tx.n, status |-> "FAILED"]}
          /\ UNCHANGED tokens
    /\ UNCHANGED bot_owner

\* RECEIPT_TIMEOUT seconds after order n was sent the deadline, counted from
\* the block that led to the order, may have passed.
FaultyExpire(n) == UNCHANGED mempool
Expire(n) ==
    mempool' = {IF tx.n = n
                THEN [tx EXCEPT !.late = @ \/ RECEIPT_TIMEOUT >= DEADLINE_DELAY_SECONDS]
                ELSE tx : tx \in mempool}
=============================================================================
