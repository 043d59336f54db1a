------------------------------ MODULE Bootstrap ------------------------------
(***************************************************************************)
(* The script that is run by hand before and after trading                 *)
(* (executor/bootstrap.py): it creates accounts, pays them from the        *)
(* manager's account, has an inspection bot deployed, and sends what is    *)
(* left on the accounts to the treasury.                                   *)
(*                                                                         *)
(* A call works through a list, one transaction after the other, inside    *)
(* one try block: whatever raises ends it.  The operator calls again, and  *)
(* a transaction of the last call may still be pending then.               *)
(*                                                                         *)
(* A definition named Faulty... (or Skipping...) is a plausible mistake in *)
(* the definition that follows it.  Nothing uses it; putting it in the     *)
(* other's place shows that a property notices.                            *)
(***************************************************************************)
EXTENDS Integers, Sequences, FiniteSets

CONSTANTS
    Executors,         \* the accounts in the order they are created in
    Manager, Treasury,
    Factory,           \* the contract that deploys bots
    Idle,              \* no call is running
    INITIAL_BALANCE,
    RESERVE,           \* 2 * TRANSFER_GAS_LIMIT * GAS_PRICE_GWEI
    FEES,              \* what a transaction may cost
    MANAGER_BALANCE,
    MAX_CALLS          \* bounds the calls

Accounts == {Executors[i] : i \in DOMAIN Executors}

ASSUME BootstrapAssumption ==
    /\ Executors \in Seq(Accounts)
    /\ {Treasury, Factory} \cap Accounts = {}
    /\ INITIAL_BALANCE \in Nat /\ RESERVE \in Nat /\ MANAGER_BALANCE \in Nat
    /\ FEES \subseteq Nat
    /\ MAX_CALLS \in Nat

VARIABLES
    created,      \* how many accounts there are
    balance,
    next_nonce,   \* what get_transaction_count returns: how many are mined
    mempool,
    mined,
    call,         \* the call that is running
    calls,        \* how many there were
    asked         \* how often an account was to be paid, a history variable

chainVars == <<balance, next_nonce, mempool, mined>>
vars == <<created, chainVars, call, calls, asked>>

Init ==
    /\ created = 0
    /\ balance = [a \in Accounts \cup {Manager, Treasury, Factory} |->
                     IF a = Manager THEN MANAGER_BALANCE ELSE 0]
    /\ next_nonce = [a \in Accounts \cup {Manager} |-> 0]
    /\ mempool = {}
    /\ mined = {}
    /\ call = Idle
    /\ calls = 0
    /\ asked = [a \in Accounts |-> 0]

-----------------------------------------------------------------------------
(* The calls.                                                              *)

\* Parts of the list of accounts, in its order.
Lists == {SubSeq(Executors, i, k) : i \in 1 .. created, k \in 1 .. created} \ {<<>>}

Begin(kind, list, phase, value) ==
    /\ call = Idle
    /\ calls < MAX_CALLS
    /\ calls' = calls + 1
    /\ call' = [number |-> calls + 1, kind |-> kind, list |-> list, place |-> 1,
                phase |-> phase, value |-> value]
    /\ UNCHANGED chainVars

Fund(list) ==
    /\ Begin("fund", list, "send", INITIAL_BALANCE)
    /\ asked' = [a \in Accounts |->
                   asked[a] + Cardinality({i \in DOMAIN list : list[i] = a})]

CreateExecutorAndFund(number) ==
    /\ number \in 1 .. Len(Executors) - created
    /\ created' = created + number
    /\ Fund(SubSeq(Executors, created + 1, created + number))

FundExecutor == \E list \in Lists : Fund(list) /\ UNCHANGED created

\* BotFactory.create_bot signs with the manager's key as well.
CreateBot ==
    /\ Begin("create_bot", <<Factory>>, "send", 0)
    /\ UNCHANGED <<created, asked>>

Withdraw ==
    /\ \E list \in Lists : Begin("withdraw", list, "read", 0)
    /\ UNCHANGED <<created, asked>>

-----------------------------------------------------------------------------
(* One turn of the loop.                                                   *)

Current == call.list[call.place]
Payer == IF call.kind = "withdraw" THEN Current ELSE Manager
Payee == IF call.kind = "withdraw" THEN Treasury ELSE Current

\* The reserve need not be there: then the value is negative.
ReadBalance ==
    /\ call # Idle
    /\ call.phase = "read"
    /\ call' = [call EXCEPT !.phase = "send", !.value = balance[Current] - RESERVE]
    /\ UNCHANGED <<created, chainVars, calls, asked>>

Pending(account) == {tx \in mempool : tx.from = account}

\* create_bot passes the number of mined transactions (bot_factory.py:58).  The
\* transfers pass none: web3 fills in the 'pending' count when it signs them, so
\* that they queue behind what an earlier call left.
Nonce ==
    next_nonce[Payer] +
        (IF call.kind = "create_bot" THEN 0 ELSE Cardinality(Pending(Payer)))

Transfer ==
    [number |-> call.number, place |-> call.place, from |-> Payer, to |-> Payee,
     value |-> call.value, nonce |-> Nonce]

\* send_transaction goes through.  A pending transaction of the sender with the
\* same nonce is replaced, if the new one pays more.
SameSlot(tx) == {old \in Pending(tx.from) : old.nonce = tx.nonce}

Accepted(tx) ==
    /\ tx.value >= 0
    /\ \E fee \in FEES : balance[tx.from] >= tx.value + fee
    /\ mempool' = (mempool \ SameSlot(tx)) \cup {tx}
    /\ UNCHANGED <<balance, next_nonce, mined>>

Send ==
    /\ call # Idle
    /\ call.phase = "send"
    /\ Accepted(Transfer)
    /\ call' = [call EXCEPT !.phase = "wait"]
    /\ UNCHANGED <<created, calls, asked>>

\* The receipt is there; a reverted transaction is only logged.
GetReceipt ==
    /\ call # Idle
    /\ call.phase = "wait"
    /\ \E tx \in mined : tx.number = call.number /\ tx.place = call.place
    /\ call' = IF call.place = Len(call.list) THEN Idle
               ELSE [call EXCEPT !.place = @ + 1,
                                 !.phase = IF call.kind = "withdraw" THEN "read" ELSE "send"]
    /\ UNCHANGED <<created, chainVars, calls, asked>>

FaultyGivenUp == call' = [call EXCEPT !.phase = "send"]
SkippingGivenUp ==
    call' = IF call.place = Len(call.list) THEN Idle
            ELSE [call EXCEPT !.place = @ + 1, !.phase = "send"]
GivenUp == call' = Idle

\* A call to the node raises or times out: a negative value, too little money, a
\* nonce that is taken by one that pays more or used up since it was read, no
\* receipt in time.  The node may have accepted the transaction.
Raises ==
    /\ call # Idle
    /\ GivenUp
    /\ \/ UNCHANGED chainVars
       \/ call.phase = "send" /\ Accepted(Transfer)
    /\ UNCHANGED <<created, calls, asked>>

\* The transactions of an account are mined in the order of their nonces.
Mine(tx) ==
    /\ tx.nonce = next_nonce[tx.from]
    /\ mempool' = mempool \ {tx}
    /\ mined' = mined \cup {tx}
    /\ next_nonce' = [next_nonce EXCEPT ![tx.from] = @ + 1]
    /\ \E fee \in FEES, sent \in {0, tx.value} :
          /\ balance[tx.from] >= tx.value + fee
          /\ balance' = [balance EXCEPT ![tx.from] = @ - sent - fee, ![tx.to] = @ + sent]
    /\ UNCHANGED <<created, call, calls, asked>>

Next ==
    \/ \E number \in 1 .. Len(Executors) : CreateExecutorAndFund(number)
    \/ FundExecutor \/ CreateBot \/ Withdraw
    \/ ReadBalance \/ Send \/ GetReceipt \/ Raises
    \/ \E tx \in mempool : Mine(tx)

Spec == Init /\ [][Next]_vars

-----------------------------------------------------------------------------
\* An account is paid at most as often as the operator asked for it, though a call
\* that gave up may have sent a transaction that stays pending, ahead of those of the
\* calls that follow, and is mined while they run or after them
\* (bootstrap.py:60-73).
PaidAsAsked ==
    \A a \in Accounts :
        Cardinality({tx \in mempool \cup mined : tx.to = a}) <= asked[a]

\* A call that fails half-way leaves a list of which a first part is done and
\* nothing after it was begun: the operator can go on from the account in the log
\* (bootstrap.py:60-73, 79-102).
DoneInOrder ==
    call # Idle =>
        \A i \in DOMAIN call.list :
            LET sent == {tx \in mempool \cup mined : tx.number = call.number /\ tx.place = i}
            IN /\ i < call.place => sent \cap mined # {}
               /\ i > call.place => sent = {}
=============================================================================
