--------------------------- MODULE BootstrapProofs ---------------------------
(***************************************************************************)
(* Theorems about the script that pays and empties the accounts, for every *)
(* list of accounts and any number of calls that give up half-way:         *)
(* PaidAsAsked and DoneInOrder, and that what was sent is displaced by a   *)
(* deployment only.                                                        *)
(***************************************************************************)
EXTENDS Bootstrap, FiniteSetTheorems, SequenceTheorems, TLAPS

-----------------------------------------------------------------------------
(* Types.                                                                  *)

Holders == Accounts \cup {Manager, Treasury, Factory}

Call ==
  [number: Nat, kind: {"fund", "create_bot", "withdraw"},
   list: Seq(Accounts \cup {Factory}), place: Nat,
   phase: {"read", "send", "wait"}, value: Int]

Tx ==
  [number: Nat, place: Nat, from: Accounts \cup {Manager}, to: Holders,
   value: Int, nonce: Nat]

\* A call works on accounts or on the factory.
ListOK(kind, list) ==
  IF kind = "create_bot" THEN list = <<Factory>> ELSE list \in Seq(Accounts)

\* The calls are numbered, and work on a place of their list.
CallOK ==
  /\ call \in Call
  /\ call.place \in 1 .. Len(call.list)
  /\ call.number = calls
  /\ ListOK(call.kind, call.list)

TypeInv ==
  /\ created \in 0 .. Len(Executors)
  /\ balance \in [Holders -> Int]
  /\ next_nonce \in [Accounts \cup {Manager} -> Nat]
  /\ mempool \cup mined \subseteq Tx
  /\ IsFiniteSet(mempool \cup mined)
  /\ calls \in Nat
  /\ asked \in [Accounts -> Nat]
  /\ call # Idle => CallOK

LEMMA InitTypes == Init => TypeInv
<1> SUFFICES ASSUME Init PROVE TypeInv
  OBVIOUS
<1>1. created \in 0 .. Len(Executors)
  BY BootstrapAssumption DEF Init
<1>2. balance \in [Holders -> Int]
  BY BootstrapAssumption DEF Init, Holders
<1>3. IsFiniteSet(mempool \cup mined) /\ mempool \cup mined \subseteq Tx
  BY FS_EmptySet DEF Init
<1> QED BY <1>1, <1>2, <1>3 DEF Init, TypeInv

(* What is begun is a list with a place one, and nothing else changes.     *)
LEMMA BeginFacts ==
  ASSUME TypeInv, NEW kind \in {"fund", "create_bot", "withdraw"},
         NEW list \in Seq(Accounts \cup {Factory}), list # <<>>,
         NEW phase \in {"read", "send"}, NEW value \in Int,
         ListOK(kind, list),
         Begin(kind, list, phase, value)
  PROVE  /\ CallOK'
         /\ call'.kind = kind /\ call'.list = list
         /\ call'.place = 1 /\ call'.phase = phase
         /\ calls' = calls + 1 /\ calls' \in Nat
         /\ UNCHANGED chainVars
<1>1. /\ call' = [number |-> calls + 1, kind |-> kind, list |-> list, place |-> 1,
                  phase |-> phase, value |-> value]
      /\ calls' = calls + 1
      /\ UNCHANGED chainVars
  BY DEF Begin
<1>2. calls \in Nat
  BY DEF TypeInv
<1>3. Len(list) \in Nat \ {0}
  BY EmptySeq
<1>4. call' \in Call
  BY <1>1, <1>2 DEF Call
<1> QED BY <1>1, <1>2, <1>3, <1>4 DEF CallOK

LEMMA PartOfExecutors ==
  ASSUME NEW m \in 1 .. Len(Executors), NEW n \in 1 .. Len(Executors)
  PROVE  SubSeq(Executors, m, n) \in Seq(Accounts)
<1>1. Executors \in Seq(Accounts) /\ Len(Executors) \in Nat
  BY BootstrapAssumption, LenProperties
<1>2. m \in Int /\ n \in Int
  BY <1>1
<1>3. \A i \in m .. n : Executors[i] \in Accounts
  BY <1>1, <1>2, ElementOfSeq
<1> QED BY <1>2, <1>3, SubSeqProperties

LEMMA ListsAreParts ==
  ASSUME TypeInv, NEW list \in Lists
  PROVE  list \in Seq(Accounts) /\ list # <<>>
<1>1. PICK m \in 1 .. created, n \in 1 .. created : list = SubSeq(Executors, m, n)
  BY DEF Lists
<1>2. m \in 1 .. Len(Executors) /\ n \in 1 .. Len(Executors)
  BY BootstrapAssumption, LenProperties DEF TypeInv
<1> QED BY <1>1, <1>2, PartOfExecutors DEF Lists

LEMMA ListOfNew ==
  ASSUME TypeInv, NEW number \in 1 .. Len(Executors) - created
  PROVE  /\ SubSeq(Executors, created + 1, created + number) \in Seq(Accounts)
         /\ SubSeq(Executors, created + 1, created + number) # <<>>
         /\ created + number \in 0 .. Len(Executors)
<1>1. /\ Executors \in Seq(Accounts) /\ Len(Executors) \in Nat
      /\ created \in Nat /\ number \in Nat /\ created + number <= Len(Executors)
      /\ number >= 1
  BY BootstrapAssumption, LenProperties DEF TypeInv
<1>2. created + 1 \in 1 .. Len(Executors) /\ created + number \in 1 .. Len(Executors)
  BY <1>1
<1>3. Len(SubSeq(Executors, created + 1, created + number)) = number
  <2>1. \A i \in created + 1 .. created + number : Executors[i] \in Accounts
    BY <1>1, ElementOfSeq
  <2>2. created + 1 \in Int /\ created + number \in Int /\ created + 1 <= created + number
    BY <1>1
  <2>3. Len(SubSeq(Executors, created + 1, created + number))
          = (created + number) - (created + 1) + 1
    BY <2>1, <2>2, SubSeqProperties
  <2> QED BY <1>1, <2>3
<1>4. SubSeq(Executors, created + 1, created + number) # <<>>
  BY <1>1, <1>3, EmptySeq
<1> QED BY <1>1, <1>2, <1>4, PartOfExecutors

(* The places of a list where a is named.                                  *)
Named(list, a) == {i \in DOMAIN list : list[i] = a}

LEMMA NamedFinite ==
  ASSUME NEW S, NEW list \in Seq(S), NEW a
  PROVE  IsFiniteSet(Named(list, a)) /\ Cardinality(Named(list, a)) \in Nat
<1>1. IsFiniteSet(1 .. Len(list)) /\ DOMAIN list = 1 .. Len(list)
  BY FS_Interval, LenProperties
<1>2. IsFiniteSet(Named(list, a))
  BY <1>1, FS_Subset DEF Named
<1> QED BY <1>2, FS_CardinalityType

(* A call begins that pays (or none of it) the accounts of its list.       *)
LEMMA FundFacts ==
  ASSUME TypeInv, NEW list \in Seq(Accounts), list # <<>>, Fund(list)
  PROVE  /\ CallOK' /\ call = Idle
         /\ call'.kind = "fund" /\ call'.list = list
         /\ call'.place = 1 /\ call'.phase = "send"
         /\ calls' = calls + 1 /\ calls' \in Nat
         /\ asked' \in [Accounts -> Nat]
         /\ \A a \in Accounts : asked'[a] = asked[a] + Cardinality(Named(list, a))
         /\ UNCHANGED chainVars
<1>1. Begin("fund", list, "send", INITIAL_BALANCE) /\ call = Idle
  BY DEF Fund, Begin
<1>2. list \in Seq(Accounts \cup {Factory}) /\ INITIAL_BALANCE \in Int
  BY BootstrapAssumption
<1>3. asked' = [a \in Accounts |-> asked[a] + Cardinality(Named(list, a))]
  BY DEF Fund, Named
<1>4. \A a \in Accounts : asked[a] \in Nat /\ Cardinality(Named(list, a)) \in Nat
  BY NamedFinite DEF TypeInv
<1>5. /\ CallOK'
      /\ call'.kind = "fund" /\ call'.list = list
      /\ call'.place = 1 /\ call'.phase = "send"
      /\ calls' = calls + 1 /\ calls' \in Nat
      /\ UNCHANGED chainVars
  BY <1>1, <1>2, BeginFacts DEF ListOK
<1> QED BY <1>1, <1>3, <1>4, <1>5

-----------------------------------------------------------------------------
(* The steps, by what they do to the call, to the requests and to what was *)
(* sent.                                                                   *)

Sent == mempool \cup mined

Starts ==
  /\ call = Idle /\ CallOK' /\ call'.place = 1
  /\ calls' = calls + 1
  /\ UNCHANGED chainVars

StartsToPay ==
  /\ Starts
  /\ call'.kind = "fund" /\ call'.phase = "send"
  /\ \A a \in Accounts : asked'[a] = asked[a] + Cardinality(Named(call'.list, a))

StartsOther ==
  /\ Starts
  /\ call'.kind # "fund"
  /\ UNCHANGED asked

\* The same turn of the same call, which was about to read the balance.
Reads ==
  /\ call # Idle /\ call.phase = "read"
  /\ CallOK' /\ call' = [call EXCEPT !.phase = "send", !.value = call'.value]
  /\ UNCHANGED <<chainVars, calls, asked>>

Adds ==
  /\ call # Idle /\ call.phase = "send"
  /\ Transfer \in Tx
  /\ Sent' \subseteq Sent \cup {Transfer}
  /\ UNCHANGED <<mined, calls, asked>>

Sends ==
  /\ Adds
  /\ CallOK' /\ call' = [call EXCEPT !.phase = "wait"]

Ends ==
  /\ call # Idle /\ call' = Idle
  /\ Adds \/ UNCHANGED <<chainVars, calls, asked>>

GoesOn ==
  /\ call # Idle /\ call.phase = "wait"
  /\ \E tx \in mined : tx.number = call.number /\ tx.place = call.place
  /\ CallOK' /\ call'.list = call.list /\ call'.kind = call.kind
  /\ call'.place = call.place + 1
  /\ UNCHANGED <<chainVars, calls, asked>>

Mines ==
  /\ Sent' = Sent /\ mined \subseteq mined'
  /\ UNCHANGED <<call, calls, asked>>

LEMMA CurrentIsKnown ==
  ASSUME TypeInv, call # Idle
  PROVE  /\ Current \in Accounts \cup {Factory}
         /\ IF call.kind = "create_bot" THEN Current = Factory ELSE Current \in Accounts
<1>1. CallOK
  BY DEF TypeInv
<1>2. /\ call.list \in Seq(Accounts \cup {Factory})
      /\ call.place \in 1 .. Len(call.list)
  BY <1>1 DEF CallOK, Call
<1>3. call.kind # "create_bot" => Current \in Accounts
  BY <1>1, <1>2, ElementOfSeq DEF CallOK, ListOK, Current
<1>4. call.kind = "create_bot" => Current = Factory
  BY <1>1, <1>2 DEF CallOK, ListOK, Current
<1> QED BY <1>3, <1>4

LEMMA TransferTyped ==
  ASSUME TypeInv, call # Idle, call.kind = "withdraw" => call.phase # "read"
  PROVE  Transfer \in Tx
<1>1. CallOK /\ call \in Call
  BY DEF TypeInv, CallOK
<1>2. Payer \in Accounts \cup {Manager} /\ Payee \in Holders
  BY <1>1, CurrentIsKnown DEF Payer, Payee, Holders, Call
<1>3. Nonce \in Nat
  <2>1. next_nonce[Payer] \in Nat
    BY <1>2 DEF TypeInv
  <2>2. IsFiniteSet(Pending(Payer))
    BY FS_Subset DEF TypeInv, Pending
  <2>3. Cardinality(Pending(Payer)) \in Nat
    BY <2>2, FS_CardinalityType
  <2> QED BY <2>1, <2>3 DEF Nonce
<1>4. call.number \in Nat /\ call.place \in Nat /\ call.value \in Int
  BY <1>1 DEF Call
<1> QED BY <1>2, <1>3, <1>4 DEF Transfer, Tx

LEMMA AcceptedAdds ==
  ASSUME TypeInv, call # Idle, call.phase = "send", Accepted(Transfer),
         UNCHANGED <<calls, asked>>
  PROVE  /\ Adds
         /\ UNCHANGED <<balance, next_nonce>>
         /\ IsFiniteSet(Sent') /\ Sent' \subseteq Tx
<1>1. Transfer \in Tx
  BY TransferTyped
<1>2. Sent' \subseteq Sent \cup {Transfer} /\ UNCHANGED <<balance, next_nonce, mined>>
  BY DEF Accepted, Sent
<1>3. IsFiniteSet(Sent) /\ Sent \subseteq Tx
  BY DEF TypeInv, Sent
<1>4. IsFiniteSet(Sent \cup {Transfer})
  BY <1>3, FS_AddElement
<1>5. IsFiniteSet(Sent')
  BY <1>2, <1>4, FS_Subset
<1> QED BY <1>1, <1>2, <1>3, <1>5 DEF Adds

(* The next phase of a call is one of the same call.                       *)
LEMMA PhaseChanges ==
  ASSUME TypeInv, call # Idle, NEW phase \in {"read", "send", "wait"},
         NEW value \in Int,
         call' = [call EXCEPT !.phase = phase, !.value = value],
         UNCHANGED calls
  PROVE  CallOK'
<1>1. call \in Call /\ CallOK
  BY DEF TypeInv, CallOK
<1>2. /\ call' \in Call
      /\ call'.list = call.list /\ call'.place = call.place
      /\ call'.kind = call.kind /\ call'.number = call.number
  BY <1>1 DEF Call
<1> QED BY <1>1, <1>2 DEF CallOK

StepOK ==
  /\ TypeInv'
  /\ \/ StartsToPay \/ StartsOther \/ Reads \/ Sends \/ Ends \/ GoesOn \/ Mines
     \/ UNCHANGED vars

LEMMA FundStep ==
  ASSUME TypeInv, NEW list \in Seq(Accounts), list # <<>>, Fund(list),
         created' \in 0 .. Len(Executors)
  PROVE  StepOK
<1>1. /\ CallOK' /\ call = Idle
      /\ call'.kind = "fund" /\ call'.list = list
      /\ call'.place = 1 /\ call'.phase = "send"
      /\ calls' = calls + 1 /\ calls' \in Nat
      /\ asked' \in [Accounts -> Nat]
      /\ \A a \in Accounts : asked'[a] = asked[a] + Cardinality(Named(list, a))
      /\ UNCHANGED chainVars
  BY FundFacts
<1>2. StartsToPay
  BY <1>1 DEF StartsToPay, Starts
<1> QED BY <1>1, <1>2 DEF StepOK, TypeInv, chainVars

LEMMA OtherCallStep ==
  ASSUME TypeInv, CreateBot \/ Withdraw
  PROVE  StepOK
<1>1. PICK kind \in {"create_bot", "withdraw"}, list \in Seq(Accounts \cup {Factory}),
           phase \in {"read", "send"} :
         /\ Begin(kind, list, phase, 0) /\ list # <<>>
         /\ ListOK(kind, list)
         /\ UNCHANGED <<created, asked>>
  <2>1. CASE CreateBot
    <3>1. <<Factory>> \in Seq(Accounts \cup {Factory}) /\ <<Factory>> # <<>>
      OBVIOUS
    <3> QED BY <2>1, <3>1 DEF CreateBot, ListOK
  <2>2. CASE Withdraw
    <3>1. PICK list \in Lists : Begin("withdraw", list, "read", 0)
      BY <2>2 DEF Withdraw
    <3>2. list \in Seq(Accounts) /\ list # <<>>
      BY ListsAreParts
    <3>3. list \in Seq(Accounts \cup {Factory})
      BY <3>2
    <3> QED BY <2>2, <3>1, <3>2, <3>3 DEF Withdraw, ListOK
  <2> QED BY <2>1, <2>2
<1>2. kind \in {"fund", "create_bot", "withdraw"} /\ 0 \in Int
  OBVIOUS
<1>3. /\ CallOK'
      /\ call'.kind = kind /\ call'.list = list
      /\ call'.place = 1 /\ call'.phase = phase
      /\ calls' = calls + 1 /\ calls' \in Nat
      /\ UNCHANGED chainVars
  BY <1>1, <1>2, BeginFacts
<1>4. call = Idle
  BY <1>1 DEF Begin
<1>5. StartsOther
  BY <1>1, <1>3, <1>4 DEF StartsOther, Starts
<1> QED BY <1>1, <1>3, <1>5 DEF StepOK, TypeInv, chainVars

LEMMA ReadStep ==
  ASSUME TypeInv, ReadBalance
  PROVE  StepOK
<1>1. call # Idle /\ call.phase = "read" /\ UNCHANGED <<created, chainVars, calls, asked>>
  BY DEF ReadBalance
<1>2. call \in Call
  BY <1>1 DEF TypeInv, CallOK
<1> DEFINE value == balance[Current] - RESERVE
<1>3. value \in Int
  BY <1>1, CurrentIsKnown, BootstrapAssumption DEF TypeInv, Holders
<1>4. call' = [call EXCEPT !.phase = "send", !.value = value]
  BY DEF ReadBalance
<1> HIDE DEF value
<1>5. CallOK'
  BY <1>1, <1>3, <1>4, PhaseChanges
<1>6. call'.value = value
  BY <1>2, <1>4 DEF Call
<1>7. Reads
  BY <1>1, <1>4, <1>5, <1>6 DEF Reads
<1> QED BY <1>1, <1>5, <1>7 DEF StepOK, TypeInv, chainVars

LEMMA SendStep ==
  ASSUME TypeInv, Send
  PROVE  StepOK
<1>1. /\ call # Idle /\ call.phase = "send" /\ Accepted(Transfer)
      /\ call' = [call EXCEPT !.phase = "wait"]
      /\ UNCHANGED <<created, calls, asked>>
  BY DEF Send
<1>2. Adds /\ UNCHANGED <<balance, next_nonce>>
      /\ IsFiniteSet(Sent') /\ Sent' \subseteq Tx
  BY <1>1, AcceptedAdds
<1>3. call \in Call
  BY <1>1 DEF TypeInv, CallOK
<1>4. call' = [call EXCEPT !.phase = "wait", !.value = call.value] /\ call.value \in Int
  BY <1>1, <1>3 DEF Call
<1>5. CallOK'
  BY <1>1, <1>4, PhaseChanges
<1>6. Sends
  BY <1>1, <1>2, <1>5 DEF Sends
<1> QED BY <1>1, <1>2, <1>5, <1>6 DEF StepOK, TypeInv, Sent

LEMMA RaiseStep ==
  ASSUME TypeInv, Raises
  PROVE  StepOK
<1>1. call # Idle /\ call' = Idle /\ UNCHANGED <<created, calls, asked>>
  BY DEF Raises, GivenUp
<1>2. CASE UNCHANGED chainVars
  <2>1. Ends
    BY <1>1, <1>2 DEF Ends
  <2> QED BY <1>1, <1>2, <2>1 DEF StepOK, TypeInv, chainVars
<1>3. CASE call.phase = "send" /\ Accepted(Transfer)
  <2>1. Adds /\ UNCHANGED <<balance, next_nonce>>
        /\ IsFiniteSet(Sent') /\ Sent' \subseteq Tx
    BY <1>1, <1>3, AcceptedAdds
  <2>2. Ends
    BY <1>1, <2>1 DEF Ends
  <2> QED BY <1>1, <2>1, <2>2 DEF StepOK, TypeInv, Sent
<1> QED BY <1>2, <1>3 DEF Raises

LEMMA ReceiptStep ==
  ASSUME TypeInv, GetReceipt
  PROVE  StepOK
<1>1. /\ call # Idle /\ call.phase = "wait"
      /\ \E tx \in mined : tx.number = call.number /\ tx.place = call.place
      /\ UNCHANGED <<created, chainVars, calls, asked>>
  BY DEF GetReceipt
<1>2. call \in Call /\ CallOK
  BY <1>1 DEF TypeInv, CallOK
<1>3. CASE call.place = Len(call.list)
  <2>1. call' = Idle
    BY <1>3 DEF GetReceipt
  <2>2. Ends
    BY <1>1, <2>1 DEF Ends
  <2> QED BY <1>1, <2>1, <2>2 DEF StepOK, TypeInv, chainVars
<1>4. CASE call.place # Len(call.list)
  <2> DEFINE phase == IF call.kind = "withdraw" THEN "read" ELSE "send"
  <2>1. call' = [call EXCEPT !.place = call.place + 1, !.phase = phase]
    BY <1>4 DEF GetReceipt
  <2>2. phase \in {"read", "send", "wait"}
    OBVIOUS
  <2> HIDE DEF phase
  <2>3. Len(call.list) \in Nat
    BY <1>2, LenProperties DEF Call
  <2>4. /\ call' \in Call
        /\ call'.list = call.list /\ call'.kind = call.kind
        /\ call'.number = call.number /\ call'.place = call.place + 1
    <3>1. call.place + 1 \in Nat
      BY <1>2 DEF Call
    <3> QED BY <1>2, <2>1, <2>2, <3>1 DEF Call
  <2>5. call'.place \in 1 .. Len(call'.list)
    BY <1>2, <1>4, <2>3, <2>4 DEF CallOK
  <2>6. CallOK'
    BY <1>1, <1>2, <2>4, <2>5 DEF CallOK
  <2>7. GoesOn
    BY <1>1, <2>4, <2>6 DEF GoesOn
  <2> QED BY <1>1, <2>6, <2>7 DEF StepOK, TypeInv, chainVars
<1> QED BY <1>3, <1>4

LEMMA MineStep ==
  ASSUME TypeInv, NEW tx \in mempool, Mine(tx)
  PROVE  StepOK
<1>1. /\ mempool' = mempool \ {tx} /\ mined' = mined \cup {tx}
      /\ UNCHANGED <<created, call, calls, asked>>
  BY DEF Mine
<1>2. tx \in Tx
  BY DEF TypeInv
<1>3. Sent' = Sent /\ mined \subseteq mined'
  BY <1>1 DEF Sent
<1>4. Mines
  BY <1>1, <1>3 DEF Mines
<1>5. PICK fee \in FEES, sent \in {0, tx.value} :
         balance' = [balance EXCEPT ![tx.from] = @ - sent - fee, ![tx.to] = @ + sent]
  BY DEF Mine
<1>6. fee \in Int /\ sent \in Int /\ tx.from \in Holders /\ tx.to \in Holders
  BY <1>2, <1>5, BootstrapAssumption DEF Tx, Holders
<1>7. balance' \in [Holders -> Int]
  BY <1>5, <1>6 DEF TypeInv
<1>8. next_nonce' \in [Accounts \cup {Manager} -> Nat]
  <2>1. next_nonce' = [next_nonce EXCEPT ![tx.from] = @ + 1]
    BY DEF Mine
  <2> QED BY <1>2, <2>1 DEF TypeInv, Tx
<1>9. (mempool \cup mined)' = mempool \cup mined
  BY <1>3 DEF Sent
<1>10. call' # Idle => CallOK'
  BY <1>1 DEF TypeInv, CallOK
<1> QED BY <1>1, <1>4, <1>7, <1>8, <1>9, <1>10 DEF StepOK, TypeInv

LEMMA NextIsOK ==
  ASSUME TypeInv, [Next]_vars
  PROVE  StepOK
<1>1. CASE \E number \in 1 .. Len(Executors) : CreateExecutorAndFund(number)
  <2>1. PICK number \in 1 .. Len(Executors) : CreateExecutorAndFund(number)
    BY <1>1
  <2>2. /\ number \in 1 .. Len(Executors) - created
        /\ created' = created + number
        /\ Fund(SubSeq(Executors, created + 1, created + number))
    BY <2>1 DEF CreateExecutorAndFund
  <2>3. /\ SubSeq(Executors, created + 1, created + number) \in Seq(Accounts)
        /\ SubSeq(Executors, created + 1, created + number) # <<>>
        /\ created' \in 0 .. Len(Executors)
    BY <2>2, ListOfNew
  <2> QED BY <2>2, <2>3, FundStep
<1>2. CASE FundExecutor
  <2>1. PICK list \in Lists : Fund(list) /\ UNCHANGED created
    BY <1>2 DEF FundExecutor
  <2>2. list \in Seq(Accounts) /\ list # <<>> /\ created' \in 0 .. Len(Executors)
    BY <2>1, ListsAreParts DEF TypeInv
  <2> QED BY <2>1, <2>2, FundStep
<1>3. CASE UNCHANGED vars
  <2>1. TypeInv'
    BY <1>3 DEF TypeInv, CallOK, vars, chainVars
  <2> QED BY <1>3, <2>1 DEF StepOK
<1>4. CASE \E tx \in mempool : Mine(tx)
  BY <1>4, MineStep
<1> QED BY <1>1, <1>2, <1>3, <1>4, OtherCallStep, ReadStep, SendStep, ReceiptStep,
           RaiseStep DEF Next

LEMMA TypesHold == Spec => []TypeInv
<1>1. TypeInv /\ [Next]_vars => TypeInv'
  BY NextIsOK DEF StepOK
<1> QED BY <1>1, InitTypes, PTL DEF Spec

-----------------------------------------------------------------------------
(* Who is paid how often.                                                  *)

Paid(a) == {tx \in Sent : tx.to = a}

\* The places of the list that are still to be paid.
Open(a) ==
  IF call # Idle /\ call.kind = "fund"
  THEN {i \in Named(call.list, a) :
          i > call.place \/ (i = call.place /\ call.phase # "wait")}
  ELSE {}

\* What was paid and what will be do not exceed what was asked for.
PaidInv ==
  \A a \in Accounts : Cardinality(Paid(a)) + Cardinality(Open(a)) <= asked[a]

LEMMA PaidFinite ==
  ASSUME TypeInv, NEW a
  PROVE  /\ IsFiniteSet(Paid(a)) /\ Cardinality(Paid(a)) \in Nat
         /\ IsFiniteSet(Open(a)) /\ Cardinality(Open(a)) \in Nat
<1>1. IsFiniteSet(Paid(a))
  BY FS_Subset DEF TypeInv, Paid, Sent
<1>2. IsFiniteSet(Open(a))
  <2>1. CASE call # Idle /\ call.kind = "fund"
    <3>1. call.list \in Seq(Accounts \cup {Factory})
      BY <2>1 DEF TypeInv, CallOK, Call
    <3>2. IsFiniteSet(Named(call.list, a))
      BY <3>1, NamedFinite
    <3> QED BY <2>1, <3>2, FS_Subset DEF Open
  <2>2. CASE ~ (call # Idle /\ call.kind = "fund")
    BY <2>2, FS_EmptySet DEF Open
  <2> QED BY <2>1, <2>2
<1> QED BY <1>1, <1>2, FS_CardinalityType

LEMMA InitPaid == Init => PaidInv
<1> SUFFICES ASSUME Init, NEW a \in Accounts
             PROVE  Cardinality(Paid(a)) + Cardinality(Open(a)) <= asked[a]
  BY DEF PaidInv
<1>1. Paid(a) = {} /\ Open(a) = {}
  BY DEF Init, Paid, Sent, Open
<1>2. Cardinality(Paid(a)) = 0 /\ Cardinality(Open(a)) = 0
  BY <1>1, FS_EmptySet
<1> QED BY <1>2 DEF Init

(* Where fewer or as many are paid and open, nothing is to be shown.       *)
LEMMA PaidShrinks ==
  ASSUME TypeInv, TypeInv', PaidInv, NEW a \in Accounts,
         Paid(a)' \subseteq Paid(a), Open(a)' \subseteq Open(a), UNCHANGED asked
  PROVE  Cardinality(Paid(a)') + Cardinality(Open(a)') <= asked'[a]
<1>1. /\ IsFiniteSet(Paid(a)) /\ Cardinality(Paid(a)) \in Nat
      /\ IsFiniteSet(Open(a)) /\ Cardinality(Open(a)) \in Nat
  BY PaidFinite
<1>2. Cardinality(Paid(a)') <= Cardinality(Paid(a)) /\ Cardinality(Paid(a)') \in Nat
  BY <1>1, FS_Subset, FS_CardinalityType
<1>3. Cardinality(Open(a)') <= Cardinality(Open(a)) /\ Cardinality(Open(a)') \in Nat
  BY <1>1, FS_Subset, FS_CardinalityType
<1>4. asked[a] \in Nat
  BY DEF TypeInv
<1> QED BY <1>1, <1>2, <1>3, <1>4 DEF PaidInv

(* A transfer pays one of the open places.                                 *)
LEMMA TransferPaysOpen ==
  ASSUME TypeInv, call # Idle, call.phase = "send",
         NEW a \in Accounts, Transfer.to = a
  PROVE  call.kind = "fund" /\ call.place \in Open(a)
<1>1. CallOK /\ call \in Call
  BY DEF TypeInv, CallOK
<1>2. Payee = a
  BY DEF Transfer
<1>3. call.kind # "withdraw" /\ Current = a
  BY <1>2, BootstrapAssumption DEF Payee
<1>4. call.kind = "fund"
  BY <1>1, <1>3, CurrentIsKnown, BootstrapAssumption DEF Call
<1>5. DOMAIN call.list = 1 .. Len(call.list)
  BY <1>1, LenProperties DEF Call
<1> QED BY <1>1, <1>3, <1>4, <1>5 DEF Open, Named, Current, CallOK

LEMMA AddsPays ==
  ASSUME TypeInv, TypeInv', PaidInv, Adds, NEW a \in Accounts,
         Open(a)' \subseteq IF Transfer.to = a THEN Open(a) \ {call.place} ELSE Open(a)
  PROVE  Cardinality(Paid(a)') + Cardinality(Open(a)') <= asked'[a]
<1>1. CASE Transfer.to = a
  <2>1. call.place \in Open(a)
    BY <1>1, TransferPaysOpen DEF Adds
  <2>2. /\ IsFiniteSet(Paid(a)) /\ Cardinality(Paid(a)) \in Nat
        /\ IsFiniteSet(Open(a)) /\ Cardinality(Open(a)) \in Nat
    BY PaidFinite
  <2>3. Paid(a)' \subseteq Paid(a) \cup {Transfer}
    BY DEF Adds, Paid
  <2>4. IsFiniteSet(Paid(a) \cup {Transfer})
        /\ Cardinality(Paid(a) \cup {Transfer}) <= Cardinality(Paid(a)) + 1
        /\ Cardinality(Paid(a) \cup {Transfer}) \in Nat
    <3>1. /\ IsFiniteSet(Paid(a) \cup {Transfer})
          /\ Cardinality(Paid(a) \cup {Transfer}) = Cardinality(Paid(a))
               \/ Cardinality(Paid(a) \cup {Transfer}) = Cardinality(Paid(a)) + 1
      BY <2>2, FS_AddElement
    <3>2. Cardinality(Paid(a) \cup {Transfer}) \in Nat
      BY <3>1, FS_CardinalityType
    <3> QED BY <2>2, <3>1, <3>2
  <2>5. Cardinality(Paid(a)') <= Cardinality(Paid(a) \cup {Transfer})
        /\ Cardinality(Paid(a)') \in Nat
    BY <2>3, <2>4, FS_Subset, FS_CardinalityType
  <2>6. IsFiniteSet(Open(a) \ {call.place})
        /\ Cardinality(Open(a) \ {call.place}) = Cardinality(Open(a)) - 1
    BY <2>1, <2>2, FS_RemoveElement
  <2>7. Cardinality(Open(a)') <= Cardinality(Open(a)) - 1
        /\ Cardinality(Open(a)') \in Nat
    BY <1>1, <2>6, FS_Subset, FS_CardinalityType
  <2>8. asked[a] \in Nat /\ asked' = asked
    BY DEF TypeInv, Adds
  <2> QED BY <2>2, <2>4, <2>5, <2>7, <2>8 DEF PaidInv
<1>2. CASE Transfer.to # a
  <2>1. Paid(a)' \subseteq Paid(a)
    BY <1>2 DEF Adds, Paid
  <2> QED BY <1>2, <2>1, PaidShrinks DEF Adds
<1> QED BY <1>1, <1>2

LEMMA NextPaid ==
  ASSUME TypeInv, PaidInv, [Next]_vars
  PROVE  PaidInv'
<1>1. StepOK /\ TypeInv'
  BY NextIsOK DEF StepOK
<1> SUFFICES ASSUME NEW a \in Accounts
             PROVE  Cardinality(Paid(a)') + Cardinality(Open(a)') <= asked'[a]
  BY DEF PaidInv
<1>2. CASE StartsToPay
  <2>1. Paid(a)' = Paid(a)
    BY <1>2 DEF StartsToPay, Starts, Paid, Sent, chainVars
  <2>2. Open(a)' \subseteq Named(call'.list, a)
    BY <1>2 DEF Open
  <2>3. call'.list \in Seq(Accounts \cup {Factory})
    BY <1>2 DEF StartsToPay, Starts, CallOK, Call
  <2>4. IsFiniteSet(Named(call'.list, a)) /\ Cardinality(Named(call'.list, a)) \in Nat
    BY <2>3, NamedFinite
  <2>5. Cardinality(Open(a)') <= Cardinality(Named(call'.list, a))
        /\ Cardinality(Open(a)') \in Nat
    BY <2>2, <2>4, FS_Subset, FS_CardinalityType
  <2>6. Cardinality(Paid(a)) <= asked[a]
    BY PaidFinite DEF PaidInv, TypeInv
  <2>7. asked'[a] = asked[a] + Cardinality(Named(call'.list, a))
    BY <1>2 DEF StartsToPay
  <2>8. asked[a] \in Nat /\ Cardinality(Paid(a)) \in Nat
    BY PaidFinite DEF TypeInv
  <2> QED BY <2>1, <2>4, <2>5, <2>6, <2>7, <2>8
<1>3. CASE StartsOther
  <2>1. Paid(a)' = Paid(a) /\ Open(a)' = {} /\ UNCHANGED asked
    BY <1>3 DEF StartsOther, Starts, Paid, Sent, chainVars, Open
  <2> QED BY <1>1, <2>1, PaidShrinks
<1>4. CASE Reads
  <2>1. call \in Call
    BY <1>4 DEF Reads, TypeInv, CallOK
  <2>2. call'.list = call.list /\ call'.place = call.place /\ call'.kind = call.kind
    BY <1>4, <2>1 DEF Reads, Call
  <2>3. Open(a)' \subseteq Open(a)
    BY <1>4, <2>2 DEF Reads, Open, Named
  <2>4. Paid(a)' = Paid(a) /\ UNCHANGED asked
    BY <1>4 DEF Reads, Paid, Sent, chainVars
  <2> QED BY <1>1, <2>3, <2>4, PaidShrinks
<1>5. CASE Sends
  <2>1. call \in Call
    BY <1>5 DEF Sends, Adds, TypeInv, CallOK
  <2>2. /\ call'.list = call.list /\ call'.place = call.place /\ call'.kind = call.kind
        /\ call'.phase = "wait" /\ call # Idle
    BY <1>5, <2>1 DEF Sends, Adds, Call
  <2>3. Open(a)' \subseteq Open(a) \ {call.place}
    <3>1. call.place \in Nat
      BY <2>1 DEF Call
    <3> QED BY <2>2, <3>1 DEF Open, Named
  <2> QED BY <1>1, <1>5, <2>3, AddsPays DEF Sends
<1>6. CASE Ends
  <2>1. Open(a)' = {}
    BY <1>6 DEF Ends, Open
  <2>2. CASE Adds
    BY <1>1, <2>1, <2>2, AddsPays
  <2>3. CASE UNCHANGED <<chainVars, calls, asked>>
    <3>1. Paid(a)' = Paid(a)
      BY <2>3 DEF Paid, Sent, chainVars
    <3> QED BY <1>1, <2>1, <2>3, <3>1, PaidShrinks
  <2> QED BY <1>6, <2>2, <2>3 DEF Ends
<1>7. CASE GoesOn
  <2>1. call \in Call /\ call # Idle
    BY <1>7 DEF GoesOn, TypeInv, CallOK
  <2>2. Open(a)' \subseteq Open(a)
    <3>1. call.place \in Nat /\ DOMAIN call.list \subseteq Nat
      BY <2>1, LenProperties DEF Call
    <3>2. Named(call'.list, a) = Named(call.list, a) /\ Named(call.list, a) \subseteq Nat
      BY <1>7, <3>1 DEF GoesOn, Named
    <3> QED BY <1>7, <2>1, <3>1, <3>2 DEF GoesOn, Open
  <2>3. Paid(a)' = Paid(a) /\ UNCHANGED asked
    BY <1>7 DEF GoesOn, Paid, Sent, chainVars
  <2> QED BY <1>1, <2>2, <2>3, PaidShrinks
<1>8. CASE Mines \/ UNCHANGED vars
  <2>1. Paid(a)' = Paid(a) /\ Open(a)' = Open(a) /\ UNCHANGED asked
    BY <1>8 DEF Mines, vars, chainVars, Paid, Sent, Open, Named
  <2> QED BY <1>1, <2>1, PaidShrinks
<1> QED BY <1>1, <1>2, <1>3, <1>4, <1>5, <1>6, <1>7, <1>8 DEF StepOK

(* However many calls give up after their transaction was sent, and        *)
(* whenever it is mined, an account is not paid more often than the        *)
(* operator asked for it (bootstrap.py:60-73).                             *)
THEOREM NobodyPaidTwice == Spec => []PaidAsAsked
<1>1. TypeInv /\ PaidInv => PaidAsAsked
  <2> SUFFICES ASSUME TypeInv, PaidInv, NEW a \in Accounts
               PROVE  Cardinality({tx \in mempool \cup mined : tx.to = a}) <= asked[a]
    BY DEF PaidAsAsked
  <2>1. Cardinality(Paid(a)) <= asked[a]
    BY PaidFinite DEF PaidInv, TypeInv
  <2> QED BY <2>1 DEF Paid, Sent
<1> QED BY <1>1, InitPaid, NextPaid, TypesHold, PTL DEF Spec

-----------------------------------------------------------------------------
(* The order within a call.                                                *)

OrderInv ==
  /\ \A tx \in Sent : tx.number <= calls
  /\ call # Idle =>
        /\ \A tx \in Sent : tx.number = call.number => tx.place <= call.place
        /\ \A i \in 1 .. call.place - 1 :
              \E tx \in mined : tx.number = call.number /\ tx.place = i

LEMMA InitOrder == Init => OrderInv
BY DEF Init, OrderInv, Sent

LEMMA AddsInOrder ==
  ASSUME TypeInv, OrderInv, Adds
  PROVE  \A tx \in Sent' :
            /\ tx.number <= calls'
            /\ tx.number = call.number => tx.place <= call.place
<1>1. call \in Call /\ call.number = calls /\ calls \in Nat
  BY DEF TypeInv, CallOK, Adds
<1>2. Transfer.number = call.number /\ Transfer.place = call.place /\ call.place \in Nat
  BY <1>1 DEF Transfer, Call
<1> QED BY <1>1, <1>2 DEF OrderInv, Adds

LEMMA NextOrder ==
  ASSUME TypeInv, OrderInv, [Next]_vars
  PROVE  OrderInv'
<1>1. StepOK /\ TypeInv' /\ Sent \subseteq Tx /\ calls \in Nat
  BY NextIsOK DEF StepOK, TypeInv, Sent
<1>2. CASE Starts
  <2>1. call'.number = calls + 1 /\ call'.place = 1 /\ calls' = calls + 1
    BY <1>2 DEF Starts, CallOK
  <2>2. Sent' = Sent /\ mined' = mined
    BY <1>2 DEF Starts, chainVars, Sent
  <2>3. \A tx \in Sent : tx.number \in Nat /\ tx.number <= calls
    BY <1>1 DEF OrderInv, Tx
  <2> QED BY <1>1, <2>1, <2>2, <2>3 DEF OrderInv
<1>3. CASE Reads \/ Sends
  <2>1. call # Idle /\ call \in Call
    BY <1>3 DEF Reads, Sends, Adds, TypeInv, CallOK
  <2>2. call'.number = call.number /\ call'.place = call.place
    BY <1>3, <2>1 DEF Reads, Sends, Call
  <2>3. mined' = mined
    BY <1>3 DEF Reads, Sends, Adds, chainVars
  <2>4. CASE Sends
    BY <2>1, <2>2, <2>3, <2>4, AddsInOrder DEF OrderInv, Sends
  <2>5. CASE Reads
    BY <2>1, <2>2, <2>3, <2>5 DEF OrderInv, Reads, chainVars, Sent
  <2> QED BY <1>3, <2>4, <2>5
<1>4. CASE Ends
  <2>1. CASE Adds
    BY <1>4, <2>1, AddsInOrder DEF OrderInv, Ends
  <2>2. CASE UNCHANGED <<chainVars, calls, asked>>
    BY <1>4, <2>2 DEF OrderInv, Ends, chainVars, Sent
  <2> QED BY <1>4, <2>1, <2>2 DEF Ends
<1>5. CASE GoesOn
  <2>1. /\ call # Idle /\ call \in Call /\ call.number = calls /\ call.place \in Nat
        /\ call'.number = calls /\ call'.place = call.place + 1
    BY <1>5 DEF GoesOn, TypeInv, CallOK, Call
  <2>2. Sent' = Sent /\ mined' = mined /\ calls' = calls
    BY <1>5 DEF GoesOn, chainVars, Sent
  <2>3. \A tx \in Sent : tx.place \in Nat
    BY <1>1 DEF Tx
  <2>4. \A tx \in Sent : tx.number = calls => tx.place <= call.place + 1
    BY <2>1, <2>3 DEF OrderInv
  <2>5. \A i \in 1 .. call.place : \E tx \in mined : tx.number = calls /\ tx.place = i
    BY <1>5, <2>1 DEF OrderInv, GoesOn
  <2>6. call'.place - 1 = call.place
    BY <2>1
  <2> QED BY <2>1, <2>2, <2>4, <2>5, <2>6 DEF OrderInv
<1>6. CASE Mines
  BY <1>6 DEF OrderInv, Mines
<1>7. CASE UNCHANGED vars
  BY <1>7 DEF OrderInv, vars, chainVars, Sent
<1> QED BY <1>1, <1>2, <1>3, <1>4, <1>5, <1>6, <1>7 DEF StepOK, StartsToPay, StartsOther

(* Before the place where a call is, or has stopped, everything is mined;  *)
(* behind it nothing was sent (bootstrap.py:60-73, 79-102).                *)
THEOREM CallsGoInOrder == Spec => []DoneInOrder
<1>1. TypeInv /\ OrderInv => DoneInOrder
  <2> SUFFICES ASSUME TypeInv, OrderInv, call # Idle, NEW i \in DOMAIN call.list
               PROVE  LET sent == {tx \in mempool \cup mined :
                                     tx.number = call.number /\ tx.place = i}
                      IN /\ i < call.place => sent \cap mined # {}
                         /\ i > call.place => sent = {}
    BY DEF DoneInOrder
  <2>1. call \in Call /\ call.place \in Nat /\ i \in Nat /\ i >= 1
    BY LenProperties DEF TypeInv, CallOK, Call
  <2>2. i < call.place => \E tx \in mined : tx.number = call.number /\ tx.place = i
    BY <2>1 DEF OrderInv
  <2>3. \A tx \in Sent : tx.place \in Nat
    BY DEF TypeInv, Sent, Tx
  <2>4. i > call.place => \A tx \in Sent : ~ (tx.number = call.number /\ tx.place = i)
    BY <2>1, <2>3 DEF OrderInv
  <2> QED BY <2>2, <2>4 DEF Sent
<1> QED BY <1>1, InitOrder, NextOrder, TypesHold, PTL DEF Spec

-----------------------------------------------------------------------------
(* What may displace a transaction that was sent.                          *)

Senders == Accounts \cup {Manager}

\* The nonces of what is pending are different, and below the 'pending' count.
QueueInv ==
  \A a \in Senders :
    /\ \A tx \in Pending(a) : tx.nonce < next_nonce[a] + Cardinality(Pending(a))
    /\ \A tx, other \in Pending(a) : tx.nonce = other.nonce => tx = other

LEMMA InitQueue == Init => QueueInv
BY DEF Init, QueueInv, Pending

LEMMA PendingFinite ==
  ASSUME TypeInv, NEW a \in Senders
  PROVE  /\ IsFiniteSet(Pending(a)) /\ Cardinality(Pending(a)) \in Nat
         /\ Pending(a) \subseteq Tx /\ next_nonce[a] \in Nat
<1>1. IsFiniteSet(Pending(a))
  BY FS_Subset DEF TypeInv, Pending
<1> QED BY <1>1, FS_CardinalityType DEF TypeInv, Pending, Senders

LEMMA PayerSends ==
  ASSUME TypeInv, call # Idle
  PROVE  Payer \in Senders
BY CurrentIsKnown DEF Payer, Senders, TypeInv, CallOK, Call

(* How the chain changes.                                                  *)
LEMMA ChainStep ==
  ASSUME [Next]_vars
  PROVE  \/ UNCHANGED chainVars
         \/ call # Idle /\ call.phase = "send" /\ Accepted(Transfer)
         \/ \E tx \in mempool : Mine(tx)
BY DEF Next, vars, CreateExecutorAndFund, FundExecutor, Fund, CreateBot, Withdraw, Begin,
       ReadBalance, Send, GetReceipt, Raises

(* A transfer takes a nonce that nothing pending has; a deployment takes   *)
(* the nonce of one pending transaction at most.                           *)
LEMMA SlotFacts ==
  ASSUME TypeInv, QueueInv, call # Idle, call.phase = "send"
  PROVE  /\ Transfer \in Tx /\ Transfer.from = Payer
         /\ Transfer.nonce <= next_nonce[Payer] + Cardinality(Pending(Payer))
         /\ SameSlot(Transfer) # {} =>
              /\ call.kind = "create_bot" /\ Transfer.nonce = next_nonce[Payer]
              /\ \E old \in Pending(Payer) : SameSlot(Transfer) = {old}
<1>1. Transfer \in Tx /\ Transfer.from = Payer /\ Transfer.nonce = Nonce
  BY TransferTyped DEF Transfer
<1>2. /\ Payer \in Senders
      /\ next_nonce[Payer] \in Nat /\ Cardinality(Pending(Payer)) \in Nat
      /\ Pending(Payer) \subseteq Tx
  BY PayerSends, PendingFinite
<1>3. Nonce <= next_nonce[Payer] + Cardinality(Pending(Payer))
  BY <1>2 DEF Nonce
<1>4. ASSUME NEW old \in SameSlot(Transfer)
      PROVE  /\ call.kind = "create_bot" /\ Transfer.nonce = next_nonce[Payer]
             /\ old \in Pending(Payer) /\ SameSlot(Transfer) = {old}
  <2>1. old \in Pending(Payer) /\ old.nonce = Nonce
    BY <1>1, <1>4 DEF SameSlot
  <2>2. old.nonce < next_nonce[Payer] + Cardinality(Pending(Payer))
    BY <1>2, <2>1 DEF QueueInv
  <2>3. call.kind = "create_bot" /\ Nonce = next_nonce[Payer]
    BY <1>2, <2>1, <2>2 DEF Nonce
  <2>4. \A other \in SameSlot(Transfer) : other = old
    BY <1>1, <1>2, <2>1 DEF SameSlot, QueueInv
  <2> QED BY <1>1, <1>4, <2>1, <2>3, <2>4
<1> QED BY <1>1, <1>3, <1>4

LEMMA AcceptedQueues ==
  ASSUME TypeInv, QueueInv, call # Idle, call.phase = "send", Accepted(Transfer)
  PROVE  QueueInv'
<1>1. /\ mempool' = (mempool \ SameSlot(Transfer)) \cup {Transfer}
      /\ next_nonce' = next_nonce
  BY DEF Accepted
<1>2. Transfer \in Tx /\ Transfer.from = Payer
  BY SlotFacts
<1> SUFFICES ASSUME NEW a \in Senders
    PROVE  /\ \A tx \in Pending(a)' :
                 tx.nonce < next_nonce[a] + Cardinality(Pending(a)')
           /\ \A tx, other \in Pending(a)' : tx.nonce = other.nonce => tx = other
  BY <1>1 DEF QueueInv
<1>3. CASE a # Payer
  <2>1. Pending(a)' = Pending(a)
    BY <1>1, <1>2, <1>3 DEF Pending, SameSlot
  <2> QED BY <2>1 DEF QueueInv
<1>4. CASE a = Payer
  <2> DEFINE rest == Pending(a) \ SameSlot(Transfer)
             count == Cardinality(Pending(a))
  <2>1. /\ IsFiniteSet(Pending(a)) /\ count \in Nat
        /\ Pending(a) \subseteq Tx /\ next_nonce[a] \in Nat
    BY PendingFinite
  <2>2. Pending(a)' = rest \cup {Transfer}
    BY <1>1, <1>2, <1>4 DEF Pending
  <2>3. \A tx \in rest : tx.nonce # Transfer.nonce
    BY <1>2, <1>4 DEF SameSlot
  <2>4. \A tx, other \in Pending(a)' : tx.nonce = other.nonce => tx = other
    BY <2>2, <2>3 DEF QueueInv
  <2>5. Cardinality(Pending(a)') = Cardinality(rest) + 1
    <3>1. IsFiniteSet(rest) /\ Transfer \notin rest
      BY <2>1, <2>3, FS_Subset
    <3> QED BY <2>2, <3>1, FS_AddElement
  <2>6. \A tx \in rest : tx.nonce \in Nat /\ tx.nonce < next_nonce[a] + count
    BY <2>1 DEF QueueInv, Tx
  <2>7. Transfer.nonce \in Nat
    BY <1>2 DEF Tx
  <2>8. CASE SameSlot(Transfer) = {}
    <3>1. Cardinality(Pending(a)') = count + 1
      BY <2>5, <2>8
    <3>2. Transfer.nonce <= next_nonce[a] + count
      BY <1>4, SlotFacts
    <3>3. \A tx \in Pending(a)' : tx.nonce < next_nonce[a] + (count + 1)
      BY <2>1, <2>2, <2>6, <2>7, <3>2
    <3> QED BY <2>4, <3>1, <3>3
  <2>9. CASE SameSlot(Transfer) # {}
    <3>1. PICK old \in Pending(a) : SameSlot(Transfer) = {old}
      BY <1>4, <2>9, SlotFacts
    <3>2. Cardinality(rest) = count - 1
      BY <2>1, <3>1, FS_RemoveElement
    <3>3. Cardinality(Pending(a)') = count
      BY <2>1, <2>5, <3>2
    <3>4. old.nonce = Transfer.nonce /\ old.nonce < next_nonce[a] + count
      BY <3>1 DEF SameSlot, QueueInv
    <3>5. \A tx \in Pending(a)' : tx.nonce < next_nonce[a] + count
      BY <2>2, <2>6, <3>4
    <3> QED BY <2>4, <3>3, <3>5
  <2> QED BY <2>8, <2>9
<1> QED BY <1>3, <1>4

LEMMA MineQueues ==
  ASSUME TypeInv, QueueInv, NEW mine \in mempool, Mine(mine)
  PROVE  QueueInv'
<1>1. /\ mempool' = mempool \ {mine}
      /\ next_nonce' = [next_nonce EXCEPT ![mine.from] = @ + 1]
  BY DEF Mine
<1>2. mine.from \in Senders
  BY DEF TypeInv, Tx, Senders
<1> SUFFICES ASSUME NEW a \in Senders
    PROVE  /\ \A tx \in Pending(a)' :
                 tx.nonce < next_nonce'[a] + Cardinality(Pending(a)')
           /\ \A tx, other \in Pending(a)' : tx.nonce = other.nonce => tx = other
  BY DEF QueueInv
<1>3. CASE a # mine.from
  <2>1. Pending(a)' = Pending(a) /\ next_nonce'[a] = next_nonce[a]
    BY <1>1, <1>3 DEF Pending, TypeInv, Senders
  <2> QED BY <2>1 DEF QueueInv
<1>4. CASE a = mine.from
  <2>1. /\ IsFiniteSet(Pending(a)) /\ Cardinality(Pending(a)) \in Nat
        /\ next_nonce[a] \in Nat
    BY PendingFinite
  <2>2. Pending(a)' = Pending(a) \ {mine} /\ mine \in Pending(a)
    BY <1>1, <1>4 DEF Pending
  <2>3. Cardinality(Pending(a)') = Cardinality(Pending(a)) - 1
    BY <2>1, <2>2, FS_RemoveElement
  <2>4. next_nonce'[a] = next_nonce[a] + 1
    BY <1>1, <1>4 DEF TypeInv, Senders
  <2>5. next_nonce'[a] + Cardinality(Pending(a)')
          = next_nonce[a] + Cardinality(Pending(a))
    BY <2>1, <2>3, <2>4
  <2> QED BY <2>2, <2>5 DEF QueueInv
<1> QED BY <1>3, <1>4

LEMMA NextQueues ==
  ASSUME TypeInv, QueueInv, [Next]_vars
  PROVE  QueueInv'
<1>1. CASE UNCHANGED chainVars
  BY <1>1 DEF QueueInv, Pending, chainVars
<1> QED BY <1>1, ChainStep, AcceptedQueues, MineQueues

\* The running call is a deployment, and tx has the nonce that it takes.
GivesWay(tx) ==
  /\ call # Idle /\ call.kind = "create_bot"
  /\ tx.from = Manager /\ tx.nonce = next_nonce[Manager]

(* What a call has sent stays pending until it is mined, whatever transfers *)
(* follow it: they queue behind it (bootstrap.py:62-66, 89-93).  Only a     *)
(* deployment may displace a transaction, the manager's next one            *)
(* (bot_factory.py:58).                                                     *)
THEOREM TransfersQueue ==
  Spec => [][\A tx \in Sent : tx \in Sent' \/ GivesWay(tx)]_vars
<1>1. ASSUME TypeInv, QueueInv, [Next]_vars, NEW tx \in Sent, tx \notin Sent'
      PROVE  GivesWay(tx)
  <2>1. CASE UNCHANGED chainVars
    BY <1>1, <2>1 DEF Sent, chainVars
  <2>2. CASE \E mine \in mempool : Mine(mine)
    BY <1>1, <2>2 DEF Sent, Mine
  <2>3. CASE call # Idle /\ call.phase = "send" /\ Accepted(Transfer)
    <3>1. tx \in SameSlot(Transfer)
      BY <1>1, <2>3 DEF Sent, Accepted
    <3>2. /\ call.kind = "create_bot" /\ Transfer.nonce = next_nonce[Payer]
          /\ Transfer.from = Payer
      BY <1>1, <2>3, <3>1, SlotFacts
    <3>3. Payer = Manager
      BY <3>2 DEF Payer
    <3> QED BY <2>3, <3>1, <3>2, <3>3 DEF GivesWay, SameSlot, Pending
  <2> QED BY <1>1, <2>1, <2>2, <2>3, ChainStep
<1>2. TypeInv /\ QueueInv /\ [Next]_vars
        => [\A tx \in Sent : tx \in Sent' \/ GivesWay(tx)]_vars
  BY <1>1
<1> QED BY <1>2, InitQueue, NextQueues, TypesHold, PTL DEF Spec
=============================================================================
