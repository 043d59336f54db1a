-------------------------- MODULE ExecutionProofs --------------------------
(***************************************************************************)
(* Theorems about ExecutionSystem, for every set of pairs, accounts and    *)
(* bots: it implements AbstractExecutor, its accounts are given new bots,  *)
(* what is held is backed by tokens, failed buys are over, the owner of a  *)
(* bot signs what it is called for, and a program with one account keeps   *)
(* its books and buys nothing with a bot that has failed.                  *)
(***************************************************************************)
EXTENDS ExecutionSystem, QueueLemmas

-----------------------------------------------------------------------------
(* The inductive invariant.                                                *)

\* Buys name neither signer nor bot, sells name both.
Shaped(order) ==
    /\ order.is_buy => order.signer = None /\ order.bot = None
    /\ ~ order.is_buy => order.signer # None /\ order.bot # None

\* What a thread knows of its order.
JobOK(j) ==
    /\ Shaped(j.order)
    /\ j.order.signer \in Accounts => j.account = j.order.signer
    /\ j.phase # "queued" =>
          j.bot \in Bots /\ (j.order.bot # None => j.bot = j.order.bot)
    /\ j.phase \in TailPhases => j.status \in TxStatus

JobsConsistent ==
    /\ \A j \in jobs : JobOK(j) /\ j.n <= counter
    /\ \A j, k \in jobs : j.n = k.n => j = k

IInv ==
    /\ TypeOK
    /\ \A order \in ToSet(execution_broker) : Shaped(order)
    /\ JobsConsistent

-----------------------------------------------------------------------------
(* The constants.                                                          *)

LEMMA NoneIsNoBody ==
  /\ None \notin Signers /\ None \notin Bots
  /\ Accounts \subseteq Signers
BY BrokersAssumption

LEMMA KeysAreAccounts ==
  /\ Keys \in Seq(Accounts)
  /\ Len(Keys) \in Nat \ {0}
  /\ \A i \in 1 .. Len(Keys) : Keys[i] \in Accounts
<1>1. Keys \in Seq(Accounts) /\ Accounts = ToSet(Keys) /\ Accounts # {}
  BY ExecutorAssumption
<1>2. Len(Keys) \in Nat /\ DOMAIN Keys = 1 .. Len(Keys)
  BY <1>1, LenProperties
<1>3. \A i \in 1 .. Len(Keys) : Keys[i] \in Accounts
  BY <1>1, ElementOfSeq
<1>4. Len(Keys) # 0
  BY <1>1, <1>2 DEF ToSet
<1> QED BY <1>1, <1>2, <1>3, <1>4

(* Min picks an element of the set (afirst() finds a row that is there).   *)
LEMMA MinIsMember ==
  ASSUME NEW S \in SUBSET Nat, S # {}
  PROVE  Min(S) \in S
<1> DEFINE Less == {pair \in Nat \X Nat : pair[1] < pair[2]}
<1>1. IsWellFoundedOn(Less, Nat)
  BY NatLessThanWellFounded DEF OpToRel
<1>2. PICK x \in S : \A y \in S : ~ (<<y, x>> \in Less)
  <2> HIDE DEF Less
  <2> QED BY <1>1, WFMin
<1>3. \A y \in S : x <= y
  <2> TAKE y \in S
  <2>1. x \in Nat /\ y \in Nat
    OBVIOUS
  <2>2. ~ y < x
    BY <1>2, <2>1
  <2> QED BY <2>1, <2>2
<1> QED BY <1>3 DEF Min

-----------------------------------------------------------------------------
(* The chain and the factory keep their types.                             *)

LEMMA AcceptTyped ==
  ASSUME ChainTypeOK, NEW tx \in Transaction, Accept(tx)
  PROVE  ChainTypeOK'
BY DEF ChainTypeOK, Accept, SameSlot

LEMMA ExpireTyped ==
  ASSUME ChainTypeOK, NEW n, Expire(n),
         UNCHANGED <<bot_owner, next_nonce, receipts, tokens>>
  PROVE  ChainTypeOK'
<1>1. mempool' \subseteq Transaction
  <2> SUFFICES ASSUME NEW tx \in mempool
               PROVE  [tx EXCEPT !.late = @ \/ RECEIPT_TIMEOUT >= DEADLINE_DELAY_SECONDS]
                         \in Transaction
    BY DEF Expire, ChainTypeOK
  <2>1. tx \in Transaction
    BY DEF ChainTypeOK
  <2>2. (RECEIPT_TIMEOUT >= DEADLINE_DELAY_SECONDS) \in BOOLEAN
    BY ChainAssumption
  <2> QED BY <2>1, <2>2 DEF Transaction
<1> QED BY <1>1 DEF ChainTypeOK

LEMMA MineTyped ==
  ASSUME ChainTypeOK, NEW tx \in mempool, Mine(tx)
  PROVE  ChainTypeOK'
<1>1. tx \in Transaction
  BY DEF ChainTypeOK
<1>2. /\ tx.n \in Nat /\ tx.signer \in Accounts
      /\ tx.bot \in Bots /\ tx.pair \in Pairs
  BY <1>1 DEF Transaction
<1>3. next_nonce' \in [Accounts -> Nat]
  BY <1>2 DEF ChainTypeOK, Mine
<1>4. receipts' \subseteq [n: Nat, status: TxStatus]
  BY <1>2 DEF ChainTypeOK, Mine, TxStatus
<1>5. tokens' \subseteq Bots \X Pairs
  BY <1>2 DEF ChainTypeOK, Mine
<1> QED BY <1>3, <1>4, <1>5 DEF ChainTypeOK, Mine

LEMMA DeployTyped ==
  ASSUME ChainTypeOK, NEW address \in Bots, NEW owner \in Accounts,
         Deploy(address, owner)
  PROVE  ChainTypeOK'
BY NoneIsNoBody DEF ChainTypeOK, Deploy, Create

(* A creation order names an account.                                      *)
LEMMA CreationOrders ==
  ASSUME FactoryTypeOK, Handles("create")
  PROVE  Head(bot_order_broker).owner \in Accounts
<1>1. Head(bot_order_broker) \in BotOrder
  BY TailFacts DEF FactoryTypeOK, Handles
<1> QED BY <1>1 DEF BotOrder, Handles

(* Booking a sell leaves a row a row.                                      *)
LEMMA BookedTyped ==
  ASSUME NEW row \in BotRow, NEW tx_status
  PROVE  Booked(row, tx_status) \in BotRow
<1> DEFINE used == row.number_used + 1
           failed == row.is_failed \/ tx_status # "SUCCESS"
<1>1. used \in Nat
  BY DEF BotRow
<1>2. failed \in BOOLEAN
  OBVIOUS
<1>3. Booked(row, tx_status) =
        [row EXCEPT !.number_used = used, !.is_failed = failed]
  BY DEF Booked
<1> HIDE DEF used, failed
<1> QED BY <1>1, <1>2, <1>3 DEF BotRow

LEMMA FactoryNextTyped ==
  ASSUME ChainTypeOK, FactoryTypeOK, FactoryNext
  PROVE  ChainTypeOK' /\ FactoryTypeOK'
<1>1. bot_order_broker # <<>>
  BY DEF FactoryNext, FoundBot, CreateBot, Deploy, Create, CreateBotFails, UpdateBot,
         DatabaseRaises, Handles
<1>2. /\ Head(bot_order_broker) \in BotOrder
      /\ Tail(bot_order_broker) \in Seq(BotOrder)
  BY <1>1, TailFacts DEF FactoryTypeOK
<1>3. CASE FoundBot
  <2> DEFINE available == Available(Head(bot_order_broker).owner)
  <2>1. available \in SUBSET Nat /\ available \subseteq DOMAIN rows
    BY LenProperties DEF Available, FactoryTypeOK
  <2>2. available # {}
    BY <1>3 DEF FoundBot
  <2>3. Min(available) \in DOMAIN rows
    BY <2>1, <2>2, MinIsMember
  <2>4. rows[Min(available)] \in BotRow
    BY <2>3, ElementOfSeq, LenProperties DEF FactoryTypeOK
  <2>5. bot_result_broker' \in Seq(BotRow)
    BY <1>3, <2>4, AppendFacts DEF FoundBot, FactoryTypeOK
  <2> QED BY <1>2, <1>3, <2>5 DEF FoundBot, FactoryTypeOK, ChainTypeOK, chainVars
<1>4. ASSUME NEW address \in Bots, NEW owner \in Accounts, CreateBot(address, owner)
      PROVE  ChainTypeOK' /\ FactoryTypeOK'
  <2>1. ChainTypeOK'
    BY <1>4, DeployTyped DEF CreateBot
  <2>2. NewBot(address, owner) \in BotRow
    BY NoneIsNoBody DEF NewBot, BotRow
  <2>3. rows' \in Seq(BotRow) /\ bot_result_broker' \in Seq(BotRow)
    BY <1>4, <2>2, AppendFacts DEF CreateBot, FactoryTypeOK
  <2> QED BY <1>2, <1>4, <2>1, <2>3 DEF CreateBot, FactoryTypeOK
<1>5. CASE CreateBotFails
  <2>1. Head(bot_order_broker).owner \in Accounts
    BY <1>5, CreationOrders DEF CreateBotFails
  <2>2. ChainTypeOK'
    <3>1. CASE UNCHANGED chainVars
      BY <3>1 DEF ChainTypeOK, chainVars
    <3>2. CASE \E address \in Bots : Deploy(address, Head(bot_order_broker).owner)
      BY <3>2, <2>1, DeployTyped
    <3> QED BY <1>5, <3>1, <3>2 DEF CreateBotFails
  <2>3. bot_order_broker' \in Seq(BotOrder)
    BY <1>2, <1>5, AppendFacts DEF CreateBotFails, Retry
  <2> QED BY <1>5, <2>2, <2>3 DEF CreateBotFails, FactoryTypeOK
<1>6. CASE UpdateBot
  <2>1. ChainTypeOK'
    BY <1>6 DEF UpdateBot, ChainTypeOK, chainVars
  <2>2. rows' \in Seq(BotRow)
    <3> DEFINE order == Head(bot_order_broker)
    <3>1. \A i \in DOMAIN rows : rows[i] \in BotRow
      BY ElementOfSeq, LenProperties DEF FactoryTypeOK
    <3>2. \A i \in DOMAIN rows : Booked(rows[i], order.tx_status) \in BotRow
      BY <3>1, BookedTyped
    <3>3. rows' \in [DOMAIN rows -> BotRow]
      BY <1>6, <3>1, <3>2 DEF UpdateBot
    <3> QED BY <3>3, MapFacts DEF FactoryTypeOK
  <2> QED BY <1>2, <1>6, <2>1, <2>2 DEF UpdateBot, FactoryTypeOK
<1>7. CASE DatabaseRaises
  <2>1. ChainTypeOK'
    <3>1. CASE UNCHANGED chainVars
      BY <3>1 DEF ChainTypeOK, chainVars
    <3>2. CASE \E address \in Bots, owner \in Accounts : Deploy(address, owner)
      BY <3>2, DeployTyped
    <3> QED BY <1>7, <3>1, <3>2 DEF DatabaseRaises
  <2> QED BY <1>2, <1>7, <2>1 DEF DatabaseRaises, FactoryTypeOK
<1> QED BY <1>3, <1>4, <1>5, <1>6, <1>7 DEF FactoryNext

-----------------------------------------------------------------------------
(* What a thread does, told apart by what the main process sees of it.     *)

\* The thread of j goes on as next.
Follows(j, next) ==
    /\ next \in Job /\ JobOK(next)
    /\ next.n = j.n /\ next.order = j.order
    /\ Becomes(j, next)

\* It is in the tail of execute, or through with it.
GoesInTail(j) ==
    Returns(j) \/ \E next : Follows(j, next) /\ next.phase \in TailPhases

\* Nothing is answered.
Silent(j) ==
    /\ UNCHANGED <<execution_report, lost>>
    /\ \/ j.phase \in TailPhases /\ GoesInTail(j)
       \/ /\ j.phase \notin TailPhases
          /\ \E next : Follows(j, next) /\ next.phase \notin TailPhases

\* The order is answered, by the bot that it names.
Answers(j) ==
    /\ j.phase \notin TailPhases
    /\ j.bot \in Bots /\ (j.order.bot # None => j.bot = j.order.bot)
    /\ \E status \in TxStatus :
          execution_report' = Append(execution_report, Ack(j, status))
    /\ GoesInTail(j)
    /\ UNCHANGED lost

\* The order is a buy, and is lost.
Vanishes(j) ==
    /\ j.phase \notin TailPhases
    /\ j.order.is_buy
    /\ Returns(j)
    /\ lost' = lost + 1
    /\ UNCHANGED execution_report

LEMMA JobFacts ==
  ASSUME IInv, NEW j \in jobs
  PROVE  /\ j \in Job /\ JobOK(j)
         /\ j.n \in Nat /\ j.nonce \in Nat
         /\ j.order \in ExecutionOrder /\ j.account \in Accounts
<1>1. j \in Job /\ JobOK(j)
  BY DEF IInv, TypeOK, ThreadsTypeOK, JobsConsistent
<1> QED BY <1>1 DEF Job

(* Going to another phase changes nothing else.                            *)
LEMMA GoesFacts ==
  ASSUME IInv, NEW j \in jobs, j.phase # "queued",
         NEW phase \in {"wait"} \cup TailPhases, Goes(j, phase),
         phase \in TailPhases => j.phase \in TailPhases
  PROVE  \E next : Follows(j, next) /\ next.phase = phase
<1> DEFINE next == [j EXCEPT !.phase = phase]
<1>1. j \in Job /\ JobOK(j)
  BY JobFacts
<1>2. phase # "queued"
  BY DEF TailPhases
<1>3. /\ next \in Job /\ next.phase = phase
      /\ next.n = j.n /\ next.order = j.order /\ next.account = j.account
      /\ next.bot = j.bot /\ next.status = j.status
  BY <1>1 DEF Job, ChainPhases
<1>4. Becomes(j, next)
  BY DEF Goes
<1> HIDE DEF next
<1>5. JobOK(next)
  BY <1>1, <1>2, <1>3 DEF JobOK
<1> QED BY <1>3, <1>4, <1>5 DEF Follows

(* An acknowledgement answers the order.                                   *)
LEMMA AcknowledgeAnswers ==
  ASSUME IInv, NEW j \in jobs, j.phase \in ChainPhases,
         NEW status \in TxStatus, Acknowledge(j, status)
  PROVE  Answers(j)
<1> DEFINE next == [j EXCEPT !.phase = "check", !.status = status]
<1>1. j \in Job /\ JobOK(j)
  BY JobFacts
<1>2. j.phase # "queued" /\ j.phase \notin TailPhases
  BY DEF ChainPhases, TailPhases
<1>3. /\ next \in Job /\ next.phase = "check" /\ "check" \in TailPhases
      /\ next.n = j.n /\ next.order = j.order /\ next.account = j.account
      /\ next.bot = j.bot /\ next.status = status
  BY <1>1 DEF Job, TailPhases
<1>4. Becomes(j, next)
  BY DEF Acknowledge
<1> HIDE DEF next
<1>5. JobOK(next)
  BY <1>1, <1>2, <1>3 DEF JobOK
<1>6. GoesInTail(j)
  BY <1>3, <1>4, <1>5 DEF GoesInTail, Follows
<1>7. UNCHANGED lost /\ execution_report' = Append(execution_report, Ack(j, status))
  BY DEF Acknowledge
<1> QED BY <1>1, <1>2, <1>6, <1>7 DEF Answers, JobOK

(* The bot of an account is a row.                                         *)
LEMMA BotOfFacts ==
  ASSUME IInv, NEW a \in Accounts, HasBot(a)
  PROVE  bot_of[a] \in BotRow /\ bot_of[a].address \in Bots
<1>1. bot_of[a] \in BotRow
  BY DEF IInv, TypeOK, ThreadsTypeOK, HasBot
<1> QED BY <1>1 DEF BotRow

(* Starting fixes the bot.                                                 *)
LEMMA StartIsSilent ==
  ASSUME IInv, NEW j \in jobs, Start(j)
  PROVE  Silent(j)
<1> DEFINE phase == IF j.order.is_paper THEN "simulate" ELSE "nonce"
           bot == IF j.order.bot # None THEN j.order.bot
                  ELSE bot_of[j.account].address
           next == [j EXCEPT !.phase = phase, !.bot = bot]
<1>1. j \in Job /\ JobOK(j) /\ j.order \in ExecutionOrder /\ j.account \in Accounts
  BY JobFacts
<1>2. bot \in Bots /\ (j.order.bot # None => bot = j.order.bot)
  BY <1>1, BotOfFacts DEF Start, ExecutionOrder
<1>3. phase \in {"simulate", "nonce"}
  OBVIOUS
<1>4. Becomes(j, next)
  BY DEF Start
<1> HIDE DEF phase, bot
<1>5. /\ next \in Job /\ next.phase = phase
      /\ next.n = j.n /\ next.order = j.order /\ next.account = j.account
      /\ next.bot = bot
  BY <1>1, <1>2, <1>3 DEF Job, ChainPhases
<1> HIDE DEF next
<1>6. next.phase # "queued" /\ next.phase \notin TailPhases
  BY <1>3, <1>5 DEF TailPhases
<1>7. JobOK(next)
  BY <1>1, <1>2, <1>5, <1>6 DEF JobOK
<1>8. j.phase = "queued" /\ j.phase \notin TailPhases
  BY DEF Start, MayStart, Queued, TailPhases
<1> QED BY <1>4, <1>5, <1>6, <1>7, <1>8 DEF Silent, Follows, Start

(* A thread works in silence, answers its order, or loses a buy.           *)
LEMMA ThreadsAnswer ==
  ASSUME IInv, NEW j \in jobs, Execute(j)
  PROVE  Silent(j) \/ Answers(j) \/ Vanishes(j)
<1>1. /\ j \in Job /\ JobOK(j) /\ j.order \in ExecutionOrder
      /\ j.account \in Accounts
  BY JobFacts
<1>2. CASE Start(j)
  BY <1>2, StartIsSilent
<1>3. CASE StartRaises(j)
  <2>1. j.order.is_buy
    BY <1>1, <1>3 DEF StartRaises, JobOK, Shaped
  <2> QED BY <1>3, <2>1 DEF StartRaises, MayStart, Queued, TailPhases, Vanishes
<1>4. CASE Simulate(j)
  <2>1. j.phase # "queued" /\ j.phase \notin TailPhases
    BY <1>4 DEF Simulate, TailPhases
  <2> QED BY <1>1, <1>4, <2>1 DEF Simulate, JobOK, Answers, GoesInTail
<1>5. CASE GetNonce(j)
  <2> DEFINE next == [j EXCEPT !.phase = "send", !.nonce = next_nonce[j.account]]
  <2>1. next_nonce[j.account] \in Nat
    BY <1>1 DEF IInv, TypeOK, ChainTypeOK
  <2>2. /\ next \in Job /\ next.phase = "send"
        /\ next.n = j.n /\ next.order = j.order /\ next.account = j.account
        /\ next.bot = j.bot /\ next.status = j.status
    BY <1>1, <2>1 DEF Job, ChainPhases
  <2>3. /\ j.phase # "queued" /\ j.phase \notin TailPhases
        /\ "send" \notin TailPhases
    BY <1>5 DEF GetNonce, TailPhases
  <2>4. Becomes(j, next)
    BY <1>5 DEF GetNonce
  <2> HIDE DEF next
  <2>5. JobOK(next)
    BY <1>1, <2>2, <2>3 DEF JobOK
  <2> QED BY <1>5, <2>2, <2>3, <2>4, <2>5 DEF GetNonce, Silent, Follows
<1>6. CASE Send(j)
  <2>1. j.phase \notin TailPhases /\ j.phase # "queued" /\ "wait" \notin TailPhases
    BY <1>6 DEF Send, TailPhases
  <2>2. \E next : Follows(j, next) /\ next.phase = "wait"
    BY <1>6, <2>1, GoesFacts DEF Send
  <2> QED BY <1>6, <2>1, <2>2 DEF Send, Silent
<1>7. CASE SendRefused(j)
  BY <1>7, AcknowledgeAnswers DEF SendRefused, ChainPhases, TxStatus
<1>8. CASE GetReceipt(j)
  <2>1. receipts \subseteq [n: Nat, status: TxStatus]
    BY DEF IInv, TypeOK, ChainTypeOK
  <2>2. PICK receipt \in receipts : Acknowledge(j, receipt.status)
    BY <1>8 DEF GetReceipt
  <2>3. receipt.status \in TxStatus
    BY <2>1
  <2> QED BY <1>8, <2>2, <2>3, AcknowledgeAnswers DEF GetReceipt, ChainPhases
<1>9. CASE Timeout(j)
  BY <1>9, AcknowledgeAnswers DEF Timeout, TimesOut, ChainPhases, TxStatus
<1>10. CASE NodeRaises(j)
  BY <1>10, AcknowledgeAnswers DEF NodeRaises, TxStatus
<1>11. CASE NoBotLeft(j)
  BY <1>11 DEF NoBotLeft, TailStep, TailPhases, Silent, GoesInTail
<1>12. CASE TellFactory(j)
  <2>1. j.phase \in TailPhases /\ "count" \in TailPhases /\ j.phase # "queued"
    BY <1>12 DEF TellFactory, TailPhases
  <2>2. Goes(j, "count") => \E next : Follows(j, next) /\ next.phase = "count"
    BY <2>1, GoesFacts
  <2> QED BY <1>12, <2>1, <2>2 DEF TellFactory, TailStep, Silent, GoesInTail
<1>13. CASE CountUse(j)
  <2>1. j.phase \in TailPhases /\ "replace" \in TailPhases /\ j.phase # "queued"
    BY <1>13 DEF CountUse, TailPhases
  <2>2. Goes(j, "replace") => \E next : Follows(j, next) /\ next.phase = "replace"
    BY <2>1, GoesFacts
  <2> QED BY <1>13, <2>1, <2>2 DEF CountUse, TailStep, Silent, GoesInTail
<1>14. CASE ReplaceBot(j)
  <2>1. j.phase \in TailPhases /\ "request" \in TailPhases /\ j.phase # "queued"
    BY <1>14 DEF ReplaceBot, TailPhases
  <2>2. \E next : Follows(j, next) /\ next.phase = "request"
    BY <1>14, <2>1, GoesFacts DEF ReplaceBot
  <2> QED BY <1>14, <2>1, <2>2 DEF ReplaceBot, TailStep, Silent, GoesInTail
<1>15. CASE RequestBot(j)
  BY <1>15 DEF RequestBot, TailStep, TailPhases, Silent, GoesInTail
<1> QED BY <1>2, <1>3, <1>4, <1>5, <1>6, <1>7, <1>8, <1>9, <1>10, <1>11,
           <1>12, <1>13, <1>14, <1>15 DEF Execute, Proceeds

-----------------------------------------------------------------------------
(* The steps of the threads keep the invariant.                            *)

(* Whatever a thread does, its job stays the only one of its number.       *)
LEMMA JobsKept ==
  ASSUME IInv, NEW j \in jobs, Silent(j) \/ Answers(j) \/ Vanishes(j),
         UNCHANGED counter
  PROVE  jobs' \subseteq Job /\ JobsConsistent'
<1>1. jobs \subseteq Job /\ JobsConsistent
  BY DEF IInv, TypeOK, ThreadsTypeOK
<1>2. CASE Returns(j)
  BY <1>1, <1>2 DEF Returns, JobsConsistent
<1>3. CASE \E next : Follows(j, next)
  <2>1. PICK next : Follows(j, next)
    BY <1>3
  <2>2. jobs' = (jobs \ {j}) \cup {next}
    BY <2>1 DEF Follows, Becomes
  <2>3. next \in Job /\ JobOK(next) /\ next.n = j.n
    BY <2>1 DEF Follows
  <2>4. \A k \in jobs' : JobOK(k) /\ k.n <= counter'
    BY <1>1, <2>2, <2>3 DEF JobsConsistent
  <2>5. ASSUME NEW k \in jobs', NEW m \in jobs', k.n = m.n
        PROVE  k = m
    BY <1>1, <2>2, <2>3, <2>5 DEF JobsConsistent
  <2>6. \A k \in jobs' : JobOK(k)'
    BY <2>4 DEF JobOK, Shaped
  <2> QED BY <1>1, <2>2, <2>3, <2>4, <2>5, <2>6 DEF JobsConsistent
<1> QED BY <1>2, <1>3 DEF Silent, Answers, Vanishes, GoesInTail

LEMMA TxTyped ==
  ASSUME IInv, NEW j \in jobs, j.phase = "send"
  PROVE  TxOf(j) \in Transaction
<1>1. /\ JobOK(j) /\ j.n \in Nat /\ j.nonce \in Nat
      /\ j.order \in ExecutionOrder /\ j.account \in Accounts
  BY JobFacts
<1>2. j.bot \in Bots
  BY <1>1 DEF JobOK
<1> QED BY <1>1, <1>2 DEF TxOf, Transaction, ExecutionOrder

(* The chain and the accounts keep their types.                            *)
LEMMA ThreadsTyped ==
  ASSUME IInv, NEW j \in jobs, Execute(j)
  PROVE  /\ ChainTypeOK'
         /\ bot_order_broker' \in Seq(BotOrder)
         /\ bot_of' \in [Accounts -> BotRow \cup {None}]
         /\ ThreadStep
<1> USE DEF IInv, TypeOK, ThreadsTypeOK, FactoryTypeOK
<1>1. JobOK(j) /\ j.account \in Accounts /\ j.order \in ExecutionOrder
  BY JobFacts
<1>2. CASE UNCHANGED <<chainVars, bot_order_broker, bot_of>> /\ ThreadStep
  BY <1>2 DEF ChainTypeOK, chainVars
<1>3. CASE Start(j) \/ StartRaises(j) \/ Simulate(j) \/ GetNonce(j)
             \/ SendRefused(j) \/ GetReceipt(j) \/ NoBotLeft(j)
  BY <1>2, <1>3 DEF Start, StartRaises, Simulate, GetNonce, SendRefused, GetReceipt,
                    Acknowledge, NoBotLeft, TailStep
<1>4. CASE Send(j)
  BY <1>4, TxTyped, AcceptTyped DEF Send
<1>5. CASE Timeout(j)
  BY <1>5, ExpireTyped DEF Timeout, Acknowledge
<1>6. CASE NodeRaises(j)
  <2>1. CASE UNCHANGED chainVars
    BY <1>2, <1>6, <2>1 DEF NodeRaises, Acknowledge
  <2>2. CASE j.phase = "send" /\ Accept(TxOf(j))
    BY <1>6, <2>2, TxTyped, AcceptTyped DEF NodeRaises, Acknowledge
  <2> QED BY <1>6, <2>1, <2>2 DEF NodeRaises
<1>7. CASE TellFactory(j)
  <2>1. bot_of[j.account].address \in Bots
    BY <1>1, <1>7, BotOfFacts DEF TellFactory
  <2>2. j.status \in TxStatus
    BY <1>1, <1>7 DEF TellFactory, JobOK, TailPhases
  <2>3. BotUpdateOrder(bot_of[j.account].address, Ack(j, j.status)) \in BotOrder
    BY <1>1, <2>1, <2>2 DEF BotUpdateOrder, Ack, BotOrder, ExecutionOrder
  <2>4. bot_order_broker' \in Seq(BotOrder)
    BY <1>7, <2>3, AppendFacts DEF TellFactory
  <2> QED BY <1>7, <2>4 DEF TellFactory, TailStep, ChainTypeOK, chainVars
<1>8. CASE CountUse(j)
  <2>1. bot_of[j.account] \in BotRow
    BY <1>1, <1>8, BotOfFacts DEF CountUse
  <2>2. Used(bot_of[j.account], j.status) \in BotRow
    BY <2>1, BookedTyped DEF Used, Booked
  <2>3. bot_of' \in [Accounts -> BotRow \cup {None}]
    BY <1>1, <1>8, <2>2 DEF CountUse
  <2> QED BY <1>8, <2>3 DEF CountUse, TailStep, ChainTypeOK, chainVars
<1>9. CASE ReplaceBot(j)
  BY <1>1, <1>9 DEF ReplaceBot, TailStep, ChainTypeOK, chainVars
<1>10. CASE RequestBot(j)
  <2>1. BotCreationOrder(j.account) \in BotOrder
    BY <1>1 DEF BotCreationOrder, BotOrder
  <2>2. bot_order_broker' \in Seq(BotOrder)
    BY <1>10, <2>1, AppendFacts DEF RequestBot
  <2> QED BY <1>10, <2>2 DEF RequestBot, TailStep, ChainTypeOK, chainVars
<1> QED BY <1>3, <1>4, <1>5, <1>6, <1>7, <1>8, <1>9, <1>10 DEF Execute, Proceeds

(* An acknowledgement is one, and answers a report with one more.          *)
LEMMA ReportsTyped ==
  ASSUME IInv, NEW j \in jobs, Silent(j) \/ Answers(j) \/ Vanishes(j)
  PROVE  execution_report' \in Seq(ExecutionAck) /\ lost' \in Nat
<1> USE DEF IInv, TypeOK, ThreadsTypeOK, QueuesTypeOK
<1>1. JobOK(j) /\ j.account \in Accounts /\ j.order \in ExecutionOrder
  BY JobFacts
<1>2. CASE Answers(j)
  <2>1. PICK status \in TxStatus :
           execution_report' = Append(execution_report, Ack(j, status))
    BY <1>2 DEF Answers
  <2>2. Ack(j, status) \in ExecutionAck
    BY <1>1, <1>2, NoneIsNoBody DEF Ack, ExecutionAck, ExecutionOrder, Answers
  <2> QED BY <1>2, <2>1, <2>2, AppendFacts DEF Answers
<1> QED BY <1>2 DEF Silent, Vanishes

-----------------------------------------------------------------------------
(* The invariant holds initially and is kept by every step.                *)

LEMMA SetOfQueue ==
  ASSUME NEW S, NEW s \in Seq(S)
  PROVE  ToSet(s) \subseteq S
<1>1. DOMAIN s = 1 .. Len(s) /\ \A i \in 1 .. Len(s) : s[i] \in S
  BY LenProperties, ElementOfSeq
<1> QED BY <1>1 DEF ToSet

(* The owner of a contract that is there at the start.                     *)
LEMMA StoredOwnerTyped ==
  ASSUME rows \in Seq(BotRow), NEW bot
  PROVE  StoredOwner(bot) \in Signers \cup {None}
<1> DEFINE stored == {i \in DOMAIN rows : rows[i].address = bot}
           holding == {p \in OpenPositions : p.bot = bot}
<1>1. CASE stored # {}
  <2>1. DOMAIN rows = 1 .. Len(rows) /\ \A i \in DOMAIN rows : rows[i] \in BotRow
    BY LenProperties, ElementOfSeq
  <2>2. stored \in SUBSET Nat
    BY <2>1
  <2>3. Min(stored) \in DOMAIN rows
    BY <1>1, <2>2, MinIsMember
  <2>4. rows[Min(stored)].owner \in Signers
    BY <2>1, <2>3 DEF BotRow
  <2> QED BY <1>1, <2>4 DEF StoredOwner
<1>2. CASE stored = {} /\ holding # {}
  <2>1. (CHOOSE p \in holding : TRUE) \in Position
    BY <1>2, ExecutionSystemAssumption
  <2> QED BY <1>2, <2>1 DEF StoredOwner, Position
<1>3. CASE stored = {} /\ holding = {}
  BY <1>3 DEF StoredOwner
<1> QED BY <1>1, <1>2, <1>3

LEMMA InitIInv == Init => IInv
<1> SUFFICES ASSUME Init PROVE IInv
  OBVIOUS
<1>1. OpenPositions \subseteq Position /\ StoredBots \in Seq(BotRow)
  BY ExecutionSystemAssumption, BotFactoryAssumption
<1>2. QueuesTypeOK
  BY DEF Init, QueuesTypeOK
<1>3. ChainTypeOK
  <2>1. bot_owner \in [Bots -> Signers \cup {None}]
    BY <1>1, StoredOwnerTyped DEF Init
  <2>2. tokens \subseteq Bots \X Pairs
    BY <1>1 DEF Init, Position
  <2> QED BY <2>1, <2>2 DEF Init, ChainTypeOK
<1>4. FactoryTypeOK
  <2>1. DOMAIN Keys = 1 .. Len(Keys) /\ Len(Keys) \in Nat
    BY KeysAreAccounts, LenProperties
  <2>2. \A i \in 1 .. Len(Keys) : BotCreationOrder(Keys[i]) \in BotOrder
    BY KeysAreAccounts DEF BotCreationOrder, BotOrder
  <2>3. bot_order_broker \in Seq(BotOrder)
    BY <2>1, <2>2 DEF Init
  <2> QED BY <1>1, <2>3 DEF Init, FactoryTypeOK
<1>5. ThreadsTypeOK
  BY DEF Init, ThreadsInit, ThreadsTypeOK
<1>6. /\ glb_inventory \subseteq Position /\ glb_fullfilled \in Int
      /\ untraded \subseteq Pairs /\ acked \subseteq ExecutionAck
  BY <1>1 DEF Init
<1>7. (\A order \in ToSet(execution_broker) : Shaped(order)) /\ JobsConsistent
  BY DEF Init, ThreadsInit, JobsConsistent, ToSet
<1> QED BY <1>2, <1>3, <1>4, <1>5, <1>6, <1>7 DEF IInv, TypeOK

(* The main process sends orders as they must be.                          *)
LEMMA OrdersOfMainProcess ==
  /\ \A pair \in Pairs, is_paper \in Paper :
        /\ BuyOrder(pair, is_paper) \in ExecutionOrder
        /\ Shaped(BuyOrder(pair, is_paper))
  /\ \A position \in Position :
        /\ SellOrder(position) \in ExecutionOrder
        /\ Shaped(SellOrder(position))
<1>1. Paper \subseteq BOOLEAN
  BY ExecutionSystemAssumption
<1>2. ASSUME NEW pair \in Pairs, NEW is_paper \in Paper
      PROVE  /\ BuyOrder(pair, is_paper) \in ExecutionOrder
             /\ Shaped(BuyOrder(pair, is_paper))
  BY <1>1 DEF BuyOrder, ExecutionOrder, Shaped
<1>3. ASSUME NEW position \in Position
      PROVE  /\ SellOrder(position) \in ExecutionOrder
             /\ Shaped(SellOrder(position))
  BY NoneIsNoBody DEF SellOrder, ExecutionOrder, Shaped, Position
<1> QED BY <1>2, <1>3

LEMMA SendKeepsIInv ==
  ASSUME IInv, NEW order \in ExecutionOrder, Shaped(order), MainStep,
         execution_broker' = Append(execution_broker, order),
         UNCHANGED execution_report,
         glb_inventory' \subseteq Position, glb_fullfilled' \in Int,
         untraded' \subseteq Pairs
  PROVE  IInv'
<1> USE DEF MainStep, otherQueues, chainVars, factoryVars, threadVars
<1>1. execution_broker' \in Seq(ExecutionOrder)
      /\ ToSet(execution_broker') = ToSet(execution_broker) \cup {order}
  BY AppendFacts DEF IInv, TypeOK, QueuesTypeOK
<1>2. TypeOK'
  BY <1>1 DEF IInv, TypeOK, QueuesTypeOK, ChainTypeOK, FactoryTypeOK, ThreadsTypeOK
<1>3. \A o \in ToSet(execution_broker') : Shaped(o)
  BY <1>1 DEF IInv
<1>4. JobsConsistent'
  BY DEF IInv, JobsConsistent, JobOK, Shaped
<1> QED BY <1>1, <1>2, <1>3, <1>4 DEF IInv, Shaped

LEMMA HandleAckKeepsIInv ==
  ASSUME IInv, HandleAck
  PROVE  IInv'
<1> USE DEF MainStep, otherQueues, chainVars, factoryVars, threadVars
<1> DEFINE ack == Head(execution_report)
<1>1. ack \in ExecutionAck /\ execution_report' \in Seq(ExecutionAck)
  BY TailFacts DEF HandleAck, IInv, TypeOK, QueuesTypeOK
<1>2. NewPosition(ack) \in Position
  BY <1>1 DEF NewPosition, ExecutionAck, Position
<1>3. glb_inventory' \subseteq Position
  BY <1>2 DEF HandleAck, IInv, TypeOK
<1>4. glb_fullfilled' \in Int
  <2>1. glb_fullfilled \in Int
    BY DEF IInv, TypeOK
  <2>2. glb_fullfilled' = glb_fullfilled \/ glb_fullfilled' = glb_fullfilled - 1
    BY DEF HandleAck
  <2> QED BY <2>1, <2>2
<1>5. UNCHANGED <<execution_broker, untraded>> /\ MainStep
  BY DEF HandleAck
<1> HIDE DEF ack
<1>6. TypeOK'
  BY <1>1, <1>3, <1>4, <1>5
     DEF IInv, TypeOK, QueuesTypeOK, ChainTypeOK, FactoryTypeOK, ThreadsTypeOK
<1> QED BY <1>5, <1>6 DEF IInv, JobsConsistent, JobOK, Shaped

LEMMA ClientKeepsIInv ==
  ASSUME IInv, ClientNext
  PROVE  IInv'
<1>1. /\ glb_inventory \subseteq Position /\ glb_fullfilled \in Int
      /\ untraded \subseteq Pairs
  BY DEF IInv, TypeOK
<1>2. ASSUME NEW pair \in Pairs, NEW is_paper \in Paper, SendBuy(pair, is_paper)
      PROVE  IInv'
  <2>1. glb_fullfilled' \in Int
    BY <1>1, <1>2 DEF SendBuy
  <2>2. glb_inventory' \subseteq Position /\ untraded' \subseteq Pairs
    BY <1>1, <1>2 DEF SendBuy
  <2> QED BY <1>2, <2>1, <2>2, OrdersOfMainProcess, SendKeepsIInv DEF SendBuy
<1>3. ASSUME NEW position \in glb_inventory, SendSell(position)
      PROVE  IInv'
  <2>1. position \in Position
    BY <1>1
  <2>2. /\ glb_inventory' \subseteq Position /\ glb_fullfilled' \in Int
        /\ untraded' \subseteq Pairs
    BY <1>1, <1>3 DEF SendSell
  <2> QED BY <1>3, <2>1, <2>2, OrdersOfMainProcess, SendKeepsIInv DEF SendSell
<1> QED BY <1>2, <1>3, HandleAckKeepsIInv DEF ClientNext

(* A known signer keeps its order, and the others go to some account.      *)
LEMMA AccountsOfOrders ==
  ASSUME IInv, NEW order \in ExecutionOrder
  PROVE  /\ AccountFor(order) \in Accounts
         /\ order.signer \in Accounts => AccountFor(order) = order.signer
<1>1. counter \in Nat
  BY DEF IInv, TypeOK, ThreadsTypeOK
<1>2. (counter % Len(Keys)) + 1 \in 1 .. Len(Keys)
  BY <1>1, KeysAreAccounts
<1>3. Keys[(counter % Len(Keys)) + 1] \in Accounts
  BY <1>2, KeysAreAccounts
<1>4. Last(Keys) \in Accounts
  BY KeysAreAccounts DEF Last
<1>5. None \notin Accounts
  BY NoneIsNoBody
<1> QED BY <1>3, <1>4, <1>5 DEF AccountFor

(* Every order that is received gets a number of its own.                  *)
LEMMA OrderTaskKeepsIInv ==
  ASSUME IInv, OrderTask, acked' \subseteq ExecutionAck,
         UNCHANGED <<glb_inventory, glb_fullfilled, untraded>>
  PROVE  IInv'
<1> USE DEF otherQueues, chainVars, factoryVars
<1> DEFINE order == Head(execution_broker)
<1>1. ReceiveOrder
  BY DEF OrderTask, Submit, DropOrder
<1>2. /\ order \in ExecutionOrder
      /\ execution_broker' \in Seq(ExecutionOrder)
      /\ ToSet(execution_broker) = {order} \cup ToSet(execution_broker')
  BY <1>1, TailFacts DEF ReceiveOrder, IInv, TypeOK, QueuesTypeOK
<1>3. Shaped(order) /\ \A o \in ToSet(execution_broker') : Shaped(o)
  BY <1>2 DEF IInv
<1>4. counter \in Nat /\ counter' = counter + 1
  BY <1>1 DEF ReceiveOrder, IInv, TypeOK, ThreadsTypeOK
<1>5. lost \in Nat /\ lost' \in Nat
  BY DEF OrderTask, Submit, DropOrder, IInv, TypeOK, ThreadsTypeOK
<1>6. jobs' \subseteq Job /\ JobsConsistent'
  <2>1. jobs \subseteq Job /\ JobsConsistent
    BY DEF IInv, TypeOK, ThreadsTypeOK
  <2>2. \A k \in jobs : k.n \in Nat /\ k.n <= counter
    BY <2>1 DEF JobsConsistent, Job
  <2>3. CASE UNCHANGED jobs
    <3>1. \A k \in jobs : k.n <= counter'
      BY <2>2, <1>4
    <3> QED BY <2>1, <2>3, <3>1 DEF JobsConsistent, JobOK, Shaped
  <2>4. CASE Submit
    <3> DEFINE new == [n |-> counter + 1, order |-> order,
                       account |-> AccountFor(order), phase |-> "queued",
                       bot |-> None, nonce |-> 0, status |-> None]
    <3>1. jobs' = jobs \cup {new}
      BY <2>4 DEF Submit
    <3>2. /\ AccountFor(order) \in Accounts
          /\ order.signer \in Accounts => AccountFor(order) = order.signer
      BY <1>2, AccountsOfOrders
    <3>3. new \in Job
      BY <1>2, <1>4, <3>2 DEF Job
    <3>4. JobOK(new)
      BY <1>3, <3>2 DEF JobOK, TailPhases
    <3>5. new.n = counter'
      BY <1>4
    <3> HIDE DEF new
    <3>6. \A k \in jobs' : k.n <= counter'
      BY <2>2, <3>1, <3>5, <1>4
    <3>7. \A k \in jobs : k.n # new.n
      BY <2>2, <3>5, <1>4
    <3>8. \A k, m \in jobs' : k.n = m.n => k = m
      BY <2>1, <3>1, <3>7 DEF JobsConsistent
    <3>9. \A k \in jobs' : JobOK(k)'
      BY <2>1, <3>1, <3>4 DEF JobsConsistent, JobOK, Shaped
    <3> QED BY <2>1, <3>1, <3>3, <3>6, <3>8, <3>9 DEF JobsConsistent
  <2> QED BY <2>3, <2>4 DEF OrderTask, DropOrder
<1> HIDE DEF order
<1>7. TypeOK'
  BY <1>1, <1>2, <1>4, <1>5, <1>6
     DEF ReceiveOrder, IInv, TypeOK, QueuesTypeOK, ChainTypeOK, FactoryTypeOK,
         ThreadsTypeOK
<1> QED BY <1>3, <1>6, <1>7 DEF IInv, Shaped

LEMMA ExecuteKeepsIInv ==
  ASSUME IInv, NEW j \in jobs, Execute(j), acked' \subseteq ExecutionAck,
         UNCHANGED <<glb_inventory, glb_fullfilled, untraded>>
  PROVE  IInv'
<1>1. /\ ChainTypeOK'
      /\ bot_order_broker' \in Seq(BotOrder)
      /\ bot_of' \in [Accounts -> BotRow \cup {None}]
      /\ ThreadStep
  BY ThreadsTyped
<1>2. execution_report' \in Seq(ExecutionAck) /\ lost' \in Nat
  BY ThreadsAnswer, ReportsTyped
<1>3. jobs' \subseteq Job /\ JobsConsistent'
  BY <1>1, ThreadsAnswer, JobsKept DEF ThreadStep
<1>4. TypeOK'
  BY <1>1, <1>2, <1>3
     DEF ThreadStep, otherQueues, IInv, TypeOK, QueuesTypeOK, FactoryTypeOK, ThreadsTypeOK
<1> QED BY <1>1, <1>3, <1>4 DEF ThreadStep, IInv, Shaped

(* A step that touches neither orders nor jobs need only keep the types.   *)
LEMMA OrdersUntouched ==
  ASSUME IInv, TypeOK', UNCHANGED <<execution_broker, counter, jobs>>
  PROVE  IInv'
BY DEF IInv, JobsConsistent, JobOK, Shaped

LEMMA AssignBotKeepsIInv ==
  ASSUME IInv, AssignBot, acked' \subseteq ExecutionAck,
         UNCHANGED <<glb_inventory, glb_fullfilled, untraded>>
  PROVE  IInv'
<1> DEFINE result == Head(bot_result_broker)
<1>1. result \in BotRow /\ bot_result_broker' \in Seq(BotRow)
  BY TailFacts DEF AssignBot, IInv, TypeOK, FactoryTypeOK
<1>2. bot_of \in [Accounts -> BotRow \cup {None}]
  BY DEF IInv, TypeOK, ThreadsTypeOK
<1>3. bot_of' = [a \in Accounts |-> IF Wants(a, result) THEN result ELSE bot_of[a]]
  BY DEF AssignBot
<1> HIDE DEF result
<1>4. bot_of' \in [Accounts -> BotRow \cup {None}]
  BY <1>1, <1>2, <1>3
<1>5. UNCHANGED <<queues, counter, lost, jobs, bot_order_broker, rows, chainVars>>
  BY DEF AssignBot
<1>6. TypeOK'
  BY <1>1, <1>4, <1>5
     DEF queues, chainVars, IInv, TypeOK, QueuesTypeOK, ChainTypeOK, FactoryTypeOK,
         ThreadsTypeOK
<1> QED BY <1>5, <1>6, OrdersUntouched DEF queues

LEMMA FactoryKeepsIInv ==
  ASSUME IInv, FactoryTask, acked' \subseteq ExecutionAck,
         UNCHANGED <<glb_inventory, glb_fullfilled, untraded>>
  PROVE  IInv'
<1>1. ChainTypeOK' /\ FactoryTypeOK'
  BY FactoryNextTyped DEF FactoryTask, IInv, TypeOK
<1>2. TypeOK'
  BY <1>1 DEF FactoryTask, queues, threadVars, IInv, TypeOK, QueuesTypeOK, ThreadsTypeOK
<1> QED BY <1>2, OrdersUntouched DEF FactoryTask, queues, threadVars

LEMMA MineKeepsIInv ==
  ASSUME IInv, MineTransaction, acked' \subseteq ExecutionAck,
         UNCHANGED <<glb_inventory, glb_fullfilled, untraded>>
  PROVE  IInv'
<1>1. ChainTypeOK'
  BY MineTyped DEF MineTransaction, IInv, TypeOK
<1>2. TypeOK'
  BY <1>1 DEF MineTransaction, queues, factoryVars, threadVars, IInv, TypeOK,
              QueuesTypeOK, FactoryTypeOK, ThreadsTypeOK
<1> QED BY <1>2, OrdersUntouched DEF MineTransaction, queues, threadVars

(* The history stays one of acknowledgements.                              *)
LEMMA HistoryTyped ==
  ASSUME IInv, execution_report' \in Seq(ExecutionAck),
         acked' = acked \cup ToSet(execution_report')
  PROVE  acked' \subseteq ExecutionAck
BY SetOfQueue DEF IInv, TypeOK

LEMMA NextKeepsIInv == IInv /\ [Next]_vars => IInv'
<1> SUFFICES ASSUME IInv, [Next]_vars PROVE IInv'
  OBVIOUS
<1>1. CASE ClientNext
  BY <1>1, ClientKeepsIInv
<1>2. CASE ExecutorProcess(OrderTask)
  <2>1. execution_report' \in Seq(ExecutionAck)
    BY <1>2 DEF ExecutorProcess, OrderTask, Submit, DropOrder, ReceiveOrder,
                IInv, TypeOK, QueuesTypeOK
  <2> QED BY <1>2, <2>1, HistoryTyped, OrderTaskKeepsIInv DEF ExecutorProcess
<1>3. CASE ExecutorProcess(\E j \in jobs : Execute(j))
  <2>1. PICK j \in jobs : Execute(j)
    BY <1>3 DEF ExecutorProcess
  <2>2. execution_report' \in Seq(ExecutionAck)
    BY <2>1, ThreadsAnswer, ReportsTyped
  <2> QED BY <1>3, <2>1, <2>2, HistoryTyped, ExecuteKeepsIInv DEF ExecutorProcess
<1>4. CASE ExecutorProcess(AssignBot)
  <2>1. execution_report' \in Seq(ExecutionAck)
    BY <1>4 DEF ExecutorProcess, AssignBot, queues, IInv, TypeOK, QueuesTypeOK
  <2> QED BY <1>4, <2>1, HistoryTyped, AssignBotKeepsIInv DEF ExecutorProcess
<1>5. CASE ExecutorProcess(FactoryTask)
  <2>1. execution_report' \in Seq(ExecutionAck)
    BY <1>5 DEF ExecutorProcess, FactoryTask, queues, IInv, TypeOK, QueuesTypeOK
  <2> QED BY <1>5, <2>1, HistoryTyped, FactoryKeepsIInv DEF ExecutorProcess
<1>6. CASE ExecutorProcess(MineTransaction)
  <2>1. execution_report' \in Seq(ExecutionAck)
    BY <1>6 DEF ExecutorProcess, MineTransaction, queues, IInv, TypeOK, QueuesTypeOK
  <2> QED BY <1>6, <2>1, HistoryTyped, MineKeepsIInv DEF ExecutorProcess
<1>7. CASE UNCHANGED vars
  BY <1>7 DEF vars, queues, chainVars, factoryVars, threadVars, clientVars,
              IInv, TypeOK, QueuesTypeOK, ChainTypeOK, FactoryTypeOK, ThreadsTypeOK,
              JobsConsistent, JobOK, Shaped
<1> QED BY <1>1, <1>2, <1>3, <1>4, <1>5, <1>6, <1>7 DEF Next

(* The invariant is one.                                                   *)
LEMMA IInvHolds == Spec => []IInv
BY InitIInv, NextKeepsIInv, PTL DEF Spec

(* The types of the executor, the factory and the chain: what a thread     *)
(* reads of an account, a row or a queue is always of the kind the code    *)
(* expects (buysell_executor.py:69-311, bot_factory.py:83-149).            *)
THEOREM ExecutionTypeCorrect == Spec => []TypeOK
<1>1. IInv => TypeOK
  BY DEF IInv
<1> QED BY <1>1, IInvHolds, PTL

-----------------------------------------------------------------------------
(* The refinement.  A thread takes the number and the order of its job to  *)
(* the abstract executor, and gives them back when it answers.             *)

LEMMA AnsweredOnce ==
  ASSUME IInv, NEW j \in jobs, j.phase \notin TailPhases, GoesInTail(j)
  PROVE  /\ Numbered(j) \in Taken
         /\ Taken' = Taken \ {Numbered(j)}
<1>1. j \in Unanswered
  BY DEF Unanswered
<1>2. Numbered(j) \in Taken
  BY <1>1 DEF Taken
<1>3. Unanswered' = Unanswered \ {j}
  <2>1. CASE Returns(j)
    BY <2>1 DEF Returns, Unanswered
  <2>2. CASE \E next : Follows(j, next) /\ next.phase \in TailPhases
    <3>1. PICK next : Follows(j, next) /\ next.phase \in TailPhases
      BY <2>2
    <3> QED BY <3>1 DEF Follows, Becomes, Unanswered
  <2> QED BY <2>1, <2>2 DEF GoesInTail
<1>4. \A k \in Unanswered : Numbered(k) = Numbered(j) => k = j
  <2> SUFFICES ASSUME NEW k \in Unanswered, Numbered(k) = Numbered(j)
               PROVE  k = j
    OBVIOUS
  <2>1. k \in jobs /\ k.n = j.n
    BY DEF Unanswered, Numbered
  <2> QED BY <2>1 DEF IInv, JobsConsistent
<1>5. Taken' = {Numbered(k) : k \in Unanswered \ {j}}
  BY <1>3 DEF Taken, Numbered
<1> QED BY <1>1, <1>2, <1>4, <1>5 DEF Taken

LEMMA SilentTakesNothing ==
  ASSUME NEW j \in jobs, Silent(j)
  PROVE  Taken' = Taken
<1>1. CASE j.phase \in TailPhases /\ GoesInTail(j)
  <2>1. Unanswered' = Unanswered
    <3>1. CASE Returns(j)
      BY <1>1, <3>1 DEF Returns, Unanswered
    <3>2. CASE \E next : Follows(j, next) /\ next.phase \in TailPhases
      <4>1. PICK next : Follows(j, next) /\ next.phase \in TailPhases
        BY <3>2
      <4> QED BY <1>1, <4>1 DEF Follows, Becomes, Unanswered
    <3> QED BY <1>1, <3>1, <3>2 DEF GoesInTail
  <2> QED BY <2>1 DEF Taken, Numbered
<1>2. CASE /\ j.phase \notin TailPhases
           /\ \E next : Follows(j, next) /\ next.phase \notin TailPhases
  <2>1. PICK next : Follows(j, next) /\ next.phase \notin TailPhases
    BY <1>2
  <2>2. /\ j \in Unanswered
        /\ Unanswered' = (Unanswered \ {j}) \cup {next}
        /\ Numbered(next) = Numbered(j)
    BY <1>2, <2>1 DEF Follows, Becomes, Unanswered, Numbered
  <2>3. Taken' = {Numbered(k) : k \in (Unanswered \ {j}) \cup {next}}
    BY <2>2 DEF Taken, Numbered
  <2> QED BY <2>2, <2>3 DEF Taken
<1> QED BY <1>1, <1>2 DEF Silent

LEMMA ThreadRefines ==
  ASSUME IInv, NEW j \in jobs, Execute(j)
  PROVE  [Abs!ExecutorNext]_<<execution_broker, execution_report, Abs!executorVars>>
<1> DEFINE t == Numbered(j)
<1>1. ThreadStep
  BY ThreadsTyped
<1>2. JobOK(j) /\ j.account \in Accounts /\ j.order.pair \in Pairs
  BY JobFacts DEF ExecutionOrder
<1>3. t.order = j.order
  BY DEF Numbered
<1>4. CASE Silent(j)
  BY <1>1, <1>4, SilentTakesNothing DEF Silent, ThreadStep, Abs!executorVars
<1>5. CASE Answers(j)
  <2>1. t \in Taken /\ Taken' = Taken \ {t}
    BY <1>5, AnsweredOnce DEF Answers
  <2>2. Abs!MayAnswer(j.account, t.order)
    BY <1>2, <1>3 DEF Abs!MayAnswer, JobOK
  <2>3. PICK status \in TxStatus :
           execution_report' = Append(execution_report, Ack(j, status))
    BY <1>5 DEF Answers
  <2>4. Ack(j, status) =
          [pair |-> t.order.pair, tx_status |-> status, is_buy |-> t.order.is_buy,
           signer |-> j.account, bot |-> j.bot, is_paper |-> t.order.is_paper]
    BY <1>3 DEF Ack
  <2>5. j.bot \in Bots /\ (t.order.bot # None => j.bot = t.order.bot)
    BY <1>3, <1>5 DEF Answers
  <2> HIDE DEF t
  <2>6. Abs!Answer(t)
    BY <1>1, <1>2, <1>5, <2>1, <2>2, <2>3, <2>4, <2>5
       DEF Abs!Answer, Answers, ThreadStep, otherQueues, Abs!TxStatus, TxStatus
  <2> QED BY <1>2, <1>3, <2>1, <2>6 DEF Abs!Settle, Abs!ExecutorNext
<1>6. CASE Vanishes(j)
  <2>1. t \in Taken /\ Taken' = Taken \ {t}
    BY <1>6, AnsweredOnce DEF Vanishes, GoesInTail
  <2>2. t.order.is_buy
    BY <1>3, <1>6 DEF Vanishes
  <2> HIDE DEF t
  <2>3. Abs!Vanish(t)
    BY <1>1, <1>6, <2>1, <2>2
       DEF Abs!Vanish, Vanishes, ThreadStep, otherQueues, Abs!queues
  <2> QED BY <1>2, <1>3, <2>1, <2>3 DEF Abs!Settle, Abs!ExecutorNext
<1> QED BY <1>4, <1>5, <1>6, ThreadsAnswer

(* The order that is dropped is a buy: it names no signer.                 *)
LEMMA OrderTaskRefines ==
  ASSUME IInv, OrderTask
  PROVE  Abs!ExecutorNext
<1> DEFINE order == Head(execution_broker)
<1>1. ReceiveOrder
  BY DEF OrderTask, Submit, DropOrder
<1>2. Abs!Receive
  BY <1>1 DEF ReceiveOrder, otherQueues, Abs!Receive
<1>3. CASE Submit
  <2> DEFINE new == [n |-> counter + 1, order |-> order,
                     account |-> AccountFor(order), phase |-> "queued",
                     bot |-> None, nonce |-> 0, status |-> None]
  <2>1. jobs' = jobs \cup {new}
    BY <1>3 DEF Submit
  <2>2. new.phase \notin TailPhases
    BY DEF TailPhases
  <2>3. Numbered(new) = [n |-> counter + 1, order |-> order]
    BY DEF Numbered
  <2> HIDE DEF new
  <2>4. Unanswered' = Unanswered \cup {new}
    BY <2>1, <2>2 DEF Unanswered
  <2>5. Taken' = {Numbered(k) : k \in Unanswered \cup {new}}
    BY <2>4 DEF Taken, Numbered
  <2>6. Taken' = Taken \cup {[n |-> counter + 1, order |-> order]}
    BY <2>3, <2>5 DEF Taken
  <2> QED BY <1>2, <1>3, <2>6 DEF Submit, Abs!Take, Abs!ExecutorNext
<1>4. CASE DropOrder
  <2>1. order \in ToSet(execution_broker)
    BY <1>1, TailFacts DEF ReceiveOrder, IInv, TypeOK, QueuesTypeOK
  <2>2. order.is_buy
    BY <1>4, <2>1 DEF IInv, Shaped, DropOrder
  <2>3. UNCHANGED Taken
    BY <1>4 DEF DropOrder, Taken, Unanswered, Numbered
  <2> QED BY <1>2, <1>4, <2>2, <2>3 DEF DropOrder, Abs!Drop, Abs!ExecutorNext
<1> QED BY <1>3, <1>4 DEF OrderTask

LEMMA ClientRefines ==
  ASSUME IInv, ClientNext
  PROVE  Abs!MainProcess
<1>1. UNCHANGED Abs!executorVars
  BY DEF ClientNext, SendBuy, SendSell, HandleAck, MainStep, threadVars,
         Abs!executorVars, Taken, Unanswered, Numbered
<1>2. ASSUME NEW pair \in Pairs, NEW is_paper \in Paper, SendBuy(pair, is_paper)
      PROVE  Abs!MainProcess
  BY <1>1, <1>2, OrdersOfMainProcess
     DEF SendBuy, Abs!MainProcess, Abs!ExecutionOrder, ExecutionOrder
<1>3. ASSUME NEW position \in glb_inventory, SendSell(position)
      PROVE  Abs!MainProcess
  <2>1. position \in Position
    BY DEF IInv, TypeOK
  <2> QED BY <1>1, <1>3, <2>1, OrdersOfMainProcess
          DEF SendSell, Abs!MainProcess, Abs!ExecutionOrder, ExecutionOrder
<1>4. CASE HandleAck
  BY <1>1, <1>4 DEF HandleAck, Abs!MainProcess
<1> QED BY <1>2, <1>3, <1>4 DEF ClientNext

LEMMA InitRefines == Init => Abs!ExecutorInit
BY DEF Init, ThreadsInit, Abs!ExecutorInit, Taken, Unanswered

LEMMA NextRefines ==
  IInv /\ [Next]_vars
    => [Abs!ExecutorNext \/ Abs!MainProcess]_<<execution_broker, execution_report,
                                              Abs!executorVars>>
<1> SUFFICES ASSUME IInv, [Next]_vars
             PROVE  [Abs!ExecutorNext \/ Abs!MainProcess]_<<execution_broker,
                       execution_report, Abs!executorVars>>
  OBVIOUS
<1>1. CASE ClientNext
  BY <1>1, ClientRefines
<1>2. CASE ExecutorProcess(OrderTask)
  BY <1>2, OrderTaskRefines DEF ExecutorProcess
<1>3. CASE ExecutorProcess(\E j \in jobs : Execute(j))
  BY <1>3, ThreadRefines DEF ExecutorProcess
<1>4. CASE UNCHANGED <<execution_broker, execution_report, counter, lost, jobs>>
  BY <1>4 DEF Abs!executorVars, Taken, Unanswered, Numbered
<1>5. CASE ExecutorProcess(AssignBot)
  BY <1>4, <1>5 DEF ExecutorProcess, AssignBot, queues
<1>6. CASE ExecutorProcess(FactoryTask)
  BY <1>4, <1>6 DEF ExecutorProcess, FactoryTask, queues, threadVars
<1>7. CASE ExecutorProcess(MineTransaction)
  BY <1>4, <1>7 DEF ExecutorProcess, MineTransaction, queues, threadVars
<1>8. CASE UNCHANGED vars
  BY <1>4, <1>8 DEF vars, queues, threadVars
<1> QED BY <1>1, <1>2, <1>3, <1>5, <1>6, <1>7, <1>8 DEF Next

(* The executor process, with its threads, bots, nonces, timeouts and      *)
(* replacements, implements the abstract one that the main process is      *)
(* verified with: orders are taken in order and answered at most once, by  *)
(* the right account and bot, and only buys are lost                       *)
(* (buysell_executor.py:69-311).                                           *)
THEOREM ExecutionImplementsAbstract == Spec => Implements
BY InitRefines, NextRefines, IInvHolds, PTL
   DEF Spec, Implements, Abs!AbstractSpec

-----------------------------------------------------------------------------
(* The renewal of a bot.  RenewalUnderWay is inductive with IInv, as long  *)
(* as the database answers: the factory drops an order it cannot look up.  *)

\* The bot of account a is asked for, or found, or about to be asked for.
OnItsWay(a) ==
    \/ BotCreationOrder(a) \in ToSet(bot_order_broker)
    \/ \E bot \in ToSet(bot_result_broker) : bot.owner = a
    \/ \E j \in jobs : j.phase = "request" /\ j.account = a

LEMMA InitRenewal == Init => RenewalUnderWay
<1> SUFFICES ASSUME Init, NEW a \in Accounts
             PROVE  BotCreationOrder(a) \in ToSet(bot_order_broker)
  BY DEF RenewalUnderWay
<1>1. a \in ToSet(Keys)
  BY ExecutorAssumption
<1>2. PICK i \in DOMAIN Keys : Keys[i] = a
  BY <1>1 DEF ToSet
<1>3. DOMAIN bot_order_broker = DOMAIN Keys /\ bot_order_broker[i] = BotCreationOrder(a)
  BY <1>2 DEF Init
<1> QED BY <1>2, <1>3 DEF ToSet

(* Factory: an order to create a bot is answered or tried again.           *)
LEMMA FactoryRenews ==
  ASSUME IInv, ~ DbMayFail, FactoryNext, UNCHANGED jobs,
         NEW a \in Accounts, OnItsWay(a)
  PROVE  OnItsWay(a)'
<1> USE DEF IInv, TypeOK, FactoryTypeOK
<1> DEFINE order == Head(bot_order_broker)
           wanted == BotCreationOrder(a)
<1>1. bot_order_broker # <<>>
  BY DEF FactoryNext, FoundBot, CreateBot, Deploy, Create, CreateBotFails, UpdateBot,
         DatabaseRaises, Handles
<1>2. /\ order \in BotOrder
      /\ Tail(bot_order_broker) \in Seq(BotOrder)
      /\ ToSet(bot_order_broker) = {order} \cup ToSet(Tail(bot_order_broker))
  BY <1>1, TailFacts
<1>3. wanted = order => order.type = "create" /\ order.owner = a
  BY DEF BotCreationOrder
<1>4. ASSUME NEW row \in BotRow, row.owner = order.owner,
             bot_result_broker' = Append(bot_result_broker, row),
             bot_order_broker' = Tail(bot_order_broker)
      PROVE  OnItsWay(a)'
  <2>1. ToSet(bot_result_broker') = ToSet(bot_result_broker) \cup {row}
    BY <1>4, AppendFacts
  <2> HIDE DEF order
  <2>2. CASE wanted = order
    <3>1. row.owner = a
      BY <1>3, <1>4, <2>2
    <3> QED BY <2>1, <3>1 DEF OnItsWay
  <2>3. CASE wanted # order
    BY <1>2, <1>4, <2>1, <2>3 DEF OnItsWay, BotCreationOrder
  <2> QED BY <2>2, <2>3
<1>5. CASE FoundBot
  <2> DEFINE available == Available(order.owner)
  <2>1. DOMAIN rows = 1 .. Len(rows) /\ \A i \in DOMAIN rows : rows[i] \in BotRow
    BY LenProperties, ElementOfSeq
  <2>2. available \in SUBSET Nat /\ available # {}
    <3>1. available # {}
      BY <1>5 DEF FoundBot
    <3>2. available \subseteq 1 .. Len(rows) /\ Len(rows) \in Nat
      BY <2>1, LenProperties DEF Available
    <3> HIDE DEF available
    <3> QED BY <3>1, <3>2
  <2>3. Min(available) \in available
    BY <2>2, MinIsMember
  <2>4. rows[Min(available)] \in BotRow /\ rows[Min(available)].owner = order.owner
    BY <2>1, <2>3 DEF Available
  <2> QED BY <1>4, <1>5, <2>4 DEF FoundBot
<1>6. ASSUME NEW address \in Bots, NEW owner \in Accounts, CreateBot(address, owner)
      PROVE  OnItsWay(a)'
  <2>1. /\ NewBot(address, owner) \in BotRow
        /\ NewBot(address, owner).owner = order.owner
    BY <1>6, NoneIsNoBody DEF NewBot, BotRow, CreateBot, Deploy, Create
  <2> QED BY <1>4, <1>6, <2>1 DEF CreateBot
<1>7. CASE CreateBotFails
  <2>1. bot_order_broker' = Append(Tail(bot_order_broker), order)
    BY <1>7 DEF CreateBotFails, Retry
  <2>2. ToSet(bot_order_broker') = ToSet(bot_order_broker)
    <3> DEFINE others == Tail(bot_order_broker)
    <3> HIDE DEF order, others
    <3>1. others \in Seq(BotOrder) /\ order \in BotOrder
      BY <1>2 DEF others
    <3>2. ToSet(Append(others, order)) = ToSet(others) \cup {order}
      BY <3>1, AppendFacts
    <3> QED BY <1>2, <2>1, <3>2 DEF others
  <2> QED BY <1>7, <2>2 DEF CreateBotFails, OnItsWay, BotCreationOrder
<1>8. CASE UpdateBot
  <2>1. wanted # order
    BY <1>3, <1>8 DEF UpdateBot, Handles
  <2> QED BY <1>2, <1>8, <2>1 DEF UpdateBot, OnItsWay, BotCreationOrder
<1> QED BY <1>5, <1>6, <1>7, <1>8 DEF FactoryNext, DatabaseRaises

LEMMA AssignBotRenews ==
  ASSUME IInv, AssignBot, NEW a \in Accounts, HasBot(a) \/ OnItsWay(a)
  PROVE  (HasBot(a) \/ OnItsWay(a))'
<1> USE DEF IInv, TypeOK, FactoryTypeOK
<1> DEFINE result == Head(bot_result_broker)
<1>1. /\ result \in BotRow
      /\ ToSet(bot_result_broker) = {result} \cup ToSet(bot_result_broker')
  BY TailFacts DEF AssignBot
<1>2. bot_of'[a] = IF Wants(a, result) THEN result ELSE bot_of[a]
  BY DEF AssignBot
<1>3. result # None
  BY <1>1, BotFactoryAssumption
<1>4. UNCHANGED <<bot_order_broker, jobs>>
  BY DEF AssignBot
<1> HIDE DEF result
<1>5. CASE HasBot(a)
  BY <1>2, <1>3, <1>5 DEF HasBot
<1>6. CASE ~ HasBot(a) /\ result.owner = a
  <2>1. Wants(a, result)
    BY <1>6 DEF Wants, NeedsBot
  <2> QED BY <1>2, <1>3, <2>1 DEF HasBot
<1>7. CASE OnItsWay(a) /\ result.owner # a
  BY <1>1, <1>4, <1>7 DEF OnItsWay, BotCreationOrder
<1> QED BY <1>5, <1>6, <1>7

(* A thread that takes a bot away goes on to ask for the next one.         *)
LEMMA ThreadsRenew ==
  ASSUME IInv, NEW j \in jobs, Execute(j),
         NEW a \in Accounts, HasBot(a) \/ OnItsWay(a)
  PROVE  (HasBot(a) \/ OnItsWay(a))'
<1> USE DEF IInv, TypeOK, FactoryTypeOK, ThreadsTypeOK
<1>1. j \in Job /\ j.account \in Accounts
  BY JobFacts
<1>2. UNCHANGED bot_result_broker
  BY ThreadsTyped DEF ThreadStep
<1>3. jobs \ {j} \subseteq jobs'
  BY ThreadsAnswer DEF Silent, Answers, Vanishes, GoesInTail, Returns, Follows, Becomes
<1>4. CASE j.phase # "request" /\ UNCHANGED <<bot_order_broker, bot_of>>
  BY <1>2, <1>3, <1>4 DEF HasBot, OnItsWay, BotCreationOrder
<1>5. CASE Start(j) \/ StartRaises(j) \/ Simulate(j) \/ GetNonce(j) \/ Send(j)
  BY <1>4, <1>5 DEF Start, StartRaises, MayStart, Queued, Simulate, GetNonce, Send
<1>6. CASE SendRefused(j) \/ GetReceipt(j) \/ Timeout(j) \/ NodeRaises(j)
             \/ NoBotLeft(j)
  BY <1>4, <1>6 DEF SendRefused, GetReceipt, Timeout, TimesOut, NodeRaises,
                    ChainPhases, Acknowledge, NoBotLeft
<1>7. CASE TellFactory(j)
  <2> DEFINE told == BotUpdateOrder(bot_of[j.account].address, Ack(j, j.status))
  <2>1. bot_order_broker' = Append(bot_order_broker, told)
    BY <1>7 DEF TellFactory
  <2>2. told \in BotOrder
    <3>1. bot_of[j.account].address \in Bots
      BY <1>1, <1>7, BotOfFacts DEF TellFactory
    <3>2. j.status \in TxStatus /\ j.order \in ExecutionOrder
      BY <1>7, JobFacts DEF TellFactory, JobOK, TailPhases
    <3> QED BY <3>1, <3>2 DEF BotUpdateOrder, Ack, BotOrder, ExecutionOrder
  <2> HIDE DEF told
  <2>3. ToSet(bot_order_broker) \subseteq ToSet(bot_order_broker')
    BY <2>1, <2>2, AppendFacts
  <2>4. j.phase # "request" /\ UNCHANGED bot_of
    BY <1>7 DEF TellFactory
  <2> QED BY <1>2, <1>3, <2>3, <2>4 DEF HasBot, OnItsWay, BotCreationOrder
<1>8. CASE CountUse(j)
  <2>1. Used(bot_of[j.account], j.status) \in BotRow
    BY <1>1, <1>8, BotOfFacts, BookedTyped DEF CountUse, Used, Booked
  <2>2. Used(bot_of[j.account], j.status) # None
    BY <2>1, BotFactoryAssumption
  <2>3. HasBot(a) => HasBot(a)'
    BY <1>1, <1>8, <2>2 DEF CountUse, HasBot
  <2>4. j.phase # "request" /\ UNCHANGED bot_order_broker
    BY <1>8 DEF CountUse
  <2> QED BY <1>2, <1>3, <2>3, <2>4 DEF OnItsWay, BotCreationOrder
<1>9. CASE ReplaceBot(j)
  <2> DEFINE next == [j EXCEPT !.phase = "request"]
  <2>1. j.phase # "request" /\ UNCHANGED bot_order_broker
    BY <1>9 DEF ReplaceBot
  <2>2. next \in jobs' /\ next.phase = "request" /\ next.account = j.account
    BY <1>1, <1>9 DEF ReplaceBot, Goes, Becomes, Job
  <2>3. CASE a = j.account
    BY <2>2, <2>3 DEF OnItsWay
  <2>4. CASE a # j.account
    <3>1. HasBot(a) => HasBot(a)'
      BY <1>1, <1>9, <2>4 DEF ReplaceBot, HasBot
    <3> QED BY <1>2, <1>3, <2>1, <3>1 DEF OnItsWay, BotCreationOrder
  <2> QED BY <2>3, <2>4
<1>10. CASE RequestBot(j)
  <2>1. BotCreationOrder(j.account) \in BotOrder
    BY <1>1 DEF BotCreationOrder, BotOrder
  <2>2. ToSet(bot_order_broker')
          = ToSet(bot_order_broker) \cup {BotCreationOrder(j.account)}
    BY <1>10, <2>1, AppendFacts DEF RequestBot
  <2>3. UNCHANGED bot_of
    BY <1>10 DEF RequestBot
  <2>4. CASE a = j.account
    BY <2>2, <2>4 DEF OnItsWay, BotCreationOrder
  <2>5. CASE a # j.account
    BY <1>2, <1>3, <2>2, <2>3, <2>5 DEF HasBot, OnItsWay, BotCreationOrder
  <2> QED BY <2>4, <2>5
<1> QED BY <1>5, <1>6, <1>7, <1>8, <1>9, <1>10 DEF Execute, Proceeds

LEMMA NextRenews ==
  ASSUME IInv, ~ DbMayFail, [Next]_vars, RenewalUnderWay
  PROVE  RenewalUnderWay'
<1> SUFFICES ASSUME NEW a \in Accounts PROVE (HasBot(a) \/ OnItsWay(a))'
  BY DEF RenewalUnderWay, OnItsWay, HasBot, BotCreationOrder
<1>1. HasBot(a) \/ OnItsWay(a)
  BY DEF RenewalUnderWay, OnItsWay
<1>2. CASE UNCHANGED <<bot_of, bot_order_broker, bot_result_broker>> /\ jobs \subseteq jobs'
  BY <1>1, <1>2 DEF HasBot, OnItsWay, BotCreationOrder
<1>3. CASE ClientNext
  BY <1>2, <1>3 DEF ClientNext, SendBuy, SendSell, HandleAck, MainStep, factoryVars,
                    threadVars
<1>4. CASE ExecutorProcess(OrderTask)
  BY <1>2, <1>4 DEF ExecutorProcess, OrderTask, Submit, DropOrder, ReceiveOrder,
                    factoryVars
<1>5. CASE ExecutorProcess(\E j \in jobs : Execute(j))
  BY <1>1, <1>5, ThreadsRenew DEF ExecutorProcess
<1>6. CASE ExecutorProcess(AssignBot)
  BY <1>1, <1>6, AssignBotRenews DEF ExecutorProcess
<1>7. CASE ExecutorProcess(FactoryTask)
  <2>1. FactoryNext /\ UNCHANGED <<jobs, bot_of>>
    BY <1>7 DEF ExecutorProcess, FactoryTask, threadVars
  <2> QED BY <1>1, <2>1, FactoryRenews DEF HasBot
<1>8. CASE ExecutorProcess(MineTransaction)
  BY <1>2, <1>8 DEF ExecutorProcess, MineTransaction, factoryVars, threadVars
<1>9. CASE UNCHANGED vars
  BY <1>2, <1>9 DEF vars, factoryVars, threadVars
<1> QED BY <1>3, <1>4, <1>5, <1>6, <1>7, <1>8, <1>9 DEF Next

(* While the database answers, an account without a bot is about to get    *)
(* one, however often deployments fail and whatever threads and factory    *)
(* do in between (buysell_executor.py:175-178, bot_factory.py:122-124).    *)
THEOREM BotsAreRenewed ==
  ASSUME ~ DbMayFail
  PROVE  Spec => []RenewalUnderWay
BY InitRenewal, NextRenews, IInvHolds, PTL DEF Spec

-----------------------------------------------------------------------------
(* The five kinds of steps of a thread, by what they do to its call, to    *)
(* the report and to the chain.                                            *)

Running == {"simulate"} \cup ChainPhases

SameCall(j, k) == k.n = j.n /\ k.order = j.order /\ k.account = j.account

\* The call is through, or goes on in one of the phases with the same bot.
Advances(j, phases) ==
  \A k \in jobs' :
     k \in jobs \ {j} \/ (SameCall(j, k) /\ k.bot = j.bot /\ k.phase \in phases)

\* It gets its bot, and the node or the simulator to deal with.
Begins(j) ==
  /\ j.phase = "queued"
  /\ \A k \in jobs' :
        \/ k \in jobs \ {j}
        \/ /\ SameCall(j, k)
           /\ k.phase = IF j.order.is_paper THEN "simulate" ELSE "nonce"
           /\ k.bot = IF j.order.bot # None THEN j.order.bot
                      ELSE bot_of[j.account].address
           /\ j.order.bot # None \/ HasBot(j.account)
  /\ UNCHANGED <<execution_report, bot_of, chainVars>>

Asks(j) ==
  /\ j.phase = "nonce"
  /\ Advances(j, {"send"})
  /\ UNCHANGED <<execution_report, bot_of, chainVars>>

Sends(j) ==
  /\ j.phase = "send"
  /\ Advances(j, {"wait"})
  /\ Accept(TxOf(j))
  /\ UNCHANGED <<execution_report, bot_of>>

\* What is acknowledged, and how it came about.
Outcome(j, status) ==
  \/ j.phase = "simulate" /\ UNCHANGED chainVars
  \/ j.phase = "send" /\ status = "FAILED" /\ UNCHANGED chainVars
  \/ /\ j.phase = "wait"
     /\ \E receipt \in receipts : receipt.n = j.n /\ receipt.status = status
     /\ UNCHANGED chainVars
  \/ /\ j.phase = "wait" /\ status = "FAILED" /\ ~ Mined(j.n)
     /\ Expire(j.n)
     /\ UNCHANGED <<bot_owner, next_nonce, receipts, tokens>>
  \/ /\ NodeMayFail /\ j.phase \in ChainPhases /\ status = "FAILED"
     /\ UNCHANGED chainVars \/ (j.phase = "send" /\ Accept(TxOf(j)))

Settles(j, status) ==
  /\ j.phase \in Running
  /\ Advances(j, TailPhases)
  /\ execution_report' = Append(execution_report, Ack(j, status))
  /\ Outcome(j, status)
  /\ UNCHANGED bot_of

\* It ends without an answer, or is in the tail of execute.
Leaves(j) ==
  /\ j.phase \in {"queued"} \cup TailPhases
  /\ Advances(j, TailPhases)
  /\ j.phase = "queued" => Returns(j)
  /\ UNCHANGED <<execution_report, chainVars>>

LEMMA SettlesByAcknowledge ==
  ASSUME IInv, NEW j \in jobs, j.phase \in ChainPhases, NEW status \in TxStatus,
         Acknowledge(j, status), Outcome(j, status)
  PROVE  Settles(j, status)
<1> DEFINE next == [j EXCEPT !.phase = "check", !.status = status]
<1>1. j \in Job
  BY JobFacts
<1>2. SameCall(j, next) /\ next.bot = j.bot /\ next.phase = "check"
  BY <1>1 DEF Job, SameCall
<1>3. jobs' = (jobs \ {j}) \cup {next}
  BY DEF Acknowledge, Becomes
<1> HIDE DEF next
<1>4. Advances(j, TailPhases)
  BY <1>2, <1>3 DEF Advances, TailPhases
<1> QED BY <1>4 DEF Settles, Running, Acknowledge

LEMMA GoesAdvances ==
  ASSUME IInv, NEW j \in jobs, NEW phase, Goes(j, phase) \/ Returns(j)
  PROVE  Advances(j, {phase})
<1> DEFINE next == [j EXCEPT !.phase = phase]
<1>1. SameCall(j, next) /\ next.bot = j.bot /\ next.phase = phase
  BY JobFacts DEF Job, SameCall
<1>2. jobs' \subseteq (jobs \ {j}) \cup {next}
  BY DEF Goes, Returns, Becomes
<1> HIDE DEF next
<1> QED BY <1>1, <1>2 DEF Advances

(* Every step of a thread is of one of the kinds.                          *)
LEMMA KindsOfSteps ==
  ASSUME IInv, NEW j \in jobs, Execute(j)
  PROVE  \/ Begins(j) \/ Asks(j) \/ Sends(j) \/ Leaves(j)
         \/ \E status \in TxStatus : Settles(j, status)
<1>1. CASE Start(j)
  <2> DEFINE phase == IF j.order.is_paper THEN "simulate" ELSE "nonce"
             bot == IF j.order.bot # None THEN j.order.bot
                    ELSE bot_of[j.account].address
             next == [j EXCEPT !.phase = phase, !.bot = bot]
  <2>1. j \in Job
    BY JobFacts
  <2>2. SameCall(j, next) /\ next.bot = bot /\ next.phase = phase
    BY <2>1 DEF Job, SameCall
  <2>3. jobs' = (jobs \ {j}) \cup {next}
    BY <1>1 DEF Start, Becomes
  <2> HIDE DEF next
  <2>4. Begins(j)
    BY <1>1, <2>2, <2>3 DEF Begins, Start, MayStart, Queued
  <2> QED BY <2>4
<1>2. CASE GetNonce(j)
  <2> DEFINE next == [j EXCEPT !.phase = "send", !.nonce = next_nonce[j.account]]
  <2>1. j \in Job
    BY JobFacts
  <2>2. SameCall(j, next) /\ next.bot = j.bot /\ next.phase = "send"
    BY <2>1 DEF Job, SameCall
  <2>3. jobs' = (jobs \ {j}) \cup {next}
    BY <1>2 DEF GetNonce, Becomes
  <2> HIDE DEF next
  <2>4. Asks(j)
    BY <1>2, <2>2, <2>3 DEF Asks, Advances, GetNonce
  <2> QED BY <2>4
<1>3. CASE Send(j)
  <2>1. Advances(j, {"wait"})
    BY <1>3, GoesAdvances DEF Send
  <2> QED BY <1>3, <2>1 DEF Send, Sends
<1>4. CASE Simulate(j)
  <2>1. Advances(j, TailPhases)
    BY <1>4 DEF Simulate, Returns, Advances
  <2>2. PICK status \in TxStatus :
           execution_report' = Append(execution_report, Ack(j, status))
    BY <1>4 DEF Simulate
  <2>3. Settles(j, status)
    BY <1>4, <2>1, <2>2 DEF Simulate, Settles, Outcome, Running
  <2> QED BY <2>3
<1>5. CASE SendRefused(j)
  <2>1. Acknowledge(j, "FAILED") /\ Outcome(j, "FAILED") /\ j.phase \in ChainPhases
    BY <1>5 DEF SendRefused, Outcome, ChainPhases
  <2>2. "FAILED" \in TxStatus
    BY DEF TxStatus
  <2> QED BY <2>1, <2>2, SettlesByAcknowledge
<1>6. CASE GetReceipt(j)
  <2>1. receipts \subseteq [n: Nat, status: TxStatus]
    BY DEF IInv, TypeOK, ChainTypeOK
  <2>2. PICK receipt \in receipts :
           receipt.n = j.n /\ Acknowledge(j, receipt.status)
    BY <1>6 DEF GetReceipt
  <2>3. receipt.status \in TxStatus
    BY <2>1
  <2>4. Outcome(j, receipt.status) /\ j.phase \in ChainPhases
    BY <1>6, <2>2 DEF GetReceipt, Outcome, ChainPhases
  <2> QED BY <2>2, <2>3, <2>4, SettlesByAcknowledge
<1>7. CASE Timeout(j)
  <2>1. Acknowledge(j, "FAILED") /\ Outcome(j, "FAILED") /\ j.phase \in ChainPhases
    BY <1>7 DEF Timeout, TimesOut, Outcome, ChainPhases
  <2>2. "FAILED" \in TxStatus
    BY DEF TxStatus
  <2> QED BY <2>1, <2>2, SettlesByAcknowledge
<1>8. CASE NodeRaises(j)
  <2>1. Acknowledge(j, "FAILED") /\ Outcome(j, "FAILED") /\ j.phase \in ChainPhases
    BY <1>8 DEF NodeRaises, Outcome
  <2>2. "FAILED" \in TxStatus
    BY DEF TxStatus
  <2> QED BY <2>1, <2>2, SettlesByAcknowledge
<1>9. CASE StartRaises(j) \/ NoBotLeft(j) \/ TellFactory(j) \/ CountUse(j)
             \/ ReplaceBot(j) \/ RequestBot(j)
  <2>1. /\ j.phase \in {"queued"} \cup TailPhases
        /\ UNCHANGED <<execution_report, chainVars>>
    BY <1>9 DEF StartRaises, MayStart, Queued, NoBotLeft, TellFactory, CountUse,
                ReplaceBot, RequestBot, TailStep, TailPhases
  <2>2. \/ Returns(j) \/ Goes(j, "count") \/ Goes(j, "replace") \/ Goes(j, "request")
    BY <1>9 DEF StartRaises, NoBotLeft, TellFactory, CountUse, ReplaceBot, RequestBot
  <2>3. Advances(j, {"count"}) \/ Advances(j, {"replace"}) \/ Advances(j, {"request"})
    BY <2>2, GoesAdvances
  <2>4. Advances(j, TailPhases)
    BY <2>3 DEF Advances, TailPhases
  <2>5. j.phase = "queued" => Returns(j)
    BY <1>9 DEF StartRaises, NoBotLeft, TellFactory, CountUse, ReplaceBot, RequestBot
  <2> QED BY <2>1, <2>4, <2>5 DEF Leaves
<1> QED BY <1>1, <1>2, <1>3, <1>4, <1>5, <1>6, <1>7, <1>8, <1>9 DEF Execute, Proceeds

-----------------------------------------------------------------------------
(* Where the pairs are.                                                    *)

\* One open position per pair, as main.py keeps and stores them.
OnePositionPerPair == \A p, q \in OpenPositions : p.pair = q.pair => p = q

\* The calls that still stand for a pair: its sell has not begun.
LiveJobs == {j \in jobs : j.phase = "queued" \/ (j.order.is_buy /\ j.phase \in Running)}

Bought == {ack \in ExecutionAck : ack.is_buy /\ ack.tx_status = "SUCCESS"}

\* Nothing is left to be done for a pair that is being sold, was sold, or could
\* not be bought.
SellTxs == {tx \in mempool : ~ tx.is_buy}
RunningSells == {j \in jobs : ~ j.order.is_buy /\ j.phase \in Running}
FailedBuys == {ack \in acked : ack.is_buy /\ ack.tx_status = "FAILED"}

Done ==
  {tx.pair : tx \in SellTxs} \cup {j.order.pair : j \in RunningSells}
     \cup {ack.pair : ack \in FailedBuys}

Worked == {j.order.pair : j \in LiveJobs}
Held == {p.pair : p \in glb_inventory}

Stages == {"untraded", "ordered", "worked", "reported", "held", "done"}

Stage ==
  [n \in Stages |->
     CASE n = "untraded" -> untraded
       [] n = "ordered"  -> PairsIn(execution_broker)
       [] n = "worked"   -> Worked
       [] n = "reported" -> PairsAmong(execution_report, Bought)
       [] n = "held"     -> Held
       [] n = "done"     -> Done]

\* No pair is in two stages, nor twice in one, and the history is complete.
StageInv ==
  /\ ApartOn(Stages, Stage)
  /\ Distinct(execution_broker)
  /\ \A j, k \in LiveJobs : j.order.pair = k.order.pair => j = k
  /\ DistinctAmong(execution_report, Bought)
  /\ \A p, q \in glb_inventory : p.pair = q.pair => p = q
  /\ ToSet(execution_report) \subseteq acked

LEMMA StageDefs ==
  /\ Stage["untraded"] = untraded
  /\ Stage["ordered"] = PairsIn(execution_broker)
  /\ Stage["worked"] = Worked
  /\ Stage["reported"] = PairsAmong(execution_report, Bought)
  /\ Stage["held"] = Held
  /\ Stage["done"] = Done
BY DEF Stage, Stages

LEMMA StageDefsAfter ==
  /\ Stage'["untraded"] = untraded'
  /\ Stage'["ordered"] = PairsIn(execution_broker')
  /\ Stage'["worked"] = Worked'
  /\ Stage'["reported"] = PairsAmong(execution_report', Bought)
  /\ Stage'["held"] = Held'
  /\ Stage'["done"] = Done'
BY DEF Stage, Stages, Bought

(* A step moves pairs from one stage to one other, or to none.             *)
LEMMA StageMoves ==
  ASSUME StageInv, NEW a \in Stages, NEW b \in Stages, a # b,
         NEW M, M \subseteq Stage[a],
         Stage'[a] \subseteq Stage[a] \ M,
         Stage'[b] \subseteq Stage[b] \cup M,
         \A n \in Stages \ {a, b} : Stage'[n] \subseteq Stage[n]
  PROVE  ApartOn(Stages, Stage)'
<1> DEFINE f == Stage
           g == Stage'
<1>1. ApartOn(Stages, f)
  BY DEF StageInv
<1>2. /\ M \subseteq f[a] /\ g[a] \subseteq f[a] \ M /\ g[b] \subseteq f[b] \cup M
      /\ \A n \in Stages \ {a, b} : g[n] \subseteq f[n]
  OBVIOUS
<1> HIDE DEF f, g
<1>3. ApartOn(Stages, g)
  BY <1>1, <1>2, MoveKeepsApart
<1> QED BY <1>3 DEF g, ApartOn, Stages

LEMMA StagesShrink ==
  ASSUME StageInv, \A n \in Stages : Stage'[n] \subseteq Stage[n]
  PROVE  ApartOn(Stages, Stage)'
BY DEF StageInv, ApartOn, Stages

LEMMA InitStages == OnePositionPerPair /\ Init => StageInv
<1> SUFFICES ASSUME OnePositionPerPair, Init PROVE StageInv
  OBVIOUS
<1>1. /\ PairsIn(execution_broker) = {} /\ Distinct(execution_broker)
      /\ PairsAmong(execution_report, Bought) = {}
      /\ DistinctAmong(execution_report, Bought)
      /\ ToSet(execution_report) = {}
  BY DEF Init, PairsIn, Distinct, PairsAmong, DistinctAmong, ToSet
<1>2. LiveJobs = {} /\ RunningSells = {} /\ SellTxs = {} /\ FailedBuys = {}
  BY DEF Init, ThreadsInit, LiveJobs, RunningSells, SellTxs, FailedBuys
<1>3. Worked = {} /\ Done = {} /\ Held = {p.pair : p \in OpenPositions}
  BY <1>2 DEF Worked, Done, Held, Init
<1>4. untraded \cap Held = {}
  BY <1>3 DEF Init
<1>5. \A n \in Stages : n \notin {"untraded", "held"} => Stage[n] = {}
  BY <1>1, <1>3, StageDefs DEF Stages
<1>6. ApartOn(Stages, Stage)
  <2> SUFFICES ASSUME NEW m \in Stages, NEW n \in Stages, m # n
               PROVE  Stage[m] \cap Stage[n] = {}
    BY DEF ApartOn
  <2>1. CASE m \in {"untraded", "held"} /\ n \in {"untraded", "held"}
    BY <1>4, <2>1, StageDefs
  <2>2. CASE m \notin {"untraded", "held"} \/ n \notin {"untraded", "held"}
    BY <1>5, <2>2
  <2> QED BY <2>1, <2>2
<1>7. \A p, q \in glb_inventory : p.pair = q.pair => p = q
  BY DEF Init, OnePositionPerPair
<1> QED BY <1>1, <1>2, <1>6, <1>7 DEF StageInv

(* The main process: a pair goes from untraded to ordered, ...             *)
LEMMA SendBuyStages ==
  ASSUME IInv, StageInv, NEW pair \in Pairs, NEW is_paper \in Paper,
         SendBuy(pair, is_paper)
  PROVE  StageInv'
<1> DEFINE order == BuyOrder(pair, is_paper)
<1>1. execution_broker \in Seq(ExecutionOrder) /\ order \in ExecutionOrder
  BY OrdersOfMainProcess DEF IInv, TypeOK, QueuesTypeOK
<1>2. order.pair = pair
  BY DEF BuyOrder
<1>3. /\ pair \in untraded /\ untraded' = untraded \ {pair}
      /\ execution_broker' = Append(execution_broker, order)
      /\ UNCHANGED <<execution_report, glb_inventory, jobs, mempool, acked>>
  BY DEF SendBuy, MainStep, chainVars, threadVars
<1> HIDE DEF order
<1>4. PairsIn(execution_broker') = PairsIn(execution_broker) \cup {pair}
  BY <1>1, <1>2, <1>3, AppendPairs
<1>5. pair \notin PairsIn(execution_broker)
  BY <1>3, StageDefs DEF StageInv, ApartOn, Stages
<1>6. Distinct(execution_broker')
  BY <1>1, <1>2, <1>3, <1>5, AppendPairs DEF StageInv
<1>7. UNCHANGED <<LiveJobs, Worked, Done, Held>>
  BY <1>3 DEF LiveJobs, Worked, Done, Held, SellTxs, RunningSells, FailedBuys
<1>8. ApartOn(Stages, Stage)'
  <2>1. "untraded" \in Stages /\ "ordered" \in Stages
    BY DEF Stages
  <2>2. {pair} \subseteq Stage["untraded"]
        /\ Stage'["untraded"] \subseteq Stage["untraded"] \ {pair}
        /\ Stage'["ordered"] \subseteq Stage["ordered"] \cup {pair}
    BY <1>3, <1>4, StageDefs, StageDefsAfter
  <2>3. \A n \in Stages \ {"untraded", "ordered"} : Stage'[n] \subseteq Stage[n]
    BY <1>3, <1>7, StageDefs, StageDefsAfter DEF Stages
  <2> QED BY <2>1, <2>2, <2>3, StageMoves
<1>9. UNCHANGED Bought
  BY DEF Bought
<1> QED BY <1>3, <1>6, <1>7, <1>8, <1>9 DEF StageInv, DistinctAmong

(* ... from held to ordered when it is sold, ...                           *)
LEMMA SendSellStages ==
  ASSUME IInv, StageInv, NEW position \in glb_inventory, SendSell(position)
  PROVE  StageInv'
<1> DEFINE order == SellOrder(position)
           pair == position.pair
<1>1. execution_broker \in Seq(ExecutionOrder) /\ order \in ExecutionOrder
  BY OrdersOfMainProcess DEF IInv, TypeOK, QueuesTypeOK
<1>2. order.pair = pair
  BY DEF SellOrder
<1>3. /\ glb_inventory' = glb_inventory \ {position}
      /\ execution_broker' = Append(execution_broker, order)
      /\ UNCHANGED <<execution_report, untraded, jobs, mempool, acked>>
  BY DEF SendSell, MainStep, chainVars, threadVars
<1>4. pair \in Held /\ Held' \subseteq Held \ {pair}
  BY <1>3 DEF Held, StageInv
<1> HIDE DEF order, pair
<1>5. PairsIn(execution_broker') = PairsIn(execution_broker) \cup {pair}
  BY <1>1, <1>2, <1>3, AppendPairs
<1>6. pair \notin PairsIn(execution_broker)
  BY <1>4, StageDefs DEF StageInv, ApartOn, Stages
<1>7. Distinct(execution_broker')
  BY <1>1, <1>2, <1>3, <1>6, AppendPairs DEF StageInv
<1>8. UNCHANGED <<LiveJobs, Worked, Done>>
  BY <1>3 DEF LiveJobs, Worked, Done, SellTxs, RunningSells, FailedBuys
<1>9. ApartOn(Stages, Stage)'
  <2>1. "held" \in Stages /\ "ordered" \in Stages
    BY DEF Stages
  <2>2. {pair} \subseteq Stage["held"]
        /\ Stage'["held"] \subseteq Stage["held"] \ {pair}
        /\ Stage'["ordered"] \subseteq Stage["ordered"] \cup {pair}
    BY <1>4, <1>5, StageDefs, StageDefsAfter
  <2>3. \A n \in Stages \ {"held", "ordered"} : Stage'[n] \subseteq Stage[n]
    BY <1>3, <1>8, StageDefs, StageDefsAfter DEF Stages
  <2> QED BY <2>1, <2>2, <2>3, StageMoves
<1>10. UNCHANGED Bought
  BY DEF Bought
<1> QED BY <1>3, <1>7, <1>8, <1>9, <1>10 DEF StageInv, DistinctAmong

(* ... and from reported to held.                                          *)
LEMMA HandleAckStages ==
  ASSUME IInv, StageInv, HandleAck
  PROVE  StageInv'
<1> DEFINE ack == Head(execution_report)
           pair == ack.pair
<1>1. execution_report \in Seq(ExecutionAck) /\ execution_report # <<>>
  BY DEF HandleAck, IInv, TypeOK, QueuesTypeOK
<1>2. /\ execution_report' = Tail(execution_report)
      /\ UNCHANGED <<execution_broker, untraded, jobs, mempool, acked>>
  BY DEF HandleAck, MainStep, chainVars, threadVars
<1>3. ack \in ExecutionAck /\ ToSet(execution_report') \subseteq ToSet(execution_report)
  BY <1>1, <1>2, TailFacts
<1>4. /\ PairsAmong(execution_report', Bought) \subseteq PairsAmong(execution_report, Bought)
      /\ DistinctAmong(execution_report', Bought)
      /\ ack \in Bought => /\ pair \in PairsAmong(execution_report, Bought)
                           /\ pair \notin PairsAmong(execution_report', Bought)
  BY <1>1, <1>2, TailAmong DEF StageInv
<1>5. UNCHANGED <<LiveJobs, Worked, Done, Bought>>
  BY <1>2 DEF LiveJobs, Worked, Done, SellTxs, RunningSells, FailedBuys, Bought
<1>6. CASE ack \in Bought
  <2>1. glb_inventory' = glb_inventory \cup {NewPosition(ack)}
    BY <1>6 DEF HandleAck, Bought
  <2>2. NewPosition(ack).pair = pair
    BY DEF NewPosition
  <2> HIDE DEF ack, pair
  <2>3. pair \notin Held
    BY <1>4, <1>6, StageDefs DEF StageInv, ApartOn, Stages
  <2>4. Held' = Held \cup {pair}
    BY <2>1, <2>2 DEF Held
  <2>5. \A p, q \in glb_inventory' : p.pair = q.pair => p = q
    BY <2>1, <2>2, <2>3 DEF Held, StageInv
  <2>6. ApartOn(Stages, Stage)'
    <3>1. "reported" \in Stages /\ "held" \in Stages
      BY DEF Stages
    <3>2. {pair} \subseteq Stage["reported"]
          /\ Stage'["reported"] \subseteq Stage["reported"] \ {pair}
          /\ Stage'["held"] \subseteq Stage["held"] \cup {pair}
      BY <1>4, <1>6, <2>4, StageDefs, StageDefsAfter
    <3>3. \A n \in Stages \ {"reported", "held"} : Stage'[n] \subseteq Stage[n]
      BY <1>2, <1>5, StageDefs, StageDefsAfter DEF Stages
    <3> QED BY <3>1, <3>2, <3>3, StageMoves
  <2> QED BY <1>2, <1>3, <1>4, <1>5, <2>5, <2>6 DEF StageInv, Distinct, DistinctAmong
<1>7. CASE ack \notin Bought
  <2>1. UNCHANGED glb_inventory
    BY <1>3, <1>7 DEF HandleAck, Bought
  <2> HIDE DEF ack, pair
  <2>2. \A n \in Stages : Stage'[n] \subseteq Stage[n]
    BY <1>2, <1>4, <1>5, <2>1, StageDefs, StageDefsAfter DEF Stages, Held
  <2>3. ApartOn(Stages, Stage)'
    BY <2>2, StagesShrink
  <2> QED BY <1>2, <1>3, <1>4, <1>5, <2>1, <2>3 DEF StageInv, Distinct, DistinctAmong
<1> QED BY <1>6, <1>7

(* The executor: an order goes from ordered to worked, if it is not        *)
(* dropped.                                                                *)
LEMMA OrderTaskStages ==
  ASSUME IInv, IInv', StageInv, OrderTask, UNCHANGED <<glb_inventory, untraded>>,
         acked' = acked \cup ToSet(execution_report')
  PROVE  StageInv'
<1> DEFINE order == Head(execution_broker)
           pair == order.pair
<1>1. /\ execution_broker \in Seq(ExecutionOrder) /\ execution_broker # <<>>
      /\ execution_broker' = Tail(execution_broker)
      /\ UNCHANGED <<execution_report, mempool>>
  BY DEF OrderTask, Submit, DropOrder, ReceiveOrder, chainVars, IInv, TypeOK, QueuesTypeOK
<1>2. /\ pair \in PairsIn(execution_broker)
      /\ PairsIn(execution_broker') \subseteq PairsIn(execution_broker) \ {pair}
      /\ Distinct(execution_broker')
  BY <1>1, TailPairs DEF StageInv
<1>3. acked' = acked
  BY <1>1 DEF StageInv
<1>4. UNCHANGED <<SellTxs, FailedBuys, Held, Bought>>
  BY <1>1, <1>3 DEF SellTxs, FailedBuys, Held, Bought
<1>5. \A k \in jobs' : k \in jobs \/ (k.phase = "queued" /\ k.order = order /\ k.n = counter + 1)
  BY DEF OrderTask, Submit, DropOrder
<1>6. Done' \subseteq Done
  <2>1. RunningSells' \subseteq RunningSells
    BY <1>5 DEF RunningSells, Running, ChainPhases
  <2> QED BY <1>4, <2>1 DEF Done
<1>7. \A k \in LiveJobs' : k \in LiveJobs \/ (k.order.pair = pair /\ k.n = counter + 1)
  BY <1>5 DEF LiveJobs, Running, ChainPhases
<1>8. Worked' \subseteq Worked \cup {pair}
  BY <1>7 DEF Worked
<1> HIDE DEF order, pair
<1>9. pair \notin Worked
  BY <1>2, StageDefs DEF StageInv, ApartOn, Stages
<1>10. \A k, m \in LiveJobs' : k.order.pair = m.order.pair => k = m
  <2> SUFFICES ASSUME NEW k \in LiveJobs', NEW m \in LiveJobs',
                      k.order.pair = m.order.pair
               PROVE  k = m
    OBVIOUS
  <2>1. \A i \in LiveJobs : i.order.pair # pair
    BY <1>9 DEF Worked
  <2>2. (k \in LiveJobs /\ m \in LiveJobs) \/ k.n = m.n
    BY <1>7, <2>1
  <2>3. k \in jobs' /\ m \in jobs'
    BY DEF LiveJobs
  <2> QED BY <2>2, <2>3 DEF StageInv, IInv, JobsConsistent
<1>11. ApartOn(Stages, Stage)'
  <2>1. "ordered" \in Stages /\ "worked" \in Stages
    BY DEF Stages
  <2>2. {pair} \subseteq Stage["ordered"]
        /\ Stage'["ordered"] \subseteq Stage["ordered"] \ {pair}
        /\ Stage'["worked"] \subseteq Stage["worked"] \cup {pair}
    BY <1>2, <1>8, StageDefs, StageDefsAfter
  <2>3. \A n \in Stages \ {"ordered", "worked"} : Stage'[n] \subseteq Stage[n]
    BY <1>1, <1>4, <1>6, StageDefs, StageDefsAfter DEF Stages
  <2> QED BY <2>1, <2>2, <2>3, StageMoves
<1> QED BY <1>1, <1>2, <1>3, <1>4, <1>10, <1>11 DEF StageInv, DistinctAmong

(* The calls of a thread that goes on stand for no new pair.               *)
LEMMA WorkedShrinks ==
  ASSUME IInv', StageInv, NEW j \in jobs,
         \A k \in LiveJobs' : k \in LiveJobs \ {j} \/ (j \in LiveJobs /\ SameCall(j, k))
  PROVE  /\ Worked' \subseteq Worked
         /\ \A k, m \in LiveJobs' : k.order.pair = m.order.pair => k = m
<1>1. Worked' \subseteq Worked
  BY DEF Worked, SameCall
<1>2. ASSUME NEW k \in LiveJobs', NEW m \in LiveJobs', k.order.pair = m.order.pair
      PROVE  k = m
  <2>1. k \in jobs' /\ m \in jobs'
    BY DEF LiveJobs
  <2>2. CASE k \in LiveJobs /\ m \in LiveJobs
    BY <1>2, <2>2 DEF StageInv
  <2>3. CASE j \in LiveJobs /\ SameCall(j, k) /\ SameCall(j, m)
    BY <2>1, <2>3 DEF SameCall, IInv, JobsConsistent
  <2>4. CASE j \in LiveJobs /\ SameCall(j, k) /\ m \in LiveJobs \ {j}
    BY <1>2, <2>4 DEF SameCall, StageInv
  <2>5. CASE j \in LiveJobs /\ SameCall(j, m) /\ k \in LiveJobs \ {j}
    BY <1>2, <2>5 DEF SameCall, StageInv
  <2> QED BY <2>2, <2>3, <2>4, <2>5
<1> QED BY <1>1, <1>2

LEMMA WorkedLoses ==
  ASSUME StageInv, NEW j \in LiveJobs, \A k \in LiveJobs' : k \in LiveJobs \ {j}
  PROVE  Worked' \subseteq Worked \ {j.order.pair} /\ j.order.pair \in Worked
BY DEF Worked, StageInv

(* A thread adds its own transaction to the pool, or makes one late.       *)
SameTx(t, u) ==
  /\ t.n = u.n /\ t.pair = u.pair /\ t.is_buy = u.is_buy
  /\ t.signer = u.signer /\ t.bot = u.bot
  /\ t.late => u.late

LEMMA PoolAfter ==
  ASSUME IInv, NEW j,
         UNCHANGED mempool \/ Expire(j.n) \/ (j.phase = "send" /\ Accept(TxOf(j))),
         NEW tx \in mempool'
  PROVE  \/ \E old \in mempool : SameTx(old, tx)
         \/ j.phase = "send" /\ tx = TxOf(j)
<1>1. CASE UNCHANGED mempool
  BY <1>1 DEF SameTx
<1>2. CASE Expire(j.n)
  <2>1. PICK old \in mempool :
           tx = IF old.n = j.n
                THEN [old EXCEPT !.late = @ \/ RECEIPT_TIMEOUT >= DEADLINE_DELAY_SECONDS]
                ELSE old
    BY <1>2 DEF Expire
  <2>2. old \in Transaction
    BY DEF IInv, TypeOK, ChainTypeOK
  <2>3. SameTx(old, tx)
    BY <2>1, <2>2 DEF SameTx, Transaction
  <2> QED BY <2>3
<1>3. CASE j.phase = "send" /\ Accept(TxOf(j))
  BY <1>3 DEF Accept, SameTx
<1> QED BY <1>1, <1>2, <1>3

LEMMA SellsOnChain ==
  ASSUME IInv, NEW j,
         UNCHANGED mempool \/ Expire(j.n) \/ (j.phase = "send" /\ Accept(TxOf(j))),
         NEW tx \in SellTxs'
  PROVE  \/ \E old \in SellTxs : old.pair = tx.pair
         \/ ~ j.order.is_buy /\ tx.pair = j.order.pair
<1>1. tx \in mempool' /\ ~ tx.is_buy
  BY DEF SellTxs
<1>2. CASE \E old \in mempool : SameTx(old, tx)
  BY <1>1, <1>2 DEF SameTx, SellTxs
<1>3. CASE tx = TxOf(j)
  BY <1>1, <1>3 DEF TxOf
<1> QED BY <1>1, <1>2, <1>3, PoolAfter

(* A thread: its pair goes from worked to reported or done.                *)
LEMMA BeginStages ==
  ASSUME IInv, IInv', StageInv, NEW j \in jobs, Begins(j), acked' = acked,
         UNCHANGED <<execution_broker, glb_inventory, untraded>>
  PROVE  StageInv'
<1>1. UNCHANGED <<execution_report, mempool, FailedBuys, SellTxs, Held, Bought>>
  BY DEF Begins, chainVars, FailedBuys, SellTxs, Held, Bought
<1>2. j \in LiveJobs
  BY DEF Begins, LiveJobs
<1>3. \A k \in jobs' : \/ k \in jobs \ {j}
                       \/ SameCall(j, k) /\ k.phase \in {"simulate", "nonce"}
  BY DEF Begins
<1>4. \A k \in LiveJobs' : k \in LiveJobs \ {j} \/ (j \in LiveJobs /\ SameCall(j, k))
  BY <1>2, <1>3 DEF LiveJobs
<1>5. /\ Worked' \subseteq Worked
      /\ \A k, m \in LiveJobs' : k.order.pair = m.order.pair => k = m
  BY <1>4, WorkedShrinks
<1>6. \A k \in RunningSells' : \/ k \in RunningSells
                               \/ ~ j.order.is_buy /\ k.order = j.order
  BY <1>3 DEF RunningSells, SameCall
<1>7. CASE j.order.is_buy
  <2>1. Done' \subseteq Done
    BY <1>1, <1>6, <1>7 DEF Done
  <2>2. ApartOn(Stages, Stage)'
    BY <1>1, <1>5, <2>1, StageDefs, StageDefsAfter, StagesShrink DEF Stages
  <2> QED BY <1>1, <1>5, <2>2 DEF StageInv, Distinct, DistinctAmong
<1>8. CASE ~ j.order.is_buy
  <2> DEFINE pair == j.order.pair
  <2>1. \A k \in LiveJobs' : k \in LiveJobs \ {j}
    BY <1>3, <1>8 DEF LiveJobs, SameCall
  <2>2. Worked' \subseteq Worked \ {pair} /\ pair \in Worked
    BY <1>2, <2>1, WorkedLoses
  <2>3. Done' \subseteq Done \cup {pair}
    BY <1>1, <1>6 DEF Done
  <2> HIDE DEF pair
  <2>4. ApartOn(Stages, Stage)'
    <3>1. "worked" \in Stages /\ "done" \in Stages
      BY DEF Stages
    <3>2. {pair} \subseteq Stage["worked"]
          /\ Stage'["worked"] \subseteq Stage["worked"] \ {pair}
          /\ Stage'["done"] \subseteq Stage["done"] \cup {pair}
      BY <2>2, <2>3, StageDefs, StageDefsAfter
    <3>3. \A n \in Stages \ {"worked", "done"} : Stage'[n] \subseteq Stage[n]
      BY <1>1, StageDefs, StageDefsAfter DEF Stages
    <3> QED BY <3>1, <3>2, <3>3, StageMoves
  <2> QED BY <1>1, <1>5, <2>4 DEF StageInv, Distinct, DistinctAmong
<1> QED BY <1>7, <1>8

LEMMA GoOnStages ==
  ASSUME IInv, IInv', StageInv, NEW j \in jobs, Asks(j) \/ Sends(j) \/ Leaves(j),
         acked' = acked, UNCHANGED <<execution_broker, glb_inventory, untraded>>
  PROVE  StageInv'
<1>1. UNCHANGED <<execution_report, FailedBuys, Held, Bought>>
  BY DEF Asks, Sends, Leaves, FailedBuys, Held, Bought
<1>2. \/ j.phase \in Running /\ Advances(j, {"send", "wait"})
      \/ j.phase \in {"queued"} \cup TailPhases /\ Advances(j, TailPhases)
  BY DEF Asks, Sends, Leaves, Advances, Running, ChainPhases
<1>3. \A k \in jobs' : \/ k \in jobs \ {j}
                       \/ /\ SameCall(j, k) /\ k.phase # "queued"
                          /\ k.phase \in Running => j.phase \in Running
  BY <1>2 DEF Advances, Running, ChainPhases, TailPhases
<1>4. \A k \in LiveJobs' : k \in LiveJobs \ {j} \/ (j \in LiveJobs /\ SameCall(j, k))
  BY <1>3 DEF LiveJobs, SameCall
<1>5. /\ Worked' \subseteq Worked
      /\ \A k, m \in LiveJobs' : k.order.pair = m.order.pair => k = m
  BY <1>4, WorkedShrinks
<1>6. \A k \in RunningSells' : \E old \in RunningSells : k.order = old.order
  <2> SUFFICES ASSUME NEW k \in RunningSells'
               PROVE  \E old \in RunningSells : k.order = old.order
    OBVIOUS
  <2>1. k \in jobs' /\ ~ k.order.is_buy /\ k.phase \in Running
    BY DEF RunningSells
  <2>2. CASE k \in jobs \ {j}
    BY <2>1, <2>2 DEF RunningSells
  <2>3. CASE SameCall(j, k) /\ j.phase \in Running
    BY <2>1, <2>3 DEF RunningSells, SameCall
  <2> QED BY <1>3, <2>1, <2>2, <2>3
<1>7. \A tx \in SellTxs' : tx.pair \in Done
  <2> SUFFICES ASSUME NEW tx \in SellTxs' PROVE tx.pair \in Done
    OBVIOUS
  <2>1. CASE UNCHANGED mempool
    BY <2>1 DEF SellTxs, Done
  <2>2. CASE Sends(j)
    <3>1. \/ \E old \in SellTxs : old.pair = tx.pair
          \/ ~ j.order.is_buy /\ tx.pair = j.order.pair
      BY <2>2, SellsOnChain DEF Sends
    <3>2. ~ j.order.is_buy => j \in RunningSells
      BY <2>2 DEF Sends, RunningSells, Running, ChainPhases
    <3> QED BY <3>1, <3>2 DEF Done
  <2> QED BY <2>1, <2>2 DEF Asks, Leaves, chainVars
<1>8. Done' \subseteq Done
  BY <1>1, <1>6, <1>7 DEF Done
<1>9. ApartOn(Stages, Stage)'
  BY <1>1, <1>5, <1>8, StageDefs, StageDefsAfter, StagesShrink DEF Stages
<1> QED BY <1>1, <1>5, <1>9 DEF StageInv, Distinct, DistinctAmong

LEMMA SettleStages ==
  ASSUME IInv, IInv', StageInv, NEW j \in jobs, NEW status \in TxStatus,
         Settles(j, status), acked' = acked \cup ToSet(execution_report'),
         UNCHANGED <<execution_broker, glb_inventory, untraded>>
  PROVE  StageInv'
<1> DEFINE ack == Ack(j, status)
           pair == j.order.pair
<1>1. /\ execution_report \in Seq(ExecutionAck)
      /\ execution_report' = Append(execution_report, ack)
      /\ execution_report' \in Seq(ExecutionAck)
  BY DEF Settles, IInv, TypeOK, QueuesTypeOK
<1>2. /\ ack \in ExecutionAck /\ ack.pair = pair /\ ack.is_buy = j.order.is_buy
      /\ ack.tx_status = status
  <2>1. j.order \in ExecutionOrder /\ j.account \in Accounts /\ JobOK(j)
    BY JobFacts
  <2>2. j.bot \in Bots
    BY <2>1 DEF JobOK, Settles, Running, ChainPhases
  <2> QED BY <2>1, <2>2, NoneIsNoBody DEF Ack, ExecutionAck, ExecutionOrder
<1>3. ack \in Bought <=> j.order.is_buy /\ status = "SUCCESS"
  BY <1>2 DEF Bought
<1> HIDE DEF ack
<1>4. /\ PairsAmong(execution_report', Bought)
            \subseteq PairsAmong(execution_report, Bought) \cup {pair}
      /\ ack \notin Bought =>
            PairsAmong(execution_report', Bought) = PairsAmong(execution_report, Bought)
      /\ (ack \in Bought => pair \notin PairsAmong(execution_report, Bought))
            => DistinctAmong(execution_report', Bought)
  BY <1>1, <1>2, AppendAmong DEF StageInv
<1>5. acked' = acked \cup {ack} /\ ToSet(execution_report') \subseteq acked'
  <2>1. ToSet(execution_report') = ToSet(execution_report) \cup {ack}
    BY <1>1, <1>2, AppendFacts
  <2> QED BY <2>1 DEF StageInv
<1>6. UNCHANGED <<Held, Bought>>
  BY DEF Held, Bought
<1>7. \A k \in jobs' : k \in jobs \ {j} \/ (SameCall(j, k) /\ k.phase \in TailPhases)
  BY DEF Settles, Advances
<1>8. \A k \in LiveJobs' : k \in LiveJobs \ {j}
  BY <1>7 DEF LiveJobs, Running, ChainPhases, TailPhases
<1>9. /\ Worked' \subseteq Worked
      /\ \A k, m \in LiveJobs' : k.order.pair = m.order.pair => k = m
  BY <1>8, WorkedShrinks
<1>10. \A k \in RunningSells' : k \in RunningSells
  BY <1>7 DEF RunningSells, Running, ChainPhases, TailPhases
<1>11. ~ j.order.is_buy => j \in RunningSells
  BY DEF Settles, RunningSells
<1>12. \A tx \in SellTxs' : tx.pair \in Done
  <2>1. UNCHANGED mempool \/ Expire(j.n) \/ (j.phase = "send" /\ Accept(TxOf(j)))
    BY DEF Settles, Outcome, chainVars
  <2> QED BY <2>1, <1>11, SellsOnChain DEF Done
<1>13. \A a \in FailedBuys' : a.pair \in Done \/ (a = ack /\ ack \in FailedBuys')
  BY <1>5 DEF FailedBuys, Done
<1>14. CASE ~ j.order.is_buy
  <2>1. \A a \in FailedBuys' : a.pair \in Done
    BY <1>2, <1>13, <1>14 DEF FailedBuys
  <2>2. Done' \subseteq Done
    BY <1>10, <1>12, <2>1 DEF Done
  <2>3. ApartOn(Stages, Stage)'
    BY <1>3, <1>4, <1>6, <1>9, <1>14, <2>2, StageDefs, StageDefsAfter, StagesShrink
       DEF Stages
  <2> QED BY <1>3, <1>4, <1>5, <1>6, <1>9, <1>14, <2>3 DEF StageInv, Distinct
<1>15. CASE j.order.is_buy
  <2>1. j \in LiveJobs
    BY <1>15 DEF LiveJobs, Settles
  <2>2. Worked' \subseteq Worked \ {pair} /\ pair \in Worked
    BY <1>8, <2>1, WorkedLoses
  <2>3. pair \notin PairsAmong(execution_report, Bought)
    BY <2>2, StageDefs DEF StageInv, ApartOn, Stages
  <2> HIDE DEF pair
  <2>4. CASE status = "SUCCESS"
    <3>1. \A a \in FailedBuys' : a.pair \in Done
      BY <1>2, <1>13, <2>4 DEF FailedBuys
    <3>2. Done' \subseteq Done
      BY <1>10, <1>12, <3>1 DEF Done
    <3>3. ApartOn(Stages, Stage)'
      <4>1. "worked" \in Stages /\ "reported" \in Stages
        BY DEF Stages
      <4>2. {pair} \subseteq Stage["worked"]
            /\ Stage'["worked"] \subseteq Stage["worked"] \ {pair}
            /\ Stage'["reported"] \subseteq Stage["reported"] \cup {pair}
        BY <1>4, <2>2, StageDefs, StageDefsAfter
      <4>3. \A n \in Stages \ {"worked", "reported"} : Stage'[n] \subseteq Stage[n]
        BY <1>6, <3>2, StageDefs, StageDefsAfter DEF Stages
      <4> QED BY <4>1, <4>2, <4>3, StageMoves
    <3> QED BY <1>4, <1>5, <1>6, <1>9, <2>3, <3>3 DEF StageInv, Distinct
  <2>5. CASE status # "SUCCESS"
    <3>1. \A a \in FailedBuys' : a.pair \in Done \cup {pair}
      BY <1>2, <1>13
    <3>2. Done' \subseteq Done \cup {pair}
      BY <1>10, <1>12, <3>1 DEF Done
    <3>3. ApartOn(Stages, Stage)'
      <4>1. "worked" \in Stages /\ "done" \in Stages
        BY DEF Stages
      <4>2. {pair} \subseteq Stage["worked"]
            /\ Stage'["worked"] \subseteq Stage["worked"] \ {pair}
            /\ Stage'["done"] \subseteq Stage["done"] \cup {pair}
        BY <2>2, <3>2, StageDefs, StageDefsAfter
      <4>3. \A n \in Stages \ {"worked", "done"} : Stage'[n] \subseteq Stage[n]
        BY <1>3, <1>4, <1>6, <2>5, StageDefs, StageDefsAfter DEF Stages
      <4> QED BY <4>1, <4>2, <4>3, StageMoves
    <3> QED BY <1>4, <1>5, <1>6, <1>9, <2>3, <3>3 DEF StageInv, Distinct
  <2> QED BY <2>4, <2>5
<1> QED BY <1>14, <1>15

(* Factory, event loop and chain move no pair; a mined sell is over.       *)
LEMMA OtherStages ==
  ASSUME StageInv, acked' = acked \cup ToSet(execution_report'),
         UNCHANGED <<execution_broker, execution_report, jobs, glb_inventory, untraded>>,
         mempool' \subseteq mempool
  PROVE  StageInv'
<1>1. acked' = acked
  BY DEF StageInv
<1>2. UNCHANGED <<LiveJobs, Worked, Held, RunningSells, FailedBuys, Bought>>
  BY <1>1 DEF LiveJobs, Worked, Held, RunningSells, FailedBuys, Bought
<1>3. Done' \subseteq Done
  BY <1>2 DEF Done, SellTxs
<1>4. ApartOn(Stages, Stage)'
  BY <1>2, <1>3, StageDefs, StageDefsAfter, StagesShrink DEF Stages
<1> QED BY <1>1, <1>2, <1>4 DEF StageInv, Distinct, DistinctAmong

LEMMA NextStages ==
  ASSUME IInv, StageInv, [Next]_vars
  PROVE  StageInv'
<1>0. IInv'
  BY NextKeepsIInv
<1>1. CASE ClientNext
  BY <1>1, SendBuyStages, SendSellStages, HandleAckStages DEF ClientNext
<1>2. CASE ExecutorProcess(OrderTask)
  BY <1>0, <1>2, OrderTaskStages DEF ExecutorProcess
<1>3. CASE ExecutorProcess(\E j \in jobs : Execute(j))
  <2>1. PICK j \in jobs : Execute(j)
    BY <1>3 DEF ExecutorProcess
  <2>2. /\ UNCHANGED <<execution_broker, glb_inventory, untraded>>
        /\ acked' = acked \cup ToSet(execution_report')
    BY <1>3, <2>1, ThreadsTyped DEF ExecutorProcess, ThreadStep
  <2>3. UNCHANGED execution_report => acked' = acked
    BY <2>2 DEF StageInv
  <2>4. CASE Begins(j)
    BY <1>0, <2>2, <2>3, <2>4, BeginStages DEF Begins
  <2>5. CASE Asks(j) \/ Sends(j) \/ Leaves(j)
    BY <1>0, <2>2, <2>3, <2>5, GoOnStages DEF Asks, Sends, Leaves
  <2>6. CASE \E status \in TxStatus : Settles(j, status)
    BY <1>0, <2>2, <2>6, SettleStages
  <2> QED BY <2>1, <2>4, <2>5, <2>6, KindsOfSteps
<1>4. CASE ExecutorProcess(AssignBot)
  BY <1>4, OtherStages DEF ExecutorProcess, AssignBot, queues, chainVars
<1>5. CASE ExecutorProcess(FactoryTask)
  <2>1. UNCHANGED mempool
    BY <1>5 DEF ExecutorProcess, FactoryTask, FactoryNext, FoundBot, CreateBot, Deploy,
                Create, CreateBotFails, UpdateBot, DatabaseRaises, chainVars
  <2> QED BY <1>5, <2>1, OtherStages DEF ExecutorProcess, FactoryTask, queues, threadVars
<1>6. CASE ExecutorProcess(MineTransaction)
  BY <1>6, OtherStages DEF ExecutorProcess, MineTransaction, Mine, queues, threadVars
<1>7. CASE UNCHANGED vars
  <2>1. acked' = acked \cup ToSet(execution_report')
    BY <1>7 DEF vars, queues, clientVars, StageInv
  <2> QED BY <1>7, <2>1, OtherStages DEF vars, queues, chainVars, threadVars, clientVars
<1> QED BY <1>1, <1>2, <1>3, <1>4, <1>5, <1>6, <1>7 DEF Next

LEMMA StagesHold ==
  ASSUME OnePositionPerPair
  PROVE  Spec => []StageInv
<1>1. Init => StageInv
  BY InitStages
<1>2. IInv /\ StageInv /\ [Next]_vars => StageInv'
  BY NextStages
<1> QED BY <1>1, <1>2, IInvHolds, PTL DEF Spec

-----------------------------------------------------------------------------
(* Calls, transactions and receipts have their numbers in common.          *)

AfterSend == {"wait"} \cup TailPhases

LinkInv ==
  /\ \A tx \in mempool :
        /\ tx.n <= counter
        /\ \A j \in jobs : j.n = tx.n =>
              /\ j.phase \in AfterSend
              /\ tx.bot = j.bot /\ tx.pair = j.order.pair /\ tx.is_buy = j.order.is_buy
  /\ \A receipt \in receipts :
        /\ receipt.n <= counter
        /\ \A j \in jobs : j.n = receipt.n => j.phase \in AfterSend
  /\ \A j \in jobs :
        /\ j.phase = "simulate" => j.order.is_paper
        /\ j.phase \in ChainPhases => ~ j.order.is_paper

LEMMA KindsTouchChain ==
  ASSUME NEW j, Begins(j) \/ Asks(j) \/ Sends(j) \/ Leaves(j)
                  \/ \E status \in TxStatus : Settles(j, status)
  PROVE  /\ UNCHANGED <<bot_owner, receipts, tokens>>
         /\ UNCHANGED mempool \/ Expire(j.n) \/ (j.phase = "send" /\ Accept(TxOf(j)))
<1>1. CASE Begins(j) \/ Asks(j) \/ Leaves(j)
  BY <1>1 DEF Begins, Asks, Leaves, chainVars
<1>2. CASE Sends(j)
  BY <1>2 DEF Sends, Accept
<1>3. CASE \E status \in TxStatus : Settles(j, status)
  BY <1>3 DEF Settles, Outcome, Accept, chainVars
<1> QED BY <1>1, <1>2, <1>3

(* Where the calls come from.                                              *)
LEMMA KindsTouchCalls ==
  ASSUME IInv, NEW j \in jobs,
         Begins(j) \/ Asks(j) \/ Sends(j) \/ Leaves(j)
           \/ \E status \in TxStatus : Settles(j, status),
         NEW k \in jobs'
  PROVE  \/ k \in jobs \ {j} /\ k.n # j.n
         \/ /\ SameCall(j, k)
            /\ \/ k.phase \in TailPhases /\ k.bot = j.bot
               \/ j.phase = "queued" /\ k.phase = IF j.order.is_paper THEN "simulate"
                                                  ELSE "nonce"
               \/ j.phase = "nonce" /\ k.phase = "send" /\ k.bot = j.bot
               \/ j.phase = "send" /\ k.phase = "wait" /\ k.bot = j.bot
<1>1. k \in jobs \ {j} => k.n # j.n
  BY DEF IInv, JobsConsistent
<1>2. CASE Begins(j)
  BY <1>1, <1>2 DEF Begins
<1>3. CASE Asks(j)
  BY <1>1, <1>3 DEF Asks, Advances
<1>4. CASE Sends(j)
  BY <1>1, <1>4 DEF Sends, Advances
<1>5. CASE Leaves(j) \/ \E status \in TxStatus : Settles(j, status)
  BY <1>1, <1>5 DEF Leaves, Settles, Advances
<1> QED BY <1>2, <1>3, <1>4, <1>5

LEMMA LinkThread ==
  ASSUME IInv, LinkInv, NEW j \in jobs, UNCHANGED counter,
         Begins(j) \/ Asks(j) \/ Sends(j) \/ Leaves(j)
           \/ \E status \in TxStatus : Settles(j, status)
  PROVE  LinkInv'
<1>1. /\ UNCHANGED receipts
      /\ UNCHANGED mempool \/ Expire(j.n) \/ (j.phase = "send" /\ Accept(TxOf(j)))
  BY KindsTouchChain
<1>2. \A k \in jobs' :
         \/ k \in jobs \ {j} /\ k.n # j.n
         \/ /\ SameCall(j, k)
            /\ \/ k.phase \in TailPhases /\ k.bot = j.bot
               \/ j.phase = "queued" /\ k.phase = IF j.order.is_paper THEN "simulate"
                                                  ELSE "nonce"
               \/ j.phase = "nonce" /\ k.phase = "send" /\ k.bot = j.bot
               \/ j.phase = "send" /\ k.phase = "wait" /\ k.bot = j.bot
  BY KindsTouchCalls
<1>3. j.n <= counter
  BY DEF IInv, JobsConsistent
<1>4. ASSUME NEW tx \in mempool'
      PROVE  /\ tx.n <= counter'
             /\ \A k \in jobs' : k.n = tx.n =>
                   /\ k.phase \in AfterSend
                   /\ tx.bot = k.bot /\ tx.pair = k.order.pair
                   /\ tx.is_buy = k.order.is_buy
  <2>1. CASE \E old \in mempool : SameTx(old, tx)
    <3>1. PICK old \in mempool : SameTx(old, tx)
      BY <2>1
    <3>2. /\ old.n <= counter
          /\ \A k \in jobs : k.n = old.n =>
                /\ k.phase \in AfterSend
                /\ old.bot = k.bot /\ old.pair = k.order.pair
                /\ old.is_buy = k.order.is_buy
      BY DEF LinkInv
    <3>3. ASSUME NEW k \in jobs', k.n = tx.n
          PROVE  /\ k.phase \in AfterSend
                 /\ tx.bot = k.bot /\ tx.pair = k.order.pair
                 /\ tx.is_buy = k.order.is_buy
      <4>1. CASE k \in jobs
        BY <3>1, <3>2, <3>3, <4>1 DEF SameTx
      <4>2. CASE SameCall(j, k)
        <5>1. j.phase \in AfterSend /\ old.bot = j.bot
              /\ old.pair = j.order.pair /\ old.is_buy = j.order.is_buy
          BY <3>1, <3>2, <3>3, <4>2 DEF SameTx, SameCall
        <5>2. j.phase \notin {"queued", "nonce", "send"}
          BY <5>1 DEF AfterSend, TailPhases
        <5>3. (k.phase \in TailPhases /\ k.bot = j.bot) \/ k \in jobs
          BY <1>2, <5>2
        <5> QED BY <3>1, <4>1, <4>2, <5>1, <5>3 DEF SameTx, SameCall, AfterSend
      <4> QED BY <1>2, <4>1, <4>2
    <3> QED BY <3>1, <3>2, <3>3 DEF SameTx
  <2>2. CASE j.phase = "send" /\ tx = TxOf(j)
    <3>1. /\ tx.n = j.n /\ tx.bot = j.bot /\ tx.pair = j.order.pair
          /\ tx.is_buy = j.order.is_buy
      BY <2>2 DEF TxOf
    <3>2. ASSUME NEW k \in jobs', k.n = tx.n
          PROVE  SameCall(j, k) /\ k.phase \in AfterSend /\ k.bot = j.bot
      BY <1>2, <2>2, <3>1, <3>2 DEF AfterSend
    <3> QED BY <1>3, <3>1, <3>2 DEF SameCall
  <2> QED BY <1>1, <2>1, <2>2, PoolAfter
<1>5. ASSUME NEW receipt \in receipts'
      PROVE  /\ receipt.n <= counter'
             /\ \A k \in jobs' : k.n = receipt.n => k.phase \in AfterSend
  <2>1. /\ receipt.n <= counter
        /\ \A k \in jobs : k.n = receipt.n => k.phase \in AfterSend
    BY <1>1, <1>5 DEF LinkInv
  <2>2. ASSUME NEW k \in jobs', k.n = receipt.n
        PROVE  k.phase \in AfterSend
    <3>1. CASE k \in jobs
      BY <2>1, <2>2, <3>1
    <3>2. CASE SameCall(j, k)
      <4>1. j.phase \notin {"queued", "nonce", "send"}
        BY <2>1, <2>2, <3>2 DEF SameCall, AfterSend, TailPhases
      <4> QED BY <1>2, <3>1, <4>1 DEF AfterSend
    <3> QED BY <1>2, <3>1, <3>2
  <2> QED BY <2>1, <2>2
<1>6. ASSUME NEW k \in jobs'
      PROVE  /\ k.phase = "simulate" => k.order.is_paper
             /\ k.phase \in ChainPhases => ~ k.order.is_paper
  BY <1>2, <1>6 DEF LinkInv, SameCall, TailPhases, ChainPhases
<1> QED BY <1>4, <1>5, <1>6 DEF LinkInv

LEMMA LinkOrderTask ==
  ASSUME IInv, LinkInv, OrderTask
  PROVE  LinkInv'
<1>1. counter \in Nat /\ counter' = counter + 1 /\ UNCHANGED <<mempool, receipts>>
  BY DEF OrderTask, Submit, DropOrder, ReceiveOrder, chainVars, IInv, TypeOK,
         ThreadsTypeOK
<1>2. \A k \in jobs' : k \in jobs \/ (k.phase = "queued" /\ k.n = counter + 1)
  BY DEF OrderTask, Submit, DropOrder
<1>3. /\ \A tx \in mempool : tx.n \in Nat /\ tx.n <= counter
      /\ \A receipt \in receipts : receipt.n \in Nat /\ receipt.n <= counter
  BY DEF LinkInv, IInv, TypeOK, ChainTypeOK, Transaction
<1>4. /\ \A tx \in mempool : tx.n <= counter' /\ tx.n # counter + 1
      /\ \A receipt \in receipts : receipt.n <= counter' /\ receipt.n # counter + 1
  BY <1>1, <1>3
<1> QED BY <1>1, <1>2, <1>4 DEF LinkInv, ChainPhases

LEMMA LinkMine ==
  ASSUME IInv, LinkInv, NEW tx \in mempool, Mine(tx), UNCHANGED <<counter, jobs>>
  PROVE  LinkInv'
<1>1. mempool' \subseteq mempool
  BY DEF Mine
<1>2. \A receipt \in receipts' : receipt \in receipts \/ receipt.n = tx.n
  BY DEF Mine
<1> QED BY <1>1, <1>2 DEF LinkInv

LEMMA NextLinks ==
  ASSUME IInv, LinkInv, [Next]_vars
  PROVE  LinkInv'
<1>1. CASE UNCHANGED <<counter, jobs, mempool, receipts>>
  BY <1>1 DEF LinkInv
<1>2. CASE ClientNext
  BY <1>1, <1>2 DEF ClientNext, SendBuy, SendSell, HandleAck, MainStep, chainVars,
                    threadVars
<1>3. CASE ExecutorProcess(OrderTask)
  BY <1>3, LinkOrderTask DEF ExecutorProcess
<1>4. CASE ExecutorProcess(\E j \in jobs : Execute(j))
  <2>1. PICK j \in jobs : Execute(j)
    BY <1>4 DEF ExecutorProcess
  <2>2. UNCHANGED counter
    BY <2>1, ThreadsTyped DEF ThreadStep
  <2> QED BY <2>1, <2>2, KindsOfSteps, LinkThread
<1>5. CASE ExecutorProcess(AssignBot)
  BY <1>1, <1>5 DEF ExecutorProcess, AssignBot, chainVars
<1>6. CASE ExecutorProcess(FactoryTask)
  <2>1. UNCHANGED <<mempool, receipts>>
    BY <1>6 DEF ExecutorProcess, FactoryTask, FactoryNext, FoundBot, CreateBot, Deploy,
                Create, CreateBotFails, UpdateBot, DatabaseRaises, chainVars
  <2> QED BY <1>1, <1>6, <2>1 DEF ExecutorProcess, FactoryTask, threadVars
<1>7. CASE ExecutorProcess(MineTransaction)
  BY <1>7, LinkMine DEF ExecutorProcess, MineTransaction, threadVars
<1>8. CASE UNCHANGED vars
  BY <1>1, <1>8 DEF vars, chainVars, threadVars
<1> QED BY <1>2, <1>3, <1>4, <1>5, <1>6, <1>7, <1>8 DEF Next

LEMMA LinksHold == Spec => []LinkInv
<1>1. Init => LinkInv
  BY DEF Init, ThreadsInit, LinkInv
<1>2. IInv /\ LinkInv /\ [Next]_vars => LinkInv'
  BY NextLinks
<1> QED BY <1>1, <1>2, IInvHolds, PTL DEF Spec

-----------------------------------------------------------------------------
(* What is held is backed by tokens.                                       *)

Backed(holding) == ~ holding.is_paper => <<holding.bot, holding.pair>> \in tokens

\* The transaction of the call was mined and did not revert.
CarriedOut(j) == \E receipt \in receipts : receipt.n = j.n /\ receipt.status = "SUCCESS"

TokenInv ==
  /\ \A position \in glb_inventory : Backed(position)
  /\ \A order \in ToSet(execution_broker) : ~ order.is_buy => Backed(order)
  /\ \A j \in jobs : j.phase = "queued" /\ ~ j.order.is_buy => Backed(j.order)
  /\ \A ack \in ToSet(execution_report) : ack \in Bought => Backed(ack)
  /\ \A j \in jobs : j.phase = "wait" /\ j.order.is_buy /\ CarriedOut(j)
        => <<j.bot, j.order.pair>> \in tokens

LEMMA TokenInvSuffices == TokenInv => PositionsHaveTokens
<1> SUFFICES ASSUME TokenInv, NEW holding \in glb_inventory \cup PendingSells
             PROVE  Backed(holding)
  BY DEF PositionsHaveTokens, Backed
<1>1. CASE holding \in PendingSells
  BY <1>1 DEF PendingSells, SellOrders, TokenInv
<1> QED BY <1>1 DEF TokenInv

LEMMA InitTokens == Init => TokenInv
BY DEF Init, ThreadsInit, TokenInv, Backed, ToSet

(* A pair in a list is among its pairs.                                    *)
LEMMA PairsOfElements ==
  ASSUME NEW s, NEW A, NEW e \in ToSet(s)
  PROVE  e.pair \in PairsIn(s) /\ (e \in A => e.pair \in PairsAmong(s, A))
BY DEF ToSet, PairsIn, PairsAmong

LEMMA TokenClient ==
  ASSUME IInv, TokenInv, ClientNext
  PROVE  TokenInv'
<1>1. /\ execution_broker \in Seq(ExecutionOrder)
      /\ execution_report \in Seq(ExecutionAck)
      /\ glb_inventory \subseteq Position
  BY DEF IInv, TypeOK, QueuesTypeOK
<1>2. UNCHANGED <<tokens, receipts, jobs>> /\ UNCHANGED Bought
  BY DEF ClientNext, SendBuy, SendSell, HandleAck, MainStep, chainVars, threadVars, Bought
<1>3. ASSUME NEW pair \in Pairs, NEW is_paper \in Paper, SendBuy(pair, is_paper)
      PROVE  TokenInv'
  <2> DEFINE order == BuyOrder(pair, is_paper)
  <2>1. order \in ExecutionOrder
    BY OrdersOfMainProcess
  <2>2. execution_broker' = Append(execution_broker, order)
        /\ UNCHANGED <<glb_inventory, execution_report>>
    BY <1>3 DEF SendBuy
  <2>3. order.is_buy
    BY DEF BuyOrder
  <2> HIDE DEF order
  <2>4. ToSet(execution_broker') = ToSet(execution_broker) \cup {order}
    BY <1>1, <2>1, <2>2, AppendFacts
  <2> QED BY <1>2, <2>2, <2>3, <2>4 DEF TokenInv, Backed, CarriedOut
<1>4. ASSUME NEW position \in glb_inventory, SendSell(position)
      PROVE  TokenInv'
  <2> DEFINE order == SellOrder(position)
  <2>1. order \in ExecutionOrder
    BY <1>1, OrdersOfMainProcess
  <2>2. /\ execution_broker' = Append(execution_broker, order)
        /\ glb_inventory' \subseteq glb_inventory
        /\ UNCHANGED execution_report
    BY <1>4 DEF SendSell
  <2>3. Backed(order)
    BY DEF SellOrder, TokenInv, Backed
  <2> HIDE DEF order
  <2>4. ToSet(execution_broker') = ToSet(execution_broker) \cup {order}
    BY <1>1, <2>1, <2>2, AppendFacts
  <2> QED BY <1>2, <2>2, <2>3, <2>4 DEF TokenInv, Backed, CarriedOut
<1>5. CASE HandleAck
  <2> DEFINE ack == Head(execution_report)
  <2>1. /\ ack \in ExecutionAck /\ ack \in ToSet(execution_report)
        /\ ToSet(execution_report') \subseteq ToSet(execution_report)
    BY <1>1, <1>5, TailFacts DEF HandleAck
  <2>2. UNCHANGED execution_broker
    BY <1>5 DEF HandleAck
  <2>3. glb_inventory' \subseteq glb_inventory
        \/ /\ ack \in Bought
           /\ glb_inventory' = glb_inventory \cup {NewPosition(ack)}
    BY <1>5, <2>1 DEF HandleAck, Bought
  <2>4. ack \in Bought => Backed(NewPosition(ack))
    BY <2>1 DEF NewPosition, TokenInv, Backed
  <2> HIDE DEF ack
  <2> QED BY <1>2, <2>1, <2>2, <2>3, <2>4 DEF TokenInv, Backed, CarriedOut
<1> QED BY <1>3, <1>4, <1>5 DEF ClientNext

LEMMA TokenOrderTask ==
  ASSUME IInv, TokenInv, OrderTask, UNCHANGED glb_inventory
  PROVE  TokenInv'
<1> DEFINE order == Head(execution_broker)
<1>1. /\ execution_broker \in Seq(ExecutionOrder) /\ execution_broker # <<>>
      /\ execution_broker' = Tail(execution_broker)
      /\ UNCHANGED <<execution_report, tokens, receipts>>
  BY DEF OrderTask, Submit, DropOrder, ReceiveOrder, chainVars, IInv, TypeOK, QueuesTypeOK
<1>2. /\ order \in ToSet(execution_broker)
      /\ ToSet(execution_broker') \subseteq ToSet(execution_broker)
  BY <1>1, TailFacts
<1>3. \A k \in jobs' : k \in jobs \/ (k.phase = "queued" /\ k.order = order)
  BY DEF OrderTask, Submit, DropOrder
<1> HIDE DEF order
<1> QED BY <1>1, <1>2, <1>3 DEF TokenInv, Backed, CarriedOut, Bought

LEMMA TokenThread ==
  ASSUME IInv, LinkInv, TokenInv, NEW j \in jobs,
         UNCHANGED <<execution_broker, glb_inventory>>,
         Begins(j) \/ Asks(j) \/ Sends(j) \/ Leaves(j)
           \/ \E status \in TxStatus : Settles(j, status)
  PROVE  TokenInv'
<1>1. UNCHANGED <<tokens, receipts>>
  BY KindsTouchChain
<1>2. \A k \in jobs' :
         \/ k \in jobs \ {j} /\ k.n # j.n
         \/ /\ SameCall(j, k)
            /\ \/ k.phase \in TailPhases /\ k.bot = j.bot
               \/ j.phase = "queued" /\ k.phase = IF j.order.is_paper THEN "simulate"
                                                  ELSE "nonce"
               \/ j.phase = "nonce" /\ k.phase = "send" /\ k.bot = j.bot
               \/ j.phase = "send" /\ k.phase = "wait" /\ k.bot = j.bot
  BY KindsTouchCalls
<1>3. \A k \in jobs' : k.phase = "queued" => k \in jobs
  BY <1>2 DEF TailPhases
<1>4. \A k \in jobs' : k.phase = "wait" => k \in jobs \/ (j.phase = "send" /\ k.n = j.n)
  BY <1>2 DEF TailPhases, SameCall
<1>5. j.phase = "send" => ~ CarriedOut(j)
  BY DEF LinkInv, AfterSend, TailPhases, CarriedOut
<1>6. \A k \in jobs' : k.phase = "wait" /\ k.order.is_buy /\ CarriedOut(k)'
         => <<k.bot, k.order.pair>> \in tokens'
  BY <1>1, <1>4, <1>5 DEF TokenInv, CarriedOut
<1>7. \A ack \in ToSet(execution_report') : ack \in Bought => Backed(ack)
  <2>1. CASE UNCHANGED execution_report
    BY <2>1 DEF TokenInv
  <2>2. ASSUME NEW status \in TxStatus, Settles(j, status)
        PROVE  \A ack \in ToSet(execution_report') : ack \in Bought => Backed(ack)
    <3> DEFINE new == Ack(j, status)
    <3>1. JobOK(j) /\ j.order \in ExecutionOrder /\ j.account \in Accounts
      BY JobFacts
    <3>2. new \in ExecutionAck
      BY <2>2, <3>1, NoneIsNoBody
         DEF Settles, Running, ChainPhases, JobOK, Ack, ExecutionAck, ExecutionOrder
    <3>3. new \in Bought => Backed(new)
      <4> SUFFICES ASSUME j.order.is_buy, status = "SUCCESS", ~ j.order.is_paper
                   PROVE  <<j.bot, j.order.pair>> \in tokens
        BY DEF Ack, Bought, Backed
      <4>1. j.phase = "wait" /\ CarriedOut(j)
        BY <2>2 DEF Settles, Outcome, LinkInv, CarriedOut
      <4> QED BY <4>1 DEF TokenInv
    <3> HIDE DEF new
    <3>4. ToSet(execution_report') = ToSet(execution_report) \cup {new}
      BY <2>2, <3>2, AppendFacts DEF Settles, new, IInv, TypeOK, QueuesTypeOK
    <3> QED BY <3>3, <3>4 DEF TokenInv
  <2> QED BY <2>1, <2>2 DEF Begins, Asks, Sends, Leaves
<1> QED BY <1>1, <1>3, <1>6, <1>7 DEF TokenInv, Backed, Bought

(* A sell that is mined is of a pair that is not held any more.            *)
LEMMA TokenMine ==
  ASSUME IInv, StageInv, LinkInv, TokenInv, NEW tx \in mempool, Mine(tx),
         UNCHANGED <<execution_broker, execution_report, glb_inventory, jobs>>
  PROVE  TokenInv'
<1>1. \A b, p : <<b, p>> \in tokens /\ <<b, p>> \notin tokens' =>
         tx \in SellTxs /\ p = tx.pair
  BY DEF Mine, SellTxs
<1>2. \A p : p \in PairsIn(execution_broker) \cup Worked \cup Held
                  \cup PairsAmong(execution_report, Bought)
         => p \notin Done
  BY StageDefs DEF StageInv, ApartOn, Stages
<1>3. tx \in SellTxs => tx.pair \in Done
  BY DEF Done
<1>4. ASSUME NEW position \in glb_inventory
      PROVE  Backed(position)'
  BY <1>1, <1>2, <1>3 DEF TokenInv, Backed, Held
<1>5. ASSUME NEW order \in ToSet(execution_broker), ~ order.is_buy
      PROVE  Backed(order)'
  <2>1. order.pair \in PairsIn(execution_broker)
    BY PairsOfElements
  <2> QED BY <1>1, <1>2, <1>3, <1>5, <2>1 DEF TokenInv, Backed
<1>6. ASSUME NEW j \in jobs, j.phase = "queued", ~ j.order.is_buy
      PROVE  Backed(j.order)'
  <2>1. j.order.pair \in Worked
    BY <1>6 DEF Worked, LiveJobs
  <2> QED BY <1>1, <1>2, <1>3, <1>6, <2>1 DEF TokenInv, Backed
<1>7. ASSUME NEW ack \in ToSet(execution_report), ack \in Bought
      PROVE  Backed(ack)'
  <2>1. ack.pair \in PairsAmong(execution_report, Bought)
    BY <1>7, PairsOfElements
  <2> QED BY <1>1, <1>2, <1>3, <1>7, <2>1 DEF TokenInv, Backed
<1>8. ASSUME NEW j \in jobs, j.phase = "wait", j.order.is_buy, CarriedOut(j)'
      PROVE  <<j.bot, j.order.pair>> \in tokens'
  <2>1. CASE CarriedOut(j)
    <3>1. j.order.pair \in Worked
      BY <1>8 DEF Worked, LiveJobs, Running, ChainPhases
    <3> QED BY <1>1, <1>2, <1>3, <1>8, <2>1, <3>1 DEF TokenInv
  <2>2. CASE ~ CarriedOut(j)
    <3>1. /\ tx.n = j.n
          /\ tx.is_buy => tokens' = tokens \cup {<<tx.bot, tx.pair>>}
      BY <1>8, <2>2 DEF CarriedOut, Mine
    <3>2. tx.bot = j.bot /\ tx.pair = j.order.pair /\ tx.is_buy = j.order.is_buy
      BY <3>1 DEF LinkInv
    <3> QED BY <1>8, <3>1, <3>2
  <2> QED BY <2>1, <2>2
<1>9. UNCHANGED Bought
  BY DEF Bought
<1> QED BY <1>4, <1>5, <1>6, <1>7, <1>8, <1>9 DEF TokenInv

LEMMA NextTokens ==
  ASSUME IInv, StageInv, LinkInv, TokenInv, [Next]_vars
  PROVE  TokenInv'
<1>1. CASE UNCHANGED <<execution_broker, execution_report, glb_inventory, jobs,
                       tokens, receipts>>
  BY <1>1 DEF TokenInv, Backed, CarriedOut, Bought
<1>2. CASE ClientNext
  BY <1>2, TokenClient
<1>3. CASE ExecutorProcess(OrderTask)
  BY <1>3, TokenOrderTask DEF ExecutorProcess
<1>4. CASE ExecutorProcess(\E j \in jobs : Execute(j))
  <2>1. PICK j \in jobs : Execute(j)
    BY <1>4 DEF ExecutorProcess
  <2>2. UNCHANGED <<execution_broker, glb_inventory>>
    BY <1>4, <2>1, ThreadsTyped DEF ThreadStep, ExecutorProcess
  <2> QED BY <2>1, <2>2, KindsOfSteps, TokenThread
<1>5. CASE ExecutorProcess(AssignBot)
  BY <1>1, <1>5 DEF ExecutorProcess, AssignBot, queues, chainVars
<1>6. CASE ExecutorProcess(FactoryTask)
  <2>1. UNCHANGED <<tokens, receipts>>
    BY <1>6 DEF ExecutorProcess, FactoryTask, FactoryNext, FoundBot, CreateBot, Deploy,
                Create, CreateBotFails, UpdateBot, DatabaseRaises, chainVars
  <2> QED BY <1>1, <1>6, <2>1 DEF ExecutorProcess, FactoryTask, queues, threadVars
<1>7. CASE ExecutorProcess(MineTransaction)
  BY <1>7, TokenMine DEF ExecutorProcess, MineTransaction, queues, threadVars
<1>8. CASE UNCHANGED vars
  BY <1>1, <1>8 DEF vars, queues, chainVars, threadVars, clientVars
<1> QED BY <1>2, <1>3, <1>4, <1>5, <1>6, <1>7, <1>8 DEF Next

(* Whatever fails and in whatever order threads, factory and blocks work,  *)
(* a position or the order that sells it names the contract that holds the *)
(* tokens (buysell_executor.py:91, 139, 164).                              *)
THEOREM HeldIsBacked ==
  ASSUME OnePositionPerPair
  PROVE  Spec => []PositionsHaveTokens
<1>1. Init => TokenInv
  BY InitTokens
<1>2. IInv /\ StageInv /\ LinkInv /\ TokenInv /\ [Next]_vars => TokenInv'
  BY NextTokens
<1>3. TokenInv => PositionsHaveTokens
  BY TokenInvSuffices
<1>4. Spec => []StageInv
  BY StagesHold
<1> QED BY <1>1, <1>2, <1>3, <1>4, IInvHolds, LinksHold, PTL DEF Spec

-----------------------------------------------------------------------------
(* What failed is not carried out afterwards.                              *)

\* An order has one transaction and one receipt, never both.
OnceInv ==
  /\ \A r, s \in receipts : r.n = s.n => r = s
  /\ \A t, u \in mempool : t.n = u.n => t = u
  /\ \A tx \in mempool : \A receipt \in receipts : tx.n # receipt.n

\* Nobody has bought the pair, nor is about to.
Bare(p) ==
  /\ \A tx \in mempool : tx.is_buy => tx.pair # p
  /\ \A b \in Bots : <<b, p>> \notin tokens

Unsent == {"queued", "simulate", "nonce", "send"}

FailInv ==
  /\ \A p \in untraded : Bare(p)
  /\ \A order \in ToSet(execution_broker) : order.is_buy => Bare(order.pair)
  /\ \A j \in jobs : j.order.is_buy /\ j.phase \in Unsent => Bare(j.order.pair)
  /\ \A j \in jobs : j.order.is_buy /\ j.phase = "wait" =>
        /\ \A tx \in mempool : tx.is_buy /\ tx.pair = j.order.pair => tx.n = j.n
        /\ ~ CarriedOut(j) => \A b \in Bots : <<b, j.order.pair>> \notin tokens
  /\ \A ack \in FailedBuys : ~ ack.is_paper =>
        /\ \A tx \in mempool : tx.is_buy /\ tx.pair = ack.pair => tx.late
        /\ \A b \in Bots : <<b, ack.pair>> \notin tokens

LEMMA OnceThread ==
  ASSUME LinkInv, OnceInv, NEW j \in jobs, UNCHANGED receipts,
         UNCHANGED mempool \/ Expire(j.n) \/ (j.phase = "send" /\ Accept(TxOf(j)))
  PROVE  OnceInv'
<1>1. CASE UNCHANGED mempool
  BY <1>1 DEF OnceInv
<1>2. CASE Expire(j.n)
  <2> DEFINE Aged(tx) ==
         IF tx.n = j.n
         THEN [tx EXCEPT !.late = @ \/ RECEIPT_TIMEOUT >= DEADLINE_DELAY_SECONDS]
         ELSE tx
  <2>1. mempool' = {Aged(tx) : tx \in mempool}
    BY <1>2 DEF Expire
  <2>2. \A tx \in mempool : Aged(tx).n = tx.n
    OBVIOUS
  <2> HIDE DEF Aged
  <2>3. \A t, u \in mempool' : t.n = u.n => t = u
    BY <2>1, <2>2 DEF OnceInv
  <2>4. \A tx \in mempool' : \A receipt \in receipts : tx.n # receipt.n
    BY <2>1, <2>2 DEF OnceInv
  <2> QED BY <2>3, <2>4 DEF OnceInv
<1>3. CASE j.phase = "send" /\ Accept(TxOf(j))
  <2>1. mempool' \subseteq mempool \cup {TxOf(j)} /\ TxOf(j).n = j.n
    BY <1>3 DEF Accept, TxOf
  <2>2. /\ \A tx \in mempool : tx.n # j.n
        /\ \A receipt \in receipts : receipt.n # j.n
    BY <1>3 DEF LinkInv, AfterSend, TailPhases
  <2> QED BY <2>1, <2>2 DEF OnceInv
<1> QED BY <1>1, <1>2, <1>3

LEMMA OnceMine ==
  ASSUME OnceInv, NEW tx \in mempool, Mine(tx)
  PROVE  OnceInv'
<1>1. mempool' = mempool \ {tx}
  BY DEF Mine
<1>2. \E status : receipts' = receipts \cup {[n |-> tx.n, status |-> status]}
  BY DEF Mine
<1> QED BY <1>1, <1>2 DEF OnceInv

LEMMA NextOnce ==
  ASSUME IInv, LinkInv, OnceInv, [Next]_vars
  PROVE  OnceInv'
<1>1. CASE UNCHANGED <<mempool, receipts>>
  BY <1>1 DEF OnceInv
<1>2. CASE ClientNext
  BY <1>1, <1>2 DEF ClientNext, SendBuy, SendSell, HandleAck, MainStep, chainVars
<1>3. CASE ExecutorProcess(OrderTask)
  BY <1>1, <1>3 DEF ExecutorProcess, OrderTask, Submit, DropOrder, ReceiveOrder, chainVars
<1>4. CASE ExecutorProcess(\E j \in jobs : Execute(j))
  <2>1. PICK j \in jobs : Execute(j)
    BY <1>4 DEF ExecutorProcess
  <2> QED BY <2>1, KindsOfSteps, KindsTouchChain, OnceThread
<1>5. CASE ExecutorProcess(AssignBot)
  BY <1>1, <1>5 DEF ExecutorProcess, AssignBot, chainVars
<1>6. CASE ExecutorProcess(FactoryTask)
  BY <1>1, <1>6 DEF ExecutorProcess, FactoryTask, FactoryNext, FoundBot, CreateBot, Deploy,
                    Create, CreateBotFails, UpdateBot, DatabaseRaises, chainVars
<1>7. CASE ExecutorProcess(MineTransaction)
  BY <1>7, OnceMine DEF ExecutorProcess, MineTransaction
<1>8. CASE UNCHANGED vars
  BY <1>1, <1>8 DEF vars, chainVars
<1> QED BY <1>2, <1>3, <1>4, <1>5, <1>6, <1>7, <1>8 DEF Next

LEMMA OnceHolds == Spec => []OnceInv
<1>1. Init => OnceInv
  BY DEF Init, OnceInv
<1>2. IInv /\ LinkInv /\ OnceInv /\ [Next]_vars => OnceInv'
  BY NextOnce
<1> QED BY <1>1, <1>2, IInvHolds, LinksHold, PTL DEF Spec

LEMMA InitFails == Init => FailInv
<1> SUFFICES ASSUME Init PROVE FailInv
  OBVIOUS
<1>1. \A p \in untraded : Bare(p)
  BY DEF Init, Bare
<1>2. FailedBuys = {}
  BY DEF Init, FailedBuys
<1> QED BY <1>1, <1>2 DEF Init, ThreadsInit, FailInv, ToSet

LEMMA FailClient ==
  ASSUME IInv, FailInv, ClientNext
  PROVE  FailInv'
<1>1. UNCHANGED <<tokens, receipts, mempool, jobs, acked>>
  BY DEF ClientNext, SendBuy, SendSell, HandleAck, MainStep, chainVars, threadVars
<1>2. execution_broker \in Seq(ExecutionOrder)
  BY DEF IInv, TypeOK, QueuesTypeOK
<1>3. untraded' \subseteq untraded
  BY DEF ClientNext, SendBuy, SendSell, HandleAck
<1>4. \A order \in ToSet(execution_broker') : order.is_buy =>
         order \in ToSet(execution_broker) \/ order.pair \in untraded
  <2>1. ASSUME NEW pair \in Pairs, NEW is_paper \in Paper, SendBuy(pair, is_paper),
               NEW order \in ToSet(execution_broker')
        PROVE  order \in ToSet(execution_broker) \/ order.pair \in untraded
    <3>1. ToSet(execution_broker') = ToSet(execution_broker) \cup {BuyOrder(pair, is_paper)}
      BY <1>2, <2>1, OrdersOfMainProcess, AppendFacts DEF SendBuy
    <3>2. pair \in untraded /\ BuyOrder(pair, is_paper).pair = pair
      BY <2>1 DEF BuyOrder, SendBuy
    <3> QED BY <2>1, <3>1, <3>2
  <2>2. ASSUME NEW position \in glb_inventory, SendSell(position),
               NEW order \in ToSet(execution_broker'), order.is_buy
        PROVE  order \in ToSet(execution_broker)
    <3>1. position \in Position
      BY DEF IInv, TypeOK
    <3>2. ToSet(execution_broker') = ToSet(execution_broker) \cup {SellOrder(position)}
      BY <1>2, <2>2, <3>1, OrdersOfMainProcess, AppendFacts DEF SendSell
    <3> QED BY <2>2, <3>2 DEF SellOrder
  <2> QED BY <2>1, <2>2 DEF ClientNext, HandleAck
<1> QED BY <1>1, <1>3, <1>4 DEF FailInv, Bare, CarriedOut, FailedBuys

LEMMA FailOrderTask ==
  ASSUME IInv, FailInv, OrderTask, UNCHANGED <<untraded, acked>>
  PROVE  FailInv'
<1> DEFINE order == Head(execution_broker)
<1>1. /\ execution_broker \in Seq(ExecutionOrder) /\ execution_broker # <<>>
      /\ execution_broker' = Tail(execution_broker)
      /\ UNCHANGED <<tokens, receipts, mempool>>
  BY DEF OrderTask, Submit, DropOrder, ReceiveOrder, chainVars, IInv, TypeOK, QueuesTypeOK
<1>2. /\ order \in ToSet(execution_broker)
      /\ ToSet(execution_broker') \subseteq ToSet(execution_broker)
  BY <1>1, TailFacts
<1>3. \A k \in jobs' : k \in jobs \/ (k.phase = "queued" /\ k.order = order)
  BY DEF OrderTask, Submit, DropOrder
<1> HIDE DEF order
<1> QED BY <1>1, <1>2, <1>3 DEF FailInv, Bare, CarriedOut, FailedBuys

(* The buys of a pair that are on the chain after the step of a thread.    *)
LEMMA BuysOnChain ==
  ASSUME IInv, NEW j \in jobs,
         UNCHANGED mempool \/ Expire(j.n) \/ (j.phase = "send" /\ Accept(TxOf(j))),
         NEW p, j.phase = "send" /\ j.order.is_buy => p # j.order.pair,
         NEW tx \in mempool', tx.is_buy, tx.pair = p
  PROVE  \E old \in mempool : SameTx(old, tx) /\ old.is_buy /\ old.pair = p
<1>1. CASE \E old \in mempool : SameTx(old, tx)
  BY <1>1 DEF SameTx
<1>2. CASE j.phase = "send" /\ tx = TxOf(j)
  BY <1>2 DEF TxOf
<1> QED BY <1>1, <1>2, PoolAfter

LEMMA BareKept ==
  ASSUME IInv, NEW j \in jobs, UNCHANGED tokens,
         UNCHANGED mempool \/ Expire(j.n) \/ (j.phase = "send" /\ Accept(TxOf(j))),
         NEW p, j.phase = "send" /\ j.order.is_buy => p # j.order.pair, Bare(p)
  PROVE  Bare(p)'
<1>1. ASSUME NEW tx \in mempool', tx.is_buy
      PROVE  tx.pair # p
  <2> SUFFICES ASSUME tx.pair = p PROVE FALSE
    OBVIOUS
  <2>1. PICK old \in mempool : old.is_buy /\ old.pair = p
    BY <1>1, BuysOnChain
  <2> QED BY <2>1 DEF Bare
<1> QED BY <1>1 DEF Bare

(* A failed acknowledgement is the end of it: the node refused the         *)
(* transaction, it was mined and reverted, or its deadline has passed.     *)
LEMMA FailedIsFinal ==
  ASSUME ~ NodeMayFail, RECEIPT_TIMEOUT >= DEADLINE_DELAY_SECONDS,
         IInv, LinkInv, OnceInv, FailInv, NEW j \in jobs,
         Settles(j, "FAILED"), j.order.is_buy, ~ j.order.is_paper
  PROVE  /\ \A tx \in mempool' : tx.is_buy /\ tx.pair = j.order.pair => tx.late
         /\ \A b \in Bots : <<b, j.order.pair>> \notin tokens
<1> DEFINE pair == j.order.pair
<1>1. j.phase # "simulate"
  BY DEF LinkInv
<1>2. CASE j.phase = "send" /\ UNCHANGED chainVars
  <2>1. Bare(pair)
    BY <1>2 DEF FailInv, Unsent
  <2> QED BY <1>2, <2>1 DEF Bare, chainVars
<1>3. CASE /\ j.phase = "wait" /\ UNCHANGED chainVars
           /\ \E receipt \in receipts : receipt.n = j.n /\ receipt.status = "FAILED"
  <2>1. PICK failed \in receipts : failed.n = j.n /\ failed.status = "FAILED"
    BY <1>3
  <2>2. ~ CarriedOut(j)
    BY <2>1 DEF CarriedOut, OnceInv
  <2>3. \A tx \in mempool : tx.n # j.n
    BY <2>1 DEF OnceInv
  <2> QED BY <1>3, <2>2, <2>3 DEF FailInv, chainVars
<1>4. CASE j.phase = "wait" /\ ~ Mined(j.n) /\ Expire(j.n)
  <2>1. ~ CarriedOut(j)
    BY <1>4 DEF CarriedOut, Mined
  <2>2. ASSUME NEW tx \in mempool', tx.is_buy, tx.pair = pair
        PROVE  tx.late
    <3>1. PICK old \in mempool :
             tx = IF old.n = j.n
                  THEN [old EXCEPT !.late = @ \/ RECEIPT_TIMEOUT >= DEADLINE_DELAY_SECONDS]
                  ELSE old
      BY <1>4 DEF Expire
    <3>2. old \in Transaction
      BY DEF IInv, TypeOK, ChainTypeOK
    <3>3. old.is_buy /\ old.pair = pair
      BY <2>2, <3>1, <3>2 DEF Transaction
    <3>4. old.n = j.n
      BY <1>4, <3>3 DEF FailInv
    <3> QED BY <3>1, <3>2, <3>4 DEF Transaction
  <2> QED BY <1>4, <2>1, <2>2 DEF FailInv
<1> QED BY <1>1, <1>2, <1>3, <1>4 DEF Settles, Outcome

LEMMA FailThread ==
  ASSUME ~ NodeMayFail, RECEIPT_TIMEOUT >= DEADLINE_DELAY_SECONDS,
         IInv, StageInv, LinkInv, OnceInv, FailInv, NEW j \in jobs,
         UNCHANGED <<execution_broker, untraded>>,
         acked' = acked \cup ToSet(execution_report'),
         Begins(j) \/ Asks(j) \/ Sends(j) \/ Leaves(j)
           \/ \E status \in TxStatus : Settles(j, status)
  PROVE  FailInv'
<1> DEFINE pair == j.order.pair
           sending == j.phase = "send" /\ j.order.is_buy
<1>1. /\ UNCHANGED <<tokens, receipts>>
      /\ UNCHANGED mempool \/ Expire(j.n) \/ (j.phase = "send" /\ Accept(TxOf(j)))
  BY KindsTouchChain
<1>2. \A k \in jobs' :
         \/ k \in jobs \ {j} /\ k.n # j.n
         \/ /\ SameCall(j, k)
            /\ \/ k.phase \in TailPhases /\ k.bot = j.bot
               \/ j.phase = "queued" /\ k.phase = IF j.order.is_paper THEN "simulate"
                                                  ELSE "nonce"
               \/ j.phase = "nonce" /\ k.phase = "send" /\ k.bot = j.bot
               \/ j.phase = "send" /\ k.phase = "wait" /\ k.bot = j.bot
  BY KindsTouchCalls
<1>3. sending => j \in LiveJobs
  BY DEF LiveJobs, Running, ChainPhases
<1>4. sending => pair \in Worked
  BY <1>3 DEF Worked
<1>5. sending => pair \notin untraded /\ pair \notin PairsIn(execution_broker)
                 /\ pair \notin Done
  BY <1>4, StageDefs DEF StageInv, ApartOn, Stages
<1>6. \A p \in untraded' : Bare(p)'
  BY <1>1, <1>5, BareKept DEF FailInv
<1>7. \A order \in ToSet(execution_broker') : order.is_buy => Bare(order.pair)'
  <2> SUFFICES ASSUME NEW order \in ToSet(execution_broker), order.is_buy
               PROVE  Bare(order.pair)'
    OBVIOUS
  <2>1. order.pair \in PairsIn(execution_broker)
    BY PairsOfElements
  <2> QED BY <1>1, <1>5, <2>1, BareKept DEF FailInv
<1>8. \A k \in jobs : k # j /\ k.order.is_buy /\ k.phase \in Unsent \cup {"wait"}
         => (sending => k.order.pair # pair)
  <2> SUFFICES ASSUME NEW k \in jobs, k # j, k.order.is_buy,
                      k.phase \in Unsent \cup {"wait"}, sending, k.order.pair = pair
               PROVE  FALSE
    OBVIOUS
  <2>1. k \in LiveJobs
    BY DEF LiveJobs, Unsent, Running, ChainPhases
  <2> QED BY <1>3, <2>1 DEF StageInv
<1>9. ASSUME NEW k \in jobs', k.order.is_buy, k.phase \in Unsent
      PROVE  Bare(k.order.pair)'
  <2>1. CASE k \in jobs \ {j}
    BY <1>1, <1>8, <1>9, <2>1, BareKept DEF FailInv
  <2>2. CASE SameCall(j, k) /\ j.phase \in {"queued", "nonce"}
    <3>1. Bare(k.order.pair)
      BY <1>9, <2>2 DEF SameCall, FailInv, Unsent
    <3> QED BY <1>1, <2>2, <3>1, BareKept
  <2> QED BY <1>2, <1>9, <2>1, <2>2 DEF Unsent, TailPhases
<1>10. ASSUME NEW k \in jobs', k.order.is_buy, k.phase = "wait"
       PROVE  /\ \A tx \in mempool' : tx.is_buy /\ tx.pair = k.order.pair => tx.n = k.n
              /\ ~ CarriedOut(k)' => \A b \in Bots : <<b, k.order.pair>> \notin tokens'
  <2>1. CASE k \in jobs \ {j}
    <3>1. sending => k.order.pair # pair
      BY <1>8, <1>10, <2>1
    <3>2. ASSUME NEW tx \in mempool', tx.is_buy, tx.pair = k.order.pair
          PROVE  tx.n = k.n
      <4>1. PICK old \in mempool :
               SameTx(old, tx) /\ old.is_buy /\ old.pair = k.order.pair
        BY <1>1, <3>1, <3>2, BuysOnChain
      <4> QED BY <1>10, <2>1, <4>1 DEF FailInv, SameTx
    <3> QED BY <1>1, <1>10, <2>1, <3>2 DEF FailInv, CarriedOut
  <2>2. CASE SameCall(j, k) /\ j.phase = "send"
    <3>1. Bare(pair) /\ k.order.pair = pair /\ k.n = j.n
      BY <1>10, <2>2 DEF SameCall, FailInv, Unsent
    <3>2. ASSUME NEW tx \in mempool', tx.is_buy, tx.pair = pair
          PROVE  tx.n = j.n
      <4>1. ~ \E old \in mempool : SameTx(old, tx)
        BY <3>1, <3>2 DEF Bare, SameTx
      <4>2. tx = TxOf(j)
        BY <1>1, <4>1, PoolAfter
      <4> QED BY <4>2 DEF TxOf
    <3> QED BY <1>1, <3>1, <3>2 DEF Bare
  <2> QED BY <1>2, <1>10, <2>1, <2>2 DEF TailPhases
<1>11. \A ack \in FailedBuys' :
          \/ ack \in FailedBuys
          \/ /\ j.order.is_buy /\ Settles(j, "FAILED")
             /\ ack = Ack(j, "FAILED")
  <2>1. CASE UNCHANGED execution_report
    BY <2>1 DEF FailedBuys, StageInv
  <2>2. ASSUME NEW status \in TxStatus, Settles(j, status)
        PROVE  \A ack \in FailedBuys' :
                  \/ ack \in FailedBuys
                  \/ /\ j.order.is_buy /\ status = "FAILED"
                     /\ ack = Ack(j, status)
    <3>1. JobOK(j) /\ j.order \in ExecutionOrder /\ j.account \in Accounts
      BY JobFacts
    <3>2. Ack(j, status) \in ExecutionAck
      BY <2>2, <3>1, NoneIsNoBody
         DEF Settles, Running, ChainPhases, JobOK, Ack, ExecutionAck, ExecutionOrder
    <3>3. ToSet(execution_report') = ToSet(execution_report) \cup {Ack(j, status)}
      BY <2>2, <3>2, AppendFacts DEF Settles, IInv, TypeOK, QueuesTypeOK
    <3>4. acked' = acked \cup {Ack(j, status)}
      BY <3>3 DEF StageInv
    <3>5. /\ Ack(j, status).is_buy = j.order.is_buy
          /\ Ack(j, status).tx_status = status
      BY DEF Ack
    <3> QED BY <3>4, <3>5 DEF FailedBuys
  <2> QED BY <2>1, <2>2 DEF Begins, Asks, Sends, Leaves
<1>12. ASSUME NEW ack \in FailedBuys', ~ ack.is_paper
       PROVE  /\ \A tx \in mempool' : tx.is_buy /\ tx.pair = ack.pair => tx.late
              /\ \A b \in Bots : <<b, ack.pair>> \notin tokens'
  <2>1. CASE ack \in FailedBuys
    <3>1. sending => ack.pair # pair
      BY <1>5, <2>1 DEF Done
    <3>2. ASSUME NEW tx \in mempool', tx.is_buy, tx.pair = ack.pair
          PROVE  tx.late
      <4>1. PICK old \in mempool : SameTx(old, tx) /\ old.is_buy /\ old.pair = ack.pair
        BY <1>1, <3>1, <3>2, BuysOnChain
      <4> QED BY <1>12, <2>1, <4>1 DEF FailInv, SameTx
    <3> QED BY <1>1, <1>12, <2>1, <3>2 DEF FailInv
  <2>2. CASE j.order.is_buy /\ Settles(j, "FAILED") /\ ack = Ack(j, "FAILED")
    <3>1. ack.pair = pair /\ ~ j.order.is_paper
      BY <1>12, <2>2 DEF Ack
    <3> QED BY <1>1, <2>2, <3>1, FailedIsFinal
  <2> QED BY <1>11, <2>1, <2>2
<1> HIDE DEF pair, sending
<1> QED BY <1>6, <1>7, <1>9, <1>10, <1>12 DEF FailInv

(* A buy that is mined before its deadline is one that is waited for.      *)
LEMMA FailMine ==
  ASSUME IInv, LinkInv, FailInv, NEW tx \in mempool, Mine(tx),
         UNCHANGED <<execution_broker, untraded, jobs, acked>>
  PROVE  FailInv'
<1>1. mempool' \subseteq mempool /\ receipts \subseteq receipts'
  BY DEF Mine
<1>2. ASSUME NEW b \in Bots, NEW p, <<b, p>> \in tokens', <<b, p>> \notin tokens
      PROVE  /\ tx.is_buy /\ tx.pair = p /\ ~ tx.late
             /\ [n |-> tx.n, status |-> "SUCCESS"] \in receipts'
  BY <1>2 DEF Mine, MaySucceed
<1>3. \A p : Bare(p) => Bare(p)'
  BY <1>1, <1>2 DEF Bare
<1>4. ASSUME NEW j \in jobs, j.order.is_buy, j.phase = "wait"
      PROVE  /\ \A t \in mempool' : t.is_buy /\ t.pair = j.order.pair => t.n = j.n
             /\ ~ CarriedOut(j)' => \A b \in Bots : <<b, j.order.pair>> \notin tokens'
  <2>1. CarriedOut(j) => CarriedOut(j)'
    BY <1>1 DEF CarriedOut
  <2>2. ASSUME NEW b \in Bots, <<b, j.order.pair>> \in tokens',
               <<b, j.order.pair>> \notin tokens
        PROVE  CarriedOut(j)'
    <3>1. tx.n = j.n
      BY <1>2, <1>4, <2>2 DEF FailInv
    <3> QED BY <1>2, <2>2, <3>1 DEF CarriedOut
  <2> QED BY <1>1, <1>4, <2>1, <2>2 DEF FailInv
<1>5. ASSUME NEW ack \in FailedBuys, ~ ack.is_paper
      PROVE  /\ \A t \in mempool' : t.is_buy /\ t.pair = ack.pair => t.late
             /\ \A b \in Bots : <<b, ack.pair>> \notin tokens'
  BY <1>1, <1>2, <1>5 DEF FailInv
<1>6. UNCHANGED FailedBuys
  BY DEF FailedBuys
<1> QED BY <1>3, <1>4, <1>5, <1>6 DEF FailInv

LEMMA NextFails ==
  ASSUME ~ NodeMayFail, RECEIPT_TIMEOUT >= DEADLINE_DELAY_SECONDS,
         IInv, StageInv, LinkInv, OnceInv, FailInv, [Next]_vars
  PROVE  FailInv'
<1>1. CASE UNCHANGED <<execution_broker, untraded, jobs, acked, mempool, receipts, tokens>>
  BY <1>1 DEF FailInv, Bare, CarriedOut, FailedBuys
<1>2. CASE ClientNext
  BY <1>2, FailClient
<1>3. CASE ExecutorProcess(OrderTask)
  <2>1. OrderTask /\ UNCHANGED <<untraded, execution_report>>
        /\ acked' = acked \cup ToSet(execution_report')
    BY <1>3 DEF ExecutorProcess, OrderTask, Submit, DropOrder, ReceiveOrder
  <2>2. UNCHANGED acked
    BY <2>1 DEF StageInv
  <2> QED BY <2>1, <2>2, FailOrderTask
<1>4. CASE ExecutorProcess(\E j \in jobs : Execute(j))
  <2>1. PICK j \in jobs : Execute(j)
    BY <1>4 DEF ExecutorProcess
  <2>2. /\ UNCHANGED <<execution_broker, untraded>>
        /\ acked' = acked \cup ToSet(execution_report')
    BY <1>4, <2>1, ThreadsTyped DEF ThreadStep, ExecutorProcess
  <2> QED BY <2>1, <2>2, KindsOfSteps, FailThread
<1>5. ASSUME UNCHANGED execution_report, acked' = acked \cup ToSet(execution_report')
      PROVE  UNCHANGED acked
  BY <1>5 DEF StageInv
<1>6. CASE ExecutorProcess(AssignBot)
  BY <1>1, <1>5, <1>6 DEF ExecutorProcess, AssignBot, queues, chainVars
<1>7. CASE ExecutorProcess(FactoryTask)
  <2>1. UNCHANGED <<mempool, tokens, receipts>>
    BY <1>7 DEF ExecutorProcess, FactoryTask, FactoryNext, FoundBot, CreateBot, Deploy,
                Create, CreateBotFails, UpdateBot, DatabaseRaises, chainVars
  <2> QED BY <1>1, <1>5, <1>7, <2>1 DEF ExecutorProcess, FactoryTask, queues, threadVars
<1>8. CASE ExecutorProcess(MineTransaction)
  BY <1>5, <1>8, FailMine DEF ExecutorProcess, MineTransaction, queues, threadVars
<1>9. CASE UNCHANGED vars
  BY <1>1, <1>9 DEF vars, queues, chainVars, threadVars, clientVars
<1> QED BY <1>2, <1>3, <1>4, <1>6, <1>7, <1>8, <1>9 DEF Next

(* As long as the node answers, a buy that is acknowledged as failed is    *)
(* never carried out: the deadline of the transaction has passed when      *)
(* execute stops waiting for it, however long it stays in the pool         *)
(* (main.py:408-411, buysell_executor.py:111, 147-161).  Both hypotheses   *)
(* are needed: the run late_buy shows what a call that raises does.        *)
THEOREM FailedBuysAreOver ==
  ASSUME OnePositionPerPair, ~ NodeMayFail,
         RECEIPT_TIMEOUT >= DEADLINE_DELAY_SECONDS
  PROVE  Spec => []FailedBuysLeaveNothing
<1>1. Init => FailInv
  BY InitFails
<1>2. IInv /\ StageInv /\ LinkInv /\ OnceInv /\ FailInv /\ [Next]_vars => FailInv'
  BY NextFails
<1>3. FailInv => FailedBuysLeaveNothing
  BY DEF FailInv, FailedBuysLeaveNothing, FailedBuys
<1>4. Spec => []StageInv
  BY StagesHold
<1> QED BY <1>1, <1>2, <1>3, <1>4, IInvHolds, LinksHold, OnceHolds, PTL DEF Spec
-----------------------------------------------------------------------------
(* Whose bots they are.                                                    *)

Belongs(bot, who) == bot \in Bots /\ who \in Signers /\ bot_owner[bot] = who

\* A message or a position names an account of EXECUTION_KEYS and a bot of its own.
Signed(x) == x.signer \in Accounts /\ Belongs(x.bot, x.signer)

OwnInv ==
  /\ \A row \in ToSet(rows) : Belongs(row.address, row.owner)
  /\ \A row \in ToSet(bot_result_broker) : Belongs(row.address, row.owner)
  /\ \A a \in Accounts : HasBot(a) => Belongs(bot_of[a].address, a)
  /\ \A position \in glb_inventory : Signed(position)
  /\ \A order \in ToSet(execution_broker) : ~ order.is_buy => Signed(order)
  /\ \A ack \in ToSet(execution_report) : Signed(ack)
  /\ \A j \in jobs :
        /\ ~ j.order.is_buy => Signed(j.order)
        /\ j.phase # "queued" => Belongs(j.bot, j.account)
  /\ \A tx \in mempool : Belongs(tx.bot, tx.signer)

\* The database of the start: a bot has one owner, who is an account of
\* EXECUTION_KEYS if a position is open, and signed for it.
BotsHaveOwners ==
  /\ \A i, k \in DOMAIN StoredBots :
        StoredBots[i].address = StoredBots[k].address
           => StoredBots[i].owner = StoredBots[k].owner
  /\ \A i \in DOMAIN StoredBots, p \in OpenPositions :
        StoredBots[i].address = p.bot => StoredBots[i].owner = p.signer
  /\ \A p, q \in OpenPositions : p.bot = q.bot => p.signer = q.signer
  /\ \A p \in OpenPositions : p.signer \in Accounts

(* The owner of a contract that is there stays its owner.                  *)
LEMMA OwnersStay ==
  ASSUME IInv, \E address \in Bots, owner \in Signers : Create(address, owner),
         NEW bot, NEW who, Belongs(bot, who)
  PROVE  Belongs(bot, who)'
<1>1. PICK address \in Bots, owner \in Signers : Create(address, owner)
  OBVIOUS
<1>2. bot_owner \in [Bots -> Signers \cup {None}]
  BY DEF IInv, TypeOK, ChainTypeOK
<1>3. bot_owner[bot] # None
  BY NoneIsNoBody DEF Belongs
<1>4. bot # address
  BY <1>1, <1>3 DEF Create, Deployed, Belongs
<1>5. bot_owner'[bot] = bot_owner[bot]
  BY <1>1, <1>2, <1>4 DEF Create
<1> QED BY <1>5 DEF Belongs

LEMMA InitOwners == BotsHaveOwners /\ Init => OwnInv
<1> SUFFICES ASSUME BotsHaveOwners, Init PROVE OwnInv
  OBVIOUS
<1>1. /\ OpenPositions \subseteq Position
      /\ StoredBots \in Seq(BotRow) /\ rows = StoredBots
      /\ DOMAIN rows = 1 .. Len(rows) /\ \A i \in DOMAIN rows : rows[i] \in BotRow
  BY ExecutionSystemAssumption, BotFactoryAssumption, LenProperties, ElementOfSeq
     DEF Init
<1>2. \A bot \in Bots : bot_owner[bot] = StoredOwner(bot)
  BY DEF Init
<1>3. ASSUME NEW bot, NEW i \in DOMAIN rows, rows[i].address = bot
      PROVE  StoredOwner(bot) = rows[i].owner
  <2> DEFINE stored == {k \in DOMAIN rows : rows[k].address = bot}
  <2>1. stored # {} /\ stored \in SUBSET Nat
    BY <1>1, <1>3
  <2>2. Min(stored) \in stored
    <3> HIDE DEF stored
    <3> QED BY <2>1, MinIsMember
  <2>3. rows[Min(stored)].owner = rows[i].owner
    BY <1>1, <1>3, <2>2 DEF BotsHaveOwners
  <2> QED BY <2>1, <2>3 DEF StoredOwner
<1>4. ASSUME NEW p \in OpenPositions
      PROVE  StoredOwner(p.bot) = p.signer
  <2> DEFINE stored == {k \in DOMAIN rows : rows[k].address = p.bot}
             holding == {q \in OpenPositions : q.bot = p.bot}
  <2>1. CASE stored # {}
    <3>1. PICK i \in DOMAIN rows : rows[i].address = p.bot
      BY <2>1
    <3> QED BY <1>1, <1>3, <3>1 DEF BotsHaveOwners
  <2>2. CASE stored = {}
    <3>1. p \in holding
      OBVIOUS
    <3>2. (CHOOSE q \in holding : TRUE) \in holding
      BY <3>1
    <3>3. (CHOOSE q \in holding : TRUE).signer = p.signer
      BY <3>2 DEF BotsHaveOwners
    <3>4. StoredOwner(p.bot) = (CHOOSE q \in holding : TRUE).signer
      BY <2>2, <3>1 DEF StoredOwner
    <3> QED BY <3>3, <3>4
  <2> QED BY <2>1, <2>2
<1>5. \A row \in ToSet(rows) : Belongs(row.address, row.owner)
  BY <1>1, <1>2, <1>3 DEF ToSet, Belongs, BotRow
<1>6. \A position \in glb_inventory : Signed(position)
  BY <1>1, <1>2, <1>4, NoneIsNoBody DEF Init, Signed, Belongs, Position, BotsHaveOwners
<1>7. /\ bot_result_broker = <<>> /\ execution_broker = <<>> /\ execution_report = <<>>
      /\ jobs = {} /\ mempool = {} /\ \A a \in Accounts : ~ HasBot(a)
  BY DEF Init, ThreadsInit, HasBot
<1> QED BY <1>5, <1>6, <1>7 DEF OwnInv, ToSet

(* The main process passes on the names it was given.                      *)
LEMMA OwnClient ==
  ASSUME IInv, OwnInv, ClientNext
  PROVE  OwnInv'
<1>1. UNCHANGED <<rows, bot_result_broker, bot_of, bot_owner, jobs, mempool>>
  BY DEF ClientNext, SendBuy, SendSell, HandleAck, MainStep, factoryVars, chainVars,
         threadVars
<1>2. /\ \A x : Signed(x) => Signed(x)'
      /\ \A bot, who : Belongs(bot, who) => Belongs(bot, who)'
  BY <1>1 DEF Signed, Belongs
<1> DEFINE Kept ==
             /\ \A position \in glb_inventory' : Signed(position)
             /\ \A order \in ToSet(execution_broker') : ~ order.is_buy => Signed(order)
             /\ \A ack \in ToSet(execution_report') : Signed(ack)
<1>3. Kept
  <2> USE DEF IInv, TypeOK, QueuesTypeOK
  <2>1. ASSUME NEW p \in Pairs, NEW is_paper \in Paper, SendBuy(p, is_paper)
        PROVE  Kept
    <3>1. BuyOrder(p, is_paper) \in ExecutionOrder /\ BuyOrder(p, is_paper).is_buy
      BY OrdersOfMainProcess DEF BuyOrder
    <3>2. ToSet(execution_broker') = ToSet(execution_broker) \cup {BuyOrder(p, is_paper)}
      BY <2>1, <3>1, AppendFacts DEF SendBuy
    <3> QED BY <2>1, <3>1, <3>2 DEF SendBuy, OwnInv
  <2>2. ASSUME NEW position \in glb_inventory, SendSell(position)
        PROVE  Kept
    <3>1. SellOrder(position) \in ExecutionOrder
      BY OrdersOfMainProcess
    <3>2. ToSet(execution_broker') = ToSet(execution_broker) \cup {SellOrder(position)}
      BY <2>2, <3>1, AppendFacts DEF SendSell
    <3>3. Signed(SellOrder(position))
      BY DEF OwnInv, Signed, SellOrder
    <3> QED BY <2>2, <3>2, <3>3 DEF SendSell, OwnInv
  <2>3. CASE HandleAck
    <3> DEFINE ack == Head(execution_report)
    <3>1. /\ ack \in ToSet(execution_report)
          /\ ToSet(execution_report') \subseteq ToSet(execution_report)
      BY <2>3, TailFacts DEF HandleAck
    <3>2. glb_inventory' \subseteq glb_inventory \cup {NewPosition(ack)}
      BY <2>3 DEF HandleAck
    <3> HIDE DEF ack
    <3>3. Signed(NewPosition(ack))
      BY <3>1 DEF OwnInv, Signed, NewPosition
    <3> QED BY <2>3, <3>1, <3>2, <3>3 DEF HandleAck, OwnInv
  <2> QED BY <2>1, <2>2, <2>3 DEF ClientNext
<1> QED BY <1>1, <1>2, <1>3 DEF OwnInv, HasBot

LEMMA OwnOrderTask ==
  ASSUME IInv, OwnInv, OrderTask,
         UNCHANGED glb_inventory
  PROVE  OwnInv'
<1>1. /\ execution_broker \in Seq(ExecutionOrder) /\ execution_broker # <<>>
      /\ execution_broker' = Tail(execution_broker)
      /\ UNCHANGED <<execution_report, rows, bot_result_broker, bot_of, bot_owner, mempool>>
  BY DEF OrderTask, Submit, DropOrder, ReceiveOrder, chainVars, factoryVars, IInv, TypeOK,
         QueuesTypeOK
<1>2. /\ \A x : Signed(x) => Signed(x)'
      /\ \A bot, who : Belongs(bot, who) => Belongs(bot, who)'
  BY <1>1 DEF Signed, Belongs
<1>3. /\ Head(execution_broker) \in ToSet(execution_broker)
      /\ ToSet(execution_broker') \subseteq ToSet(execution_broker)
  BY <1>1, TailFacts
<1>4. \A k \in jobs' :
         k \in jobs \/ (k.phase = "queued" /\ k.order = Head(execution_broker))
  BY DEF OrderTask, Submit, DropOrder
<1> QED BY <1>1, <1>2, <1>3, <1>4 DEF OwnInv, HasBot

(* The bot of an account is used up, or taken away.                        *)
LEMMA BotOfKept ==
  ASSUME IInv, NEW j \in jobs, Execute(j), NEW a \in Accounts, HasBot(a)'
  PROVE  HasBot(a) /\ bot_of'[a].address = bot_of[a].address
<1> USE DEF IInv, TypeOK, ThreadsTypeOK
<1>1. j.account \in Accounts
  BY JobFacts
<1>2. CASE UNCHANGED bot_of
  BY <1>2 DEF HasBot
<1>3. CASE CountUse(j)
  <2>1. bot_of[j.account] \in BotRow
    BY <1>1, <1>3, BotOfFacts DEF CountUse
  <2>2. Used(bot_of[j.account], j.status).address = bot_of[j.account].address
    BY <2>1 DEF Used, BotRow
  <2>3. bot_of' = [bot_of EXCEPT ![j.account] = Used(@, j.status)] /\ HasBot(j.account)
    BY <1>3 DEF CountUse
  <2> QED BY <1>1, <2>2, <2>3 DEF HasBot
<1>4. CASE ReplaceBot(j)
  BY <1>1, <1>4 DEF ReplaceBot, HasBot
<1>5. CASE Start(j) \/ StartRaises(j) \/ Simulate(j) \/ GetNonce(j) \/ Send(j)
  BY <1>2, <1>5 DEF Start, StartRaises, Simulate, GetNonce, Send
<1>6. CASE SendRefused(j) \/ GetReceipt(j) \/ Timeout(j) \/ NodeRaises(j)
  BY <1>2, <1>6 DEF SendRefused, GetReceipt, Timeout, NodeRaises, Acknowledge
<1>7. CASE NoBotLeft(j) \/ TellFactory(j) \/ RequestBot(j)
  BY <1>2, <1>7 DEF NoBotLeft, TellFactory, RequestBot
<1> QED BY <1>3, <1>4, <1>5, <1>6, <1>7 DEF Execute, Proceeds

(* A call uses a bot of the account that signs.                            *)
LEMMA OwnCalls ==
  ASSUME IInv, OwnInv, NEW j \in jobs,
         Begins(j) \/ Asks(j) \/ Sends(j) \/ Leaves(j)
           \/ \E status \in TxStatus : Settles(j, status),
         NEW k \in jobs'
  PROVE  /\ ~ k.order.is_buy => Signed(k.order)
         /\ k.phase # "queued" => Belongs(k.bot, k.account)
<1>1. JobOK(j) /\ j.account \in Accounts
  BY JobFacts
<1>2. CASE k \in jobs
  BY <1>2 DEF OwnInv
<1>3. CASE Begins(j) /\ k \notin jobs
  <2>1. /\ SameCall(j, k)
        /\ k.bot = IF j.order.bot # None THEN j.order.bot ELSE bot_of[j.account].address
        /\ j.order.bot # None \/ HasBot(j.account)
    BY <1>3 DEF Begins
  <2>2. ~ j.order.is_buy => Signed(j.order)
    BY DEF OwnInv
  <2>3. CASE j.order.bot # None
    BY <1>1, <2>1, <2>2, <2>3 DEF JobOK, Shaped, Signed, SameCall
  <2>4. CASE j.order.bot = None
    BY <1>1, <2>1, <2>2, <2>4 DEF OwnInv, SameCall
  <2> QED BY <2>3, <2>4
<1>4. CASE (Asks(j) \/ Sends(j)) /\ k \notin jobs
  <2>1. SameCall(j, k) /\ k.bot = j.bot /\ j.phase # "queued"
    BY <1>4 DEF Asks, Sends, Advances
  <2> QED BY <2>1 DEF OwnInv, SameCall
<1>5. CASE (\E status \in TxStatus : Settles(j, status)) /\ k \notin jobs
  <2>1. SameCall(j, k) /\ k.bot = j.bot /\ j.phase # "queued"
    BY <1>5 DEF Settles, Advances, Running, ChainPhases
  <2> QED BY <2>1 DEF OwnInv, SameCall
<1>6. CASE Leaves(j) /\ k \notin jobs
  <2>1. SameCall(j, k) /\ k.bot = j.bot /\ j.phase # "queued"
    BY <1>6 DEF Leaves, Advances, Returns
  <2> QED BY <2>1 DEF OwnInv, SameCall
<1> QED BY <1>2, <1>3, <1>4, <1>5, <1>6

LEMMA OwnThread ==
  ASSUME IInv, OwnInv, NEW j \in jobs, Execute(j),
         Begins(j) \/ Asks(j) \/ Sends(j) \/ Leaves(j)
           \/ \E status \in TxStatus : Settles(j, status),
         UNCHANGED glb_inventory
  PROVE  OwnInv'
<1>1. JobOK(j) /\ j.account \in Accounts /\ j.order \in ExecutionOrder
  BY JobFacts
<1>2. UNCHANGED <<execution_broker, rows, bot_result_broker, bot_owner>>
  BY ThreadsTyped, KindsTouchChain DEF ThreadStep
<1>3. /\ \A x : Signed(x) => Signed(x)'
      /\ \A bot, who : Belongs(bot, who) => Belongs(bot, who)'
  BY <1>2 DEF Signed, Belongs
<1>4. ASSUME NEW a \in Accounts, HasBot(a)'
      PROVE  Belongs(bot_of'[a].address, a)
  BY <1>4, BotOfKept DEF OwnInv
<1>5. ASSUME NEW ack \in ToSet(execution_report')
      PROVE  Signed(ack)
  <2>1. CASE \E status \in TxStatus : Settles(j, status)
    <3>1. PICK status \in TxStatus : Settles(j, status)
      BY <2>1
    <3>2. j.phase # "queued"
      BY <3>1 DEF Settles, Running, ChainPhases
    <3>3. Belongs(j.bot, j.account) /\ j.bot \in Bots
      BY <3>2 DEF OwnInv, Belongs
    <3>4. Ack(j, status) \in ExecutionAck /\ Signed(Ack(j, status))
      BY <1>1, <3>3, NoneIsNoBody DEF Ack, ExecutionAck, ExecutionOrder, Signed
    <3>5. execution_report \in Seq(ExecutionAck)
      BY DEF IInv, TypeOK, QueuesTypeOK
    <3>6. ToSet(execution_report') = ToSet(execution_report) \cup {Ack(j, status)}
      BY <3>1, <3>4, <3>5, AppendFacts DEF Settles
    <3> QED BY <1>5, <3>4, <3>6 DEF OwnInv
  <2>2. CASE UNCHANGED execution_report
    BY <1>5, <2>2 DEF OwnInv
  <2> QED BY <2>1, <2>2 DEF Begins, Asks, Sends, Leaves
<1>6. ASSUME NEW k \in jobs'
      PROVE  /\ ~ k.order.is_buy => Signed(k.order)
             /\ k.phase # "queued" => Belongs(k.bot, k.account)
  BY <1>6, OwnCalls
<1>7. ASSUME NEW tx \in mempool'
      PROVE  Belongs(tx.bot, tx.signer)
  <2>1. CASE \E old \in mempool : SameTx(old, tx)
    BY <2>1 DEF SameTx, OwnInv
  <2>2. CASE j.phase = "send" /\ tx = TxOf(j)
    BY <2>2 DEF TxOf, OwnInv
  <2> QED BY <2>1, <2>2, KindsTouchChain, PoolAfter
<1>8. /\ \A row \in ToSet(rows) : Belongs(row.address, row.owner)
      /\ \A row \in ToSet(bot_result_broker) : Belongs(row.address, row.owner)
      /\ \A position \in glb_inventory : Signed(position)
      /\ \A order \in ToSet(execution_broker) : ~ order.is_buy => Signed(order)
  BY DEF OwnInv
<1> QED BY <1>2, <1>3, <1>4, <1>5, <1>6, <1>7, <1>8 DEF OwnInv

(* A result goes to its owner.                                             *)
LEMMA OwnAssignBot ==
  ASSUME IInv, OwnInv, AssignBot, UNCHANGED glb_inventory
  PROVE  OwnInv'
<1> DEFINE result == Head(bot_result_broker)
<1>1. /\ bot_result_broker \in Seq(BotRow) /\ bot_result_broker # <<>>
      /\ bot_result_broker' = Tail(bot_result_broker)
      /\ bot_of' = [a \in Accounts |-> IF Wants(a, result) THEN result ELSE bot_of[a]]
      /\ UNCHANGED <<execution_broker, execution_report, rows, bot_owner, jobs, mempool>>
  BY DEF AssignBot, queues, chainVars, IInv, TypeOK, FactoryTypeOK
<1>2. /\ result \in ToSet(bot_result_broker)
      /\ ToSet(bot_result_broker') \subseteq ToSet(bot_result_broker)
  BY <1>1, TailFacts
<1> HIDE DEF result
<1>3. /\ \A x : Signed(x) => Signed(x)'
      /\ \A bot, who : Belongs(bot, who) => Belongs(bot, who)'
  BY <1>1 DEF Signed, Belongs
<1>4. ASSUME NEW a \in Accounts, HasBot(a)'
      PROVE  Belongs(bot_of'[a].address, a)
  <2>1. CASE Wants(a, result)
    BY <1>1, <1>2, <2>1 DEF Wants, OwnInv
  <2>2. CASE ~ Wants(a, result)
    BY <1>1, <1>4, <2>2 DEF HasBot, OwnInv
  <2> QED BY <2>1, <2>2
<1> QED BY <1>1, <1>2, <1>3, <1>4 DEF OwnInv

(* A new bot is its owner's from the start, and what is in the table is    *)
(* only read and counted.                                                  *)
LEMMA OwnFactory ==
  ASSUME IInv, OwnInv, FactoryTask, UNCHANGED glb_inventory
  PROVE  OwnInv'
<1> USE DEF IInv, TypeOK, FactoryTypeOK
<1>1. /\ FactoryNext
      /\ UNCHANGED <<execution_broker, execution_report, bot_of, jobs>>
  BY DEF FactoryTask, queues, threadVars
<1>2. UNCHANGED chainVars \/ \E address \in Bots, owner \in Signers : Create(address, owner)
  <2>1. \A address, owner : CreateBot(address, owner) => Create(address, owner)
    BY DEF CreateBot, Deploy
  <2>2. CreateBotFails =>
           UNCHANGED chainVars \/ \E address \in Bots, owner \in Signers : Create(address, owner)
    <3>1. Handles("create") => Head(bot_order_broker).owner \in Signers
      BY TailFacts, CreationOrders, NoneIsNoBody DEF Handles
    <3> QED BY <3>1 DEF CreateBotFails, Deploy
  <2>3. DatabaseRaises =>
           UNCHANGED chainVars \/ \E address \in Bots, owner \in Signers : Create(address, owner)
    BY NoneIsNoBody DEF DatabaseRaises, Deploy
  <2> QED BY <1>1, <2>1, <2>2, <2>3, NoneIsNoBody DEF FactoryNext, FoundBot, UpdateBot
<1>3. \A bot, who : Belongs(bot, who) => Belongs(bot, who)'
  <2>1. CASE UNCHANGED chainVars
    BY <2>1 DEF Belongs, chainVars
  <2>2. CASE \E address \in Bots, owner \in Signers : Create(address, owner)
    BY <2>2, OwnersStay
  <2> QED BY <1>2, <2>1, <2>2
<1>4. UNCHANGED mempool
  BY <1>2 DEF chainVars, Create
<1> DEFINE Right(row) == Belongs(row.address, row.owner)
<1>5. /\ \A row \in ToSet(rows) : Right(row)'
      /\ \A row \in ToSet(bot_result_broker) : Right(row)'
  BY <1>3 DEF OwnInv
<1>6. CASE FoundBot
  <2> DEFINE available == Available(Head(bot_order_broker).owner)
  <2>1. DOMAIN rows = 1 .. Len(rows) /\ Len(rows) \in Nat
    BY LenProperties
  <2>2. available \subseteq DOMAIN rows /\ available # {}
    BY <1>6 DEF FoundBot, Available
  <2>3. Min(available) \in DOMAIN rows
    <3> HIDE DEF available
    <3>1. available \in SUBSET Nat
      BY <2>1, <2>2
    <3> QED BY <2>2, <3>1, MinIsMember
  <2>4. /\ rows[Min(available)] \in ToSet(rows)
        /\ rows[Min(available)] \in BotRow
    BY <2>1, <2>3, ElementOfSeq DEF ToSet
  <2>5. /\ ToSet(bot_result_broker')
             = ToSet(bot_result_broker) \cup {rows[Min(available)]}
        /\ UNCHANGED rows
    BY <1>6, <2>4, AppendFacts DEF FoundBot
  <2>6. \A row \in ToSet(bot_result_broker') : Right(row)'
    <3> HIDE DEF Right, available
    <3> QED BY <1>5, <2>4, <2>5
  <2> QED BY <1>1, <1>3, <1>4, <1>5, <2>5, <2>6 DEF OwnInv, Signed, HasBot
<1>7. ASSUME NEW address \in Bots, NEW owner \in Accounts, CreateBot(address, owner)
      PROVE  OwnInv'
  <2> DEFINE row == NewBot(address, owner)
  <2>1. row \in BotRow /\ row.address = address /\ row.owner = owner
    BY NoneIsNoBody DEF NewBot, BotRow
  <2>2. bot_owner'[address] = owner
    BY <1>7 DEF CreateBot, Deploy, Create, ChainTypeOK
  <2> HIDE DEF row
  <2>3. Right(row)'
    BY <2>1, <2>2, NoneIsNoBody DEF Belongs
  <2>4. /\ ToSet(rows') = ToSet(rows) \cup {row}
        /\ ToSet(bot_result_broker') = ToSet(bot_result_broker) \cup {row}
    BY <1>7, <2>1, AppendFacts DEF CreateBot, row
  <2>5. /\ \A r \in ToSet(rows') : Right(r)'
        /\ \A r \in ToSet(bot_result_broker') : Right(r)'
    <3> HIDE DEF Right
    <3> QED BY <1>5, <2>3, <2>4
  <2> QED BY <1>1, <1>3, <1>4, <2>5 DEF OwnInv, Signed, HasBot
<1>8. CASE UpdateBot
  <2>1. ASSUME NEW row \in ToSet(rows')
        PROVE  Right(row)'
    <3>1. DOMAIN rows' = DOMAIN rows
      BY <1>8 DEF UpdateBot
    <3>2. PICK i \in DOMAIN rows : row = rows'[i]
      BY <2>1, <3>1 DEF ToSet
    <3>3. rows[i] \in BotRow /\ rows[i] \in ToSet(rows)
      BY LenProperties, ElementOfSeq DEF ToSet
    <3>4. row.address = rows[i].address /\ row.owner = rows[i].owner
      BY <1>8, <3>2, <3>3 DEF UpdateBot, Booked, BotRow
    <3> QED BY <1>5, <3>3, <3>4
  <2> QED BY <1>1, <1>3, <1>4, <1>5, <1>8, <2>1 DEF UpdateBot, OwnInv, Signed, HasBot
<1>9. CASE CreateBotFails \/ DatabaseRaises
  <2>1. UNCHANGED <<rows, bot_result_broker>>
    BY <1>9 DEF CreateBotFails, DatabaseRaises
  <2> QED BY <1>1, <1>3, <1>4, <1>5, <2>1 DEF OwnInv, Signed, HasBot
<1> QED BY <1>1, <1>6, <1>7, <1>8, <1>9 DEF FactoryNext

LEMMA NextOwns ==
  ASSUME IInv, OwnInv, [Next]_vars
  PROVE  OwnInv'
<1>1. CASE ClientNext
  BY <1>1, OwnClient
<1>2. CASE ExecutorProcess(OrderTask)
  BY <1>2, OwnOrderTask DEF ExecutorProcess
<1>3. CASE ExecutorProcess(\E j \in jobs : Execute(j))
  BY <1>3, KindsOfSteps, OwnThread DEF ExecutorProcess
<1>4. CASE ExecutorProcess(AssignBot)
  BY <1>4, OwnAssignBot DEF ExecutorProcess
<1>5. CASE ExecutorProcess(FactoryTask)
  BY <1>5, OwnFactory DEF ExecutorProcess
<1>6. CASE ExecutorProcess(MineTransaction)
  <2>1. /\ UNCHANGED <<queues, factoryVars, threadVars, glb_inventory, bot_owner>>
        /\ mempool' \subseteq mempool
    BY <1>6 DEF ExecutorProcess, MineTransaction, Mine
  <2> QED BY <2>1 DEF OwnInv, Signed, Belongs, HasBot, queues, factoryVars, threadVars
<1>7. CASE UNCHANGED vars
  BY <1>7 DEF vars, queues, factoryVars, threadVars, chainVars, clientVars, OwnInv, Signed,
              Belongs, HasBot
<1> QED BY <1>1, <1>2, <1>3, <1>4, <1>5, <1>6, <1>7 DEF Next

(* A transaction is signed by the owner of the bot it calls, whatever bots *)
(* the accounts are given, use up and exchange while orders are under way, *)
(* if the database of the start agrees with the chain on who owns what     *)
(* (buysell_executor.py:91, 126, 237, bot_factory.py:108-121).             *)
THEOREM OwnersSign ==
  ASSUME BotsHaveOwners
  PROVE  Spec => []SignedByOwner
<1>1. Init => OwnInv
  BY InitOwners
<1>2. IInv /\ OwnInv /\ [Next]_vars => OwnInv'
  BY NextOwns
<1>3. OwnInv => SignedByOwner
  BY DEF OwnInv, SignedByOwner, Belongs
<1> QED BY <1>1, <1>2, <1>3, IInvHolds, PTL DEF Spec

-----------------------------------------------------------------------------
(* The books of one account.                                               *)

\* The program with one key: one account, and a pool with one thread.
OneAccount == \A a, b \in Accounts : a = b

Started == {j \in jobs : j.phase # "queued"}

\* The pool has a thread per account.
OneThread == \A j, k \in Started : j = k

Updates == {order \in BotOrder : order.type = "update"}
SellsWith(bot) == {order \in Updates : order.bot = bot /\ ~ order.is_buy}

\* What a row will be when the orders have been worked off.
DueNumber(row, orders) ==
  row.number_used + Cardinality(IndicesOf(orders, SellsWith(row.address)))
DueFailed(row, orders) ==
  \/ row.is_failed
  \/ \E order \in SellsWith(row.address) :
        order \in ToSet(orders) /\ order.tx_status # "SUCCESS"

\* It will be what the account takes the bot for.
AgreesWith(row, orders, bot) ==
  /\ row.address = bot.address /\ row.owner = bot.owner
  /\ DueNumber(row, orders) = bot.number_used
  /\ DueFailed(row, orders) <=> bot.is_failed

\* The factory has been told of a sell that the account is about to count.
InStep(row, a) ==
  /\ \A j \in jobs : j.phase = "count" =>
        AgreesWith(row, bot_order_broker, Used(bot_of[a], j.status))
  /\ (\A j \in jobs : j.phase # "count") => AgreesWith(row, bot_order_broker, bot_of[a])

OwnBooks(a) ==
  /\ bot_result_broker = <<>>
  /\ \A order \in ToSet(bot_order_broker) :
        order \in Updates /\ order.bot = bot_of[a].address
  /\ \A j \in jobs : j.phase # "request"
  /\ \E row \in ToSet(rows) : InStep(row, a)
  /\ WornOut(bot_of[a]) <=> \E j \in jobs : j.phase = "replace"

\* The last order asks for a bot, and none before it does.
AsksOnce(a) ==
  LET n == Len(bot_order_broker) IN
  /\ n > 0 /\ bot_order_broker[n] = BotCreationOrder(a)
  /\ \A k \in 1 .. n - 1 : bot_order_broker[k] \in Updates

\* The account has no bot: there is one request for one, before, in or behind the
\* factory.
Renewal(a) ==
  /\ \A j \in jobs : j.phase \notin {"count", "replace"}
  /\ \/ /\ \E j \in jobs : j.phase = "request"
        /\ ToSet(bot_order_broker) \subseteq Updates
        /\ bot_result_broker = <<>>
     \/ /\ \A j \in jobs : j.phase # "request"
        /\ AsksOnce(a)
        /\ bot_result_broker = <<>>
     \/ /\ \A j \in jobs : j.phase # "request"
        /\ bot_order_broker = <<>>
        /\ \E row \in ToSet(rows) :
              /\ bot_result_broker = <<row>>
              /\ row.owner = a /\ ~ WornOut(row)

BooksOf(a) ==
  /\ HasBot(a) => OwnBooks(a)
  /\ ~ HasBot(a) => Renewal(a)

BooksInv == \A a \in Accounts : BooksOf(a)

\* UpdateBot does this to a row (bot_factory.py:137-140).
AfterHead(row, orders) ==
  IF Head(orders) \in SellsWith(row.address) THEN Booked(row, Head(orders).tx_status)
  ELSE row

LEMMA UsedFields ==
  ASSUME NEW bot \in BotRow, NEW status
  PROVE  /\ Used(bot, status) = Booked(bot, status)
         /\ Used(bot, status) \in BotRow
         /\ Used(bot, status).address = bot.address
         /\ Used(bot, status).owner = bot.owner
         /\ Used(bot, status).number_used = bot.number_used + 1
         /\ Used(bot, status).is_failed <=> bot.is_failed \/ status # "SUCCESS"
<1> DEFINE used == bot.number_used + 1
           failed == bot.is_failed \/ status # "SUCCESS"
<1>1. /\ Used(bot, status) = [bot EXCEPT !.number_used = used, !.is_failed = failed]
      /\ Booked(bot, status) = [bot EXCEPT !.number_used = used, !.is_failed = failed]
  BY DEF Used, Booked
<1>2. Booked(bot, status) \in BotRow
  BY BookedTyped
<1>3. bot.is_failed \in BOOLEAN /\ failed \in BOOLEAN
  BY DEF BotRow
<1> HIDE DEF failed
<1>4. /\ Used(bot, status).address = bot.address
      /\ Used(bot, status).owner = bot.owner
      /\ Used(bot, status).number_used = used
      /\ Used(bot, status).is_failed = failed
  BY <1>1 DEF BotRow
<1>5. Used(bot, status) = Booked(bot, status)
  BY <1>1
<1> QED BY <1>2, <1>3, <1>4, <1>5 DEF failed

(* What a row will be does not change when an order is worked off, but     *)
(* only when the factory is told of a sell.                                *)
LEMMA DueAfterHead ==
  ASSUME NEW row \in BotRow, NEW orders \in Seq(BotOrder), orders # <<>>
  PROVE  /\ AfterHead(row, orders) \in BotRow
         /\ AfterHead(row, orders).address = row.address
         /\ AfterHead(row, orders).owner = row.owner
         /\ DueNumber(AfterHead(row, orders), Tail(orders)) = DueNumber(row, orders)
         /\ DueFailed(AfterHead(row, orders), Tail(orders)) <=> DueFailed(row, orders)
<1> DEFINE order == Head(orders)
           sells == SellsWith(row.address)
           next == AfterHead(row, orders)
<1>1. /\ next \in BotRow /\ next.address = row.address /\ next.owner = row.owner
      /\ next.number_used = row.number_used + IF order \in sells THEN 1 ELSE 0
      /\ next.is_failed <=> row.is_failed \/ (order \in sells /\ order.tx_status # "SUCCESS")
  <2>1. CASE order \in sells
    <3>1. next = Used(row, order.tx_status)
      BY <2>1, UsedFields DEF AfterHead
    <3> HIDE DEF next, order
    <3> QED BY <2>1, <3>1, UsedFields
  <2>2. CASE order \notin sells
    <3>1. next = row /\ row.number_used \in Nat
      BY <2>2 DEF AfterHead, BotRow
    <3> HIDE DEF next, order
    <3> QED BY <2>2, <3>1
  <2> QED BY <2>1, <2>2
<1>2. /\ Tail(orders) \in Seq(BotOrder)
      /\ ToSet(orders) = {order} \cup ToSet(Tail(orders))
  BY TailFacts
<1>3. /\ Cardinality(IndicesOf(orders, sells))
           = Cardinality(IndicesOf(Tail(orders), sells)) + IF order \in sells THEN 1 ELSE 0
      /\ Cardinality(IndicesOf(Tail(orders), sells)) \in Nat
  BY <1>2, TailIndices, IndicesFinite
<1>4. row.number_used \in Nat
  BY DEF BotRow
<1> HIDE DEF next, order
<1>5. DueNumber(next, Tail(orders)) = DueNumber(row, orders)
  BY <1>1, <1>3, <1>4 DEF DueNumber
<1>6. DueFailed(next, Tail(orders)) <=> DueFailed(row, orders)
  BY <1>1, <1>2 DEF DueFailed
<1> QED BY <1>1, <1>5, <1>6 DEF next

LEMMA DueAppend ==
  ASSUME NEW row \in BotRow, NEW orders \in Seq(BotOrder), NEW order \in BotOrder
  PROVE  /\ DueNumber(row, orders) \in Nat
         /\ DueNumber(row, Append(orders, order))
              = DueNumber(row, orders) + IF order \in SellsWith(row.address) THEN 1 ELSE 0
         /\ DueFailed(row, Append(orders, order))
              <=> \/ DueFailed(row, orders)
                  \/ order \in SellsWith(row.address) /\ order.tx_status # "SUCCESS"
<1> DEFINE sells == SellsWith(row.address)
<1>1. /\ Cardinality(IndicesOf(Append(orders, order), sells))
           = Cardinality(IndicesOf(orders, sells)) + IF order \in sells THEN 1 ELSE 0
      /\ Cardinality(IndicesOf(orders, sells)) \in Nat
      /\ ToSet(Append(orders, order)) = ToSet(orders) \cup {order}
  BY AppendIndices, IndicesFinite, AppendFacts
<1>2. row.number_used \in Nat
  BY DEF BotRow
<1>3. DueFailed(row, Append(orders, order))
        <=> DueFailed(row, orders) \/ (order \in sells /\ order.tx_status # "SUCCESS")
  BY <1>1 DEF DueFailed
<1> QED BY <1>1, <1>2, <1>3 DEF DueNumber

LEMMA DueNow ==
  ASSUME NEW row \in BotRow
  PROVE  DueNumber(row, <<>>) = row.number_used /\ (DueFailed(row, <<>>) <=> row.is_failed)
<1>1. IndicesOf(<<>>, SellsWith(row.address)) = {} /\ ToSet(<<>>) = {}
  BY DEF IndicesOf, ToSet
<1>2. row.number_used \in Nat /\ Cardinality(IndicesOf(<<>>, SellsWith(row.address))) = 0
  BY <1>1, FS_EmptySet DEF BotRow
<1>3. DueNumber(row, <<>>) = row.number_used
  BY <1>2 DEF DueNumber
<1>4. DueFailed(row, <<>>) <=> row.is_failed
  BY <1>1 DEF DueFailed
<1> QED BY <1>3, <1>4

-----------------------------------------------------------------------------
(* One thread.                                                             *)

LEMMA OneKey == OneAccount => Len(Keys) = 1
<1> SUFFICES ASSUME OneAccount PROVE Len(Keys) = 1
  OBVIOUS
<1>1. /\ Len(Keys) \in Nat \ {0} /\ DOMAIN Keys = 1 .. Len(Keys)
      /\ \A i \in 1 .. Len(Keys) : Keys[i] \in Accounts
      /\ IsInjective(Keys)
  BY KeysAreAccounts, ExecutorAssumption, LenProperties
<1>2. SUFFICES ASSUME Len(Keys) # 1 PROVE FALSE
  OBVIOUS
<1>3. 1 \in 1 .. Len(Keys) /\ 2 \in 1 .. Len(Keys)
  BY <1>1, <1>2
<1>4. Keys[1] = Keys[2]
  BY <1>1, <1>3 DEF OneAccount
<1> QED BY <1>1, <1>3, <1>4 DEF IsInjective

LEMMA QueuedMayStart ==
  ASSUME NEW j, Execute(j), j.phase = "queued"
  PROVE  MayStart(j)
BY DEF Execute, Proceeds, Start, StartRaises, Simulate, GetNonce, Send, SendRefused,
       GetReceipt, Timeout, TimesOut, NoBotLeft, TellFactory, CountUse, ReplaceBot,
       RequestBot, NodeRaises, ChainPhases

(* The thread that is at work is the only one.                             *)
LEMMA Alone ==
  ASSUME OneAccount, OneThread, NEW j \in jobs, Execute(j)
  PROVE  \A k \in jobs \ {j} : k.phase = "queued"
<1>1. CASE j.phase # "queued"
  BY <1>1 DEF OneThread, Started
<1>2. CASE j.phase = "queued"
  <2>1. Started = jobs \ Queued
    BY DEF Started, Queued
  <2>2. Cardinality(Started) < 1
    BY <1>2, <2>1, OneKey, QueuedMayStart DEF MayStart
  <2>3. Started = {}
    <3> SUFFICES ASSUME NEW k \in Started PROVE FALSE
      OBVIOUS
    <3>1. Started = {k}
      BY DEF OneThread
    <3> QED BY <2>2, <3>1, FS_Singleton
  <2> QED BY <2>3 DEF Started
<1> QED BY <1>1, <1>2

LEMMA NextOneThread ==
  ASSUME OneAccount, IInv, IInv', OneThread, [Next]_vars
  PROVE  OneThread'
<1>1. CASE \A k \in jobs' : k \in jobs \/ k.phase = "queued"
  BY <1>1 DEF OneThread, Started
<1>2. CASE ExecutorProcess(\E j \in jobs : Execute(j))
  <2>1. PICK j \in jobs : Execute(j)
    BY <1>2 DEF ExecutorProcess
  <2>2. \A k \in jobs' : k \in jobs \ {j} \/ k.n = j.n
    BY <2>1, KindsOfSteps, KindsTouchCalls DEF SameCall
  <2>3. \A k \in jobs' : k.phase # "queued" => k.n = j.n
    BY <2>1, <2>2, Alone
  <2> QED BY <2>3 DEF OneThread, Started, IInv, JobsConsistent
<1>3. CASE ClientNext
  BY <1>1, <1>3 DEF ClientNext, SendBuy, SendSell, HandleAck, MainStep, threadVars
<1>4. CASE ExecutorProcess(OrderTask)
  BY <1>1, <1>4 DEF ExecutorProcess, OrderTask, Submit, DropOrder
<1>5. CASE ExecutorProcess(AssignBot) \/ ExecutorProcess(FactoryTask)
             \/ ExecutorProcess(MineTransaction)
  BY <1>1, <1>5 DEF ExecutorProcess, AssignBot, FactoryTask, MineTransaction, threadVars
<1>6. CASE UNCHANGED vars
  BY <1>1, <1>6 DEF vars, threadVars
<1> QED BY <1>2, <1>3, <1>4, <1>5, <1>6 DEF Next

-----------------------------------------------------------------------------
(* The books are kept.                                                     *)

LEMMA InitBooks == OneAccount /\ Init => BooksInv
<1> SUFFICES ASSUME OneAccount, Init, NEW a \in Accounts PROVE BooksOf(a)
  BY DEF BooksInv
<1>1. jobs = {} /\ ~ HasBot(a) /\ bot_result_broker = <<>>
  BY DEF Init, ThreadsInit, HasBot
<1>2. bot_order_broker \in Seq(BotOrder)
  BY InitIInv DEF IInv, TypeOK, FactoryTypeOK
<1>3. /\ DOMAIN Keys = 1 .. 1 /\ DOMAIN bot_order_broker = 1 .. Len(bot_order_broker)
      /\ Len(bot_order_broker) \in Nat /\ Keys[1] \in Accounts
  BY <1>2, OneKey, KeysAreAccounts, LenProperties
<1>4. /\ DOMAIN bot_order_broker = DOMAIN Keys
      /\ bot_order_broker[1] = BotCreationOrder(Keys[1])
  BY <1>3 DEF Init
<1>5. Len(bot_order_broker) = 1
  <2> DEFINE n == Len(bot_order_broker)
  <2>1. 1 .. n = 1 .. 1 /\ n \in Nat
    BY <1>3, <1>4
  <2> HIDE DEF n
  <2>2. 1 \in 1 .. n
    BY <2>1
  <2>3. n \in 1 .. 1
    BY <2>1, <2>2
  <2> QED BY <2>3 DEF n
<1>6. Keys[1] = a
  BY <1>3 DEF OneAccount
<1>7. AsksOnce(a)
  BY <1>4, <1>5, <1>6 DEF AsksOnce
<1> QED BY <1>1, <1>7 DEF BooksOf, Renewal

(* The order at the head of the queue, and what is known of the last one.  *)
LEMMA OrderFacts ==
  ASSUME IInv, bot_order_broker # <<>>
  PROVE  LET n == Len(bot_order_broker)
             rest == Tail(bot_order_broker) IN
         /\ bot_order_broker \in Seq(BotOrder)
         /\ Head(bot_order_broker) = bot_order_broker[1]
         /\ Head(bot_order_broker) \in BotOrder
         /\ ToSet(bot_order_broker) = {Head(bot_order_broker)} \cup ToSet(rest)
         /\ n \in Nat \ {0}
         /\ rest \in Seq(BotOrder) /\ Len(rest) = n - 1
         /\ \A k \in 1 .. n - 1 : rest[k] = bot_order_broker[k + 1]
         /\ n = 1 => rest = <<>>
<1>1. bot_order_broker \in Seq(BotOrder)
  BY DEF IInv, TypeOK, FactoryTypeOK
<1>2. /\ Tail(bot_order_broker) \in Seq(BotOrder)
      /\ Len(Tail(bot_order_broker)) = Len(bot_order_broker) - 1
      /\ \A k \in 1 .. Len(Tail(bot_order_broker)) :
            Tail(bot_order_broker)[k] = bot_order_broker[k + 1]
  BY <1>1, HeadTailProperties
<1>3. Len(bot_order_broker) = 1 => Len(Tail(bot_order_broker)) = 0
  BY <1>2
<1>4. Len(Tail(bot_order_broker)) = 0 => Tail(bot_order_broker) = <<>>
  BY <1>2, EmptySeq
<1> QED BY <1>1, <1>2, <1>3, <1>4, TailFacts

\* Nobody but an account without a bot asks for one.
LEMMA CreateComesLast ==
  ASSUME IInv, NEW a \in Accounts, BooksOf(a), Handles("create")
  PROVE  /\ ~ HasBot(a) /\ AsksOnce(a)
         /\ \A j \in jobs : j.phase \notin {"count", "replace", "request"}
         /\ bot_result_broker = <<>>
         /\ Len(bot_order_broker) = 1 /\ Tail(bot_order_broker) = <<>>
         /\ bot_order_broker = <<Head(bot_order_broker)>>
         /\ Head(bot_order_broker) = BotCreationOrder(a)
<1> DEFINE order == Head(bot_order_broker)
<1>1. bot_order_broker # <<>> /\ order.type = "create"
  BY DEF Handles
<1>2. order \in ToSet(bot_order_broker) /\ order \notin Updates
  BY <1>1, OrderFacts DEF Updates
<1>3. ~ HasBot(a)
  BY <1>2 DEF BooksOf, OwnBooks
<1>4. Renewal(a)
  BY <1>3 DEF BooksOf
<1>5. /\ AsksOnce(a) /\ bot_result_broker = <<>>
      /\ \A j \in jobs : j.phase \notin {"count", "replace", "request"}
  BY <1>1, <1>2, <1>4 DEF Renewal
<1>6. Len(bot_order_broker) = 1
  BY <1>1, <1>2, <1>5, OrderFacts DEF AsksOnce
<1>7. Tail(bot_order_broker) = <<>> /\ order = BotCreationOrder(a)
  BY <1>1, <1>5, <1>6, OrderFacts DEF AsksOnce
<1>8. bot_order_broker = <<order>>
  <2>1. /\ bot_order_broker \in Seq(BotOrder)
        /\ bot_order_broker[1] = order
    BY <1>1, OrderFacts
  <2> HIDE DEF order
  <2>2. Len(<<order>>) = 1 /\ <<order>>[1] = order
    OBVIOUS
  <2> QED BY <1>6, <2>1, <2>2
<1> QED BY <1>3, <1>5, <1>6, <1>7, <1>8

LEMMA UpdateMaps ==
  ASSUME IInv, UpdateBot
  PROVE  /\ DOMAIN rows' = DOMAIN rows
         /\ \A i \in DOMAIN rows :
               rows[i] \in BotRow /\ rows'[i] = AfterHead(rows[i], bot_order_broker)
<1> DEFINE order == Head(bot_order_broker)
<1>1. order \in BotOrder /\ order.type = "update"
  BY OrderFacts DEF UpdateBot, Handles
<1>2. rows' = [i \in DOMAIN rows |->
                 IF rows[i].address = order.bot /\ ~ order.is_buy
                 THEN Booked(rows[i], order.tx_status)
                 ELSE rows[i]]
  BY DEF UpdateBot
<1>3. \A i \in DOMAIN rows : rows[i] \in BotRow
  BY ElementOfSeq, LenProperties DEF IInv, TypeOK, FactoryTypeOK
<1>4. ASSUME NEW i \in DOMAIN rows
      PROVE  order \in SellsWith(rows[i].address)
                <=> rows[i].address = order.bot /\ ~ order.is_buy
  BY <1>1 DEF SellsWith, Updates
<1> HIDE DEF order
<1> QED BY <1>2, <1>3, <1>4 DEF AfterHead, order

LEMMA AgreesAfterHead ==
  ASSUME NEW row \in BotRow, NEW orders \in Seq(BotOrder), orders # <<>>, NEW bot,
         AgreesWith(row, orders, bot)
  PROVE  AgreesWith(AfterHead(row, orders), Tail(orders), bot)
BY DueAfterHead DEF AgreesWith

LEMMA UpdateBooks ==
  ASSUME IInv, NEW a \in Accounts, BooksOf(a), UpdateBot, UNCHANGED <<jobs, bot_of>>
  PROVE  BooksOf(a)'
<1>1. /\ bot_order_broker # <<>> /\ Head(bot_order_broker).type = "update"
      /\ bot_order_broker' = Tail(bot_order_broker)
      /\ UNCHANGED bot_result_broker
  BY DEF UpdateBot, Handles
<1>2. ToSet(bot_order_broker') \subseteq ToSet(bot_order_broker)
  BY <1>1, OrderFacts
<1>3. CASE HasBot(a)
  <2>1. OwnBooks(a)
    BY <1>3 DEF BooksOf
  <2>2. PICK i \in DOMAIN rows : InStep(rows[i], a)
    BY <2>1 DEF OwnBooks, ToSet
  <2>3. /\ rows'[i] = AfterHead(rows[i], bot_order_broker) /\ rows[i] \in BotRow
        /\ rows'[i] \in ToSet(rows')
    BY UpdateMaps DEF ToSet
  <2>4. \A bot : AgreesWith(rows[i], bot_order_broker, bot)
                   => AgreesWith(rows'[i], bot_order_broker', bot)
    BY <1>1, <2>3, OrderFacts, AgreesAfterHead
  <2>5. InStep(rows[i], a)'
    BY <2>2, <2>4 DEF InStep
  <2>6. OwnBooks(a)'
    BY <1>1, <1>2, <2>1, <2>3, <2>5 DEF OwnBooks
  <2> QED BY <1>3, <2>6 DEF BooksOf, HasBot
<1>4. CASE ~ HasBot(a)
  <2>1. Renewal(a)
    BY <1>4 DEF BooksOf
  <2>2. AsksOnce(a) => AsksOnce(a)'
    <3> SUFFICES ASSUME AsksOnce(a) PROVE AsksOnce(a)'
      OBVIOUS
    <3> DEFINE n == Len(bot_order_broker)
    <3>1. bot_order_broker[n].type = "create"
      BY DEF AsksOnce, BotCreationOrder
    <3>2. n \in Nat \ {0} /\ n # 1
      BY <1>1, <3>1, OrderFacts
    <3>3. /\ Len(bot_order_broker') = n - 1
          /\ \A k \in 1 .. n - 1 : bot_order_broker'[k] = bot_order_broker[k + 1]
      BY <1>1, OrderFacts
    <3> HIDE DEF n
    <3>4. \A k \in 1 .. n - 2 : k + 1 \in 1 .. n - 1 /\ k \in 1 .. n - 1
      BY <3>2
    <3>5. n - 1 > 0 /\ n - 1 \in 1 .. n - 1 /\ (n - 1) + 1 = n /\ (n - 1) - 1 = n - 2
      BY <3>2
    <3>6. bot_order_broker'[n - 1] = BotCreationOrder(a)
      BY <3>3, <3>5 DEF AsksOnce, n
    <3>7. \A k \in 1 .. n - 2 : bot_order_broker'[k] \in Updates
      BY <3>3, <3>4 DEF AsksOnce, n
    <3> QED BY <3>3, <3>5, <3>6, <3>7 DEF AsksOnce, BotCreationOrder, Updates
  <2>3. Renewal(a)'
    BY <1>1, <1>2, <2>1, <2>2 DEF Renewal
  <2> QED BY <1>4, <2>3 DEF BooksOf, HasBot
<1> QED BY <1>3, <1>4

(* What the factory finds is a row that is fit for use.                    *)
LEMMA FoundRow ==
  ASSUME IInv, FoundBot
  PROVE  \E row \in ToSet(rows) :
            /\ row \in BotRow
            /\ row.owner = Head(bot_order_broker).owner /\ ~ WornOut(row)
            /\ bot_result_broker' = Append(bot_result_broker, row)
<1> DEFINE available == Available(Head(bot_order_broker).owner)
<1>1. /\ DOMAIN rows = 1 .. Len(rows) /\ Len(rows) \in Nat
      /\ \A i \in DOMAIN rows : rows[i] \in BotRow
  BY LenProperties, ElementOfSeq DEF IInv, TypeOK, FactoryTypeOK
<1>2. available # {} /\ bot_result_broker' = Append(bot_result_broker, rows[Min(available)])
  BY DEF FoundBot
<1>3. available \in SUBSET DOMAIN rows
  BY DEF Available
<1>4. Min(available) \in available
  <2> HIDE DEF available
  <2>1. available \in SUBSET Nat
    BY <1>1, <1>3
  <2> QED BY <1>2, <2>1, MinIsMember
<1>5. /\ Min(available) \in DOMAIN rows
      /\ rows[Min(available)].owner = Head(bot_order_broker).owner
      /\ ~ WornOut(rows[Min(available)])
  BY <1>4 DEF Available
<1> HIDE DEF available
<1>6. rows[Min(available)] \in ToSet(rows)
  BY <1>5 DEF ToSet
<1> QED BY <1>1, <1>2, <1>5, <1>6

LEMMA FactoryBooks ==
  ASSUME IInv, ~ DbMayFail, OneAccount, NEW a \in Accounts, BooksOf(a), FactoryTask
  PROVE  BooksOf(a)'
<1>1. FactoryNext /\ UNCHANGED <<jobs, bot_of>>
  BY DEF FactoryTask, threadVars
<1>2. ASSUME Handles("create"), bot_order_broker' = Tail(bot_order_broker),
             NEW row \in ToSet(rows'), row.owner = a, ~ WornOut(row),
             bot_result_broker' = Append(bot_result_broker, row)
      PROVE  BooksOf(a)'
  <2>1. /\ ~ HasBot(a) /\ bot_order_broker' = <<>>
        /\ \A j \in jobs : j.phase \notin {"count", "replace", "request"}
        /\ bot_result_broker = <<>>
    BY <1>2, CreateComesLast
  <2>2. bot_result_broker' = <<row>>
    BY <1>2, <2>1
  <2>3. Renewal(a)'
    BY <1>1, <1>2, <2>1, <2>2 DEF Renewal, WornOut
  <2> QED BY <1>1, <2>1, <2>3 DEF BooksOf, HasBot
<1>3. CASE FoundBot
  <2>1. PICK row \in ToSet(rows) :
           /\ row.owner = Head(bot_order_broker).owner /\ ~ WornOut(row)
           /\ bot_result_broker' = Append(bot_result_broker, row)
    BY <1>3, FoundRow
  <2>2. /\ Handles("create") /\ bot_order_broker' = Tail(bot_order_broker)
        /\ UNCHANGED rows
    BY <1>3 DEF FoundBot
  <2>3. row.owner = a
    BY <2>1, <2>2, CreateComesLast DEF BotCreationOrder
  <2> QED BY <1>2, <2>1, <2>2, <2>3
<1>4. ASSUME NEW address \in Bots, NEW owner \in Accounts, CreateBot(address, owner)
      PROVE  BooksOf(a)'
  <2> DEFINE row == NewBot(address, owner)
  <2>1. row \in BotRow /\ row.owner = a /\ ~ WornOut(row)
    BY NoneIsNoBody, BotFactoryAssumption DEF NewBot, BotRow, WornOut, OneAccount
  <2> HIDE DEF row
  <2>2. row \in ToSet(rows')
    BY <1>4, <2>1, AppendFacts DEF CreateBot, row, IInv, TypeOK, FactoryTypeOK
  <2> QED BY <1>2, <1>4, <2>1, <2>2 DEF CreateBot, Deploy, row
<1>5. CASE CreateBotFails
  <2>1. bot_order_broker' = bot_order_broker
    <3> DEFINE order == Head(bot_order_broker)
    <3>1. bot_order_broker = <<order>> /\ Tail(bot_order_broker) = <<>>
      BY <1>5, CreateComesLast DEF CreateBotFails
    <3>2. bot_order_broker' = Append(Tail(bot_order_broker), order)
      BY <1>5 DEF CreateBotFails, Retry
    <3> HIDE DEF order
    <3> QED BY <3>1, <3>2
  <2>2. UNCHANGED <<rows, bot_result_broker>>
    BY <1>5 DEF CreateBotFails
  <2> QED BY <1>1, <2>1, <2>2 DEF BooksOf, HasBot, OwnBooks, InStep, Renewal, AsksOnce
<1>6. CASE UpdateBot
  BY <1>1, <1>6, UpdateBooks
<1> QED BY <1>1, <1>3, <1>4, <1>5, <1>6 DEF FactoryNext, DatabaseRaises

(* The result is for the account, which takes it as it is in the table.    *)
LEMMA AssignBooks ==
  ASSUME IInv, NEW a \in Accounts, BooksOf(a), AssignBot
  PROVE  /\ BooksOf(a)'
         /\ ~ HasBot(a) /\ bot_order_broker = <<>> /\ UNCHANGED bot_order_broker
         /\ \E row \in ToSet(rows) : bot_of'[a] = row /\ row.owner = a /\ ~ WornOut(row)
<1>1. bot_result_broker # <<>> /\ bot_result_broker' = Tail(bot_result_broker)
  BY DEF AssignBot
<1>2. ~ HasBot(a)
  BY <1>1 DEF BooksOf, OwnBooks
<1>3. /\ \A j \in jobs : j.phase \notin {"count", "replace", "request"}
      /\ bot_order_broker = <<>>
  BY <1>1, <1>2 DEF BooksOf, Renewal
<1>4. PICK row \in ToSet(rows) :
         bot_result_broker = <<row>> /\ row.owner = a /\ ~ WornOut(row)
  BY <1>1, <1>2 DEF BooksOf, Renewal
<1>5. row \in BotRow
  BY ElementOfSeq, LenProperties DEF ToSet, IInv, TypeOK, FactoryTypeOK
<1>6. bot_result_broker' = <<>> /\ Head(bot_result_broker) = row
  BY <1>1, <1>4
<1>7. bot_of'[a] = row
  BY <1>2, <1>4, <1>6 DEF AssignBot, Wants, NeedsBot
<1>8. UNCHANGED <<jobs, bot_order_broker, rows>>
  BY DEF AssignBot
<1>9. HasBot(a)'
  BY <1>5, <1>7, BotFactoryAssumption DEF HasBot
<1>10. AgreesWith(row, <<>>, row)
  BY <1>5, DueNow DEF AgreesWith
<1>11. InStep(row, a)'
  BY <1>3, <1>7, <1>8, <1>10 DEF InStep
<1>12. OwnBooks(a)'
  BY <1>3, <1>4, <1>6, <1>7, <1>8, <1>11 DEF OwnBooks, ToSet, WornOut
<1> QED BY <1>2, <1>3, <1>4, <1>7, <1>8, <1>9, <1>12 DEF BooksOf

-----------------------------------------------------------------------------
(* The tail of execute.                                                    *)

\* The phases in which a thread works on the books.
Busy == {"count", "replace", "request"}

LEMMA QuietBooks ==
  ASSUME NEW a \in Accounts, BooksOf(a),
         UNCHANGED <<bot_of, bot_order_broker, bot_result_broker, rows>>,
         \A k : k.phase \in Busy => (k \in jobs <=> k \in jobs')
  PROVE  BooksOf(a)'
<1>1. /\ \A k \in jobs' : k.phase \in Busy => k \in jobs
      /\ \A k \in jobs : k.phase \in Busy => k \in jobs'
  OBVIOUS
<1>2. CASE HasBot(a)
  <2>1. \A row : InStep(row, a) => InStep(row, a)'
    BY <1>1 DEF InStep, Busy
  <2>2. OwnBooks(a)'
    BY <1>1, <1>2, <2>1 DEF BooksOf, OwnBooks, Busy, WornOut
  <2> QED BY <1>2, <2>2 DEF BooksOf, HasBot
<1>3. CASE ~ HasBot(a)
  <2>1. Renewal(a)'
    BY <1>1, <1>3 DEF BooksOf, Renewal, Busy, WornOut, AsksOnce
  <2> QED BY <1>3, <2>1 DEF BooksOf, HasBot
<1> QED BY <1>2, <1>3

LEMMA AgreesWhenTold ==
  ASSUME NEW row \in BotRow, NEW orders \in Seq(BotOrder), NEW order \in Updates,
         NEW bot \in BotRow, AgreesWith(row, orders, bot), order.bot = bot.address
  PROVE  AgreesWith(row, Append(orders, order),
                    IF order.is_buy THEN bot ELSE Used(bot, order.tx_status))
<1>1. order \in BotOrder /\ order \in SellsWith(row.address) <=> ~ order.is_buy
  BY DEF Updates, SellsWith, AgreesWith
<1>2. CASE order.is_buy
  BY <1>1, <1>2, DueAppend DEF AgreesWith, Updates
<1>3. CASE ~ order.is_buy
  BY <1>1, <1>3, DueAppend, UsedFields DEF AgreesWith, Updates
<1> QED BY <1>2, <1>3

(* The order that TellFactory sends.                                       *)
LEMMA ToldFacts ==
  ASSUME IInv, NEW j \in jobs, TellFactory(j)
  PROVE  LET told == BotUpdateOrder(bot_of[j.account].address, Ack(j, j.status)) IN
         /\ told \in Updates
         /\ told.bot = bot_of[j.account].address
         /\ told.is_buy = j.order.is_buy /\ told.tx_status = j.status
         /\ bot_order_broker' = Append(bot_order_broker, told)
         /\ bot_of[j.account] \in BotRow
<1>1. bot_of[j.account] \in BotRow /\ bot_of[j.account].address \in Bots
  BY JobFacts, BotOfFacts DEF TellFactory
<1>2. j.status \in TxStatus /\ j.order \in ExecutionOrder
  BY JobFacts DEF TellFactory, JobOK, TailPhases
<1> QED BY <1>1, <1>2 DEF TellFactory, BotUpdateOrder, Ack, BotOrder, ExecutionOrder, Updates

LEMMA TellBooks ==
  ASSUME IInv, OneAccount, OneThread, NEW a \in Accounts, BooksOf(a),
         NEW j \in jobs, Execute(j), TellFactory(j)
  PROVE  BooksOf(a)'
<1> DEFINE told == BotUpdateOrder(bot_of[j.account].address, Ack(j, j.status))
           next == [j EXCEPT !.phase = "count"]
<1>1. j \in Job /\ j.account = a
  BY JobFacts DEF OneAccount
<1>2. /\ j.phase = "check" /\ HasBot(a)
      /\ UNCHANGED <<bot_of, bot_result_broker, rows>>
  BY <1>1 DEF TellFactory, TailStep, ThreadStep
<1>3. /\ told \in Updates /\ told \in BotOrder /\ told.bot = bot_of[a].address
      /\ told.is_buy = j.order.is_buy /\ told.tx_status = j.status
      /\ bot_order_broker' = Append(bot_order_broker, told)
      /\ bot_of[a] \in BotRow
  BY <1>1, ToldFacts DEF Updates
<1>4. \A k \in jobs : k.phase \notin Busy
  BY <1>2, Alone DEF Busy
<1>5. \/ j.order.is_buy /\ jobs' = jobs \ {j}
      \/ ~ j.order.is_buy /\ jobs' = (jobs \ {j}) \cup {next}
  BY DEF TellFactory, Returns, Goes, Becomes
<1>6. next.phase = "count" /\ next.status = j.status
  BY <1>1 DEF Job
<1> HIDE DEF told, next
<1>7. OwnBooks(a)
  BY <1>2 DEF BooksOf
<1>8. PICK row \in ToSet(rows) : InStep(row, a)
  BY <1>7 DEF OwnBooks
<1>9. row \in BotRow
  BY ElementOfSeq, LenProperties DEF ToSet, IInv, TypeOK, FactoryTypeOK
<1>10. AgreesWith(row, bot_order_broker, bot_of[a])
  BY <1>4, <1>8 DEF InStep, Busy
<1>11. bot_order_broker \in Seq(BotOrder)
  BY DEF IInv, TypeOK, FactoryTypeOK
<1>12. AgreesWith(row, bot_order_broker',
                  IF told.is_buy THEN bot_of[a] ELSE Used(bot_of[a], told.tx_status))
  BY <1>3, <1>9, <1>10, <1>11, AgreesWhenTold
<1>13. InStep(row, a)'
  <2>1. CASE j.order.is_buy
    <3>1. AgreesWith(row, bot_order_broker', bot_of[a])
      BY <1>3, <1>12, <2>1
    <3>2. \A k \in jobs' : k.phase # "count"
      BY <1>4, <1>5, <2>1 DEF Busy
    <3> QED BY <1>2, <3>1, <3>2 DEF InStep
  <2>2. CASE ~ j.order.is_buy
    <3>1. AgreesWith(row, bot_order_broker', Used(bot_of[a], j.status))
      BY <1>3, <1>12, <2>2
    <3>2. /\ next \in jobs'
          /\ \A k \in jobs' : k.phase = "count" => k = next
      BY <1>4, <1>5, <2>2 DEF Busy
    <3> QED BY <1>2, <1>6, <3>1, <3>2 DEF InStep
  <2> QED BY <2>1, <2>2
<1>14. ToSet(bot_order_broker') = ToSet(bot_order_broker) \cup {told}
  BY <1>3, <1>11, AppendFacts
<1>15. \A k \in jobs' : k.phase \notin {"replace", "request"}
  BY <1>4, <1>5, <1>6 DEF Busy
<1>16. OwnBooks(a)'
  BY <1>2, <1>3, <1>4, <1>7, <1>8, <1>13, <1>14, <1>15 DEF OwnBooks, WornOut, Busy
<1> QED BY <1>2, <1>16 DEF BooksOf, HasBot

LEMMA CountBooks ==
  ASSUME IInv, OneAccount, OneThread, NEW a \in Accounts, BooksOf(a),
         NEW j \in jobs, Execute(j), CountUse(j)
  PROVE  BooksOf(a)'
<1> DEFINE next == [j EXCEPT !.phase = "replace"]
           used == Used(bot_of[a], j.status)
<1>1. j \in Job /\ j.account = a
  BY JobFacts DEF OneAccount
<1>2. /\ j.phase = "count" /\ HasBot(a)
      /\ UNCHANGED <<bot_order_broker, bot_result_broker, rows>>
  BY <1>1 DEF CountUse, TailStep, ThreadStep
<1>3. \A k \in jobs \ {j} : k.phase = "queued"
  BY Alone
<1>4. bot_of'[a] = used
  BY <1>1 DEF CountUse, IInv, TypeOK, ThreadsTypeOK
<1>5. \/ WornOut(used) /\ jobs' = (jobs \ {j}) \cup {next}
      \/ ~ WornOut(used) /\ jobs' = jobs \ {j}
  BY <1>1, <1>4 DEF CountUse, Returns, Goes, Becomes
<1>6. next.phase = "replace"
  BY <1>1 DEF Job
<1>7. /\ used \in BotRow /\ used # None
      /\ used.address = bot_of[a].address
  BY <1>2, BotOfFacts, UsedFields, BotFactoryAssumption
<1> HIDE DEF next, used
<1>8. OwnBooks(a)
  BY <1>2 DEF BooksOf
<1>9. PICK row \in ToSet(rows) : InStep(row, a)
  BY <1>8 DEF OwnBooks
<1>10. AgreesWith(row, bot_order_broker, used)
  BY <1>2, <1>9 DEF InStep, used
<1>11. \A k \in jobs' : k.phase \notin {"count", "request"}
  BY <1>3, <1>5, <1>6
<1>12. InStep(row, a)'
  BY <1>2, <1>4, <1>10, <1>11 DEF InStep
<1>13. WornOut(used) <=> \E k \in jobs' : k.phase = "replace"
  BY <1>3, <1>5, <1>6
<1>14. OwnBooks(a)'
  BY <1>2, <1>4, <1>7, <1>8, <1>9, <1>11, <1>12, <1>13 DEF OwnBooks, WornOut
<1> QED BY <1>4, <1>7, <1>14 DEF BooksOf, HasBot

LEMMA ReplaceBooks ==
  ASSUME IInv, OneAccount, OneThread, NEW a \in Accounts, BooksOf(a),
         NEW j \in jobs, Execute(j), ReplaceBot(j)
  PROVE  BooksOf(a)' /\ ~ HasBot(a)'
<1> DEFINE next == [j EXCEPT !.phase = "request"]
<1>1. j \in Job /\ j.account = a
  BY JobFacts DEF OneAccount
<1>2. /\ j.phase = "replace"
      /\ UNCHANGED <<bot_order_broker, bot_result_broker, rows>>
  BY DEF ReplaceBot, TailStep, ThreadStep
<1>3. \A k \in jobs \ {j} : k.phase = "queued"
  BY Alone
<1>4. ~ HasBot(a)'
  BY <1>1 DEF ReplaceBot, HasBot, IInv, TypeOK, ThreadsTypeOK
<1>5. jobs' = (jobs \ {j}) \cup {next} /\ next.phase = "request"
  BY <1>1 DEF ReplaceBot, Goes, Becomes, Job
<1> HIDE DEF next
<1>6. OwnBooks(a)
  BY <1>2 DEF BooksOf, Renewal
<1>7. Renewal(a)'
  BY <1>2, <1>3, <1>5, <1>6 DEF OwnBooks, Renewal, Updates
<1> QED BY <1>4, <1>7 DEF BooksOf

LEMMA RequestBooks ==
  ASSUME IInv, OneAccount, OneThread, NEW a \in Accounts, BooksOf(a),
         NEW j \in jobs, Execute(j), RequestBot(j)
  PROVE  BooksOf(a)'
<1> DEFINE n == Len(bot_order_broker)
<1>1. j.account = a
  BY JobFacts DEF OneAccount
<1>2. /\ j.phase = "request"
      /\ UNCHANGED <<bot_of, bot_result_broker, rows>>
      /\ bot_order_broker' = Append(bot_order_broker, BotCreationOrder(a))
      /\ jobs' = jobs \ {j}
  BY <1>1 DEF RequestBot, TailStep, ThreadStep, Returns
<1>3. \A k \in jobs' : k.phase = "queued"
  BY <1>2, Alone
<1>4. ~ HasBot(a)
  BY <1>2 DEF BooksOf, OwnBooks
<1>5. ToSet(bot_order_broker) \subseteq Updates /\ bot_result_broker = <<>>
  BY <1>2, <1>4 DEF BooksOf, Renewal
<1>6. bot_order_broker \in Seq(BotOrder) /\ BotCreationOrder(a) \in BotOrder
  BY DEF IInv, TypeOK, FactoryTypeOK, BotCreationOrder, BotOrder
<1>7. /\ n \in Nat /\ Len(bot_order_broker') = n + 1
      /\ bot_order_broker'[n + 1] = BotCreationOrder(a)
      /\ \A k \in 1 .. n : bot_order_broker'[k] = bot_order_broker[k]
      /\ DOMAIN bot_order_broker = 1 .. n
  BY <1>2, <1>6, AppendProperties, LenProperties
<1>8. \A k \in 1 .. n : bot_order_broker[k] \in Updates
  BY <1>5, <1>7 DEF ToSet
<1> HIDE DEF n
<1>9. AsksOnce(a)'
  <2>1. n + 1 > 0 /\ (n + 1) - 1 = n
    BY <1>7
  <2> QED BY <1>7, <1>8, <2>1 DEF AsksOnce, BotCreationOrder, Updates
<1>10. Renewal(a)'
  BY <1>2, <1>3, <1>5, <1>9 DEF Renewal
<1> QED BY <1>2, <1>4, <1>10 DEF BooksOf, HasBot

(* What comes before the tail does not touch the books.                    *)
LEMMA OtherCallsQuiet ==
  ASSUME IInv, NEW j \in jobs, Execute(j),
         ~ TellFactory(j), ~ CountUse(j), ~ ReplaceBot(j), ~ RequestBot(j),
         j.phase = "count" => HasBot(j.account)
  PROVE  /\ UNCHANGED <<bot_of, bot_order_broker, bot_result_broker, rows>>
         /\ j.phase \notin Busy
         /\ \A k \in jobs' : k \in jobs \/ k.phase \notin Busy
         /\ jobs \ {j} \subseteq jobs'
<1>1. j \in Job
  BY JobFacts
<1>2. UNCHANGED <<bot_result_broker, rows>>
  BY ThreadsTyped DEF ThreadStep
<1>3. ASSUME NEW next, next.phase \notin Busy, j.phase \notin Busy, Becomes(j, next) \/ Returns(j),
             UNCHANGED <<bot_of, bot_order_broker>>
      PROVE  /\ UNCHANGED <<bot_of, bot_order_broker>>
             /\ j.phase \notin Busy
             /\ \A k \in jobs' : k \in jobs \/ k.phase \notin Busy
             /\ jobs \ {j} \subseteq jobs'
  BY <1>3 DEF Becomes, Returns
<1>4. CASE Start(j)
  <2> DEFINE next == [j EXCEPT
                        !.phase = IF j.order.is_paper THEN "simulate" ELSE "nonce",
                        !.bot = IF j.order.bot # None THEN j.order.bot
                                ELSE bot_of[j.account].address]
  <2>1. next.phase \notin Busy
    BY <1>1 DEF Job, Busy
  <2>2. Becomes(j, next) /\ UNCHANGED <<bot_of, bot_order_broker>> /\ j.phase \notin Busy
    BY <1>4 DEF Start, MayStart, Queued, Busy
  <2> HIDE DEF next
  <2> QED BY <1>2, <1>3, <2>1, <2>2
<1>5. CASE GetNonce(j)
  <2> DEFINE next == [j EXCEPT !.phase = "send", !.nonce = next_nonce[j.account]]
  <2>1. next.phase \notin Busy
    BY <1>1 DEF Job, Busy
  <2>2. Becomes(j, next) /\ UNCHANGED <<bot_of, bot_order_broker>> /\ j.phase \notin Busy
    BY <1>5 DEF GetNonce, Busy
  <2> HIDE DEF next
  <2> QED BY <1>2, <1>3, <2>1, <2>2
<1>6. CASE Send(j)
  <2> DEFINE next == [j EXCEPT !.phase = "wait"]
  <2>1. next.phase \notin Busy
    BY <1>1 DEF Job, Busy
  <2>2. Becomes(j, next) /\ UNCHANGED <<bot_of, bot_order_broker>> /\ j.phase \notin Busy
    BY <1>6 DEF Send, Goes, Busy
  <2> HIDE DEF next
  <2> QED BY <1>2, <1>3, <2>1, <2>2
<1>7. ASSUME NEW status, Acknowledge(j, status), j.phase \in ChainPhases
      PROVE  /\ UNCHANGED <<bot_of, bot_order_broker>>
             /\ j.phase \notin Busy
             /\ \A k \in jobs' : k \in jobs \/ k.phase \notin Busy
             /\ jobs \ {j} \subseteq jobs'
  <2> DEFINE next == [j EXCEPT !.phase = "check", !.status = status]
  <2>1. next.phase \notin Busy
    BY <1>1 DEF Job, Busy
  <2>2. Becomes(j, next) /\ UNCHANGED <<bot_of, bot_order_broker>> /\ j.phase \notin Busy
    BY <1>7 DEF Acknowledge, Busy, ChainPhases
  <2> HIDE DEF next
  <2> QED BY <1>3, <2>1, <2>2
<1>8. CASE SendRefused(j) \/ GetReceipt(j) \/ Timeout(j) \/ NodeRaises(j)
  <2>1. \E status : Acknowledge(j, status) /\ j.phase \in ChainPhases
    BY <1>8 DEF SendRefused, GetReceipt, Timeout, TimesOut, NodeRaises, ChainPhases
  <2> QED BY <1>2, <1>7, <2>1
<1>9. CASE StartRaises(j) \/ Simulate(j) \/ NoBotLeft(j)
  <2>1. Returns(j) /\ UNCHANGED <<bot_of, bot_order_broker>> /\ j.phase \notin Busy
    BY <1>9 DEF StartRaises, MayStart, Queued, Simulate, NoBotLeft, Busy
  <2> QED BY <1>2, <2>1 DEF Returns
<1> QED BY <1>4, <1>5, <1>6, <1>8, <1>9 DEF Execute, Proceeds

LEMMA ThreadBooks ==
  ASSUME IInv, OneAccount, OneThread, NEW a \in Accounts, BooksOf(a),
         NEW j \in jobs, Execute(j)
  PROVE  BooksOf(a)'
<1>1. CASE TellFactory(j) \/ CountUse(j) \/ ReplaceBot(j) \/ RequestBot(j)
  BY <1>1, TellBooks, CountBooks, ReplaceBooks, RequestBooks
<1>2. CASE ~ TellFactory(j) /\ ~ CountUse(j) /\ ~ ReplaceBot(j) /\ ~ RequestBot(j)
  <2>1. j.phase = "count" => HasBot(j.account)
    BY JobFacts DEF BooksOf, Renewal, OneAccount
  <2>2. /\ UNCHANGED <<bot_of, bot_order_broker, bot_result_broker, rows>>
        /\ j.phase \notin Busy
        /\ \A k \in jobs' : k \in jobs \/ k.phase \notin Busy
        /\ jobs \ {j} \subseteq jobs'
    BY <1>2, <2>1, OtherCallsQuiet
  <2>3. \A k : k.phase \in Busy => (k \in jobs <=> k \in jobs')
    BY <2>2
  <2> QED BY <2>2, <2>3, QuietBooks
<1> QED BY <1>1, <1>2

(* A new order waits for a thread.                                         *)
LEMMA NewCalls ==
  ASSUME OrderTask
  PROVE  /\ UNCHANGED <<bot_of, bot_order_broker, bot_result_broker, rows>>
         /\ UNCHANGED <<execution_report, chainVars>>
         /\ execution_broker # <<>> /\ execution_broker' = Tail(execution_broker)
         /\ \/ jobs' = jobs
            \/ \E new : /\ jobs' = jobs \cup {new} /\ new.phase = "queued"
                       /\ new.order = Head(execution_broker)
<1>1. CASE DropOrder
  BY <1>1 DEF DropOrder, ReceiveOrder, factoryVars
<1>2. CASE Submit
  <2> DEFINE order == Head(execution_broker)
             new == [n |-> counter + 1, order |-> order, account |-> AccountFor(order),
                     phase |-> "queued", bot |-> None, nonce |-> 0, status |-> None]
  <2>1. new.phase = "queued" /\ new.order = order
    OBVIOUS
  <2>2. jobs' = jobs \cup {new}
    BY <1>2 DEF Submit
  <2> HIDE DEF new
  <2> QED BY <1>2, <2>1, <2>2 DEF Submit, ReceiveOrder, factoryVars
<1> QED BY <1>1, <1>2 DEF OrderTask

LEMMA NextBooks ==
  ASSUME IInv, ~ DbMayFail, OneAccount, OneThread, BooksInv, [Next]_vars
  PROVE  BooksInv'
<1> SUFFICES ASSUME NEW a \in Accounts PROVE BooksOf(a)'
  BY DEF BooksInv
<1>1. BooksOf(a)
  BY DEF BooksInv
<1>2. CASE /\ UNCHANGED <<bot_of, bot_order_broker, bot_result_broker, rows>>
           /\ \A k : k.phase \in Busy => (k \in jobs <=> k \in jobs')
  BY <1>1, <1>2, QuietBooks
<1>3. CASE ClientNext
  BY <1>2, <1>3 DEF ClientNext, SendBuy, SendSell, HandleAck, MainStep, factoryVars,
                    threadVars
<1>4. CASE ExecutorProcess(OrderTask)
  <2>1. /\ UNCHANGED <<bot_of, bot_order_broker, bot_result_broker, rows>>
        /\ \/ jobs' = jobs
           \/ \E new : jobs' = jobs \cup {new} /\ new.phase = "queued"
    BY <1>4, NewCalls DEF ExecutorProcess
  <2>2. \A k : k.phase \in Busy => (k \in jobs <=> k \in jobs')
    BY <2>1 DEF Busy
  <2> QED BY <1>2, <2>1, <2>2
<1>5. CASE ExecutorProcess(\E j \in jobs : Execute(j))
  BY <1>1, <1>5, ThreadBooks DEF ExecutorProcess
<1>6. CASE ExecutorProcess(AssignBot)
  BY <1>1, <1>6, AssignBooks DEF ExecutorProcess
<1>7. CASE ExecutorProcess(FactoryTask)
  BY <1>1, <1>7, FactoryBooks DEF ExecutorProcess
<1>8. CASE ExecutorProcess(MineTransaction)
  BY <1>2, <1>8 DEF ExecutorProcess, MineTransaction, factoryVars, threadVars
<1>9. CASE UNCHANGED vars
  BY <1>2, <1>9 DEF vars, factoryVars, threadVars
<1> QED BY <1>3, <1>4, <1>5, <1>6, <1>7, <1>8, <1>9 DEF Next

LEMMA BooksHold ==
  ASSUME OneAccount, ~ DbMayFail
  PROVE  Spec => []OneThread /\ []BooksInv
<1>1. Init => OneThread
  BY DEF Init, ThreadsInit, OneThread, Started
<1>2. IInv /\ IInv' /\ OneThread /\ [Next]_vars => OneThread'
  BY NextOneThread
<1>3. Init => BooksInv
  BY InitBooks
<1>4. IInv /\ OneThread /\ BooksInv /\ [Next]_vars => BooksInv'
  BY NextBooks
<1> QED BY <1>1, <1>2, <1>3, <1>4, IInvHolds, PTL DEF Spec

(* While the database answers, the books of a program with one account     *)
(* agree whenever nothing is under way: each sell was counted once by the  *)
(* account and once in the table, in whatever order the thread, the event  *)
(* loop and the factory came to it (buysell_executor.py:166-172,           *)
(* bot_factory.py:137-140).                                                *)
THEOREM BooksOfOneAccountAgree ==
  ASSUME OneAccount, ~ DbMayFail
  PROVE  Spec => []BooksAgree
<1>1. IInv /\ BooksInv => BooksAgree
  <2> SUFFICES ASSUME IInv, BooksInv, jobs = {}, bot_order_broker = <<>>,
                      NEW a \in Accounts, HasBot(a)
               PROVE  bot_of[a] \in ToSet(rows)
    BY DEF BooksAgree
  <2>1. PICK row \in ToSet(rows) : InStep(row, a)
    BY DEF BooksInv, BooksOf, OwnBooks
  <2>2. row \in BotRow /\ bot_of[a] \in BotRow
    BY BotOfFacts, ElementOfSeq, LenProperties DEF ToSet, IInv, TypeOK, FactoryTypeOK
  <2>3. AgreesWith(row, <<>>, bot_of[a])
    BY <2>1 DEF InStep
  <2>4. /\ row.address = bot_of[a].address /\ row.owner = bot_of[a].owner
        /\ row.number_used = bot_of[a].number_used
        /\ row.is_failed <=> bot_of[a].is_failed
    BY <2>2, <2>3, DueNow DEF AgreesWith
  <2>5. row.is_failed = bot_of[a].is_failed
    BY <2>2, <2>4 DEF BotRow
  <2>6. row = bot_of[a]
    BY <2>2, <2>4, <2>5 DEF BotRow
  <2> QED BY <2>6
<1> QED BY <1>1, BooksHold, IInvHolds, PTL

-----------------------------------------------------------------------------
(* Bots of failed sells.                                                   *)

FailedBots ==
  {ack.bot : ack \in {k \in acked : ~ k.is_buy /\ ~ k.is_paper /\ k.tx_status = "FAILED"}}

Present(bot) == \E a \in Accounts : HasBot(a) /\ bot_of[a].address = bot

\* The factory will not find it any more.
Retired(bot) ==
  /\ bot \in Deployed
  /\ \A row \in ToSet(rows) : row.address = bot =>
        \/ row.owner \notin Accounts
        \/ DueNumber(row, bot_order_broker) >= BOT_MAX_NUMBER_USED
        \/ DueFailed(row, bot_order_broker)

Known(bot) == Present(bot) \/ Retired(bot)

BotsKnown ==
  /\ \A position \in glb_inventory : Known(position.bot)
  /\ \A order \in ToSet(execution_broker) : ~ order.is_buy => Known(order.bot)
  /\ \A ack \in acked : Known(ack.bot)
  /\ \A j \in jobs :
        /\ ~ j.order.is_buy => Known(j.order.bot)
        /\ j.phase # "queued" => Known(j.bot)

RowsApart ==
  /\ \A i, k \in DOMAIN rows : rows[i].address = rows[k].address => i = k
  /\ \A row \in ToSet(rows) : row.address \in Deployed

RetireInv ==
  /\ RowsApart
  /\ BotsKnown
  /\ ToSet(execution_report) \subseteq acked
  /\ \A bot \in FailedBots : Present(bot) =>
        \E j \in jobs : /\ ~ j.order.is_buy /\ j.status = "FAILED"
                        /\ j.phase \in {"check", "count", "replace"}
  /\ \A j \in jobs : j.order.is_buy /\ j.phase \in ChainPhases => j.bot \notin FailedBots

\* The database of the start: an address has one row (console/models.py:136), and
\* the bots of open positions are worn out, or belong to accounts of old.
RestoredBotsRetired ==
  /\ \A i, k \in DOMAIN StoredBots : StoredBots[i].address = StoredBots[k].address => i = k
  /\ \A i \in DOMAIN StoredBots, p \in OpenPositions :
        StoredBots[i].address = p.bot =>
           StoredBots[i].owner \notin Accounts \/ WornOut(StoredBots[i])

LEMMA RowTyped ==
  ASSUME IInv
  PROVE  /\ rows \in Seq(BotRow) /\ bot_order_broker \in Seq(BotOrder)
         /\ DOMAIN rows = 1 .. Len(rows) /\ Len(rows) \in Nat
         /\ \A i \in DOMAIN rows : rows[i] \in BotRow
         /\ \A row \in ToSet(rows) : row \in BotRow /\ row.address \in Bots
<1>1. rows \in Seq(BotRow) /\ bot_order_broker \in Seq(BotOrder)
  BY DEF IInv, TypeOK, FactoryTypeOK
<1>2. /\ DOMAIN rows = 1 .. Len(rows) /\ Len(rows) \in Nat
      /\ \A i \in DOMAIN rows : rows[i] \in BotRow
  BY <1>1, LenProperties, ElementOfSeq
<1>3. \A row \in ToSet(rows) : row \in BotRow
  BY <1>2 DEF ToSet
<1> QED BY <1>1, <1>2, <1>3 DEF BotRow

LEMMA InitRetire ==
  ASSUME RestoredBotsRetired, Init
  PROVE  RetireInv
<1>1. /\ IInv /\ OpenPositions \subseteq Position /\ rows = StoredBots
      /\ acked = {} /\ jobs = {} /\ execution_broker = <<>> /\ execution_report = <<>>
      /\ glb_inventory = OpenPositions
  BY InitIInv, ExecutionSystemAssumption DEF Init, ThreadsInit
<1>2. \A bot \in Bots : bot_owner[bot] = StoredOwner(bot)
  BY DEF Init
<1>3. ASSUME NEW row \in ToSet(rows)
      PROVE  row.address \in Deployed
  <2> DEFINE stored == {k \in DOMAIN rows : rows[k].address = row.address}
  <2>1. PICK i \in DOMAIN rows : rows[i] = row
    BY DEF ToSet
  <2>2. stored # {} /\ stored \in SUBSET Nat
    BY <1>1, <2>1, RowTyped
  <2>3. Min(stored) \in DOMAIN rows
    <3>1. Min(stored) \in stored
      <4> HIDE DEF stored
      <4> QED BY <2>2, MinIsMember
    <3> QED BY <3>1
  <2>4. rows[Min(stored)].owner \in Signers
    BY <1>1, <2>3, RowTyped DEF BotRow
  <2>5. StoredOwner(row.address) = rows[Min(stored)].owner
    BY <2>2 DEF StoredOwner
  <2> QED BY <1>1, <1>2, <2>4, <2>5, NoneIsNoBody, RowTyped DEF Deployed
<1>4. ASSUME NEW p \in OpenPositions
      PROVE  Retired(p.bot)
  <2>1. p.bot \in Bots
    BY <1>1 DEF Position
  <2>2. p.bot \in Deployed
    <3> DEFINE holding == {q \in OpenPositions : q.bot = p.bot}
    <3>1. CASE \E row \in ToSet(rows) : row.address = p.bot
      BY <1>3, <3>1
    <3>2. CASE \A row \in ToSet(rows) : row.address # p.bot
      <4>1. {i \in DOMAIN rows : rows[i].address = p.bot} = {}
        BY <3>2 DEF ToSet
      <4>2. p \in holding /\ (CHOOSE q \in holding : TRUE) \in Position
        BY <1>1
      <4>3. StoredOwner(p.bot) = (CHOOSE q \in holding : TRUE).signer
        BY <4>1, <4>2 DEF StoredOwner
      <4>4. StoredOwner(p.bot) \in Signers
        BY <4>2, <4>3 DEF Position
      <4> QED BY <1>2, <2>1, <4>4, NoneIsNoBody DEF Deployed
    <3> QED BY <3>1, <3>2
  <2>3. ASSUME NEW row \in ToSet(rows), row.address = p.bot
        PROVE  \/ row.owner \notin Accounts
               \/ DueNumber(row, bot_order_broker) >= BOT_MAX_NUMBER_USED
               \/ DueFailed(row, bot_order_broker)
    <3> DEFINE pending == Cardinality(IndicesOf(bot_order_broker, SellsWith(row.address)))
    <3>1. row.owner \notin Accounts \/ WornOut(row)
      BY <1>1, <2>3 DEF RestoredBotsRetired, ToSet
    <3>2. row.number_used \in Nat /\ pending \in Nat
      BY <1>1, RowTyped, IndicesFinite DEF BotRow
    <3>3. DueNumber(row, bot_order_broker) = row.number_used + pending
      BY DEF DueNumber
    <3> HIDE DEF pending
    <3> QED BY <3>1, <3>2, <3>3, BotFactoryAssumption DEF WornOut, DueFailed
  <2> QED BY <2>2, <2>3 DEF Retired
<1>5. RowsApart
  BY <1>1, <1>3 DEF RowsApart, RestoredBotsRetired
<1>6. BotsKnown
  BY <1>1, <1>4 DEF BotsKnown, Known, ToSet
<1> QED BY <1>1, <1>5, <1>6 DEF RetireInv, FailedBots, ToSet

-----------------------------------------------------------------------------
(* A bot that the factory will not find stays one.                         *)

\* The row was worn out by the sells it has, or was about to be.
LEMMA RetiredByRows ==
  ASSUME NEW bot, Retired(bot), Deployed \subseteq Deployed',
         \A next \in ToSet(rows') : next.address = bot =>
            \E row \in ToSet(rows) :
               /\ row.address = bot /\ row.owner = next.owner
               /\ DueNumber(row, bot_order_broker) >= BOT_MAX_NUMBER_USED
                    => DueNumber(next, bot_order_broker') >= BOT_MAX_NUMBER_USED
               /\ DueFailed(row, bot_order_broker) => DueFailed(next, bot_order_broker')
  PROVE  Retired(bot)'
BY DEF Retired

LEMMA DeployedStay ==
  ASSUME IInv, FactoryTask
  PROVE  /\ Deployed \subseteq Deployed'
         /\ \A address \in Bots, owner \in Accounts :
               CreateBot(address, owner) => address \notin Deployed /\ address \in Deployed'
<1>1. bot_owner \in [Bots -> Signers \cup {None}]
  BY DEF IInv, TypeOK, ChainTypeOK
<1>2. \A address \in Bots, owner \in Accounts :
         Create(address, owner) => /\ Deployed \subseteq Deployed'
                                   /\ address \notin Deployed /\ address \in Deployed'
  BY <1>1, NoneIsNoBody DEF Create, Deployed
<1>3. Handles("create") => Head(bot_order_broker).owner \in Accounts
  BY CreationOrders DEF IInv, TypeOK
<1>4. \/ UNCHANGED chainVars
      \/ \E address \in Bots, owner \in Accounts : Create(address, owner)
  BY <1>3 DEF FactoryTask, FactoryNext, FoundBot, CreateBot, CreateBotFails, UpdateBot,
              DatabaseRaises, Deploy
<1>5. Deployed \subseteq Deployed'
  BY <1>2, <1>4 DEF chainVars, Deployed
<1> QED BY <1>2, <1>5 DEF CreateBot, Deploy

\* Taking a creation order away changes no row.
LEMMA DueAfterCreate ==
  ASSUME IInv, Handles("create"), NEW row \in ToSet(rows)
  PROVE  /\ DueNumber(row, Tail(bot_order_broker)) = DueNumber(row, bot_order_broker)
         /\ DueFailed(row, Tail(bot_order_broker)) <=> DueFailed(row, bot_order_broker)
<1>1. row \in BotRow /\ bot_order_broker \in Seq(BotOrder) /\ bot_order_broker # <<>>
  BY RowTyped DEF Handles
<1>2. Head(bot_order_broker) \notin SellsWith(row.address)
  BY DEF Handles, SellsWith, Updates
<1>3. AfterHead(row, bot_order_broker) = row
  BY <1>2 DEF AfterHead
<1> QED BY <1>1, <1>3, DueAfterHead

LEMMA FactoryRetires ==
  ASSUME IInv, ~ DbMayFail, OneAccount, BooksInv, FactoryTask, NEW bot, Retired(bot)
  PROVE  Retired(bot)'
<1>1. FactoryNext /\ Deployed \subseteq Deployed'
  BY DeployedStay DEF FactoryTask
<1>2. PICK a \in Accounts : BooksOf(a)
  BY ExecutorAssumption DEF BooksInv
<1>3. CASE FoundBot
  <2>1. Handles("create") /\ bot_order_broker' = Tail(bot_order_broker) /\ UNCHANGED rows
    BY <1>3 DEF FoundBot
  <2> QED BY <1>1, <2>1, DueAfterCreate, RetiredByRows
<1>4. ASSUME NEW address \in Bots, NEW owner \in Accounts, CreateBot(address, owner)
      PROVE  Retired(bot)'
  <2> DEFINE new == NewBot(address, owner)
  <2>1. /\ Handles("create") /\ bot_order_broker' = Tail(bot_order_broker)
        /\ rows' = Append(rows, new)
    BY <1>4 DEF CreateBot, Deploy
  <2>2. new \in BotRow /\ new.address = address
    BY NoneIsNoBody DEF NewBot, BotRow
  <2> HIDE DEF new
  <2>3. ToSet(rows') = ToSet(rows) \cup {new}
    BY <2>1, <2>2, RowTyped, AppendFacts
  <2>4. bot # address
    BY <1>4, DeployedStay DEF Retired
  <2> QED BY <1>1, <2>1, <2>2, <2>3, <2>4, DueAfterCreate, RetiredByRows
<1>5. CASE CreateBotFails
  <2>1. bot_order_broker' = bot_order_broker /\ UNCHANGED rows
    <3> DEFINE order == Head(bot_order_broker)
    <3>1. bot_order_broker = <<order>> /\ Tail(bot_order_broker) = <<>>
      BY <1>2, <1>5, CreateComesLast DEF CreateBotFails
    <3>2. bot_order_broker' = Append(Tail(bot_order_broker), order) /\ UNCHANGED rows
      BY <1>5 DEF CreateBotFails, Retry
    <3> HIDE DEF order
    <3> QED BY <3>1, <3>2
  <2> QED BY <1>1, <2>1, RetiredByRows
<1>6. CASE UpdateBot
  <2>1. bot_order_broker' = Tail(bot_order_broker) /\ bot_order_broker # <<>>
    BY <1>6 DEF UpdateBot, Handles
  <2>2. ASSUME NEW next \in ToSet(rows'), next.address = bot
        PROVE  \E row \in ToSet(rows) :
                  /\ row.address = bot /\ row.owner = next.owner
                  /\ DueNumber(row, bot_order_broker) >= BOT_MAX_NUMBER_USED
                       => DueNumber(next, bot_order_broker') >= BOT_MAX_NUMBER_USED
                  /\ DueFailed(row, bot_order_broker) => DueFailed(next, bot_order_broker')
    <3>1. PICK i \in DOMAIN rows : next = AfterHead(rows[i], bot_order_broker)
      BY <1>6, UpdateMaps DEF ToSet
    <3>2. rows[i] \in ToSet(rows) /\ rows[i] \in BotRow
      BY <1>6, UpdateMaps DEF ToSet
    <3> QED BY <2>1, <2>2, <3>1, <3>2, RowTyped, DueAfterHead
  <2> QED BY <1>1, <2>2, RetiredByRows
<1> QED BY <1>1, <1>3, <1>4, <1>5, <1>6 DEF FactoryNext, DatabaseRaises

LEMMA RetiredStays ==
  ASSUME NEW bot, Retired(bot), UNCHANGED <<rows, bot_order_broker, bot_owner>>
  PROVE  Retired(bot)'
BY DEF Retired, Deployed, DueNumber, DueFailed

LEMMA ThreadsOrder ==
  ASSUME IInv, NEW j \in jobs, Execute(j)
  PROVE  \/ UNCHANGED bot_order_broker
         \/ \E order \in BotOrder : bot_order_broker' = Append(bot_order_broker, order)
<1>1. CASE TellFactory(j)
  BY <1>1, ToldFacts DEF Updates
<1>2. CASE RequestBot(j)
  BY <1>2, JobFacts DEF RequestBot, BotCreationOrder, BotOrder
<1>3. CASE Start(j) \/ StartRaises(j) \/ Simulate(j) \/ GetNonce(j) \/ Send(j)
  BY <1>3 DEF Start, StartRaises, Simulate, GetNonce, Send
<1>4. CASE SendRefused(j) \/ GetReceipt(j) \/ Timeout(j) \/ NodeRaises(j)
  BY <1>4 DEF SendRefused, GetReceipt, Timeout, NodeRaises, Acknowledge
<1>5. CASE NoBotLeft(j) \/ CountUse(j) \/ ReplaceBot(j)
  BY <1>5 DEF NoBotLeft, CountUse, ReplaceBot
<1> QED BY <1>1, <1>2, <1>3, <1>4, <1>5 DEF Execute, Proceeds

LEMMA ThreadRetires ==
  ASSUME IInv, NEW j \in jobs, Execute(j), NEW bot, Retired(bot)
  PROVE  Retired(bot)'
<1>1. UNCHANGED <<rows, bot_owner>>
  BY KindsOfSteps, KindsTouchChain, ThreadsTyped DEF ThreadStep
<1>2. CASE UNCHANGED bot_order_broker
  BY <1>1, <1>2, RetiredStays
<1>3. ASSUME NEW order \in BotOrder, bot_order_broker' = Append(bot_order_broker, order)
      PROVE  Retired(bot)'
  <2>1. ASSUME NEW row \in ToSet(rows)
        PROVE  /\ DueNumber(row, bot_order_broker) >= BOT_MAX_NUMBER_USED
                    => DueNumber(row, bot_order_broker') >= BOT_MAX_NUMBER_USED
               /\ DueFailed(row, bot_order_broker) => DueFailed(row, bot_order_broker')
    BY <1>3, RowTyped, DueAppend, BotFactoryAssumption
  <2> QED BY <1>1, <2>1, RetiredByRows DEF Deployed
<1> QED BY <1>2, <1>3, ThreadsOrder

(* The row of a bot that is given up shows why.                            *)
LEMMA ReplacedIsRetired ==
  ASSUME IInv, OneAccount, OneThread, BooksInv, RowsApart,
         NEW j \in jobs, Execute(j), ReplaceBot(j), NEW bot, Present(bot)
  PROVE  Retired(bot)'
<1>1. PICK a \in Accounts : HasBot(a) /\ bot_of[a].address = bot
  BY DEF Present
<1>2. OwnBooks(a)
  BY <1>1 DEF BooksInv, BooksOf
<1>3. j.phase = "replace"
  BY DEF ReplaceBot
<1>4. WornOut(bot_of[a])
  BY <1>2, <1>3 DEF OwnBooks
<1>5. PICK row \in ToSet(rows) : InStep(row, a)
  BY <1>2 DEF OwnBooks
<1>6. AgreesWith(row, bot_order_broker, bot_of[a])
  BY <1>3, <1>5, Alone DEF InStep
<1>7. \/ DueNumber(row, bot_order_broker) >= BOT_MAX_NUMBER_USED
      \/ DueFailed(row, bot_order_broker)
  BY <1>4, <1>6 DEF AgreesWith, WornOut
<1>8. ASSUME NEW other \in ToSet(rows), other.address = bot
      PROVE  other = row
  BY <1>1, <1>6, <1>8 DEF RowsApart, AgreesWith, ToSet
<1>9. bot \in Deployed
  BY <1>1, <1>6 DEF RowsApart, AgreesWith
<1>10. Retired(bot)
  BY <1>7, <1>8, <1>9 DEF Retired
<1> QED BY <1>10, ThreadRetires

(* The present bot of an account stays until it is given up.               *)
LEMMA BotStays ==
  ASSUME IInv, NEW j \in jobs, Execute(j), ~ ReplaceBot(j), NEW a \in Accounts, HasBot(a)
  PROVE  HasBot(a)'
<1> USE DEF IInv, TypeOK, ThreadsTypeOK
<1>1. CASE UNCHANGED bot_of
  BY <1>1 DEF HasBot
<1>2. CASE CountUse(j)
  <2>1. j.account \in Accounts /\ HasBot(j.account)
    BY <1>2, JobFacts DEF CountUse
  <2>2. Used(bot_of[j.account], j.status) # None
    BY <2>1, BotOfFacts, UsedFields, BotFactoryAssumption
  <2> QED BY <1>2, <2>1, <2>2 DEF CountUse, HasBot
<1>3. CASE Start(j) \/ StartRaises(j) \/ Simulate(j) \/ GetNonce(j) \/ Send(j)
  BY <1>1, <1>3 DEF Start, StartRaises, Simulate, GetNonce, Send
<1>4. CASE SendRefused(j) \/ GetReceipt(j) \/ Timeout(j) \/ NodeRaises(j)
  BY <1>1, <1>4 DEF SendRefused, GetReceipt, Timeout, NodeRaises, Acknowledge
<1>5. CASE NoBotLeft(j) \/ TellFactory(j) \/ RequestBot(j)
  BY <1>1, <1>5 DEF NoBotLeft, TellFactory, RequestBot
<1> QED BY <1>2, <1>3, <1>4, <1>5 DEF Execute, Proceeds

LEMMA NextKnown ==
  ASSUME IInv, ~ DbMayFail, OneAccount, OneThread, BooksInv, RowsApart, [Next]_vars,
         NEW bot, Known(bot)
  PROVE  Known(bot)'
<1>1. CASE UNCHANGED <<rows, bot_order_broker, bot_owner, bot_of>>
  BY <1>1, RetiredStays DEF Known, Present, HasBot
<1>2. ASSUME NEW j \in jobs, Execute(j)
      PROVE  Known(bot)'
  <2>1. CASE Retired(bot)
    BY <1>2, <2>1, ThreadRetires DEF Known
  <2>2. CASE Present(bot) /\ ReplaceBot(j)
    BY <1>2, <2>2, ReplacedIsRetired DEF Known
  <2>3. CASE Present(bot) /\ ~ ReplaceBot(j)
    <3>1. PICK a \in Accounts : HasBot(a) /\ bot_of[a].address = bot
      BY <2>3 DEF Present
    <3>2. HasBot(a)'
      BY <1>2, <2>3, <3>1, BotStays
    <3>3. bot_of'[a].address = bot
      BY <1>2, <3>1, <3>2, BotOfKept
    <3> QED BY <3>2, <3>3 DEF Known, Present
  <2> QED BY <2>1, <2>2, <2>3 DEF Known
<1>3. CASE AssignBot
  <2>1. ~ Present(bot)
    BY <1>3, AssignBooks DEF BooksInv, Present
  <2> QED BY <1>3, <2>1, RetiredStays DEF Known, AssignBot, chainVars
<1>4. CASE FactoryTask
  BY <1>4, FactoryRetires DEF FactoryTask, threadVars, Known, Present, HasBot
<1>5. CASE ClientNext
  BY <1>1, <1>5 DEF ClientNext, SendBuy, SendSell, HandleAck, MainStep, factoryVars,
                    threadVars, chainVars
<1>6. CASE OrderTask
  BY <1>1, <1>6, NewCalls DEF chainVars
<1>7. CASE MineTransaction
  BY <1>1, <1>7 DEF MineTransaction, Mine, factoryVars, threadVars
<1>8. CASE UNCHANGED vars
  BY <1>1, <1>8 DEF vars, factoryVars, threadVars, chainVars
<1> QED BY <1>2, <1>3, <1>4, <1>5, <1>6, <1>7, <1>8 DEF Next, ExecutorProcess

(* Every row has an address of its own.                                    *)
LEMMA NextRowsApart ==
  ASSUME IInv, ~ DbMayFail, RowsApart, [Next]_vars
  PROVE  RowsApart'
<1>1. CASE UNCHANGED <<rows, bot_owner>>
  BY <1>1 DEF RowsApart, Deployed
<1>2. CASE FactoryTask
  <2>1. Deployed \subseteq Deployed'
    BY <1>2, DeployedStay
  <2>2. CASE UNCHANGED rows
    BY <2>1, <2>2 DEF RowsApart
  <2>3. CASE UpdateBot
    <3>1. /\ DOMAIN rows' = DOMAIN rows
          /\ \A i \in DOMAIN rows : rows'[i].address = rows[i].address
      BY <2>3, UpdateMaps, DueAfterHead, RowTyped DEF UpdateBot, Handles
    <3> QED BY <2>1, <3>1 DEF RowsApart, ToSet
  <2>4. ASSUME NEW address \in Bots, NEW owner \in Accounts, CreateBot(address, owner)
        PROVE  RowsApart'
    <3> DEFINE new == NewBot(address, owner)
    <3>1. rows' = Append(rows, new) /\ new \in BotRow /\ new.address = address
      BY <2>4, NoneIsNoBody DEF CreateBot, NewBot, BotRow
    <3> HIDE DEF new
    <3>2. /\ DOMAIN rows' = 1 .. Len(rows) + 1 /\ rows'[Len(rows) + 1] = new
          /\ \A i \in 1 .. Len(rows) : rows'[i] = rows[i]
          /\ ToSet(rows') = ToSet(rows) \cup {new}
      BY <3>1, RowTyped, AppendFacts, AppendProperties, LenProperties
    <3>3. address \notin Deployed /\ address \in Deployed'
      BY <1>2, <2>4, DeployedStay
    <3>4. \A i \in DOMAIN rows : rows[i].address # address
      BY <3>3 DEF RowsApart, ToSet
    <3>5. \A i \in DOMAIN rows' : i \in DOMAIN rows \/ i = Len(rows) + 1
      BY <3>2, RowTyped
    <3>6. \A i, k \in DOMAIN rows' : rows'[i].address = rows'[k].address => i = k
      BY <3>1, <3>2, <3>4, <3>5, RowTyped DEF RowsApart
    <3>7. \A row \in ToSet(rows') : row.address \in Deployed'
      BY <2>1, <3>1, <3>2, <3>3 DEF RowsApart
    <3> QED BY <3>6, <3>7 DEF RowsApart
  <2> QED BY <1>2, <2>2, <2>3, <2>4 DEF FactoryTask, FactoryNext, FoundBot, CreateBotFails,
                                       DatabaseRaises
<1>3. ASSUME NEW j \in jobs, Execute(j)
      PROVE  RowsApart'
  BY <1>1, <1>3, KindsOfSteps, KindsTouchChain, ThreadsTyped DEF ThreadStep
<1>4. CASE AssignBot
  BY <1>1, <1>4 DEF AssignBot, chainVars
<1>5. CASE ClientNext
  BY <1>1, <1>5 DEF ClientNext, SendBuy, SendSell, HandleAck, MainStep, factoryVars, chainVars
<1>6. CASE OrderTask
  BY <1>1, <1>6, NewCalls DEF chainVars
<1>7. CASE MineTransaction
  BY <1>1, <1>7 DEF MineTransaction, Mine, factoryVars
<1>8. CASE UNCHANGED vars
  BY <1>1, <1>8 DEF vars, factoryVars, chainVars
<1> QED BY <1>2, <1>3, <1>4, <1>5, <1>6, <1>7, <1>8 DEF Next, ExecutorProcess

LEMMA ReportsOfSteps ==
  ASSUME NEW j, Execute(j)
  PROVE  \/ UNCHANGED execution_report
         \/ \E status \in TxStatus :
               /\ j.phase = "simulate"
               /\ execution_report' = Append(execution_report, Ack(j, status))
         \/ \E status : j.phase \in ChainPhases /\ Acknowledge(j, status)
<1>1. CASE Simulate(j)
  BY <1>1 DEF Simulate
<1>2. CASE SendRefused(j) \/ GetReceipt(j) \/ Timeout(j) \/ NodeRaises(j)
  <2>1. \E status : j.phase \in ChainPhases /\ Acknowledge(j, status)
    BY <1>2 DEF SendRefused, GetReceipt, Timeout, TimesOut, NodeRaises, ChainPhases
  <2> QED BY <2>1
<1>3. CASE Start(j) \/ StartRaises(j) \/ GetNonce(j) \/ Send(j)
  BY <1>3 DEF Start, StartRaises, GetNonce, Send
<1>4. CASE NoBotLeft(j) \/ TellFactory(j) \/ CountUse(j) \/ ReplaceBot(j) \/ RequestBot(j)
  BY <1>4 DEF NoBotLeft, TellFactory, CountUse, ReplaceBot, RequestBot, TailStep
<1> QED BY <1>1, <1>2, <1>3, <1>4 DEF Execute, Proceeds

(* What is new in the history.                                             *)
LEMMA ThreadHistory ==
  ASSUME IInv, NEW j \in jobs, Execute(j), ToSet(execution_report) \subseteq acked,
         acked' = acked \cup ToSet(execution_report')
  PROVE  \/ acked' = acked
         \/ /\ j.phase = "simulate"
            /\ \E status : acked' = acked \cup {Ack(j, status)}
         \/ /\ j.phase \in ChainPhases
            /\ \E status : acked' = acked \cup {Ack(j, status)} /\ Acknowledge(j, status)
<1>1. CASE UNCHANGED execution_report
  BY <1>1
<1>2. ASSUME NEW status, execution_report' = Append(execution_report, Ack(j, status)),
             execution_report' \in Seq(ExecutionAck)
      PROVE  acked' = acked \cup {Ack(j, status)}
  <2> DEFINE ack == Ack(j, status)
             n == Len(execution_report)
  <2>1. execution_report \in Seq(ExecutionAck)
    BY DEF IInv, TypeOK, QueuesTypeOK
  <2> HIDE DEF ack
  <2>2. ToSet(execution_report') = ToSet(execution_report) \cup {ack}
    <3>1. /\ DOMAIN execution_report = 1 .. n /\ n \in Nat
          /\ DOMAIN execution_report' = 1 .. n + 1
          /\ execution_report'[n + 1] = ack
          /\ \A i \in 1 .. n : execution_report'[i] = execution_report[i]
      BY <1>2, <2>1, LenProperties DEF ack
    <3> HIDE DEF n
    <3> QED BY <3>1 DEF ToSet
  <2> QED BY <2>2 DEF ack
<1>3. execution_report' \in Seq(ExecutionAck)
  BY ThreadsAnswer, ReportsTyped
<1> QED BY <1>1, <1>2, <1>3, ReportsOfSteps DEF Acknowledge

(* Other steps acknowledge nothing.                                        *)
LEMMA OtherHistory ==
  ASSUME IInv, ToSet(execution_report) \subseteq acked, [Next]_vars,
         ~ ExecutorProcess(\E j \in jobs : Execute(j))
  PROVE  /\ acked' = acked /\ ToSet(execution_report') \subseteq acked
         /\ jobs \subseteq jobs' /\ \A k \in jobs' : k \in jobs \/ k.phase = "queued"
         /\ mempool' \subseteq mempool
<1>1. CASE ClientNext
  <2>1. UNCHANGED <<acked, jobs, mempool>>
    BY <1>1 DEF ClientNext, SendBuy, SendSell, HandleAck, MainStep, threadVars, chainVars
  <2>2. ToSet(execution_report') \subseteq ToSet(execution_report)
    <3>1. CASE UNCHANGED execution_report
      BY <3>1
    <3>2. CASE HandleAck
      BY <3>2, TailFacts DEF HandleAck, IInv, TypeOK, QueuesTypeOK
    <3> QED BY <1>1, <3>1, <3>2 DEF ClientNext, SendBuy, SendSell
  <2> QED BY <2>1, <2>2
<1>2. CASE ExecutorProcess(OrderTask)
  <2>1. UNCHANGED <<execution_report, mempool>>
    BY <1>2, NewCalls DEF ExecutorProcess, chainVars
  <2>2. jobs \subseteq jobs' /\ \A k \in jobs' : k \in jobs \/ k.phase = "queued"
    BY <1>2, NewCalls DEF ExecutorProcess
  <2> QED BY <1>2, <2>1, <2>2 DEF ExecutorProcess
<1>3. CASE ExecutorProcess(AssignBot)
  BY <1>3 DEF ExecutorProcess, AssignBot, queues, chainVars
<1>4. CASE ExecutorProcess(FactoryTask)
  <2>1. UNCHANGED mempool
    BY <1>4 DEF ExecutorProcess, FactoryTask, FactoryNext, FoundBot, CreateBot, CreateBotFails,
                UpdateBot, DatabaseRaises, Deploy, Create, chainVars
  <2> QED BY <1>4, <2>1 DEF ExecutorProcess, FactoryTask, queues, threadVars
<1>5. CASE ExecutorProcess(MineTransaction)
  BY <1>5 DEF ExecutorProcess, MineTransaction, Mine, queues, threadVars
<1>6. CASE UNCHANGED vars
  BY <1>6 DEF vars, queues, threadVars, clientVars, chainVars
<1> QED BY <1>1, <1>2, <1>3, <1>4, <1>5, <1>6 DEF Next

LEMMA NextBotsKnown ==
  ASSUME IInv, ToSet(execution_report) \subseteq acked, BotsKnown, [Next]_vars,
         \A bot : Known(bot) => Known(bot)'
  PROVE  BotsKnown'
<1> USE DEF BotsKnown
<1>1. CASE UNCHANGED <<glb_inventory, execution_broker, acked, jobs>>
  BY <1>1
<1>2. ASSUME NEW pair \in Pairs, NEW is_paper \in Paper, SendBuy(pair, is_paper)
      PROVE  BotsKnown'
  <2> DEFINE order == BuyOrder(pair, is_paper)
  <2>1. order \in ExecutionOrder /\ order.is_buy
    BY OrdersOfMainProcess DEF BuyOrder
  <2> HIDE DEF order
  <2>2. ToSet(execution_broker') = ToSet(execution_broker) \cup {order}
    BY <1>2, <2>1, AppendFacts DEF SendBuy, IInv, TypeOK, QueuesTypeOK, order
  <2> QED BY <1>2, <2>1, <2>2 DEF SendBuy, MainStep, threadVars
<1>3. ASSUME NEW position \in glb_inventory, SendSell(position)
      PROVE  BotsKnown'
  <2> DEFINE order == SellOrder(position)
  <2>1. order \in ExecutionOrder /\ order.bot = position.bot
    BY OrdersOfMainProcess DEF SellOrder, IInv, TypeOK
  <2> HIDE DEF order
  <2>2. ToSet(execution_broker') = ToSet(execution_broker) \cup {order}
    BY <1>3, <2>1, AppendFacts DEF SendSell, IInv, TypeOK, QueuesTypeOK, order
  <2> QED BY <1>3, <2>1, <2>2 DEF SendSell, MainStep, threadVars
<1>4. CASE HandleAck
  <2> DEFINE ack == Head(execution_report)
  <2>1. ack \in acked
    BY <1>4, TailFacts DEF HandleAck, IInv, TypeOK, QueuesTypeOK
  <2>2. glb_inventory' \subseteq glb_inventory \cup {NewPosition(ack)}
    BY <1>4 DEF HandleAck
  <2>3. NewPosition(ack).bot = ack.bot
    BY DEF NewPosition
  <2> HIDE DEF ack
  <2> QED BY <1>4, <2>1, <2>2, <2>3 DEF HandleAck, MainStep, threadVars
<1>5. CASE ExecutorProcess(OrderTask)
  <2>1. /\ ToSet(execution_broker') \subseteq ToSet(execution_broker)
        /\ Head(execution_broker) \in ToSet(execution_broker)
    BY <1>5, NewCalls, TailFacts DEF ExecutorProcess, IInv, TypeOK, QueuesTypeOK
  <2>2. UNCHANGED <<glb_inventory, execution_report>>
    BY <1>5, NewCalls DEF ExecutorProcess
  <2>3. acked' = acked
    BY <1>5, <2>2 DEF ExecutorProcess
  <2>4. ASSUME NEW k \in jobs'
        PROVE  /\ ~ k.order.is_buy => Known(k.order.bot)
               /\ k.phase # "queued" => Known(k.bot)
    BY <1>5, <2>1, NewCalls DEF ExecutorProcess
  <2> QED BY <2>1, <2>2, <2>3, <2>4
<1>6. ASSUME NEW j \in jobs, Execute(j), ExecutorProcess(\E k \in jobs : Execute(k))
      PROVE  BotsKnown'
  <2>1. UNCHANGED <<glb_inventory, execution_broker>>
    BY <1>6, ThreadsTyped DEF ExecutorProcess, ThreadStep
  <2>2. ASSUME NEW ack \in acked'
        PROVE  Known(ack.bot)
    <3>1. CASE ack \in acked
      BY <3>1
    <3>2. CASE ack \notin acked
      <4>1. PICK status : ack = Ack(j, status) /\ j.phase # "queued"
        BY <1>6, <2>2, <3>2, ThreadHistory DEF ExecutorProcess, ChainPhases
      <4>2. ack.bot = j.bot
        BY <4>1 DEF Ack
      <4> QED BY <4>1, <4>2
    <3> QED BY <3>1, <3>2
  <2>3. ASSUME NEW k \in jobs'
        PROVE  /\ ~ k.order.is_buy => Known(k.order.bot)
               /\ k.phase # "queued" => Known(k.bot)
    <3>1. CASE k \in jobs
      BY <3>1
    <3>2. CASE Begins(j) /\ k \notin jobs
      <4>1. /\ SameCall(j, k)
            /\ k.bot = IF j.order.bot # None THEN j.order.bot ELSE bot_of[j.account].address
            /\ j.order.bot # None \/ HasBot(j.account)
        BY <3>2 DEF Begins
      <4>2. JobOK(j) /\ j.account \in Accounts
        BY JobFacts
      <4>3. CASE j.order.is_buy
        <5>1. j.order.bot = None
          BY <4>2, <4>3 DEF JobOK, Shaped
        <5>2. Present(k.bot)
          BY <4>1, <4>2, <5>1 DEF Present
        <5> QED BY <4>1, <4>3, <5>2 DEF Known, SameCall
      <4>4. CASE ~ j.order.is_buy
        BY <4>1, <4>2, <4>4 DEF JobOK, Shaped, SameCall
      <4> QED BY <4>3, <4>4
    <3>3. CASE ~ Begins(j) /\ k \notin jobs
      <4>1. SameCall(j, k) /\ k.bot = j.bot /\ j.phase # "queued"
        <5>1. CASE Asks(j) \/ Sends(j)
          BY <3>3, <5>1 DEF Asks, Sends, Advances
        <5>2. CASE \E status \in TxStatus : Settles(j, status)
          BY <3>3, <5>2 DEF Settles, Advances, Running, ChainPhases
        <5>3. CASE Leaves(j)
          BY <3>3, <5>3 DEF Leaves, Advances, Returns
        <5> QED BY <1>6, <3>3, <5>1, <5>2, <5>3, KindsOfSteps
      <4> QED BY <4>1 DEF SameCall
    <3> QED BY <3>1, <3>2, <3>3
  <2> QED BY <2>1, <2>2, <2>3
<1>7. CASE ExecutorProcess(AssignBot) \/ ExecutorProcess(FactoryTask)
             \/ ExecutorProcess(MineTransaction)
  <2>1. UNCHANGED <<glb_inventory, execution_broker, execution_report, jobs>>
    BY <1>7 DEF ExecutorProcess, AssignBot, FactoryTask, MineTransaction, queues, threadVars
  <2>2. acked' = acked
    BY <1>7, <2>1 DEF ExecutorProcess
  <2> QED BY <1>1, <2>1, <2>2
<1>8. CASE UNCHANGED vars
  BY <1>1, <1>8 DEF vars, queues, threadVars, clientVars
<1>9. CASE ExecutorProcess(\E k \in jobs : Execute(k))
  BY <1>6, <1>9 DEF ExecutorProcess
<1> QED BY <1>2, <1>3, <1>4, <1>5, <1>7, <1>8, <1>9 DEF Next, ClientNext

FailedSell(ack) == ~ ack.is_buy /\ ~ ack.is_paper /\ ack.tx_status = "FAILED"

(* A thread that has a sell fail is about to count it.                     *)
LEMMA NewlyFailed ==
  ASSUME IInv, LinkInv, NEW j \in jobs, Execute(j), ToSet(execution_report) \subseteq acked,
         acked' = acked \cup ToSet(execution_report'),
         NEW bot \in FailedBots', bot \notin FailedBots
  PROVE  \E k \in jobs' : ~ k.order.is_buy /\ k.status = "FAILED" /\ k.phase = "check"
<1>1. PICK ack \in acked' : ack.bot = bot /\ FailedSell(ack)
  BY DEF FailedBots, FailedSell
<1>2. ack \notin acked
  BY <1>1 DEF FailedBots, FailedSell
<1>3. PICK status : /\ ack = Ack(j, status)
                    /\ j.phase = "simulate" \/ (j.phase \in ChainPhases /\ Acknowledge(j, status))
  BY <1>1, <1>2, ThreadHistory
<1>4. /\ ack.is_buy = j.order.is_buy /\ ack.is_paper = j.order.is_paper
      /\ ack.tx_status = status
  BY <1>3 DEF Ack
<1>5. j.phase # "simulate"
  BY <1>1, <1>4 DEF LinkInv, FailedSell
<1> DEFINE next == [j EXCEPT !.phase = "check", !.status = status]
<1>6. next \in jobs'
  BY <1>3, <1>5 DEF Acknowledge, Becomes
<1>7. next.phase = "check" /\ next.status = status /\ next.order = j.order
  BY JobFacts DEF Job
<1> HIDE DEF next
<1> QED BY <1>1, <1>4, <1>6, <1>7 DEF FailedSell

(* The sell that failed is counted against the present bot, and it is      *)
(* given up.                                                               *)
LEMMA FailureIsCounted ==
  ASSUME IInv, NEW j \in jobs, Execute(j), HasBot(j.account)',
         ~ j.order.is_buy, j.status = "FAILED", j.phase \in {"check", "count", "replace"}
  PROVE  \E k \in jobs' : /\ ~ k.order.is_buy /\ k.status = "FAILED"
                          /\ k.phase \in {"check", "count", "replace"}
<1>1. j \in Job /\ j.account \in Accounts
  BY JobFacts
<1>2. HasBot(j.account)
  BY <1>1, BotOfKept
<1>3. ASSUME NEW phase \in {"count", "replace"}, Goes(j, phase)
      PROVE  \E k \in jobs' : /\ ~ k.order.is_buy /\ k.status = "FAILED"
                              /\ k.phase \in {"check", "count", "replace"}
  <2> DEFINE next == [j EXCEPT !.phase = phase]
  <2>1. next \in jobs'
    BY <1>3 DEF Goes, Becomes
  <2>2. next.phase = phase /\ next.status = j.status /\ next.order = j.order
    BY <1>1 DEF Job
  <2> HIDE DEF next
  <2> QED BY <2>1, <2>2
<1>4. CASE TellFactory(j)
  BY <1>3, <1>4 DEF TellFactory
<1>5. CASE CountUse(j)
  <2>1. bot_of'[j.account] = Used(bot_of[j.account], j.status)
    BY <1>1, <1>5 DEF CountUse, IInv, TypeOK, ThreadsTypeOK
  <2>2. WornOut(bot_of'[j.account])
    BY <1>1, <1>2, <2>1, BotOfFacts, UsedFields DEF WornOut
  <2> QED BY <1>3, <1>5, <2>2 DEF CountUse
<1>6. CASE ReplaceBot(j)
  BY <1>1, <1>6 DEF ReplaceBot, HasBot, IInv, TypeOK, ThreadsTypeOK
<1>7. CASE NoBotLeft(j)
  BY <1>2, <1>7 DEF NoBotLeft
<1>8. j.phase \notin {"queued", "simulate", "nonce", "send", "wait", "request"}
  OBVIOUS
<1> QED BY <1>4, <1>5, <1>6, <1>7, <1>8
        DEF Execute, Proceeds, Start, StartRaises, MayStart, Queued, Simulate, GetNonce, Send,
            SendRefused, GetReceipt, Timeout, TimesOut, NodeRaises, ChainPhases, RequestBot

\* The last two parts of RetireInv.
FailuresCounted ==
  \A bot \in FailedBots : Present(bot) =>
     \E j \in jobs : /\ ~ j.order.is_buy /\ j.status = "FAILED"
                     /\ j.phase \in {"check", "count", "replace"}
BuysUseOthers ==
  \A j \in jobs : j.order.is_buy /\ j.phase \in ChainPhases => j.bot \notin FailedBots

LEMMA ThreadFailures ==
  ASSUME IInv, OneAccount, OneThread, LinkInv, RetireInv, NEW j \in jobs, Execute(j),
         acked' = acked \cup ToSet(execution_report')
  PROVE  FailuresCounted' /\ BuysUseOthers'
<1>1. \A k \in jobs \ {j} : k.phase = "queued"
  BY Alone
<1>2. ToSet(execution_report) \subseteq acked
  BY DEF RetireInv
<1>3. ASSUME NEW bot \in FailedBots', Present(bot)'
      PROVE  \E k \in jobs' : /\ ~ k.order.is_buy /\ k.status = "FAILED"
                              /\ k.phase \in {"check", "count", "replace"}
  <2>1. PICK a \in Accounts : HasBot(a)' /\ bot_of'[a].address = bot
    BY <1>3 DEF Present
  <2>2. HasBot(a) /\ bot_of[a].address = bot /\ a = j.account
    BY <2>1, BotOfKept, JobFacts DEF OneAccount
  <2>3. CASE bot \in FailedBots
    <3>1. PICK k \in jobs : /\ ~ k.order.is_buy /\ k.status = "FAILED"
                            /\ k.phase \in {"check", "count", "replace"}
      BY <2>2, <2>3 DEF RetireInv, Present
    <3>2. k = j
      BY <1>1, <3>1
    <3> QED BY <2>1, <2>2, <3>1, <3>2, FailureIsCounted
  <2>4. CASE bot \notin FailedBots
    <3>1. \E k \in jobs' : ~ k.order.is_buy /\ k.status = "FAILED" /\ k.phase = "check"
      BY <1>2, <1>3, <2>4, NewlyFailed
    <3> QED BY <3>1
  <2> QED BY <2>3, <2>4
<1>4. ASSUME NEW k \in jobs', k.order.is_buy, k.phase \in ChainPhases
      PROVE  k.bot \notin FailedBots'
  <2>1. k \notin jobs \ {j}
    BY <1>1, <1>4 DEF ChainPhases
  <2>2. CASE Begins(j)
    <3>1. acked' = acked
      BY <1>2, <2>2 DEF Begins
    <3>2. /\ SameCall(j, k)
          /\ k.bot = IF j.order.bot # None THEN j.order.bot ELSE bot_of[j.account].address
          /\ j.order.bot # None \/ HasBot(j.account)
          /\ j.phase = "queued"
      BY <2>1, <2>2 DEF Begins
    <3>3. j.order.bot = None /\ j.account \in Accounts
      BY <1>4, <3>2, JobFacts DEF JobOK, Shaped, SameCall
    <3>4. Present(k.bot)
      BY <3>2, <3>3 DEF Present
    <3>5. \A i \in jobs : i.phase = "queued"
      BY <1>1, <3>2
    <3>6. k.bot \notin FailedBots
      BY <3>4, <3>5 DEF RetireInv
    <3> QED BY <3>1, <3>6 DEF FailedBots
  <2>3. CASE Asks(j) \/ Sends(j)
    <3>1. acked' = acked
      BY <1>2, <2>3 DEF Asks, Sends
    <3>2. SameCall(j, k) /\ k.bot = j.bot /\ j.phase \in ChainPhases
      BY <2>1, <2>3 DEF Asks, Sends, Advances, ChainPhases
    <3>3. k.bot \notin FailedBots
      BY <1>4, <3>2 DEF RetireInv, SameCall
    <3> QED BY <3>1, <3>3 DEF FailedBots
  <2>4. CASE Leaves(j) \/ \E status \in TxStatus : Settles(j, status)
    BY <1>4, <2>1, <2>4 DEF Leaves, Settles, Advances, ChainPhases, TailPhases
  <2> QED BY <2>2, <2>3, <2>4, KindsOfSteps
<1> QED BY <1>3, <1>4 DEF FailuresCounted, BuysUseOthers

(* An account is not given a bot whose sell has failed.                    *)
LEMMA NotAssignedAgain ==
  ASSUME IInv, OneAccount, BooksInv, BotsKnown, AssignBot, NEW bot \in FailedBots
  PROVE  ~ Present(bot)'
<1> SUFFICES ASSUME NEW a \in Accounts, HasBot(a)', bot_of'[a].address = bot PROVE FALSE
  BY DEF Present
<1>1. /\ \A c \in Accounts : ~ HasBot(c)
      /\ bot_order_broker = <<>>
  BY AssignBooks DEF BooksInv
<1>2. PICK row \in ToSet(rows) : bot_of'[a] = row /\ row.owner = a /\ ~ WornOut(row)
  BY AssignBooks DEF BooksInv
<1>3. Retired(bot)
  BY <1>1 DEF BotsKnown, FailedBots, Known, Present
<1>4. \/ DueNumber(row, <<>>) >= BOT_MAX_NUMBER_USED
      \/ DueFailed(row, <<>>)
  BY <1>1, <1>2, <1>3 DEF Retired
<1>5. row \in BotRow
  BY RowTyped
<1> QED BY <1>2, <1>4, <1>5, DueNow DEF WornOut

LEMMA OtherFailures ==
  ASSUME IInv, OneAccount, BooksInv, RetireInv, [Next]_vars,
         ~ ExecutorProcess(\E j \in jobs : Execute(j))
  PROVE  FailuresCounted' /\ BuysUseOthers'
<1>1. /\ acked' = acked /\ jobs \subseteq jobs'
      /\ \A k \in jobs' : k \in jobs \/ k.phase = "queued"
  BY OtherHistory DEF RetireInv
<1>2. FailedBots' = FailedBots
  BY <1>1 DEF FailedBots
<1>3. ASSUME NEW bot \in FailedBots, Present(bot)'
      PROVE  Present(bot)
  <2>1. UNCHANGED bot_of \/ AssignBot
    BY NewCalls DEF Next, ExecutorProcess, ClientNext, SendBuy, SendSell, HandleAck, MainStep,
                    FactoryTask, MineTransaction, threadVars, vars
  <2> QED BY <1>3, <2>1, NotAssignedAgain DEF RetireInv, Present, HasBot
<1>4. FailuresCounted'
  BY <1>1, <1>2, <1>3 DEF RetireInv, FailuresCounted
<1>5. BuysUseOthers'
  BY <1>1, <1>2 DEF RetireInv, BuysUseOthers, ChainPhases
<1> QED BY <1>4, <1>5

LEMMA NextRetire ==
  ASSUME IInv, ~ DbMayFail, OneAccount, OneThread, LinkInv, BooksInv, RetireInv, [Next]_vars
  PROVE  RetireInv'
<1>1. RowsApart /\ BotsKnown /\ ToSet(execution_report) \subseteq acked
  BY DEF RetireInv
<1>2. RowsApart'
  BY <1>1, NextRowsApart
<1>3. BotsKnown'
  BY <1>1, NextKnown, NextBotsKnown
<1>4. ToSet(execution_report') \subseteq acked' /\ FailuresCounted' /\ BuysUseOthers'
  <2>1. CASE ExecutorProcess(\E j \in jobs : Execute(j))
    BY <2>1, ThreadFailures DEF ExecutorProcess
  <2>2. CASE ~ ExecutorProcess(\E j \in jobs : Execute(j))
    BY <1>1, <2>2, OtherHistory, OtherFailures
  <2> QED BY <2>1, <2>2
<1> QED BY <1>2, <1>3, <1>4 DEF RetireInv, FailuresCounted, BuysUseOthers

(* A transaction that is new in the pool is of a call that is under way.   *)
LEMMA NewTransactions ==
  ASSUME IInv, LinkInv, ToSet(execution_report) \subseteq acked, [Next]_vars,
         NEW tx \in mempool' \ mempool
  PROVE  \E j \in jobs : /\ j.phase \in ChainPhases
                         /\ tx.bot = j.bot /\ tx.is_buy = j.order.is_buy
<1>1. PICK j \in jobs : Execute(j)
  BY OtherHistory DEF ExecutorProcess
<1>2. UNCHANGED mempool \/ Expire(j.n) \/ (j.phase = "send" /\ Accept(TxOf(j)))
  BY <1>1, KindsOfSteps, KindsTouchChain
<1>3. CASE j.phase = "send" /\ Accept(TxOf(j))
  BY <1>3 DEF Accept, TxOf, ChainPhases
<1>4. CASE Expire(j.n) /\ ~ (j.phase = "send" /\ Accept(TxOf(j)))
  <2>1. PICK old \in mempool :
           tx = IF old.n = j.n
                THEN [old EXCEPT !.late = @ \/ RECEIPT_TIMEOUT >= DEADLINE_DELAY_SECONDS]
                ELSE old
    BY <1>4 DEF Expire
  <2>2. old.n = j.n
    BY <2>1
  <2>3. SameTx(old, tx)
    BY <1>2, <1>4, <2>1, <2>2 DEF SameTx, IInv, TypeOK, ChainTypeOK, Transaction
  <2>4. old.bot = j.bot /\ old.is_buy = j.order.is_buy
    BY <2>2 DEF LinkInv
  <2>5. j.phase \in ChainPhases
    <3>1. CASE Begins(j) \/ Asks(j) \/ Leaves(j)
      BY <3>1 DEF Begins, Asks, Leaves, chainVars
    <3>2. CASE Sends(j)
      BY <3>2 DEF Sends, ChainPhases
    <3>3. CASE \E status \in TxStatus : Settles(j, status)
      BY <3>3 DEF Settles, Outcome, chainVars, ChainPhases
    <3> QED BY <1>1, <3>1, <3>2, <3>3, KindsOfSteps
  <2> QED BY <2>3, <2>4, <2>5 DEF SameTx
<1> QED BY <1>2, <1>3, <1>4

(* A program with one account buys nothing with a bot whose sell has       *)
(* failed, if the database answers and what it held at the start was kept  *)
(* the same way: the account gives the bot up before the next order has a  *)
(* thread, and by the time the factory looks for another one the row of    *)
(* this one is worn out (buysell_executor.py:166-178, bot_factory.py:93,   *)
(* 137-140).                                                               *)
THEOREM FailedBotsAreRetired ==
  ASSUME OneAccount, ~ DbMayFail, RestoredBotsRetired
  PROVE  Spec => FailedBotRetired
<1> DEFINE Buys(tx) == tx.is_buy =>
             ~ \E ack \in acked : /\ ~ ack.is_buy /\ ~ ack.is_paper
                                  /\ ack.tx_status = "FAILED"
                                  /\ ack.bot = tx.bot
<1>1. Init => RetireInv
  BY InitRetire
<1>2. /\ IInv /\ LinkInv /\ OneThread /\ BooksInv /\ RetireInv /\ [Next]_vars
      => RetireInv'
  BY NextRetire
<1>3. IInv /\ LinkInv /\ RetireInv /\ [Next]_vars
        => [\A tx \in mempool' \ mempool : Buys(tx)]_vars
  <2> SUFFICES ASSUME IInv, LinkInv, RetireInv, [Next]_vars,
                      NEW tx \in mempool' \ mempool, tx.is_buy
               PROVE  ~ \E ack \in acked : /\ ~ ack.is_buy /\ ~ ack.is_paper
                                           /\ ack.tx_status = "FAILED"
                                           /\ ack.bot = tx.bot
    OBVIOUS
  <2>1. PICK j \in jobs : /\ j.phase \in ChainPhases
                          /\ tx.bot = j.bot /\ tx.is_buy = j.order.is_buy
    BY NewTransactions DEF RetireInv
  <2>2. tx.bot \notin FailedBots
    BY <2>1 DEF RetireInv
  <2> QED BY <2>2 DEF FailedBots
<1> QED BY <1>1, <1>2, <1>3, IInvHolds, LinksHold, BooksHold, PTL DEF Spec, FailedBotRetired
=============================================================================
