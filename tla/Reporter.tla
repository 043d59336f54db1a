------------------------------- MODULE Reporter -------------------------------
(***************************************************************************)
(* reporter/reporter.py and the tables it writes (console/models.py): the  *)
(* task of the main process that stores what the bot does, one report      *)
(* after the other, and that reads the open positions back at the start.   *)
(*                                                                         *)
(* A save is a sequence of awaited queries; other tasks run in between and *)
(* a crash may cut it short.  An exception of a query ends the save, and   *)
(* the rows written before it stay (reporter.py:256-268).  Rows of blocks, *)
(* transactions and position_transactions are written with the row of the  *)
(* pair or the PnL next to them: no decision reads them.                   *)
(*                                                                         *)
(* Django's async queries share one thread, in FIFO order, so the query of *)
(* bootstrap() comes before every write of the run it starts.              *)
(***************************************************************************)
EXTENDS Brokers, FiniteSetsExt

CONSTANTS
    Creators,   \* the deployers of the tokens
    CreatorOf,  \* the creator the watcher found for each pair it announced
    MaxHour,    \* bound of the model: the last hour of the clock
    MaxTorn     \* bound of the model: a query may raise while fewer pairs are torn

ASSUME ReporterAssumption ==
    /\ CreatorOf \in [Pairs -> Creators]
    /\ MaxHour \in Nat
    /\ MaxTorn \in Nat

Hours == 0 .. MaxHour

VARIABLES
    pair_rows,      \* "bare" if save_position made the row: it has no creator
    position_rows,
    pnl_rows,       \* one row per hour
    blacklist,      \* the creators of table blacklist
    saving,         \* the report being saved and the query it waits for, or None
    hour,           \* the hour of the clock
    reopened,       \* the pairs of the positions bootstrap() sent, with no creator if bare
    torn            \* history: the pairs with a report whose save was cut short

reporterVars == <<pair_rows, position_rows, pnl_rows, blacklist, saving, hour,
                  reopened, torn>>

\* pnl is what the code tells apart: no loss, a loss of 100% or more, or the
\* zero of a position without tokens.
PositionRow ==
    [is_liquidated: BOOLEAN, has_amount: BOOLEAN, pnl: {"zero", "lost", "some"},
     signer: Signers, bot: Bots, purchased_at: Hours, created_at: Hours]

PnLRow == [number_positions: Nat, number_failed: Nat]

Save == [report: ReportData, step: {"pair", "position", "stats"}]

\* None is not an object.
ASSUME NoneAssumption == None \notin PositionRow /\ None \notin PnLRow /\ None \notin Save

ReporterTypeOK ==
    /\ pair_rows \in [Pairs -> {"absent", "bare", "full"}]
    /\ position_rows \in [Pairs -> PositionRow \cup {None}]
    /\ pnl_rows \in [Hours -> PnLRow \cup {None}]
    /\ blacklist \subseteq Creators
    /\ saving \in Save \cup {None}
    /\ hour \in Hours
    /\ reopened \subseteq Pairs
    /\ torn \subseteq Pairs

ReporterInit ==
    /\ pair_rows = [p \in Pairs |-> "absent"]
    /\ position_rows = [p \in Pairs |-> None]
    /\ pnl_rows = [h \in Hours |-> None]
    /\ blacklist = {}
    /\ saving = None
    /\ hour = 0
    /\ reopened = {}
    /\ torn = {}

-----------------------------------------------------------------------------
(* listen_report() and save_to_db().                                       *)

\* The pairs a report is about.
PairsOf(report) ==
    CASE report.type = "BLOCK" -> report.pairs
      [] report.type = "EXECUTION" -> {report.ack.pair}
      [] report.type = "BLACKLIST_ADDED" -> {report.creator_of}

\* coro_get() and the call of save_to_db.
TakeFirstReport ==
    /\ saving = None
    /\ report_broker # <<>>
    /\ report_broker' = Tail(report_broker)
    /\ saving' = [report |-> Head(report_broker), step |-> "pair"]
    /\ UNCHANGED <<pair_rows, position_rows, pnl_rows, blacklist, hour,
                   reopened, torn>>

Saving(type, step) ==
    /\ saving # None
    /\ saving.report.type = type
    /\ saving.step = step
    /\ UNCHANGED report_broker

\* save_block: the row of one pair more.
SaveBlockPair(p) ==
    /\ Saving("BLOCK", "pair")
    /\ p \in saving.report.pairs
    /\ pair_rows' = [pair_rows EXCEPT ![p] = IF @ = "absent" THEN "full" ELSE @]
    /\ saving' = LET rest == saving.report.pairs \ {p} IN
                 IF rest = {} THEN None ELSE [saving EXCEPT !.report.pairs = rest]
    /\ UNCHANGED <<position_rows, pnl_rows, blacklist, hour, reopened, torn>>

\* save_position: the rows of the block and the transaction, then of the pair.
SavePairOfPosition ==
    /\ Saving("EXECUTION", "pair")
    /\ pair_rows' = [pair_rows EXCEPT ![saving.report.ack.pair] =
                         IF @ = "absent" THEN "bare" ELSE @]
    /\ saving' = [saving EXCEPT !.step = "position"]
    /\ UNCHANGED <<position_rows, pnl_rows, blacklist, hour, reopened, torn>>

\* The row of a position that has none: the status of the acknowledgement is
\* not looked at, so a failed buy opens a row too.
FaultyNewRow(ack, created) ==
    [is_liquidated |-> ack.is_buy, has_amount |-> ack.is_buy /\ ack.tx_status = "SUCCESS",
     pnl |-> "zero", signer |-> ack.signer, bot |-> ack.bot,
     purchased_at |-> hour, created_at |-> created]
NewRow(ack, created) ==
    [is_liquidated |-> ~ ack.is_buy,
     has_amount |-> ack.is_buy /\ ack.tx_status = "SUCCESS",
     pnl |-> "zero", signer |-> ack.signer, bot |-> ack.bot,
     purchased_at |-> hour, created_at |-> created]

\* What a sell may earn.  The amount of the sell is that of the row.
PnlOfSell(row, ack) ==
    IF ~ row.has_amount THEN {"zero"}
    ELSE IF ack.tx_status = "FAILED" THEN {"lost"} ELSE {"lost", "some"}

\* A row closed once is never written again; a failed sell closes it as well.
FaultyCloses(row, ack) ==
    ~ ack.is_buy /\ ~ row.is_liquidated /\ ack.tx_status = "SUCCESS"
Closes(row, ack) == ~ ack.is_buy /\ ~ row.is_liquidated

\* The hour may turn between time() and the created_at of the INSERT.
SavePositionRow ==
    /\ Saving("EXECUTION", "position")
    /\ LET ack == saving.report.ack
           row == position_rows[ack.pair]
       IN \/ /\ row = None
             /\ hour' \in {hour, hour + 1} \cap Hours
             /\ position_rows' = [position_rows EXCEPT ![ack.pair] = NewRow(ack, hour')]
          \/ /\ row # None
             /\ IF Closes(row, ack)
                THEN \E pnl \in PnlOfSell(row, ack) :
                        position_rows' =
                           [position_rows EXCEPT ![ack.pair].is_liquidated = TRUE,
                                                 ![ack.pair].pnl = pnl]
                ELSE UNCHANGED position_rows
             /\ UNCHANGED hour
    /\ saving' = [saving EXCEPT !.step = "stats"]
    /\ UNCHANGED <<pair_rows, pnl_rows, blacklist, reopened, torn>>

\* The positions that were purchased in an hour, and those that lost all.
Purchased(h) ==
    {p \in Pairs : position_rows[p] # None /\ position_rows[p].purchased_at = h}
LostIn(h) == {p \in Purchased(h) : position_rows[p].pnl = "lost"}

FreshPnL(h) ==
    [number_positions |-> Cardinality(Purchased(h)),
     number_failed |-> Cardinality(LostIn(h))]

FaultyRecount(row, old) ==
    IF row.is_liquidated
    THEN [old EXCEPT !.number_positions = FreshPnL(row.created_at).number_positions]
    ELSE [old EXCEPT !.number_positions = FreshPnL(row.created_at).number_positions]
Recount(row, old) ==
    IF row.is_liquidated
    THEN [old EXCEPT !.number_failed = FreshPnL(row.created_at).number_failed]
    ELSE [old EXCEPT !.number_positions = FreshPnL(row.created_at).number_positions]

\* Sum('pnl') over no row is None, and Decimal(None) raises.
SumRaises(row, old) ==
    Purchased(row.created_at) = {} /\ (old = None \/ row.is_liquidated)

\* The link to the transaction, then update_pnl.
SaveStats ==
    /\ Saving("EXECUTION", "stats")
    /\ LET p == saving.report.ack.pair
           row == position_rows[p]
           old == pnl_rows[row.created_at]
       IN IF SumRaises(row, old)
          THEN torn' = torn \cup {p} /\ UNCHANGED pnl_rows
          ELSE /\ pnl_rows' = [pnl_rows EXCEPT ![row.created_at] =
                                  IF old = None THEN FreshPnL(row.created_at)
                                  ELSE Recount(row, old)]
               /\ UNCHANGED torn
    /\ saving' = None
    /\ UNCHANGED <<pair_rows, position_rows, blacklist, hour, reopened>>

\* save_blacklist: the creator of a position restored from a bare row is None,
\* and addr.lower() raises.
SaveBlacklist ==
    /\ Saving("BLACKLIST_ADDED", "pair")
    /\ LET p == saving.report.creator_of IN
       IF p \in reopened /\ pair_rows[p] = "bare"
       THEN torn' = torn \cup {p} /\ UNCHANGED blacklist
       ELSE blacklist' = blacklist \cup {CreatorOf[p]} /\ UNCHANGED torn
    /\ saving' = None
    /\ UNCHANGED <<pair_rows, position_rows, pnl_rows, hour, reopened>>

\* A query raises: save_to_db logs the error and drops the report.
SaveFails ==
    /\ Cardinality(torn) < MaxTorn
    /\ saving # None
    /\ saving' = None
    /\ torn' = torn \cup PairsOf(saving.report)
    /\ UNCHANGED <<report_broker, pair_rows, position_rows, pnl_rows, blacklist,
                   hour, reopened>>

SaveStep ==
    \/ \E p \in Pairs : SaveBlockPair(p)
    \/ SavePairOfPosition \/ SavePositionRow \/ SaveStats \/ SaveBlacklist

HourPasses ==
    /\ hour < MaxHour
    /\ hour' = hour + 1
    /\ UNCHANGED <<pair_rows, position_rows, pnl_rows, blacklist, saving,
                   reopened, torn>>

-----------------------------------------------------------------------------
(* bootstrap(), the first query of a run.                                  *)

IsOpen(p) == position_rows[p] # None /\ ~ position_rows[p].is_liquidated

\* purchased_at >= now - 1 hour: certainly so in this hour, and perhaps in the
\* hour before.
FaultyIsPending(p, previous) ==
    position_rows[p] # None /\ (position_rows[p].purchased_at = hour \/ p \in previous)
IsPending(p, previous) ==
    IsOpen(p) /\ (position_rows[p].purchased_at = hour \/ p \in previous)

PurchasedBefore == {p \in Pairs : IsOpen(p) /\ position_rows[p].purchased_at = hour - 1}

\* The position made of a row.  The row's is_paper is not read, so it is not a
\* paper position whatever it was.
Reopened(p, age) ==
    [pair |-> p, signer |-> position_rows[p].signer, bot |-> position_rows[p].bot,
     is_paper |-> FALSE, age |-> age]
=============================================================================
