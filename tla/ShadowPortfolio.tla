--------------------------- MODULE ShadowPortfolio ---------------------------
(***************************************************************************)
(* One lot-aware Shadow portfolio and the runs that move it, one run at a  *)
(* time: activation, the daily advance (advance_shadow_portfolio), the     *)
(* day-by-day session catch-up (run_portfolio_session_catchup) and the     *)
(* intraday fill of PENDING orders at the session's official OPEN.         *)
(*                                                                         *)
(* A run is a database transaction taken step by step while candles and    *)
(* Forward batches keep arriving (READ COMMITTED): book is what the run    *)
(* sees, savepoint what its innermost rollback returns to, durable what is *)
(* committed.  All three are equal between runs.                           *)
(***************************************************************************)
EXTENDS ShadowBook

CONSTANTS
    Instants,         \* bound: the half days at which batches are published and runs start
    Publishers,       \* bound: which of Publisher publish Forward batches
    MinCoverage,      \* candles of a day that make its EOD data complete
    IntradayEnabled   \* setting INTRADAY_MARKET_ENABLED

\* The daily cycle before 18:00 UTC, the daily cycle after it, the recovery.
Publisher == {"live", "evening", "recovery"}

ASSUME SurroundingsAssumption ==
    /\ Publishers \subseteq Publisher
    /\ Instants \in (SUBSET (2..2 * LastDay + 1)) \ {{}}
    /\ MinCoverage \in Nat \ {0}
    /\ IntradayEnabled \in BOOLEAN

VARIABLES
    clock,       \* wall clock, in half days
    bars,        \* <<day, instrument>> pairs with a 1d candle
    batch,       \* batch[d]: first day whose 18:00 cutoff admits the batch as of d; 0 for none
    book,
    savepoint,
    durable,
    run          \* the run in progress

vars == <<clock, bars, batch, book, savepoint, durable, run>>

Today == DateOf(clock)

\* "failed": none in progress, and the last one ended in an error.
Run == [kind : {"idle", "failed", "advance", "catchup", "intraday"},
        stage : {"decide", "days", "fill"},
        batches : SUBSET Days,      \* batches not looked at yet
        days : SUBSET Days,         \* sessions not processed yet
        day : 0..LastDay,           \* the session in hand
        at : 0..LastDay,            \* date of decision_at
        orders : SUBSET OrderKeys,  \* PENDING orders not tried yet
        commitEach : BOOLEAN]       \* commit_each_session

Idle == [kind |-> "idle", stage |-> "decide", batches |-> {}, days |-> {}, day |-> 0,
         at |-> 0, orders |-> {}, commitEach |-> FALSE]

Failed == [Idle EXCEPT !.kind = "failed"]
NoRun == run \in {Idle, Failed}

TypeOK ==
    /\ clock \in Instants
    /\ bars \in SUBSET (Days \X Instruments)
    /\ batch \in [Days -> 0..LastDay + 1]
    /\ book \in Book
    /\ savepoint \in Book
    /\ durable \in Book
    /\ run \in Run

Init ==
    /\ clock \in Instants
    /\ \A t \in Instants : clock <= t
    /\ bars = {}
    /\ batch = [d \in Days |-> 0]
    /\ book = EmptyBook
    /\ savepoint = EmptyBook
    /\ durable = EmptyBook
    /\ run = Idle

Earliest(d, days) == d \in days /\ \A e \in days : d <= e
Latest(d, days) == d \in days /\ \A e \in days : e <= d

BarDays == {bar[1] : bar \in bars}
Complete(d) == Cardinality({i \in Instruments : <<d, i>> \in bars}) >= MinCoverage
PublishedBatches == {d \in Days : batch[d] # 0}

\* process_shadow_market_day's savepoint, and the catch-up's around a whole session.
SavepointOpen == run.stage = "fill" \/ (run.kind = "catchup" /\ run.day # 0)

\* The commit of the transaction, with b the book it leaves.
CommitAs(b) ==
    /\ book' = b
    /\ savepoint' = b
    /\ durable' = b

\* A write inside the transaction; while no savepoint is open nothing below can undo it.
WriteAs(b) ==
    /\ book' = b
    /\ savepoint' = IF SavepointOpen THEN savepoint ELSE b
    /\ UNCHANGED durable

-----------------------------------------------------------------------------
(* The surroundings.                                                       *)

\* A run is short against half a day: the clock moves between runs.
Tick ==
    /\ NoRun
    /\ clock' \in {t \in Instants : Earliest(t, {u \in Instants : clock < u})}
    /\ UNCHANGED <<bars, batch, book, savepoint, durable, run>>

\* Market ingestion: the candle of a session that has opened, in any order, however late.
IngestBar(d, i) ==
    /\ SessionOpen(d) <= clock
    /\ <<d, i>> \notin bars
    /\ bars' = bars \cup {<<d, i>>}
    /\ UNCHANGED <<clock, batch, book, savepoint, durable, run>>

\* First day whose 18:00 cutoff admits the batch as of d: the recovery stamps it 18:00 of d.
AdmittedFrom(publisher, d) ==
    CASE publisher = "live" -> Today
      [] publisher = "evening" -> Today + 1
      [] publisher = "recovery" -> d

\* The Forward runner persists the batch as of d, once, when d's data is complete.
PublishBatch(d, publisher) ==
    /\ batch[d] = 0
    /\ d <= Today
    /\ Complete(d)
    /\ batch' = [batch EXCEPT ![d] = AdmittedFrom(publisher, d)]
    /\ UNCHANGED <<clock, bars, book, savepoint, durable, run>>

\* The recovery's stamp, 18:00 of the batch's own day, may still lie ahead of a run that day.
MayBeAhead(d) == "recovery" \in Publishers /\ d = Today /\ batch[d] = d

-----------------------------------------------------------------------------
(* Activation.                                                             *)

Activated(b, status) == [b EXCEPT !.activated = Today, !.status = status]

FirstStatus(b) ==
    [b EXCEPT !.status = IF Pending(b) # {} THEN "WAITING_FOR_FUTURE_MARKET_OPEN"
                         ELSE "DECISION_READY"]

\* initialize_shadow_portfolios: create the portfolio unless it exists, then decide on a
\* batch (the latest, or the one the owner names) unless its week has a decision.  The
\* owner may call it again.
Activate ==
    /\ NoRun
    /\ \E asOf \in PublishedBatches :
          LET b == IF book.activated = 0 THEN Activated(book, "INITIALIZED") ELSE book
          IN  \/ /\ MayBeAhead(asOf)
                 /\ CommitAs([b EXCEPT !.status = "WAITING_FOR_SIGNAL"])
              \/ /\ Decided(b, WeekOf[asOf]) \/ ~CanSize(b, bars, asOf)
                 /\ CommitAs(FirstStatus(b))
              \/ /\ ~Decided(b, WeekOf[asOf])
                 /\ CanSize(b, bars, asOf)
                 /\ \E plan \in Plans(b, bars, asOf) :
                       CommitAs(FirstStatus(Decide(b, asOf, Today, clock, plan)))
    /\ UNCHANGED <<clock, bars, batch, run>>

\* initialize_empty_shadow_portfolios
ActivateEmpty ==
    /\ NoRun
    /\ book.activated = 0
    /\ CommitAs(Activated(book, "WAITING_FOR_NEW_MARKET"))
    /\ UNCHANGED <<clock, bars, batch, run>>

-----------------------------------------------------------------------------
(* Decisions: apply_pending_forward_decisions.                             *)

\* Mutant of VisibleBatches: generated_at is not looked at.
VisibleByAsOf(d) == {asOf \in PublishedBatches : asOf <= d}

\* Batches a catch-up session of day d may use: generated_at and max_as_of cap them.
VisibleBatches(d) == {asOf \in PublishedBatches : asOf <= d /\ batch[asOf] <= d}

\* The batch is of the week handled last, of a week decided before, or cannot be sized.
SkipBatch(asOf) ==
    /\ run.kind \in {"advance", "catchup"}
    /\ run.stage = "decide"
    /\ Earliest(asOf, run.batches)
    /\ LET week == WeekOf[asOf]
       IN  \/ /\ book.lastWeek # week
              /\ Decided(book, week)
              /\ WriteAs([book EXCEPT !.lastWeek = week])
           \/ /\ book.lastWeek = week \/ (~Decided(book, week) /\ ~CanSize(book, bars, asOf))
              /\ UNCHANGED <<book, savepoint, durable>>
    /\ run' = [run EXCEPT !.batches = @ \ {asOf}]
    /\ UNCHANGED <<clock, bars, batch>>

\* Mutant of DecideWeek: only the last decided week is remembered.
DecideWeekUnchecked(asOf) ==
    /\ run.kind \in {"advance", "catchup"}
    /\ run.stage = "decide"
    /\ Earliest(asOf, run.batches)
    /\ book.lastWeek # WeekOf[asOf]
    /\ CanSize(book, bars, asOf)
    /\ \E plan \in Plans(book, bars, asOf) :
          WriteAs(Decide(book, asOf, run.at, clock, plan))
    /\ run' = [run EXCEPT !.batches = @ \ {asOf}]
    /\ UNCHANGED <<clock, bars, batch>>

\* The week's decision and its orders, superseding every order still PENDING.
DecideWeek(asOf) ==
    /\ run.kind \in {"advance", "catchup"}
    /\ run.stage = "decide"
    /\ Earliest(asOf, run.batches)
    /\ book.lastWeek # WeekOf[asOf]
    /\ ~Decided(book, WeekOf[asOf])
    /\ CanSize(book, bars, asOf)
    /\ \E plan \in Plans(book, bars, asOf) :
          WriteAs(Decide(book, asOf, run.at, clock, plan))
    /\ run' = [run EXCEPT !.batches = @ \ {asOf}]
    /\ UNCHANGED <<clock, bars, batch>>

-----------------------------------------------------------------------------
(* One session: process_shadow_market_day.                                 *)

\* Up to the activation day only the watermark moves; after it the day's corporate
\* actions apply and the PENDING orders come up for a fill.
PreActivation(d) == d <= book.activated

SkippedDay(b, d) == [b EXCEPT !.watermark = d]

SessionRun(d) == [run EXCEPT !.stage = "fill", !.day = d, !.orders = Pending(book)]

StartSession(d) ==
    /\ SplitHoldings(book, d) \in Holdings     \* bound: MaxUnits
    /\ book' = CorporateActions(book, d)

\* SELL orders come before BUY orders.
NextOrder(k) ==
    /\ k \in run.orders
    /\ \/ book.orders[k].side = "SELL"
       \/ \A other \in run.orders : book.orders[other].side = "BUY"

OrderTried(k) == [run EXCEPT !.orders = @ \ {k}]

WithinBound(k) == book.units[k[2]] + book.orders[k].qty <= MaxUnits

\* One PENDING order against the session's candle (_fill_pending_orders).
FillOrder(k) ==
    /\ run.kind \in {"advance", "catchup"}
    /\ run.stage = "fill"
    /\ NextOrder(k)
    /\ \/ /\ OpenEligible(book, bars, k, run.day)
          /\ book.orders[k].side = "BUY"
          /\ Affordable(book, k, run.day)
          /\ WithinBound(k)
          /\ book' = Bought(book, k, run.day, "CANDLE")
       \/ /\ OpenEligible(book, bars, k, run.day)
          /\ book.orders[k].side = "SELL"
          /\ book' = IF SellUnits(book, k) = 0 THEN Cancelled(book, k)
                     ELSE Sold(book, k, run.day, "CANDLE")
       \/ /\ \/ ~OpenEligible(book, bars, k, run.day)
             \/ book.orders[k].side = "BUY" /\ ~Affordable(book, k, run.day)
          /\ UNCHANGED book
    /\ run' = OrderTried(k)
    /\ UNCHANGED <<clock, bars, batch, savepoint, durable>>

SessionFilled ==
    /\ run.kind \in {"advance", "catchup"}
    /\ run.stage = "fill"
    /\ run.orders = {}

\* Mutants of BlockedBook: nothing is rolled back; the split quantities survive it.
BlockedKeepsFills == Refreshed(book)
BlockedKeepsSplit == [savepoint EXCEPT !.units = book.units]

\* What a blocked session leaves.
BlockedBook == IF run.kind = "advance" THEN Refreshed(savepoint) ELSE savepoint

\* A held instrument has no close: the session's savepoint rolls back and the run ends.
\* Only the advance still refreshes the portfolio's status.
BlockSession ==
    /\ SessionFilled
    /\ MissingCloses(book, bars, run.day) # {}
    /\ CommitAs(BlockedBook)
    /\ run' = Idle
    /\ UNCHANGED <<clock, bars, batch>>

-----------------------------------------------------------------------------
(* The daily advance: advance_shadow_portfolio.                            *)

StartAdvance ==
    /\ NoRun
    /\ book.activated # 0
    /\ \E ahead \in SUBSET {d \in Days : MayBeAhead(d)} :
          run' = [Idle EXCEPT !.kind = "advance", !.batches = PublishedBatches \ ahead,
                              !.at = Today]
    /\ UNCHANGED <<clock, bars, batch, book, savepoint, durable>>

\* _trading_days_after: any day with a candle, whatever its coverage.
ListDays ==
    /\ run.kind = "advance"
    /\ run.stage = "decide"
    /\ run.batches = {}
    /\ run' = [run EXCEPT !.stage = "days", !.days = {d \in BarDays : d > book.watermark}]
    /\ UNCHANGED <<clock, bars, batch, book, savepoint, durable>>

AdvanceDay(d) ==
    /\ run.kind = "advance"
    /\ run.stage = "days"
    /\ Earliest(d, run.days)
    /\ IF PreActivation(d)
       THEN /\ WriteAs(SkippedDay(book, d))
            /\ run' = [run EXCEPT !.days = @ \ {d}]
       ELSE /\ StartSession(d)
            /\ run' = [SessionRun(d) EXCEPT !.days = @ \ {d}]
            /\ UNCHANGED <<savepoint, durable>>
    /\ UNCHANGED <<clock, bars, batch>>

\* NAV, guard and watermark; the savepoint is released into the transaction.
AdvanceMark ==
    /\ SessionFilled
    /\ run.kind = "advance"
    /\ MissingCloses(book, bars, run.day) = {}
    /\ book' = Marked(book, run.day)
    /\ savepoint' = book'
    /\ run' = [run EXCEPT !.stage = "days", !.day = 0]
    /\ UNCHANGED <<clock, bars, batch, durable>>

FinishAdvance ==
    /\ run.kind = "advance"
    /\ run.stage = "days"
    /\ run.days = {}
    /\ CommitAs(Refreshed(book))
    /\ run' = Idle
    /\ UNCHANGED <<clock, bars, batch>>

-----------------------------------------------------------------------------
(* The session catch-up: run_portfolio_session_catchup.                    *)

\* latest_complete_eod_date: the newest complete day, else the newest day with a candle.
LatestEod(d) ==
    LET complete == {e \in Days : Complete(e)}
    IN  Latest(d, IF complete # {} THEN complete ELSE BarDays)

MissingSessions(latest) == {d \in BarDays : book.watermark < d /\ d <= latest}

\* Already current: only the decisions are brought up to date, dated at the latest EOD.
StartCatchUpNoOp(latest) ==
    /\ NoRun
    /\ book.activated # 0
    /\ LatestEod(latest)
    /\ book.watermark >= latest
    /\ run' = [Idle EXCEPT !.kind = "catchup", !.batches = VisibleBatches(latest),
                           !.at = latest]
    /\ UNCHANGED <<clock, bars, batch, book, savepoint, durable>>

StartCatchUp(latest, commitEach) ==
    /\ NoRun
    /\ book.activated # 0
    /\ LatestEod(latest)
    /\ book.watermark < latest
    /\ run' = [Idle EXCEPT !.kind = "catchup", !.stage = "days",
                           !.days = MissingSessions(latest), !.commitEach = commitEach]
    /\ UNCHANGED <<clock, bars, batch, book, savepoint, durable>>

\* begin_nested, then the session's decisions, dated 18:00 of the session itself.
OpenCatchUpSession(d) ==
    /\ run.kind = "catchup"
    /\ run.stage = "days"
    /\ Earliest(d, run.days)
    /\ run' = [run EXCEPT !.stage = "decide", !.days = @ \ {d}, !.day = d, !.at = d,
                          !.batches = VisibleBatches(d)]
    /\ UNCHANGED <<clock, bars, batch, book, savepoint, durable>>

\* refresh_shadow_portfolio_status, release of the savepoint and, per session, the commit.
CloseCatchUpSession(b) ==
    /\ book' = Refreshed(b)
    /\ savepoint' = book'
    /\ durable' = IF run.commitEach THEN book' ELSE durable
    /\ run' = [run EXCEPT !.stage = "days", !.day = 0, !.at = 0, !.orders = {}]

CatchUpDay ==
    /\ run.kind = "catchup"
    /\ run.stage = "decide"
    /\ run.batches = {}
    /\ run.day # 0
    /\ IF PreActivation(run.day)
       THEN CloseCatchUpSession(SkippedDay(book, run.day))
       ELSE /\ StartSession(run.day)
            /\ run' = SessionRun(run.day)
            /\ UNCHANGED <<savepoint, durable>>
    /\ UNCHANGED <<clock, bars, batch>>

CatchUpMark ==
    /\ SessionFilled
    /\ run.kind = "catchup"
    /\ MissingCloses(book, bars, run.day) = {}
    /\ CloseCatchUpSession(Marked(book, run.day))
    /\ UNCHANGED <<clock, bars, batch>>

FinishCatchUp ==
    /\ run.kind = "catchup"
    /\ \/ run.stage = "days" /\ run.days = {}
       \/ run.stage = "decide" /\ run.batches = {} /\ run.day = 0
    /\ CommitAs(book)
    /\ run' = Idle
    /\ UNCHANGED <<clock, bars, batch>>

-----------------------------------------------------------------------------
(* Intraday: fill_pending_orders_with_session_open.                        *)

StartIntraday ==
    /\ IntradayEnabled
    /\ NoRun
    /\ clock >= SessionOpen(Today)
    /\ Pending(book) # {}
    /\ run' = [Idle EXCEPT !.kind = "intraday", !.stage = "fill", !.day = Today,
                           !.orders = Pending(book)]
    /\ UNCHANGED <<clock, bars, batch, book, savepoint, durable>>

\* Mutant of QuoteEligible: only the calendar day of the order is looked at.
QuoteEligibleByDate(k, d) == d >= DateOf(book.orders[k].created)

\* can_fill_with_session_open, for a fresh quote with an OPEN.
QuoteEligible(k, d) ==
    /\ d >= book.orders[k].minExec
    /\ book.orders[k].created < SessionOpen(d)

\* autoflush is off: other orders count as the committed rows show them.
AfterIntradayFill(b, k) ==
    [b EXCEPT !.status =
        IF @ # "WAITING_FOR_FUTURE_MARKET_OPEN" THEN @
        ELSE IF Pending(durable) \subseteq {k} THEN "DECISION_READY"
        ELSE IF Held(b) # {} THEN "ACTIVE"
        ELSE @]

\* One PENDING order against the session's official OPEN; the candle may not be there yet.
QuoteOrder(k) ==
    /\ run.kind = "intraday"
    /\ NextOrder(k)
    /\ QuoteEligible(k, run.day)
    /\ \/ /\ book.orders[k].side = "BUY"
          /\ Affordable(book, k, run.day)
          /\ WithinBound(k)
          /\ book' = AfterIntradayFill(Bought(book, k, run.day, "INTRADAY"), k)
       \/ /\ book.orders[k].side = "SELL"
          /\ book' = IF SellUnits(book, k) = 0 THEN Cancelled(book, k)
                     ELSE AfterIntradayFill(Sold(book, k, run.day, "INTRADAY"), k)
    /\ run' = OrderTried(k)
    /\ UNCHANGED <<clock, bars, batch, savepoint, durable>>

\* No quote, no OPEN yet, not eligible, or not enough cash: the order stays PENDING.
SkipOrder(k) ==
    /\ run.kind = "intraday"
    /\ NextOrder(k)
    /\ run' = OrderTried(k)
    /\ UNCHANGED <<clock, bars, batch, book, savepoint, durable>>

FinishIntraday ==
    /\ run.kind = "intraday"
    /\ run.orders = {}
    /\ CommitAs(book)
    /\ run' = Idle
    /\ UNCHANGED <<clock, bars, batch>>

-----------------------------------------------------------------------------
(* Failures.                                                               *)

\* The process dies, or the task rolls its transaction back: everything since the last
\* commit is gone.
Crash ==
    /\ ~NoRun
    /\ CommitAs(durable)
    /\ run' = Failed
    /\ UNCHANGED <<clock, bars, batch>>

\* An exception the caller turns into an ERROR status and then commits: the daily cycle
\* around the advance, and the intraday refresh.  A catch-up whose recovery lock is lost
\* stops between two sessions and keeps the finished ones.
Abort ==
    /\ \/ run.kind \in {"advance", "intraday"}
       \/ run.kind = "catchup" /\ run.stage = "days"
    /\ CommitAs(IF run.kind = "advance" THEN savepoint ELSE book)
    /\ run' = Failed
    /\ UNCHANGED <<clock, bars, batch>>

-----------------------------------------------------------------------------
Environment ==
    \/ Tick
    \/ \E d \in Days, i \in Instruments : IngestBar(d, i)
    \/ \E d \in Days, publisher \in Publishers : PublishBatch(d, publisher)

Owner == Activate \/ ActivateEmpty

StartRun ==
    \/ StartAdvance
    \/ \E latest \in Days : StartCatchUpNoOp(latest)
    \/ \E latest \in Days, commitEach \in BOOLEAN : StartCatchUp(latest, commitEach)

RunStep ==
    \/ \E asOf \in Days : SkipBatch(asOf) \/ DecideWeek(asOf)
    \/ \E k \in OrderKeys : FillOrder(k)
    \/ BlockSession
    \/ ListDays
    \/ \E d \in Days : AdvanceDay(d) \/ OpenCatchUpSession(d)
    \/ AdvanceMark
    \/ FinishAdvance
    \/ CatchUpDay
    \/ CatchUpMark
    \/ FinishCatchUp

IntradayStep ==
    \/ \E k \in OrderKeys : QuoteOrder(k) \/ SkipOrder(k)
    \/ FinishIntraday

Failure == Crash \/ Abort

Next == Environment \/ Owner \/ StartRun \/ RunStep \/ StartIntraday \/ IntradayStep \/ Failure

Spec == Init /\ [][Next]_vars

-----------------------------------------------------------------------------
(* Safety.                                                                 *)

Sides(b, side) == {k \in Filled(b) : b.orders[k].side = side}

FillCost(b, k) == BuyCost[b.fills[k].day][k[2]][b.fills[k].qty]
FillProceeds(b, k) == SellProceeds[b.fills[k].day][k[2]][b.fills[k].qty]

\* Cash after the fills of the given orders.
CashAfter(b, keys) ==
    InitialCapital
    - SumFunction([k \in keys \cap Sides(b, "BUY") |-> FillCost(b, k)])
    + SumFunction([k \in keys \cap Sides(b, "SELL") |-> FillProceeds(b, k)])

CashIsFills(b) == b.cash = CashAfter(b, OrderKeys)

\* Cash is the initial capital moved by the immutable fill rows and by nothing else,
\* whatever was superseded, blocked, rolled back or run twice.
CashMatchesFills == CashIsFills(book) /\ CashIsFills(durable)

\* Splits of instrument i after day d, up to each day, with the days on which they applied.
SplitFactors(applied, i, d) ==
    LET factor[e \in 0..LastDay] ==
            IF e <= d THEN 1
            ELSE IF e \in applied THEN Split[e][i] * factor[e - 1]
            ELSE factor[e - 1]
    IN  factor

SplitsSince(applied, i, d) == SplitFactors(applied, i, d)[LastDay]

UnitsFilled(b, applied, i, side) ==
    SumFunction([k \in {j \in Sides(b, side) : j[2] = i} |->
                    b.fills[k].qty * SplitsSince(applied, i, b.fills[k].day)])

HoldingsAreFills(b, applied) ==
    \A i \in Instruments :
        b.units[i] = UnitsFilled(b, applied, i, "BUY") - UnitsFilled(b, applied, i, "SELL")

\* A position is what its fills bought less what they sold, each adjusted by the splits of
\* the sessions processed after it, every split applied once.
HoldingsMatchFills == HoldingsAreFills(durable, Booked(durable))

\* One weekly plan is live: every PENDING order belongs to the portfolio's last decision,
\* in the middle of a run too.
PlanIsCurrent(b) == \A k \in Pending(b) : k[1] = b.lastDecision

OnePlan == PlanIsCurrent(book) /\ PlanIsCurrent(savepoint) /\ PlanIsCurrent(durable)

\* No decision is dated before the data it uses, and no fill is dated on or before the
\* date of the decision behind it, whatever order batches and sessions arrive in.
PointInTime(b) ==
    /\ \A w \in Weeks : Decided(b, w) =>
           /\ b.decisions[w].asOf <= b.decisions[w].at
           /\ batch[b.decisions[w].asOf] <= b.decisions[w].at + 1
    /\ \A k \in OrderKeys : b.orders[k].status # "NONE" => Decided(b, k[1])
    /\ \A k \in Filled(b) : b.decisions[k[1]].at < b.fills[k].day

NoLookAhead == PointInTime(book) /\ PointInTime(savepoint) /\ PointInTime(durable)

\* An order is FILLED exactly when it has its one fill row, for no more than it asked.
FilledOnce(b) ==
    \A k \in OrderKeys :
        /\ b.orders[k].status = "FILLED" <=> b.fills[k].day # 0
        /\ b.fills[k].qty <= b.orders[k].qty

ExactlyOnce == FilledOnce(book) /\ FilledOnce(savepoint) /\ FilledOnce(durable)

CandleFillsMarked(b) ==
    \A k \in Filled(b) : b.fills[k].source = "CANDLE" => b.fills[k].day \in Booked(b)

MarkedAfterActivation(b) == \A d \in Booked(b) : b.activated < d /\ d <= b.watermark

\* A session is committed whole or not at all: its candle fills never without its NAV row
\* and its watermark.
FillsAreMarked == CandleFillsMarked(durable) /\ MarkedAfterActivation(durable)

NavIsPastCash(b) ==
    \A d \in Booked(b) :
        b.nav[d].cash = CashAfter(b, {k \in Filled(b) : b.fills[k].day <= d})

\* The NAV row of a day holds the cash the fills up to that day leave.
NavUsesPastFills == NavIsPastCash(durable)

NavTotal(b, d) == b.nav[d].cash + b.nav[d].value
PeakUpTo(b, d) == Max({InitialCapital} \cup {NavTotal(b, e) : e \in {f \in Booked(b) : f <= d}})

\* Guard mode after each day, replaying the NAV rows in date order.
ReplayedModes(b) ==
    LET mode[d \in 0..LastDay] ==
            IF d = 0 THEN "normal"
            ELSE IF d \in Booked(b)
                 THEN GuardMode(mode[d - 1], NavTotal(b, d), PeakUpTo(b, d))
                 ELSE mode[d - 1]
    IN  mode

RiskIsReplay(b) ==
    /\ b.peak = PeakUpTo(b, LastDay)
    /\ b.riskMode = IF GuardOn THEN ReplayedModes(b)[LastDay] ELSE "normal"

\* Peak and drawdown guard are what the recorded NAV history gives: a blocked, repeated or
\* caught-up session leaves no trace in them.
RiskMatchesHistory == RiskIsReplay(durable)

IntradayKnewNoOpen(b) ==
    \A k \in Filled(b) :
        b.fills[k].source = "INTRADAY" => b.orders[k].created < SessionOpen(b.fills[k].day)

\* ADR 0009: an intraday fill takes the OPEN of a session that had not opened when its order
\* was created.
IntradayFillsKnewNoOpen == IntradayKnewNoOpen(durable)

\* Book c keeps the history of book b.
Extends(b, c) ==
    /\ \A k \in OrderKeys :
          /\ b.fills[k] # NoFill => c.fills[k] = b.fills[k]
          /\ b.orders[k].status \in {"FILLED", "CANCELLED"} => c.orders[k] = b.orders[k]
    /\ \A d \in Booked(b) : c.nav[d] = b.nav[d]
    /\ \A w \in Weeks : Decided(b, w) => c.decisions[w] = b.decisions[w]
    /\ c.watermark >= b.watermark
    /\ c.peak >= b.peak

\* Committed history only grows: fills, NAV rows and decisions never change, a closed
\* order never reopens, the watermark and the peak never fall.
HistoryAppendOnly == [][Extends(durable, durable')]_durable

-----------------------------------------------------------------------------
(* What the documents say and the runs do not keep.                        *)

\* docs/architecture/shadow-portfolio-realism-v2.md:63, no retrospective same-open fill for
\* orders created after open: no fill at the OPEN of a session that had opened when the
\* order was created.
NoRetrospectiveFill ==
    \A k \in Filled(durable) : durable.orders[k].created < SessionOpen(durable.fills[k].day)

-----------------------------------------------------------------------------
(* Liveness.                                                               *)

AllData == bars = Days \X Instruments /\ durable.activated # 0

\* Beat starts the cycle and the recovery again and again, and a started run goes on.
FairSpec == Spec /\ WF_vars(RunStep) /\ WF_vars(StartRun)

\* Once the market data is complete the portfolio is marked through the last session,
\* unless runs fail for ever: a blocked session and its backlog are made up.
CatchesUp == <>[](run # Failed) => (AllData ~> durable.watermark = LastDay)
=============================================================================
