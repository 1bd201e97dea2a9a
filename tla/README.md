# TLA+ for Kraken (ProjectAI)

Specifications of the stateful core of Kraken: TLA+ modules translated from
`src/backend/app`, TLC configurations that check them on small instances, and
theorems that TLAPS checks for every value of the constants.

`tlc -config <run>.cfg <module>.tla` checks a run, `tlapm <module>.tla` the proofs.

## 1. The system

Kraken is a modular monolith: one FastAPI application, Celery workers with a beat
schedule, two Postgres databases (core, memory) and Redis for locks, caches and
status.  Modules call each other's services inside one SQLAlchemy session
(`infrastructure/db/session.py`: commit when the block ends, rollback when it
raises, autoflush off).  Nothing is sent between processes except Celery tasks;
processes meet in database rows and Redis keys.

| Component | State it keeps | Operations | Met by |
|---|---|---|---|
| Shadow ledger (`shadow/application/service.py`) | portfolio row (cash, positions JSON, watermark, peak, guard), decisions, orders, fills, daily NAV | activate, decide a week, supersede, fill, split, mark, advance | cycle, recovery, API, intraday refresh |
| Session catch-up (`session_catchup.py`) | the same rows, session by session, with an optional commit after each | `run_portfolio_session_catchup` | recovery, API |
| Intraday open execution (`open_execution_service.py`, `intraday_refresh.py`) | the same rows; quotes in Redis | fill PENDING orders at the official OPEN | beat, every few minutes |
| Recovery (`recovery.py`) | Redis lease with a heartbeat thread; stages market, features, forward, shadow | `run_market_shadow_recovery` | worker start, beat, `maybe_trigger_cycle_if_ready` |
| Research cycle (`research_cycle/`) | Redis lock, workflow and step rows | `_run` stage by stage, fail and record, finalise a stale row | beat, daily; `POST /research-cycle/run` |
| Forward predictions (`prediction/application/forward_*`) | immutable batches per as-of day, outcomes | run, resolve | cycle, recovery |
| Market ingestion (`market/application/`) | candles, corporate actions, instruments | upsert, gap detection, EOD recovery | cycle, recovery |
| Personal portfolio (`portfolio/`) | operation journal, its projection, a draft before the journal | edit the draft, activate, record, correct, cancel, reset, delete | API, any number of handlers |
| Decision memory (`memory/`) | captured decisions with their actions, outcomes, links to operations, in a second database | capture, refresh outcomes, link, unlink | API, any number of handlers |
| Historical backfill (`historical/`) | checkpoints, imported facts | bounded run | CLI, worker |
| Simulator (`simulator/`) | one in-memory run | execute, mark, guard, hysteresis | research lab |
| Intelligence, investment, evidence, fundamentals, learning, technical, analytics, relations | result tables | batch computations | cycle, API |

What is hard about it:

- *Three writers of one ledger.*  The daily advance, the catch-up and the intraday
  refresh all fill the same PENDING orders, each with its own eligibility rule, commit
  points and lock (or none).
- *Retries.*  Every run is repeated by beat; what the previous one committed, rolled
  back or half did decides what the next one may do.
- *Time.*  A batch has the day it is about and the moment it may be seen, an order the
  date of its decision, the date it may fill from and the moment its row was written.
  The live cycle, a cycle after 18:00 UTC and the recovery stamp these differently.
- *Partial failure.*  A missing close is discovered at the end of a session, after its
  fills; savepoints must undo all of it.  Exceptions become statuses and are committed.
- *Leases.*  A recovery writes under a lock that may expire under it; the cycle's lock is
  not even renewed, and recoveries publish the cycle's predictions without it.
- *Checks and inserts apart.*  A forward run asks whether a day is published, looks every
  instrument up and inserts, in a transaction that sees what others commit meanwhile.
- *Lost answers.*  A client of the personal ledger repeats a request whose answer it did
  not get, possibly after the operation was corrected or cancelled.
- *Two databases.*  The decision memory reads quotes, candles and the journal from one database
  and writes what it concludes to another, while others change both.
- *Operations in the past.*  The journal is ordered by the time an operation happened, so
  every new one may change what all later ones build on.

What makes each component correct:

- Ledger: cash and positions follow from the fill rows; a fill happens once; one weekly
  plan is live; nothing uses data from its future; history is append-only; peak and guard
  follow from the NAV rows; the backlog of sessions is eventually made up.
- Recovery and cycle: one writer at a time; a holder that lost its lease writes nothing
  more; a dead run is taken over; a step that failed is not reported as done.
- Forward: a day has all its predictions or none, from one batch, from features that exist;
  a published prediction never changes.
- Cycle: a row that says RUNNING ends; a result that names a day is true; a day the exchange
  has closed gets its predictions in the end.
- Personal ledger: the projection is the replay of the journal; one key, one operation.
- Decision memory: one key, one record; a decision is measured from a price it could know, to a
  session that is over; links name operations of the decision's own time; what was
  measured is not unmeasured.
- Backfill: every unit of work is done, none is recorded as done that is not.

## 2. Modules

### ShadowBook

The database rows of one lot-aware portfolio as a record `Book`, and each operation of
`service.py` as an operator from a book to the next.

| In the model | In the code |
|---|---|
| `book.cash`, `units` | `ShadowPortfolio.cash`, quantities of `positions` |
| `orders[<<week, i>>]`, `fills[<<week, i>>]` | `ShadowOrder`, `ShadowFill`; a week has one decision and a decision one order per instrument |
| `decisions[week]` | `ShadowDecision`: `asOf` its batch's day, `at` the date of `decision_at` |
| `nav[d]`, `watermark` | `ShadowNavDaily`, `last_processed_market_date` |
| `peak`, `riskMode` | `peak_value`, `risk_mode` |
| `lastWeek`, `lastDecision` | `last_decision_iso_week`, `last_decision_id` |
| `Plans`, `CanSize`, `Decide` | `_build_decision_and_orders`, `_persist_lot_aware_orders`: any plan that sells no more than is held and spends no more than the cash at the signal day's closes |
| `Bought`, `Sold`, `Cancelled` | the branches of `_fill_pending_orders` and of the intraday fill |
| `CorporateActions`, `Marked`, `Refreshed` | `_apply_ca_for_day`, `_mark_nav`, `refresh_shadow_portfolio_status` |

Prices, slippage and commissions are the tables `BuyCost` and `SellProceeds`; the
assumptions ask only that they are natural numbers (a sale brings at least its
commission).  Ranks, weights, caps and the sell gate choose one of `Plans`; the model
lets them choose any.

### ShadowPortfolio

The runs.  `book` is what the open transaction sees, `savepoint` what its innermost
rollback returns to, `durable` what is committed; the three are equal between runs.
`run` is the program counter of the run: the batches, sessions and orders it still has
to look at.  Time is counted in half days, before and after the session's open, which is
what an order's creation is compared with.

| Action | Code |
|---|---|
| `IngestBar`, `PublishBatch` | candle upserts in any order; `run_forward_for_loaded_model`.  They happen between any two steps of a run, as other transactions do under READ COMMITTED |
| `Activate`, `ActivateEmpty` | `initialize_shadow_portfolios`, `initialize_empty_shadow_portfolios` |
| `StartAdvance`, `SkipBatch`, `DecideWeek`, `ListDays`, `AdvanceDay`, `FillOrder`, `AdvanceMark`, `BlockSession`, `FinishAdvance` | `advance_shadow_portfolio`: `apply_pending_forward_decisions` batch by batch, `_trading_days_after`, `process_shadow_market_day` in a savepoint, order by order, SELL first |
| `StartCatchUpNoOp`, `StartCatchUp`, `OpenCatchUpSession`, `CatchUpDay`, `CatchUpMark`, `FinishCatchUp` | `run_portfolio_session_catchup`: the same inner steps dated 18:00 of the session, in a savepoint of their own, committed per session when asked |
| `StartIntraday`, `QuoteOrder`, `SkipOrder`, `FinishIntraday` | `run_intraday_refresh`, `fill_pending_orders_with_session_open` |
| `Crash` | the process dies, or the task rolls back: `durable` is what remains |
| `Abort` | an exception the caller turns into a status and then commits (`research_cycle/cycle.py`, the intraday refresh), and a catch-up whose recovery lock is lost between sessions |

`batch[d]` is the first day whose 18:00 cutoff admits the batch about day d: the day it
was made when the cycle ran before 18:00 (`"live"`), the day after when it ran later
(`"evening"`), day d itself when the recovery made it.  `MayBeAhead` is the one case
where an advance may not see a published batch yet: the recovery's stamp, 18:00 today,
may lie in the future.

Runs are taken one at a time.  The code does not enforce that (see hazards and the plan:
`ShadowSessions`); the properties here are what the runs must keep when it holds.

### MCShadowPortfolio

Instances for TLC: three sessions in two ISO weeks (or one), price tables in which a
drawdown trips the guard and recovers and an order affordable at the close is not at the
open, a split on day 3.

### ShadowPortfolioProofs, ShadowHistoryProofs

The inductive invariants and the theorems (section 4): what the runs may do, and what the
ledger says of its past.

### FoldLemmas

Sums over finite sets, recursion over `0..n`, maxima: the lemmas behind every property that sums
or replays rows.  It models nothing.

### ShadowRecovery

The worker task `market_shadow_recovery`, as many at a time as `Tasks` has.  `lock` is the
Redis key (whose token, how long to live), `task[t]` the program counter of a run and what
its `RecoveryLockLease` believes, `tx[t]` what its database session has written and not
committed, `db` what is committed.  The ledger of one portfolio is its watermark here; what a
session does to it is `ShadowPortfolio`'s subject.

| Action | Code |
|---|---|
| `Acquire`, `Release`, `Heartbeat`, `Tick` | `SET NX EX`, the two Lua scripts, `_heartbeat_loop`, expiry.  A token is its run: `holder = t` is the token of t's present run, `Orphan` one whose run is over |
| `StillOwned`, `LockLost` | the two outcomes of `still_owned`; the second also when Redis fails |
| `EnterStage`, `BeginUnit`, `Fence` | the fences before a stage, before a day, before a commit |
| `IngestInstrument`, `ComputeFeatures`, `ForecastDay`, `ReplaySession` | a unit of each stage: an instrument for the whole gap, all features, a batch, a session |
| `CommitUnit`, `CommitStage` | `_commit_if_allowed`, `TechnicalComputeService._commit`, the commit per session; the commits of `run_market_shadow_recovery` |
| `SkipStage` | an exception of the features or the forward stage, kept as an error entry |
| `Leave`, `Fail`, `Crash` | `core_session` commits on return, rolls back on an exception; the process dies |

A commit is a step of its own after its fence, so time, other runs and the heartbeat come
between them.  `StallAssumption` bounds that time by less than the lock's time to live: the
fence has just renewed 600 seconds, the commit is the next statement.  Without it no lease
without a token in the database can fence a commit, and the code does not try.

### MCShadowRecovery, ShadowRecoveryProofs

Two runs, two instruments that both have to be there, a gap of two sessions; the theorems
about the lock.

### PersonalBook, JournalBook, PersonalLedger

`PersonalBook` is one personal portfolio as the database has it, `db`: its status, what its
row and its positions show (`totals`), the journal of operations by id, the broker account.
`ApplyEvent` is `personal_ledger.py` event by event, with the rounding of `money()`;
`Replay` folds it over the ACTIVE operations in the order they happened.  `Outcomes(db, r,
now)` is what a request makes of the portfolio, with its answer.

| In the model | In the code |
|---|---|
| `CreateOperation` | `create_operation`: idempotency key and fingerprint, cutover, commission, correction, projection by replay |
| `CancelOperation` | `cancel_operation`: the operation is retired, a marker row takes the key, the rest is replayed |
| `Activations`, `Opening`, `OpeningRows` | `activate_portfolio`: the draft's snapshot becomes opening rows at the cutover |
| `EditDraft`, `Wiped` | the setup endpoints, reset and delete |
| `Serve`, `Commit`, `Crash` | a handler: `lock_portfolio` and everything up to the answer; the commit, with the answer arriving or lost; the death of the transaction |

`PersonalLedger` has the handlers.  `told` remembers which key a client was told names which
operation.  `JournalBook` is the abstract specification: a journal to which one request at a
time adds a row and retires at most one, whose totals are what the journal accounts for.
`PersonalLedger` implements it (`ImplementsJournalBook`): only commits change the book.

`MCPersonalLedger` has one request of every kind, a share and a bond, two instants, two
handlers and a purchase whose average cost must be rounded.  `PersonalLedgerProofs` has the
theorems about requests, `PersonalReplayProofs` those about what a replay comes to.

### DailyCycle

The daily research cycle on several workers, and recoveries up to their forward batches.

| In the model | In the code |
|---|---|
| `lock` | `LOCK_KEY` in Redis: whose token; `Orphan` that of a dead worker |
| `rows`, `queue`, `posting` | `workflow` rows of the cycle, Celery messages, requests between check and commit |
| `market` | the last day the exchange closed, that has bars, that has features |
| `predictions`, `batches` | per day and instrument the batch of the prediction; how many batches a day has |
| `task[p]` | where a process is, its workflow row, and its open transaction: the days of its batches (`opened`), the instruments it has still to look up (`unseen`), did not find (`missing`), has inserted (`wrote`) |
| `Take`, `Blocked`, `Prior`, `Create`, `Market`, `Features`, `Rest`, `Finalize`, `Fail`, `RecordFailure`, `ReleaseGet`, `ReleaseDelete` | `_run` and `LockHandle.release`, commit by commit |
| `Decline`, `Begin`, `LookUp`, `Insert`, `Refused`, `CommitBatch` | `run_forward_for_loaded_model` and `insert_predictions_immutable`: one SELECT per instrument, one flush, the unique key, the commit |
| `StartRecovery`, `Swallowed` | `run_market_shadow_recovery`, also inline in `maybe_trigger_cycle_if_ready`; its exceptions that become report entries |
| `PostCheck`, `PostCreate`, `MarketDataUpdate`, `Expire`, `Crash` | `POST /run`, the market update task, the lock's time to live, a worker's death |

Storing the bars of the closed days is one step (`ShadowRecovery` has it instrument by
instrument), and so are the two feature stages, which read the stored bars, and `Rest`:
SHADOW_ADVANCE (`ShadowPortfolio`), the experimental stages and the outcome evaluation.
CBR, corporate actions and relations do not matter to what is modelled.  The eligible
instruments are the same for all runs of a day.  Ended rows that nobody refers to any
more are forgotten (`Kept`), so that a few `Rows` are enough for any number of cycles.

### DecisionMemory

The memory of one portfolio, one statement of a request after the other.

| In the model | In the code |
|---|---|
| `today`, `quote`, `closes`, `journal` | the clock, the quote cache, the 1d candles, the personal operations: what other processes write (`World`) |
| `records` | `personal_decision_records`, each with one action: key, decision and cash (`view`), `captured_at`, frozen baseline |
| `outcomes[<<id, h>>]`, `links` | the rows per horizon, the links with their `active` flag; committed rows only |
| `task[r]` | where a request is, and what it has read: clock, baseline, the outcomes as loaded (`seen`) and as they are to be (`found`) |
| `StartCapture`, `FindExistingCapture`, `CaptureDecision`, `InsertRecord`, `FreezeBaseline`, `CommitCapture` | `POST /capture`: the lookup before and the one after the decision is built anew, the savepoint and its unique key (`KeyIsHeld` waits for the transaction that inserted it), quote or close, commit |
| `StartRefresh`, `ObserveClose`, `FlushOutcomes` | `refresh_outcomes`: one SELECT of the open rows, a close for each, one flush.  An UPDATE sets the columns that differ from the loaded row (`Updated`), whatever the row is by then |
| `StartLink`, `LoadOperation`, `CheckWindow`, `ConfirmLink`, `Unlink` | `confirm_operation_link` check by check, the partial unique index; the soft unlink |
| `Crash` | the request dies: `memory_session` rolls back and its index entries are free again |

Days are trading days and instants at once: a session's close is observed on its day, a
previous close belongs to the day before.  `told` keeps the answers that were sent.

`DecisionMemoryProofs` has the theorems about it.

## 3. Runs

All of them check deadlock (the last state of a calendar still has runs to start), except
`personal_ledger`: a deleted portfolio serves no request.

| Run | Instance | Shows |
|---|---|---|
| `sessions` | one instrument, three days, batches of the live cycle and the recovery, two weeks, runs before and after the open, intraday on | one live plan, no look-ahead; an order that intraday and end-of-day runs both want is filled once, intraday only at an OPEN that came after it; cash follows from the fills, guard and peak from the NAV rows; append-only history |
| `two_instruments` | two instruments, a day is complete with both candles, a split on day 3, one week, `FairSpec` | blocked sessions leave no trace; positions and NAV rows follow from the fill rows; cash and holdings stay in their types; the watermark reaches the last session once the data is there |
| `retrospective_fill` | as `sessions` | *violated*: a catch-up fills an order at an OPEN known when the order was created |
| `recovery` | two runs, gap of two sessions, `FairSpec` | fenced commits hold the lock, sessions are replayed once and in order, a lock passes only by expiry or its holder's end, and comes free again |
| `missing_batches` | as `recovery`, `Spec` | *violated*: after a crash past the market stage, sessions are replayed without their batches |
| `personal_ledger` | two handlers, sixteen requests, at most five journal rows | the portfolio shows what its journal accounts for; no moment of the history is overdrawn; an answered key keeps naming its operation; opening rows come first; rounding loses at most half a quantum per unit and purchase; activation keeps the draft; it implements `JournalBook` |
| `daily_cycle` | two workers, one recovery, two instruments, two days, two faults | a day is predicted whole, from one batch, for ever, and only from its features; a cycle that ends well and names a day leaves it predicted |
| `cycle_liveness` | two workers, one day, one API request, one fault, `FairSpec` | every RUNNING row ends, the last day's predictions come out |
| `duplicate_batch` | as `daily_cycle`, no fault | *violated*: a cycle and a recovery leave two batches for a day, one of them empty |
| `decision_captures` | two requests, one key, two decisions, two prices, horizons 1 and 2, four days | one record per key and every answer shows it; no baseline from the future; outcomes are true and a READY one is lost to an overlapping refresh only |
| `decision_links` | two requests, two keys, one operation, two days, `FairSpec` | links stay in their window and one is active; no request waits for ever |
| `prospective_outcomes` | one request, horizon 5, eight days, candles of the first and the sixth | *violated*: an outcome becomes READY whose session was over when the decision was captured |

**Bounds.**  Three days are what the interesting cases need: a decision on day 1, its
fill on day 2, and a day 3 on which the position is marked, split, sold, superseded or
blocked.  Two weeks are what superseding needs, in either order of arrival.  Orders are of one
unit (`MaxLot`), holdings of at most `MaxUnits` (two fills, or a split of them); a step
that would exceed it is not taken (`StartSession`, `WithinBound`).  `Instants` are the
half days on which batches are published and runs start; `Publishers` which stamps occur.
Initial capital 6 pays for one or two orders, so plans compete for cash.  The clock stops
at the last instant.

For the recovery, two runs are what a takeover needs, a gap of two sessions what "in order"
and "the ones before the crash" need, and two instruments make the market stage stop half
done.  The lock lives two ticks and a commit may come one tick after its fence, so a lock can
run out between any two fences and just not between a fence and its commit.

A personal portfolio needs an operation, one it builds on, one in the past, a correction and
a cancellation: five rows (`MaxId`; a request that needs more is not served).  Two handlers
are what a race needs; a request may be repeated without bound.

For the cycle, two workers and a recovery are what overlaps in threes; two days tell "the
latest" from "the next"; two instruments tell a whole day from half of one.  `MaxFaults`
counts crashes, errors, lost messages and locks that expire under a living owner: two
let a cycle lose its lock and then fail or meet a second loss.  `MaxPosting` bounds the
API's requests that are under way, `Rows` the rows somebody still refers to: one per worker
and one that a dead or refused task left.  `daily_cycle` has no API requests, `cycle_liveness`
no recovery; each would multiply the other's states without a new case.

For the decision memory, two requests are what a race needs: for a key, for a row, for a link.
Two horizons give a refresh two rows to carry, and an order; candles of the first and the third
of four days let a session have a close late, corrected, or never.  `MaxRecords` counts ids
taken, by rolled back captures too; `MaxLinks` link rows.  Captures with outcomes and links are
checked apart since neither reads the other's rows, except that a link needs a record.  The
findings' instance has the shortest time in which a 5-session outcome is over before its capture.

`sessions` leaves the evening stamp of a batch out (a day later than the live one); it is in
the assumptions of the proofs.

**Fairness.**  `FairSpec` is weak fairness of `StartRun` and of `RunStep`.  Beat starts
the cycle every day, the readiness retry every few minutes and the recovery at worker
start (`worker/celery_app.py`), and a started run is straight-line code.  `CatchesUp`
assumes that runs do not fail for ever (`<>[](run # Failed)`); nothing is assumed of
the arrival of candles: `AllData` is the premise.  Intraday steps need no fairness,
and a run may be intraday only where the setting enables it.

`FairSpec` of the recovery is weak fairness of `Tick` and of a started run's steps: time
passes, and a run is straight-line code whose waits (an INSERT or UPDATE of a row another
session wrote) end with that session's transaction.  Nothing makes a run start, renew in
time, or reach Redis.  `LockComesFree` leans on the time to live, not on `Release`, which
may always be the one that Redis does not answer.

`FairSpec` of the cycle is weak fairness of each worker's stages, which are straight-line
code, of the API's commit and of the expiry of a dead worker's lock; and strong fairness of
`Scheduled`: beat starts a cycle every day, so among infinitely many moments at which the
lock is free and a worker idle, one meets a scheduled cycle.  That is justified only where
`daily_research_cycle_enabled` is set; with the schedule off nothing is promised, and
nothing happens.  Faults are bounded, so in the end cycles succeed.

`FairSpec` of the decision memory is weak fairness of a request's next statement; a request that
waits for a key takes no step and needs the other to end.  Nothing makes a request come.

`personal_ledger` checks safety only; what a handler or a client does is nobody's duty.

Every property is tested against a mutant of the code (`PROJECT.json`, "mutants"; the
definitions named "Mutant of ..." stand before what they replace).

## 4. Proofs

`ShadowPortfolioProofs` proves, for every calendar, cohort, price table, split table,
set of publishers and bound that the named assumptions allow:

- `TypeCorrect`: `Spec => []TypeOK`.  Cash is a natural number, holdings are neither
  negative nor above their bound, every row refers to days and weeks that exist.
- `OnePlanHolds`: `Spec => []OnePlan`.
- `ExactlyOnceHolds`: `Spec => []ExactlyOnce`.
- `NoLookAheadHolds`: `Spec => []NoLookAhead`.

All follow from `Soundness`, `Spec => []IInv`.  None of the four is inductive alone: a run
in progress holds work lists made from earlier states, and a rollback brings back an
older book.  `IInv` therefore says

- `SoundBook` of `book`, `savepoint` and `durable`: the types of the rows; every PENDING
  order belongs to the last decision; an order may fill from the day after its decision,
  is FILLED exactly when it has a fill row, and that row is not dated earlier nor larger; a
  decision is not dated before its batch's day, and its batch was published and admitted;
- `BatchInv`: a published batch is about no day later than today and admitted by tomorrow;
- `RunInv`: the batches a run still has to look at are about days up to the date it decides
  on, published and admitted by then; the orders it still has to try are PENDING; both
  lists are empty outside the stages that use them, and filling has a session at hand.

The proof has one lemma per group of actions of `Next`, and under it one step per action;
`ShadowBook`'s operators get lemmas of their own.  The assumptions used are
`CalendarAssumption`, `BoundsAssumption`, `PriceAssumption` and
`SurroundingsAssumption`; TLC evaluates them in every run.

**Sums and replays.**  The library's induction theorems take an operator as a parameter, which the
provers cannot instantiate.  `FoldLemmas` goes around them: the naturals are well founded as a
*set*, so a set of naturals that has 0 and every successor is `Nat` (`NatSetInduction`), and
the claim that is proved by induction is the membership of a size in such a set.  In the same
way it shows that the recursion inside a fold has a solution (`SumsExist`, `RecursionExists`),
that solutions agree (`SumsUnique`), and so what a sum becomes when an element is added, removed
or scaled.  Properties that sum are stated with `SumFunction` and replays over days with
recursive functions, which these lemmas reach.

`ShadowHistoryProofs` proves, from the assumptions above and a finite cohort
(`CohortAssumption`):

- `CashMatchesFillsHolds`, `RiskMatchesHistoryHolds`, `FillsAreMarkedHolds`,
  `IntradayFillsKnewNoOpenHolds`: `Spec => []X` of the four invariants;
- `HistoryAppendOnlyHolds`: `Spec => HistoryAppendOnly`;
- `HoldingsMatchFillsHolds`, `NavUsesPastFillsHolds`: `~IntradayEnabled => (Spec => []X)`.

The first five follow from `TrueHistory`, `Spec => [](IInv /\ HInv)`.  What they say of the
committed book is not inductive, for a commit takes over the book of the run and a rollback the
savepoint.  `HInv` says it of all three (`TrueBook`); that each keeps the history of the
one it may be rolled back to (`Kept`), which makes every commit an extension; that candle fills
without a NAV row exist only in the open session and are dated that day (`SessionFills`), so
a session is committed with its NAV row or not at all; and that a run takes its sessions
upwards from the watermark (`Agenda`), so a NAV row is never written twice nor out of order,
and replaying the rows gives the peak and the mode the last one left.

The other two need not hold with intraday fills, and the hypothesis says so: an intraday fill of a
day may come before that day's splits and before an earlier day is marked (the hazard at
`open_execution_service.py:433`).  `INTRADAY_MARKET_ENABLED` is off by default
(`core/config.py:83`).  Then `SettledHistory` adds `CandleInv`: in each of the three books a
NAV row has the cash of the fills up to its day, and positions are the fills times the splits of
the later sessions processed: those with a NAV row in the books a run may go back to, and the
session in hand besides in the book of the run (`Applied`).

`ShadowRecoveryProofs` proves, for any set of runs and instruments, any gap, and any time to
live longer than the stall (`GapAssumption`, `LockAssumption`, `StallAssumption`):

- `RecoveryTypeCorrect`: `Spec => []TypeOK`.
- `CommitsFenced`: `Spec => []CommitsHoldLock`.
- `SessionsInOrder`: `Spec => []SessionIsNext`.
- `OwnersRelease`: `Spec => OnlyOwnerReleases`.

`CommitsHoldLock` needs to know how much of the lock is left: `OwnLock` says that after a
fence the time to live and the stall together are at least the full time to live, and that
while the lock is a run's, the watermark the run read is the committed one - a run that lost
the lock may hold a stale watermark, and is stopped by its next fence.  `OwnWork` is what a
run's own record shows: the units left are the next days without a hole, the session written
is the one after the watermark it read, and nothing of a session is left uncommitted
outside its two places.  The proof has a lemma per action; `OthersKeep` carries the
claims of the runs that did not move.

`PersonalLedgerProofs` proves, for any instruments, handlers, instants and requests and any
journal size (`BookAssumption`, `HandlerAssumption`):

- `TypeCorrect`, `JournalIsShown` (`ShowsItsJournal`), `AnswersStay` (`AnswersAreKept`);
- `Implements`: `Spec => ImplementsJournalBook`.

The invariant is `Sound(db)`, a committed portfolio is well typed, its keys differ, its
totals are its replay's; `Kept`, what clients were told is in the journal; and `Pending(h)`, a
transaction under way holds the row and its outcome is one of `Outcomes` of the *committed*
`db`.  The last is what the row lock is for: without it (`ServeUnlocked`) the outcome is of an
older portfolio.  `OutcomeIsSound` then shows once, for every kind of request, that an outcome
of a sound portfolio is sound and is a step of `JournalBook`.  Nothing here depends on what a
replay computes: every outcome shows the totals of its own journal.

`PersonalReplayProofs` proves what does, for requests as the API's models let them through
(`RequestAssumption`: types and integers, and setup positions with units and a cost or none):

- `OpeningComesFirstHolds`, `NeverOverdrawnHolds`, `ResultIsAccountedHolds`: `Spec => []X`;
- `ActivationKeeps`: `Spec => ActivationKeepsTheDraft`.

`Replay` is a fold in journal order.  `ReplayStep` unfolds it once: the latest row is applied to
what the others come to; `ReplayInduction` is induction over sets of rows in that order.
There is one lemma per event of `ApplyEvent` that says what an accepted event leaves, and from
them, by induction:

- `ReplayIsSound`: a valid replay has natural cash and units, a position without units has no
  cost, and a ledger that is complete knows the cost of every position it holds;
- `BeginningIsValid`: if rows replay without an error so does every beginning of them, since an
  error is for good.  With the two, no moment of the history is overdrawn;
- `ReplayIsAccounted`: cash plus cost basis, less contributions and result, are minus the
  outlays of the rows, up to half a quantum for each unit ever bought, once per purchase.  An
  averaging purchase rounds the cost of at most so many units (`MoneyRounds`), a sale takes
  out exactly what the rounded average said;
- `SnapshotOpens`: opening rows, in any order, show exactly what each records; since the rows
  are written injectively under as many ids, none is missing (`ActivationPreserves`).

The invariant is `Inv /\ Dated(db)`: rows are typed, the opening rows are of one instant and all
active manual rows later (`Cutover`), the totals shown are sound - of a draft too, which is why an
activation finds units with every position it writes.  `Cutover` needs the rows that are *not*
active as well: the cutover is read from all opening rows, cancelled ones included.
`OnlyActivationStarts` shows that neither an operation nor a cancellation can make a draft with
a snapshot active.

`DailyCycleProofs` proves, for any number of workers, recoveries, instruments, days, rows and
faults (`CycleConstants`):

- `TypeCorrect`, which includes that features never run ahead of bars;
- `DaysAreWhole`, `PredictionsStay`, `FeaturesComeFirst`, `CyclesTellTheTruth`: the four
  safety properties of `daily_cycle`.

`DayIsWhole` is not inductive: what counts is what the open transactions are about to
publish.  `Inv` adds that an uncommitted day is whole and has no committed prediction
(`WritesWhole`), that no two transactions have inserted the same key (`WritesApart`) and that
its features exist (`WritesReady`); that a transaction that looks up has either still to see,
or found missing, or found published every instrument (`LookedUp`); that a cycle at its
commit has inserted or found the whole day (`CommitsDay`); and that a row that names a day
tells the truth (`RowsPredicted`).  The step that matters is `Insert`: since published days
are whole, one missing row that the unique key lets in means that none was published, so
all of them were missing.  Most actions are `Quiet`, they publish nothing and write nothing,
and one lemma covers them.

`DecisionMemoryProofs` proves, for any number of requests, keys, decisions, prices, horizons, days
and records (`MemoryAssumption`):

- `TypeCorrect`, `OneRecordAlways`, `BaselineAlwaysKnown`, `OutcomesAlwaysMature`,
  `LinksAlwaysInWindow`, `OneActiveLinkAlways`: the safety invariants of its two runs;
- `ReadyOnlyLostToOverlap`: `Spec => ReadyLostToOverlapOnly`.

There is an invariant per question, each proved from the ones before.  `KInv`: a request between
its insert and its commit owns its id and its key (`OwnsKey`) - no record and no other such request has
them, which is what the wait in the index gives.  `BInv`: what a capture has frozen was known.
`LInv`: a request that links knows of a record and an operation that nothing can change any more,
since records stay and the day of an entered operation is fixed (`JournalGrows`).  `OInv` is about
refreshes that have loaded rows and not yet written them: the row's session is over and its
action has a baseline (`Over`), what was found is READY with a price, or unavailable with the
price as loaded (`Loaded`), and the row may have moved since, but one way only (`Behind`): not back to
PENDING, and not from a price to none.  `UpdatedRow` shows that writing the changed columns of
such a row keeps that for every other refresh.

Every invariant and every action property of the passing runs is the subject of a theorem.  Only
model-checked are the liveness properties: `CatchesUp`, `LockComesFree`, `RowsEnd`,
`ForwardComesOut` and `RequestsEnd` (liveness under fairness is beyond the provers).

## 5. Findings

Four runs show a disagreement between documents and code (`PROJECT.json`, "findings"):

- `retrospective_fill`: a catch-up fills an order at the OPEN of a session that was over when
  the order was created.
- `missing_batches`: the days between the watermark and a market that an earlier, crashed
  recovery completed never get their Forward batches.
- `duplicate_batch`: a cycle and a recovery that overlap leave a second, empty SUCCESS batch for
  a day, and Shadow's choice of the latest batch by id prefers the empty one.
- `prospective_outcomes`: an outcome counts as prospective although its session was over when
  the decision was captured: the baseline was an old close, and the horizon counts from it.

More were met while translating and have no run of their own:

- A late batch of an older week is decided after a newer week's and supersedes it
  (`service.py:768-770`, "from prior weeks").
- `_apply_ca_for_day` (`service.py:403-412`) rewrites every position with its quantity alone, so
  from the session after the fill a position has no lots and no cost basis.
- Splits are applied before the session's fills (`service.py:367-368`), the docstring of
  `advance_shadow_portfolio` says after.
- A recovery that finds its lock lost in the forward stage returns without rollback
  (`recovery.py:518-538`), and `core_session` commits what the stage had written.
- An experimental stage that meets a database error swallows it (`research_cycle/cycle.py:433`) but
  leaves the session unusable, and the next flush fails the operational cycle
  (`ExperimentBreaks`); `config.py:20` calls these stages non-fatal.
- "READY rows are final" (`decision_memory_service.py:1043`) holds for rows a refresh loads READY.  A
  refresh that loaded a row PENDING and found no close may still set it to DATA_UNAVAILABLE after
  another made it READY; the price stays and the next refresh repairs it.
  `ReadyLostToOverlapOnly` says that nothing worse can happen.
- The window of a link ends at the next committed capture: one that was captured earlier and commits
  later does not bound it, so an operation can be linked to two decisions.

## 6. Not modelled

In the ledger: the V3 fee economics and sell gate and the numerical sizing (any plan
within the frame is allowed instead); fractional V1 portfolios; reverse splits;
`max_sessions`; risk-event rows and journals; the A/B groups.  In the recovery:
the Shadow sessions of callers without the lock (`maybe_trigger_cycle_if_ready`, `POST
/catch-up`; `DailyCycle` has their batches), the status in Redis, several portfolios, partial
coverage that differs from day to day.  Two overlapping sessions of one Shadow portfolio.  In
the personal ledger: several portfolios, renames, lot checks and dates in the future (refusals),
the read models, the advice, and the legacy writers of `manual_portfolio_service.py`.  In the
decision memory: records of several actions, instruments and asset classes without a baseline,
returns and directional alignment, the end of the trading calendar, the reads and the summary, and
the frontend, which makes a new key when it asks again.  In the
cycle: scoring, hashes and lineage of a batch, outcome resolution, step rows, watermarks and
health.  Elsewhere: parsers,
network adapters, numerical models, read models and the frontend, which keep no state
that outlives a call or only append results.

## 7. Plan

1. `ShadowBook`, `ShadowPortfolio` and its proofs: the ledger and its three writers. *Done.*
2. `ShadowRecovery` and its proofs: lease, heartbeat, fences between stages, commits, crash
   and takeover. *Done for the locked task.*
3. `PersonalBook`, `JournalBook`, `PersonalLedger` and its proofs. *Done.*
4. `DailyCycle` and its proofs: lock without renewal, workflow rows, overlapping forward runs,
   failed stages, stale RUNNING rows. *Done.*
5. `DecisionMemory` and its proofs: captures, outcomes and links across two databases. *Done.*
6. `ShadowSessions`: two overlapping sessions over one portfolio row, with stale identity
   maps; refines a serial ledger where row locks make it so.
7. Pure algorithms against reference definitions: `DrawdownGuard`, `HysteresisPolicy`,
   `LotPlan`, position accounting, the sell gate.
8. The simulator engine, the bounded backfill.
9. Theorems about the ledger's history and about what a journal replays to.  *Done.*
