------------------------------ MODULE DailyCycle ------------------------------
(***************************************************************************)
(* The Daily Research Cycle and the forward predictions it publishes       *)
(* (modules/research_cycle and modules/prediction of the backend).         *)
(*                                                                         *)
(* Celery workers run cycles one stage after the other, each stage ending  *)
(* in a commit.  A Redis lock with a time to live keeps cycles apart, a    *)
(* workflow row in the database tells the API and the readiness poll that  *)
(* one is RUNNING, and a unique key keeps forward predictions immutable.   *)
(* Market recoveries publish predictions too, without the cycle's lock.    *)
(***************************************************************************)
EXTENDS Integers, FiniteSets

CONSTANTS
    Workers,      \* Celery workers that run cycles
    Recoveries,   \* processes that run the market recovery
    Instruments,  \* the instruments eligible for a prediction
    LastDay,      \* the last trading day
    Rows,         \* room for workflow rows that someone may still read
    MaxPosting,   \* bound: POST /run requests under way or waiting
    MaxFaults,    \* bound: crashes, errors, lost messages, lost locks
    Free, Orphan, \* values of the lock without a living owner
    NoRow         \* the workflow_id None of a scheduled cycle

ASSUME CycleConstants ==
    /\ Workers \cap Recoveries = {}
    /\ {Free, Orphan} \cap Workers = {} /\ Free # Orphan
    /\ LastDay \in Nat \ {0} /\ NoRow \notin Rows
    /\ Instruments # {}
    /\ MaxPosting \in Nat /\ MaxFaults \in Nat
    /\ IsFiniteSet(Rows)

VARIABLES
    lock,        \* LOCK_KEY in Redis: the token's worker, Free or Orphan
    rows,        \* the workflow rows that are RUNNING or still referred to
    queue,       \* rows whose daily_research_cycle task waits for a worker
    posting,     \* POST /run handlers between their check and their commit
    market,      \* the days the exchange closed, stored bars, features
    predictions, \* the committed batch of each day and instrument, 0: none
    batches,     \* how many batches of each day are committed
    task,        \* what each process is doing
    faults       \* how many faults have happened

vars == <<lock, rows, queue, posting, market, predictions, batches, task, faults>>

Processes == Workers \cup Recoveries
Days == 1..LastDay
Keys == Days \X Instruments

\* Stages at which an exception ends in the cycle's own handler.
Stages == {"prior", "create", "market", "features", "forecast", "lookup",
           "commit", "rest", "final"}

Idle == [place |-> "idle", row |-> NoRow, day |-> 0, todo |-> {},
         unseen |-> {}, missing |-> {}, opened |-> {}, wrote |-> {},
         changed |-> FALSE, why |-> ""]

\* A workflow row: its status, its error and the day of the batch that its
\* FORWARD_SIGNAL step names (0: none).
NoWorkflow == [status |-> "none", error |-> "", asOf |-> 0]
NewWorkflow == [NoWorkflow EXCEPT !.status = "RUNNING"]

Running == {r \in Rows : rows[r].status = "RUNNING"}
Held == queue \cup {task[w].row : w \in Workers}
Slots == {r \in Rows : rows[r].status # "RUNNING" /\ r \notin Held}
Slot == CHOOSE r \in Slots : TRUE

\* Ended rows that no task refers to any more are forgotten.
Kept(rs, held) ==
    [r \in Rows |-> IF rs[r].status = "RUNNING" \/ r \in held THEN rs[r]
                    ELSE NoWorkflow]

Predicted(d) == \A i \in Instruments : predictions[d][i] # 0
AnyPredicted(d) == \E i \in Instruments : predictions[d][i] # 0

-----------------------------------------------------------------------------
\* What the session of a process sees and does.

At(p, place) == task[p].place = place

Becomes(p, t) == task' = [task EXCEPT ![p] = t]
Goto(p, place) == Becomes(p, [task[p] EXCEPT !.place = place])

\* After an exception and its rollback: a cycle has its failure to record, a
\* recovery is over.
Failed(p, why) ==
    IF p \in Workers
    THEN [Idle EXCEPT !.place = "record", !.row = task[p].row, !.why = why]
    ELSE Idle

\* get_existing_predictions and the per-row SELECT read what is committed.
Committed == {k \in Keys : predictions[k[1]][k[2]] # 0}

\* Mutant of Conflicts: no unique key.
ConflictsNever(p) == {}

\* Rows about to be inserted that the unique key refuses.
Conflicts(p) == ({task[p].day} \X task[p].missing) \cap Committed

\* An INSERT of a key that another transaction has inserted waits for its end.
Waits(p) ==
    \E q \in Processes \ {p} :
        task[q].wrote \cap ({task[p].day} \X task[p].missing) # {}

Fault == faults < MaxFaults /\ faults' = faults + 1

-----------------------------------------------------------------------------
\* The world around the cycles.

\* The exchange closes a day.
Tick ==
    /\ market.source < LastDay
    /\ market' = [market EXCEPT !.source = @ + 1]
    /\ UNCHANGED <<lock, rows, queue, posting, predictions, batches, task, faults>>

\* market_data_update stores bars outside any cycle.
MarketDataUpdate ==
    /\ market.bars < market.source
    /\ market' = [market EXCEPT !.bars = market.source]
    /\ UNCHANGED <<lock, rows, queue, posting, predictions, batches, task, faults>>

\* POST /run finds no RUNNING row (otherwise it answers 409).
PostCheck ==
    /\ Running = {} /\ posting + Cardinality(queue) < MaxPosting
    /\ posting' = posting + 1
    /\ UNCHANGED <<lock, rows, queue, market, predictions, batches, task, faults>>

\* POST /run commits its row and sends the task; the sending may fail.
PostCreate ==
    /\ posting > 0 /\ Slots # {}
    /\ posting' = posting - 1
    /\ rows' = [rows EXCEPT ![Slot] = NewWorkflow]
    /\ \/ queue' = queue \cup {Slot} /\ UNCHANGED faults
       \/ Fault /\ UNCHANGED queue
    /\ UNCHANGED <<lock, market, predictions, batches, task>>

\* The lock's time to live runs out.  Under a living owner that is a fault: the
\* cycle then ran for more than LOCK_TTL_SECONDS.
Expire ==
    /\ lock # Free
    /\ IF lock = Orphan THEN UNCHANGED faults ELSE Fault
    /\ lock' = Free
    /\ UNCHANGED <<rows, queue, posting, market, predictions, batches, task>>

-----------------------------------------------------------------------------
\* run_daily_research_cycle, stage by stage.

\* A task gets the lock.  A scheduled one (NoRow) looks for a stale row first.
Take(w, r) ==
    /\ At(w, "idle") /\ lock = Free
    /\ lock' = w
    /\ queue' = queue \ {r}
    /\ Becomes(w, [task[w] EXCEPT
           !.row = r, !.place = IF r = NoRow THEN "prior" ELSE "market"])
    /\ UNCHANGED <<rows, posting, market, predictions, batches, faults>>

\* A task does not get the lock: it answers BLOCKED and its row stays RUNNING.
Blocked(w, r) ==
    /\ At(w, "idle") /\ lock # Free
    /\ queue' = queue \ {r}
    /\ rows' = Kept(rows, Held \ {r})
    /\ UNCHANGED <<lock, posting, market, predictions, batches, task, faults>>

\* Mutant of Prior: a row that is still RUNNING is left alone.
PriorKeepsRow(w) ==
    /\ At(w, "prior")
    /\ Goto(w, "create")
    /\ UNCHANGED <<lock, rows, queue, posting, market, predictions, batches, faults>>

\* Under the lock, one row that is still RUNNING is finalised as stale.
Prior(w) ==
    /\ At(w, "prior")
    /\ \/ \E r \in Running :
              rows' = Kept([rows EXCEPT ![r].status = "FAILED", ![r].error = "stale"], Held)
       \/ Running = {} /\ UNCHANGED rows
    /\ Goto(w, "create")
    /\ UNCHANGED <<lock, queue, posting, market, predictions, batches, faults>>

Create(w) ==
    /\ At(w, "create") /\ Slots # {}
    /\ rows' = [rows EXCEPT ![Slot] = NewWorkflow]
    /\ Becomes(w, [task[w] EXCEPT !.row = Slot, !.place = "market"])
    /\ UNCHANGED <<lock, queue, posting, market, predictions, batches, faults>>

\* MARKET_UPDATE, or the bars of a recovery: what the exchange has is stored.
\* A recovery will predict the days it has just stored.
Market(p) ==
    /\ At(p, "market")
    /\ market' = [market EXCEPT !.bars = market.source]
    /\ Becomes(p, [task[p] EXCEPT
           !.place = "features",
           !.changed = p \in Workers /\ market.bars < market.source,
           !.todo = IF p \in Workers THEN {} ELSE (market.bars + 1)..market.source])
    /\ UNCHANGED <<lock, rows, queue, posting, predictions, batches, faults>>

\* Mutant of Features: computed for the day the exchange is at.
FeaturesOfToday(p) ==
    /\ At(p, "features")
    /\ market' = [market EXCEPT !.features = market.source]
    /\ Goto(p, IF p \in Workers \/ task[p].todo # {} THEN "forecast" ELSE "commit")
    /\ UNCHANGED <<lock, rows, queue, posting, predictions, batches, faults>>

\* ANALYTICS_V2 and TECHNICAL_V2 (_ensure_features of a recovery).
Features(p) ==
    /\ At(p, "features")
    /\ market' = [market EXCEPT !.features = market.bars]
    /\ Goto(p, IF p \in Workers \/ task[p].todo # {} THEN "forecast" ELSE "commit")
    /\ UNCHANGED <<lock, rows, queue, posting, predictions, batches, faults>>

\* run_forward_signal_v0 up to the decision to publish: a cycle takes the latest
\* stored day, a recovery its next one.  WARNING without features, NO_CHANGES
\* when the day has predictions, else a batch is begun.
AsOf(p) ==
    IF p \in Workers THEN market.bars
    ELSE CHOOSE d \in task[p].todo : \A e \in task[p].todo : d <= e

\* Mutant of Ready: the features have to be of a later day.
ReadyLater(d) == d \in 1..market.features - 1

\* Mutant of Ready: bars are enough.
ReadyWithBars(d) == d \in 1..market.bars

Ready(d) == d \in 1..market.features

\* Where a process goes when its forward step published nothing for day d.
Onward(p, d) ==
    IF p \in Workers THEN "rest"
    ELSE IF task[p].todo = {d} THEN "commit" ELSE "forecast"

\* Mutant of Decline: a WARNING names its day too.
DeclineWithDay(p) ==
    LET d == AsOf(p) IN
    /\ At(p, "forecast")
    /\ Ready(d) => AnyPredicted(d)
    /\ Becomes(p, [task[p] EXCEPT !.place = Onward(p, d), !.todo = @ \ {d}])
    /\ IF p \in Workers
       THEN rows' = [rows EXCEPT ![task[p].row].asOf = d]
       ELSE UNCHANGED rows
    /\ UNCHANGED <<lock, queue, posting, market, predictions, batches, faults>>

Decline(p) ==
    LET d == AsOf(p) IN
    /\ At(p, "forecast")
    /\ Ready(d) => AnyPredicted(d)
    /\ Becomes(p, [task[p] EXCEPT !.place = Onward(p, d), !.todo = @ \ {d}])
    /\ IF p \in Workers /\ Ready(d)
       THEN rows' = [rows EXCEPT ![task[p].row].asOf = d]
       ELSE UNCHANGED rows
    /\ UNCHANGED <<lock, queue, posting, market, predictions, batches, faults>>

Begin(p) ==
    LET d == AsOf(p) IN
    /\ At(p, "forecast")
    /\ Ready(d) /\ ~AnyPredicted(d)
    /\ Becomes(p, [task[p] EXCEPT
           !.place = "lookup", !.day = d, !.opened = @ \cup {d},
           !.unseen = Instruments, !.missing = {}])
    /\ UNCHANGED <<lock, rows, queue, posting, market, predictions, batches, faults>>

\* Mutant of LookUp: every missing row is committed on its own.
LookUpEach(p) ==
    /\ At(p, "lookup") /\ task[p].unseen # {}
    /\ LET i == CHOOSE i \in task[p].unseen : TRUE
           d == task[p].day
       IN  /\ Becomes(p, [task[p] EXCEPT !.unseen = @ \ {i}])
           /\ predictions' = IF <<d, i>> \in Committed THEN predictions
                             ELSE [predictions EXCEPT ![d][i] = batches[d] + 1]
    /\ UNCHANGED <<lock, rows, queue, posting, market, batches, faults>>

\* insert_predictions_immutable: one SELECT for each row, in rank order.
LookUp(p) ==
    /\ At(p, "lookup") /\ task[p].unseen # {}
    /\ LET i == CHOOSE i \in task[p].unseen : TRUE IN
       Becomes(p, [task[p] EXCEPT
           !.unseen = @ \ {i},
           !.missing = IF <<task[p].day, i>> \in Committed THEN @ ELSE @ \cup {i}])
    /\ UNCHANGED <<lock, rows, queue, posting, market, predictions, batches, faults>>

\* ... then one flush of the rows that were not found.  The unique key refuses
\* it (IntegrityError) when one of them was committed in the meantime.
Insert(p) ==
    /\ At(p, "lookup") /\ task[p].unseen = {} /\ ~Waits(p) /\ Conflicts(p) = {}
    /\ Becomes(p, [task[p] EXCEPT
           !.place = IF p \in Workers THEN "commit" ELSE Onward(p, task[p].day),
           !.todo = @ \ {task[p].day},
           !.wrote = @ \cup ({task[p].day} \X task[p].missing),
           !.missing = {},
           !.day = IF p \in Workers THEN @ ELSE 0])
    /\ UNCHANGED <<lock, rows, queue, posting, market, predictions, batches, faults>>

Refused(p) ==
    /\ At(p, "lookup") /\ task[p].unseen = {} /\ ~Waits(p) /\ Conflicts(p) # {}
    /\ Becomes(p, Failed(p, "operational"))
    /\ UNCHANGED <<lock, rows, queue, posting, market, predictions, batches, faults>>

\* The commit that makes the batches and their rows visible.
CommitBatch(p) ==
    /\ At(p, "commit")
    /\ predictions' = [d \in Days |-> [i \in Instruments |->
           IF <<d, i>> \in task[p].wrote THEN batches[d] + 1 ELSE predictions[d][i]]]
    /\ batches' = [d \in Days |-> IF d \in task[p].opened THEN batches[d] + 1
                                  ELSE batches[d]]
    /\ IF p \in Workers
       THEN /\ rows' = [rows EXCEPT ![task[p].row].asOf = task[p].day]
            /\ Becomes(p, [Idle EXCEPT
                   !.place = "rest", !.row = task[p].row, !.changed = TRUE])
       ELSE /\ Becomes(p, Idle)
            /\ UNCHANGED rows
    /\ UNCHANGED <<lock, queue, posting, market, faults>>

\* SHADOW_ADVANCE, the experimental stages and FORWARD_OUTCOME_EVALUATION: new
\* orders, fills or outcomes make the cycle one with changes.  An exception of
\* an experimental stage is swallowed by it.
Rest(w) ==
    /\ At(w, "rest")
    /\ \E more \in BOOLEAN :
           Becomes(w, [task[w] EXCEPT !.place = "final", !.changed = @ \/ more])
    /\ UNCHANGED <<lock, rows, queue, posting, market, predictions, batches, faults>>

\* A database error inside an experimental stage is swallowed too, but leaves
\* the session unusable: the flush of _mark raises and the cycle fails.
ExperimentBreaks(w) ==
    /\ At(w, "rest")
    /\ Fault
    /\ Becomes(w, Failed(w, "experiment"))
    /\ UNCHANGED <<lock, rows, queue, posting, market, predictions, batches>>

Finalize(w) ==
    /\ At(w, "final")
    /\ rows' = [rows EXCEPT ![task[w].row].error = "",
           ![task[w].row].status = IF task[w].changed THEN "SUCCESS" ELSE "NO_CHANGES"]
    /\ Becomes(w, [task[w] EXCEPT !.place = "get", !.changed = FALSE])
    /\ UNCHANGED <<lock, queue, posting, market, predictions, batches, faults>>

\* An exception in an operational stage: rollback ...
Fail(p) ==
    /\ task[p].place \in Stages
    /\ Fault
    /\ Becomes(p, Failed(p, "operational"))
    /\ UNCHANGED <<lock, rows, queue, posting, market, predictions, batches>>

\* ... and the row, if there is one, becomes FAILED.
RecordFailure(w) ==
    /\ At(w, "record")
    /\ IF task[w].row = NoRow THEN UNCHANGED rows
       ELSE rows' = [rows EXCEPT ![task[w].row].status = "FAILED",
                                 ![task[w].row].error = task[w].why]
    /\ Becomes(w, [task[w] EXCEPT !.place = "get", !.why = ""])
    /\ UNCHANGED <<lock, queue, posting, market, predictions, batches, faults>>

\* LockHandle.release: GET, then DELETE when the value was the own token.
Leave(w) ==
    /\ Becomes(w, Idle)
    /\ rows' = Kept(rows, queue \cup {task[v].row : v \in Workers \ {w}})

ReleaseGet(w) ==
    /\ At(w, "get")
    /\ IF lock = w THEN Goto(w, "delete") /\ UNCHANGED rows ELSE Leave(w)
    /\ UNCHANGED <<lock, queue, posting, market, predictions, batches, faults>>

ReleaseDelete(w) ==
    /\ At(w, "delete")
    /\ lock' = Free
    /\ Leave(w)
    /\ UNCHANGED <<queue, posting, market, predictions, batches, faults>>

\* A worker process dies: its transaction is rolled back, the lock stays.
Crash(w) ==
    /\ task[w].place # "idle"
    /\ Fault
    /\ lock' = IF lock = w THEN Orphan ELSE lock
    /\ Leave(w)
    /\ UNCHANGED <<queue, posting, market, predictions, batches>>

-----------------------------------------------------------------------------
\* run_market_shadow_recovery, up to its forward batches.

StartRecovery(p) ==
    /\ At(p, "idle") /\ market.bars < market.source
    /\ Goto(p, "market")
    /\ UNCHANGED <<lock, rows, queue, posting, market, predictions, batches, faults>>

\* A recovery reports an exception of its features or of a day's inputs and goes
\* on: the days before it are still committed.
Swallowed(p) ==
    /\ task[p].place \in {"features", "forecast"}
    /\ Fault
    /\ LET left == IF At(p, "features") THEN task[p].todo ELSE {} IN
       Becomes(p, [task[p] EXCEPT
           !.place = IF left = {} THEN "commit" ELSE "forecast", !.todo = left])
    /\ UNCHANGED <<lock, rows, queue, posting, market, predictions, batches>>

-----------------------------------------------------------------------------
Init ==
    /\ lock = Free
    /\ rows = [r \in Rows |-> NoWorkflow]
    /\ queue = {}
    /\ posting = 0
    /\ market = [source |-> 0, bars |-> 0, features |-> 0]
    /\ predictions = [d \in Days |-> [i \in Instruments |-> 0]]
    /\ batches = [d \in Days |-> 0]
    /\ task = [p \in Processes |-> Idle]
    /\ faults = 0

\* The stages both kinds of process go through.
Forward(p) ==
    \/ Market(p)  \/ Features(p)  \/ Decline(p)  \/ Begin(p)
    \/ LookUp(p)  \/ Insert(p)    \/ Refused(p)  \/ CommitBatch(p)

\* What a running cycle does next when nothing goes wrong.
CycleStep(w) ==
    \/ Prior(w) \/ Create(w) \/ Forward(w) \/ Rest(w) \/ Finalize(w)
    \/ RecordFailure(w) \/ ReleaseGet(w) \/ ReleaseDelete(w)

Next ==
    \/ Tick \/ MarketDataUpdate \/ PostCheck \/ PostCreate \/ Expire
    \/ \E w \in Workers :
          \/ \E r \in queue \cup {NoRow} : Take(w, r)
          \/ \E r \in queue : Blocked(w, r)
          \/ CycleStep(w) \/ ExperimentBreaks(w) \/ Crash(w)
    \/ \E p \in Recoveries : StartRecovery(p) \/ Swallowed(p) \/ Forward(p)
    \/ \E p \in Processes : Fail(p)

Spec == Init /\ [][Next]_vars

\* A stage that can run does; the time to live of a lock whose owner died runs
\* out; Celery beat keeps scheduling cycles, and one of them gets a lock that
\* is free again and again.
Scheduled == \E w \in Workers : Take(w, NoRow)
OrphanExpires == lock = Orphan /\ Expire

FairSpec ==
    /\ Spec
    /\ \A w \in Workers : WF_vars(CycleStep(w))
    /\ \A p \in Recoveries : WF_vars(Forward(p))
    /\ WF_vars(PostCreate)
    /\ WF_vars(OrphanExpires)
    /\ SF_vars(Scheduled)

-----------------------------------------------------------------------------
\* Properties.

Places == Stages \cup {"idle", "record", "get", "delete"}

TaskType ==
    [place : Places, row : Rows \cup {NoRow}, day : 0..LastDay,
     todo : SUBSET Days, opened : SUBSET Days,
     unseen : SUBSET Instruments, missing : SUBSET Instruments,
     wrote : SUBSET ((0..LastDay) \X Instruments),
     changed : BOOLEAN, why : {"", "operational", "experiment"}]

RowType ==
    [status : {"none", "RUNNING", "SUCCESS", "NO_CHANGES", "FAILED"},
     error : {"", "stale", "operational", "experiment"}, asOf : 0..LastDay]

\* The variables keep their types; features are never ahead of the bars they
\* are computed from, nor bars ahead of the exchange.
TypeOK ==
    /\ lock \in Workers \cup {Free, Orphan}
    /\ rows \in [Rows -> RowType]
    /\ queue \subseteq Rows
    /\ posting \in 0..MaxPosting
    /\ market \in [source : 0..LastDay, bars : 0..LastDay, features : 0..LastDay]
    /\ market.features <= market.bars /\ market.bars <= market.source
    /\ predictions \in [Days -> [Instruments -> Nat]]
    /\ batches \in [Days -> Nat]
    /\ task \in [Processes -> TaskType]
    /\ faults \in 0..MaxFaults

\* However cycles and recoveries overlap, a day has either no prediction or one
\* for every eligible instrument, all of the same batch: the per-row SELECTs,
\* the single flush and the unique key never leave a mixture.
DayIsWhole ==
    \A d \in Days : \A i, j \in Instruments : predictions[d][i] = predictions[d][j]

\* A published prediction is never replaced by a later cycle or recovery.
PredictionsFrozen ==
    [][\A k \in Committed : predictions'[k[1]][k[2]] = predictions[k[1]][k[2]]]_vars

\* A cycle that ends well and names the day of a batch leaves that day
\* predicted, whichever process published it.
FinishedCyclesPredicted ==
    \A r \in Rows :
        rows[r].status \in {"SUCCESS", "NO_CHANGES"} /\ rows[r].asOf # 0
            => Predicted(rows[r].asOf)

\* No day is predicted before its features exist, even when other tasks store
\* newer bars between the stages of a cycle.
PredictionsRestOnFeatures ==
    \A d \in Days : AnyPredicted(d) => d <= market.features

\* A row shown as RUNNING ends, whatever became of the process that owned it:
\* a later scheduled cycle finalises the rows of dead and of blocked ones.
RowsEnd == \A r \in Rows : rows[r].status = "RUNNING" ~> rows[r].status # "RUNNING"

\* Once the exchange has closed the last day, its predictions come out.
ForwardComesOut == market.source = LastDay ~> Predicted(LastDay)

\* "at most one new immutable batch for latest eligible as_of"
\* (docs/operations/daily-research-cycle.md).
OneBatchPerDay == \A d \in Days : batches[d] <= 1
=============================================================================
