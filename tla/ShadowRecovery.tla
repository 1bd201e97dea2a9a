--------------------------- MODULE ShadowRecovery ---------------------------
(***************************************************************************)
(* The recovery after downtime (shadow/application/recovery.py) as worker  *)
(* tasks run it: one Redis lock, held by token and renewed by a heartbeat  *)
(* thread, and four stages - market, features, forward, shadow - that      *)
(* write through one database session, commit as they go and fence their   *)
(* commits with the lock (RecoveryLockLease.still_owned).                  *)
(*                                                                         *)
(* The gap to recover is the days 1..LastDay; day 0 was complete before.   *)
(* Market data arrives instrument by instrument for the whole gap, Forward *)
(* batches and Shadow sessions day by day.  Time counts ticks of the lock's*)
(* time to live.                                                           *)
(***************************************************************************)
EXTENDS Integers, FiniteSets, FiniteSetsExt

CONSTANTS
    Tasks,         \* concurrent runs of the worker task market_shadow_recovery
    Instruments,   \* instruments with MOEX history
    LastDay,       \* last trading session of the gap
    MinCoverage,   \* instruments that make the days of the gap complete
    Ttl,           \* the lock's time to live (RECOVERY_LOCK_TTL_SECONDS)
    MaxStall,      \* longest time between a successful fence and the commit behind it
    Nobody,        \* the lock is free
    Orphan         \* the lock is held by a token whose task is gone

Days == 1..LastDay

ASSUME GapAssumption ==
    /\ LastDay \in Nat
    /\ MinCoverage \in Nat
    /\ IsFiniteSet(Instruments)

ASSUME LockAssumption ==
    /\ Nobody \notin Tasks
    /\ Orphan \notin Tasks
    /\ Nobody # Orphan

\* A commit follows its fence before the time to live the fence renewed runs out.
ASSUME StallAssumption ==
    /\ Ttl \in Nat
    /\ MaxStall \in Nat
    /\ MaxStall < Ttl

VARIABLES
    lock,   \* the Redis key: its token's task and the time it has left
    task,   \* where each task is, and what its lease believes
    tx,     \* what each task's database session has written and not committed
    db      \* what is committed

vars == <<lock, task, tx, db>>

Stages == {"market", "features", "forward", "shadow"}
Follows(stage) == CASE stage = "market" -> "features"
                    [] stage = "features" -> "forward"
                    [] stage = "forward" -> "shadow"

\* At "commit" and "closing" a fence has just succeeded.
Places == {"idle", "enter", "next", "write", "guard", "commit", "closing", "leave", "release",
           "dead"}
Fenced == {"commit", "closing"}
Away == {"idle", "dead"}

Task == [at : Places, stage : Stages,
         lease : {"none", "owned", "lost"},   \* RecoveryLockLease._owned
         left : SUBSET (Instruments \cup Days \cup {0}),  \* units of the stage still to do
         unit : Instruments \cup Days \cup {0},  \* the unit in hand, at "write"
         seen : 0..LastDay,                   \* the watermark of the portfolio as last read
         prev : 0..LastDay,                   \* gap_before.local_complete_eod
         errors : BOOLEAN,                    \* a stage's exception is in the run's report
         stall : 0..MaxStall]                 \* ticks since the fence, at Fenced

\* session: the watermark an open session has written, 0 for none.
Writes == [market : SUBSET Instruments, features : 0..LastDay, forward : SUBSET Days,
           session : 0..LastDay]

NoWrites == [market |-> {}, features |-> 0, forward |-> {}, session |-> 0]

Database == [market : SUBSET Instruments, features : 0..LastDay, forward : SUBSET Days,
             watermark : 0..LastDay]

TypeOK ==
    /\ lock \in [holder : Tasks \cup {Nobody, Orphan}, ttl : 0..Ttl]
    /\ task \in [Tasks -> Task]
    /\ tx \in [Tasks -> Writes]
    /\ db \in Database

NoTask == [at |-> "idle", stage |-> "market", lease |-> "none", left |-> {}, unit |-> 0,
           seen |-> 0, prev |-> 0, errors |-> FALSE, stall |-> 0]

Init ==
    /\ lock = [holder |-> Nobody, ttl |-> 0]
    /\ task = [t \in Tasks |-> NoTask]
    /\ tx = [t \in Tasks |-> NoWrites]
    /\ db = [market |-> {}, features |-> 0, forward |-> {}, watermark |-> 0]

-----------------------------------------------------------------------------
(* The lock.                                                               *)

Free == [holder |-> Nobody, ttl |-> 0]

\* The lock after _RENEW_LOCK_LUA: compare the token, then EXPIRE.
RenewedLock(t) == IF lock.holder = t THEN [lock EXCEPT !.ttl = Ttl] ELSE lock

\* Mutant of Renews: the flag of the heartbeat thread stands for the lock.
RenewsByFlag(t) == TRUE

\* renew_recovery_lock returns True.
Renews(t) == lock.holder = t

\* Mutant of StillOwned: the token is compared, the time to live is not renewed.
StillOwnedUnrenewed(t) ==
    /\ task[t].lease = "owned"
    /\ Renews(t)
    /\ UNCHANGED lock

\* still_owned returns True: a fence before a write, which also renews the lock.
StillOwned(t) ==
    /\ task[t].lease = "owned"
    /\ Renews(t)
    /\ lock' = RenewedLock(t)

\* The stage has no units left.
Finished(t) == task[t].at = "next" /\ task[t].left = {}

\* Fences whose failure rolls the session back: before the commit of a unit, and before the
\* commit of the market and of the features stage.
RollsBack(t) ==
    \/ task[t].at = "guard"
    \/ Finished(t) /\ task[t].stage \in {"market", "features"}

\* The units of these two stages are begun behind a fence of their own.
DailyStages == {"forward", "shadow"}

\* The run has nothing more to do but to report and to let the lock go.
Ended(run, place) == [NoTask EXCEPT !.at = place, !.lease = run.lease]

\* still_owned returns False, because the lock is lost, was lost before or Redis failed: the
\* run returns RECOVERY_LOCK_LOST.
LockLost(t) ==
    /\ \/ task[t].at \in {"enter", "guard"}
       \/ task[t].at = "next" /\ (task[t].left = {} \/ task[t].stage \in DailyStages)
    /\ task' = [task EXCEPT ![t] = [Ended(@, "leave") EXCEPT !.lease = "lost"]]
    /\ tx' = IF RollsBack(t) THEN [tx EXCEPT ![t] = NoWrites] ELSE tx
    /\ UNCHANGED <<lock, db>>

\* try_acquire_recovery_lock by a new task with a new token: SET NX EX.
Acquire(t) ==
    /\ task[t].at \in Away
    /\ lock.holder = Nobody
    /\ lock' = [holder |-> t, ttl |-> Ttl]
    /\ task' = [task EXCEPT ![t] = [NoTask EXCEPT !.at = "enter", !.lease = "owned"]]
    /\ UNCHANGED <<tx, db>>

\* Mutant of Heartbeat: the thread outlives its task.
HeartbeatOutlives(t) ==
    /\ task[t].lease = "owned" \/ task[t].at = "dead"
    /\ lock.holder \in {t, Orphan}
    /\ lock' = [lock EXCEPT !.ttl = Ttl]
    /\ UNCHANGED <<task, tx, db>>

\* The heartbeat thread renews, or finds the lock lost or Redis failing and gives up.
Heartbeat(t) ==
    /\ task[t].at \notin Away
    /\ task[t].lease = "owned"
    /\ \/ /\ Renews(t)
          /\ lock' = RenewedLock(t)
          /\ UNCHANGED task
       \/ /\ task' = [task EXCEPT ![t].lease = "lost"]
          /\ UNCHANGED lock
    /\ UNCHANGED <<tx, db>>

\* Mutant of Released: DEL without comparing the token.
ReleasedByAnyone(t) == Free

\* The lock after _RELEASE_LOCK_LUA: only the owner deletes it.
Released(t) == IF lock.holder = t THEN Free ELSE lock

\* The token dies with its task: nobody will renew or release the lock again.
Orphaned(t) == IF lock.holder = t THEN [lock EXCEPT !.holder = Orphan] ELSE lock

\* The finally block: stop the heartbeat and release the lock, if Redis answers.
Release(t) ==
    /\ task[t].at = "release"
    /\ lock' = Released(t) \/ lock' = Orphaned(t)
    /\ task' = [task EXCEPT ![t] = NoTask]
    /\ UNCHANGED <<tx, db>>

\* Time passes and the lock may expire.
Tick ==
    /\ lock.ttl > 0
    /\ \A t \in Tasks : task[t].at \in Fenced => task[t].stall < MaxStall
    /\ lock' = IF lock.ttl = 1 THEN Free ELSE [lock EXCEPT !.ttl = @ - 1]
    /\ task' = [t \in Tasks |-> IF task[t].at \in Fenced
                                THEN [task[t] EXCEPT !.stall = @ + 1]
                                ELSE task[t]]
    /\ UNCHANGED <<tx, db>>

-----------------------------------------------------------------------------
(* The stages.                                                             *)

\* Latest complete session, given the instruments whose candles are there.
CompleteEod(market) == IF Cardinality(market) >= MinCoverage THEN LastDay ELSE 0

\* What a task's own session sees.
Seen(t) == [market |-> db.market \cup tx[t].market,
            features |-> IF tx[t].features > db.features THEN tx[t].features ELSE db.features,
            forward |-> db.forward \cup tx[t].forward]

\* Mutant of Units: the session that was complete before is forecast again.
UnitsFromPrev(t) ==
    CASE task[t].stage = "market" -> IF CompleteEod(db.market) = LastDay THEN {} ELSE Instruments
      [] task[t].stage = "features" -> {0}
      [] task[t].stage = "forward" -> task[t].prev..CompleteEod(Seen(t).market)
      [] task[t].stage = "shadow" -> (db.watermark + 1)..CompleteEod(Seen(t).market)

\* The units of the stage the task enters.  Intermediate as_of: every session from the
\* complete one before this run to the complete one now.
Units(t) ==
    CASE task[t].stage = "market" -> IF CompleteEod(db.market) = LastDay THEN {} ELSE Instruments
      [] task[t].stage = "features" -> {0}
      [] task[t].stage = "forward" -> (task[t].prev + 1)..CompleteEod(Seen(t).market)
      [] task[t].stage = "shadow" -> (db.watermark + 1)..CompleteEod(Seen(t).market)

\* Fence before a stage; the run's first one is followed by detect_market_eod_gap.
EnterStage(t) ==
    /\ task[t].at = "enter"
    /\ StillOwned(t)
    /\ task' = [task EXCEPT ![t].at = "next", ![t].left = Units(t),
                            ![t].prev = IF task[t].stage = "market"
                                        THEN CompleteEod(db.market) ELSE @,
                            ![t].seen = IF task[t].stage = "shadow" THEN db.watermark ELSE @]
    /\ UNCHANGED <<tx, db>>

\* Take a unit: an instrument, or the earliest day, behind a fence of its own.
BeginUnit(t) ==
    /\ task[t].at = "next"
    /\ \E u \in task[t].left :
          /\ \/ task[t].stage \notin DailyStages /\ UNCHANGED lock
             \/ /\ task[t].stage \in DailyStages
                /\ \A v \in task[t].left : u <= v
                /\ StillOwned(t)
          /\ task' = [task EXCEPT ![t].at = "write", ![t].unit = u, ![t].left = @ \ {u}]
    /\ UNCHANGED <<tx, db>>

Write(t, writes, place) ==
    /\ tx' = [tx EXCEPT ![t] = writes]
    /\ task' = [task EXCEPT ![t].at = place, ![t].unit = 0]
    /\ UNCHANGED <<lock, db>>

\* The candles of one instrument for the whole gap.
IngestInstrument(t) ==
    /\ task[t].at = "write"
    /\ task[t].stage = "market"
    /\ Write(t, [tx[t] EXCEPT !.market = @ \cup {task[t].unit}], "guard")

\* Analytics and technical features up to the latest session.
ComputeFeatures(t) ==
    /\ task[t].at = "write"
    /\ task[t].stage = "features"
    /\ Write(t, [tx[t] EXCEPT !.features = CompleteEod(Seen(t).market)], "guard")

\* run_forward_signal_v0 for one day: nothing without features (upstream_incomplete) or when
\* the day has its batch.  An INSERT waits for another session's INSERT of the same keys.
ForecastDay(t) ==
    /\ task[t].at = "write"
    /\ task[t].stage = "forward"
    /\ \A other \in Tasks \ {t} : task[t].unit \notin tx[other].forward
    /\ IF Seen(t).features < task[t].unit \/ task[t].unit \in Seen(t).forward
       THEN Write(t, tx[t], "next")
       ELSE Write(t, [tx[t] EXCEPT !.forward = @ \cup {task[t].unit}], "next")

\* One Shadow session, unless the refreshed portfolio is past it; it ends the replay when a
\* close is missing.  The UPDATE waits for another session's UPDATE of the portfolio; a NAV row
\* that session has committed for the day is left as it is (_mark_nav).
ReplaySession(t) ==
    /\ task[t].at = "write"
    /\ task[t].stage = "shadow"
    /\ \/ /\ task[t].unit <= task[t].seen
          /\ Write(t, tx[t], "next")
       \/ /\ task[t].unit > task[t].seen
          /\ \A other \in Tasks \ {t} : tx[other].session = 0
          /\ Write(t, [tx[t] EXCEPT !.session = task[t].unit], "guard")
       \/ /\ task[t].unit > task[t].seen
          /\ task' = [task EXCEPT ![t].at = "next", ![t].unit = 0, ![t].left = {}]
          /\ UNCHANGED <<lock, tx, db>>

\* An exception of the features or of the forward stage becomes an error entry: what was
\* written stays in the session and the next stage starts.
SkipStage(t) ==
    /\ task[t].at = "write"
    /\ task[t].stage \in {"features", "forward"}
    /\ task' = [task EXCEPT ![t].at = "enter", ![t].stage = Follows(@), ![t].unit = 0,
                            ![t].left = {}, ![t].errors = TRUE]
    /\ UNCHANGED <<lock, tx, db>>

\* Fence before the commit of a unit, or of the stage.
Fence(t) ==
    /\ StillOwned(t)
    /\ \/ /\ task[t].at = "guard"
          /\ task' = [task EXCEPT ![t].at = "commit", ![t].stall = 0]
       \/ /\ Finished(t)
          /\ task' = [task EXCEPT ![t].at = "closing", ![t].stall = 0]
    /\ UNCHANGED <<tx, db>>

\* session.commit(): the portfolio row takes the values the session computed.
CommitOf(t) ==
    /\ db' = [market |-> Seen(t).market, features |-> Seen(t).features,
              forward |-> Seen(t).forward,
              watermark |-> IF tx[t].session # 0 THEN tx[t].session ELSE db.watermark]
    /\ tx' = [tx EXCEPT ![t] = NoWrites]
    /\ UNCHANGED lock

CommitUnit(t) ==
    /\ task[t].at = "commit"
    /\ CommitOf(t)
    /\ task' = [task EXCEPT ![t].at = "next", ![t].stall = 0,
                            ![t].seen = IF task[t].stage = "shadow" THEN db'.watermark ELSE @]

CommitStage(t) ==
    /\ task[t].at = "closing"
    /\ CommitOf(t)
    /\ task' = IF task[t].stage = "shadow"
               THEN [task EXCEPT ![t] = Ended(@, "leave")]
               ELSE [task EXCEPT ![t].at = "enter", ![t].stage = Follows(@), ![t].stall = 0]

\* The run has returned, whatever its status: core_session commits.
Leave(t) ==
    /\ task[t].at = "leave"
    /\ CommitOf(t)
    /\ task' = [task EXCEPT ![t].at = "release"]

\* An exception reaches core_session, which rolls back.
Fail(t) ==
    /\ task[t].at \notin Away \cup {"release"}
    /\ tx' = [tx EXCEPT ![t] = NoWrites]
    /\ task' = [task EXCEPT ![t] = Ended(@, "release")]
    /\ UNCHANGED <<lock, db>>

\* The worker process dies.
Crash(t) ==
    /\ task[t].at \notin Away
    /\ lock' = Orphaned(t)
    /\ tx' = [tx EXCEPT ![t] = NoWrites]
    /\ task' = [task EXCEPT ![t] = [NoTask EXCEPT !.at = "dead"]]
    /\ UNCHANGED db

-----------------------------------------------------------------------------
Step(t) ==
    \/ EnterStage(t) \/ BeginUnit(t)
    \/ IngestInstrument(t) \/ ComputeFeatures(t) \/ ForecastDay(t) \/ ReplaySession(t)
    \/ SkipStage(t) \/ Fence(t) \/ CommitUnit(t) \/ CommitStage(t)
    \/ LockLost(t) \/ Leave(t) \/ Release(t)

Next ==
    \/ Tick
    \/ \E t \in Tasks : Acquire(t) \/ Step(t) \/ Heartbeat(t) \/ Fail(t) \/ Crash(t)

Spec == Init /\ [][Next]_vars

\* A started task goes on, and time passes.
FairSpec == Spec /\ WF_vars(Tick) /\ \A t \in Tasks : WF_vars(Step(t))

-----------------------------------------------------------------------------
(* Properties.                                                             *)

\* Whatever expires, is taken over or renewed late: a commit behind a fence is made while
\* the lock is still the committing task's.
CommitsHoldLock == \A t \in Tasks : task[t].at \in Fenced => lock.holder = t

\* The session about to be committed is the one after the last committed: no other recovery
\* has replayed it since the task read the portfolio.
SessionIsNext ==
    \A t \in Tasks : task[t].at = "commit" /\ task[t].stage = "shadow" =>
        tx[t].session = db.watermark + 1

\* A lock passes from its holder by expiry, or with the end of the holder's own task.
LockPasses ==
    \A t \in Tasks : lock.holder = t /\ lock'.holder # t =>
        \/ lock.ttl = 1 /\ lock' = Free
        \/ task'[t].at \in Away

\* The end of a task that had lost the lock never takes it from its new holder.
OnlyOwnerReleases == [][LockPasses]_vars

\* However tasks die, fail or lose Redis, the lock comes free again.
LockComesFree == []<>(lock.holder = Nobody)

\* "Intermediate as_of: every trading session from previous complete -> new complete": a run
\* that met no exception replays a session only when the Forward batch of its day is there.
SessionsHaveBatches ==
    \A t \in Tasks : task[t].at = "commit" /\ task[t].stage = "shadow" /\ ~task[t].errors =>
        tx[t].session \in db.forward
=============================================================================
