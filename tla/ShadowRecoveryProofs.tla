------------------------ MODULE ShadowRecoveryProofs ------------------------
(***************************************************************************)
(* That the lock of the recovery fences what is committed: CommitsHoldLock *)
(* and SessionIsNext for any number of tasks, any gap and any time to live *)
(* longer than the longest stall between a fence and its commit.           *)
(***************************************************************************)
EXTENDS ShadowRecovery, TLAPS

\* The units a stage can have.
UnitsOf(stage) == CASE stage = "market" -> Instruments
                    [] stage = "features" -> {0}
                    [] stage \in DailyStages -> Days

Working == {"next", "write", "guard", "commit"}
Committing == {"guard", "commit"}

\* The sessions left are the next ones after day, without a hole.
NextAfter(day, left) ==
    \A d \in left : d > day /\ \A e \in (day + 1)..d : e \in left

\* What a task's own record and session show: the units in hand are the stage's, a session
\* is written between its fence and its commit only, and it is the one after the watermark
\* the task read.
OwnWork(run, writes) ==
    /\ run.at \in Working => run.left \subseteq UnitsOf(run.stage)
    /\ run.at = "write" => run.unit \in UnitsOf(run.stage)
    /\ run.stage = "shadow" =>
          /\ run.at = "next" => NextAfter(run.seen, run.left)
          /\ run.at = "write" => run.unit = run.seen + 1
          /\ run.at \in {"write"} \cup Committing => NextAfter(run.seen + 1, run.left)
          /\ run.at \in Committing => writes.session = run.seen + 1
    /\ ~(run.stage = "shadow" /\ run.at \in Committing) => writes.session = 0

\* While the lock is the task's, the fence has not run out and the watermark it read stands.
OwnLock(t) ==
    /\ task[t].at \in Fenced => /\ lock.holder = t
                                /\ lock.ttl + task[t].stall >= Ttl
    /\ (lock.holder = t /\ task[t].stage = "shadow" /\ task[t].at \in Working) =>
          task[t].seen = db.watermark

IInv ==
    /\ TypeOK
    /\ \A t \in Tasks : OwnWork(task[t], tx[t])
    /\ \A t \in Tasks : OwnLock(t)

USE DEF Fenced, Away, Committing, DailyStages

-----------------------------------------------------------------------------
\* CompleteEod returns a day of the gap, or the one before it.
LEMMA CompleteEodType == \A market : CompleteEod(market) \in 0..LastDay
BY GapAssumption DEF CompleteEod

\* Only the holder renews the lock or moves the watermark: another task's claim stands.
LEMMA OthersKeep ==
    ASSUME IInv, NEW t \in Tasks,
           \A o \in Tasks \ {t} : task'[o] = task[o] /\ tx'[o] = tx[o],
           lock' = lock \/ lock.holder = t \/ lock.holder = Nobody,
           lock'.holder \in {lock.holder, t, Nobody, Orphan},
           db'.watermark = db.watermark \/ lock.holder = t
    PROVE  \A o \in Tasks \ {t} : OwnWork(task'[o], tx'[o]) /\ OwnLock(o)'
<1> SUFFICES ASSUME NEW o \in Tasks \ {t}
             PROVE  OwnWork(task'[o], tx'[o]) /\ OwnLock(o)'
    OBVIOUS
<1>1. OwnWork(task'[o], tx'[o])
    BY DEF IInv
<1>2. OwnLock(o)
    BY DEF IInv
<1>3. o # Nobody /\ o # Orphan /\ t # Nobody /\ t # Orphan
    BY LockAssumption
<1>4. OwnLock(o)'
  <2>1. CASE lock.holder = o
    <3>1. lock' = lock /\ db'.watermark = db.watermark
        BY <2>1, <1>3
    <3> QED
        BY <3>1, <1>2 DEF OwnLock
  <2>2. CASE lock.holder # o
    <3>1. lock'.holder # o
        BY <2>2, <1>3
    <3> QED
        BY <2>2, <3>1, <1>2 DEF OwnLock
  <2> QED
      BY <2>1, <2>2
<1> QED
    BY <1>1, <1>4

\* At the start no task works and nothing is written.
LEMMA InitIInv == Init => IInv
<1> SUFFICES ASSUME Init PROVE IInv
    OBVIOUS
<1>1. TypeOK
    BY GapAssumption, StallAssumption
    DEF Init, TypeOK, Task, Writes, Database, NoTask, NoWrites, Places, Stages
<1>2. ASSUME NEW t \in Tasks PROVE OwnWork(task[t], tx[t]) /\ OwnLock(t)
    BY <1>2 DEF Init, NoTask, NoWrites, OwnWork, OwnLock, Working
<1> QED
    BY <1>1, <1>2 DEF IInv

-----------------------------------------------------------------------------
(* The acting task's own part, action by action.                           *)

\* A fence that succeeds leaves the lock the task's, with its whole time to live.
LEMMA FenceHolds ==
    ASSUME NEW t \in Tasks, TypeOK, StillOwned(t)
    PROVE  /\ lock.holder = t /\ lock'.holder = t /\ lock'.ttl = Ttl
           /\ lock' \in [holder : Tasks \cup {Nobody, Orphan}, ttl : 0..Ttl]
BY StallAssumption DEF StillOwned, Renews, RenewedLock, TypeOK

\* A step that replaces the task's record and session by ones of their type.
LEMMA TypeStep ==
    ASSUME TypeOK, NEW t \in Tasks, NEW run \in Task, NEW writes \in Writes,
           task' = [task EXCEPT ![t] = run], tx' = [tx EXCEPT ![t] = writes],
           lock' \in [holder : Tasks \cup {Nobody, Orphan}, ttl : 0..Ttl],
           db' \in Database
    PROVE  TypeOK'
BY DEF TypeOK

LEMMA StepEnterStage ==
    ASSUME IInv, NEW t \in Tasks, EnterStage(t)
    PROVE  IInv'
<1> USE DEF IInv
<1> DEFINE run == task'[t]
<1>1. /\ task[t].at = "enter" /\ StillOwned(t) /\ UNCHANGED <<tx, db>>
      /\ task[t] \in Task /\ task[t].stage \in Stages /\ task[t].prev \in 0..LastDay
      /\ db.watermark \in 0..LastDay
    BY DEF EnterStage, TypeOK, Task, Database
<1>2. /\ lock.holder = t /\ lock'.holder = t /\ lock'.ttl = Ttl
      /\ lock' \in [holder : Tasks \cup {Nobody, Orphan}, ttl : 0..Ttl]
    BY <1>1, FenceHolds
<1>3. Units(t) \subseteq UnitsOf(task[t].stage)
    BY <1>1, CompleteEodType, GapAssumption DEF Units, UnitsOf, Stages, Days
<1>4. UnitsOf(task[t].stage) \subseteq Instruments \cup Days \cup {0}
    BY <1>1 DEF UnitsOf, Stages
<1>5. /\ run = [task[t] EXCEPT !.at = "next", !.left = Units(t), !.prev = run.prev,
                                !.seen = run.seen]
      /\ run.prev \in 0..LastDay /\ run.seen \in 0..LastDay
      /\ task[t].stage = "shadow" => run.seen = db.watermark
    BY <1>1, CompleteEodType DEF EnterStage, TypeOK, Task
<1>6. run \in Task /\ run.at = "next" /\ run.stage = task[t].stage /\ run.left = Units(t)
    BY <1>1, <1>3, <1>4, <1>5 DEF Task, Places
<1>7. TypeOK'
    BY <1>1, <1>2, <1>6, TypeStep DEF EnterStage, TypeOK
<1>8. OwnWork(run, tx'[t])
  <2>1. tx'[t].session = 0
      BY <1>1 DEF OwnWork
  <2>2. task[t].stage = "shadow" => NextAfter(run.seen, run.left)
      BY <1>1, <1>5, <1>6, CompleteEodType, GapAssumption DEF Units, NextAfter
  <2> QED
      BY <1>3, <1>6, <2>1, <2>2 DEF OwnWork
<1>9. OwnLock(t)'
    BY <1>1, <1>5, <1>6 DEF OwnLock
<1>10. \A o \in Tasks \ {t} : OwnWork(task'[o], tx'[o]) /\ OwnLock(o)'
    BY <1>1, <1>2, OthersKeep DEF EnterStage, TypeOK
<1> QED
    BY <1>7, <1>8, <1>9, <1>10

LEMMA StepBeginUnit ==
    ASSUME IInv, NEW t \in Tasks, BeginUnit(t)
    PROVE  IInv'
<1> USE DEF IInv
<1>1. PICK u \in task[t].left :
          /\ task[t].at = "next"
          /\ \/ task[t].stage \notin DailyStages /\ UNCHANGED lock
             \/ /\ task[t].stage \in DailyStages
                /\ \A v \in task[t].left : u <= v
                /\ StillOwned(t)
          /\ task' = [task EXCEPT ![t].at = "write", ![t].unit = u, ![t].left = @ \ {u}]
          /\ UNCHANGED <<tx, db>>
    BY DEF BeginUnit
<1>2. /\ task[t] \in Task /\ task[t].seen \in 0..LastDay /\ task[t].stage \in Stages
      /\ task[t].left \subseteq UnitsOf(task[t].stage)
      /\ task[t].left \subseteq Instruments \cup Days \cup {0}
      /\ lock \in [holder : Tasks \cup {Nobody, Orphan}, ttl : 0..Ttl]
      /\ tx[t] \in Writes
    BY <1>1 DEF TypeOK, Task, OwnWork, Working
<1>3. /\ task'[t] = [task[t] EXCEPT !.at = "write", !.unit = u, !.left = @ \ {u}]
      /\ \A o \in Tasks \ {t} : task'[o] = task[o] /\ tx'[o] = tx[o]
    BY <1>1 DEF TypeOK
<1>4. /\ task'[t] \in Task /\ task'[t].at = "write" /\ task'[t].unit = u
      /\ task'[t].left = task[t].left \ {u} /\ task'[t].stage = task[t].stage
      /\ task'[t].seen = task[t].seen
    BY <1>2, <1>3 DEF Task, Places
<1>5. /\ lock' = lock \/ (lock.holder = t /\ lock'.holder = t)
      /\ lock' \in [holder : Tasks \cup {Nobody, Orphan}, ttl : 0..Ttl]
    BY <1>1, <1>2, FenceHolds
<1>6. TypeOK'
    BY <1>1, <1>4, <1>5, TypeStep DEF TypeOK
<1>7. task[t].stage = "shadow" =>
          u = task[t].seen + 1 /\ NextAfter(task[t].seen + 1, task[t].left \ {u})
  <2> SUFFICES ASSUME task[t].stage = "shadow"
               PROVE  u = task[t].seen + 1 /\ NextAfter(task[t].seen + 1, task[t].left \ {u})
      OBVIOUS
  <2>1. /\ NextAfter(task[t].seen, task[t].left) /\ task[t].left \subseteq Days
        /\ \A v \in task[t].left : u <= v
      BY <1>1, <1>2 DEF OwnWork, UnitsOf, Stages
  <2>2. u \in Days /\ u > task[t].seen
      BY <2>1 DEF NextAfter
  <2>3. task[t].seen + 1 \in (task[t].seen + 1)..u
      BY <1>2, <2>2, GapAssumption DEF Days
  <2>4. task[t].seen + 1 \in task[t].left
      BY <2>1, <2>3 DEF NextAfter
  <2>5. u = task[t].seen + 1
      BY <1>2, <2>1, <2>2, <2>4, GapAssumption DEF Days
  <2>6. NextAfter(task[t].seen + 1, task[t].left \ {u})
      BY <1>2, <2>1, <2>5, GapAssumption DEF NextAfter, Days
  <2> QED
      BY <2>5, <2>6
<1>8. OwnWork(task'[t], tx'[t])
    BY <1>1, <1>2, <1>4, <1>7 DEF OwnWork, Working
<1>9. OwnLock(t)'
    BY <1>1, <1>4, <1>5 DEF OwnLock, Working
<1>10. \A o \in Tasks \ {t} : OwnWork(task'[o], tx'[o]) /\ OwnLock(o)'
    BY <1>1, <1>3, <1>5, OthersKeep
<1> QED
    BY <1>6, <1>8, <1>9, <1>10

\* A write of the unit in hand that leaves lock and database alone: what is left to show is
\* the session it writes.
LEMMA WriteKeeps ==
    ASSUME IInv, NEW t \in Tasks, NEW writes \in Writes, NEW place \in {"next", "guard"},
           task[t].at = "write", Write(t, writes, place),
           \/ task[t].stage # "shadow" /\ writes.session = 0
           \/ /\ task[t].stage = "shadow" /\ place = "guard"
              /\ writes.session = task[t].unit
    PROVE  IInv'
<1> USE DEF IInv
<1>1. /\ task' = [task EXCEPT ![t].at = place, ![t].unit = 0]
      /\ tx' = [tx EXCEPT ![t] = writes] /\ UNCHANGED <<lock, db>>
      /\ task[t] \in Task
    BY DEF Write, TypeOK
<1>2. /\ task'[t] = [task[t] EXCEPT !.at = place, !.unit = 0] /\ tx'[t] = writes
      /\ \A o \in Tasks \ {t} : task'[o] = task[o] /\ tx'[o] = tx[o]
    BY <1>1 DEF TypeOK
<1>3. /\ task'[t] \in Task /\ task'[t].at = place /\ task'[t].stage = task[t].stage
      /\ task'[t].left = task[t].left /\ task'[t].seen = task[t].seen
  <2> DEFINE run == [task[t] EXCEPT !.at = place, !.unit = 0]
  <2>1. run \in Task
      BY <1>1 DEF Task, Places
  <2>2. /\ run.at = place /\ run.stage = task[t].stage /\ run.left = task[t].left
        /\ run.seen = task[t].seen
      BY <1>1 DEF Task
  <2>3. task'[t] = run
      BY <1>2
  <2> QED
      BY <2>1, <2>2, <2>3
<1>4. TypeOK'
    BY <1>1, <1>2, <1>3, TypeStep DEF TypeOK
<1>5. OwnWork(task'[t], tx'[t])
    BY <1>2, <1>3 DEF OwnWork, Working
<1>6. OwnLock(t)'
    BY <1>1, <1>3 DEF OwnLock, Working
<1>7. \A o \in Tasks \ {t} : OwnWork(task'[o], tx'[o]) /\ OwnLock(o)'
    BY <1>1, <1>2, OthersKeep
<1> QED
    BY <1>4, <1>5, <1>6, <1>7

LEMMA StepIngestInstrument ==
    ASSUME IInv, NEW t \in Tasks, IngestInstrument(t)
    PROVE  IInv'
<1> DEFINE writes == [tx[t] EXCEPT !.market = @ \cup {task[t].unit}]
<1>1. task[t].unit \in Instruments /\ tx[t] \in Writes /\ tx[t].session = 0
    BY DEF IInv, TypeOK, OwnWork, IngestInstrument, UnitsOf
<1>2. writes \in Writes /\ writes.session = 0
    BY <1>1 DEF Writes
<1> QED
    BY <1>2, WriteKeeps DEF IngestInstrument

LEMMA StepComputeFeatures ==
    ASSUME IInv, NEW t \in Tasks, ComputeFeatures(t)
    PROVE  IInv'
<1> DEFINE writes == [tx[t] EXCEPT !.features = CompleteEod(Seen(t).market)]
<1>1. tx[t] \in Writes /\ tx[t].session = 0
    BY DEF IInv, TypeOK, OwnWork, ComputeFeatures
<1>2. writes \in Writes /\ writes.session = 0
    BY <1>1, CompleteEodType DEF Writes
<1> QED
    BY <1>2, WriteKeeps DEF ComputeFeatures

LEMMA StepForecastDay ==
    ASSUME IInv, NEW t \in Tasks, ForecastDay(t)
    PROVE  IInv'
<1> DEFINE writes == [tx[t] EXCEPT !.forward = @ \cup {task[t].unit}]
<1>1. task[t].unit \in Days /\ tx[t] \in Writes /\ tx[t].session = 0
    BY DEF IInv, TypeOK, OwnWork, ForecastDay, UnitsOf
<1>2. writes \in Writes /\ writes.session = 0
    BY <1>1 DEF Writes
<1> QED
    BY <1>1, <1>2, WriteKeeps DEF ForecastDay

\* A step between two stages or units that writes nothing and keeps the units' order.
LEMMA MoveKeeps ==
    ASSUME IInv, NEW t \in Tasks, NEW run \in Task,
           task' = [task EXCEPT ![t] = run], UNCHANGED <<lock, tx, db>>,
           OwnWork(run, tx[t]), run.at \notin Fenced,
           run.at \in Working /\ run.stage = "shadow" =>
               task[t].at \in Working /\ task[t].stage = "shadow" /\ run.seen = task[t].seen
    PROVE  IInv'
<1> USE DEF IInv
<1>1. /\ task'[t] = run
      /\ \A o \in Tasks \ {t} : task'[o] = task[o] /\ tx'[o] = tx[o]
    BY DEF TypeOK
<1>2. TypeOK'
    BY DEF TypeOK
<1>3. OwnLock(t)'
    BY <1>1 DEF OwnLock
<1>4. \A o \in Tasks \ {t} : OwnWork(task'[o], tx'[o]) /\ OwnLock(o)'
    BY <1>1, OthersKeep
<1> QED
    BY <1>1, <1>2, <1>3, <1>4

LEMMA StepReplaySession ==
    ASSUME IInv, NEW t \in Tasks, ReplaySession(t)
    PROVE  IInv'
<1>1. /\ task[t] \in Task /\ tx[t] \in Writes /\ task[t].seen \in 0..LastDay
      /\ task[t].at = "write" /\ task[t].stage = "shadow"
      /\ task[t].unit = task[t].seen + 1 /\ task[t].unit \in Days /\ tx[t].session = 0
    BY DEF IInv, TypeOK, Task, OwnWork, ReplaySession, UnitsOf, Stages
<1>2. ~(task[t].unit <= task[t].seen)
    BY <1>1
<1>3. CASE Write(t, [tx[t] EXCEPT !.session = task[t].unit], "guard")
  <2> DEFINE writes == [tx[t] EXCEPT !.session = task[t].unit]
  <2>1. writes \in Writes /\ writes.session = task[t].unit
      BY <1>1, GapAssumption DEF Writes, Days
  <2> QED
      BY <1>1, <1>3, <2>1, WriteKeeps
<1>4. CASE /\ task' = [task EXCEPT ![t].at = "next", ![t].unit = 0, ![t].left = {}]
           /\ UNCHANGED <<lock, tx, db>>
  <2> DEFINE run == [task[t] EXCEPT !.at = "next", !.unit = 0, !.left = {}]
  <2>1. /\ run \in Task /\ task' = [task EXCEPT ![t] = run]
        /\ run.at = "next" /\ run.left = {} /\ run.stage = "shadow" /\ run.seen = task[t].seen
      BY <1>1, <1>4 DEF Task, Places, IInv, TypeOK
  <2>2. OwnWork(run, tx[t])
      BY <1>1, <2>1 DEF OwnWork, NextAfter
  <2> QED
      BY <1>1, <1>4, <2>1, <2>2, MoveKeeps DEF Working
<1> QED
    BY <1>2, <1>3, <1>4 DEF ReplaySession

LEMMA StepSkipStage ==
    ASSUME IInv, NEW t \in Tasks, SkipStage(t)
    PROVE  IInv'
<1> DEFINE run == [task[t] EXCEPT !.at = "enter", !.stage = Follows(@), !.unit = 0,
                                  !.left = {}, !.errors = TRUE]
<1>1. /\ task[t] \in Task /\ task[t].at = "write" /\ tx[t].session = 0
      /\ task[t].stage \in {"features", "forward"}
    BY DEF IInv, TypeOK, OwnWork, SkipStage
<1>2. Follows(task[t].stage) \in Stages
    BY <1>1 DEF Follows, Stages
<1>3. run \in Task /\ task' = [task EXCEPT ![t] = run] /\ run.at = "enter"
    BY <1>1, <1>2 DEF SkipStage, Task, Places, IInv, TypeOK
<1>4. OwnWork(run, tx[t])
    BY <1>1, <1>3 DEF OwnWork, Working
<1> QED
    BY <1>3, <1>4, MoveKeeps DEF SkipStage, Working

LEMMA StepFence ==
    ASSUME IInv, NEW t \in Tasks, Fence(t)
    PROVE  IInv'
<1> USE DEF IInv
<1>1. /\ StillOwned(t) /\ UNCHANGED <<tx, db>> /\ task[t] \in Task
      /\ \/ task[t].at = "guard" /\ task' = [task EXCEPT ![t].at = "commit", ![t].stall = 0]
         \/ task[t].at = "next" /\ task' = [task EXCEPT ![t].at = "closing", ![t].stall = 0]
    BY DEF Fence, Finished, TypeOK
<1>2. /\ lock.holder = t /\ lock'.holder = t /\ lock'.ttl = Ttl
      /\ lock' \in [holder : Tasks \cup {Nobody, Orphan}, ttl : 0..Ttl]
    BY <1>1, FenceHolds
<1>3. PICK place \in Fenced :
          /\ task' = [task EXCEPT ![t] = [@ EXCEPT !.at = place, !.stall = 0]]
          /\ place = "commit" => task[t].at = "guard"
          /\ place = "closing" => task[t].at = "next"
    BY <1>1
<1> DEFINE run == [task[t] EXCEPT !.at = place, !.stall = 0]
<1>4. run \in Task
  <2>1. place \in Places /\ 0 \in 0..MaxStall
      BY StallAssumption DEF Places
  <2> QED
      BY <1>1, <2>1 DEF Task
<1>5. /\ run.at = place /\ run.stall = 0 /\ run.stage = task[t].stage
      /\ run.left = task[t].left /\ run.seen = task[t].seen
    BY <1>1 DEF Task
<1>6. task'[t] = run /\ \A o \in Tasks \ {t} : task'[o] = task[o] /\ tx'[o] = tx[o]
    BY <1>1, <1>3 DEF TypeOK
<1>7. TypeOK'
    BY <1>1, <1>2, <1>3, <1>4, TypeStep DEF TypeOK
<1>8. OwnWork(task'[t], tx'[t])
    BY <1>1, <1>3, <1>5, <1>6 DEF OwnWork, Working
<1>9. OwnLock(t)'
  <2>1. lock'.ttl + task'[t].stall >= Ttl
      BY <1>2, <1>5, <1>6, StallAssumption
  <2> QED
      BY <2>1, <1>1, <1>2, <1>3, <1>5, <1>6 DEF OwnLock, Working
<1>10. \A o \in Tasks \ {t} : OwnWork(task'[o], tx'[o]) /\ OwnLock(o)'
    BY <1>1, <1>2, <1>6, OthersKeep DEF TypeOK
<1> QED
    BY <1>7, <1>8, <1>9, <1>10

\* A commit keeps the types and moves the watermark to the session written, if any.
LEMMA CommitKeeps ==
    ASSUME TypeOK, NEW t \in Tasks, CommitOf(t)
    PROVE  /\ db' \in Database /\ NoWrites \in Writes /\ NoWrites.session = 0
           /\ tx' = [tx EXCEPT ![t] = NoWrites] /\ lock' = lock
           /\ db'.watermark = IF tx[t].session # 0 THEN tx[t].session ELSE db.watermark
<1>1. /\ tx[t] \in Writes /\ db \in Database
    BY DEF TypeOK
<1>2. NoWrites \in Writes /\ NoWrites.session = 0
    BY GapAssumption DEF NoWrites, Writes
<1>3. Seen(t) \in [market : SUBSET Instruments, features : 0..LastDay, forward : SUBSET Days]
    BY <1>1 DEF Seen, Writes, Database
<1>4. db' \in Database
  <2>1. /\ Seen(t).market \subseteq Instruments /\ Seen(t).features \in 0..LastDay
        /\ Seen(t).forward \subseteq Days
      BY <1>3
  <2>2. (IF tx[t].session # 0 THEN tx[t].session ELSE db.watermark) \in 0..LastDay
      BY <1>1 DEF Writes, Database
  <2> QED
      BY <2>1, <2>2 DEF CommitOf, Database
<1> QED
    BY <1>2, <1>4 DEF CommitOf

LEMMA StepCommitUnit ==
    ASSUME IInv, NEW t \in Tasks, CommitUnit(t)
    PROVE  IInv'
<1> USE DEF IInv
<1>1. /\ task[t].at = "commit" /\ CommitOf(t) /\ task[t] \in Task /\ task[t].stage \in Stages
      /\ task[t].seen \in 0..LastDay /\ tx[t] \in Writes
      /\ task' = [task EXCEPT ![t].at = "next", ![t].stall = 0,
                              ![t].seen = IF task[t].stage = "shadow" THEN db'.watermark ELSE @]
    BY DEF CommitUnit, TypeOK, Task
<1>2. /\ db' \in Database /\ NoWrites \in Writes /\ NoWrites.session = 0
      /\ tx' = [tx EXCEPT ![t] = NoWrites] /\ lock' = lock
      /\ db'.watermark = IF tx[t].session # 0 THEN tx[t].session ELSE db.watermark
    BY <1>1, CommitKeeps
<1>3. lock.holder = t
    BY <1>1 DEF OwnLock
<1>4. task[t].stage = "shadow" =>
          /\ db'.watermark = task[t].seen + 1
          /\ NextAfter(task[t].seen + 1, task[t].left)
    BY <1>1, <1>2 DEF OwnWork
<1> DEFINE run == [task[t] EXCEPT !.at = "next", !.stall = 0,
                      !.seen = IF task[t].stage = "shadow" THEN db'.watermark ELSE @]
<1>5. run \in Task
  <2>1. db'.watermark \in 0..LastDay /\ 0 \in 0..MaxStall
      BY <1>2, StallAssumption DEF Database
  <2>2. CASE task[t].stage = "shadow"
      BY <1>1, <2>1, <2>2 DEF Task, Places
  <2>3. CASE task[t].stage # "shadow"
      BY <1>1, <2>1, <2>3 DEF Task, Places
  <2> QED
      BY <2>2, <2>3
<1>6. /\ run.at = "next" /\ run.stage = task[t].stage /\ run.left = task[t].left
      /\ run.seen = IF task[t].stage = "shadow" THEN db'.watermark ELSE task[t].seen
    BY <1>1 DEF Task
<1>7. /\ task' = [task EXCEPT ![t] = run] /\ task'[t] = run /\ tx'[t] = NoWrites
      /\ \A o \in Tasks \ {t} : task'[o] = task[o] /\ tx'[o] = tx[o]
    BY <1>1, <1>2 DEF TypeOK
<1>8. TypeOK'
    BY <1>2, <1>5, <1>7, TypeStep DEF TypeOK
<1>9. OwnWork(task'[t], tx'[t])
  <2>1. run.left \subseteq UnitsOf(run.stage)
      BY <1>1, <1>6 DEF OwnWork, Working
  <2>2. run.stage = "shadow" => NextAfter(run.seen, run.left)
      BY <1>4, <1>6
  <2> QED
      BY <2>1, <2>2, <1>2, <1>6, <1>7 DEF OwnWork
<1>10. OwnLock(t)'
    BY <1>6, <1>7 DEF OwnLock
<1>11. \A o \in Tasks \ {t} : OwnWork(task'[o], tx'[o]) /\ OwnLock(o)'
    BY <1>2, <1>3, <1>7, OthersKeep
<1> QED
    BY <1>8, <1>9, <1>10, <1>11

\* A task that leaves its stage for a place where nothing is in hand or written.
LEMMA RestKeeps ==
    ASSUME IInv, NEW t \in Tasks, NEW run \in Task, run.at \notin Working \cup Fenced,
           task' = [task EXCEPT ![t] = run],
           tx' = [tx EXCEPT ![t] = NoWrites] \/ (tx' = tx /\ tx[t].session = 0),
           lock' \in [holder : Tasks \cup {Nobody, Orphan}, ttl : 0..Ttl],
           lock' = lock \/ lock.holder = t \/ lock.holder = Nobody,
           lock'.holder \in {lock.holder, t, Nobody, Orphan},
           db' \in Database, db'.watermark = db.watermark
    PROVE  IInv'
<1> USE DEF IInv
<1>1. NoWrites \in Writes /\ NoWrites.session = 0
    BY GapAssumption DEF NoWrites, Writes
<1>2. /\ task'[t] = run /\ tx'[t].session = 0
      /\ \A o \in Tasks \ {t} : task'[o] = task[o] /\ tx'[o] = tx[o]
    BY <1>1 DEF TypeOK
<1>3. TypeOK'
    BY <1>1 DEF TypeOK
<1>4. OwnWork(task'[t], tx'[t])
    BY <1>2 DEF OwnWork, Working
<1>5. OwnLock(t)'
    BY <1>2 DEF OwnLock
<1>6. \A o \in Tasks \ {t} : OwnWork(task'[o], tx'[o]) /\ OwnLock(o)'
    BY <1>2, OthersKeep
<1> QED
    BY <1>3, <1>4, <1>5, <1>6

\* A task that has not begun, or has lost its process.
LEMMA NoTaskType ==
    /\ NoTask \in Task /\ NoTask.at = "idle"
    /\ [NoTask EXCEPT !.at = "dead"] \in Task
    /\ [NoTask EXCEPT !.at = "dead"].at = "dead"
    /\ [NoTask EXCEPT !.at = "enter", !.lease = "owned"] \in Task
    /\ [NoTask EXCEPT !.at = "enter", !.lease = "owned"].at = "enter"
<1>1. NoTask \in Task
    BY GapAssumption, StallAssumption DEF NoTask, Task, Places, Stages
<1>2. NoTask.at = "idle"
    BY DEF NoTask
<1> QED
    BY <1>1, <1>2 DEF Task, Places

\* The record a run ends with has its type.
LEMMA EndedType ==
    ASSUME NEW run \in Task, NEW place \in {"leave", "release"}
    PROVE  Ended(run, place) \in Task /\ Ended(run, place).at = place
<1>1. NoTask \in Task /\ place \in Places /\ run.lease \in {"none", "owned", "lost"}
    BY NoTaskType DEF Places, Task
<1> QED
    BY <1>1 DEF Ended, Task

\* The lock after its task let it go or died.
LEMMA LockLetGo ==
    ASSUME TypeOK, NEW t \in Tasks, lock' = Released(t) \/ lock' = Orphaned(t)
    PROVE  /\ lock' \in [holder : Tasks \cup {Nobody, Orphan}, ttl : 0..Ttl]
           /\ lock' = lock \/ lock.holder = t
           /\ lock'.holder \in {lock.holder, Nobody, Orphan}
BY StallAssumption DEF TypeOK, Released, Orphaned, Free

LEMMA StepCommitStage ==
    ASSUME IInv, NEW t \in Tasks, CommitStage(t)
    PROVE  IInv'
<1>1. /\ task[t].at = "closing" /\ CommitOf(t) /\ task[t] \in Task /\ tx[t].session = 0
      /\ task[t].stage \in Stages
    BY DEF IInv, TypeOK, Task, OwnWork, CommitStage
<1>2. /\ db' \in Database /\ tx' = [tx EXCEPT ![t] = NoWrites] /\ lock' = lock
      /\ db'.watermark = db.watermark
    BY <1>1, CommitKeeps DEF IInv
<1>3. CASE task[t].stage = "shadow"
    BY <1>1, <1>2, <1>3, EndedType, RestKeeps DEF CommitStage, Working, IInv, TypeOK
<1>4. CASE task[t].stage # "shadow"
  <2> DEFINE run == [task[t] EXCEPT !.at = "enter", !.stage = Follows(@), !.stall = 0]
  <2>1. Follows(task[t].stage) \in Stages
      BY <1>1, <1>4 DEF Follows, Stages
  <2>2. run \in Task /\ task' = [task EXCEPT ![t] = run] /\ run.at = "enter"
    <3>1. 0 \in 0..MaxStall
        BY StallAssumption
    <3>2. run \in Task /\ run.at = "enter"
        BY <1>1, <2>1, <3>1 DEF Task, Places
    <3> QED
        BY <1>4, <3>2 DEF CommitStage
  <2> QED
      BY <1>2, <2>2, RestKeeps DEF Working, IInv, TypeOK
<1> QED
    BY <1>3, <1>4

LEMMA StepLockLost ==
    ASSUME IInv, NEW t \in Tasks, LockLost(t)
    PROVE  IInv'
<1> DEFINE run == [Ended(task[t], "leave") EXCEPT !.lease = "lost"]
<1>1. run \in Task /\ run.at = "leave"
    BY EndedType DEF IInv, TypeOK, Task
<1>2. task' = [task EXCEPT ![t] = run] /\ UNCHANGED <<lock, db>>
    BY DEF LockLost
<1>3. tx' = [tx EXCEPT ![t] = NoWrites] \/ (tx' = tx /\ tx[t].session = 0)
    BY DEF LockLost, RollsBack, IInv, OwnWork
<1> QED
    BY <1>1, <1>2, <1>3, RestKeeps DEF Working, IInv, TypeOK

LEMMA StepLeave ==
    ASSUME IInv, NEW t \in Tasks, Leave(t)
    PROVE  IInv'
<1> DEFINE run == [task[t] EXCEPT !.at = "release"]
<1>1. /\ task[t].at = "leave" /\ CommitOf(t) /\ task[t] \in Task /\ tx[t].session = 0
      /\ task' = [task EXCEPT ![t] = run]
    BY DEF IInv, TypeOK, OwnWork, Leave
<1>2. /\ db' \in Database /\ tx' = [tx EXCEPT ![t] = NoWrites] /\ lock' = lock
      /\ db'.watermark = db.watermark
    BY <1>1, CommitKeeps DEF IInv
<1>3. run \in Task /\ run.at = "release"
    BY <1>1 DEF Task, Places
<1> QED
    BY <1>1, <1>2, <1>3, RestKeeps DEF Working, IInv, TypeOK

LEMMA StepRelease ==
    ASSUME IInv, NEW t \in Tasks, Release(t)
    PROVE  IInv'
<1>1. /\ task[t].at = "release" /\ task' = [task EXCEPT ![t] = NoTask]
      /\ UNCHANGED <<tx, db>> /\ tx[t].session = 0
    BY DEF Release, IInv, OwnWork
<1>2. /\ lock' \in [holder : Tasks \cup {Nobody, Orphan}, ttl : 0..Ttl]
      /\ lock' = lock \/ lock.holder = t
      /\ lock'.holder \in {lock.holder, Nobody, Orphan}
    BY LockLetGo DEF Release, IInv
<1> QED
    BY <1>1, <1>2, NoTaskType, RestKeeps DEF Working, IInv, TypeOK

LEMMA StepAcquire ==
    ASSUME IInv, NEW t \in Tasks, Acquire(t)
    PROVE  IInv'
<1>1. /\ task[t].at \in Away /\ lock.holder = Nobody /\ lock' = [holder |-> t, ttl |-> Ttl]
      /\ task' = [task EXCEPT ![t] = [NoTask EXCEPT !.at = "enter", !.lease = "owned"]]
      /\ UNCHANGED <<tx, db>> /\ tx[t].session = 0
    BY DEF Acquire, IInv, OwnWork
<1>2. lock' \in [holder : Tasks \cup {Nobody, Orphan}, ttl : 0..Ttl] /\ lock'.holder = t
    BY <1>1, StallAssumption
<1> QED
    BY <1>1, <1>2, NoTaskType, RestKeeps DEF Working, IInv, TypeOK

LEMMA StepFail ==
    ASSUME IInv, NEW t \in Tasks, Fail(t)
    PROVE  IInv'
<1>1. Ended(task[t], "release") \in Task /\ Ended(task[t], "release").at = "release"
    BY EndedType DEF IInv, TypeOK
<1> QED
    BY <1>1, RestKeeps DEF Fail, Working, IInv, TypeOK

LEMMA StepCrash ==
    ASSUME IInv, NEW t \in Tasks, Crash(t)
    PROVE  IInv'
<1>1. /\ lock' \in [holder : Tasks \cup {Nobody, Orphan}, ttl : 0..Ttl]
      /\ lock' = lock \/ lock.holder = t
      /\ lock'.holder \in {lock.holder, Nobody, Orphan}
    BY LockLetGo DEF Crash, IInv
<1> QED
    BY <1>1, NoTaskType, RestKeeps DEF Crash, Working, IInv, TypeOK

\* The heartbeat changes the lock's time or the lease's flag, and no claim of the task.
LEMMA StepHeartbeat ==
    ASSUME IInv, NEW t \in Tasks, Heartbeat(t)
    PROVE  IInv'
<1> USE DEF IInv
<1>1. UNCHANGED <<tx, db>> /\ task[t] \in Task
    BY DEF Heartbeat, TypeOK
<1>2. CASE Renews(t) /\ lock' = RenewedLock(t) /\ UNCHANGED task
  <2>1. /\ lock' = [lock EXCEPT !.ttl = Ttl] /\ lock.holder = t /\ lock'.holder = t
        /\ lock' \in [holder : Tasks \cup {Nobody, Orphan}, ttl : 0..Ttl] /\ lock'.ttl = Ttl
      BY <1>2, StallAssumption DEF Renews, RenewedLock, TypeOK
  <2>2. TypeOK' /\ OwnWork(task'[t], tx'[t])
      BY <1>1, <1>2, <2>1 DEF TypeOK
  <2>3. OwnLock(t)'
    <3>1. Ttl + task[t].stall >= Ttl
        BY <1>1, StallAssumption DEF Task
    <3> QED
        BY <1>1, <1>2, <2>1, <3>1 DEF OwnLock
  <2>4. \A o \in Tasks \ {t} : OwnWork(task'[o], tx'[o]) /\ OwnLock(o)'
      BY <1>1, <1>2, <2>1, OthersKeep
  <2> QED
      BY <2>2, <2>3, <2>4
<1>3. CASE task' = [task EXCEPT ![t].lease = "lost"] /\ UNCHANGED lock
  <2> DEFINE run == [task[t] EXCEPT !.lease = "lost"]
  <2>1. /\ run \in Task /\ run.at = task[t].at /\ run.stage = task[t].stage
        /\ run.left = task[t].left /\ run.unit = task[t].unit /\ run.seen = task[t].seen
        /\ run.stall = task[t].stall
      BY <1>1 DEF Task
  <2>2. /\ task' = [task EXCEPT ![t] = run] /\ task'[t] = run
        /\ \A o \in Tasks \ {t} : task'[o] = task[o] /\ tx'[o] = tx[o]
      BY <1>1, <1>3 DEF TypeOK
  <2>3. TypeOK'
      BY <1>1, <1>3, <2>1, <2>2 DEF TypeOK
  <2>4. OwnWork(task'[t], tx'[t])
      BY <1>1, <2>1, <2>2 DEF OwnWork
  <2>5. OwnLock(t)'
      BY <1>1, <1>3, <2>1, <2>2 DEF OwnLock
  <2>6. \A o \in Tasks \ {t} : OwnWork(task'[o], tx'[o]) /\ OwnLock(o)'
      BY <1>1, <1>3, <2>2, OthersKeep
  <2> QED
      BY <2>3, <2>4, <2>5, <2>6
<1> QED
    BY <1>2, <1>3 DEF Heartbeat

\* Time passes: a fence's stall grows as its lock's time runs, so the lock does not expire
\* before the commit.
LEMMA StepTick ==
    ASSUME IInv, Tick
    PROVE  IInv'
<1> USE DEF IInv
<1>1. /\ UNCHANGED <<tx, db>> /\ lock.ttl > 0
      /\ lock' = IF lock.ttl = 1 THEN Free ELSE [lock EXCEPT !.ttl = @ - 1]
      /\ lock \in [holder : Tasks \cup {Nobody, Orphan}, ttl : 0..Ttl]
    BY DEF Tick, TypeOK
<1>2. /\ lock' \in [holder : Tasks \cup {Nobody, Orphan}, ttl : 0..Ttl]
      /\ lock.ttl # 1 => lock'.holder = lock.holder /\ lock'.ttl = lock.ttl - 1
      /\ lock.ttl = 1 => lock'.holder = Nobody
    BY <1>1, StallAssumption DEF Free
<1>3. ASSUME NEW t \in Tasks
      PROVE  /\ task'[t] \in Task /\ OwnWork(task'[t], tx'[t]) /\ OwnLock(t)'
  <2>1. task[t] \in Task /\ task[t].stall \in 0..MaxStall
      BY DEF TypeOK, Task
  <2>2. CASE task[t].at \in Fenced
    <3> DEFINE run == [task[t] EXCEPT !.stall = @ + 1]
    <3>1. task'[t] = run /\ task[t].stall < MaxStall
        BY <2>2 DEF Tick
    <3>2. task[t].stall + 1 \in 0..MaxStall
        BY <2>1, <3>1, StallAssumption
    <3>3. /\ run \in Task /\ run.at = task[t].at /\ run.stage = task[t].stage
          /\ run.left = task[t].left /\ run.unit = task[t].unit /\ run.seen = task[t].seen
          /\ run.stall = task[t].stall + 1
        BY <2>1, <3>2 DEF Task
    <3>4. lock.holder = t /\ lock.ttl + task[t].stall >= Ttl
        BY <2>2 DEF OwnLock
    <3>5. lock.ttl # 1
        BY <1>1, <2>1, <3>1, <3>4, StallAssumption
    <3>6. lock'.holder = t /\ lock'.ttl + run.stall >= Ttl
        BY <1>1, <1>2, <2>1, <3>3, <3>4, <3>5, StallAssumption
    <3>7. OwnWork(task'[t], tx'[t])
        BY <1>1, <3>1, <3>3 DEF OwnWork
    <3>8. OwnLock(t)'
        BY <1>1, <3>1, <3>3, <3>4, <3>6 DEF OwnLock
    <3> QED
        BY <3>1, <3>3, <3>7, <3>8
  <2>3. CASE task[t].at \notin Fenced
    <3>1. task'[t] = task[t]
        BY <2>3 DEF Tick
    <3>2. lock'.holder = t => lock.holder = t
        BY <1>2, LockAssumption
    <3> QED
        BY <1>1, <2>1, <2>3, <3>1, <3>2 DEF OwnLock
  <2> QED
      BY <2>2, <2>3
<1>4. TypeOK'
    BY <1>1, <1>2, <1>3 DEF Tick, TypeOK
<1> QED
    BY <1>3, <1>4

LEMMA StutterIInv == IInv /\ UNCHANGED vars => IInv'
BY DEF IInv, vars, TypeOK, OwnWork, OwnLock

LEMMA NextIInv ==
    ASSUME IInv, [Next]_vars
    PROVE  IInv'
<1>1. ASSUME NEW t \in Tasks, Step(t) PROVE IInv'
    BY <1>1, StepEnterStage, StepBeginUnit, StepIngestInstrument, StepComputeFeatures,
       StepForecastDay, StepReplaySession, StepSkipStage, StepFence, StepCommitUnit,
       StepCommitStage, StepLockLost, StepLeave, StepRelease DEF Step
<1>2. CASE Tick
    BY <1>2, StepTick
<1>3. ASSUME NEW t \in Tasks, Acquire(t) \/ Heartbeat(t) \/ Fail(t) \/ Crash(t) PROVE IInv'
    BY <1>3, StepAcquire, StepHeartbeat, StepFail, StepCrash
<1>4. CASE UNCHANGED vars
    BY <1>4, StutterIInv
<1> QED
    BY <1>1, <1>2, <1>3, <1>4 DEF Next

-----------------------------------------------------------------------------
LEMMA Invariance == Spec => []IInv
<1>1. IInv /\ [Next]_vars => IInv'
    BY NextIInv
<1> QED
    BY InitIInv, <1>1, PTL DEF Spec

\* Every variable has its type, for any tasks, instruments, gap and time to live.
THEOREM RecoveryTypeCorrect == Spec => []TypeOK
<1>1. IInv => TypeOK
    BY DEF IInv
<1> QED
    BY <1>1, Invariance, PTL

\* A commit behind a fence (commit_guard, renew_lock) is made while the Redis lock is still
\* the committing run's, whatever expired or was taken over before.
THEOREM CommitsFenced == Spec => []CommitsHoldLock
<1>1. IInv => CommitsHoldLock
    BY DEF IInv, OwnLock, CommitsHoldLock
<1> QED
    BY <1>1, Invariance, PTL

\* The session run_portfolio_session_catchup commits is the one after the last committed: of
\* two recoveries that overlap, none replays a session twice or leaves one out.
THEOREM SessionsInOrder == Spec => []SessionIsNext
<1>1. ASSUME IInv PROVE SessionIsNext
  <2> SUFFICES ASSUME NEW t \in Tasks, task[t].at = "commit", task[t].stage = "shadow"
               PROVE  tx[t].session = db.watermark + 1
      BY DEF SessionIsNext
  <2>1. lock.holder = t /\ task[t].seen = db.watermark
      BY <1>1 DEF IInv, OwnLock, Working
  <2>2. tx[t].session = task[t].seen + 1
      BY <1>1 DEF IInv, OwnWork
  <2> QED
      BY <2>1, <2>2
<1> QED
    BY <1>1, Invariance, PTL

\* release_recovery_lock and the heartbeat never end another run's lease: the lock leaves its
\* holder by expiry or with the end of the holder's own task.
THEOREM OwnersRelease == Spec => OnlyOwnerReleases
<1>1. ASSUME TypeOK, Next PROVE LockPasses
  <2> SUFFICES ASSUME NEW t \in Tasks, lock.holder = t, lock'.holder # t
               PROVE  (lock.ttl = 1 /\ lock' = Free) \/ task'[t].at \in Away
      BY DEF LockPasses
  <2>0. t # Nobody /\ t # Orphan /\ lock.ttl \in 0..Ttl
      BY LockAssumption, <1>1 DEF TypeOK
  <2>1. CASE Tick
      BY <1>1, <2>1 DEF Tick, TypeOK
  <2>2. ASSUME NEW o \in Tasks, Acquire(o) PROVE FALSE
      BY <2>0, <2>2 DEF Acquire
  <2>3. ASSUME NEW o \in Tasks, Release(o) \/ Crash(o) PROVE task'[t].at \in Away
    <3>1. o = t
        BY <2>3 DEF Release, Crash, Released, Orphaned
    <3>2. task' = [task EXCEPT ![t] = NoTask]
          \/ task' = [task EXCEPT ![t] = [NoTask EXCEPT !.at = "dead"]]
        BY <2>3, <3>1 DEF Release, Crash
    <3> QED
        BY <1>1, <3>2, NoTaskType DEF TypeOK
  <2>4. ASSUME NEW o \in Tasks, StillOwned(o) \/ Heartbeat(o) PROVE FALSE
      BY <1>1, <2>4 DEF StillOwned, Heartbeat, Renews, RenewedLock, TypeOK
  <2>5. ASSUME NEW o \in Tasks, UNCHANGED lock PROVE FALSE
      BY <2>5
  <2> QED
      BY <1>1, <2>1, <2>2, <2>3, <2>4, <2>5
      DEF Next, Step, EnterStage, BeginUnit, IngestInstrument, ComputeFeatures, ForecastDay,
          ReplaySession, Write, SkipStage, Fence, CommitUnit, CommitStage, CommitOf, LockLost,
          Leave, Fail
<1>2. ASSUME TypeOK, [Next]_vars PROVE [LockPasses]_vars
    BY <1>1, <1>2
<1> QED
    BY <1>2, RecoveryTypeCorrect, PTL DEF Spec, OnlyOwnerReleases
=============================================================================
