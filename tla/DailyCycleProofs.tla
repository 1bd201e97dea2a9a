--------------------------- MODULE DailyCycleProofs ---------------------------
(***************************************************************************)
(* What holds of DailyCycle for any number of workers, recoveries, days    *)
(* and instruments, and however many faults: types, whole days, frozen     *)
(* predictions, features first, and cycles that end well are right.        *)
(***************************************************************************)
EXTENDS DailyCycle, FiniteSetTheorems, TLAPS

USE CycleConstants

-----------------------------------------------------------------------------
(* Types *)

LEMMA NoWorkflowType == NoWorkflow \in RowType
  BY DEF NoWorkflow, RowType

LEMMA NewWorkflowType == NewWorkflow \in RowType
  BY NoWorkflowType DEF NewWorkflow, RowType

LEMMA IdleType == Idle \in TaskType
  BY DEF Idle, TaskType, Places, Stages

LEMMA InitType == Init => TypeOK
  BY NoWorkflowType, IdleType DEF Init, TypeOK, Days

\* A process that becomes a task keeps the types of the tasks.
LEMMA BecomesType ==
    ASSUME task \in [Processes -> TaskType], NEW p \in Processes,
           NEW t \in TaskType, Becomes(p, t)
    PROVE  task' \in [Processes -> TaskType]
  BY DEF Becomes

LEMMA GotoType ==
    ASSUME task \in [Processes -> TaskType], NEW p \in Processes,
           NEW place \in Places, Goto(p, place)
    PROVE  task' \in [Processes -> TaskType]
<1>1. [task[p] EXCEPT !.place = place] \in TaskType
  BY DEF TaskType
<1> QED
  BY <1>1, BecomesType DEF Goto

LEMMA FailedType ==
    ASSUME task \in [Processes -> TaskType], NEW p \in Processes,
           NEW why \in {"operational", "experiment"}
    PROVE  Failed(p, why) \in TaskType
<1>1. [Idle EXCEPT !.place = "record", !.row = task[p].row, !.why = why] \in TaskType
  BY IdleType DEF TaskType, Places
<1> QED
  BY <1>1, IdleType DEF Failed

\* Forgetting ended rows keeps the types of the rows.
LEMMA KeptType ==
    ASSUME NEW rs \in [Rows -> RowType], NEW held
    PROVE  Kept(rs, held) \in [Rows -> RowType]
  BY NoWorkflowType DEF Kept

\* A row that fails keeps its type.
LEMMA FailType ==
    ASSUME NEW rs \in [Rows -> RowType], NEW r,
           NEW why \in {"", "stale", "operational", "experiment"}
    PROVE  [rs EXCEPT ![r].status = "FAILED", ![r].error = why] \in [Rows -> RowType]
<1>1. \A row \in RowType : [row EXCEPT !.status = "FAILED", !.error = why] \in RowType
  BY DEF RowType
<1>2. ASSUME r \in Rows
      PROVE  [rs EXCEPT ![r] = [rs[r] EXCEPT !.status = "FAILED", !.error = why]]
                 \in [Rows -> RowType]
  BY <1>1, <1>2
<1> QED
  BY <1>2

\* The room for a new row is in the table.
LEMMA SlotInRows == Slots # {} => Slot \in Rows
  BY DEF Slots, Slot

\* The steps of the world around the cycles.
WorldStep == Tick \/ MarketDataUpdate \/ PostCheck \/ PostCreate \/ Expire

LEMMA WorldType == TypeOK /\ WorldStep => TypeOK'
<1> SUFFICES ASSUME TypeOK, WorldStep PROVE TypeOK'
  OBVIOUS
<1>1. CASE Tick
  BY <1>1 DEF Tick, TypeOK
<1>2. CASE MarketDataUpdate
  BY <1>2 DEF MarketDataUpdate, TypeOK
<1>3. CASE PostCheck
  <2>1. posting' \in 0..MaxPosting
    <3>1. Cardinality(queue) \in Nat
      BY FS_Subset, FS_CardinalityType DEF TypeOK
    <3> QED
      BY <1>3, <3>1 DEF PostCheck, TypeOK
  <2> QED
    BY <1>3, <2>1 DEF PostCheck, TypeOK
<1>4. CASE PostCreate
  BY <1>4, SlotInRows, NewWorkflowType DEF PostCreate, TypeOK, Fault
<1>5. CASE Expire
  BY <1>5 DEF Expire, TypeOK, Fault
<1> QED
  BY <1>1, <1>2, <1>3, <1>4, <1>5 DEF WorldStep

\* The steps of a process on the way to its forward batch.
LEMMA ForwardType ==
    ASSUME TypeOK, NEW p \in Processes, Forward(p)
    PROVE  TypeOK'
<1> USE DEF TypeOK
<1>t. task[p] \in TaskType
  OBVIOUS
<1>1. CASE Market(p)
  <2> DEFINE changed == p \in Workers /\ market.bars < market.source
             todo == IF p \in Workers THEN {} ELSE (market.bars + 1)..market.source
  <2>1. changed \in BOOLEAN /\ todo \in SUBSET Days
    BY DEF Days
  <2>2. Becomes(p, [task[p] EXCEPT !.place = "features", !.changed = changed, !.todo = todo])
    BY <1>1 DEF Market
  <2> HIDE DEF changed, todo
  <2>3. [task[p] EXCEPT !.place = "features", !.changed = changed, !.todo = todo] \in TaskType
    BY <1>t, <2>1 DEF TaskType, Places, Stages
  <2>4. task' \in [Processes -> TaskType]
    BY <2>2, <2>3, BecomesType
  <2> QED
    BY <1>1, <2>4 DEF Market
<1>2. CASE Features(p)
  BY <1>2, GotoType DEF Features, Places, Stages
<1>3. CASE Decline(p)
  <2> DEFINE d == AsOf(p)
  <2>1. [task[p] EXCEPT !.place = Onward(p, d), !.todo = @ \ {d}] \in TaskType
    BY <1>t DEF Onward, TaskType, Places, Stages
  <2>2. task' \in [Processes -> TaskType]
    BY <1>3, <2>1, BecomesType DEF Decline
  <2>3. ASSUME Ready(d)
        PROVE  [rows EXCEPT ![task[p].row].asOf = d] \in [Rows -> RowType]
    <3>1. d \in 0..LastDay
      BY <2>3 DEF Ready
    <3> HIDE DEF d
    <3> QED
      BY <3>1 DEF RowType
  <2>4. rows' \in [Rows -> RowType]
    BY <1>3, <2>3 DEF Decline
  <2> QED
    BY <1>3, <2>2, <2>4 DEF Decline
<1>4. CASE Begin(p)
  <2> DEFINE d == AsOf(p)
  <2>1. d \in Days /\ d \in 0..LastDay
    BY <1>4 DEF Begin, Ready, Days
  <2>2. Becomes(p, [task[p] EXCEPT !.place = "lookup", !.day = d, !.opened = @ \cup {d},
                                   !.unseen = Instruments, !.missing = {}])
    BY <1>4 DEF Begin
  <2> HIDE DEF d
  <2>3. [task[p] EXCEPT !.place = "lookup", !.day = d, !.opened = @ \cup {d},
                        !.unseen = Instruments, !.missing = {}] \in TaskType
    BY <1>t, <2>1 DEF TaskType, Places, Stages
  <2>4. task' \in [Processes -> TaskType]
    BY <2>2, <2>3, BecomesType
  <2> QED
    BY <1>4, <2>4 DEF Begin
<1>5. CASE LookUp(p)
  <2>1. PICK i \in Instruments : Becomes(p, [task[p] EXCEPT
            !.unseen = @ \ {i},
            !.missing = IF <<task[p].day, i>> \in Committed THEN @ ELSE @ \cup {i}])
    BY <1>5, <1>t DEF LookUp, TaskType
  <2>2. [task[p] EXCEPT
            !.unseen = @ \ {i},
            !.missing = IF <<task[p].day, i>> \in Committed THEN @ ELSE @ \cup {i}] \in TaskType
    BY <1>t DEF TaskType
  <2>3. task' \in [Processes -> TaskType]
    BY <2>1, <2>2, BecomesType
  <2> QED
    BY <1>5, <2>3 DEF LookUp
<1>6. CASE Insert(p)
  <2> DEFINE place == IF p \in Workers THEN "commit" ELSE Onward(p, task[p].day)
             wrote == task[p].wrote \cup ({task[p].day} \X task[p].missing)
             day == IF p \in Workers THEN task[p].day ELSE 0
  <2>1. /\ place \in Places /\ day \in 0..LastDay
        /\ wrote \in SUBSET ((0..LastDay) \X Instruments)
    <3>1. /\ task[p].day \in 0..LastDay /\ task[p].missing \subseteq Instruments
          /\ task[p].wrote \in SUBSET ((0..LastDay) \X Instruments)
      BY <1>t DEF TaskType
    <3>2. place \in Places
      BY DEF Onward, Places, Stages
    <3> QED
      BY <3>1, <3>2
  <2>2. Becomes(p, [task[p] EXCEPT !.place = place, !.todo = @ \ {task[p].day},
                                   !.wrote = wrote, !.missing = {}, !.day = day])
    BY <1>6 DEF Insert
  <2> HIDE DEF place, wrote, day
  <2>3. [task[p] EXCEPT !.place = place, !.todo = @ \ {task[p].day},
                        !.wrote = wrote, !.missing = {}, !.day = day] \in TaskType
    BY <1>t, <2>1 DEF TaskType
  <2>4. task' \in [Processes -> TaskType]
    BY <2>2, <2>3, BecomesType
  <2> QED
    BY <1>6, <2>4 DEF Insert
<1>7. CASE Refused(p)
  BY <1>7, FailedType, BecomesType DEF Refused
<1>8. CASE CommitBatch(p)
  <2>1. predictions' \in [Days -> [Instruments -> Nat]]
    BY <1>8 DEF CommitBatch
  <2>2. batches' \in [Days -> Nat]
    BY <1>8 DEF CommitBatch
  <2>3. [Idle EXCEPT !.place = "rest", !.row = task[p].row, !.changed = TRUE] \in TaskType
    BY <1>t, IdleType DEF TaskType, Places, Stages
  <2>4. task' \in [Processes -> TaskType]
    BY <1>8, <2>3, IdleType, BecomesType DEF CommitBatch
  <2>5. task[p].day \in 0..LastDay
    BY <1>t DEF TaskType
  <2>6. [rows EXCEPT ![task[p].row].asOf = task[p].day] \in [Rows -> RowType]
    BY <2>5 DEF RowType
  <2>7. rows' \in [Rows -> RowType]
    BY <1>8, <2>6 DEF CommitBatch
  <2> QED
    BY <1>8, <2>1, <2>2, <2>4, <2>7 DEF CommitBatch
<1> QED
  BY <1>1, <1>2, <1>3, <1>4, <1>5, <1>6, <1>7, <1>8 DEF Forward

\* The other stages of a cycle, and what can go wrong with it.
CycleOnly(w) ==
    \/ Prior(w) \/ Create(w) \/ Rest(w) \/ Finalize(w)
    \/ RecordFailure(w) \/ ReleaseGet(w) \/ ReleaseDelete(w)
    \/ ExperimentBreaks(w) \/ Crash(w)
    \/ \E r \in queue \cup {NoRow} : Take(w, r)
    \/ \E r \in queue : Blocked(w, r)

LEMMA CycleType ==
    ASSUME TypeOK, NEW w \in Workers, CycleOnly(w)
    PROVE  TypeOK'
<1> USE DEF TypeOK
<1> w \in Processes
  BY DEF Processes
<1>t. task[w] \in TaskType
  OBVIOUS
<1>1. CASE Prior(w)
  <2>1. rows' \in [Rows -> RowType]
    <3>1. CASE UNCHANGED rows
      BY <3>1
    <3>2. ASSUME NEW r \in Running,
                 rows' = Kept([rows EXCEPT ![r].status = "FAILED", ![r].error = "stale"], Held)
          PROVE  rows' \in [Rows -> RowType]
      <4>1. [rows EXCEPT ![r].status = "FAILED", ![r].error = "stale"] \in [Rows -> RowType]
        BY FailType
      <4> QED
        BY <3>2, <4>1, KeptType
    <3> QED
      BY <1>1, <3>1, <3>2 DEF Prior
  <2> QED
    BY <1>1, <2>1, GotoType DEF Prior, Places, Stages
<1>2. CASE Create(w)
  <2>1. Slot \in Rows
    BY <1>2, SlotInRows DEF Create
  <2>2. [task[w] EXCEPT !.row = Slot, !.place = "market"] \in TaskType
    BY <1>t, <2>1 DEF TaskType, Places, Stages
  <2>3. task' \in [Processes -> TaskType]
    BY <1>2, <2>2, BecomesType DEF Create
  <2> QED
    BY <1>2, <2>3, NewWorkflowType DEF Create
<1>3. CASE Rest(w)
  <2>1. PICK more \in BOOLEAN :
            Becomes(w, [task[w] EXCEPT !.place = "final", !.changed = @ \/ more])
    BY <1>3 DEF Rest
  <2>2. [task[w] EXCEPT !.place = "final", !.changed = @ \/ more] \in TaskType
    <3> DEFINE c == task[w].changed \/ more
    <3>1. c \in BOOLEAN
      OBVIOUS
    <3> HIDE DEF c
    <3>2. [task[w] EXCEPT !.place = "final", !.changed = c] \in TaskType
      BY <1>t, <3>1 DEF TaskType, Places, Stages
    <3> QED
      BY <3>2 DEF c
  <2>3. task' \in [Processes -> TaskType]
    BY <2>1, <2>2, BecomesType
  <2> QED
    BY <1>3, <2>3 DEF Rest
<1>4. CASE Finalize(w)
  <2>1. rows' \in [Rows -> RowType]
    BY <1>4 DEF Finalize, RowType
  <2>2. [task[w] EXCEPT !.place = "get", !.changed = FALSE] \in TaskType
    BY <1>t DEF TaskType, Places
  <2>3. task' \in [Processes -> TaskType]
    BY <1>4, <2>2, BecomesType DEF Finalize
  <2> QED
    BY <1>4, <2>1, <2>3 DEF Finalize
<1>5. CASE RecordFailure(w)
  <2>1. task[w].why \in {"", "operational", "experiment"}
    BY <1>t DEF TaskType
  <2>2. [rows EXCEPT ![task[w].row].status = "FAILED", ![task[w].row].error = task[w].why]
            \in [Rows -> RowType]
    BY <2>1, FailType
  <2>3. [task[w] EXCEPT !.place = "get", !.why = ""] \in TaskType
    BY <1>t DEF TaskType, Places
  <2>4. task' \in [Processes -> TaskType]
    BY <1>5, <2>3, BecomesType DEF RecordFailure
  <2> QED
    BY <1>5, <2>2, <2>4 DEF RecordFailure
<1>6. ASSUME Leave(w) PROVE /\ task' \in [Processes -> TaskType]
                           /\ rows' \in [Rows -> RowType]
  BY <1>6, IdleType, BecomesType, KeptType DEF Leave
<1>7. CASE ReleaseGet(w)
  BY <1>6, <1>7, GotoType DEF ReleaseGet, Places, Stages
<1>8. CASE ReleaseDelete(w)
  BY <1>6, <1>8 DEF ReleaseDelete
<1>9. CASE ExperimentBreaks(w)
  <2>1. task' \in [Processes -> TaskType]
    BY <1>9, FailedType, BecomesType DEF ExperimentBreaks
  <2> QED
    BY <1>9, <2>1 DEF ExperimentBreaks, Fault
<1>10. CASE Crash(w)
  BY <1>6, <1>10 DEF Crash, Fault
<1>11. ASSUME NEW r \in queue \cup {NoRow}, Take(w, r) PROVE TypeOK'
  <2> DEFINE place == IF r = NoRow THEN "prior" ELSE "market"
  <2>1. r \in Rows \cup {NoRow} /\ place \in Places
    BY DEF Places, Stages
  <2>2. Becomes(w, [task[w] EXCEPT !.row = r, !.place = place])
    BY <1>11 DEF Take
  <2> HIDE DEF place
  <2>3. [task[w] EXCEPT !.row = r, !.place = place] \in TaskType
    BY <1>t, <2>1 DEF TaskType
  <2>4. task' \in [Processes -> TaskType]
    BY <2>2, <2>3, BecomesType
  <2> QED
    BY <1>11, <2>4 DEF Take
<1>12. ASSUME NEW r \in queue, Blocked(w, r) PROVE TypeOK'
  BY <1>12, KeptType DEF Blocked
<1> QED
  BY <1>1, <1>2, <1>3, <1>4, <1>5, <1>7, <1>8, <1>9, <1>10, <1>11, <1>12 DEF CycleOnly

\* A process fails, or a recovery starts or swallows an exception.
ProcessStep(p) ==
    \/ p \in Recoveries /\ (StartRecovery(p) \/ Swallowed(p))
    \/ Fail(p)

LEMMA ProcessType ==
    ASSUME TypeOK, NEW p \in Processes, ProcessStep(p)
    PROVE  TypeOK'
<1> USE DEF TypeOK
<1>1. CASE StartRecovery(p)
  BY <1>1, GotoType DEF StartRecovery, Places, Stages
<1>2. CASE Fail(p)
  <2>1. task' \in [Processes -> TaskType]
    BY <1>2, FailedType, BecomesType DEF Fail
  <2> QED
    BY <1>2, <2>1 DEF Fail, Fault
<1>3. CASE Swallowed(p)
  <2> DEFINE left == IF At(p, "features") THEN task[p].todo ELSE {}
             place == IF left = {} THEN "commit" ELSE "forecast"
             t == [task[p] EXCEPT !.place = place, !.todo = left]
  <2>1. task[p] \in TaskType
    OBVIOUS
  <2>2. left \subseteq Days /\ place \in Places
    BY <2>1 DEF TaskType, Places, Stages
  <2>3. Becomes(p, t)
    BY <1>3 DEF Swallowed
  <2> HIDE DEF left, place
  <2>4. t \in TaskType
    BY <2>1, <2>2 DEF TaskType
  <2> HIDE DEF t
  <2>5. task' \in [Processes -> TaskType]
    BY <2>3, <2>4, BecomesType
  <2> QED
    BY <1>3, <2>5 DEF Swallowed, Fault
<1> QED
  BY <1>1, <1>2, <1>3 DEF ProcessStep

\* Every step is one of these four kinds.
LEMMA StepKinds ==
    Next <=> \/ WorldStep
             \/ \E p \in Processes : (p \in Workers /\ CycleOnly(p)) \/ Forward(p)
             \/ \E p \in Processes : ProcessStep(p)
  BY DEF Next, WorldStep, CycleStep, CycleOnly, ProcessStep, Processes

LEMMA StepType == TypeOK /\ [Next]_vars => TypeOK'
<1> SUFFICES ASSUME TypeOK, [Next]_vars PROVE TypeOK'
  OBVIOUS
<1>1. CASE Next
  BY <1>1, StepKinds, WorldType, ForwardType, CycleType, ProcessType DEF Processes
<1>2. CASE UNCHANGED vars
  BY <1>2 DEF vars, TypeOK
<1> QED
  BY <1>1, <1>2

\* The variables keep their types; features are never ahead of the bars they
\* are computed from, nor bars ahead of the exchange.
THEOREM TypeCorrect == Spec => []TypeOK
<1>1. Init => TypeOK
  BY InitType
<1>2. TypeOK /\ [Next]_vars => TypeOK'
  BY StepType
<1> QED
  BY <1>1, <1>2, PTL DEF Spec
-----------------------------------------------------------------------------
(* Whole days *)

\* What a transaction has inserted is whole days that nobody has published,
\* and no two transactions have inserted the same row.
WritesWhole ==
    \A p \in Processes : \A d \in Days : \A i, j \in Instruments :
        <<d, i>> \in task[p].wrote =>
            <<d, j>> \in task[p].wrote /\ predictions[d][j] = 0

WritesApart ==
    \A p, q \in Processes : p # q => task[p].wrote \cap task[q].wrote = {}

WritesReady ==
    \A p \in Processes : \A d \in Days : \A i \in Instruments :
        <<d, i>> \in task[p].wrote => d <= market.features

\* Behind the SELECTs, a row that is not missing is published.
LookedUp ==
    \A p \in Processes : At(p, "lookup") =>
        /\ task[p].day \in Days /\ task[p].day <= market.features
        /\ \A i \in Instruments :
              i \in task[p].unseen \cup task[p].missing \/ predictions[task[p].day][i] # 0

\* A cycle's commit leaves its day predicted.
CommitsDay ==
    \A w \in Workers : At(w, "commit") =>
        /\ task[w].day \in Days
        /\ \A i \in Instruments :
              <<task[w].day, i>> \in task[w].wrote \/ predictions[task[w].day][i] # 0

RowsPredicted ==
    \A r \in Rows : rows[r].asOf # 0 => rows[r].asOf \in Days /\ Predicted(rows[r].asOf)

Inv ==
    /\ DayIsWhole /\ PredictionsRestOnFeatures
    /\ WritesWhole /\ WritesApart /\ WritesReady
    /\ LookedUp /\ CommitsDay /\ RowsPredicted

LEMMA InitInv == Init => Inv
<1> SUFFICES ASSUME Init PROVE Inv
  OBVIOUS
<1>1. \A p \in Processes : task[p].wrote = {} /\ task[p].place = "idle"
  BY DEF Init, Idle
<1>2. DayIsWhole /\ PredictionsRestOnFeatures
  BY DEF Init, DayIsWhole, PredictionsRestOnFeatures, AnyPredicted
<1>3. WritesWhole /\ WritesApart /\ WritesReady
  BY <1>1 DEF WritesWhole, WritesApart, WritesReady
<1>4. LookedUp /\ CommitsDay
  BY <1>1 DEF LookedUp, CommitsDay, At, Processes
<1>5. RowsPredicted
  BY DEF Init, RowsPredicted, NoWorkflow
<1> QED
  BY <1>2, <1>3, <1>4, <1>5 DEF Inv

\* A step that publishes nothing, in which no process comes to look rows up or
\* to hold new ones, and no row names a new day.
Quiet ==
    /\ predictions' = predictions
    /\ market.features <= market'.features
    /\ \A p \in Processes :
          \/ task'[p] = task[p]
          \/ /\ task'[p].wrote \in {{}, task[p].wrote}
             /\ task'[p].place # "lookup"
             /\ p \in Workers => task'[p].place # "commit"
    /\ \A r \in Rows : rows'[r].asOf \in {0, rows[r].asOf}

LEMMA QuietInv == TypeOK /\ TypeOK' /\ Inv /\ Quiet => Inv'
<1> SUFFICES ASSUME TypeOK, TypeOK', Inv, Quiet PROVE Inv'
  OBVIOUS
<1>0. \A d \in Days : d <= market.features => d <= market'.features
  <2>1. market.features \in Nat /\ market'.features \in Nat
    BY DEF TypeOK
  <2>2. market.features <= market'.features
    BY DEF Quiet
  <2> QED
    BY <2>1, <2>2 DEF Days
<1>1. DayIsWhole'
  BY DEF Inv, Quiet, DayIsWhole
<1>2. PredictionsRestOnFeatures'
  BY <1>0 DEF Inv, Quiet, PredictionsRestOnFeatures, AnyPredicted
<1>3. WritesWhole'
  BY DEF Inv, Quiet, WritesWhole
<1>4. WritesApart'
  BY DEF Inv, Quiet, WritesApart
<1>5. WritesReady'
  BY <1>0 DEF Inv, Quiet, WritesReady
<1>6. LookedUp'
  BY <1>0 DEF Inv, Quiet, LookedUp, At
<1>7. CommitsDay'
  BY DEF Inv, Quiet, CommitsDay, At, Processes
<1>8. RowsPredicted'
  BY DEF Inv, Quiet, RowsPredicted, Predicted
<1> QED
  BY <1>1, <1>2, <1>3, <1>4, <1>5, <1>6, <1>7, <1>8 DEF Inv

\* Most steps are quiet.
LEMMA WorldQuiet == TypeOK /\ WorldStep => Quiet
<1> SUFFICES ASSUME TypeOK, WorldStep PROVE Quiet
  OBVIOUS
<1>1. CASE PostCreate
  <2>1. \A r \in Rows : rows'[r].asOf \in {0, rows[r].asOf}
    BY <1>1 DEF PostCreate, NewWorkflow, NoWorkflow, TypeOK
  <2> QED
    BY <1>1, <2>1 DEF PostCreate, Quiet, TypeOK
<1>2. CASE Tick \/ MarketDataUpdate \/ PostCheck \/ Expire
  BY <1>2 DEF Quiet, Tick, MarketDataUpdate, PostCheck, Expire, TypeOK
<1> QED
  BY <1>1, <1>2 DEF WorldStep

LEMMA KeptAsOf ==
    ASSUME NEW rs, NEW held, NEW r \in Rows
    PROVE  Kept(rs, held)[r].asOf \in {0, rs[r].asOf}
  BY DEF Kept, NoWorkflow

\* A process whose task becomes t, at another place, with its rows or without.
LEMMA BecomesQuiet ==
    ASSUME TypeOK, NEW p \in Processes, NEW t, Becomes(p, t),
           t.wrote \in {{}, task[p].wrote}, t.place # "lookup",
           p \in Workers => t.place # "commit",
           predictions' = predictions, market.features <= market'.features,
           \A r \in Rows : rows'[r].asOf \in {0, rows[r].asOf}
    PROVE  Quiet
  BY DEF Quiet, Becomes, TypeOK

LEMMA GotoQuiet ==
    ASSUME TypeOK, NEW p \in Processes, NEW place, Goto(p, place),
           place # "lookup", p \in Workers => place # "commit",
           predictions' = predictions, market.features <= market'.features,
           \A r \in Rows : rows'[r].asOf \in {0, rows[r].asOf}
    PROVE  Quiet
<1> DEFINE t == [task[p] EXCEPT !.place = place]
<1>1. t.wrote = task[p].wrote /\ t.place = place
  BY DEF TypeOK, TaskType
<1>2. Becomes(p, t)
  BY DEF Goto
<1> HIDE DEF t
<1> QED
  BY <1>1, <1>2, BecomesQuiet

LEMMA FailedQuiet ==
    ASSUME NEW p, NEW why
    PROVE  Failed(p, why).wrote = {} /\ Failed(p, why).place \in {"idle", "record"}
  BY DEF Failed, Idle
LEMMA CycleQuiet ==
    ASSUME TypeOK, NEW w \in Workers, CycleOnly(w)
    PROVE  Quiet
<1> w \in Processes
  BY DEF Processes
<1>t. task[w] \in TaskType /\ market.features \in Nat
  BY DEF TypeOK
<1>f. market.features <= market.features
  BY <1>t
<1>i. Idle.wrote = {} /\ Idle.place = "idle"
  BY DEF Idle
<1>r. (UNCHANGED rows) => \A r \in Rows : rows'[r].asOf \in {0, rows[r].asOf}
  OBVIOUS
<1>1. CASE Prior(w)
  <2>1. \A r \in Rows : rows'[r].asOf \in {0, rows[r].asOf}
    <3>1. ASSUME NEW s \in Running,
                 rows' = Kept([rows EXCEPT ![s].status = "FAILED", ![s].error = "stale"], Held)
          PROVE  \A r \in Rows : rows'[r].asOf \in {0, rows[r].asOf}
      <4> DEFINE rs == [rows EXCEPT ![s].status = "FAILED", ![s].error = "stale"]
      <4>1. \A r \in Rows : rs[r].asOf = rows[r].asOf
        BY DEF TypeOK, RowType
      <4>2. rows' = Kept(rs, Held)
        BY <3>1
      <4> HIDE DEF rs
      <4> QED
        BY <4>1, <4>2, KeptAsOf
    <3> QED
      BY <1>1, <1>r, <3>1 DEF Prior
  <2> QED
    BY <1>1, <1>f, <2>1, GotoQuiet DEF Prior
<1>2. CASE Create(w)
  <2> DEFINE t == [task[w] EXCEPT !.row = Slot, !.place = "market"]
  <2>1. t.wrote = task[w].wrote /\ t.place = "market"
    BY <1>t DEF TaskType
  <2>2. Becomes(w, t)
    BY <1>2 DEF Create
  <2>3. \A r \in Rows : rows'[r].asOf \in {0, rows[r].asOf}
    BY <1>2 DEF Create, NewWorkflow, NoWorkflow, TypeOK
  <2> HIDE DEF t
  <2> QED
    BY <1>2, <1>f, <2>1, <2>2, <2>3, BecomesQuiet DEF Create
<1>3. CASE Rest(w)
  <2>1. PICK more \in BOOLEAN :
            Becomes(w, [task[w] EXCEPT !.place = "final", !.changed = @ \/ more])
    BY <1>3 DEF Rest
  <2> DEFINE t == [task[w] EXCEPT !.place = "final", !.changed = @ \/ more]
  <2>2. t.wrote = task[w].wrote /\ t.place = "final"
    BY <1>t DEF TaskType
  <2>3. Becomes(w, t)
    BY <2>1
  <2> HIDE DEF t
  <2> QED
    BY <1>3, <1>f, <1>r, <2>2, <2>3, BecomesQuiet DEF Rest
<1>4. CASE Finalize(w)
  <2> DEFINE t == [task[w] EXCEPT !.place = "get", !.changed = FALSE]
  <2>1. t.wrote = task[w].wrote /\ t.place = "get"
    BY <1>t DEF TaskType
  <2>2. Becomes(w, t)
    BY <1>4 DEF Finalize
  <2>3. \A r \in Rows : rows'[r].asOf \in {0, rows[r].asOf}
    <3> DEFINE status == IF task[w].changed THEN "SUCCESS" ELSE "NO_CHANGES"
    <3>1. rows' = [rows EXCEPT ![task[w].row].error = "", ![task[w].row].status = status]
      BY <1>4 DEF Finalize
    <3> HIDE DEF status
    <3>2. \A r \in Rows : rows'[r].asOf = rows[r].asOf
      <4>1. \A r \in Rows : rows[r] \in RowType
        BY DEF TypeOK
      <4> QED
        BY <3>1, <4>1 DEF TypeOK, RowType
    <3> QED
      BY <3>2
  <2> HIDE DEF t
  <2> QED
    BY <1>4, <1>f, <2>1, <2>2, <2>3, BecomesQuiet DEF Finalize
<1>5. CASE RecordFailure(w)
  <2> DEFINE t == [task[w] EXCEPT !.place = "get", !.why = ""]
  <2>1. t.wrote = task[w].wrote /\ t.place = "get"
    BY <1>t DEF TaskType
  <2>2. Becomes(w, t)
    BY <1>5 DEF RecordFailure
  <2>3. \A r \in Rows : rows'[r].asOf \in {0, rows[r].asOf}
    <3>1. CASE UNCHANGED rows
      BY <3>1
    <3>2. CASE rows' = [rows EXCEPT ![task[w].row].status = "FAILED",
                                    ![task[w].row].error = task[w].why]
      <4>1. \A r \in Rows : rows'[r].asOf = rows[r].asOf
        <5>1. \A r \in Rows : rows[r] \in RowType
          BY DEF TypeOK
        <5> QED
          BY <3>2, <5>1 DEF TypeOK, RowType
      <4> QED
        BY <4>1
    <3> QED
      BY <1>5, <3>1, <3>2 DEF RecordFailure
  <2> HIDE DEF t
  <2> QED
    BY <1>5, <1>f, <2>1, <2>2, <2>3, BecomesQuiet DEF RecordFailure
<1>6. ASSUME Leave(w), UNCHANGED <<market, predictions>> PROVE Quiet
  <2>1. \A r \in Rows : rows'[r].asOf \in {0, rows[r].asOf}
    BY <1>6, KeptAsOf DEF Leave
  <2> QED
    BY <1>6, <1>f, <1>i, <2>1, BecomesQuiet DEF Leave
<1>7. CASE ReleaseGet(w)
  BY <1>6, <1>7, <1>f, <1>r, GotoQuiet DEF ReleaseGet
<1>8. CASE ReleaseDelete(w)
  BY <1>6, <1>8 DEF ReleaseDelete
<1>9. CASE ExperimentBreaks(w)
  BY <1>9, <1>f, <1>r, FailedQuiet, BecomesQuiet DEF ExperimentBreaks
<1>10. CASE Crash(w)
  BY <1>6, <1>10 DEF Crash
<1>11. ASSUME NEW r \in queue \cup {NoRow}, Take(w, r) PROVE Quiet
  <2> DEFINE place == IF r = NoRow THEN "prior" ELSE "market"
             t == [task[w] EXCEPT !.row = r, !.place = place]
  <2>1. t.wrote = task[w].wrote /\ t.place \in {"prior", "market"}
    BY <1>t DEF TaskType
  <2>2. Becomes(w, t)
    BY <1>11 DEF Take
  <2> HIDE DEF t
  <2> QED
    BY <1>11, <1>f, <1>r, <2>1, <2>2, BecomesQuiet DEF Take
<1>12. ASSUME NEW r \in queue, Blocked(w, r) PROVE Quiet
  <2>1. \A s \in Rows : rows'[s].asOf \in {0, rows[s].asOf}
    BY <1>12, KeptAsOf DEF Blocked
  <2> QED
    BY <1>12, <1>f, <2>1 DEF Blocked, Quiet
<1> QED
  BY <1>1, <1>2, <1>3, <1>4, <1>5, <1>7, <1>8, <1>9, <1>10, <1>11, <1>12 DEF CycleOnly

\* Every task has the fields of its type.
LEMMA TaskHas ==
    ASSUME TypeOK, NEW p \in Processes
    PROVE  task[p] \in TaskType
  BY DEF TypeOK

\* Failing, starting and swallowing an exception publish nothing.
LEMMA ProcessQuiet ==
    ASSUME TypeOK, NEW p \in Processes, ProcessStep(p)
    PROVE  Quiet
<1>f. market.features <= market.features
  BY DEF TypeOK
<1>1. CASE StartRecovery(p)
  BY <1>1, <1>f, GotoQuiet DEF StartRecovery
<1>2. CASE Fail(p)
  BY <1>2, <1>f, FailedQuiet, BecomesQuiet DEF Fail
<1>3. CASE p \in Recoveries /\ Swallowed(p)
  <2> DEFINE left == IF At(p, "features") THEN task[p].todo ELSE {}
             place == IF left = {} THEN "commit" ELSE "forecast"
             t == [task[p] EXCEPT !.place = place, !.todo = left]
  <2>1. place # "lookup"
    OBVIOUS
  <2>2. Becomes(p, t) /\ UNCHANGED <<predictions, market, rows>>
    BY <1>3 DEF Swallowed
  <2> HIDE DEF left, place
  <2>3. t.wrote = task[p].wrote /\ t.place # "lookup"
    BY <2>1, TaskHas DEF TaskType
  <2>4. p \notin Workers
    BY <1>3, CycleConstants
  <2> HIDE DEF t
  <2> QED
    BY <1>f, <2>2, <2>3, <2>4, BecomesQuiet
<1> QED
  BY <1>1, <1>2, <1>3 DEF ProcessStep

\* A process that publishes nothing keeps Inv when its own new task is sound.
LEMMA BecomesInv ==
    ASSUME TypeOK, TypeOK', Inv, NEW p \in Processes, NEW t, Becomes(p, t),
           UNCHANGED <<predictions, market>>, RowsPredicted',
           \A d \in Days : \A i, j \in Instruments : <<d, i>> \in t.wrote =>
               <<d, j>> \in t.wrote /\ predictions[d][j] = 0,
           \A d \in Days : \A i \in Instruments :
               <<d, i>> \in t.wrote => d <= market.features,
           \A q \in Processes : q # p => t.wrote \cap task[q].wrote = {},
           t.place = "lookup" =>
               /\ t.day \in Days /\ t.day <= market.features
               /\ \A i \in Instruments :
                     i \in t.unseen \cup t.missing \/ predictions[t.day][i] # 0,
           p \in Workers /\ t.place = "commit" =>
               /\ t.day \in Days
               /\ \A i \in Instruments : <<t.day, i>> \in t.wrote \/ predictions[t.day][i] # 0
    PROVE  Inv'
<1>t. task'[p] = t /\ \A q \in Processes : q # p => task'[q] = task[q]
  BY DEF Becomes, TypeOK
<1>1. DayIsWhole' /\ PredictionsRestOnFeatures'
  BY DEF Inv, DayIsWhole, PredictionsRestOnFeatures, AnyPredicted
<1>2. WritesWhole'
  BY <1>t DEF Inv, WritesWhole
<1>3. WritesApart'
  BY <1>t DEF Inv, WritesApart
<1>4. WritesReady'
  BY <1>t DEF Inv, WritesReady
<1>5. LookedUp'
  BY <1>t DEF Inv, LookedUp, At
<1>6. CommitsDay'
  <2> SUFFICES ASSUME NEW w \in Workers, At(w, "commit")'
               PROVE  /\ task'[w].day \in Days
                      /\ \A i \in Instruments :
                            <<task'[w].day, i>> \in task'[w].wrote
                              \/ predictions'[task'[w].day][i] # 0
    BY DEF CommitsDay
  <2>1. CASE w = p
    BY <1>t, <2>1 DEF At
  <2>2. CASE w # p
    BY <1>t, <2>2 DEF Inv, CommitsDay, At, Processes
  <2> QED
    BY <2>1, <2>2
<1> QED
  BY <1>1, <1>2, <1>3, <1>4, <1>5, <1>6 DEF Inv

\* A whole day that has one prediction is predicted.
LEMMA WholeDay ==
    ASSUME DayIsWhole, NEW d \in Days, NEW i \in Instruments, predictions[d][i] # 0
    PROVE  Predicted(d)
  BY DEF DayIsWhole, Predicted

LEMMA DeclineInv ==
    ASSUME TypeOK, TypeOK', Inv, NEW p \in Processes, Decline(p)
    PROVE  Inv'
<1> DEFINE d == AsOf(p)
           t == [task[p] EXCEPT !.place = Onward(p, d), !.todo = @ \ {d}]
<1>1. t.wrote = task[p].wrote /\ t.place = Onward(p, d)
  BY TaskHas DEF TaskType
<1>2. t.place # "lookup" /\ (p \in Workers => t.place # "commit")
  BY <1>1 DEF Onward
<1>3. Becomes(p, t)
  BY DEF Decline
<1>4. UNCHANGED <<predictions, market>>
  BY DEF Decline
<1>5. RowsPredicted'
  <2>1. CASE UNCHANGED rows
    BY <1>4, <2>1 DEF Inv, RowsPredicted, Predicted
  <2>2. CASE /\ rows' = [rows EXCEPT ![task[p].row].asOf = d]
             /\ p \in Workers /\ Ready(d)
    <3>1. d \in Days
      BY <2>2 DEF Ready, TypeOK, Days
    <3>2. Predicted(d)
      BY <2>2, <3>1, WholeDay DEF Decline, AnyPredicted, Inv
    <3> HIDE DEF d
    <3>3. \A r \in Rows : rows'[r].asOf \in {d, rows[r].asOf}
      BY <2>2 DEF TypeOK, RowType
    <3> QED
      BY <1>4, <3>1, <3>2, <3>3 DEF Inv, RowsPredicted, Predicted
  <2> QED
    BY <2>1, <2>2 DEF Decline
<1> HIDE DEF t
<1> QED
  BY <1>1, <1>2, <1>3, <1>4, <1>5, BecomesInv DEF Inv, WritesWhole, WritesReady, WritesApart

LEMMA BeginInv ==
    ASSUME TypeOK, TypeOK', Inv, NEW p \in Processes, Begin(p)
    PROVE  Inv'
<1> DEFINE d == AsOf(p)
<1>1. d \in Days /\ d <= market.features
  BY DEF Begin, Ready, TypeOK, Days
<1> DEFINE t == [task[p] EXCEPT !.place = "lookup", !.day = d, !.opened = @ \cup {d},
                                !.unseen = Instruments, !.missing = {}]
<1>2. Becomes(p, t)
  BY DEF Begin
<1> HIDE DEF d
<1>3. t.wrote = task[p].wrote /\ t.place = "lookup" /\ t.day = d /\ t.unseen = Instruments
  BY TaskHas DEF TaskType
<1>4. UNCHANGED <<predictions, market>> /\ RowsPredicted'
  BY DEF Begin, Inv, RowsPredicted, Predicted
<1> HIDE DEF t
<1> QED
  BY <1>1, <1>2, <1>3, <1>4, BecomesInv DEF Inv, WritesWhole, WritesReady, WritesApart

LEMMA LookUpInv ==
    ASSUME TypeOK, TypeOK', Inv, NEW p \in Processes, LookUp(p)
    PROVE  Inv'
<1>d. task[p].day \in Days /\ task[p].day <= market.features
  BY DEF LookUp, Inv, LookedUp
<1>1. PICK k \in Instruments : Becomes(p, [task[p] EXCEPT
          !.unseen = @ \ {k},
          !.missing = IF <<task[p].day, k>> \in Committed THEN @ ELSE @ \cup {k}])
  BY DEF LookUp, TypeOK, TaskType
<1> DEFINE missing == IF <<task[p].day, k>> \in Committed THEN task[p].missing
                      ELSE task[p].missing \cup {k}
           t == [task[p] EXCEPT !.unseen = @ \ {k}, !.missing = missing]
<1>2. Becomes(p, t)
  BY <1>1
<1>3. k \in missing \/ predictions[task[p].day][k] # 0
  BY DEF Committed
<1>4. task[p].missing \subseteq missing
  OBVIOUS
<1> HIDE DEF missing
<1>5. /\ t.wrote = task[p].wrote /\ t.place = task[p].place /\ t.day = task[p].day
      /\ t.unseen = task[p].unseen \ {k} /\ t.missing = missing
  BY TaskHas DEF TaskType
<1>6. task[p].place = "lookup"
  BY DEF LookUp, At
<1>7. \A i \in Instruments : i \in t.unseen \cup t.missing \/ predictions[t.day][i] # 0
  BY <1>3, <1>4, <1>5, <1>6 DEF Inv, LookedUp, At
<1>8. UNCHANGED <<predictions, market>> /\ RowsPredicted'
  BY DEF LookUp, Inv, RowsPredicted, Predicted
<1> HIDE DEF t
<1> QED
  BY <1>d, <1>2, <1>5, <1>6, <1>7, <1>8, BecomesInv DEF Inv, WritesWhole, WritesReady, WritesApart
\* When the unique key lets the rows in, none of the day's rows is published,
\* so all of them are missing: the flush inserts the whole day or nothing.
LEMMA InsertInv ==
    ASSUME TypeOK, TypeOK', Inv, NEW p \in Processes, Insert(p)
    PROVE  Inv'
<1> DEFINE day == task[p].day
           missing == task[p].missing
           wrote == task[p].wrote \cup ({day} \X missing)
           place == IF p \in Workers THEN "commit" ELSE Onward(p, day)
           t == [task[p] EXCEPT !.place = place, !.todo = @ \ {day}, !.wrote = wrote,
                                !.missing = {}, !.day = IF p \in Workers THEN @ ELSE 0]
<1>1. /\ day \in Days /\ day <= market.features
      /\ \A i \in Instruments : i \in missing \/ predictions[day][i] # 0
  BY DEF Insert, Inv, LookedUp
<1>2. missing \subseteq Instruments
  BY TaskHas DEF TaskType
<1>3. ASSUME NEW i \in missing
      PROVE  predictions[day][i] = 0
  <2> DEFINE k == <<day, i>>
  <2>1. k \in {task[p].day} \X task[p].missing
    OBVIOUS
  <2>2. k \in Keys /\ k[1] = day /\ k[2] = i
    BY <1>1, <1>2 DEF Keys
  <2>3. k \notin Committed
    <3> HIDE DEF k
    <3> QED
      BY <2>1 DEF Insert, Conflicts
  <2> HIDE DEF day
  <2> QED
    BY <2>2, <2>3 DEF Committed
<1>4. missing # {} => \A i \in Instruments : i \in missing /\ predictions[day][i] = 0
  BY <1>1, <1>2, <1>3 DEF Inv, DayIsWhole
<1>5. \A q \in Processes : q # p => wrote \cap task[q].wrote = {}
  BY DEF Insert, Waits, Inv, WritesApart
<1>6. \A d, i : <<d, i>> \in wrote <=> <<d, i>> \in task[p].wrote \/ (d = day /\ i \in missing)
  OBVIOUS
<1>7. Becomes(p, t) /\ UNCHANGED <<predictions, market, rows>>
  BY DEF Insert
<1>8. place # "lookup" /\ (p \in Workers => place = "commit")
  BY DEF Onward
<1> HIDE DEF wrote, place
<1>9. t.wrote = wrote /\ t.place = place /\ (p \in Workers => t.day = day)
  BY TaskHas DEF TaskType
<1> HIDE DEF t, day, missing
<1>10. \A d \in Days : \A i, j \in Instruments : <<d, i>> \in t.wrote =>
           <<d, j>> \in t.wrote /\ predictions[d][j] = 0
  BY <1>4, <1>6, <1>9 DEF Inv, WritesWhole
<1>11. \A d \in Days : \A i \in Instruments : <<d, i>> \in t.wrote => d <= market.features
  BY <1>1, <1>6, <1>9 DEF Inv, WritesReady
<1>12. p \in Workers => \A i \in Instruments :
           <<t.day, i>> \in t.wrote \/ predictions[t.day][i] # 0
  BY <1>1, <1>6, <1>9
<1>13. RowsPredicted'
  BY <1>7 DEF Inv, RowsPredicted, Predicted
<1> QED
  BY <1>1, <1>5, <1>7, <1>8, <1>9, <1>10, <1>11, <1>12, <1>13, BecomesInv

\* A commit publishes whole days that had no prediction.
LEMMA CommitFills ==
    ASSUME TypeOK, Inv, NEW p \in Processes, CommitBatch(p), NEW d \in Days
    PROVE  \/ predictions'[d] = predictions[d]
           \/ \A i \in Instruments : /\ <<d, i>> \in task[p].wrote
                                     /\ predictions[d][i] = 0
                                     /\ predictions'[d][i] = batches[d] + 1
<1>1. \A i \in Instruments : predictions'[d][i] =
          IF <<d, i>> \in task[p].wrote THEN batches[d] + 1 ELSE predictions[d][i]
  BY DEF CommitBatch
<1>2. CASE \E i \in Instruments : <<d, i>> \in task[p].wrote
  BY <1>1, <1>2 DEF Inv, WritesWhole
<1>3. CASE ~\E i \in Instruments : <<d, i>> \in task[p].wrote
  <2>1. predictions'[d] = [i \in Instruments |-> predictions[d][i]]
    BY <1>3 DEF CommitBatch
  <2>2. predictions[d] = [i \in Instruments |-> predictions[d][i]]
    BY DEF TypeOK
  <2> QED
    BY <2>1, <2>2
<1> QED
  BY <1>2, <1>3

LEMMA CommitInv ==
    ASSUME TypeOK, TypeOK', Inv, NEW p \in Processes, CommitBatch(p)
    PROVE  Inv'
<1>k. \A d \in Days : batches[d] + 1 # 0
  BY DEF TypeOK
<1>t. /\ task'[p].wrote = {} /\ task'[p].place \in {"rest", "idle"}
      /\ \A q \in Processes : q # p => task'[q] = task[q]
  <2>1. CASE p \in Workers
    <3> DEFINE t == [Idle EXCEPT !.place = "rest", !.row = task[p].row, !.changed = TRUE]
    <3>1. t.wrote = {} /\ t.place = "rest"
      BY DEF Idle
    <3>2. task' = [task EXCEPT ![p] = t]
      BY <2>1 DEF CommitBatch, Becomes
    <3> HIDE DEF t
    <3> QED
      BY <3>1, <3>2 DEF TypeOK
  <2>2. CASE p \notin Workers
    <3>1. task' = [task EXCEPT ![p] = Idle]
      BY <2>2 DEF CommitBatch, Becomes
    <3>2. Idle.wrote = {} /\ Idle.place = "idle"
      BY DEF Idle
    <3> QED
      BY <3>1, <3>2 DEF TypeOK
  <2> QED
    BY <2>1, <2>2
<1>m. market' = market
  BY DEF CommitBatch
<1>p. \A d \in Days : \A i \in Instruments : predictions[d][i] # 0 => predictions'[d][i] # 0
  BY <1>k, CommitFills
<1>1. DayIsWhole'
  <2> SUFFICES ASSUME NEW d \in Days, NEW i \in Instruments, NEW j \in Instruments
               PROVE  predictions'[d][i] = predictions'[d][j]
    BY DEF DayIsWhole
  <2>1. CASE predictions'[d] = predictions[d]
    BY <2>1 DEF Inv, DayIsWhole
  <2>2. CASE \A n \in Instruments : predictions'[d][n] = batches[d] + 1
    BY <2>2
  <2> QED
    BY <2>1, <2>2, CommitFills
<1>2. PredictionsRestOnFeatures'
  BY <1>m, CommitFills DEF Inv, PredictionsRestOnFeatures, AnyPredicted, WritesReady
<1>3. WritesWhole'
  BY <1>t, CommitFills DEF Inv, WritesWhole, WritesApart
<1>4. WritesApart' /\ WritesReady'
  BY <1>t, <1>m DEF Inv, WritesApart, WritesReady
<1>5. LookedUp'
  BY <1>t, <1>m, <1>p DEF Inv, LookedUp, At
<1>6. CommitsDay'
  BY <1>t, <1>p DEF Inv, CommitsDay, At, Processes
<1>7. RowsPredicted'
  <2>1. \A d \in Days : Predicted(d) => Predicted(d)'
    BY <1>p DEF Predicted
  <2>2. CASE p \notin Workers
    BY <2>1, <2>2 DEF CommitBatch, Inv, RowsPredicted
  <2>3. CASE p \in Workers
    <3>1. /\ task[p].day \in Days
          /\ \A i \in Instruments :
                <<task[p].day, i>> \in task[p].wrote \/ predictions[task[p].day][i] # 0
      BY <2>3 DEF CommitBatch, Inv, CommitsDay
    <3> DEFINE day == task[p].day
    <3>2. \A i \in Instruments : predictions'[day][i] # 0
      <4> SUFFICES ASSUME NEW i \in Instruments
                   PROVE  predictions'[day][i] # 0
        OBVIOUS
      <4>1. predictions'[day][i] =
                IF <<day, i>> \in task[p].wrote THEN batches[day] + 1 ELSE predictions[day][i]
        BY <3>1 DEF CommitBatch
      <4> QED
        BY <1>k, <3>1, <4>1
    <3>3. ASSUME NEW r \in Rows
          PROVE  rows'[r].asOf \in {day, rows[r].asOf}
      <4>1. rows[r] \in RowType
        BY DEF TypeOK
      <4>2. rows' = [rows EXCEPT ![task[p].row].asOf = day]
        BY <2>3 DEF CommitBatch
      <4> HIDE DEF day
      <4>3. rows'[r] \in {rows[r], [rows[r] EXCEPT !.asOf = day]}
        BY <4>2 DEF TypeOK
      <4> QED
        BY <4>1, <4>3 DEF RowType
    <3>4. day \in Days
      BY <3>1
    <3> HIDE DEF day
    <3> QED
      BY <2>1, <3>2, <3>3, <3>4 DEF Inv, RowsPredicted, Predicted
  <2> QED
    BY <2>2, <2>3
<1> QED
  BY <1>1, <1>2, <1>3, <1>4, <1>5, <1>6, <1>7 DEF Inv

LEMMA ForwardInv ==
    ASSUME TypeOK, TypeOK', Inv, NEW p \in Processes, Forward(p)
    PROVE  Inv'
<1>r. (UNCHANGED rows) => \A r \in Rows : rows'[r].asOf \in {0, rows[r].asOf}
  OBVIOUS
<1>f. market.features <= market.features /\ market.features <= market.bars
  BY DEF TypeOK
<1>1. CASE Market(p)
  <2> DEFINE t == [task[p] EXCEPT
                !.place = "features",
                !.changed = p \in Workers /\ market.bars < market.source,
                !.todo = IF p \in Workers THEN {} ELSE (market.bars + 1)..market.source]
  <2>1. t.wrote = task[p].wrote /\ t.place = "features"
    BY TaskHas DEF TaskType
  <2>2. Becomes(p, t)
    BY <1>1 DEF Market
  <2>3. market'.features = market.features
    BY <1>1 DEF Market, TypeOK
  <2> HIDE DEF t
  <2>4. Quiet
    BY <1>1, <1>f, <1>r, <2>1, <2>2, <2>3, BecomesQuiet DEF Market
  <2> QED
    BY <2>4, QuietInv
<1>2. CASE Features(p)
  <2>1. market'.features = market.bars
    BY <1>2 DEF Features, TypeOK
  <2>2. Quiet
    BY <1>2, <1>f, <1>r, <2>1, GotoQuiet DEF Features
  <2> QED
    BY <2>2, QuietInv
<1>3. CASE Refused(p)
  <2>1. Quiet
    BY <1>3, <1>f, <1>r, FailedQuiet, BecomesQuiet DEF Refused
  <2> QED
    BY <2>1, QuietInv
<1> QED
  BY <1>1, <1>2, <1>3, DeclineInv, BeginInv, LookUpInv, InsertInv, CommitInv DEF Forward

LEMMA StepInv == TypeOK /\ Inv /\ [Next]_vars => Inv'
<1> SUFFICES ASSUME TypeOK, Inv, [Next]_vars PROVE Inv'
  OBVIOUS
<1>t. TypeOK'
  BY StepType
<1>1. CASE UNCHANGED vars
  <2>1. Quiet
    BY <1>1 DEF vars, Quiet, TypeOK
  <2> QED
    BY <1>t, <2>1, QuietInv
<1>2. CASE Next
  <2>1. CASE WorldStep
    BY <1>t, <2>1, WorldQuiet, QuietInv
  <2>2. ASSUME NEW p \in Processes, (p \in Workers /\ CycleOnly(p)) \/ Forward(p)
        PROVE  Inv'
    BY <1>t, <2>2, CycleQuiet, QuietInv, ForwardInv
  <2>3. ASSUME NEW p \in Processes, ProcessStep(p)
        PROVE  Inv'
    BY <1>t, <2>3, ProcessQuiet, QuietInv
  <2> QED
    BY <1>2, <2>1, <2>2, <2>3, StepKinds DEF Processes
<1> QED
  BY <1>1, <1>2

\* Inv, with the types, holds in every reachable state.
THEOREM InvHolds == Spec => [](TypeOK /\ Inv)
<1>1. Init => TypeOK /\ Inv
  BY InitType, InitInv
<1>2. TypeOK /\ Inv /\ [Next]_vars => TypeOK' /\ Inv'
  BY StepType, StepInv
<1> QED
  BY <1>1, <1>2, PTL DEF Spec

\* However cycles and recoveries overlap, no day is ever half predicted or a
\* mixture of two batches.
THEOREM DaysAreWhole == Spec => []DayIsWhole
<1>1. TypeOK /\ Inv => DayIsWhole
  BY DEF Inv
<1> QED
  BY <1>1, InvHolds, PTL

\* No day is predicted before its features exist.
THEOREM FeaturesComeFirst == Spec => []PredictionsRestOnFeatures
<1>1. TypeOK /\ Inv => PredictionsRestOnFeatures
  BY DEF Inv
<1> QED
  BY <1>1, InvHolds, PTL

\* A cycle that ends well and names the day of a batch leaves it predicted.
THEOREM CyclesTellTheTruth == Spec => []FinishedCyclesPredicted
<1>1. TypeOK /\ Inv => FinishedCyclesPredicted
  BY DEF Inv, RowsPredicted, FinishedCyclesPredicted
<1> QED
  BY <1>1, InvHolds, PTL

\* Only a commit publishes, and it fills days that had no prediction: a
\* published prediction is never replaced.
LEMMA StepFreezes ==
    TypeOK /\ Inv /\ [Next]_vars
        => \A k \in Committed : predictions'[k[1]][k[2]] = predictions[k[1]][k[2]]
<1> SUFFICES ASSUME TypeOK, Inv, [Next]_vars, NEW k \in Committed
             PROVE  predictions'[k[1]][k[2]] = predictions[k[1]][k[2]]
  OBVIOUS
<1>k. k[1] \in Days /\ k[2] \in Instruments /\ predictions[k[1]][k[2]] # 0
  BY DEF Committed, Keys
<1>1. CASE predictions' = predictions
  BY <1>1
<1>2. ASSUME NEW p \in Processes, CommitBatch(p)
      PROVE  predictions'[k[1]][k[2]] = predictions[k[1]][k[2]]
  BY <1>k, <1>2, CommitFills
<1>3. CASE UNCHANGED vars
  BY <1>1, <1>3 DEF vars
<1>4. CASE Next
  <2>1. CASE WorldStep
    BY <1>1, <2>1, WorldQuiet DEF Quiet
  <2>2. ASSUME NEW p \in Processes, Forward(p)
        PROVE  predictions' = predictions \/ CommitBatch(p)
    BY <2>2 DEF Forward, Market, Features, Decline, Begin, LookUp, Insert, Refused
  <2>3. ASSUME NEW p \in Processes, p \in Workers, CycleOnly(p)
        PROVE  predictions' = predictions
    BY <2>3, CycleQuiet DEF Quiet
  <2>4. ASSUME NEW p \in Processes, ProcessStep(p)
        PROVE  predictions' = predictions
    BY <2>4, ProcessQuiet DEF Quiet
  <2> QED
    BY <1>1, <1>2, <1>4, <2>1, <2>2, <2>3, <2>4, StepKinds DEF Processes
<1> QED
  BY <1>3, <1>4

\* A published prediction stays what it is, in every behaviour.
THEOREM PredictionsStay == Spec => PredictionsFrozen
<1>1. TypeOK /\ Inv /\ [Next]_vars
        => [\A k \in Committed : predictions'[k[1]][k[2]] = predictions[k[1]][k[2]]]_vars
  BY StepFreezes
<1> QED
  BY <1>1, InvHolds, PTL DEF Spec, PredictionsFrozen
=============================================================================
