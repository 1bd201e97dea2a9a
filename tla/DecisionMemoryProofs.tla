------------------------ MODULE DecisionMemoryProofs ------------------------
(***************************************************************************)
(* Proofs about DecisionMemory for any number of requests, records,        *)
(* horizons and days: types, one record per key, honest baselines, links   *)
(* in their window, and what overlapping refreshes may do to outcomes.     *)
(***************************************************************************)
EXTENDS DecisionMemory, FiniteSetTheorems, TLAPS

LEMMA ZeroDay == 0 \in Days
  BY MemoryAssumption DEF Days

LEMMA NoOutcomeType == NoOutcome \in OutcomeType /\ NoOutcomes \in [Rows -> OutcomeType]
  BY DEF NoOutcome, NoOutcomes, OutcomeType

LEMMA NoBaselineType == NoBaseline \in BaselineType
  BY ZeroDay DEF NoBaseline, BaselineType

LEMMA IdleType == Idle \in TaskType
<1>1. Idle.place \in Places /\ Idle.todo \in SUBSET Rows
  BY DEF Idle, Places
<1> QED
  BY <1>1, ZeroDay, NoOutcomeType, NoBaselineType DEF Idle, TaskType

LEMMA InitType == Init => TypeOK
  BY IdleType, NoOutcomeType, ZeroDay, MemoryAssumption
     DEF Init, TypeOK, NoQuote, NotEntered

\* A request that becomes a task keeps the types of the tasks.
LEMMA BecomesType ==
    ASSUME task \in [Requests -> TaskType], NEW r \in Requests,
           NEW t \in TaskType, Becomes(r, t)
    PROVE  task' \in [Requests -> TaskType]
  BY DEF Becomes

LEMMA TaskHas ==
    ASSUME NEW t \in TaskType
    PROVE  /\ t.place \in Places /\ t.key \in Keys \cup {None} /\ t.view \in Views \cup {None}
           /\ t.shown \in BOOLEAN /\ t.id \in Ids \cup {0} /\ t.at \in Days
           /\ t.base \in BaselineType /\ t.op \in Operations \cup {None}
           /\ t.todo \subseteq Rows /\ t.seen \in [Rows -> OutcomeType]
           /\ t.found \in [Rows -> OutcomeType]
  BY DEF TaskType

LEMMA GotoType ==
    ASSUME task \in [Requests -> TaskType], NEW r \in Requests,
           NEW place \in Places, Goto(r, place)
    PROVE  task' \in [Requests -> TaskType]
<1>1. [task[r] EXCEPT !.place = place] \in TaskType
  BY DEF TaskType
<1> QED
  BY <1>1, BecomesType DEF Goto

LEMMA TaskIs == ASSUME TypeOK, NEW r \in Requests PROVE task[r] \in TaskType
  BY DEF TypeOK

LEMMA ShownType ==
    ASSUME NEW t \in TaskType, NEW same \in BOOLEAN
    PROVE  [t EXCEPT !.place = "check", !.shown = same] \in TaskType
  BY DEF TaskType, Places

LEMMA TimedType ==
    ASSUME NEW t \in TaskType, NEW d \in Days
    PROVE  [t EXCEPT !.place = "insert", !.at = d] \in TaskType
  BY DEF TaskType, Places

LEMMA NumberedType ==
    ASSUME NEW t \in TaskType, NEW i \in Ids
    PROVE  [t EXCEPT !.place = "freeze", !.id = i] \in TaskType
  BY DEF TaskType, Places

LEMMA RecordHas ==
    ASSUME NEW x \in RecordType
    PROVE  /\ x.id \in Ids /\ x.key \in Keys /\ x.view \in Views /\ x.at \in Days
           /\ x.base \in BaselineType /\ x.base.session \in Days /\ x.base.observed \in Days
           /\ x.base.price \in Prices \cup {0}
  BY DEF RecordType, BaselineType

\* A baseline is well typed and was known at the time it is for.
LEMMA BaselinesKnown ==
    ASSUME TypeOK, NEW at \in Days, NEW b \in Baselines(at)
    PROVE  b \in BaselineType /\ b.observed <= at /\ b.session <= at
<1>1. CASE b \in QuoteBaselines(at)
  <2>1. /\ quote.date \in Days /\ quote.date <= at /\ quote.price \in Prices \cup {0}
        /\ b = [session |-> PriceSession(quote), observed |-> quote.date, price |-> quote.price]
        /\ quote.kind \in {"last", "previous"} /\ (quote.kind = "previous" => quote.date > 0)
    BY <1>1 DEF QuoteBaselines, TypeOK
  <2>2. PriceSession(quote) \in Days /\ PriceSession(quote) <= at
    BY <2>1, MemoryAssumption DEF PriceSession, Days
  <2> QED
    BY <2>1, <2>2 DEF BaselineType
<1>2. CASE b \in CloseBaselines(at)
  <2>1. PICK d \in Days : d <= at /\ b = [session |-> d, observed |-> d, price |-> closes[d]]
    BY <1>2 DEF CloseBaselines
  <2> QED
    BY <2>1 DEF BaselineType, TypeOK
<1>3. CASE b = NoBaseline
  BY <1>3, NoBaselineType, MemoryAssumption DEF NoBaseline, Days
<1> QED
  BY <1>1, <1>2, <1>3 DEF Baselines
-----------------------------------------------------------------------------
(* Types.  The number of a link is a natural because the links are finite. *)

\* What a request was asked stays with it: a capture its key and decision, a link its action and
\* operation.
Capturing == {"lookup", "check", "insert", "freeze", "commit"}
Linking == {"operation", "window", "insert_link"}

Asked(t) ==
    /\ t.place \in Capturing => t.key \in Keys /\ t.view \in Views
    /\ t.place \in Numbered => t.id \in Ids
    /\ t.place \in Linking => t.id \in Ids /\ t.op \in Operations

TInv == TypeOK /\ IsFiniteSet(links) /\ \A r \in Requests : Asked(task[r])

LEMMA WorldType == ASSUME TypeOK, World PROVE TypeOK'
<1> USE DEF TypeOK
<1>1. CASE NextDay
  BY <1>1, MemoryAssumption DEF NextDay, Days
<1>2. ASSUME NEW kind \in {"last", "previous"}, NEW p \in Prices, QuoteArrives(kind, p)
      PROVE  TypeOK'
  BY <1>2 DEF QuoteArrives
<1>3. ASSUME NEW d \in Days, NEW p \in Prices, CloseArrives(d, p)
      PROVE  TypeOK'
  BY <1>3 DEF CloseArrives
<1>4. ASSUME NEW o \in Operations, NEW d \in Days, Enter(o, d)
      PROVE  TypeOK'
  BY <1>4 DEF Enter
<1>5. ASSUME NEW o \in Operations, Cancel(o)
      PROVE  TypeOK'
  <2>1. [journal[o] EXCEPT !.status = "CANCELLED"] \in [status : {"none", "ACTIVE", "CANCELLED"}, at : Days]
    OBVIOUS
  <2> QED
    BY <1>5, <2>1 DEF Cancel
<1> QED
  BY <1>1, <1>2, <1>3, <1>4, <1>5 DEF World

LEMMA RestType ==
    ASSUME TypeOK, task' \in [Requests -> TaskType], UNCHANGED core,
           UNCHANGED <<records, outcomes, links, nextId, told>>
    PROVE  TypeOK'
  BY DEF TypeOK, core

LEMMA StartCaptureType ==
    ASSUME TypeOK, NEW r \in Requests, NEW k \in Keys, NEW v \in Views, StartCapture(r, k, v)
    PROVE  TypeOK'
<1> DEFINE t == [Idle EXCEPT !.place = "lookup", !.key = k, !.view = v]
<1>1. t \in TaskType
  BY IdleType DEF TaskType, Places
<1>2. Becomes(r, t)
  BY DEF StartCapture
<1> QED
  BY <1>1, <1>2, BecomesType, RestType DEF StartCapture, TypeOK

\* An answer names a record of the key.
LEMMA ReplayType ==
    ASSUME TypeOK, NEW r \in Requests, NEW x \in OfKey(task[r].key), ReplayOrConflict(r, x)
    PROVE  /\ task' \in [Requests -> TaskType]
           /\ told' \subseteq [key : Keys, view : Views, id : Ids]
<1>1. x \in RecordType /\ x.key \in Keys /\ x.view \in Views /\ x.id \in Ids
  BY RecordHas DEF OfKey, TypeOK
<1>2. task' \in [Requests -> TaskType]
  BY IdleType, BecomesType DEF ReplayOrConflict, TypeOK
<1> DEFINE answer == [key |-> x.key, view |-> task[r].view, id |-> x.id]
           Answers == [key : Keys, view : Views, id : Ids]
<1>3. told' = told \/ (x.view = task[r].view /\ told' = told \cup {answer})
  BY DEF ReplayOrConflict
<1>4. x.view = task[r].view => answer \in Answers
  BY <1>1
<1>5. told \subseteq Answers
  BY DEF TypeOK
<1> HIDE DEF answer, Answers
<1>6. told' \subseteq Answers
  BY <1>3, <1>4, <1>5
<1> QED
  BY <1>2, <1>6 DEF Answers

LEMMA FindType ==
    ASSUME TypeOK, NEW r \in Requests, FindExistingCapture(r)
    PROVE  TypeOK'
<1>1. CASE \E x \in OfKey(task[r].key) : ReplayOrConflict(r, x)
  BY <1>1, ReplayType DEF FindExistingCapture, Lookup, TypeOK, core
<1>2. ASSUME NEW same \in BOOLEAN, UNCHANGED told,
             Becomes(r, [task[r] EXCEPT !.place = "check", !.shown = same])
      PROVE  TypeOK'
  <2>1. [task[r] EXCEPT !.place = "check", !.shown = same] \in TaskType
    BY TaskIs, ShownType
  <2>2. task' \in [Requests -> TaskType]
    BY <1>2, <2>1, BecomesType DEF TypeOK
  <2> QED
    BY <1>2, <2>2, RestType DEF FindExistingCapture, Lookup
<1> QED
  BY <1>1, <1>2 DEF FindExistingCapture, Lookup

LEMMA CaptureType ==
    ASSUME TypeOK, NEW r \in Requests, CaptureDecision(r)
    PROVE  TypeOK'
<1>1. CASE \E x \in OfKey(task[r].key) : ReplayOrConflict(r, x)
  BY <1>1, ReplayType DEF CaptureDecision, Lookup, TypeOK, core
<1>2. ASSUME UNCHANGED told,
             \/ Becomes(r, [task[r] EXCEPT !.place = "insert", !.at = today])
             \/ Becomes(r, Idle)
      PROVE  TypeOK'
  <2>1. [task[r] EXCEPT !.place = "insert", !.at = today] \in TaskType
    BY TaskIs, TimedType DEF TypeOK
  <2>2. task' \in [Requests -> TaskType]
    BY <1>2, <2>1, IdleType, BecomesType DEF TypeOK
  <2> QED
    BY <1>2, <2>2, RestType DEF CaptureDecision, Lookup
<1> QED
  BY <1>1, <1>2 DEF CaptureDecision, Lookup

LEMMA InsertType ==
    ASSUME TypeOK, NEW r \in Requests, InsertRecord(r)
    PROVE  TypeOK'
<1>1. CASE /\ \E x \in OfKey(task[r].key) : ReplayOrConflict(r, x)
           /\ UNCHANGED nextId
  BY <1>1, ReplayType DEF InsertRecord, TypeOK, core
<1>2. ASSUME nextId \in Ids, nextId' = nextId + 1, UNCHANGED told,
             Becomes(r, [task[r] EXCEPT !.place = "freeze", !.id = nextId])
      PROVE  TypeOK'
  <2>1. [task[r] EXCEPT !.place = "freeze", !.id = nextId] \in TaskType
    BY <1>2, TaskIs, NumberedType
  <2>2. task' \in [Requests -> TaskType]
    BY <1>2, <2>1, BecomesType DEF TypeOK
  <2>3. nextId' \in 1..MaxRecords + 1
    BY <1>2, MemoryAssumption DEF Ids
  <2> QED
    BY <1>2, <2>2, <2>3 DEF InsertRecord, TypeOK, core
<1>3. CASE Becomes(r, Idle) /\ UNCHANGED <<nextId, told>>
  <2>1. task' \in [Requests -> TaskType]
    BY <1>3, IdleType, BecomesType DEF TypeOK
  <2> QED
    BY <1>3, <2>1, RestType DEF InsertRecord
<1> QED
  BY <1>1, <1>2, <1>3 DEF InsertRecord

LEMMA FreezeType ==
    ASSUME TypeOK, NEW r \in Requests, FreezeBaseline(r)
    PROVE  TypeOK'
<1>1. task[r] \in TaskType /\ task[r].at \in Days
  BY TaskHas DEF TypeOK
<1>2. PICK b \in Baselines(task[r].at) :
         Becomes(r, [task[r] EXCEPT !.place = "commit", !.base = b])
  BY DEF FreezeBaseline
<1>3. b \in BaselineType
  BY <1>1, BaselinesKnown
<1>4. [task[r] EXCEPT !.place = "commit", !.base = b] \in TaskType
  BY <1>1, <1>3 DEF TaskType, Places
<1>5. task' \in [Requests -> TaskType]
  BY <1>2, <1>4, BecomesType DEF TypeOK
<1> QED
  BY <1>5, RestType DEF FreezeBaseline

LEMMA FirstOutcomeType == ASSUME NEW b PROVE FirstOutcome(b) \in OutcomeType
  BY DEF FirstOutcome, OutcomeType

LEMMA CommitType ==
    ASSUME TypeOK, NEW r \in Requests, Asked(task[r]), CommitCapture(r)
    PROVE  TypeOK'
<1> DEFINE t == task[r]
           x == [id |-> t.id, key |-> t.key, view |-> t.view, at |-> t.at, base |-> t.base]
           answer == [key |-> t.key, view |-> t.view, id |-> t.id]
           Answers == [key : Keys, view : Views, id : Ids]
<1>1. t \in TaskType /\ t.at \in Days /\ t.base \in BaselineType
  BY TaskIs, TaskHas
<1>2. t.id \in Ids /\ t.key \in Keys /\ t.view \in Views
  BY DEF CommitCapture, At, Asked, Capturing, Numbered
<1>3. x \in RecordType /\ answer \in Answers
  BY <1>1, <1>2 DEF RecordType
<1>4. records' = records \cup {x} /\ told' = told \cup {answer}
  BY DEF CommitCapture
<1>5. outcomes' \in [Rows -> OutcomeType]
  BY FirstOutcomeType DEF CommitCapture, TypeOK
<1>6. task' \in [Requests -> TaskType]
  BY IdleType, BecomesType DEF CommitCapture, TypeOK
<1>7. records \subseteq RecordType /\ told \subseteq Answers
  BY DEF TypeOK
<1> HIDE DEF x, answer, Answers
<1>8. records' \subseteq RecordType /\ told' \subseteq Answers
  BY <1>3, <1>4, <1>7
<1> QED
  BY <1>5, <1>6, <1>8 DEF CommitCapture, TypeOK, core, Answers

LEMMA LoadedType ==
    ASSUME NEW todo \in SUBSET Rows, NEW seen \in [Rows -> OutcomeType]
    PROVE  [Idle EXCEPT !.place = "close", !.todo = todo, !.seen = seen] \in TaskType
  BY IdleType DEF TaskType, Places

LEMMA StartRefreshType ==
    ASSUME TypeOK, NEW r \in Requests, StartRefresh(r)
    PROVE  TypeOK'
<1> DEFINE seen == [row \in Rows |-> IF row \in Due THEN outcomes[row] ELSE NoOutcome]
<1>1. Due \in SUBSET Rows /\ seen \in [Rows -> OutcomeType]
  BY NoOutcomeType DEF Due, TypeOK
<1>2. Becomes(r, [Idle EXCEPT !.place = "close", !.todo = Due, !.seen = seen])
  BY DEF StartRefresh
<1> HIDE DEF seen
<1>3. task' \in [Requests -> TaskType]
  BY <1>1, <1>2, LoadedType, BecomesType DEF TypeOK
<1> QED
  BY <1>3, RestType DEF StartRefresh

LEMMA CloseType == ASSUME TypeOK, NEW d PROVE CloseOn(d) \in Prices \cup {0}
  BY DEF CloseOn, TypeOK

LEMMA MeasuredType ==
    ASSUME NEW old \in OutcomeType, NEW close \in Prices \cup {0}
    PROVE  Measured(old, close) \in OutcomeType
  BY DEF Measured, OutcomeType

LEMMA ObservedType ==
    ASSUME NEW t \in TaskType, NEW row \in Rows, NEW o \in OutcomeType
    PROVE  [t EXCEPT !.todo = @ \ {row}, !.found[row] = o,
                     !.place = IF t.todo = {row} THEN "flush" ELSE "close"] \in TaskType
<1>1. (t.todo \ {row}) \in SUBSET Rows
  BY TaskHas
<1>2. [t.found EXCEPT ![row] = o] \in [Rows -> OutcomeType]
  BY TaskHas
<1> QED
  BY <1>1, <1>2 DEF TaskType, Places

LEMMA ObserveType ==
    ASSUME TypeOK, NEW r \in Requests, NEW row \in Rows, ObserveClose(r, row)
    PROVE  TypeOK'
<1>1. PICK x \in {y \in records : y.id = row[1]} :
         Becomes(r, [task[r] EXCEPT
                       !.todo = @ \ {row},
                       !.found[row] = Measured(task[r].seen[row], CloseOn(Target(x, row[2]))),
                       !.place = IF task[r].todo = {row} THEN "flush" ELSE "close"])
  BY DEF ObserveClose
<1>2. task[r] \in TaskType /\ task[r].seen[row] \in OutcomeType
  BY TaskIs, TaskHas
<1> DEFINE o == Measured(task[r].seen[row], CloseOn(Target(x, row[2])))
<1>3. o \in OutcomeType
  BY <1>2, CloseType, MeasuredType
<1>4. Becomes(r, [task[r] EXCEPT !.todo = @ \ {row}, !.found[row] = o,
                      !.place = IF task[r].todo = {row} THEN "flush" ELSE "close"])
  BY <1>1
<1> HIDE DEF o
<1>5. task' \in [Requests -> TaskType]
  BY <1>2, <1>3, <1>4, ObservedType, BecomesType DEF TypeOK
<1> QED
  BY <1>5, RestType DEF ObserveClose

LEMMA UpdatedType ==
    ASSUME NEW now \in OutcomeType, NEW seen \in OutcomeType, NEW found \in OutcomeType
    PROVE  Updated(now, seen, found) \in OutcomeType
  BY DEF Updated, OutcomeType

LEMMA FlushType ==
    ASSUME TypeOK, NEW r \in Requests, FlushOutcomes(r)
    PROVE  TypeOK'
<1>1. task[r].seen \in [Rows -> OutcomeType] /\ task[r].found \in [Rows -> OutcomeType]
  BY TaskIs, TaskHas
<1>2. outcomes' \in [Rows -> OutcomeType]
  <2>1. ASSUME NEW row \in Rows
        PROVE  (IF task[r].found[row] = NoOutcome THEN outcomes[row]
                ELSE Updated(outcomes[row], task[r].seen[row], task[r].found[row])) \in OutcomeType
    BY <1>1, UpdatedType DEF TypeOK
  <2> QED
    BY <2>1 DEF FlushOutcomes
<1>3. task' \in [Requests -> TaskType]
  BY IdleType, BecomesType DEF FlushOutcomes, TypeOK
<1> QED
  BY <1>2, <1>3 DEF FlushOutcomes, TypeOK, core

LEMMA LinkTaskType ==
    ASSUME NEW i \in Ids, NEW d \in Days, NEW o \in Operations
    PROVE  [Idle EXCEPT !.place = "operation", !.id = i, !.at = d, !.op = o] \in TaskType
  BY IdleType DEF TaskType, Places

LEMMA StartLinkType ==
    ASSUME TypeOK, NEW r \in Requests, NEW x \in records, NEW o \in Operations, StartLink(r, x, o)
    PROVE  TypeOK'
<1>1. x.id \in Ids /\ today \in Days
  BY RecordHas DEF TypeOK
<1>2. task' \in [Requests -> TaskType]
  BY <1>1, LinkTaskType, BecomesType DEF StartLink, TypeOK
<1> QED
  BY <1>2, RestType DEF StartLink

LEMMA LoadType == ASSUME TypeOK, NEW r \in Requests, LoadOperation(r) PROVE TypeOK'
<1>1. Goto(r, "window") \/ Becomes(r, Idle)
  BY DEF LoadOperation
<1>2. task' \in [Requests -> TaskType]
  BY <1>1, IdleType, BecomesType, GotoType DEF TypeOK, Places
<1> QED
  BY <1>2, RestType DEF LoadOperation

LEMMA CheckType == ASSUME TypeOK, NEW r \in Requests, CheckWindow(r) PROVE TypeOK'
<1>1. Goto(r, "insert_link") \/ Becomes(r, Idle)
  BY DEF CheckWindow
<1>2. task' \in [Requests -> TaskType]
  BY <1>1, IdleType, BecomesType, GotoType DEF TypeOK, Places
<1> QED
  BY <1>2, RestType DEF CheckWindow

LEMMA NewLinkType ==
    ASSUME TypeOK, IsFiniteSet(links), NEW r \in Requests, Asked(task[r]), At(r, "insert_link")
    PROVE  NewLink(r) \in LinkType
<1>1. Cardinality(links) + 1 \in Nat
  BY FS_CardinalityType
<1>2. task[r].id \in Ids /\ task[r].op \in Operations /\ task[r].at \in Days
  BY TaskIs, TaskHas DEF Asked, Linking, At
<1> QED
  BY <1>1, <1>2 DEF NewLink, LinkType

LEMMA ConfirmType ==
    ASSUME TypeOK, IsFiniteSet(links), NEW r \in Requests, Asked(task[r]), ConfirmLink(r)
    PROVE  TypeOK' /\ IsFiniteSet(links')
<1>1. task' \in [Requests -> TaskType]
  BY IdleType, BecomesType DEF ConfirmLink, TypeOK
<1>2. NewLink(r) \in LinkType
  BY NewLinkType DEF ConfirmLink
<1>3. links' = links \/ links' = links \cup {NewLink(r)}
  BY DEF ConfirmLink
<1>4. links' \subseteq LinkType
  BY <1>2, <1>3 DEF TypeOK
<1>5. IsFiniteSet(links')
  BY <1>3, FS_AddElement
<1> QED
  BY <1>1, <1>4, <1>5 DEF ConfirmLink, TypeOK, core

LEMMA UnlinkType ==
    ASSUME TypeOK, IsFiniteSet(links), NEW l \in links, Unlink(l)
    PROVE  TypeOK' /\ IsFiniteSet(links')
<1> DEFINE m == [l EXCEPT !.active = FALSE]
<1>1. m \in LinkType
  BY DEF TypeOK, LinkType
<1>2. links' = (links \ {l}) \cup {m}
  BY DEF Unlink
<1> HIDE DEF m
<1>3. links' \subseteq LinkType
  BY <1>1, <1>2 DEF TypeOK
<1>4. IsFiniteSet(links')
  BY <1>2, FS_RemoveElement, FS_AddElement
<1> QED
  BY <1>3, <1>4 DEF Unlink, TypeOK, core

LEMMA CrashType == ASSUME TypeOK, NEW r \in Requests, Crash(r) PROVE TypeOK'
<1>1. task' \in [Requests -> TaskType]
  BY IdleType, BecomesType DEF Crash, TypeOK
<1> QED
  BY <1>1, RestType DEF Crash

\* What the requests are asked survives a step of one of them.
LEMMA AskedStep ==
    ASSUME TypeOK, \A q \in Requests : Asked(task[q]), NEW r \in Requests,
           NEW t, Becomes(r, t), Asked(t)
    PROVE  \A q \in Requests : Asked(task[q])'
<1> SUFFICES ASSUME NEW q \in Requests PROVE Asked(task'[q])
  BY DEF Asked
<1>1. task' = [task EXCEPT ![r] = t] /\ DOMAIN task = Requests
  BY DEF Becomes, TypeOK
<1> QED
  BY <1>1

LEMMA AskedIdle == Asked(Idle)
  BY DEF Asked, Idle, Capturing, Linking, Numbered

\* The place of a request, and what it was asked, in the task it becomes.
LEMMA StepAsked ==
    ASSUME TypeOK, \A q \in Requests : Asked(task[q]), NEW r \in Requests, Step(r)
    PROVE  \A q \in Requests : Asked(task[q])'
<1> DEFINE t == task[r]
<1>1. t \in TaskType /\ Asked(t)
  BY TaskIs
<1> USE DEF Asked, Capturing, Linking, Numbered, At
<1>2. CASE \E x : ReplayOrConflict(r, x)
  BY <1>2, AskedIdle, AskedStep DEF ReplayOrConflict
<1>3. CASE Becomes(r, Idle)
  BY <1>3, AskedIdle, AskedStep
<1>4. CASE FindExistingCapture(r)
  <2>1. ASSUME NEW same \in BOOLEAN, Becomes(r, [t EXCEPT !.place = "check", !.shown = same])
        PROVE  \A q \in Requests : Asked(task[q])'
    <3>1. Asked([t EXCEPT !.place = "check", !.shown = same])
      BY <1>1, <1>4 DEF TaskType, FindExistingCapture, Lookup
    <3> QED
      BY <2>1, <3>1, AskedStep
  <2> QED
    BY <1>2, <1>4, <2>1 DEF FindExistingCapture, Lookup
<1>5. CASE CaptureDecision(r)
  <2>1. CASE Becomes(r, [t EXCEPT !.place = "insert", !.at = today])
    <3>1. Asked([t EXCEPT !.place = "insert", !.at = today])
      BY <1>1, <1>5 DEF TaskType, CaptureDecision, Lookup
    <3> QED
      BY <2>1, <3>1, AskedStep
  <2> QED
    BY <1>2, <1>3, <1>5, <2>1 DEF CaptureDecision, Lookup
<1>6. CASE InsertRecord(r)
  <2>1. CASE nextId \in Ids /\ Becomes(r, [t EXCEPT !.place = "freeze", !.id = nextId])
    <3>1. Asked([t EXCEPT !.place = "freeze", !.id = nextId])
      BY <1>1, <1>6, <2>1 DEF TaskType, InsertRecord
    <3> QED
      BY <2>1, <3>1, AskedStep
  <2> QED
    BY <1>2, <1>3, <1>6, <2>1 DEF InsertRecord
<1>7. CASE FreezeBaseline(r)
  <2>1. PICK b : Becomes(r, [t EXCEPT !.place = "commit", !.base = b])
    BY <1>7 DEF FreezeBaseline
  <2>2. Asked([t EXCEPT !.place = "commit", !.base = b])
    BY <1>1, <1>7 DEF TaskType, FreezeBaseline
  <2> QED
    BY <2>1, <2>2, AskedStep
<1>8. CASE CommitCapture(r) \/ FlushOutcomes(r) \/ ConfirmLink(r)
  BY <1>3, <1>8 DEF CommitCapture, FlushOutcomes, ConfirmLink
<1>9. ASSUME NEW row \in Rows, ObserveClose(r, row)
      PROVE  \A q \in Requests : Asked(task[q])'
  <2>1. PICK o : Becomes(r, [t EXCEPT !.todo = @ \ {row}, !.found[row] = o,
                                !.place = IF t.todo = {row} THEN "flush" ELSE "close"])
    BY <1>9 DEF ObserveClose
  <2>2. Asked([t EXCEPT !.todo = @ \ {row}, !.found[row] = o,
                        !.place = IF t.todo = {row} THEN "flush" ELSE "close"])
    BY <1>1 DEF TaskType
  <2> QED
    BY <2>1, <2>2, AskedStep
<1>10. CASE LoadOperation(r) \/ CheckWindow(r)
  <2>1. ASSUME NEW place \in {"window", "insert_link"}, Goto(r, place)
        PROVE  \A q \in Requests : Asked(task[q])'
    <3>1. Asked([t EXCEPT !.place = place])
      BY <1>1, <1>10 DEF TaskType, LoadOperation, CheckWindow
    <3> QED
      BY <2>1, <3>1, AskedStep DEF Goto
  <2> QED
    BY <1>3, <1>10, <2>1 DEF LoadOperation, CheckWindow
<1> QED
  BY <1>4, <1>5, <1>6, <1>7, <1>8, <1>9, <1>10 DEF Step

LEMMA RequestAsked ==
    ASSUME TypeOK, \A q \in Requests : Asked(task[q]), NEW r \in Requests,
           Request(r) \/ Crash(r)
    PROVE  \A q \in Requests : Asked(task[q])'
<1> USE DEF Asked, Capturing, Linking, Numbered
<1>1. CASE Crash(r)
  BY <1>1, AskedIdle, AskedStep DEF Crash
<1>2. ASSUME NEW k \in Keys, NEW v \in Views, StartCapture(r, k, v)
      PROVE  \A q \in Requests : Asked(task[q])'
  <2>1. Asked([Idle EXCEPT !.place = "lookup", !.key = k, !.view = v])
    BY IdleType DEF Idle
  <2> QED
    BY <1>2, <2>1, AskedStep DEF StartCapture
<1>3. CASE StartRefresh(r)
  <2>1. PICK seen : Becomes(r, [Idle EXCEPT !.place = "close", !.todo = Due, !.seen = seen])
    BY <1>3 DEF StartRefresh
  <2>2. Asked([Idle EXCEPT !.place = "close", !.todo = Due, !.seen = seen])
    BY DEF Idle
  <2> QED
    BY <2>1, <2>2, AskedStep
<1>4. ASSUME NEW x \in records, NEW o \in Operations, StartLink(r, x, o)
      PROVE  \A q \in Requests : Asked(task[q])'
  <2>1. x.id \in Ids
    BY RecordHas DEF TypeOK
  <2>2. Asked([Idle EXCEPT !.place = "operation", !.id = x.id, !.at = today, !.op = o])
    BY <2>1 DEF Idle
  <2> QED
    BY <1>4, <2>2, AskedStep DEF StartLink
<1> QED
  BY <1>1, <1>2, <1>3, <1>4 DEF Request

LEMMA AskedSame ==
    ASSUME \A q \in Requests : Asked(task[q]), UNCHANGED task
    PROVE  \A q \in Requests : Asked(task[q])'
  BY DEF Asked

LEMMA StepType ==
    ASSUME TInv, NEW r \in Requests, Step(r)
    PROVE  TypeOK' /\ IsFiniteSet(links')
<1> USE DEF TInv
<1>1. CASE ConfirmLink(r)
  BY <1>1, ConfirmType
<1>2. CASE ~ConfirmLink(r)
  <2>1. UNCHANGED links
    BY <1>2 DEF Step, FindExistingCapture, CaptureDecision, Lookup, InsertRecord, FreezeBaseline,
                CommitCapture, ObserveClose, FlushOutcomes, LoadOperation, CheckWindow, core
  <2> QED
    BY <1>2, <2>1, FindType, CaptureType, InsertType, FreezeType, CommitType, ObserveType,
       FlushType, LoadType, CheckType DEF Step
<1> QED
  BY <1>1, <1>2

LEMMA TypeNext == ASSUME TInv, [Next]_vars PROVE TInv'
<1>1. CASE World
  <2>1. UNCHANGED <<links, task>>
    BY <1>1 DEF World, NextDay, QuoteArrives, CloseArrives, Enter, Cancel
  <2> QED
    BY <1>1, <2>1, WorldType, AskedSame DEF TInv
<1>2. ASSUME NEW l \in links, Unlink(l)
      PROVE  TInv'
  BY <1>2, UnlinkType, AskedSame DEF TInv, Unlink
<1>3. ASSUME NEW r \in Requests, Request(r)
      PROVE  TInv'
  <2>1. UNCHANGED links
    BY <1>3 DEF Request, StartCapture, StartRefresh, StartLink
  <2>2. TypeOK'
    BY <1>3, StartCaptureType, StartRefreshType, StartLinkType DEF Request, TInv
  <2> QED
    BY <1>3, <2>1, <2>2, RequestAsked DEF TInv
<1>4. ASSUME NEW r \in Requests, Step(r)
      PROVE  TInv'
  BY <1>4, StepType, StepAsked DEF TInv
<1>5. ASSUME NEW r \in Requests, Crash(r)
      PROVE  TInv'
  BY <1>5, CrashType, RequestAsked DEF TInv, Crash
<1>6. CASE UNCHANGED vars
  BY <1>6, AskedSame DEF vars, core, TInv, TypeOK
<1> QED
  BY <1>1, <1>2, <1>3, <1>4, <1>5, <1>6 DEF Next

LEMMA TypeInvariant == Spec => []TInv
<1>1. Init => TInv
  BY InitType, AskedIdle, FS_EmptySet DEF Init, TInv
<1>2. TInv /\ [Next]_vars => TInv'
  BY TypeNext
<1> QED
  BY <1>1, <1>2, PTL DEF Spec

\* Every reachable state is well typed, whatever the bounds (DecisionMemory).
THEOREM TypeCorrect == Spec => []TypeOK
<1>1. TInv => TypeOK
  BY DEF TInv
<1> QED
  BY <1>1, TypeInvariant, PTL
-----------------------------------------------------------------------------
(* One record per key.  A request that has inserted its record and not yet *)
(* committed it owns its id and its key.                                   *)

Owns(q) == At(q, "freeze") \/ At(q, "commit")

OwnsKey ==
    \A q \in Requests : Owns(q) =>
        /\ task[q].id < nextId
        /\ \A x \in records : x.id # task[q].id /\ x.key # task[q].key
        /\ \A p \in Requests \ {q} : Owns(p) =>
               task[p].id # task[q].id /\ task[p].key # task[q].key

RecordsApart ==
    /\ \A x \in records : x.id < nextId
    /\ \A x, y \in records : x.id = y.id \/ x.key = y.key => x = y

Answered(a) == \E x \in records : x.id = a.id /\ x.key = a.key /\ x.view = a.view

KInv == OwnsKey /\ RecordsApart /\ \A a \in told : Answered(a)

\* A request that owns nothing after its step leaves the keys as they are.
LEMMA KeysStay ==
    ASSUME TInv, KInv, NEW r \in Requests, NEW t, Becomes(r, t), t.place \notin Numbered,
           UNCHANGED <<records, nextId, told>>
    PROVE  KInv'
<1>1. /\ \A q \in Requests \ {r} : task'[q] = task[q]
      /\ task'[r] = t
  BY DEF Becomes, TInv, TypeOK
<1>2. OwnsKey'
  BY <1>1 DEF KInv, OwnsKey, Owns, At, Numbered
<1>3. RecordsApart' /\ \A a \in told' : Answered(a)'
  BY DEF KInv, RecordsApart, Answered
<1> QED
  BY <1>2, <1>3 DEF KInv

LEMMA ReplayKeys ==
    ASSUME TInv, KInv, NEW r \in Requests, NEW x \in OfKey(task[r].key), ReplayOrConflict(r, x),
           UNCHANGED <<records, nextId>>
    PROVE  KInv'
<1> DEFINE answer == [key |-> x.key, view |-> task[r].view, id |-> x.id]
<1>1. /\ \A q \in Requests \ {r} : task'[q] = task[q]
      /\ task'[r].place = "idle"
  BY DEF ReplayOrConflict, Becomes, TInv, TypeOK, Idle
<1>2. OwnsKey'
  BY <1>1 DEF KInv, OwnsKey, Owns, At
<1>3. told' = told \/ (x.view = task[r].view /\ told' = told \cup {answer})
  BY DEF ReplayOrConflict
<1>4. x.view = task[r].view => Answered(answer)
  BY DEF OfKey, Answered
<1> HIDE DEF answer
<1>5. \A a \in told' : Answered(a)
  BY <1>3, <1>4 DEF KInv
<1>6. RecordsApart' /\ \A a \in told' : Answered(a)'
  BY <1>5 DEF KInv, RecordsApart, Answered
<1> QED
  BY <1>2, <1>6 DEF KInv

LEMMA InsertKeys ==
    ASSUME TInv, KInv, NEW r \in Requests, InsertRecord(r)
    PROVE  KInv'
<1>1. CASE (\E x \in OfKey(task[r].key) : ReplayOrConflict(r, x)) /\ UNCHANGED nextId
  BY <1>1, ReplayKeys DEF InsertRecord
<1>2. CASE Becomes(r, Idle) /\ UNCHANGED <<nextId, told>>
  <2>1. Idle.place \notin Numbered
    BY DEF Idle, Numbered
  <2> QED
    BY <1>2, <2>1, KeysStay DEF InsertRecord
<1>3. CASE /\ OfKey(task[r].key) = {} /\ nextId \in Ids
           /\ Becomes(r, [task[r] EXCEPT !.place = "freeze", !.id = nextId])
           /\ nextId' = nextId + 1
           /\ UNCHANGED told
  <2> DEFINE t == [task[r] EXCEPT !.place = "freeze", !.id = nextId]
  <2>1. /\ \A q \in Requests \ {r} : task'[q] = task[q]
        /\ task'[r].key = task[r].key /\ task'[r].id = nextId
    BY <1>3, TaskIs DEF Becomes, TInv, TypeOK, TaskType
  <2>2. \A x \in records : x.key # task[r].key
    BY <1>3 DEF OfKey
  <2>3. \A q \in Requests \ {r} : Owns(q) => task[q].key # task[r].key
    BY DEF InsertRecord, KeyIsHeld, Owns, At, Numbered
  <2>4. nextId \in Nat /\ UNCHANGED records
    BY <1>3, MemoryAssumption DEF Ids, InsertRecord
  <2>5. /\ \A x \in records : x.id \in Nat
        /\ \A q \in Requests : task[q].id \in Nat
    BY RecordHas, TaskIs, TaskHas, MemoryAssumption DEF TInv, TypeOK, Ids
  <2>6. OwnsKey'
    <3> SUFFICES ASSUME NEW q \in Requests, Owns(q)'
                 PROVE  /\ task'[q].id < nextId'
                        /\ \A x \in records : x.id # task'[q].id /\ x.key # task'[q].key
                        /\ \A p \in Requests \ {q} : Owns(p)' =>
                               task'[p].id # task'[q].id /\ task'[p].key # task'[q].key
      BY <2>4 DEF OwnsKey
    <3>1. \A p \in Requests \ {r} : Owns(p)' => Owns(p) /\ task[p].id < nextId
      BY <2>1 DEF Owns, At, KInv, OwnsKey
    <3>2. CASE q = r
      BY <1>3, <2>1, <2>2, <2>3, <2>4, <2>5, <3>1, <3>2 DEF KInv, RecordsApart
    <3>3. CASE q # r
      BY <1>3, <2>1, <2>3, <2>4, <2>5, <3>1, <3>3 DEF KInv, OwnsKey
    <3> QED
      BY <3>2, <3>3
  <2>7. RecordsApart'
    BY <1>3, <2>4, <2>5 DEF KInv, RecordsApart
  <2>8. \A a \in told' : Answered(a)'
    BY <1>3, <2>4 DEF KInv, Answered
  <2> QED
    BY <2>6, <2>7, <2>8 DEF KInv
<1> QED
  BY <1>1, <1>2, <1>3 DEF InsertRecord

LEMMA FreezeKeys ==
    ASSUME TInv, KInv, NEW r \in Requests, FreezeBaseline(r)
    PROVE  KInv'
<1>1. PICK b : Becomes(r, [task[r] EXCEPT !.place = "commit", !.base = b])
  BY DEF FreezeBaseline
<1>2. /\ \A q \in Requests : task'[q].key = task[q].key /\ task'[q].id = task[q].id
      /\ \A q \in Requests \ {r} : task'[q] = task[q]
  BY <1>1, TaskIs DEF Becomes, TInv, TypeOK, TaskType
<1>3. \A q \in Requests : Owns(q)' => Owns(q)
  BY <1>2 DEF Owns, At, FreezeBaseline
<1>4. OwnsKey'
  BY <1>2, <1>3 DEF FreezeBaseline, KInv, OwnsKey
<1>5. RecordsApart' /\ \A a \in told' : Answered(a)'
  BY DEF FreezeBaseline, KInv, RecordsApart, Answered
<1> QED
  BY <1>4, <1>5 DEF KInv

LEMMA CommitKeys ==
    ASSUME TInv, KInv, NEW r \in Requests, CommitCapture(r)
    PROVE  KInv'
<1> DEFINE t == task[r]
           x == [id |-> t.id, key |-> t.key, view |-> t.view, at |-> t.at, base |-> t.base]
           answer == [key |-> t.key, view |-> t.view, id |-> t.id]
<1>1. records' = records \cup {x} /\ told' = told \cup {answer} /\ UNCHANGED nextId
  BY DEF CommitCapture
<1>2. /\ \A q \in Requests \ {r} : task'[q] = task[q]
      /\ task'[r].place = "idle"
  BY DEF CommitCapture, Becomes, TInv, TypeOK, Idle
<1>3. Owns(r)
  BY DEF CommitCapture, Owns
<1>4. x.id = t.id /\ x.key = t.key /\ x.view = t.view /\ answer.id = t.id /\ answer.key = t.key
      /\ answer.view = t.view
  OBVIOUS
<1> HIDE DEF x, answer
<1>5. OwnsKey'
  BY <1>1, <1>2, <1>3, <1>4 DEF KInv, OwnsKey, Owns, At
<1>6. RecordsApart'
  BY <1>1, <1>3, <1>4 DEF KInv, OwnsKey, RecordsApart
<1>7. \A a \in told' : Answered(a)'
  BY <1>1, <1>4 DEF KInv, Answered
<1> QED
  BY <1>5, <1>6, <1>7 DEF KInv

LEMMA StepKeys == ASSUME TInv, KInv, NEW r \in Requests, Step(r) PROVE KInv'
<1>1. Idle.place \notin Numbered
  BY DEF Idle, Numbered
<1>2. task[r] \in TaskType
  BY TaskIs DEF TInv
<1>3. CASE FindExistingCapture(r)
  <2>1. ASSUME NEW same \in BOOLEAN
        PROVE  [task[r] EXCEPT !.place = "check", !.shown = same].place \notin Numbered
    BY <1>2 DEF TaskType, Numbered
  <2> QED
    BY <1>3, <2>1, ReplayKeys, KeysStay DEF FindExistingCapture, Lookup
<1>4. CASE CaptureDecision(r)
  <2>1. [task[r] EXCEPT !.place = "insert", !.at = today].place \notin Numbered
    BY <1>2 DEF TaskType, Numbered
  <2> QED
    BY <1>1, <1>4, <2>1, ReplayKeys, KeysStay DEF CaptureDecision, Lookup
<1>5. ASSUME NEW row \in Rows, ObserveClose(r, row)
      PROVE  KInv'
  <2>1. PICK o : Becomes(r, [task[r] EXCEPT !.todo = @ \ {row}, !.found[row] = o,
                                !.place = IF task[r].todo = {row} THEN "flush" ELSE "close"])
    BY <1>5 DEF ObserveClose
  <2>2. [task[r] EXCEPT !.todo = @ \ {row}, !.found[row] = o,
                        !.place = IF task[r].todo = {row} THEN "flush" ELSE "close"].place
            \notin Numbered
    BY <1>2 DEF TaskType, Numbered
  <2> QED
    BY <1>5, <2>1, <2>2, KeysStay DEF ObserveClose
<1>6. CASE FlushOutcomes(r) \/ ConfirmLink(r)
  BY <1>1, <1>6, KeysStay DEF FlushOutcomes, ConfirmLink
<1>7. CASE LoadOperation(r) \/ CheckWindow(r)
  <2>1. ASSUME NEW place \in {"window", "insert_link"}
        PROVE  [task[r] EXCEPT !.place = place].place \notin Numbered
    BY <1>2 DEF TaskType, Numbered
  <2> QED
    BY <1>1, <1>7, <2>1, KeysStay DEF LoadOperation, CheckWindow, Goto
<1> QED
  BY <1>3, <1>4, <1>5, <1>6, <1>7, InsertKeys, FreezeKeys, CommitKeys DEF Step

LEMMA RequestKeys ==
    ASSUME TInv, KInv, NEW r \in Requests, Request(r) \/ Crash(r)
    PROVE  KInv'
<1>1. Idle \in TaskType /\ Idle.place \notin Numbered
  BY IdleType DEF Idle, Numbered
<1>2. CASE Crash(r)
  BY <1>1, <1>2, KeysStay DEF Crash
<1>3. ASSUME NEW k \in Keys, NEW v \in Views, StartCapture(r, k, v)
      PROVE  KInv'
  <2>1. [Idle EXCEPT !.place = "lookup", !.key = k, !.view = v].place \notin Numbered
    BY DEF Idle, Numbered
  <2> QED
    BY <1>3, <2>1, KeysStay DEF StartCapture
<1>4. CASE StartRefresh(r)
  <2>1. PICK seen : Becomes(r, [Idle EXCEPT !.place = "close", !.todo = Due, !.seen = seen])
    BY <1>4 DEF StartRefresh
  <2>2. [Idle EXCEPT !.place = "close", !.todo = Due, !.seen = seen].place \notin Numbered
    BY DEF Idle, Numbered
  <2> QED
    BY <1>4, <2>1, <2>2, KeysStay DEF StartRefresh
<1>5. ASSUME NEW x \in records, NEW o \in Operations, StartLink(r, x, o)
      PROVE  KInv'
  <2>1. [Idle EXCEPT !.place = "operation", !.id = x.id, !.at = today, !.op = o].place \notin Numbered
    BY DEF Idle, Numbered
  <2> QED
    BY <1>5, <2>1, KeysStay DEF StartLink
<1> QED
  BY <1>2, <1>3, <1>4, <1>5 DEF Request

LEMMA KeysNext == ASSUME TInv, KInv, [Next]_vars PROVE KInv'
<1>1. ASSUME UNCHANGED <<records, nextId, task, told>> PROVE KInv'
  BY <1>1 DEF KInv, OwnsKey, Owns, At, RecordsApart, Answered
<1>2. CASE World
  BY <1>1, <1>2 DEF World, NextDay, QuoteArrives, CloseArrives, Enter, Cancel
<1>3. CASE \E l \in links : Unlink(l)
  BY <1>1, <1>3 DEF Unlink
<1>4. CASE UNCHANGED vars
  BY <1>1, <1>4 DEF vars
<1> QED
  BY <1>2, <1>3, <1>4, StepKeys, RequestKeys DEF Next

LEMMA KeysInvariant == Spec => []KInv
<1>1. Init => KInv
  BY DEF Init, KInv, OwnsKey, Owns, At, RecordsApart, Idle
<1>2. TInv /\ KInv /\ [Next]_vars => KInv'
  BY KeysNext
<1> QED
  BY <1>1, <1>2, TypeInvariant, PTL DEF Spec

\* However many captures overlap, are repeated or die, a key has one record, and every answer
\* shows it (capture_decision and the unique index).
THEOREM OneRecordAlways == Spec => []OneRecordPerKey
<1>1. KInv => OneRecordPerKey
  BY DEF KInv, RecordsApart, Answered, OneRecordPerKey
<1> QED
  BY <1>1, KeysInvariant, PTL
-----------------------------------------------------------------------------
(* Where a request is after its step, and which step brought it there.     *)

Arrived(r) ==
    /\ task'[r].place = "freeze" => InsertRecord(r)
    /\ task'[r].place = "commit" => FreezeBaseline(r)
    /\ task'[r].place \in {"close", "flush"} => \E row \in Rows : ObserveClose(r, row)
    /\ task'[r].place = "window" => LoadOperation(r)
    /\ task'[r].place = "insert_link" => CheckWindow(r)

LEMMA StepArrives == ASSUME TInv, NEW r \in Requests, Step(r) PROVE Arrived(r)
<1>1. task[r] \in TaskType /\ DOMAIN task = Requests
  BY TaskIs DEF TInv, TypeOK
<1>2. ASSUME NEW t, Becomes(r, t) PROVE task'[r] = t
  BY <1>1, <1>2 DEF Becomes
<1>3. CASE (\E x : ReplayOrConflict(r, x)) \/ Becomes(r, Idle)
  <2>1. task'[r].place = "idle"
    BY <1>2, <1>3 DEF ReplayOrConflict, Idle
  <2> QED
    BY <2>1 DEF Arrived
<1>4. CASE FindExistingCapture(r)
  <2>1. ASSUME NEW same, Becomes(r, [task[r] EXCEPT !.place = "check", !.shown = same])
        PROVE  task'[r].place = "check"
    BY <1>1, <1>2, <2>1 DEF TaskType
  <2> QED
    BY <1>3, <1>4, <2>1 DEF FindExistingCapture, Lookup, Arrived
<1>5. CASE CaptureDecision(r)
  <2>1. ASSUME Becomes(r, [task[r] EXCEPT !.place = "insert", !.at = today])
        PROVE  task'[r].place = "insert"
    BY <1>1, <1>2, <2>1 DEF TaskType
  <2> QED
    BY <1>3, <1>5, <2>1 DEF CaptureDecision, Lookup, Arrived
<1>6. CASE InsertRecord(r)
  <2>1. ASSUME Becomes(r, [task[r] EXCEPT !.place = "freeze", !.id = nextId])
        PROVE  task'[r].place = "freeze"
    BY <1>1, <1>2, <2>1 DEF TaskType
  <2> QED
    BY <1>3, <1>6, <2>1 DEF InsertRecord, Arrived
<1>7. CASE FreezeBaseline(r)
  <2>1. ASSUME NEW b, Becomes(r, [task[r] EXCEPT !.place = "commit", !.base = b])
        PROVE  task'[r].place = "commit"
    BY <1>1, <1>2, <2>1 DEF TaskType
  <2> QED
    BY <1>7, <2>1 DEF FreezeBaseline, Arrived
<1>8. ASSUME NEW row \in Rows, ObserveClose(r, row)
      PROVE  Arrived(r)
  <2>1. PICK o : Becomes(r, [task[r] EXCEPT !.todo = @ \ {row}, !.found[row] = o,
                                !.place = IF task[r].todo = {row} THEN "flush" ELSE "close"])
    BY <1>8 DEF ObserveClose
  <2>2. task'[r].place \in {"flush", "close"}
    BY <1>1, <1>2, <2>1 DEF TaskType
  <2> QED
    BY <1>8, <2>2 DEF Arrived
<1>9. CASE LoadOperation(r) \/ CheckWindow(r)
  <2>1. ASSUME NEW place, Goto(r, place)
        PROVE  task'[r].place = place
    BY <1>1, <1>2, <2>1 DEF TaskType, Goto
  <2> QED
    BY <1>3, <1>9, <2>1 DEF LoadOperation, CheckWindow, Arrived
<1> QED
  BY <1>3, <1>4, <1>5, <1>6, <1>7, <1>8, <1>9 DEF Step, CommitCapture, FlushOutcomes, ConfirmLink

LEMMA StepAlone ==
    ASSUME TInv, NEW r \in Requests, Step(r) \/ Request(r) \/ Crash(r)
    PROVE  \A q \in Requests \ {r} : task'[q] = task[q]
<1>1. \E t : Becomes(r, t)
  BY DEF Step, Request, Crash, FindExistingCapture, CaptureDecision, Lookup, ReplayOrConflict,
         InsertRecord, FreezeBaseline, CommitCapture, ObserveClose, FlushOutcomes, LoadOperation,
         CheckWindow, ConfirmLink, Goto, StartCapture, StartRefresh, StartLink
<1> QED
  BY <1>1 DEF Becomes, TInv, TypeOK

LEMMA RequestArrives ==
    ASSUME TInv, NEW r \in Requests, Request(r) \/ Crash(r)
    PROVE  /\ task'[r].place \in {"idle", "lookup", "close", "operation"}
           /\ task'[r].place = "close" => StartRefresh(r)
<1>1. ASSUME NEW t, Becomes(r, t) PROVE task'[r] = t
  BY <1>1 DEF Becomes, TInv, TypeOK
<1>2. ASSUME Crash(r) PROVE task'[r].place = "idle"
  BY <1>1, <1>2 DEF Crash, Idle
<1>3. ASSUME NEW k, NEW v, StartCapture(r, k, v) PROVE task'[r].place = "lookup"
  BY <1>1, <1>3 DEF StartCapture, Idle
<1>4. ASSUME StartRefresh(r) PROVE task'[r].place = "close"
  <2>1. PICK seen : Becomes(r, [Idle EXCEPT !.place = "close", !.todo = Due, !.seen = seen])
    BY <1>4 DEF StartRefresh
  <2> QED
    BY <1>1, <2>1 DEF Idle
<1>5. ASSUME NEW x, NEW o, StartLink(r, x, o) PROVE task'[r].place = "operation"
  BY <1>1, <1>5 DEF StartLink, Idle
<1> QED
  BY <1>2, <1>3, <1>4, <1>5 DEF Request
-----------------------------------------------------------------------------
(* Baselines.  What a capture has frozen was known at its captured_at      *)
(* although it was read later.                                             *)

Known(b, at) == b.observed <= at /\ b.session <= at

FrozenKnown == \A q \in Requests : At(q, "commit") => Known(task[q].base, task[q].at)

BInv == FrozenKnown /\ \A x \in records : Known(x.base, x.at)

\* A step that leaves the records and brings nobody to the commit.
LEMMA BaselinesStay ==
    ASSUME BInv, UNCHANGED records,
           \A q \in Requests : task'[q] = task[q] \/ task'[q].place # "commit"
    PROVE  BInv'
  BY DEF BInv, FrozenKnown, Known, At

LEMMA StepBaselines == ASSUME TInv, BInv, NEW r \in Requests, Step(r) PROVE BInv'
<1>1. task[r] \in TaskType /\ task \in [Requests -> TaskType]
  BY TaskIs DEF TInv, TypeOK
<1>2. CASE FreezeBaseline(r)
  <2>1. PICK b \in Baselines(task[r].at) :
           Becomes(r, [task[r] EXCEPT !.place = "commit", !.base = b])
    BY <1>2 DEF FreezeBaseline
  <2>2. Known(b, task[r].at)
    BY <1>1, BaselinesKnown, TaskHas DEF TInv, Known
  <2>3. /\ \A q \in Requests \ {r} : task'[q] = task[q]
        /\ task'[r].base = b /\ task'[r].at = task[r].at
    BY <1>1, <2>1 DEF Becomes, TaskType
  <2> QED
    BY <1>2, <2>2, <2>3 DEF FreezeBaseline, BInv, FrozenKnown, At
<1>3. CASE CommitCapture(r)
  <2> DEFINE t == task[r]
             x == [id |-> t.id, key |-> t.key, view |-> t.view, at |-> t.at, base |-> t.base]
  <2>1. records' = records \cup {x} /\ Known(x.base, x.at)
    BY <1>3 DEF CommitCapture, BInv, FrozenKnown
  <2>2. \A q \in Requests : task'[q] = task[q] \/ task'[q].place # "commit"
    BY <1>1, <1>3 DEF CommitCapture, Becomes, Idle
  <2> HIDE DEF x
  <2>3. \A y \in records' : Known(y.base, y.at)
    BY <2>1 DEF BInv
  <2>4. FrozenKnown'
    BY <2>2 DEF BInv, FrozenKnown, At, Known
  <2> QED
    BY <2>3, <2>4 DEF BInv, Known
<1>4. CASE ~FreezeBaseline(r) /\ ~CommitCapture(r)
  <2>1. UNCHANGED records
    BY <1>4 DEF Step, FindExistingCapture, CaptureDecision, Lookup, InsertRecord,
                ObserveClose, FlushOutcomes, LoadOperation, CheckWindow, ConfirmLink
  <2>2. \A q \in Requests : task'[q] = task[q] \/ task'[q].place # "commit"
    BY <1>4, StepArrives, StepAlone DEF Arrived
  <2> QED
    BY <2>1, <2>2, BaselinesStay
<1> QED
  BY <1>2, <1>3, <1>4

LEMMA BaselinesNext == ASSUME TInv, BInv, [Next]_vars PROVE BInv'
<1>1. ASSUME UNCHANGED <<records, task>> PROVE BInv'
  BY <1>1, BaselinesStay
<1>2. CASE World
  BY <1>1, <1>2 DEF World, NextDay, QuoteArrives, CloseArrives, Enter, Cancel
<1>3. CASE \E l \in links : Unlink(l)
  BY <1>1, <1>3 DEF Unlink
<1>4. CASE UNCHANGED vars
  BY <1>1, <1>4 DEF vars
<1>5. ASSUME NEW r \in Requests, Request(r) \/ Crash(r)
      PROVE  BInv'
  <2>1. UNCHANGED records
    BY <1>5 DEF Request, StartCapture, StartRefresh, StartLink, Crash
  <2>2. task'[r].place # "commit" /\ \A q \in Requests \ {r} : task'[q] = task[q]
    BY <1>5, RequestArrives, StepAlone
  <2> QED
    BY <2>1, <2>2, BaselinesStay
<1> QED
  BY <1>2, <1>3, <1>4, <1>5, StepBaselines DEF Next

\* No baseline was observed, or belongs to a session, after the capture it is for, although prices
\* are read after captured_at (_freeze_baseline).
THEOREM BaselineAlwaysKnown == Spec => []BaselineWasKnown
<1>1. Init => BInv
  BY DEF Init, BInv, FrozenKnown, At, Idle
<1>2. TInv /\ BInv /\ [Next]_vars => BInv'
  BY BaselinesNext
<1>3. BInv => BaselineWasKnown
  BY DEF BInv, Known, BaselineWasKnown
<1> QED
  BY <1>1, <1>2, <1>3, TypeInvariant, PTL DEF Spec
-----------------------------------------------------------------------------
(* Links.  A request that links keeps what it has found out: captured      *)
(* decisions and the day of an entered operation never change.             *)

Entered(o) == journal[o].status # "none"

Linkable(rs, j, id, o) ==
    \E x \in rs : x.id = id /\ SideOf[x.view] = OperationSide[o] /\ j[o].status # "none"

HappenedBetween(rs, j, id, o, now) ==
    \E x \in rs : /\ x.id = id /\ SideOf[x.view] = OperationSide[o] /\ j[o].status # "none"
                  /\ x.at <= j[o].at /\ j[o].at <= now

LInv ==
    /\ \A q \in Requests :
          /\ At(q, "window") => Linkable(records, journal, task[q].id, task[q].op)
          /\ At(q, "insert_link") =>
                 HappenedBetween(records, journal, task[q].id, task[q].op, task[q].at)
    /\ \A l \in links : HappenedBetween(records, journal, l.record, l.op, l.at)
    /\ OneActiveLink

\* Nothing done by the others undoes it.
LEMMA JournalGrows ==
    ASSUME TInv, [Next]_vars
    PROVE  /\ records \subseteq records'
           /\ \A o \in Operations : Entered(o) => Entered(o)' /\ journal'[o].at = journal[o].at
<1>1. CASE World
  <2> USE DEF Entered, TInv, TypeOK
  <2>1. CASE NextDay
    BY <2>1 DEF NextDay
  <2>2. ASSUME NEW kind, NEW p, QuoteArrives(kind, p)
        PROVE  UNCHANGED <<records, journal>>
    BY <2>2 DEF QuoteArrives
  <2>3. ASSUME NEW d, NEW p, CloseArrives(d, p)
        PROVE  UNCHANGED <<records, journal>>
    BY <2>3 DEF CloseArrives
  <2>4. ASSUME NEW o \in Operations, NEW d \in Days, Enter(o, d)
        PROVE  /\ records \subseteq records'
               /\ \A p \in Operations : Entered(p) => Entered(p)' /\ journal'[p].at = journal[p].at
    BY <2>4 DEF Enter
  <2>5. ASSUME NEW o \in Operations, Cancel(o)
        PROVE  /\ records \subseteq records'
               /\ \A p \in Operations : Entered(p) => Entered(p)' /\ journal'[p].at = journal[p].at
    BY <2>5 DEF Cancel
  <2> QED
    BY <1>1, <2>1, <2>2, <2>3, <2>4, <2>5 DEF World
<1>2. CASE \E l \in links : Unlink(l)
  BY <1>2 DEF Unlink, core, Entered
<1>3. CASE UNCHANGED vars
  BY <1>3 DEF vars, Entered
<1>4. ASSUME NEW r \in Requests, Request(r) \/ Crash(r)
      PROVE  UNCHANGED <<records, journal>>
  BY <1>4 DEF Request, StartCapture, StartRefresh, StartLink, Crash, core
<1>5. ASSUME NEW r \in Requests, Step(r)
      PROVE  records \subseteq records' /\ UNCHANGED journal
  BY <1>5 DEF Step, FindExistingCapture, CaptureDecision, Lookup, InsertRecord, FreezeBaseline,
              CommitCapture, ObserveClose, FlushOutcomes, LoadOperation, CheckWindow, ConfirmLink,
              core
<1> QED
  BY <1>1, <1>2, <1>3, <1>4, <1>5 DEF Next, Entered

LEMMA LinkableStays ==
    ASSUME TInv, [Next]_vars, NEW STATE id, NEW STATE o, o \in Operations, NEW STATE now
    PROVE  /\ Linkable(records, journal, id, o) => Linkable(records', journal', id, o)
           /\ HappenedBetween(records, journal, id, o, now) =>
                HappenedBetween(records', journal', id, o, now)
  BY JournalGrows DEF Linkable, HappenedBetween, Entered

\* What a request that moved knows about its new place.
Knows(q) ==
    /\ task'[q].place = "window" => Linkable(records', journal', task'[q].id, task'[q].op)
    /\ task'[q].place = "insert_link" =>
           HappenedBetween(records', journal', task'[q].id, task'[q].op, task'[q].at)

\* The requests that stay where they are keep what they know, and so do the links.
LEMMA KnowledgeStays ==
    ASSUME TInv, LInv, [Next]_vars, NEW q \in Requests, task'[q] = task[q]
    PROVE  Knows(q)
<1>1. ASSUME task'[q].place = "window"
      PROVE  Linkable(records', journal', task'[q].id, task'[q].op)
  <2>1. At(q, "window") /\ task[q].op \in Operations
    BY <1>1 DEF At, TInv, Asked, Linking
  <2>2. Linkable(records', journal', task[q].id, task[q].op)
    BY <2>1, LinkableStays DEF LInv
  <2> QED
    BY <2>2
<1>2. ASSUME task'[q].place = "insert_link"
      PROVE  HappenedBetween(records', journal', task'[q].id, task'[q].op, task'[q].at)
  <2>1. At(q, "insert_link") /\ task[q].op \in Operations
    BY <1>2 DEF At, TInv, Asked, Linking
  <2>2. HappenedBetween(records', journal', task[q].id, task[q].op, task[q].at)
    BY <2>1, LinkableStays DEF LInv
  <2> QED
    BY <2>2
<1> QED
  BY <1>1, <1>2 DEF Knows

LEMMA LinkStays ==
    ASSUME TInv, LInv, [Next]_vars, NEW l \in links
    PROVE  HappenedBetween(records', journal', l.record, l.op, l.at)
<1>1. l.op \in Operations
  BY DEF TInv, TypeOK, LinkType
<1> QED
  BY <1>1, LinkableStays DEF LInv

LEMMA LinksMoved ==
    ASSUME TInv, LInv, [Next]_vars, UNCHANGED links,
           \A q \in Requests : task'[q] = task[q] \/ Knows(q)
    PROVE  LInv'
<1>1. \A q \in Requests : Knows(q)
  BY KnowledgeStays
<1>2. \A l \in links' : HappenedBetween(records', journal', l.record, l.op, l.at)
  BY LinkStays
<1>3. OneActiveLink'
  BY DEF LInv, OneActiveLink
<1> QED
  BY <1>1, <1>2, <1>3 DEF LInv, At, Knows

LEMMA LoadLinks ==
    ASSUME TInv, LInv, [Next]_vars, NEW r \in Requests, LoadOperation(r)
    PROVE  LInv'
<1>1. task[r] \in TaskType /\ UNCHANGED <<records, journal, links>>
  BY TaskIs DEF TInv, LoadOperation, core
<1>2. \A q \in Requests \ {r} : task'[q] = task[q]
  BY DEF LoadOperation, Goto, Becomes, TInv, TypeOK
<1>3. ASSUME task'[r].place \in {"window", "insert_link"}
      PROVE  Knows(r)
  <2>1. /\ task'[r].place = "window" /\ task'[r].id = task[r].id /\ task'[r].op = task[r].op
        /\ Linkable(records, journal, task[r].id, task[r].op)
    BY <1>1, <1>3 DEF LoadOperation, Goto, Becomes, TInv, TypeOK, TaskType, Idle, Chosen, Linkable
  <2> QED
    BY <1>1, <2>1 DEF Knows
<1>4. Knows(r)
  BY <1>3 DEF Knows
<1> QED
  BY <1>1, <1>2, <1>4, LinksMoved

LEMMA CheckLinks ==
    ASSUME TInv, KInv, LInv, [Next]_vars, NEW r \in Requests, CheckWindow(r)
    PROVE  LInv'
<1>1. task[r] \in TaskType /\ UNCHANGED <<records, journal, links>>
  BY TaskIs DEF TInv, CheckWindow, core
<1>2. \A q \in Requests \ {r} : task'[q] = task[q]
  BY DEF CheckWindow, Goto, Becomes, TInv, TypeOK
<1>3. ASSUME task'[r].place \in {"window", "insert_link"}
      PROVE  Knows(r)
  <2>1. /\ task'[r].place = "insert_link" /\ task'[r].id = task[r].id
        /\ task'[r].op = task[r].op /\ task'[r].at = task[r].at
    BY <1>1, <1>3 DEF CheckWindow, Goto, Becomes, TInv, TypeOK, TaskType, Idle
  <2>2. PICK x \in Chosen(r) : InWindow(x, journal[task[r].op].at, task[r].at)
    BY <1>3 DEF CheckWindow, Becomes, Idle, TInv, TypeOK
  <2>3. PICK y \in records : /\ y.id = task[r].id /\ SideOf[y.view] = OperationSide[task[r].op]
                             /\ journal[task[r].op].status # "none"
    BY DEF LInv, CheckWindow, Linkable
  <2>4. x.at <= journal[task[r].op].at /\ journal[task[r].op].at <= task[r].at
    BY <2>2 DEF InWindow
  <2>5. HappenedBetween(records, journal, task[r].id, task[r].op, task[r].at)
    BY <2>2, <2>3, <2>4 DEF Chosen, HappenedBetween, KInv, RecordsApart
  <2> QED
    BY <1>1, <2>1, <2>5 DEF Knows
<1>4. Knows(r)
  BY <1>3 DEF Knows
<1> QED
  BY <1>1, <1>2, <1>4, LinksMoved

LEMMA ConfirmLinks ==
    ASSUME TInv, LInv, [Next]_vars, NEW r \in Requests, ConfirmLink(r)
    PROVE  LInv'
<1>1. UNCHANGED <<records, journal>>
  BY DEF ConfirmLink, core
<1>2. \A q \in Requests : Knows(q)
  <2>1. Knows(r)
    BY DEF ConfirmLink, Becomes, Idle, TInv, TypeOK, Knows
  <2>2. \A q \in Requests \ {r} : task'[q] = task[q]
    BY DEF ConfirmLink, Becomes, TInv, TypeOK
  <2> QED
    BY <2>1, <2>2, KnowledgeStays
<1> DEFINE new == NewLink(r)
<1>3. \/ links' = links
      \/ /\ links' = links \cup {new}
         /\ \A l \in links : ~(l.active /\ l.record = new.record /\ l.op = new.op)
  BY DEF ConfirmLink, Pair, Active, NewLink
<1>4. HappenedBetween(records', journal', new.record, new.op, new.at)
  BY <1>1 DEF NewLink, ConfirmLink, LInv
<1> HIDE DEF new
<1>5. \A l \in links' : HappenedBetween(records', journal', l.record, l.op, l.at)
  BY <1>3, <1>4, LinkStays
<1>6. OneActiveLink'
  BY <1>3 DEF LInv, OneActiveLink
<1> QED
  BY <1>2, <1>5, <1>6 DEF LInv, At, Knows

LEMMA UnlinkLinks ==
    ASSUME TInv, LInv, [Next]_vars, NEW l \in links, Unlink(l)
    PROVE  LInv'
<1> DEFINE m == [l EXCEPT !.active = FALSE]
<1>1. l \in LinkType
  BY DEF TInv, TypeOK
<1>2. m.record = l.record /\ m.op = l.op /\ m.at = l.at /\ m.active = FALSE
  BY <1>1 DEF LinkType
<1>3. links' = (links \ {l}) \cup {m}
  BY DEF Unlink
<1> HIDE DEF m
<1>4. \A k \in links' : HappenedBetween(records', journal', k.record, k.op, k.at)
  BY <1>2, <1>3, LinkStays
<1>5. OneActiveLink'
  BY <1>2, <1>3 DEF LInv, OneActiveLink
<1>6. \A q \in Requests : Knows(q)
  BY KnowledgeStays DEF Unlink
<1> QED
  BY <1>4, <1>5, <1>6 DEF LInv, At, Knows

\* A step that brings nobody to a place of a link in the making.
LEMMA LinksElsewhere ==
    ASSUME TInv, LInv, [Next]_vars, UNCHANGED links,
           \A q \in Requests : \/ task'[q] = task[q]
                               \/ task'[q].place \notin {"window", "insert_link"}
    PROVE  LInv'
  BY LinksMoved DEF Knows

LEMMA StepLinks ==
    ASSUME TInv, KInv, LInv, [Next]_vars, NEW r \in Requests, Step(r)
    PROVE  LInv'
<1>1. task[r] \in TaskType /\ task \in [Requests -> TaskType]
  BY TaskIs DEF TInv, TypeOK
<1>2. CASE LoadOperation(r) \/ CheckWindow(r) \/ ConfirmLink(r)
  BY <1>2, LoadLinks, CheckLinks, ConfirmLinks
<1>3. CASE ~LoadOperation(r) /\ ~CheckWindow(r) /\ ~ConfirmLink(r)
  <2>1. UNCHANGED links
    BY <1>3 DEF Step, FindExistingCapture, CaptureDecision, Lookup, InsertRecord,
                FreezeBaseline, CommitCapture, ObserveClose, FlushOutcomes
  <2>2. \A q \in Requests : task'[q] = task[q] \/ task'[q].place \notin {"window", "insert_link"}
    BY <1>3, StepArrives, StepAlone DEF Arrived
  <2> QED
    BY <2>1, <2>2, LinksElsewhere
<1> QED
  BY <1>2, <1>3

LEMMA LinksNext == ASSUME TInv, KInv, LInv, [Next]_vars PROVE LInv'
<1>1. ASSUME UNCHANGED <<links, task>> PROVE LInv'
  BY <1>1, LinksElsewhere
<1>2. CASE World
  BY <1>1, <1>2 DEF World, NextDay, QuoteArrives, CloseArrives, Enter, Cancel
<1>3. CASE \E l \in links : Unlink(l)
  BY <1>3, UnlinkLinks
<1>4. CASE UNCHANGED vars
  BY <1>1, <1>4 DEF vars
<1>5. ASSUME NEW r \in Requests, Request(r) \/ Crash(r)
      PROVE  LInv'
  <2>1. UNCHANGED links
    BY <1>5 DEF Request, StartCapture, StartRefresh, StartLink, Crash
  <2> QED
    BY <1>5, <2>1, RequestArrives, StepAlone, LinksElsewhere
<1> QED
  BY <1>2, <1>3, <1>4, <1>5, StepLinks DEF Next

LEMMA LinksInvariant == Spec => []LInv
<1>1. Init => LInv
  BY DEF Init, LInv, At, Idle, OneActiveLink
<1>2. TInv /\ KInv /\ LInv /\ [Next]_vars => LInv'
  BY LinksNext
<1> QED
  BY <1>1, <1>2, TypeInvariant, KeysInvariant, PTL DEF Spec

\* A link's operation is of the side of its action and happened between the capture and the link,
\* whatever was captured, entered or cancelled while it was made (confirm_operation_link).
THEOREM LinksAlwaysInWindow == Spec => []LinkedInWindow
<1>1. LInv => LinkedInWindow
  BY DEF LInv, HappenedBetween, LinkedInWindow
<1> QED
  BY <1>1, LinksInvariant, PTL

\* An action and an operation have one active link at most (confirm_operation_link and the partial
\* unique index).
THEOREM OneActiveLinkAlways == Spec => []OneActiveLink
<1>1. LInv => OneActiveLink
  BY DEF LInv
<1> QED
  BY <1>1, LinksInvariant, PTL
-----------------------------------------------------------------------------
(* Outcomes.  A refresh may have loaded a row long before it writes it.    *)
(* What it knows then: the row's session is over and its action has a      *)
(* baseline; what it may not know has only moved one way: a row it loaded  *)
(* without a close is not pending, and one with a price still has one.     *)

Tracked(q, row) ==
    /\ At(q, "close") \/ At(q, "flush")
    /\ row \in task[q].todo \/ task[q].found[row] # NoOutcome

Loaded(seen, found) ==
    /\ seen.status \in {"PENDING", "DATA_UNAVAILABLE"}
    /\ seen.status = "PENDING" => seen.price = 0
    /\ \/ found = NoOutcome
       \/ found.status = "READY" /\ found.price # 0
       \/ found.status = "DATA_UNAVAILABLE" /\ found.price = seen.price

Over(row) ==
    \E x \in records : x.id = row[1] /\ Target(x, row[2]) < today /\ x.base.price # 0

\* The row the refresh loaded and the row as it is now.
Behind(seen, now) ==
    /\ seen.status = "DATA_UNAVAILABLE" => now.status # "PENDING"
    /\ seen.price # 0 => now.price # 0

Sound(x, h, outcome) ==
    /\ outcome.status \in {"PENDING", "READY", "DATA_UNAVAILABLE", "BASELINE_UNAVAILABLE"}
    /\ outcome.status = "READY" => outcome.price # 0 /\ Target(x, h) < today
    /\ outcome.status = "PENDING" => outcome.price = 0
    /\ outcome.status = "BASELINE_UNAVAILABLE" <=> x.base.price = 0

NoneBeforeRecord == \A row \in Rows : (\A x \in records : x.id # row[1]) => outcomes[row] = NoOutcome

RefreshesKnow ==
    \A q \in Requests, row \in Rows : Tracked(q, row) =>
        /\ Loaded(task[q].seen[row], task[q].found[row])
        /\ Over(row)
        /\ Behind(task[q].seen[row], outcomes[row])

OInv ==
    /\ NoneBeforeRecord
    /\ \A x \in records, h \in Horizons : Sound(x, h, outcomes[<<x.id, h>>])
    /\ RefreshesKnow

\* Updating a row, whatever it has become since it was loaded.
LEMMA UpdatedRow ==
    ASSUME NEW now, NEW seen, NEW found, Loaded(seen, found), Behind(seen, now), found # NoOutcome
    PROVE  LET new == Updated(now, seen, found)
           IN  /\ new.status = "PENDING" => now.status = "PENDING" /\ new.price = now.price
               /\ now.price # 0 => new.price # 0
               /\ new.status = "READY" => new.price # 0 \/ (now.status = "READY" /\ new.price = now.price)
               /\ new.status \in {"READY", "DATA_UNAVAILABLE", now.status}
               /\ now.status = "READY" /\ new.status # "READY" => seen.status = "PENDING"
<1> DEFINE new == Updated(now, seen, found)
<1>1. /\ new.status = IF found.status # seen.status THEN found.status ELSE now.status
      /\ new.price = IF found.price # seen.price THEN found.price ELSE now.price
  BY DEF Updated
<1> HIDE DEF new
<1> DEFINE Moved ==
        /\ new.status = "PENDING" => now.status = "PENDING" /\ new.price = now.price
        /\ now.price # 0 => new.price # 0
        /\ new.status = "READY" => new.price # 0 \/ (now.status = "READY" /\ new.price = now.price)
        /\ new.status \in {"READY", "DATA_UNAVAILABLE", now.status}
        /\ now.status = "READY" /\ new.status # "READY" => seen.status = "PENDING"
<1>2. ASSUME found.status = "READY" /\ found.price # 0
      PROVE  Moved
  <2>1. new.status = "READY"
    BY <1>1, <1>2 DEF Loaded
  <2>2. new.price # 0
    BY <1>1, <1>2 DEF Behind
  <2> QED
    BY <2>1, <2>2
<1>3. ASSUME found.status = "DATA_UNAVAILABLE" /\ found.price = seen.price
      PROVE  Moved
  BY <1>1, <1>3 DEF Loaded, Behind
<1>4. Moved
  BY <1>2, <1>3 DEF Loaded
<1> QED
  BY <1>4 DEF new

\* How an outcome may change.
Committed(r, row) ==
    /\ CommitCapture(r) /\ row[1] = task[r].id
    /\ outcomes[row] = NoOutcome /\ outcomes'[row] = FirstOutcome(task[r].base)

Flushed(r, row) ==
    /\ FlushOutcomes(r) /\ At(r, "flush") /\ Tracked(r, row) /\ task[r].found[row] # NoOutcome
    /\ outcomes'[row] = Updated(outcomes[row], task[r].seen[row], task[r].found[row])

LEMMA OutcomeMoves ==
    ASSUME TInv, KInv, OInv, [Next]_vars, NEW row \in Rows
    PROVE  \/ outcomes'[row] = outcomes[row]
           \/ \E r \in Requests : Committed(r, row) \/ Flushed(r, row)
<1>1. CASE World
  BY <1>1 DEF World, NextDay, QuoteArrives, CloseArrives, Enter, Cancel
<1>2. CASE UNCHANGED outcomes
  BY <1>2
<1>3. ASSUME NEW r \in Requests, Request(r) \/ Crash(r)
      PROVE  UNCHANGED outcomes
  BY <1>3 DEF Request, StartCapture, StartRefresh, StartLink, Crash
<1>4. ASSUME NEW r \in Requests, CommitCapture(r), outcomes'[row] # outcomes[row]
      PROVE  Committed(r, row)
  <2>1. row[1] = task[r].id /\ outcomes'[row] = FirstOutcome(task[r].base)
    BY <1>4 DEF CommitCapture
  <2>2. \A x \in records : x.id # task[r].id
    BY <1>4 DEF CommitCapture, KInv, OwnsKey, Owns
  <2>3. outcomes[row] = NoOutcome
    BY <2>1, <2>2 DEF OInv, NoneBeforeRecord
  <2> QED
    BY <1>4, <2>1, <2>3 DEF Committed
<1>5. ASSUME NEW r \in Requests, FlushOutcomes(r), outcomes'[row] # outcomes[row]
      PROVE  Flushed(r, row)
  BY <1>5 DEF FlushOutcomes, Flushed, Tracked
<1>6. ASSUME NEW r \in Requests, Step(r), ~CommitCapture(r), ~FlushOutcomes(r)
      PROVE  UNCHANGED outcomes
  BY <1>6 DEF Step, FindExistingCapture, CaptureDecision, Lookup, InsertRecord, FreezeBaseline,
              ObserveClose, LoadOperation, CheckWindow, ConfirmLink
<1> QED
  BY <1>1, <1>2, <1>3, <1>4, <1>5, <1>6 DEF Next, Unlink, vars

\* What one row looks like after a step, to a refresh that knows it.
LEMMA RowMoves ==
    ASSUME TInv, KInv, OInv, [Next]_vars, NEW row \in Rows, \E x \in records : x.id = row[1]
    PROVE  /\ outcomes'[row].status = "PENDING" => outcomes[row].status = "PENDING"
           /\ outcomes[row].price # 0 => outcomes'[row].price # 0
<1>1. CASE outcomes'[row] = outcomes[row]
  BY <1>1
<1>2. ASSUME NEW r \in Requests, Committed(r, row) PROVE FALSE
  BY <1>2 DEF Committed, CommitCapture, KInv, OwnsKey, Owns
<1>3. ASSUME NEW r \in Requests, Flushed(r, row)
      PROVE  /\ outcomes'[row].status = "PENDING" => outcomes[row].status = "PENDING"
             /\ outcomes[row].price # 0 => outcomes'[row].price # 0
  BY <1>3, UpdatedRow DEF Flushed, OInv, RefreshesKnow
<1> QED
  BY <1>1, <1>2, <1>3, OutcomeMoves

LEMMA DaysPass == ASSUME TInv, [Next]_vars PROVE today' \in Nat /\ today \in Nat /\ today <= today'
<1>1. today \in Nat
  BY MemoryAssumption DEF TInv, TypeOK, Days
<1>2. today' = today \/ today' = today + 1
  BY DEF Next, World, NextDay, QuoteArrives, CloseArrives, Enter, Cancel, Unlink, vars, Request,
         StartCapture, StartRefresh, StartLink, Crash, Step, FindExistingCapture, CaptureDecision,
         Lookup, InsertRecord, FreezeBaseline, CommitCapture, ObserveClose, FlushOutcomes,
         LoadOperation, CheckWindow, ConfirmLink, core
<1> QED
  BY <1>1, <1>2

LEMMA TargetType ==
    ASSUME TInv, NEW x \in records, NEW h \in Horizons
    PROVE  Target(x, h) \in Nat
  BY RecordHas, MemoryAssumption DEF TInv, TypeOK, Target, Days

LEMMA OverStays ==
    ASSUME TInv, [Next]_vars, NEW row \in Rows, Over(row)
    PROVE  Over(row)'
<1>1. PICK x \in records : x.id = row[1] /\ Target(x, row[2]) < today /\ x.base.price # 0
  BY DEF Over
<1>2. x \in records' /\ row[2] \in Horizons
  BY JournalGrows DEF Rows
<1>3. Target(x, row[2]) < today'
  BY <1>1, <1>2, TargetType, DaysPass
<1> QED
  BY <1>1, <1>2, <1>3 DEF Over, Target

\* The records after a step: one more if it commits a capture.
LEMMA RecordsMove ==
    ASSUME TInv, [Next]_vars
    PROVE  \/ records' = records
           \/ \E r \in Requests : CommitCapture(r)
  BY DEF Next, World, NextDay, QuoteArrives, CloseArrives, Enter, Cancel, Unlink, vars, Request,
         StartCapture, StartRefresh, StartLink, Crash, Step, FindExistingCapture, CaptureDecision,
         Lookup, InsertRecord, FreezeBaseline, ObserveClose, FlushOutcomes, LoadOperation,
         CheckWindow, ConfirmLink

\* What a commit adds.
LEMMA CommitAdds ==
    ASSUME TInv, NEW r \in Requests, CommitCapture(r)
    PROVE  \E x : /\ x.id = task[r].id /\ x.base = task[r].base /\ records' = records \cup {x}
<1> DEFINE x == [id |-> task[r].id, key |-> task[r].key, view |-> task[r].view,
                 at |-> task[r].at, base |-> task[r].base]
<1>1. x.id = task[r].id /\ x.base = task[r].base
  OBVIOUS
<1>2. records' = records \cup {x}
  BY DEF CommitCapture
<1> QED
  BY <1>1, <1>2

LEMMA NoneNext ==
    ASSUME TInv, KInv, OInv, [Next]_vars
    PROVE  NoneBeforeRecord'
<1> SUFFICES ASSUME NEW row \in Rows, \A x \in records' : x.id # row[1]
             PROVE  outcomes'[row] = NoOutcome
  BY DEF NoneBeforeRecord
<1>1. outcomes[row] = NoOutcome
  BY JournalGrows DEF OInv, NoneBeforeRecord
<1>2. ASSUME NEW r \in Requests, Committed(r, row) PROVE FALSE
  BY <1>2, CommitAdds DEF Committed
<1>3. ASSUME NEW r \in Requests, Flushed(r, row) PROVE FALSE
  BY <1>3, JournalGrows DEF Flushed, OInv, RefreshesKnow, Over
<1> QED
  BY <1>1, <1>2, <1>3, OutcomeMoves

LEMMA SoundNext ==
    ASSUME TInv, KInv, OInv, [Next]_vars
    PROVE  \A x \in records', h \in Horizons : Sound(x, h, outcomes[<<x.id, h>>])'
<1> SUFFICES ASSUME NEW x \in records', NEW h \in Horizons
             PROVE  Sound(x, h, outcomes[<<x.id, h>>])'
  OBVIOUS
<1> DEFINE row == <<x.id, h>>
<1>1. TInv'
  BY TypeNext
<1>2. x.id \in Ids /\ row \in Rows /\ row[1] = x.id /\ row[2] = h
  BY <1>1, RecordHas DEF TInv, TypeOK, Rows
<1>3. CASE x \in records
  <2>1. Sound(x, h, outcomes[row]) /\ Target(x, h) \in Nat
    BY <1>3, TargetType DEF OInv
  <2>2. Target(x, h) < today => Target(x, h) < today'
    BY <2>1, DaysPass
  <2>3. ASSUME outcomes'[row] = outcomes[row] PROVE Sound(x, h, outcomes[<<x.id, h>>])'
    BY <2>1, <2>2, <2>3 DEF Sound, Target
  <2>4. ASSUME NEW r \in Requests, Committed(r, row) PROVE FALSE
    BY <1>2, <1>3, <2>4 DEF Committed, CommitCapture, KInv, OwnsKey, Owns
  <2>5. ASSUME NEW r \in Requests, Flushed(r, row) PROVE Sound(x, h, outcomes[<<x.id, h>>])'
    <3> DEFINE now == outcomes[row]
               new == Updated(outcomes[row], task[r].seen[row], task[r].found[row])
    <3>1. /\ Loaded(task[r].seen[row], task[r].found[row]) /\ Over(row)
          /\ Behind(task[r].seen[row], now) /\ task[r].found[row] # NoOutcome
      BY <1>2, <2>5 DEF Flushed, OInv, RefreshesKnow
    <3>2. /\ new.status = "PENDING" => now.status = "PENDING" /\ new.price = now.price
          /\ new.status = "READY" => new.price # 0 \/ (now.status = "READY" /\ new.price = now.price)
          /\ new.status \in {"READY", "DATA_UNAVAILABLE", now.status}
      BY <3>1, UpdatedRow
    <3>3. outcomes'[row] = new
      BY <2>5 DEF Flushed
    <3>4. Target(x, h) < today /\ x.base.price # 0
      BY <1>2, <1>3, <3>1 DEF Over, KInv, RecordsApart
    <3> HIDE DEF now, new, row
    <3>5. Sound(x, h, now)
      BY <2>1 DEF now
    <3>6. /\ new.status \in {"PENDING", "READY", "DATA_UNAVAILABLE"}
          /\ new.status = "READY" => new.price # 0
          /\ new.status = "PENDING" => new.price = 0
      BY <3>2, <3>4, <3>5 DEF Sound
    <3>7. Target(x, h) < today'
      BY <2>2, <3>4
    <3> QED
      BY <3>3, <3>4, <3>6, <3>7 DEF Sound, Target, row
  <2> QED
    BY <1>2, <2>3, <2>4, <2>5, OutcomeMoves
<1>4. CASE x \notin records
  <2>1. PICK r \in Requests : CommitCapture(r)
    BY <1>4, RecordsMove
  <2>2. x.id = task[r].id /\ x.base = task[r].base
    BY <1>4, <2>1, CommitAdds
  <2>3. outcomes'[row] = FirstOutcome(x.base)
    BY <1>2, <2>1, <2>2 DEF CommitCapture
  <2> QED
    BY <2>3 DEF Sound, FirstOutcome
<1> QED
  BY <1>3, <1>4

\* What a refresh knows of a row after a step.
Informed(q, row) ==
    /\ Loaded(task'[q].seen[row], task'[q].found[row])
    /\ Over(row)'
    /\ Behind(task'[q].seen[row], outcomes'[row])

\* A row that is tracked and was tracked before, with the same values loaded.
LEMMA StillInformed ==
    ASSUME TInv, KInv, OInv, [Next]_vars, NEW q \in Requests, NEW row \in Rows, Tracked(q, row),
           task'[q].seen[row] = task[q].seen[row],
           Loaded(task'[q].seen[row], task'[q].found[row])
    PROVE  Informed(q, row)
<1>1. Over(row) /\ Behind(task[q].seen[row], outcomes[row])
  BY DEF OInv, RefreshesKnow
<1>2. Over(row)'
  BY <1>1, OverStays
<1>3. \E x \in records : x.id = row[1]
  BY <1>1 DEF Over
<1>4. /\ outcomes'[row].status = "PENDING" => outcomes[row].status = "PENDING"
      /\ outcomes[row].price # 0 => outcomes'[row].price # 0
  BY <1>3, RowMoves
<1>5. Behind(task'[q].seen[row], outcomes'[row])
  BY <1>1, <1>4 DEF Behind
<1> QED
  BY <1>2, <1>5 DEF Informed

LEMMA ObserveInforms ==
    ASSUME TInv, KInv, OInv, [Next]_vars, NEW q \in Requests, NEW other \in Rows,
           ObserveClose(q, other), NEW row \in Rows,
           row \in task'[q].todo \/ task'[q].found[row] # NoOutcome
    PROVE  Informed(q, row)
<1>1. task[q] \in TaskType
  BY TaskIs DEF TInv
<1>2. PICK x \in {y \in records : y.id = other[1]} :
         Becomes(q, [task[q] EXCEPT
                       !.todo = @ \ {other},
                       !.found[other] = Measured(task[q].seen[other], CloseOn(Target(x, other[2]))),
                       !.place = IF task[q].todo = {other} THEN "flush" ELSE "close"])
  BY DEF ObserveClose
<1> DEFINE close == CloseOn(Target(x, other[2]))
<1>3. /\ task'[q].seen = task[q].seen /\ task'[q].todo = task[q].todo \ {other}
      /\ task'[q].found = [task[q].found EXCEPT ![other] = Measured(task[q].seen[other], close)]
      /\ task[q].found \in [Rows -> OutcomeType]
  BY <1>1, <1>2 DEF Becomes, TInv, TypeOK, TaskType
<1>4. Tracked(q, other)
  BY DEF ObserveClose, Tracked
<1> HIDE DEF close
<1>5. CASE row = other
  <2>1. Loaded(task[q].seen[row], task[q].found[row])
    BY <1>4, <1>5 DEF OInv, RefreshesKnow
  <2>2. Loaded(task[q].seen[row], Measured(task[q].seen[row], close))
    <3>1. CASE close = 0
      <4>1. /\ Measured(task[q].seen[row], close).status = "DATA_UNAVAILABLE"
            /\ Measured(task[q].seen[row], close).price = task[q].seen[row].price
        BY <1>1, <3>1, TaskHas DEF Measured, OutcomeType
      <4> QED
        BY <2>1, <4>1 DEF Loaded
    <3>2. CASE close # 0
      BY <2>1, <3>2 DEF Measured, Loaded
    <3> QED
      BY <3>1, <3>2
  <2>3. task'[q].found[row] = Measured(task[q].seen[row], close)
    BY <1>3, <1>5
  <2> QED
    BY <1>3, <1>4, <1>5, <2>2, <2>3, StillInformed
<1>6. CASE row # other
  <2>1. task'[q].found[row] = task[q].found[row] /\ task'[q].seen[row] = task[q].seen[row]
    BY <1>3, <1>6
  <2>2. Tracked(q, row)
    BY <1>3, <2>1 DEF Tracked, ObserveClose
  <2>3. Loaded(task[q].seen[row], task[q].found[row])
    BY <2>2 DEF OInv, RefreshesKnow
  <2> QED
    BY <2>1, <2>2, <2>3, StillInformed
<1> QED
  BY <1>5, <1>6

LEMMA RefreshInforms ==
    ASSUME TInv, KInv, OInv, [Next]_vars, NEW q \in Requests, StartRefresh(q), NEW row \in Rows,
           row \in task'[q].todo \/ task'[q].found[row] # NoOutcome
    PROVE  Informed(q, row)
<1> DEFINE seen == [x \in Rows |-> IF x \in Due THEN outcomes[x] ELSE NoOutcome]
<1>1. Becomes(q, [Idle EXCEPT !.place = "close", !.todo = Due, !.seen = seen])
  BY DEF StartRefresh
<1> HIDE DEF seen
<1>2. task'[q].seen = seen /\ task'[q].todo = Due /\ task'[q].found = NoOutcomes
  BY <1>1 DEF Becomes, TInv, TypeOK, Idle
<1>3. row \in Due /\ task'[q].found[row] = NoOutcome
  BY <1>2 DEF NoOutcomes
<1>4. task'[q].seen[row] = outcomes[row] /\ UNCHANGED <<outcomes, records, core>>
  BY <1>2, <1>3 DEF seen, StartRefresh
<1>5. PICK x \in records : x.id = row[1] /\ Target(x, row[2]) < today
  BY <1>3 DEF Due
<1>6. row = <<x.id, row[2]>> /\ row[2] \in Horizons
  BY <1>5 DEF Rows
<1>7. Sound(x, row[2], outcomes[row])
  BY <1>6 DEF OInv
<1>8. outcomes[row].status \in {"PENDING", "DATA_UNAVAILABLE"}
  BY <1>3 DEF Due, Open
<1>9. x.base.price # 0 /\ (outcomes[row].status = "PENDING" => outcomes[row].price = 0)
  BY <1>7, <1>8 DEF Sound
<1>10. Over(row)
  BY <1>5, <1>9 DEF Over
<1>11. Over(row)'
  BY <1>10, OverStays
<1>12. Loaded(task'[q].seen[row], task'[q].found[row])
  BY <1>3, <1>4, <1>8, <1>9 DEF Loaded
<1>13. Behind(task'[q].seen[row], outcomes'[row])
  BY <1>4, <1>8 DEF Behind
<1> QED
  BY <1>11, <1>12, <1>13 DEF Informed

LEMMA KnowNext ==
    ASSUME TInv, KInv, OInv, [Next]_vars
    PROVE  RefreshesKnow'
<1> SUFFICES ASSUME NEW q \in Requests, NEW row \in Rows,
                    task'[q].place \in {"close", "flush"},
                    row \in task'[q].todo \/ task'[q].found[row] # NoOutcome
             PROVE  Informed(q, row)
  BY DEF RefreshesKnow, Tracked, At, Informed
<1>1. CASE task'[q] = task[q]
  <2>1. Tracked(q, row)
    BY <1>1 DEF Tracked, At
  <2>2. Loaded(task'[q].seen[row], task'[q].found[row])
    BY <1>1, <2>1 DEF OInv, RefreshesKnow
  <2> QED
    BY <1>1, <2>1, <2>2, StillInformed
<1>2. CASE Step(q)
  <2>1. PICK other \in Rows : ObserveClose(q, other)
    BY <1>2, StepArrives DEF Arrived
  <2> QED
    BY <2>1, ObserveInforms
<1>3. CASE Request(q) \/ Crash(q)
  <2>1. StartRefresh(q)
    BY <1>3, RequestArrives
  <2> QED
    BY <2>1, RefreshInforms
<1>4. CASE World \/ (\E l \in links : Unlink(l)) \/ UNCHANGED vars
  BY <1>1, <1>4 DEF World, NextDay, QuoteArrives, CloseArrives, Enter, Cancel, Unlink, vars
<1>5. ASSUME NEW r \in Requests, r # q, Step(r) \/ Request(r) \/ Crash(r)
      PROVE  task'[q] = task[q]
  BY <1>5, StepAlone
<1> QED
  BY <1>1, <1>2, <1>3, <1>4, <1>5 DEF Next

LEMMA OutcomesInvariant == Spec => []OInv
<1>1. Init => OInv
  BY DEF Init, OInv, NoneBeforeRecord, RefreshesKnow, Tracked, At, Idle, NoOutcomes
<1>2. TInv /\ KInv /\ OInv /\ [Next]_vars => OInv'
  BY NoneNext, SoundNext, KnowNext DEF OInv
<1> QED
  BY <1>1, <1>2, TypeInvariant, KeysInvariant, PTL DEF Spec

\* Whatever refreshes overlap, a READY outcome has a price and its session is over, a PENDING one
\* has none, and an action without a baseline is never measured (refresh_outcomes).
THEOREM OutcomesAlwaysMature == Spec => []OutcomesAreMature
<1>1. OInv => OutcomesAreMature
  BY DEF OInv, Sound, OutcomesAreMature
<1> QED
  BY <1>1, OutcomesInvariant, PTL

\* A READY outcome is rewritten only by an overlapping refresh that had loaded it before it was
\* READY, and an observed price is never lost (refresh_outcomes).
THEOREM ReadyOnlyLostToOverlap == Spec => ReadyLostToOverlapOnly
<1> DEFINE Rewritten(row) ==
        /\ outcomes[row].status = "READY" /\ outcomes'[row] # outcomes[row] =>
             \E r \in Requests :
                /\ At(r, "flush")
                /\ task[r].seen[row].status \in {"PENDING", "DATA_UNAVAILABLE"}
                /\ outcomes'[row].status # "READY" => task[r].seen[row].status = "PENDING"
        /\ outcomes[row].price # 0 => outcomes'[row].price # 0
<1>1. TInv /\ KInv /\ OInv /\ [Next]_vars => [\A row \in Rows : Rewritten(row)]_outcomes
  <2> SUFFICES ASSUME TInv, KInv, OInv, [Next]_vars, NEW row \in Rows
               PROVE  Rewritten(row)
    OBVIOUS
  <2>1. CASE outcomes'[row] = outcomes[row]
    BY <2>1
  <2>2. ASSUME NEW r \in Requests, Committed(r, row)
        PROVE  outcomes[row].status = "none" /\ outcomes[row].price = 0
    BY <2>2 DEF Committed, NoOutcome
  <2>3. ASSUME NEW r \in Requests, Flushed(r, row)
        PROVE  Rewritten(row)
    <3>1. Loaded(task[r].seen[row], task[r].found[row])
          /\ Behind(task[r].seen[row], outcomes[row]) /\ task[r].found[row] # NoOutcome
      BY <2>3 DEF Flushed, OInv, RefreshesKnow
    <3>2. /\ At(r, "flush")
          /\ outcomes'[row] = Updated(outcomes[row], task[r].seen[row], task[r].found[row])
      BY <2>3 DEF Flushed
    <3>3. /\ outcomes[row].price # 0 => outcomes'[row].price # 0
          /\ outcomes[row].status = "READY" /\ outcomes'[row].status # "READY" =>
                task[r].seen[row].status = "PENDING"
      BY <3>1, <3>2, UpdatedRow
    <3>4. task[r].seen[row].status \in {"PENDING", "DATA_UNAVAILABLE"}
      BY <3>1 DEF Loaded
    <3> QED
      BY <3>2, <3>3, <3>4
  <2> QED
    BY <2>1, <2>2, <2>3, OutcomeMoves
<1> QED
  BY <1>1, TypeInvariant, KeysInvariant, OutcomesInvariant, PTL DEF Spec, ReadyLostToOverlapOnly
=============================================================================
