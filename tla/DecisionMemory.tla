--------------------------- MODULE DecisionMemory ---------------------------
(***************************************************************************)
(* Personal Decision Memory of one portfolio                               *)
(* (memory/application/decision_memory_service.py behind                   *)
(* api/v1/decision_memory.py): captures of the decision a screen shows,    *)
(* the outcomes of the captured decisions, and links to journal            *)
(* operations.  A request is one transaction of the memory database at     *)
(* READ COMMITTED and reads the core database, which other processes write *)
(* meanwhile; every statement of it is a step, and only unique indexes make *)
(* two requests wait for each other.  A record has one action here.  Days  *)
(* are trading days, and the instants of the model.                        *)
(***************************************************************************)
EXTENDS Naturals, FiniteSets

CONSTANTS
    Requests,     \* server threads, each serving one request at a time
    Keys,         \* idempotency keys
    Views,        \* decisions a screen may show: fingerprint and cash of the request
    SideOf,       \* the journal side a view's action may be linked to, or "none"
    Operations,   \* operations of the personal journal
    OperationSide,\* what each of them does
    None,         \* no key, no view, no operation
    Prices,       \* positive prices
    Horizons,     \* sessions after which an outcome is measured
    LastDay,      \* bound: the days of the run are 0..LastDay
    QuoteDays,    \* bound: the days on which the cache is filled
    CandleDays,   \* bound: the sessions whose candles may come
    MaxRecords,   \* bound: records, committed or rolled back
    MaxLinks      \* bound: link rows

Days == 0..LastDay
Ids == 1..MaxRecords
Sides == {"BUY", "SELL"}

ASSUME MemoryAssumption ==
    /\ LastDay \in Nat /\ QuoteDays \subseteq Days /\ CandleDays \subseteq Days
    /\ MaxRecords \in Nat /\ MaxLinks \in Nat
    /\ None \notin Keys \cup Views \cup Operations
    /\ OperationSide \in [Operations -> Sides]
    /\ SideOf \in [Views -> Sides \cup {"none"}]
    /\ Prices \subseteq Nat \ {0} /\ Horizons \subseteq Nat \ {0}
    /\ IsFiniteSet(Requests)

VARIABLES
    today,       \* the day, by the server's clock and by the exchange's
    quote,       \* the quote in the intraday cache
    closes,      \* the close ingested last for each session, or 0
    journal,     \* the operations of the personal journal
    records,     \* the committed records, each with its action
    outcomes,    \* the committed outcomes
    links,       \* the committed links, the inactive ones included
    nextId,      \* the sequence of the record ids
    task,        \* what each request is doing
    told         \* answers sent for captures: key, what the screen showed, record shown

core == <<today, quote, closes, journal>>
vars == <<today, quote, closes, journal, records, outcomes, links, nextId, task, told>>

Rows == Ids \X Horizons

NoBaseline == [session |-> 0, observed |-> 0, price |-> 0]
NoOutcome == [status |-> "none", price |-> 0]
NoQuote == [kind |-> "none", date |-> 0, price |-> 0]
NotEntered == [status |-> "none", at |-> 0]
NoOutcomes == [row \in Rows |-> NoOutcome]

Idle == [place |-> "idle", key |-> None, view |-> None, shown |-> FALSE,
         id |-> 0, at |-> 0, base |-> NoBaseline, op |-> None, todo |-> {}, seen |-> NoOutcomes, found |-> NoOutcomes]

Init ==
    /\ today = 0
    /\ quote = NoQuote /\ closes = [d \in Days |-> 0]
    /\ journal = [o \in Operations |-> NotEntered]
    /\ records = {} /\ outcomes = NoOutcomes /\ links = {}
    /\ nextId = 1
    /\ task = [r \in Requests |-> Idle]
    /\ told = {}

-----------------------------------------------------------------------------
(* The world around the service.                                           *)

NextDay ==
    /\ today < LastDay
    /\ today' = today + 1
    /\ UNCHANGED <<quote, closes, journal, records, outcomes, links, nextId, task, told>>

\* Another process fills the cache; before the first trade a quote has yesterday's close only.
QuoteArrives(kind, p) ==
    /\ today \in QuoteDays
    /\ quote' = [kind |-> kind, date |-> today, price |-> p]
    /\ UNCHANGED <<today, closes, journal, records, outcomes, links, nextId, task, told>>

\* Candles come late and in any order; another source's candle replaces an earlier close.
CloseArrives(d, p) ==
    /\ d \in CandleDays /\ d <= today /\ closes[d] # p
    /\ closes' = [closes EXCEPT ![d] = p]
    /\ UNCHANGED <<today, quote, journal, records, outcomes, links, nextId, task, told>>

\* An operation is entered, possibly dated back.
Enter(o, d) ==
    /\ journal[o].status = "none" /\ d <= today
    /\ journal' = [journal EXCEPT ![o] = [status |-> "ACTIVE", at |-> d]]
    /\ UNCHANGED <<today, quote, closes, records, outcomes, links, nextId, task, told>>

Cancel(o) ==
    /\ journal[o].status = "ACTIVE"
    /\ journal' = [journal EXCEPT ![o].status = "CANCELLED"]
    /\ UNCHANGED <<today, quote, closes, records, outcomes, links, nextId, task, told>>

World ==
    \/ NextDay
    \/ \E kind \in {"last", "previous"}, p \in Prices : QuoteArrives(kind, p)
    \/ \E d \in Days, p \in Prices : CloseArrives(d, p)
    \/ \E o \in Operations, d \in Days : Enter(o, d)
    \/ \E o \in Operations : Cancel(o)

-----------------------------------------------------------------------------
(* POST .../capture.                                                       *)

At(r, place) == task[r].place = place
Becomes(r, t) == task' = [task EXCEPT ![r] = t]
Goto(r, place) == Becomes(r, [task[r] EXCEPT !.place = place])

OfKey(k) == {x \in records : x.key = k}

\* Places at which a capture's uncommitted record exists.
Numbered == {"freeze", "commit"}

StartCapture(r, k, v) ==
    /\ At(r, "idle")
    /\ Becomes(r, [Idle EXCEPT !.place = "lookup", !.key = k, !.view = v])
    /\ UNCHANGED <<core, records, outcomes, links, nextId, told>>

\* A record of the same key and the same request is shown again; of another request, 409.
ReplayOrConflict(r, x) ==
    /\ told' = IF x.view = task[r].view
               THEN told \cup {[key |-> x.key, view |-> task[r].view, id |-> x.id]} ELSE told
    /\ Becomes(r, Idle)

\* The lookups before and after and after the decision is built.
Lookup(r, here, next) ==
    /\ At(r, here)
    /\ \/ /\ \E x \in OfKey(task[r].key) : ReplayOrConflict(r, x)
       \/ /\ OfKey(task[r].key) = {}
          /\ next
          /\ UNCHANGED told
    /\ UNCHANGED <<core, records, outcomes, links, nextId>>

\* Then the decision is built again from the core database, and may have changed.
FindExistingCapture(r) ==
    Lookup(r, "lookup", \E same \in BOOLEAN :
                            Becomes(r, [task[r] EXCEPT !.place = "check", !.shown = same]))

\* The server's clock is read; a decision other than the one on the screen is refused, 409.
CaptureDecision(r) ==
    Lookup(r, "check", IF task[r].shown
                       THEN Becomes(r, [task[r] EXCEPT !.place = "insert", !.at = today])
                       ELSE Becomes(r, Idle))

\* Mutant of KeyIsHeld: a key is taken before it is inserted.
KeyIsWanted(r) ==
    \E q \in Requests \ {r} :
        task[q].key = task[r].key /\ task[q].place \in {"insert"} \cup Numbered

\* Another transaction has inserted the key and not yet committed: the index makes us wait.
KeyIsHeld(r) ==
    \E q \in Requests \ {r} : task[q].key = task[r].key /\ task[q].place \in Numbered

\* Mutant of InsertRecord: no unique index, nobody waits and nothing is refused.
InsertUnchecked(r) ==
    /\ At(r, "insert") /\ nextId \in Ids
    /\ Becomes(r, [task[r] EXCEPT !.place = "freeze", !.id = nextId])
    /\ nextId' = nextId + 1
    /\ UNCHANGED <<core, records, outcomes, links, told>>

\* The record is inserted in a savepoint; if the key is there the savepoint is undone and the
\* record of the other transaction is shown.  Past the bound of the ids an insert fails.
InsertRecord(r) ==
    /\ At(r, "insert")
    /\ ~KeyIsHeld(r)
    /\ \/ /\ \E x \in OfKey(task[r].key) : ReplayOrConflict(r, x)
          /\ UNCHANGED nextId
       \/ /\ OfKey(task[r].key) = {} /\ nextId \in Ids
          /\ Becomes(r, [task[r] EXCEPT !.place = "freeze", !.id = nextId])
          /\ nextId' = nextId + 1
          /\ UNCHANGED told
       \/ nextId \notin Ids /\ Becomes(r, Idle) /\ UNCHANGED <<nextId, told>>
    /\ UNCHANGED <<core, records, outcomes, links>>

\* The session a quote's price belongs to: the last trade's is the quote's own, a previous
\* close's the session before.
PriceSession(q) == IF q.kind = "last" THEN q.date ELSE q.date - 1

\* Mutant of QuoteBaselines: whatever the cache holds when it is read.
AnyQuoteBaselines(at) ==
    IF quote.kind # "none" /\ (quote.kind = "previous" => quote.date > 0)
    THEN {[session |-> PriceSession(quote), observed |-> quote.date, price |-> quote.price]}
    ELSE {}

\* Mutant of QuoteBaselines: a previous close before the first session counts too.
QuoteBaselinesUnbounded(at) ==
    IF quote.kind # "none" /\ quote.date <= at
    THEN {[session |-> PriceSession(quote), observed |-> quote.date, price |-> quote.price]}
    ELSE {}

\* A quote counts only if it was observed before the capture and its session is known.
QuoteBaselines(at) ==
    IF quote.kind # "none" /\ quote.date <= at /\ (quote.kind = "previous" => quote.date > 0)
    THEN {[session |-> PriceSession(quote), observed |-> quote.date, price |-> quote.price]}
    ELSE {}

\* Otherwise the close of the latest session up to the capture that has one, however old.
CloseBaselines(at) ==
    {[session |-> d, observed |-> d, price |-> closes[d]] :
        d \in {e \in Days : /\ e <= at /\ closes[e] # 0
                           /\ \A f \in Days : f <= at /\ closes[f] # 0 => f <= e}}

Baselines(at) ==
    IF QuoteBaselines(at) # {} THEN QuoteBaselines(at)
    ELSE IF CloseBaselines(at) # {} THEN CloseBaselines(at) ELSE {NoBaseline}

\* The action's baseline price is frozen; what it reads may be younger than captured_at.
FreezeBaseline(r) ==
    /\ At(r, "freeze")
    /\ \E b \in Baselines(task[r].at) :
          Becomes(r, [task[r] EXCEPT !.place = "commit", !.base = b])
    /\ UNCHANGED <<core, records, outcomes, links, nextId, told>>

FirstOutcome(b) == [status |-> IF b.price = 0 THEN "BASELINE_UNAVAILABLE" ELSE "PENDING",
                    price |-> 0]

\* Record, action and outcomes become visible together, and are answered.
CommitCapture(r) ==
    /\ At(r, "commit")
    /\ LET t == task[r]
       IN  /\ records' = records \cup {[id |-> t.id, key |-> t.key, view |-> t.view,
                                        at |-> t.at, base |-> t.base]}
           /\ outcomes' = [row \in Rows |->
                              IF row[1] = t.id THEN FirstOutcome(t.base) ELSE outcomes[row]]
           /\ told' = told \cup {[key |-> t.key, view |-> t.view, id |-> t.id]}
    /\ Becomes(r, Idle)
    /\ UNCHANGED <<core, links, nextId>>

-----------------------------------------------------------------------------
(* POST .../outcomes/refresh.                                              *)

Target(x, h) == x.base.session + h

\* What the query selects.
Open(row) == outcomes[row].status \in {"PENDING", "DATA_UNAVAILABLE"}

\* Mutant of Due: the session of today counts as over.
DueToday == {row \in Rows : /\ Open(row)
                            /\ \E x \in records : x.id = row[1] /\ Target(x, row[2]) <= today}

\* Of the selected rows those whose session is over; the others it leaves as they are.
Due == {row \in Rows : /\ Open(row)
                       /\ \E x \in records : x.id = row[1] /\ Target(x, row[2]) < today}

\* The query loads the rows as they are now.
StartRefresh(r) ==
    /\ At(r, "idle") /\ Due # {}
    /\ Becomes(r, [Idle EXCEPT !.place = "close", !.todo = Due,
                               !.seen = [row \in Rows |->
                                            IF row \in Due THEN outcomes[row] ELSE NoOutcome]])
    /\ UNCHANGED <<core, records, outcomes, links, nextId, told>>

\* The order of the rows: by record, then by horizon.
Precedes(row, other) == row[1] < other[1] \/ (row[1] = other[1] /\ row[2] <= other[2])

\* What a loaded row is set to: without a close it keeps the price it was loaded with.
Measured(old, close) ==
    IF close = 0 THEN [old EXCEPT !.status = "DATA_UNAVAILABLE"]
    ELSE [status |-> "READY", price |-> close]

\* The close of a session, or 0; there is none past the days of the run.
CloseOn(d) == IF d \in Days THEN closes[d] ELSE 0

\* The close of the next row's session, as it is at this moment.
ObserveClose(r, row) ==
    /\ At(r, "close")
    /\ row \in task[r].todo
    /\ \A other \in task[r].todo : Precedes(row, other)
    /\ \E x \in {y \in records : y.id = row[1]} :
          Becomes(r, [task[r] EXCEPT
                        !.todo = @ \ {row},
                        !.found[row] = Measured(task[r].seen[row], CloseOn(Target(x, row[2]))),
                        !.place = IF task[r].todo = {row} THEN "flush" ELSE "close"])
    /\ UNCHANGED <<core, records, outcomes, links, nextId, told>>

\* Mutant of Updated: all columns are set.
UpdatedWhole(now, seen, found) == found

\* An UPDATE sets the columns that differ from the loaded row, and only those.
Updated(now, seen, found) ==
    [status |-> IF found.status # seen.status THEN found.status ELSE now.status,
     price |-> IF found.price # seen.price THEN found.price ELSE now.price]

\* The rows are updated by their ids, whatever they have become, and committed.
FlushOutcomes(r) ==
    /\ At(r, "flush")
    /\ outcomes' = [row \in Rows |-> IF task[r].found[row] = NoOutcome THEN outcomes[row]
                                     ELSE Updated(outcomes[row], task[r].seen[row],
                                                  task[r].found[row])]
    /\ Becomes(r, Idle)
    /\ UNCHANGED <<core, records, links, nextId, told>>

-----------------------------------------------------------------------------
(* POST .../actions/{id}/links and DELETE .../links/{id}.                  *)

\* The clock is read and the action is loaded.
StartLink(r, x, o) ==
    /\ At(r, "idle") /\ Cardinality(links) < MaxLinks
    /\ x \in records
    /\ Becomes(r, [Idle EXCEPT !.place = "operation", !.id = x.id, !.at = today, !.op = o])
    /\ UNCHANGED <<core, records, outcomes, links, nextId, told>>

\* The record whose action a request links.
Chosen(r) == {x \in records : x.id = task[r].id}

\* The operation must be active and of the action's side.
LoadOperation(r) ==
    /\ At(r, "operation")
    /\ \E x \in Chosen(r) :
          IF /\ journal[task[r].op].status = "ACTIVE"
             /\ OperationSide[task[r].op] = SideOf[x.view]
          THEN Goto(r, "window") ELSE Becomes(r, Idle)
    /\ UNCHANGED <<core, records, outcomes, links, nextId, told>>

\* The captures that end the window of a record: later ones, by time and then by id.
Later(x) == {y \in records : y.at > x.at \/ (y.at = x.at /\ y.id > x.id)}

\* Mutant of InWindow: the next capture bounds the window, the capture itself does not.
InWindowBelow(x, occurred, now) ==
    /\ occurred <= now
    /\ \A y \in Later(x) : y.at <= now => occurred < y.at

\* From the capture to the next one, or to now.
InWindow(x, occurred, now) ==
    /\ x.at <= occurred /\ occurred <= now
    /\ \A y \in Later(x) : y.at <= now => occurred < y.at

\* The index allows one active link of an action and an operation.
Active(id, o) == {l \in links : l.active /\ l.record = id /\ l.op = o}
Pair(r) == Active(task[r].id, task[r].op)

\* The window is computed from the committed captures, then an active link is looked for.
CheckWindow(r) ==
    /\ At(r, "window")
    /\ \E x \in Chosen(r) :
          IF InWindow(x, journal[task[r].op].at, task[r].at) /\ Pair(r) = {}
          THEN Goto(r, "insert_link") ELSE Becomes(r, Idle)
    /\ UNCHANGED <<core, records, outcomes, links, nextId, told>>

NewLink(r) == [id |-> Cardinality(links) + 1, record |-> task[r].id, op |-> task[r].op,
               at |-> task[r].at, active |-> TRUE]

\* Mutant of ConfirmLink: no unique index of the active links.
ConfirmTwice(r) ==
    /\ At(r, "insert_link")
    /\ links' = IF Cardinality(links) < MaxLinks THEN links \cup {NewLink(r)} ELSE links
    /\ Becomes(r, Idle)
    /\ UNCHANGED <<core, records, outcomes, nextId, told>>

\* The link is inserted and committed; if another request was faster its link is the answer,
\* and if that one was removed meanwhile, an error.  Past the bound of the links it fails.
ConfirmLink(r) ==
    /\ At(r, "insert_link")
    /\ links' = IF Pair(r) = {} /\ Cardinality(links) < MaxLinks
                THEN links \cup {NewLink(r)} ELSE links
    /\ Becomes(r, Idle)
    /\ UNCHANGED <<core, records, outcomes, nextId, told>>

\* A link is only marked, and the history kept.
Unlink(l) ==
    /\ l \in links /\ l.active
    /\ links' = (links \ {l}) \cup {[l EXCEPT !.active = FALSE]}
    /\ UNCHANGED <<core, records, outcomes, nextId, task, told>>

-----------------------------------------------------------------------------
\* The process or its connection dies: the transaction is rolled back, its index entries freed.
Crash(r) ==
    /\ ~At(r, "idle")
    /\ Becomes(r, Idle)
    /\ UNCHANGED <<core, records, outcomes, links, nextId, told>>

Step(r) ==
    \/ FindExistingCapture(r) \/ CaptureDecision(r) \/ InsertRecord(r)
    \/ FreezeBaseline(r) \/ CommitCapture(r)
    \/ \E row \in Rows : ObserveClose(r, row)
    \/ FlushOutcomes(r)
    \/ LoadOperation(r) \/ CheckWindow(r) \/ ConfirmLink(r)

Request(r) ==
    \/ \E k \in Keys, v \in Views : StartCapture(r, k, v)
    \/ StartRefresh(r)
    \/ \E x \in records, o \in Operations : StartLink(r, x, o)

Next ==
    \/ World
    \/ \E l \in links : Unlink(l)
    \/ \E r \in Requests : Request(r) \/ Step(r) \/ Crash(r)

Spec == Init /\ [][Next]_vars

\* A request that can take its next step takes it.
FairSpec == Spec /\ \A r \in Requests : WF_vars(Step(r))
-----------------------------------------------------------------------------
(* Properties.                                                             *)

Places == {"idle", "lookup", "check", "insert", "freeze", "commit", "close", "flush",
           "operation", "window", "insert_link"}

BaselineType == [session : Days, observed : Days, price : Prices \cup {0}]
OutcomeType == [status : {"none", "PENDING", "READY", "DATA_UNAVAILABLE", "BASELINE_UNAVAILABLE"},
                price : Prices \cup {0}]
RecordType == [id : Ids, key : Keys, view : Views, at : Days, base : BaselineType]
LinkType == [id : Nat, record : Ids, op : Operations, at : Days, active : BOOLEAN]
TaskType == [place : Places, key : Keys \cup {None}, view : Views \cup {None}, shown : BOOLEAN,
             id : Ids \cup {0}, at : Days, base : BaselineType, op : Operations \cup {None},
             todo : SUBSET Rows, seen : [Rows -> OutcomeType], found : [Rows -> OutcomeType]]

TypeOK ==
    /\ today \in Days
    /\ quote \in [kind : {"none", "last", "previous"}, date : Days, price : Prices \cup {0}]
    /\ closes \in [Days -> Prices \cup {0}]
    /\ journal \in [Operations -> [status : {"none", "ACTIVE", "CANCELLED"}, at : Days]]
    /\ records \subseteq RecordType
    /\ outcomes \in [Rows -> OutcomeType]
    /\ links \subseteq LinkType
    /\ nextId \in 1..MaxRecords + 1
    /\ task \in [Requests -> TaskType]
    /\ told \subseteq [key : Keys, view : Views, id : Ids]

\* However captures with one key overlap, are repeated or die, the key has one record, and every
\* answer shows that record and what its own screen showed (find_existing_capture,
\* capture_decision and the unique index).
OneRecordPerKey ==
    /\ \A x, y \in records : x.key = y.key => x = y
    /\ \A a \in told : \E x \in records : x.id = a.id /\ x.key = a.key /\ x.view = a.view

\* captured_at is read before the prices are, and time passes in between: still no baseline was
\* observed, or belongs to a session, after the capture (_freeze_baseline, _eod_close_asof).
BaselineWasKnown ==
    \A x \in records : x.base.observed <= x.at /\ x.base.session <= x.at

\* Whatever refreshes overlap, a READY outcome has a price and its session is over, a PENDING one
\* has none, and an action without a baseline is never measured (refresh_outcomes).
OutcomesAreMature ==
    \A x \in records, h \in Horizons :
        LET outcome == outcomes[<<x.id, h>>]
        IN  /\ outcome.status = "READY" => outcome.price # 0 /\ Target(x, h) < today
            /\ outcome.status = "PENDING" => outcome.price = 0
            /\ outcome.status = "BASELINE_UNAVAILABLE" <=> x.base.price = 0

\* A READY outcome is rewritten only by a refresh that loaded it before it was READY, it goes back
\* only if that refresh loaded it PENDING, and an observed price is never lost: an UPDATE of
\* refresh_outcomes sets no column the refresh did not change.
ReadyLostToOverlapOnly ==
    [][\A row \in Rows :
        /\ outcomes[row].status = "READY" /\ outcomes'[row] # outcomes[row] =>
             \E r \in Requests :
                /\ At(r, "flush")
                /\ task[r].seen[row].status \in {"PENDING", "DATA_UNAVAILABLE"}
                /\ outcomes'[row].status # "READY" => task[r].seen[row].status = "PENDING"
        /\ outcomes[row].price # 0 => outcomes'[row].price # 0]_outcomes

\* A link names an operation of the action's side that happened after the capture and before the
\* link was made (confirm_operation_link), whatever was captured or cancelled meanwhile.
LinkedInWindow ==
    \A l \in links : \E x \in records :
        /\ x.id = l.record
        /\ SideOf[x.view] = OperationSide[l.op]
        /\ x.at <= journal[l.op].at /\ journal[l.op].at <= l.at

\* Links made and removed at the same time leave at most one active link of an action and an
\* operation (the partial unique index behind confirm_operation_link).
OneActiveLink ==
    \A l, m \in links :
        l.active /\ m.active /\ l.record = m.record /\ l.op = m.op => l = m

\* No request waits for ever: the one that holds the key it waits for commits or dies.
RequestsEnd == \A r \in Requests : ~At(r, "idle") ~> At(r, "idle")

\* docs/research/research-evidence-engine-v1.md:25 "Prospective evidence is a read-only aggregation
\* of outcomes that matured after decisions/predictions already existed": no session an outcome is
\* measured at was over when the decision was captured.
MaturesAfterCapture ==
    \A x \in records, h \in Horizons :
        outcomes[<<x.id, h>>].status = "READY" => Target(x, h) >= x.at
=============================================================================
