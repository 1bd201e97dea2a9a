--------------------------- MODULE PersonalLedger ---------------------------
(***************************************************************************)
(* The personal portfolio API under concurrent requests                    *)
(* (api/v1/personal_portfolios.py).  Every mutation runs in one database   *)
(* transaction that first locks the portfolio's row (lock_portfolio;       *)
(* renames and broker assignments lock it with their UPDATE), decides on   *)
(* what it then reads, and commits when its answer is built.  A client     *)
(* whose answer is lost sends the same request again, at any later time.   *)
(***************************************************************************)
EXTENDS PersonalBook

CONSTANTS
    Handlers,    \* threads that serve requests
    Requests,    \* the requests clients send, each any number of times
    Times,       \* instants an activation may happen at
    Nobody       \* the row is not locked

ASSUME HandlerAssumption ==
    /\ Nobody \notin Handlers
    /\ \A r \in Requests : r.kind \in Kinds /\ (r.kind = "create" => r.key # None)

\* What the request models of the API let through; a position is edited to some units, or removed.
ASSUME RequestAssumption ==
    /\ None \notin Int
    /\ BrokerFee \in Nat
    /\ Times \subseteq Int
    /\ \A r \in Requests :
        /\ r.kind = "create" =>
            /\ r.type \in OperationTypes
            /\ r.occurred \in Int /\ r.units \in Int /\ r.amount \in Int
            /\ r.price \in Int \cup {None} /\ r.commission \in Nat \cup {None}
        /\ r.kind = "cash" => r.cash \in Nat
        /\ r.kind = "position" =>
            /\ r.instrument \in Instruments
            /\ r.position \in {NoPosition} \cup [units: Nat \ {0}, cost: Int \cup {None}]

VARIABLES
    db,      \* what is committed
    lock,    \* the handler whose transaction holds the portfolio's row
    task,    \* what each handler's transaction is about to commit
    told     \* the answers clients have got: a key and the id of its operation

vars == <<db, lock, task, told>>

Idle == [place |-> "idle"]
Ready(r, outcome) == [place |-> "ready", request |-> r, outcome |-> outcome]

Init ==
    /\ db = EmptyDb
    /\ lock = Nobody
    /\ task = [h \in Handlers |-> Idle]
    /\ told = {}

\* Mutant of Serve: the row is read without a lock.
ServeUnlocked(h, r) ==
    /\ task[h] = Idle
    /\ db.status # "ABSENT"
    /\ \E now \in Times : \E outcome \in Outcomes(db, r, now) :
        /\ task' = [task EXCEPT ![h] = Ready(r, outcome)]
        /\ outcome # Refused(db)
    /\ lock' = h
    /\ UNCHANGED <<db, told>>

\* SELECT ... FOR UPDATE, then everything up to the answer; nothing is visible yet.
Serve(h, r) ==
    /\ task[h] = Idle
    /\ lock = Nobody
    /\ db.status # "ABSENT"
    /\ \E now \in Times : \E outcome \in Outcomes(db, r, now) :
        /\ task' = [task EXCEPT ![h] = Ready(r, outcome)]
        /\ outcome # Refused(db)
    /\ lock' = h
    /\ UNCHANGED <<db, told>>

Wipes(r) == r.kind \in {"reset", "delete"}

\* What this commit lets the client of a create request know.
Told(r, answer) ==
    IF Wipes(r) THEN {}
    ELSE IF r.kind = "create" THEN told \cup {[key |-> r.key, id |-> answer]} ELSE told

\* core_session commits; the answer arrives, or the connection is lost after the commit.
Commit(h) ==
    /\ task[h].place = "ready"
    /\ db' = task[h].outcome.db
    /\ told' \in {Told(task[h].request, task[h].outcome.answer),
                  IF Wipes(task[h].request) THEN {} ELSE told}
    /\ lock' = IF lock = h THEN Nobody ELSE lock
    /\ task' = [task EXCEPT ![h] = Idle]

\* The process or its connection dies before the commit: the transaction rolls back.
Crash(h) ==
    /\ task[h].place = "ready"
    /\ lock' = IF lock = h THEN Nobody ELSE lock
    /\ task' = [task EXCEPT ![h] = Idle]
    /\ UNCHANGED <<db, told>>

Next == \E h \in Handlers : (\E r \in Requests : Serve(h, r)) \/ Commit(h) \/ Crash(h)

Spec == Init /\ [][Next]_vars
-----------------------------------------------------------------------------
TypeOK ==
    /\ db.status \in {"DRAFT", "ACTIVE", "ABSENT"}
    /\ db.lastId \in 0..MaxId
    /\ DOMAIN db.journal \subseteq 1..db.lastId
    /\ lock \in Handlers \cup {Nobody}
    /\ \A h \in Handlers : task[h].place \in {"idle", "ready"}

Accounts(journal, totals) == Replay(journal).valid /\ totals = Replay(journal).totals

\* What the portfolio shows is what its journal replays to, and the replay has no error: the
\* reconciliation (reconcile) finds no mismatch in any committed state.
ShowsItsJournal ==
    db.status = "ACTIVE" => Accounts(db.journal, db.totals)

\* Operations inserted into the past and cancellations never leave a moment of the history with
\* an error, negative cash or negative positions: every prefix of the replay is sound, not only
\* its end.
NeverOverdrawn ==
    \A id \in ActiveIds(db.journal) :
        LET moment == ReplayOf(db.journal, {j \in ActiveIds(db.journal) :
                                                j = id \/ Before(db.journal, j, id)})
        IN  /\ moment.valid
            /\ moment.totals.cash >= 0
            /\ \A i \in Instruments : moment.totals.positions[i].units >= 0

\* A key that was answered once names the same stored operation in every later answer, and that
\* operation stays in the journal until the owner resets or deletes the portfolio.
AnswersAreKept ==
    \A answer \in told :
        /\ answer.id \in DOMAIN db.journal
        /\ WithKey(db.journal, answer.key) = {answer.id}

\* Everything entered by hand comes after the opening snapshot it builds on.
OpeningComesFirst ==
    \A id, opening \in ActiveIds(db.journal) :
        /\ db.journal[opening].source = "OPENING_SNAPSHOT"
        /\ db.journal[id].source = "MANUAL"
        => db.journal[opening].occurred < db.journal[id].occurred

\* What an operation takes from the portfolio that is neither traded nor withdrawn.
Outlay(op) ==
    CASE op.type \in {"COMMISSION", "TAX", "OTHER_FEE"} -> Fee(op)
      [] op.type \in {"DIVIDEND", "COUPON", "AMORTIZATION"} -> -op.amount
      [] OTHER -> 0
Outlays(journal, ids) == SumFunction([id \in ids |-> Outlay(journal[id])])

Bought(journal, ids) == {id \in ids : journal[id].type \in {"BUY", "OPENING_POSITION"}}
UnitsBought(journal, ids) == SumFunction([id \in Bought(journal, ids) |-> journal[id].units])

Basis(totals) ==
    SumFunction([i \in Instruments |-> IF totals.positions[i].units > 0
                                       THEN totals.positions[i].units * totals.positions[i].cost
                                       ELSE 0])

\* Half a quantum per unit for every averaging purchase is all the result can lose: otherwise
\* cash and cost basis are the net contributions and the realized result, less the fees and with
\* the income.
ResultIsAccounted ==
    LET ids == ActiveIds(db.journal)
        totals == db.totals
        net == totals.contributed - totals.withdrawn + totals.realized - Outlays(db.journal, ids)
        slack == Cardinality(Bought(db.journal, ids)) * UnitsBought(db.journal, ids)
    IN  db.status = "ACTIVE" /\ ~Replay(db.journal).incomplete =>
            2 * (totals.cash + Basis(totals) - net) \in -slack..slack

\* An activation keeps the cash and the positions the draft showed.
Preserves ==
    db.status = "DRAFT" /\ HasSnapshot(db) /\ db'.status = "ACTIVE" =>
        /\ db'.totals.cash = db.totals.cash
        /\ db'.totals.positions = db.totals.positions
ActivationKeepsTheDraft == [][Preserves]_vars

\* The committed portfolio, whatever the handlers are at, implements JournalBook.
Book == INSTANCE JournalBook
            WITH status <- db.status, shown <- db.totals, journal <- db.journal,
                 Nothing <- EmptyTotals
ImplementsJournalBook == Book!Spec
=============================================================================
