---------------------------- MODULE PersonalBook ----------------------------
(***************************************************************************)
(* One personal portfolio as the database keeps it, and what each request  *)
(* of the API makes of it.                                                 *)
(*                                                                         *)
(* The journal of operations is the history; the portfolio row and its     *)
(* positions show what replaying the journal's ACTIVE operations gives     *)
(* (portfolio/domain/personal_ledger.py).  Money and prices are counted in *)
(* quanta (MONEY, six decimals), so money() rounds only where it divides.  *)
(***************************************************************************)
EXTENDS Integers, FiniteSets, FiniteSetsExt, Functions

CONSTANTS
    Instruments,   \* everything a portfolio may hold
    Tradable,      \* the instruments that are not bonds: only these can be bought and sold
    None,          \* no instrument, price, commission, key or broker account
    BrokerFee,     \* what the assigned broker's profile charges for a trade
    MaxId          \* bound: ids of journal rows

ASSUME BookAssumption ==
    /\ IsFiniteSet(Instruments)
    /\ Tradable \subseteq Instruments
    /\ MaxId \in Nat

Ids == 1..MaxId

Money(total, units) == (2 * total + units) \div (2 * units)   \* ROUND_HALF_UP of total / units

OperationTypes ==
    {"OPENING_CASH", "OPENING_POSITION", "DEPOSIT", "WITHDRAWAL", "BUY", "SELL",
     "COMMISSION", "TAX", "OTHER_FEE", "DIVIDEND", "COUPON", "AMORTIZATION"}

(***************************************************************************)
(* The ledger: cash, external flows, realized result, positions at their   *)
(* weighted average cost (None: unknown).  An instrument without a position *)
(* has no units.  An event the ledger refuses makes it invalid for good:   *)
(* LedgerError ends the replay.                                            *)
(***************************************************************************)
NoPosition == [units |-> 0, cost |-> None]

EmptyTotals == [cash |-> 0, contributed |-> 0, withdrawn |-> 0, realized |-> 0,
                positions |-> [i \in Instruments |-> NoPosition]]

EmptyLedger == [totals |-> EmptyTotals, incomplete |-> FALSE, valid |-> TRUE]

Error(ledger) == [ledger EXCEPT !.valid = FALSE]

External(ledger, op) ==
    IF op.amount <= 0 THEN Error(ledger)
    ELSE [ledger EXCEPT !.totals.cash = @ + op.amount, !.totals.contributed = @ + op.amount]

Withdraw(ledger, op) ==
    IF op.amount <= 0 \/ ledger.totals.cash < op.amount THEN Error(ledger)
    ELSE [ledger EXCEPT !.totals.cash = @ - op.amount, !.totals.withdrawn = @ + op.amount]

\* A COMMISSION without an amount charges its commission.
Fee(op) == IF op.type = "COMMISSION" /\ op.amount = 0 THEN op.commission ELSE op.amount

Charge(ledger, op) ==
    IF Fee(op) <= 0 \/ ledger.totals.cash < Fee(op) THEN Error(ledger)
    ELSE [ledger EXCEPT !.totals.cash = @ - Fee(op)]

Income(ledger, op) ==
    IF op.amount <= 0 THEN Error(ledger)
    ELSE [ledger EXCEPT !.totals.cash = @ + op.amount]

\* A known cost is averaged into a known one; any unknown side makes it unknown.
Mixed(book, units, total) ==
    [units |-> book.units + units, cost |-> Money(total, book.units + units)]
Unknown(book, units) == [units |-> book.units + units, cost |-> None]

Open(ledger, op) ==
    LET book == ledger.totals.positions[op.instrument]
        value == op.units * op.price
        known == op.price # None /\ (book.units > 0 => book.cost # None)
    IN  IF op.units <= 0 \/ (op.price # None /\ op.price < 0) THEN Error(ledger)
        ELSE IF op.price = None \/ ~known
        THEN [ledger EXCEPT !.totals.positions[op.instrument] = Unknown(book, op.units),
                            !.incomplete = TRUE]
        ELSE [ledger EXCEPT
                !.totals.contributed = @ + value,
                !.totals.positions[op.instrument] =
                    IF book.units = 0 THEN [units |-> op.units, cost |-> op.price]
                    ELSE Mixed(book, op.units, book.units * book.cost + value)]

\* Mutant of Buy: the cash is compared with the price, without the commission.
BuyOnCredit(ledger, op) ==
    LET book == ledger.totals.positions[op.instrument]
        paid == op.units * op.price + op.commission
    IN  IF ledger.totals.cash < op.units * op.price THEN Error(ledger)
        ELSE [ledger EXCEPT !.totals.cash = @ - paid,
                            !.totals.positions[op.instrument] =
                                [units |-> book.units + op.units, cost |-> op.price]]

Buy(ledger, op) ==
    LET book == ledger.totals.positions[op.instrument]
        paid == op.units * op.price + op.commission
        prior == IF book.cost = None THEN 0 ELSE book.units * book.cost
    IN  IF op.units <= 0 \/ op.price = None THEN Error(ledger)
        ELSE IF op.price <= 0 \/ ledger.totals.cash < paid THEN Error(ledger)
        ELSE IF book.units > 0 /\ book.cost = None
        THEN [ledger EXCEPT !.totals.cash = @ - paid, !.incomplete = TRUE,
                            !.totals.positions[op.instrument] = Unknown(book, op.units)]
        ELSE [ledger EXCEPT !.totals.cash = @ - paid,
                            !.totals.positions[op.instrument] =
                                Mixed(book, op.units, prior + paid)]

\* Mutant of Sell: the realized result takes the average cost of one unit.
SellOneUnit(ledger, op) ==
    LET book == ledger.totals.positions[op.instrument]
        proceeds == op.units * op.price - op.commission
    IN  IF book.units < op.units THEN Error(ledger)
        ELSE [ledger EXCEPT
                !.totals.cash = @ + proceeds,
                !.totals.realized = IF book.cost = None THEN @ ELSE @ + proceeds - book.cost,
                !.totals.positions[op.instrument] =
                    IF book.units = op.units THEN NoPosition
                    ELSE [book EXCEPT !.units = @ - op.units],
                !.incomplete = @ \/ book.cost = None]

Sell(ledger, op) ==
    LET book == ledger.totals.positions[op.instrument]
        proceeds == op.units * op.price - op.commission
    IN  IF op.units <= 0 \/ op.price = None \/ book.units < op.units THEN Error(ledger)
        ELSE IF op.price <= 0 \/ proceeds < 0 THEN Error(ledger)
        ELSE [ledger EXCEPT
                !.totals.cash = @ + proceeds,
                !.totals.realized =
                    IF book.cost = None THEN @ ELSE @ + proceeds - op.units * book.cost,
                !.totals.positions[op.instrument] =
                    IF book.units = op.units THEN NoPosition
                    ELSE [book EXCEPT !.units = @ - op.units],
                !.incomplete = @ \/ book.cost = None]

ApplyEvent(ledger, op) ==
    IF ~ledger.valid THEN ledger
    ELSE IF \/ op.commission < 0
            \/ op.type \in {"OPENING_POSITION", "BUY", "SELL"} /\ op.instrument = None
    THEN Error(ledger)
    ELSE
    CASE op.type \in {"DEPOSIT", "OPENING_CASH"} -> External(ledger, op)
      [] op.type = "WITHDRAWAL" -> Withdraw(ledger, op)
      [] op.type \in {"COMMISSION", "TAX", "OTHER_FEE"} -> Charge(ledger, op)
      [] op.type \in {"DIVIDEND", "COUPON", "AMORTIZATION"} -> Income(ledger, op)
      [] op.type = "OPENING_POSITION" -> Open(ledger, op)
      [] op.type = "BUY" -> Buy(ledger, op)
      [] op.type = "SELL" -> Sell(ledger, op)

(***************************************************************************)
(* The journal: a function from the ids of its rows to the operations.     *)
(***************************************************************************)
ActiveIds(journal) == {id \in DOMAIN journal : journal[id].status = "ACTIVE"}

\* ORDER BY occurred_at, id
Before(journal, a, b) ==
    \/ journal[a].occurred < journal[b].occurred
    \/ journal[a].occurred = journal[b].occurred /\ a < b

Latest(journal, ids) == CHOOSE a \in ids : \A b \in ids \ {a} : Before(journal, b, a)

\* The ledger after the given rows, in journal order.
ReplayOf(journal, ids) ==
    MapThenFoldSet(LAMBDA op, ledger : ApplyEvent(ledger, op), EmptyLedger,
                   LAMBDA id : journal[id], LAMBDA rest : Latest(journal, rest), ids)

Replay(journal) == ReplayOf(journal, ActiveIds(journal))

\* Mutant of WithKey: a key is looked up among the ACTIVE rows only.
WithActiveKey(journal, key) ==
    {id \in ActiveIds(journal) : key # None /\ journal[id].key = key}

WithKey(journal, key) == {id \in DOMAIN journal : key # None /\ journal[id].key = key}

\* What a repeated key must agree on (the keys, the status and the reason are not compared).
Fingerprint(op) == <<op.type, op.occurred, op.instrument, op.units, op.price, op.amount,
                     op.commission, op.supersedes>>

\* Mutant of AfterCutover: an operation at the very instant of the cutover is let in.
AtOrAfterCutover(journal, occurred) ==
    \A id \in DOMAIN journal :
        journal[id].source = "OPENING_SNAPSHOT" => journal[id].occurred <= occurred

\* Later than MIN(occurred_at) of the opening rows, whatever their status.
AfterCutover(journal, occurred) ==
    LET openings == {id \in DOMAIN journal : journal[id].source = "OPENING_SNAPSHOT"}
        cutovers == {journal[id].occurred : id \in openings}
    IN  cutovers = {} \/ \E cutover \in cutovers : cutover < occurred

(***************************************************************************)
(* The stored portfolio: the row (status, broker account, totals), the     *)
(* journal and the last id its sequence gave.  "ABSENT": deleted.          *)
(***************************************************************************)
EmptyDb == [status |-> "DRAFT", broker |-> None, totals |-> EmptyTotals,
            journal |-> <<>>, lastId |-> 0]

\* A request's outcome: what its transaction leaves, and the operation its answer names.
Outcome(db, answer) == [db |-> db, answer |-> answer]
Refused(db) == Outcome(db, 0)

HasSnapshot(db) == db.totals.cash # 0 \/ \E i \in Instruments : db.totals.positions[i].units > 0

Journals(db) == db.status = "ACTIVE" \/ DOMAIN db.journal # {}

Put(journal, id, op) == [j \in DOMAIN journal \cup {id} |-> IF j = id THEN op ELSE journal[j]]

\* The row of a request for an operation, its commission given or estimated.
Operation(db, r) ==
    [type |-> r.type, occurred |-> r.occurred, instrument |-> r.instrument, units |-> r.units,
     price |-> r.price, amount |-> r.amount,
     commission |-> IF r.commission # None THEN r.commission
                    ELSE IF r.type \in {"BUY", "SELL"} /\ db.broker # None THEN BrokerFee ELSE 0,
     status |-> "ACTIVE", source |-> "MANUAL", key |-> r.key, supersedes |-> r.supersedes]

\* Mutant of Projected: the row's id is not counted.
ProjectedWithoutId(db, journal, answer) ==
    IF Replay(journal).valid
    THEN Outcome([db EXCEPT !.status = "ACTIVE", !.journal = journal,
                            !.totals = Replay(journal).totals], answer)
    ELSE Refused(db)

\* Write the journal and show what it replays to; a ledger error rolls the savepoint back.
Projected(db, journal, answer) ==
    IF Replay(journal).valid
    THEN Outcome([db EXCEPT !.status = "ACTIVE", !.journal = journal, !.lastId = @ + 1,
                            !.totals = Replay(journal).totals], answer)
    ELSE Refused(db)

Retire(journal, id, status) ==
    IF id = 0 THEN journal ELSE [journal EXCEPT ![id].status = status]

Supersedable(journal, id) == id = 0 \/ id \in ActiveIds(journal)

CreateOperation(db, r) ==
    LET op == Operation(db, r)
        existing == WithKey(db.journal, r.key)
        accepted == /\ r.type \notin {"OPENING_CASH", "OPENING_POSITION"}
                    /\ Journals(db) \/ ~HasSnapshot(db)
                    /\ AfterCutover(db.journal, r.occurred)
                    /\ r.type \in {"BUY", "SELL"} => r.instrument \in Tradable /\ r.units > 0
    IN  CASE ~accepted -> Refused(db)
          [] accepted /\ existing # {} ->
                LET id == CHOOSE id \in existing : TRUE
                IN  IF Fingerprint(db.journal[id]) = Fingerprint(op)
                    THEN Outcome(db, id) ELSE Refused(db)
          [] accepted /\ existing = {} ->
                IF Supersedable(db.journal, r.supersedes) /\ db.lastId < MaxId
                THEN Projected(db, Put(Retire(db.journal, r.supersedes, "SUPERSEDED"),
                                       db.lastId + 1, op), db.lastId + 1)
                ELSE Refused(db)

\* A cancelled operation keeps its row; a second row, itself CANCELLED, marks the request.
Marker(op, id, key) ==
    [op EXCEPT !.status = "CANCELLED", !.source = "MANUAL", !.key = key, !.supersedes = id]

\* Mutant of CancelOperation: the portfolio is not rebuilt.
CancelOnly(db, r) ==
    IF r.target \in ActiveIds(db.journal) /\ db.lastId < MaxId
    THEN Outcome([db EXCEPT !.journal = Put(Retire(@, r.target, "CANCELLED"), db.lastId + 1,
                                            Marker(@[r.target], r.target, r.key)),
                            !.lastId = @ + 1], r.target)
    ELSE Refused(db)

CancelOperation(db, r) ==
    LET existing == WithKey(db.journal, r.key)
    IN  CASE existing # {} ->
                LET id == CHOOSE id \in existing : TRUE
                IN  IF db.journal[id].supersedes = r.target
                    THEN Outcome(db, r.target) ELSE Refused(db)
          [] existing = {} ->
                IF r.target \in ActiveIds(db.journal) /\ db.lastId < MaxId
                THEN Projected(db, Put(Retire(db.journal, r.target, "CANCELLED"), db.lastId + 1,
                                       Marker(db.journal[r.target], r.target, r.key)), r.target)
                ELSE Refused(db)

Opening(now, type, instrument, units, price, amount) ==
    [type |-> type, occurred |-> now, instrument |-> instrument, units |-> units, price |-> price,
     amount |-> amount, commission |-> 0, status |-> "ACTIVE", source |-> "OPENING_SNAPSHOT",
     key |-> <<type, instrument>>, supersedes |-> 0]

\* Mutant of OpeningRows: positions of unknown cost are left out.
KnownOpeningRows(totals, now) ==
    {Opening(now, "OPENING_CASH", None, 0, None, c) : c \in {totals.cash} \ {0}}
    \cup {Opening(now, "OPENING_POSITION", i, totals.positions[i].units,
                  totals.positions[i].cost, 0) :
              i \in {j \in Instruments : totals.positions[j].cost # None}}

\* The opening rows of a draft: its cash and its positions, all at the cutover.
OpeningRows(totals, now) ==
    {Opening(now, "OPENING_CASH", None, 0, None, c) : c \in {totals.cash} \ {0}}
    \cup {Opening(now, "OPENING_POSITION", i, totals.positions[i].units,
                  totals.positions[i].cost, 0) :
              i \in {j \in Instruments : totals.positions[j].units > 0}}

\* The rows get consecutive ids, the cash first; positions are read in no particular order.
OpeningJournals(db, now) ==
    LET rows == OpeningRows(db.totals, now)
        ids == db.lastId + 1..db.lastId + Cardinality(rows)
    IN  {f \in [ids -> rows] :
            \A a, b \in ids : a # b => f[a] # f[b] /\ (f[b].type = "OPENING_CASH" => b < a)}

\* An active portfolio is only shown again from its journal.
Activations(db, now) ==
    IF db.status = "ACTIVE"
    THEN {Outcome([db EXCEPT !.totals = IF DOMAIN db.journal = {} THEN @
                                        ELSE Replay(db.journal).totals], 0)}
    ELSE {Outcome([db EXCEPT !.status = "ACTIVE", !.journal = journal,
                             !.lastId = @ + Cardinality(DOMAIN journal),
                             !.totals = Replay(journal).totals], 0) :
              journal \in {j \in OpeningJournals(db, now) : DOMAIN j \subseteq Ids /\ Replay(j).valid}}

\* lock_portfolio, require_draft, then the edit of the setup.
EditDraft(db, totals) ==
    IF db.status = "DRAFT" THEN Outcome([db EXCEPT !.totals = totals], 0) ELSE Refused(db)

Wiped(db, status) ==
    [db EXCEPT !.status = status, !.totals = EmptyTotals, !.journal = <<>>]

Kinds == {"create", "cancel", "activate", "cash", "position", "clear", "broker", "reset", "delete"}

\* What a request may make of the portfolio its transaction has locked.
Outcomes(db, r, now) ==
    IF db.status = "ABSENT" THEN {Refused(db)}
    ELSE
    CASE r.kind = "create" -> {CreateOperation(db, r)}
      [] r.kind = "cancel" -> {CancelOperation(db, r)}
      [] r.kind = "activate" -> Activations(db, now)
      [] r.kind = "cash" -> {EditDraft(db, [db.totals EXCEPT !.cash = r.cash])}
      [] r.kind = "position" ->
            {EditDraft(db, [db.totals EXCEPT !.positions[r.instrument] = r.position])}
      [] r.kind = "clear" -> {EditDraft(db, EmptyTotals)}
      [] r.kind = "broker" -> {Outcome([db EXCEPT !.broker = r.broker], 0)}
      [] r.kind = "reset" -> {Outcome(Wiped(db, "DRAFT"), 0)}
      [] r.kind = "delete" -> {Outcome(Wiped(db, "ABSENT"), 0)}
=============================================================================
