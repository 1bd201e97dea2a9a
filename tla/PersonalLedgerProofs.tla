------------------------ MODULE PersonalLedgerProofs ------------------------
(***************************************************************************)
(* Proofs about PersonalLedger, for any number of handlers, any requests   *)
(* and any instruments.  Replay is never expanded here: the portfolio      *)
(* shows whatever its journal replays to (PersonalReplayProofs: what that  *)
(* is).                                                                    *)
(***************************************************************************)
EXTENDS PersonalLedger, FiniteSetTheorems, TLAPS

\* What every operation row and every stored portfolio is made of.
IsRow(op) ==
    op = [type |-> op.type, occurred |-> op.occurred, instrument |-> op.instrument,
          units |-> op.units, price |-> op.price, amount |-> op.amount,
          commission |-> op.commission, status |-> op.status, source |-> op.source,
          key |-> op.key, supersedes |-> op.supersedes]

IsDb(d) == d = [status |-> d.status, broker |-> d.broker, totals |-> d.totals,
                journal |-> d.journal, lastId |-> d.lastId]

KeysDiffer(journal) ==
    \A a, b \in DOMAIN journal :
        a # b /\ journal[a].key # None => journal[a].key # journal[b].key

Sound(d) ==
    /\ IsDb(d)
    /\ d.status \in {"DRAFT", "ACTIVE", "ABSENT"}
    /\ d.lastId \in 0..MaxId
    /\ DOMAIN d.journal \subseteq 1..d.lastId
    /\ \A id \in DOMAIN d.journal : IsRow(d.journal[id])
    /\ KeysDiffer(d.journal)
    /\ d.status = "ACTIVE" => Accounts(d.journal, d.totals)
    /\ d.status # "ACTIVE" => DOMAIN d.journal = {}

\* A transaction that is under way holds the row, and decided on what is still committed.
Pending(h) ==
    \/ task[h] = Idle
    \/ /\ lock = h
       /\ \E r \in Requests, now \in Times : \E outcome \in Outcomes(db, r, now) :
            task[h] = Ready(r, outcome) /\ outcome # Refused(db)

\* Every answer names the operation that has its key.
Kept == \A answer \in told :
            /\ answer.key # None
            /\ answer.id \in DOMAIN db.journal
            /\ db.journal[answer.id].key = answer.key

Inv ==
    /\ Sound(db)
    /\ Kept
    /\ lock \in Handlers \cup {Nobody}
    /\ task = [h \in Handlers |-> task[h]]
    /\ \A h \in Handlers : Pending(h)

-----------------------------------------------------------------------------
\* Retiring a row leaves the other rows, and everything but its status, as they were.
LEMMA RetireKeeps ==
    ASSUME NEW journal, NEW id, NEW reason, id = 0 \/ id \in DOMAIN journal, 0 \notin DOMAIN journal,
           \A j \in DOMAIN journal : IsRow(journal[j])
    PROVE  /\ DOMAIN Retire(journal, id, reason) = DOMAIN journal
           /\ \A j \in DOMAIN journal :
                /\ j # id => Retire(journal, id, reason)[j] = journal[j]
                /\ j = id => Retire(journal, id, reason)[j] = [journal[j] EXCEPT !.status = reason]
                /\ IsRow(Retire(journal, id, reason)[j])
                /\ Retire(journal, id, reason)[j].key = journal[j].key
<1>1. CASE id = 0
  BY <1>1 DEF Retire
<1>2. CASE id # 0
  <2>1. Retire(journal, id, reason) = [journal EXCEPT ![id].status = reason]
    BY <1>2 DEF Retire
  <2>2. IsRow([journal[id] EXCEPT !.status = reason])
    BY <1>2 DEF IsRow
  <2>3. [journal[id] EXCEPT !.status = reason].key = journal[id].key
    BY <1>2 DEF IsRow
  <2> QED BY <1>2, <2>1, <2>2, <2>3
<1> QED BY <1>1, <1>2

\* What Projected stores when it records a row and retires at most one other: a sound portfolio,
\* by one Record step of JournalBook.
LEMMA RecordIsSound ==
    ASSUME Sound(db), db.status \in {"DRAFT", "ACTIVE"}, db.lastId < MaxId,
           NEW id, id = 0 \/ id \in ActiveIds(db.journal),
           NEW reason \in {"SUPERSEDED", "CANCELLED"},
           NEW op, IsRow(op), WithKey(db.journal, op.key) = {},
           NEW journal, journal = Put(Retire(db.journal, id, reason), db.lastId + 1, op),
           Replay(journal).valid,
           db' = [db EXCEPT !.status = "ACTIVE", !.journal = journal, !.lastId = @ + 1,
                            !.totals = Replay(journal).totals]
    PROVE  Sound(db)' /\ Book!Record
<1> DEFINE last == db.lastId + 1
<1>0. /\ db.lastId \in Nat /\ MaxId \in Nat /\ last \in 1..MaxId /\ last \in Ids
      /\ DOMAIN db.journal \subseteq 1..db.lastId
      /\ last \notin DOMAIN db.journal
      /\ 0 \notin DOMAIN db.journal
  BY BookAssumption DEF Sound, Ids
<1>1. /\ db'.status = "ACTIVE" /\ db'.journal = journal /\ db'.lastId = last
      /\ db'.totals = Replay(journal).totals
      /\ IsDb(db')
  BY DEF Sound, IsDb
<1>2. id = 0 \/ (id \in DOMAIN db.journal /\ db.journal[id].status = "ACTIVE")
  BY DEF ActiveIds
<1>3. /\ DOMAIN Retire(db.journal, id, reason) = DOMAIN db.journal
      /\ \A j \in DOMAIN db.journal :
            /\ j # id => Retire(db.journal, id, reason)[j] = db.journal[j]
            /\ j = id => Retire(db.journal, id, reason)[j]
                            = [db.journal[j] EXCEPT !.status = reason]
            /\ IsRow(Retire(db.journal, id, reason)[j])
            /\ Retire(db.journal, id, reason)[j].key = db.journal[j].key
  <2>1. \A j \in DOMAIN db.journal : IsRow(db.journal[j])
    BY DEF Sound
  <2> QED BY <1>0, <1>2, <2>1, RetireKeeps
<1>4. /\ DOMAIN journal = DOMAIN db.journal \cup {last}
      /\ journal[last] = op
      /\ \A j \in DOMAIN db.journal : journal[j] = Retire(db.journal, id, reason)[j]
  BY <1>0, <1>3 DEF Put
<1>5. \A j \in DOMAIN db.journal : op.key # None => db.journal[j].key # op.key
  BY DEF WithKey
<1>6. Sound(db)'
  <2>1. \A j \in DOMAIN journal : IsRow(journal[j])
    BY <1>3, <1>4
  <2>2. KeysDiffer(journal)
    <3>1. \A j \in DOMAIN db.journal : journal[j].key = db.journal[j].key
      BY <1>3, <1>4
    <3>2. KeysDiffer(db.journal)
      BY DEF Sound
    <3> SUFFICES ASSUME NEW a \in DOMAIN journal, NEW b \in DOMAIN journal, a # b,
                        journal[a].key # None
                 PROVE  journal[a].key # journal[b].key
      BY DEF KeysDiffer
    <3>3. CASE a = last \/ b = last
      BY <1>4, <1>5, <3>1, <3>3
    <3>4. CASE a # last /\ b # last
      BY <1>4, <3>1, <3>2, <3>4 DEF KeysDiffer
    <3> QED BY <3>3, <3>4
  <2>3. DOMAIN journal \subseteq 1..last
    BY <1>0, <1>4
  <2> QED BY <1>0, <1>1, <2>1, <2>2, <2>3 DEF Sound, Accounts
<1>7. Book!Record
  <2>1. \A other \in DOMAIN db.journal : other < last
    BY <1>0
  <2>2. \A other \in DOMAIN db.journal :
            journal[last].key # None => db.journal[other].key # journal[last].key
    BY <1>4, <1>5
  <2>3. \A other \in DOMAIN db.journal :
            IF other = id THEN Book!Retires(db.journal[other], journal[other])
            ELSE journal[other] = db.journal[other]
    BY <1>0, <1>2, <1>3, <1>4 DEF Book!Retires
  <2>4. id \in Ids \cup {0}
    BY <1>0, <1>2 DEF Ids
  <2>5. Accounts(db'.journal, db'.totals)
    BY <1>1 DEF Accounts
  <2>6. \E added \in Ids, retired \in Ids \cup {0} :
            /\ DOMAIN db'.journal = DOMAIN db.journal \cup {added}
            /\ \A other \in DOMAIN db.journal :
                /\ other < added
                /\ db'.journal[added].key # None => db.journal[other].key # db'.journal[added].key
                /\ IF other = retired THEN Book!Retires(db.journal[other], db'.journal[other])
                   ELSE db'.journal[other] = db.journal[other]
    <3>1. DOMAIN db'.journal = DOMAIN db.journal \cup {last}
      BY <1>1, <1>4
    <3>2. \A other \in DOMAIN db.journal :
                /\ other < last
                /\ db'.journal[last].key # None => db.journal[other].key # db'.journal[last].key
                /\ IF other = id THEN Book!Retires(db.journal[other], db'.journal[other])
                   ELSE db'.journal[other] = db.journal[other]
      BY <1>1, <2>1, <2>2, <2>3
    <3> HIDE DEF last
    <3> QED BY <1>0, <2>4, <3>1, <3>2
  <2> QED BY <1>1, <2>5, <2>6 DEF Book!Record
<1> QED BY <1>6, <1>7

\* The three ways a request for an operation can go.
LEMMA CreateCases ==
    ASSUME NEW r
    PROVE  \/ CreateOperation(db, r) = Refused(db)
           \/ \E id \in WithKey(db.journal, r.key) : CreateOperation(db, r) = Outcome(db, id)
           \/ /\ WithKey(db.journal, r.key) = {}
              /\ Supersedable(db.journal, r.supersedes)
              /\ db.lastId < MaxId
              /\ CreateOperation(db, r) =
                    Projected(db, Put(Retire(db.journal, r.supersedes, "SUPERSEDED"),
                                      db.lastId + 1, Operation(db, r)), db.lastId + 1)
<1> DEFINE op == Operation(db, r)
           existing == WithKey(db.journal, r.key)
           accepted == /\ r.type \notin {"OPENING_CASH", "OPENING_POSITION"}
                       /\ Journals(db) \/ ~HasSnapshot(db)
                       /\ AfterCutover(db.journal, r.occurred)
                       /\ r.type \in {"BUY", "SELL"} => r.instrument \in Tradable /\ r.units > 0
           found == CHOOSE id \in existing : TRUE
<1>1. CreateOperation(db, r) =
        CASE ~accepted -> Refused(db)
          [] accepted /\ existing # {} ->
                IF Fingerprint(db.journal[found]) = Fingerprint(op)
                THEN Outcome(db, found) ELSE Refused(db)
          [] accepted /\ existing = {} ->
                IF Supersedable(db.journal, r.supersedes) /\ db.lastId < MaxId
                THEN Projected(db, Put(Retire(db.journal, r.supersedes, "SUPERSEDED"),
                                       db.lastId + 1, op), db.lastId + 1)
                ELSE Refused(db)
  BY DEF CreateOperation
<1>2. existing # {} => found \in existing
  OBVIOUS
<1> HIDE DEF accepted, found, op
<1>3. CASE ~accepted
  BY <1>1, <1>3
<1>4. CASE accepted /\ existing # {}
  <2>1. CreateOperation(db, r) = IF Fingerprint(db.journal[found]) = Fingerprint(op)
                                 THEN Outcome(db, found) ELSE Refused(db)
    BY <1>1, <1>4
  <2> QED BY <2>1, <1>2, <1>4
<1>5. CASE accepted /\ existing = {}
  <2>1. CreateOperation(db, r) =
            IF Supersedable(db.journal, r.supersedes) /\ db.lastId < MaxId
            THEN Projected(db, Put(Retire(db.journal, r.supersedes, "SUPERSEDED"),
                                   db.lastId + 1, op), db.lastId + 1)
            ELSE Refused(db)
    BY <1>1, <1>5
  <2> QED BY <2>1, <1>5 DEF op
<1> QED BY <1>3, <1>4, <1>5

\* The same for a cancellation.
LEMMA CancelCases ==
    ASSUME NEW r
    PROVE  \/ CancelOperation(db, r) = Refused(db)
           \/ CancelOperation(db, r) = Outcome(db, r.target)
           \/ /\ WithKey(db.journal, r.key) = {}
              /\ r.target \in ActiveIds(db.journal)
              /\ db.lastId < MaxId
              /\ CancelOperation(db, r) =
                    Projected(db, Put(Retire(db.journal, r.target, "CANCELLED"), db.lastId + 1,
                                      Marker(db.journal[r.target], r.target, r.key)), r.target)
BY DEF CancelOperation

\* Nothing the book is about has changed.
SameBook == UNCHANGED <<db.status, db.totals, db.journal>>

\* The marker of a cancellation is a row under the request's key.
LEMMA MarkerIsRow ==
    ASSUME NEW op, IsRow(op), NEW id, NEW key
    PROVE  IsRow(Marker(op, id, key)) /\ Marker(op, id, key).key = key
<1>1. PICK a : a = [op EXCEPT !.status = "CANCELLED"]
  OBVIOUS
<1>2. PICK b : b = [a EXCEPT !.source = "MANUAL"]
  OBVIOUS
<1>3. PICK c : c = [b EXCEPT !.key = key]
  OBVIOUS
<1>4. IsRow(a)
  BY <1>1 DEF IsRow
<1>5. IsRow(b)
  BY <1>2, <1>4 DEF IsRow
<1>6. IsRow(c) /\ c.key = key
  BY <1>3, <1>5 DEF IsRow
<1>7. Marker(op, id, key) = [c EXCEPT !.supersedes = id]
  BY <1>1, <1>2, <1>3 DEF Marker
<1> QED BY <1>6, <1>7 DEF IsRow

\* Whatever a create request does to the portfolio is a Record step, or nothing.
LEMMA CreateIsSound ==
    ASSUME Sound(db), db.status \in {"DRAFT", "ACTIVE"},
           NEW r, db' = CreateOperation(db, r).db
    PROVE  Sound(db)' /\ (Book!Record \/ SameBook)
<1>1. CASE db' = db
  BY <1>1 DEF SameBook, Sound, IsDb, KeysDiffer, Accounts, IsRow
<1>2. CASE db' # db
  <2> DEFINE journal == Put(Retire(db.journal, r.supersedes, "SUPERSEDED"), db.lastId + 1,
                            Operation(db, r))
  <2>1. /\ WithKey(db.journal, r.key) = {}
        /\ Supersedable(db.journal, r.supersedes)
        /\ db.lastId < MaxId
        /\ db' = Projected(db, journal, db.lastId + 1).db
    BY <1>2, CreateCases DEF Refused, Outcome
  <2>2. /\ Replay(journal).valid
        /\ db' = [db EXCEPT !.status = "ACTIVE", !.journal = journal, !.lastId = @ + 1,
                            !.totals = Replay(journal).totals]
    BY <1>2, <2>1 DEF Projected, Refused, Outcome
  <2>3. IsRow(Operation(db, r)) /\ Operation(db, r).key = r.key
    BY DEF Operation, IsRow
  <2>4. r.supersedes = 0 \/ r.supersedes \in ActiveIds(db.journal)
    BY <2>1 DEF Supersedable
  <2>5. PICK op, rows, id : op = Operation(db, r) /\ rows = journal /\ id = r.supersedes
    OBVIOUS
  <2> HIDE DEF journal
  <2>6. rows = Put(Retire(db.journal, id, "SUPERSEDED"), db.lastId + 1, op)
    BY <2>5 DEF journal
  <2>7. /\ id = 0 \/ id \in ActiveIds(db.journal)
        /\ IsRow(op)
        /\ WithKey(db.journal, op.key) = {}
        /\ Replay(rows).valid
        /\ db' = [db EXCEPT !.status = "ACTIVE", !.journal = rows, !.lastId = @ + 1,
                            !.totals = Replay(rows).totals]
    BY <2>1, <2>2, <2>3, <2>4, <2>5
  <2>8. Sound(db)' /\ Book!Record
    BY <2>1, <2>6, <2>7, RecordIsSound
  <2> QED BY <2>8
<1> QED BY <1>1, <1>2

\* So is what a cancellation does.
LEMMA CancelIsSound ==
    ASSUME Sound(db), db.status \in {"DRAFT", "ACTIVE"},
           NEW r, db' = CancelOperation(db, r).db
    PROVE  Sound(db)' /\ (Book!Record \/ SameBook)
<1>1. CASE db' = db
  BY <1>1 DEF SameBook, Sound, IsDb, KeysDiffer, Accounts, IsRow
<1>2. CASE db' # db
  <2> DEFINE marker == Marker(db.journal[r.target], r.target, r.key)
             journal == Put(Retire(db.journal, r.target, "CANCELLED"), db.lastId + 1, marker)
  <2>1. /\ WithKey(db.journal, r.key) = {}
        /\ r.target \in ActiveIds(db.journal)
        /\ db.lastId < MaxId
        /\ db' = Projected(db, journal, r.target).db
    BY <1>2, CancelCases DEF Refused, Outcome
  <2>2. /\ Replay(journal).valid
        /\ db' = [db EXCEPT !.status = "ACTIVE", !.journal = journal, !.lastId = @ + 1,
                            !.totals = Replay(journal).totals]
    BY <1>2, <2>1 DEF Projected, Refused, Outcome
  <2>3. IsRow(marker) /\ marker.key = r.key
    <3>1. IsRow(db.journal[r.target])
      BY <2>1 DEF Sound, ActiveIds
    <3>2. PICK row, target, key : row = db.journal[r.target] /\ target = r.target /\ key = r.key
      OBVIOUS
    <3> QED BY <3>1, <3>2, MarkerIsRow
  <2>5. PICK op, rows, id : op = marker /\ rows = journal /\ id = r.target
    OBVIOUS
  <2> HIDE DEF journal, marker
  <2>6. rows = Put(Retire(db.journal, id, "CANCELLED"), db.lastId + 1, op)
    BY <2>5 DEF journal
  <2>7. /\ id = 0 \/ id \in ActiveIds(db.journal)
        /\ IsRow(op)
        /\ WithKey(db.journal, op.key) = {}
        /\ Replay(rows).valid
        /\ db' = [db EXCEPT !.status = "ACTIVE", !.journal = rows, !.lastId = @ + 1,
                            !.totals = Replay(rows).totals]
    BY <2>1, <2>2, <2>3, <2>5
  <2>8. Sound(db)' /\ Book!Record
    BY <2>1, <2>6, <2>7, RecordIsSound
  <2> QED BY <2>8
<1> QED BY <1>1, <1>2

-----------------------------------------------------------------------------
\* There are finitely many opening rows, and no two share a key.
LEMMA OpeningRowsDiffer ==
    ASSUME NEW totals, NEW now
    PROVE  /\ IsFiniteSet(OpeningRows(totals, now))
           /\ \A x, y \in OpeningRows(totals, now) : x.key = y.key => x = y
           /\ \A x \in OpeningRows(totals, now) : IsRow(x) /\ x.source = "OPENING_SNAPSHOT"
<1> DEFINE held == {j \in Instruments : totals.positions[j].units > 0}
           cash(c) == Opening(now, "OPENING_CASH", None, 0, None, c)
           position(i) == Opening(now, "OPENING_POSITION", i, totals.positions[i].units,
                                  totals.positions[i].cost, 0)
           CashRows == {cash(c) : c \in {totals.cash} \ {0}}
           PositionRows == {position(i) : i \in held}
<1>1. OpeningRows(totals, now) = CashRows \cup PositionRows
  BY DEF OpeningRows
<1>2. IsFiniteSet(CashRows)
  <2>1. CashRows \subseteq {cash(totals.cash)}
    OBVIOUS
  <2>2. IsFiniteSet({cash(totals.cash)})
    BY FS_Singleton
  <2> HIDE DEF cash, CashRows
  <2> QED BY <2>1, <2>2, FS_Subset
<1>3. IsFiniteSet(PositionRows)
  <2>1. IsFiniteSet(held)
    BY BookAssumption, FS_Subset
  <2> DEFINE f == [i \in held |-> position(i)]
  <2>2. f \in Surjection(held, PositionRows)
    <3> HIDE DEF held, position
    <3> QED BY DEF Surjection
  <2> HIDE DEF held, f, PositionRows
  <2> QED BY <2>1, <2>2, FS_Surjection
<1>4. \A x \in CashRows : IsRow(x) /\ x.source = "OPENING_SNAPSHOT"
                          /\ x = cash(totals.cash) /\ x.key[1] = "OPENING_CASH"
  BY DEF Opening, IsRow
<1>5. \A i : IsRow(position(i)) /\ position(i).source = "OPENING_SNAPSHOT"
             /\ position(i).key = <<"OPENING_POSITION", i>>
  BY DEF Opening, IsRow
<1>6. \A x \in PositionRows : IsRow(x) /\ x.source = "OPENING_SNAPSHOT"
                              /\ x.key[1] = "OPENING_POSITION" /\ x = position(x.key[2])
  <2> HIDE DEF position
  <2> QED BY <1>5
<1>7. \A x, y \in CashRows \cup PositionRows : x.key = y.key => x = y
  <2> HIDE DEF CashRows, PositionRows, cash, position
  <2> QED BY <1>4, <1>6
<1>8. IsFiniteSet(CashRows \cup PositionRows)
  <2> HIDE DEF CashRows, PositionRows
  <2> QED BY <1>2, <1>3, FS_Union
<1> HIDE DEF CashRows, PositionRows
<1> QED BY <1>1, <1>4, <1>6, <1>7, <1>8

\* An activation starts the journal of a draft; an active portfolio is left as it is.
LEMMA ActivationIsSound ==
    ASSUME Sound(db), db.status \in {"DRAFT", "ACTIVE"},
           NEW now, NEW o \in Activations(db, now), db' = o.db
    PROVE  Sound(db)' /\ (Book!Start \/ SameBook)
<1>1. CASE db.status = "ACTIVE"
  <2>1. db' = [db EXCEPT !.totals = IF DOMAIN db.journal = {} THEN @ ELSE Replay(db.journal).totals]
    BY <1>1 DEF Activations, Outcome
  <2>2. db.totals = Replay(db.journal).totals /\ IsDb(db)
    BY <1>1 DEF Sound, Accounts
  <2>3. db' = db
    BY <2>1, <2>2 DEF IsDb
  <2> QED BY <2>3 DEF SameBook, Sound, IsDb, KeysDiffer, Accounts, IsRow
<1>2. CASE db.status = "DRAFT"
  <2> DEFINE rows == OpeningRows(db.totals, now)
             n == Cardinality(rows)
  <2>1. PICK journal \in OpeningJournals(db, now) :
            /\ DOMAIN journal \subseteq Ids
            /\ Replay(journal).valid
            /\ db' = [db EXCEPT !.status = "ACTIVE", !.journal = journal,
                                !.lastId = @ + Cardinality(DOMAIN journal),
                                !.totals = Replay(journal).totals]
    <3> DEFINE active(j) == [db EXCEPT !.status = "ACTIVE", !.journal = j,
                                       !.lastId = @ + Cardinality(DOMAIN j),
                                       !.totals = Replay(j).totals]
    <3>1. Activations(db, now) =
            {Outcome(active(j), 0) :
                j \in {k \in OpeningJournals(db, now) : DOMAIN k \subseteq Ids /\ Replay(k).valid}}
      BY <1>2 DEF Activations
    <3>2. \A j : Outcome(active(j), 0).db = active(j)
      BY DEF Outcome
    <3>3. \E j \in OpeningJournals(db, now) :
            /\ DOMAIN j \subseteq Ids /\ Replay(j).valid
            /\ db' = active(j)
      <4> HIDE DEF active
      <4> QED BY <3>1, <3>2
    <3> QED BY <3>3
  <2>2. /\ journal \in [db.lastId + 1..db.lastId + n -> rows]
        /\ \A a, b \in db.lastId + 1..db.lastId + n : a # b => journal[a] # journal[b]
    BY DEF OpeningJournals
  <2>3. /\ n \in Nat
        /\ \A x, y \in rows : x.key = y.key => x = y
        /\ \A x \in rows : IsRow(x) /\ x.source = "OPENING_SNAPSHOT"
    <3>1. PICK totals : totals = db.totals
      OBVIOUS
    <3>2. /\ IsFiniteSet(OpeningRows(totals, now))
          /\ \A x, y \in OpeningRows(totals, now) : x.key = y.key => x = y
          /\ \A x \in OpeningRows(totals, now) : IsRow(x) /\ x.source = "OPENING_SNAPSHOT"
      BY OpeningRowsDiffer
    <3>3. Cardinality(OpeningRows(totals, now)) \in Nat
      BY <3>2, FS_CardinalityType
    <3> QED BY <3>1, <3>2, <3>3
  <2> HIDE DEF rows, n
  <2>4. /\ db.lastId \in 0..MaxId /\ MaxId \in Nat /\ IsDb(db)
        /\ DOMAIN journal = db.lastId + 1..db.lastId + n
    BY <2>2, BookAssumption DEF Sound
  <2>5. Cardinality(DOMAIN journal) = n
    <3>1. PICK a, b : a = db.lastId + 1 /\ b = db.lastId + n
      OBVIOUS
    <3>2. a \in Int /\ b \in Int /\ DOMAIN journal = a..b
      BY <2>3, <2>4, <3>1
    <3>3. Cardinality(a..b) = IF a > b THEN 0 ELSE b - a + 1
      BY <3>2, FS_Interval
    <3> QED BY <2>3, <2>4, <3>1, <3>2, <3>3
  <2>6. /\ db'.status = "ACTIVE" /\ db'.journal = journal /\ db'.lastId = db.lastId + n
        /\ db'.totals = Replay(journal).totals /\ IsDb(db')
    BY <2>1, <2>4, <2>5 DEF IsDb
  <2>7. db.lastId + n \in 0..MaxId
    <3>1. CASE n = 0
      BY <3>1, <2>4
    <3>2. CASE n > 0
      <4>1. db.lastId + n \in DOMAIN journal
        BY <2>3, <2>4, <3>2
      <4> QED BY <4>1, <2>1, <2>3, <2>4 DEF Ids
    <3> QED BY <3>1, <3>2, <2>3
  <2>8. KeysDiffer(journal)
    BY <2>2, <2>3, <2>4 DEF KeysDiffer
  <2>9. DOMAIN journal \subseteq 1..db.lastId + n
    BY <2>3, <2>4
  <2>10. \A id \in DOMAIN journal : IsRow(journal[id]) /\ journal[id].source = "OPENING_SNAPSHOT"
    BY <2>2, <2>3, <2>4
  <2>11. Accounts(journal, db'.totals)
    BY <2>1, <2>6 DEF Accounts
  <2>12. Sound(db)'
    BY <2>6, <2>7, <2>8, <2>9, <2>10, <2>11 DEF Sound
  <2>13. Book!Start
    BY <1>2, <2>6, <2>10, <2>11 DEF Book!Start
  <2> QED BY <2>12, <2>13
<1> QED BY <1>1, <1>2

\* Whatever a request makes of the portfolio is a step of JournalBook, or nothing.
LEMMA OutcomeIsSound ==
    ASSUME Sound(db), NEW r \in Requests, NEW now, NEW o \in Outcomes(db, r, now), db' = o.db
    PROVE  /\ Sound(db)'
           /\ \/ Book!Draft \/ Book!Start \/ Book!Record \/ SameBook
              \/ Wipes(r) /\ Book!Wipe
<1>0. r.kind \in Kinds
  BY HandlerAssumption
<1>1. CASE db' = db
  BY <1>1 DEF SameBook, Sound, IsDb, KeysDiffer, Accounts, IsRow
<1>2. CASE db.status = "ABSENT"
  <2>1. Outcomes(db, r, now) = {Refused(db)}
    BY <1>2 DEF Outcomes
  <2> QED BY <1>1, <2>1 DEF Refused, Outcome
<1>3. CASE db.status # "ABSENT" /\ r.kind = "create"
  <2>1. db.status \in {"DRAFT", "ACTIVE"} /\ db' = CreateOperation(db, r).db
    BY <1>3 DEF Outcomes, Sound
  <2> QED BY <2>1, CreateIsSound
<1>4. CASE db.status # "ABSENT" /\ r.kind = "cancel"
  <2>1. db.status \in {"DRAFT", "ACTIVE"} /\ db' = CancelOperation(db, r).db
    BY <1>4 DEF Outcomes, Sound
  <2> QED BY <2>1, CancelIsSound
<1>5. CASE db.status # "ABSENT" /\ r.kind = "activate"
  <2>1. db.status \in {"DRAFT", "ACTIVE"} /\ o \in Activations(db, now)
    BY <1>5 DEF Outcomes, Sound
  <2> QED BY <2>1, ActivationIsSound
<1>6. CASE db.status # "ABSENT" /\ r.kind \in {"cash", "position", "clear"}
  <2>1. PICK totals : db' = EditDraft(db, totals).db
    BY <1>6 DEF Outcomes
  <2>2. CASE db.status = "DRAFT"
    <3>1. db' = [db EXCEPT !.totals = totals]
      BY <2>1, <2>2 DEF EditDraft, Outcome
    <3>2. /\ db'.status = db.status /\ db'.journal = db.journal /\ db'.lastId = db.lastId
          /\ IsDb(db')
      BY <3>1 DEF Sound, IsDb
    <3>3. Sound(db)'
      BY <2>2, <3>2 DEF Sound
    <3> QED BY <2>2, <3>2, <3>3 DEF Book!Draft
  <2>3. CASE db.status # "DRAFT"
    BY <1>1, <2>1, <2>3 DEF EditDraft, Refused, Outcome
  <2> QED BY <2>2, <2>3
<1>7. CASE db.status # "ABSENT" /\ r.kind = "broker"
  <2>1. db' = [db EXCEPT !.broker = r.broker]
    BY <1>7 DEF Outcomes, Outcome
  <2>2. /\ db'.status = db.status /\ db'.journal = db.journal /\ db'.lastId = db.lastId
        /\ db'.totals = db.totals /\ IsDb(db')
    BY <2>1 DEF Sound, IsDb
  <2> QED BY <2>2 DEF Sound, SameBook
<1>8. CASE db.status # "ABSENT" /\ r.kind \in {"reset", "delete"}
  <2>1. PICK status \in {"DRAFT", "ABSENT"} :
            db' = [db EXCEPT !.status = status, !.totals = EmptyTotals, !.journal = <<>>]
    BY <1>8 DEF Outcomes, Outcome, Wiped
  <2>2. /\ db'.status = status /\ db'.journal = <<>> /\ db'.lastId = db.lastId
        /\ db'.totals = EmptyTotals /\ IsDb(db')
    BY <2>1 DEF Sound, IsDb
  <2>3. DOMAIN db'.journal = {}
    BY <2>2
  <2>4. Sound(db)'
    BY <2>2, <2>3 DEF Sound, KeysDiffer
  <2> QED BY <1>8, <2>2, <2>4 DEF Book!Wipe, Wipes
<1> QED BY <1>0, <1>2, <1>3, <1>4, <1>5, <1>6, <1>7, <1>8 DEF Kinds

-----------------------------------------------------------------------------
\* The operation a create request is answered with is stored under the request's key.
LEMMA CreateAnswers ==
    ASSUME Sound(db), db.status \in {"DRAFT", "ACTIVE"}, NEW r, r.key # None,
           NEW o, o = CreateOperation(db, r), o # Refused(db)
    PROVE  o.answer \in DOMAIN o.db.journal /\ o.db.journal[o.answer].key = r.key
<1>1. CASE \E id \in WithKey(db.journal, r.key) : o = Outcome(db, id)
  BY <1>1 DEF WithKey, Outcome
<1>2. CASE ~\E id \in WithKey(db.journal, r.key) : o = Outcome(db, id)
  <2> DEFINE journal == Put(Retire(db.journal, r.supersedes, "SUPERSEDED"), db.lastId + 1,
                            Operation(db, r))
  <2>1. o = Projected(db, journal, db.lastId + 1)
    BY <1>2, CreateCases
  <2>2. o = Outcome([db EXCEPT !.status = "ACTIVE", !.journal = journal, !.lastId = @ + 1,
                               !.totals = Replay(journal).totals], db.lastId + 1)
    BY <2>1 DEF Projected
  <2>3. db.lastId + 1 \in DOMAIN journal /\ journal[db.lastId + 1] = Operation(db, r)
    BY DEF Put
  <2>4. Operation(db, r).key = r.key
    BY DEF Operation
  <2>5. o.answer = db.lastId + 1 /\ o.db.journal = journal
    <3>1. IsDb(db)
      BY DEF Sound
    <3>2. PICK rows, totals, after :
            /\ rows = journal /\ totals = Replay(journal).totals
            /\ after = [db EXCEPT !.status = "ACTIVE", !.journal = rows, !.lastId = @ + 1,
                                  !.totals = totals]
      OBVIOUS
    <3>3. after.journal = rows
      BY <3>1, <3>2 DEF IsDb
    <3>4. o = Outcome(after, db.lastId + 1)
      BY <2>2, <3>2
    <3>5. o.answer = db.lastId + 1 /\ o.db = after
      BY <3>4 DEF Outcome
    <3>6. rows = journal
      BY <3>2
    <3> HIDE DEF journal
    <3> QED BY <3>3, <3>5, <3>6
  <2> QED BY <2>3, <2>4, <2>5
<1> QED BY <1>1, <1>2

\* A Record step keeps every row's key, a Start or a Draft has no rows to keep.
LEMMA KeysStay ==
    ASSUME Sound(db), Book!Draft \/ Book!Start \/ Book!Record \/ SameBook
    PROVE  \A id \in DOMAIN db.journal :
                id \in DOMAIN db'.journal /\ db'.journal[id].key = db.journal[id].key
<1>1. CASE Book!Draft \/ SameBook
  BY <1>1 DEF Book!Draft, SameBook
<1>2. CASE Book!Start
  BY <1>2 DEF Book!Start, Sound
<1>3. CASE Book!Record
  <2>1. PICK added \in Ids, retired \in Ids \cup {0} :
            /\ DOMAIN db'.journal = DOMAIN db.journal \cup {added}
            /\ \A other \in DOMAIN db.journal :
                /\ other < added
                /\ db'.journal[added].key # None => db.journal[other].key # db'.journal[added].key
                /\ IF other = retired THEN Book!Retires(db.journal[other], db'.journal[other])
                   ELSE db'.journal[other] = db.journal[other]
    BY <1>3 DEF Book!Record
  <2>2. \A row, after : IsRow(row) /\ Book!Retires(row, after) => after.key = row.key
    BY DEF Book!Retires, IsRow
  <2>3. \A id \in DOMAIN db.journal : IsRow(db.journal[id])
    BY DEF Sound
  <2> QED BY <2>1, <2>2, <2>3
<1> QED BY <1>1, <1>2, <1>3

LEMMA InitIsSound == Init => Inv
<1> SUFFICES ASSUME Init PROVE Inv
  OBVIOUS
<1>1. /\ IsDb(db) /\ db.status = "DRAFT" /\ db.lastId = 0 /\ db.journal = <<>>
      /\ lock = Nobody /\ task = [h \in Handlers |-> Idle] /\ told = {}
  BY DEF Init, EmptyDb, IsDb
<1>2. DOMAIN db.journal = {}
  BY <1>1
<1> QED BY <1>1, <1>2, BookAssumption DEF Inv, Sound, Kept, Pending, KeysDiffer

\* One step: the invariant is kept, and the book takes a step of JournalBook or none.
BookStep == Book!Next \/ SameBook

LEMMA ServeKeeps ==
    ASSUME Inv, NEW h \in Handlers, NEW r \in Requests, Serve(h, r)
    PROVE  Inv' /\ BookStep
<1>1. PICK now \in Times : \E outcome \in Outcomes(db, r, now) :
            /\ task' = [task EXCEPT ![h] = Ready(r, outcome)]
            /\ outcome # Refused(db)
  BY DEF Serve
<1>2. PICK o \in Outcomes(db, r, now) :
            task' = [task EXCEPT ![h] = Ready(r, o)] /\ o # Refused(db)
  BY <1>1
<1>3. db' = db /\ told' = told /\ lock = Nobody /\ lock' = h
  BY DEF Serve
<1>4. \A g \in Handlers : task[g] = Idle
  BY <1>3, HandlerAssumption DEF Inv, Pending
<1>5. task' = [g \in Handlers |-> task'[g]] /\ task'[h] = Ready(r, o)
      /\ \A g \in Handlers \ {h} : task'[g] = Idle
  BY <1>2, <1>4 DEF Inv
<1>6. Pending(h)'
  <2>1. Outcomes(db, r, now)' = Outcomes(db, r, now) /\ Refused(db)' = Refused(db)
    BY <1>3
  <2>2. \E q \in Requests, time \in Times : \E outcome \in Outcomes(db, q, time)' :
            task'[h] = Ready(q, outcome) /\ outcome # Refused(db)'
    BY <1>2, <1>5, <2>1
  <2> QED BY <1>3, <2>2 DEF Pending
<1>7. \A g \in Handlers : Pending(g)'
  BY <1>5, <1>6 DEF Pending
<1>8. Sound(db)' /\ Kept'
  BY <1>3 DEF Inv, Sound, Kept, IsDb, KeysDiffer, Accounts, IsRow
<1> QED BY <1>3, <1>5, <1>7, <1>8 DEF Inv, BookStep, SameBook

LEMMA CrashKeeps ==
    ASSUME Inv, NEW h \in Handlers, Crash(h)
    PROVE  Inv' /\ BookStep
<1>1. db' = db /\ told' = told /\ task' = [task EXCEPT ![h] = Idle]
      /\ lock' = IF lock = h THEN Nobody ELSE lock
  BY DEF Crash
<1>2. lock = h
  BY DEF Crash, Inv, Pending, Idle
<1>3. \A g \in Handlers \ {h} : task[g] = Idle
  BY <1>2 DEF Inv, Pending
<1>4. task' = [g \in Handlers |-> task'[g]] /\ \A g \in Handlers : task'[g] = Idle
  BY <1>1, <1>3 DEF Inv
<1>5. Sound(db)' /\ Kept'
  BY <1>1 DEF Inv, Sound, Kept, IsDb, KeysDiffer, Accounts, IsRow
<1> QED BY <1>1, <1>2, <1>4, <1>5 DEF Inv, Pending, BookStep, SameBook

LEMMA CommitKeeps ==
    ASSUME Inv, NEW h \in Handlers, Commit(h)
    PROVE  Inv' /\ BookStep
<1>1. task[h] # Idle
  BY DEF Commit, Idle
<1>2. /\ lock = h
      /\ \E r \in Requests, now \in Times : \E outcome \in Outcomes(db, r, now) :
            task[h] = Ready(r, outcome) /\ outcome # Refused(db)
  BY <1>1 DEF Inv, Pending
<1>3. PICK r \in Requests, now \in Times : \E outcome \in Outcomes(db, r, now) :
            task[h] = Ready(r, outcome) /\ outcome # Refused(db)
  BY <1>2
<1>4. PICK o \in Outcomes(db, r, now) : task[h] = Ready(r, o) /\ o # Refused(db)
  BY <1>3
<1>5. /\ db' = o.db
      /\ told' \in {Told(r, o.answer), IF Wipes(r) THEN {} ELSE told}
      /\ lock' = Nobody /\ task' = [task EXCEPT ![h] = Idle]
  BY <1>2, <1>4 DEF Commit, Ready
<1>6. /\ Sound(db)'
      /\ \/ Book!Draft \/ Book!Start \/ Book!Record \/ SameBook
         \/ Wipes(r) /\ Book!Wipe
  BY <1>5, OutcomeIsSound DEF Inv
<1>7. task' = [g \in Handlers |-> task'[g]] /\ \A g \in Handlers : task'[g] = Idle
  BY <1>2, <1>5 DEF Inv, Pending
<1>8. Kept'
  <2>1. CASE Wipes(r)
    BY <1>5, <2>1 DEF Told, Kept
  <2>2. CASE ~Wipes(r)
    <3>1. \A id \in DOMAIN db.journal :
                id \in DOMAIN db'.journal /\ db'.journal[id].key = db.journal[id].key
      BY <1>6, <2>2, KeysStay DEF Inv
    <3>2. \A answer \in told : /\ answer.key # None
                               /\ answer.id \in DOMAIN db'.journal
                               /\ db'.journal[answer.id].key = answer.key
      BY <3>1 DEF Inv, Kept
    <3>3. \/ told' = told
          \/ r.kind = "create" /\ told' = told \cup {[key |-> r.key, id |-> o.answer]}
      BY <1>5, <2>2 DEF Told
    <3>4. ASSUME r.kind = "create"
          PROVE  /\ r.key # None
                 /\ o.answer \in DOMAIN db'.journal
                 /\ db'.journal[o.answer].key = r.key
      <4>1. r.key # None
        BY <3>4, HandlerAssumption
      <4>2. db.status # "ABSENT" /\ o = CreateOperation(db, r)
        BY <1>4, <3>4 DEF Outcomes
      <4>3. db.status \in {"DRAFT", "ACTIVE"} /\ Sound(db)
        BY <4>2 DEF Inv, Sound
      <4> QED BY <1>4, <1>5, <4>1, <4>2, <4>3, CreateAnswers
    <3> QED BY <3>2, <3>3, <3>4 DEF Kept
  <2> QED BY <2>1, <2>2
<1>9. BookStep
  BY <1>6 DEF BookStep, Book!Next
<1> QED BY <1>5, <1>6, <1>7, <1>8, <1>9 DEF Inv, Pending

LEMMA StepKeeps == Inv /\ [Next]_vars => Inv' /\ BookStep
<1> SUFFICES ASSUME Inv, [Next]_vars PROVE Inv' /\ BookStep
  OBVIOUS
<1>1. ASSUME NEW h \in Handlers, NEW r \in Requests, Serve(h, r) PROVE Inv' /\ BookStep
  BY <1>1, ServeKeeps
<1>2. ASSUME NEW h \in Handlers, Commit(h) PROVE Inv' /\ BookStep
  BY <1>2, CommitKeeps
<1>3. ASSUME NEW h \in Handlers, Crash(h) PROVE Inv' /\ BookStep
  BY <1>3, CrashKeeps
<1>4. CASE UNCHANGED vars
  BY <1>4 DEF vars, Inv, Sound, Kept, Pending, IsDb, KeysDiffer, Accounts, IsRow, BookStep, SameBook
<1> QED BY <1>1, <1>2, <1>3, <1>4 DEF Next

\* Whatever the requests and however they interleave, crash or repeat, Inv holds.
THEOREM InvHolds == Spec => []Inv
BY InitIsSound, StepKeeps, PTL DEF Spec

\* PersonalLedger keeps its types: ids within the journal's sequence, one holder of the row.
THEOREM TypeCorrect == Spec => []TypeOK
<1>1. Inv => TypeOK
  BY DEF Inv, Sound, TypeOK, Pending, Idle, Ready
<1> QED BY InvHolds, <1>1, PTL

\* An active portfolio always shows exactly what its journal replays to (reconcile: MATCH).
THEOREM JournalIsShown == Spec => []ShowsItsJournal
<1>1. Inv => ShowsItsJournal
  BY DEF Inv, Sound, ShowsItsJournal
<1> QED BY InvHolds, <1>1, PTL

\* An answered key names one stored operation for as long as the journal is kept: retries of
\* POST /operations never record it twice and never answer with another one.
THEOREM AnswersStay == Spec => []AnswersAreKept
<1>1. Inv => AnswersAreKept
  <2> SUFFICES ASSUME Inv, NEW answer \in told
               PROVE  /\ answer.id \in DOMAIN db.journal
                      /\ WithKey(db.journal, answer.key) = {answer.id}
    BY DEF AnswersAreKept
  <2>1. /\ answer.key # None /\ answer.id \in DOMAIN db.journal
        /\ db.journal[answer.id].key = answer.key
    BY DEF Inv, Kept
  <2>2. KeysDiffer(db.journal)
    BY DEF Inv, Sound
  <2> QED BY <2>1, <2>2 DEF WithKey, KeysDiffer
<1> QED BY InvHolds, <1>1, PTL

\* The committed portfolio implements JournalBook: every transaction, however it interleaves with
\* others, is one step of the abstract book or leaves it alone.
THEOREM Implements == Spec => ImplementsJournalBook
<1>1. Init => Book!Init
  BY DEF Init, Book!Init, EmptyDb
<1>2. BookStep => [Book!Next]_Book!jvars
  BY DEF BookStep, SameBook, Book!jvars
<1>3. Inv /\ [Next]_vars => [Book!Next]_Book!jvars
  BY <1>2, StepKeeps
<1> QED BY InvHolds, <1>1, <1>3, PTL DEF Spec, ImplementsJournalBook, Book!Spec
=============================================================================
