------------------------ MODULE PersonalReplayProofs ------------------------
(***************************************************************************)
(* What the replay of a personal journal comes to, for any journal of      *)
(* typed rows: every ledger on the way is sound, its prefixes are valid    *)
(* when its end is, and cash and cost basis are accounted for up to the    *)
(* rounding of average costs.  The theorems of PersonalLedger that rest on *)
(* it follow: they are claims about every journal that requests can build. *)
(***************************************************************************)
EXTENDS PersonalLedgerProofs, FoldLemmas

\* An operation row as requests and activations write it.
TypedRow(op) ==
    /\ op.type \in OperationTypes
    /\ op.occurred \in Int /\ op.units \in Int /\ op.amount \in Int /\ op.commission \in Int
    /\ op.price \in Int \cup {None}
    /\ op.type \in {"OPENING_POSITION", "BUY", "SELL"} => op.instrument \in Instruments
    /\ op.source \in {"MANUAL", "OPENING_SNAPSHOT"}

TypedJournal(journal) == \A id \in DOMAIN journal : TypedRow(journal[id])

\* A position of a sound ledger: units at a cost, or none at all.
SoundBook(book) == book \in {NoPosition} \cup [units: Nat \ {0}, cost: Int \cup {None}]

Books == [units: Nat, cost: Int \cup {None}]

Totals == [cash: Nat, contributed: Int, withdrawn: Int, realized: Int,
           positions: [Instruments -> Books]]

SoundTotals(totals) ==
    totals \in Totals /\ \A i \in Instruments : SoundBook(totals.positions[i])

Known(totals) ==
    \A i \in Instruments : totals.positions[i].units > 0 => totals.positions[i].cost # None

\* A ledger that is complete knows what every position has cost.
SoundLedger(ledger) ==
    /\ ledger \in [totals: Totals, incomplete: BOOLEAN, valid: BOOLEAN]
    /\ SoundTotals(ledger.totals)
    /\ ~ledger.incomplete => Known(ledger.totals)

\* The opening rows are of one instant, and what is active and entered by hand comes after it.
Cutover(journal) ==
    \A id, opening \in DOMAIN journal :
        journal[opening].source = "OPENING_SNAPSHOT" =>
            /\ journal[id].source = "OPENING_SNAPSHOT" =>
                    journal[id].occurred = journal[opening].occurred
            /\ journal[id].source = "MANUAL" /\ journal[id].status = "ACTIVE" =>
                    journal[opening].occurred < journal[id].occurred

\* What holds of the stored portfolio besides Sound.
Dated(d) ==
    /\ TypedJournal(d.journal)
    /\ Cutover(d.journal)
    /\ SoundTotals(d.totals)

-----------------------------------------------------------------------------
(* Journal order, and the replay as a recursion over sets of rows.         *)

\* Rows with instants: what the order of the journal needs.
Timed(journal, ids) ==
    /\ IsFiniteSet(ids) /\ ids \subseteq Int
    /\ \A id \in ids : journal[id].occurred \in Int

\* The order is transitive, and of two rows one comes first.
LEMMA BeforeIsTransitive ==
    ASSUME NEW journal, NEW S, Timed(journal, S), NEW a \in S, NEW b \in S, NEW c \in S,
           Before(journal, a, b), Before(journal, b, c)
    PROVE  Before(journal, a, c)
<1>1. /\ a \in Int /\ b \in Int /\ c \in Int
      /\ journal[a].occurred \in Int /\ journal[b].occurred \in Int /\ journal[c].occurred \in Int
  BY DEF Timed
<1> QED BY <1>1 DEF Before

LEMMA BeforeIsTotal ==
    ASSUME NEW journal, NEW S, Timed(journal, S), NEW a \in S, NEW b \in S
    PROVE  /\ a = b \/ Before(journal, a, b) \/ Before(journal, b, a)
           /\ ~(Before(journal, a, b) /\ Before(journal, b, a))
           /\ ~Before(journal, a, a)
<1>1. /\ a \in Int /\ b \in Int
      /\ journal[a].occurred \in Int /\ journal[b].occurred \in Int
  BY DEF Timed
<1> QED BY <1>1 DEF Before

\* Of some rows one is the latest.
LEMMA LatestIsLast ==
    ASSUME NEW journal, NEW S, Timed(journal, S), S # {}
    PROVE  /\ Latest(journal, S) \in S
           /\ \A b \in S \ {Latest(journal, S)} : Before(journal, b, Latest(journal, S))
<1> DEFINE Last(a, T) == a \in T /\ \A b \in T \ {a} : Before(journal, b, a)
           C == {T \in SUBSET S : T = {} \/ \E a \in T : Last(a, T)}
<1>1. {} \in C
  OBVIOUS
<1>2. ASSUME NEW T \in SUBSET S, T \in C, NEW x \in S \ T PROVE T \cup {x} \in C
  <2>1. CASE T = {}
    <3>1. Last(x, T \cup {x}) BY <2>1
    <3> QED BY <3>1
  <2>2. CASE T # {}
    <3>1. PICK a \in T : Last(a, T) BY <1>2, <2>2
    <3>2. CASE Before(journal, a, x)
      <4>1. ASSUME NEW b \in T PROVE Before(journal, b, x)
        BY <3>1, <3>2, BeforeIsTransitive
      <4>2. Last(x, T \cup {x}) BY <4>1
      <4> QED BY <4>2
    <3>3. CASE Before(journal, x, a)
      <4>1. Last(a, T \cup {x}) BY <3>1, <3>3
      <4> QED BY <4>1
    <3> QED BY <3>2, <3>3, BeforeIsTotal
  <2> QED BY <2>1, <2>2
<1>3. S \in C
  <2> HIDE DEF C
  <2> QED BY <1>1, <1>2, FiniteSetInduction DEF Timed
<1>4. \E a \in S : \A b \in S \ {a} : Before(journal, b, a)
  BY <1>3
<1> QED BY <1>4 DEF Latest

\* Part of a journal's rows.
LEMMA TimedPart ==
    ASSUME NEW journal, NEW S, Timed(journal, S), NEW T \in SUBSET S
    PROVE  Timed(journal, T)
BY FS_Subset DEF Timed

\* The recursion behind a replay: h[s] is the ledger after the rows of s.
Replays(journal, S, h) ==
    h = [s \in SUBSET S |-> IF s = {} THEN EmptyLedger
                            ELSE ApplyEvent(h[s \ {Latest(journal, s)}],
                                            journal[Latest(journal, s)])]

\* That recursion has a solution.
LEMMA ReplaysExist ==
    ASSUME NEW journal, NEW S, Timed(journal, S)
    PROVE  \E h : Replays(journal, S, h)
<1> DEFINE D(n) == {s \in SUBSET S : Cardinality(s) <= n}
           Body(h, s) == IF s = {} THEN EmptyLedger
                         ELSE ApplyEvent(h[s \ {Latest(journal, s)}], journal[Latest(journal, s)])
           N == {n \in Nat : \E h : h = [s \in D(n) |-> Body(h, s)]}
<1>f. ASSUME NEW T \in SUBSET S PROVE IsFiniteSet(T) /\ Cardinality(T) \in Nat
  BY FS_Subset, FS_CardinalityType DEF Timed
<1>p. ASSUME NEW n \in Nat, NEW s \in D(n + 1), s # {}
      PROVE  s \ {Latest(journal, s)} \in D(n)
  <2>1. Timed(journal, s) BY TimedPart
  <2>2. Latest(journal, s) \in s BY <1>p, <2>1, LatestIsLast
  <2>3. s \ {Latest(journal, s)} \in SUBSET S
    OBVIOUS
  <2>4. Cardinality(s \ {Latest(journal, s)}) = Cardinality(s) - 1
    BY <2>2, <1>f, FS_RemoveElement
  <2> QED BY <1>f, <2>3, <2>4
<1>1. 0 \in N
  <2> DEFINE h == [s \in D(0) |-> EmptyLedger]
  <2>1. ASSUME NEW s \in D(0) PROVE s = {}
    BY <1>f, FS_EmptySet
  <2>2. h = [s \in D(0) |-> Body(h, s)]
    BY <2>1
  <2> QED BY <2>2
<1>2. ASSUME NEW n \in N PROVE n + 1 \in N
  <2>1. n \in Nat
    OBVIOUS
  <2>2. PICK g : g = [s \in D(n) |-> Body(g, s)]
    OBVIOUS
  <2> DEFINE h == [s \in D(n + 1) |-> Body(g, s)]
  <2>3. ASSUME NEW s \in D(n) PROVE s \in D(n + 1) /\ h[s] = g[s]
    <3>1. s \in D(n + 1)
      BY <1>f, <2>1
    <3>2. g[s] = Body(g, s)
      BY <2>2
    <3> QED BY <3>1, <3>2
  <2>4. ASSUME NEW s \in D(n + 1) PROVE h[s] = Body(h, s)
    <3>1. CASE s = {}
      BY <3>1
    <3>2. CASE s # {}
      <4>1. s \ {Latest(journal, s)} \in D(n) BY <1>p, <2>1, <3>2
      <4>2. h[s \ {Latest(journal, s)}] = g[s \ {Latest(journal, s)}] BY <4>1, <2>3
      <4>3. h[s] = ApplyEvent(g[s \ {Latest(journal, s)}], journal[Latest(journal, s)])
        BY <3>2
      <4> HIDE DEF h
      <4> QED BY <3>2, <4>2, <4>3
    <3> QED BY <3>1, <3>2
  <2>5. h = [s \in D(n + 1) |-> Body(h, s)]
    <3>1. h = [s \in D(n + 1) |-> h[s]]
      OBVIOUS
    <3> HIDE DEF h, Body
    <3> QED BY <2>4, <3>1
  <2> HIDE DEF h, D
  <2> QED BY <2>1, <2>5
<1>3. N = Nat
  <2> HIDE DEF N
  <2>1. N \in SUBSET Nat BY DEF N
  <2> QED BY <1>1, <1>2, <2>1, NatSetInduction
<1>4. Cardinality(S) \in N
  <2> HIDE DEF N
  <2> QED BY <1>3, <1>f
<1>5. D(Cardinality(S)) = SUBSET S
  BY <1>f, FS_Subset DEF Timed
<1> QED BY <1>4, <1>5 DEF Replays

\* The replay is a solution's value.
LEMMA ReplayFolds ==
    ASSUME NEW journal, NEW S, Timed(journal, S)
    PROVE  \E h : Replays(journal, S, h) /\ ReplayOf(journal, S) = h[S]
<1> DEFINE h == CHOOSE g : Replays(journal, S, g)
<1>1. Replays(journal, S, h) BY ReplaysExist
<1>2. ReplayOf(journal, S) = h[S]
  BY DEF ReplayOf, MapThenFoldSet, Replays
<1> QED BY <1>1, <1>2

\* Solutions for a set and for a part of it agree on the part.
LEMMA ReplaysUnique ==
    ASSUME NEW journal, NEW S, Timed(journal, S), NEW T \in SUBSET S,
           NEW h, NEW j, Replays(journal, S, h), Replays(journal, T, j)
    PROVE  h[T] = j[T]
<1> DEFINE N == {n \in Nat : \A s \in SUBSET T : Cardinality(s) = n => h[s] = j[s]}
<1>f. ASSUME NEW s \in SUBSET T PROVE IsFiniteSet(s) /\ Cardinality(s) \in Nat
  BY FS_Subset, FS_CardinalityType DEF Timed
<1>1. 0 \in N
  <2>1. h[{}] = EmptyLedger /\ j[{}] = EmptyLedger BY DEF Replays
  <2> QED BY <1>f, <2>1, FS_EmptySet
<1>2. ASSUME NEW n \in N PROVE n + 1 \in N
  <2> SUFFICES ASSUME NEW s \in SUBSET T, Cardinality(s) = n + 1 PROVE h[s] = j[s]
    OBVIOUS
  <2> DEFINE p == Latest(journal, s)
  <2>1. n \in Nat
    OBVIOUS
  <2>2. s # {}
    <3>1. n + 1 # 0 BY <2>1
    <3> QED BY <3>1, FS_EmptySet, Zenon
  <2>3. p \in s
    <3>1. Timed(journal, s) BY TimedPart
    <3> QED BY <2>2, <3>1, LatestIsLast
  <2>4. Cardinality(s \ {p}) = n BY <1>f, <2>1, <2>3, FS_RemoveElement
  <2>5. h[s \ {p}] = j[s \ {p}] BY <2>4
  <2>6. h[s] = ApplyEvent(h[s \ {p}], journal[p]) BY <2>2 DEF Replays
  <2>7. j[s] = ApplyEvent(j[s \ {p}], journal[p]) BY <2>2 DEF Replays
  <2> QED BY <2>5, <2>6, <2>7
<1>3. N = Nat
  <2> HIDE DEF N
  <2>1. N \in SUBSET Nat BY DEF N
  <2> QED BY <1>1, <1>2, <2>1, NatSetInduction
<1> QED BY <1>3, <1>f

\* Without rows there is nothing.
LEMMA ReplayOfNothing ==
    ASSUME NEW journal PROVE ReplayOf(journal, {}) = EmptyLedger
<1>1. Timed(journal, {}) BY FS_EmptySet DEF Timed
<1>2. PICK h : Replays(journal, {}, h) /\ ReplayOf(journal, {}) = h[{}] BY <1>1, ReplayFolds
<1> QED BY <1>2 DEF Replays

\* Otherwise the latest row is applied to what the others come to.
LEMMA ReplayStep ==
    ASSUME NEW journal, NEW S, Timed(journal, S), S # {}
    PROVE  ReplayOf(journal, S) = ApplyEvent(ReplayOf(journal, S \ {Latest(journal, S)}),
                                             journal[Latest(journal, S)])
<1> DEFINE p == Latest(journal, S)
           R == S \ {p}
<1>1. PICK h : Replays(journal, S, h) /\ ReplayOf(journal, S) = h[S] BY ReplayFolds
<1>2. Timed(journal, R) BY TimedPart
<1>3. PICK j : Replays(journal, R, j) /\ ReplayOf(journal, R) = j[R] BY <1>2, ReplayFolds
<1>4. h[R] = j[R]
  <2>1. R \in SUBSET S
    OBVIOUS
  <2> HIDE DEF R, p
  <2> QED BY <1>1, <1>3, <2>1, ReplaysUnique
<1>5. h[S] = ApplyEvent(h[R], journal[p]) BY <1>1 DEF Replays
<1> QED BY <1>1, <1>3, <1>4, <1>5

\* What holds of no rows, and of any rows when it holds of all but the latest, holds of all.
LEMMA ReplayInduction ==
    ASSUME NEW journal, NEW S, Timed(journal, S), NEW C, {} \in C,
           \A T \in SUBSET S : T # {} /\ T \ {Latest(journal, T)} \in C => T \in C
    PROVE  SUBSET S \subseteq C
<1> DEFINE N == {n \in Nat : \A T \in SUBSET S : Cardinality(T) = n => T \in C}
<1>f. ASSUME NEW T \in SUBSET S PROVE IsFiniteSet(T) /\ Cardinality(T) \in Nat
  BY FS_Subset, FS_CardinalityType DEF Timed
<1>1. 0 \in N
  BY <1>f, FS_EmptySet
<1>2. ASSUME NEW n \in N PROVE n + 1 \in N
  <2> SUFFICES ASSUME NEW T \in SUBSET S, Cardinality(T) = n + 1 PROVE T \in C
    OBVIOUS
  <2> DEFINE p == Latest(journal, T)
  <2>1. n \in Nat
    OBVIOUS
  <2>2. T # {}
    <3>1. n + 1 # 0 BY <2>1
    <3> QED BY <3>1, FS_EmptySet, Zenon
  <2>3. p \in T
    <3>1. Timed(journal, T) BY TimedPart
    <3> QED BY <2>2, <3>1, LatestIsLast
  <2>4. Cardinality(T \ {p}) = n
    <3>1. IsFiniteSet(T) BY <1>f
    <3>2. Cardinality(T \ {p}) = Cardinality(T) - 1
      <4> HIDE DEF p
      <4> QED BY <2>3, <3>1, FS_RemoveElement
    <3> QED BY <2>1, <3>2
  <2>5. T \ {p} \in C BY <2>4
  <2> QED BY <2>2, <2>5
<1>3. N = Nat
  <2> HIDE DEF N
  <2>1. N \in SUBSET Nat BY DEF N
  <2> QED BY <1>1, <1>2, <2>1, NatSetInduction
<1> QED BY <1>3, <1>f

-----------------------------------------------------------------------------
(* One event: the ledger stays sound.                                      *)

\* A ledger with new totals.
LEMMA SoundUpdate ==
    ASSUME NEW L, SoundLedger(L), NEW totals, SoundTotals(totals), NEW incomplete \in BOOLEAN,
           ~incomplete => Known(totals),
           NEW M, M = [L EXCEPT !.totals = totals, !.incomplete = incomplete]
    PROVE  SoundLedger(M) /\ M.totals = totals /\ M.incomplete = incomplete /\ M.valid = L.valid
BY DEF SoundLedger, SoundTotals

\* An error changes nothing but the ledger's validity.
LEMMA ErrorIsSound ==
    ASSUME NEW L, SoundLedger(L)
    PROVE  SoundLedger(Error(L)) /\ ~Error(L).valid /\ Error(L).totals = L.totals
BY DEF SoundLedger, SoundTotals, Error

\* Totals with other cash, flows and result, and one other position.
LEMMA SoundTotalsUpdate ==
    ASSUME NEW totals, SoundTotals(totals), NEW cash \in Nat, NEW contributed \in Int,
           NEW withdrawn \in Int, NEW realized \in Int, NEW i \in Instruments,
           NEW book, SoundBook(book),
           NEW after, after = [cash |-> cash, contributed |-> contributed,
                               withdrawn |-> withdrawn, realized |-> realized,
                               positions |-> [totals.positions EXCEPT ![i] = book]]
    PROVE  /\ SoundTotals(after)
           /\ after.positions[i] = book
           /\ \A j \in Instruments \ {i} : after.positions[j] = totals.positions[j]
<1>1. totals.positions \in [Instruments -> Books] BY DEF SoundTotals, Totals
<1>2. book \in Books BY DEF SoundBook, Books, NoPosition
<1>3. after.positions \in [Instruments -> Books] BY <1>1, <1>2
<1>4. after \in Totals BY <1>3 DEF Totals
<1>5. after.positions[i] = book BY <1>1
<1>6. \A j \in Instruments \ {i} : after.positions[j] = totals.positions[j] BY <1>1
<1> QED BY <1>4, <1>5, <1>6 DEF SoundTotals

Ledgers == [totals: Totals, incomplete: BOOLEAN, valid: BOOLEAN]

\* M is L with other cash and flows.
Flowed(L, M) ==
    /\ SoundLedger(M)
    /\ M.valid = L.valid /\ M.incomplete = L.incomplete
    /\ M.totals.positions = L.totals.positions
    /\ M.totals.realized = L.totals.realized

\* Other cash and flows leave a ledger sound.
LEMMA FlowIsSound ==
    ASSUME NEW L, SoundLedger(L), NEW T, T = L.totals,
           NEW U \in Totals, U.positions = T.positions, U.realized = T.realized,
           NEW M, M = [L EXCEPT !.totals = U]
    PROVE  Flowed(L, M)
<1>1. L \in Ledgers BY DEF SoundLedger, Ledgers
<1>2. M.totals = U /\ M \in Ledgers /\ M.valid = L.valid /\ M.incomplete = L.incomplete
  BY <1>1 DEF Ledgers
<1> QED BY <1>1, <1>2 DEF Flowed, SoundLedger, SoundTotals, Known, Ledgers

\* A deposit, or the cash a portfolio was opened with.
LEMMA ExternalEvent ==
    ASSUME NEW L, SoundLedger(L), NEW op, TypedRow(op), NEW M, M = External(L, op), M.valid
    PROVE  /\ Flowed(L, M)
           /\ M.totals.cash = L.totals.cash + op.amount
           /\ M.totals.contributed = L.totals.contributed + op.amount
           /\ M.totals.withdrawn = L.totals.withdrawn
<1>1. L \in Ledgers /\ L.totals \in Totals /\ op.amount \in Int
  BY DEF SoundLedger, SoundTotals, TypedRow, Ledgers
<1>2. ~Error(L).valid
  BY <1>1 DEF Ledgers, Error
<1>3. /\ op.amount > 0
      /\ M = [L EXCEPT !.totals.cash = @ + op.amount, !.totals.contributed = @ + op.amount]
  BY <1>1, <1>2 DEF External
<1>4. /\ M.totals = [L.totals EXCEPT !.cash = @ + op.amount, !.contributed = @ + op.amount]
      /\ M = [L EXCEPT !.totals = M.totals]
  BY <1>1, <1>3 DEF Ledgers
<1>5. PICK T, U : T = L.totals /\ U = M.totals
  OBVIOUS
<1>6. PICK cash \in Nat, contributed \in Int :
            cash = T.cash + op.amount /\ contributed = T.contributed + op.amount
  BY <1>1, <1>3, <1>5 DEF Totals
<1>7. U = [T EXCEPT !.cash = cash, !.contributed = contributed] /\ T \in Totals
  BY <1>1, <1>4, <1>5, <1>6
<1>8. /\ U \in Totals /\ U.cash = cash /\ U.contributed = contributed
      /\ U.withdrawn = T.withdrawn /\ U.positions = T.positions /\ U.realized = T.realized
  BY <1>7 DEF Totals
<1>9. M = [L EXCEPT !.totals = U]
  BY <1>4, <1>5
<1>10. Flowed(L, M)
  BY <1>5, <1>8, <1>9, FlowIsSound
<1> QED BY <1>5, <1>6, <1>8, <1>10

\* A withdrawal.
LEMMA WithdrawEvent ==
    ASSUME NEW L, SoundLedger(L), NEW op, TypedRow(op), NEW M, M = Withdraw(L, op), M.valid
    PROVE  /\ Flowed(L, M)
           /\ M.totals.cash = L.totals.cash - op.amount
           /\ M.totals.contributed = L.totals.contributed
           /\ M.totals.withdrawn = L.totals.withdrawn + op.amount
<1>1. L \in Ledgers /\ L.totals \in Totals /\ op.amount \in Int
  BY DEF SoundLedger, SoundTotals, TypedRow, Ledgers
<1>2. ~Error(L).valid
  BY <1>1 DEF Ledgers, Error
<1>3. /\ ~(L.totals.cash < op.amount)
      /\ M = [L EXCEPT !.totals.cash = @ - op.amount, !.totals.withdrawn = @ + op.amount]
  BY <1>1, <1>2 DEF Withdraw
<1>4. /\ M.totals = [L.totals EXCEPT !.cash = @ - op.amount, !.withdrawn = @ + op.amount]
      /\ M = [L EXCEPT !.totals = M.totals]
  BY <1>1, <1>3 DEF Ledgers
<1>5. PICK T, U : T = L.totals /\ U = M.totals
  OBVIOUS
<1>6. PICK cash \in Nat, withdrawn \in Int :
            cash = T.cash - op.amount /\ withdrawn = T.withdrawn + op.amount
  BY <1>1, <1>3, <1>5 DEF Totals
<1>7. U = [T EXCEPT !.cash = cash, !.withdrawn = withdrawn] /\ T \in Totals
  BY <1>1, <1>4, <1>5, <1>6
<1>8. /\ U \in Totals /\ U.cash = cash /\ U.withdrawn = withdrawn
      /\ U.contributed = T.contributed /\ U.positions = T.positions /\ U.realized = T.realized
  BY <1>7 DEF Totals
<1>9. M = [L EXCEPT !.totals = U]
  BY <1>4, <1>5
<1>10. Flowed(L, M)
  BY <1>5, <1>8, <1>9, FlowIsSound
<1> QED BY <1>5, <1>6, <1>8, <1>10

\* A fee or an income: a ledger with a cash that is less by what the row takes.
LEMMA CashEvent ==
    ASSUME NEW L, SoundLedger(L), NEW M, NEW a \in Int, L.totals.cash + a >= 0,
           M = [L EXCEPT !.totals.cash = L.totals.cash + a]
    PROVE  /\ Flowed(L, M)
           /\ M.totals.cash = L.totals.cash + a
           /\ M.totals.contributed = L.totals.contributed
           /\ M.totals.withdrawn = L.totals.withdrawn
<1>1. L \in Ledgers /\ L.totals \in Totals
  BY DEF SoundLedger, SoundTotals, Ledgers
<1>4. /\ M.totals = [L.totals EXCEPT !.cash = L.totals.cash + a]
      /\ M = [L EXCEPT !.totals = M.totals]
  BY <1>1 DEF Ledgers
<1>5. PICK T, U : T = L.totals /\ U = M.totals
  OBVIOUS
<1>6. PICK cash \in Nat : cash = T.cash + a
  BY <1>1, <1>5 DEF Totals
<1>7. U = [T EXCEPT !.cash = cash] /\ T \in Totals
  BY <1>1, <1>4, <1>5, <1>6
<1>8. /\ U \in Totals /\ U.cash = cash /\ U.withdrawn = T.withdrawn
      /\ U.contributed = T.contributed /\ U.positions = T.positions /\ U.realized = T.realized
  BY <1>7 DEF Totals
<1>9. M = [L EXCEPT !.totals = U]
  BY <1>4, <1>5
<1>10. Flowed(L, M)
  BY <1>5, <1>8, <1>9, FlowIsSound
<1> QED BY <1>5, <1>6, <1>8, <1>10

LEMMA ChargeEvent ==
    ASSUME NEW L, SoundLedger(L), NEW op, TypedRow(op), NEW M, M = Charge(L, op), M.valid
    PROVE  /\ Flowed(L, M)
           /\ M.totals.cash = L.totals.cash - Fee(op)
           /\ M.totals.contributed = L.totals.contributed
           /\ M.totals.withdrawn = L.totals.withdrawn
<1>1. L \in Ledgers /\ L.totals \in Totals /\ L.totals.cash \in Nat
  BY DEF SoundLedger, SoundTotals, Ledgers, Totals
<1>2. ~Error(L).valid /\ Fee(op) \in Int
  BY <1>1 DEF Ledgers, Error, Fee, TypedRow
<1>3. ~(L.totals.cash < Fee(op)) /\ M = [L EXCEPT !.totals.cash = @ - Fee(op)]
  BY <1>1, <1>2 DEF Charge
<1>4. PICK a \in Int : a = -Fee(op)
  BY <1>2
<1>5. L.totals.cash + a = L.totals.cash - Fee(op) /\ L.totals.cash + a >= 0
  BY <1>1, <1>2, <1>3, <1>4
<1>6. M = [L EXCEPT !.totals.cash = L.totals.cash + a]
  BY <1>3, <1>5
<1>7. L.totals.cash + a >= 0
  BY <1>5
<1>8. /\ Flowed(L, M) /\ M.totals.cash = L.totals.cash + a
      /\ M.totals.contributed = L.totals.contributed
      /\ M.totals.withdrawn = L.totals.withdrawn
  BY <1>6, <1>7, CashEvent
<1> QED BY <1>5, <1>8

LEMMA IncomeEvent ==
    ASSUME NEW L, SoundLedger(L), NEW op, TypedRow(op), NEW M, M = Income(L, op), M.valid
    PROVE  /\ Flowed(L, M)
           /\ M.totals.cash = L.totals.cash + op.amount
           /\ M.totals.contributed = L.totals.contributed
           /\ M.totals.withdrawn = L.totals.withdrawn
<1>1. L \in Ledgers /\ L.totals \in Totals /\ L.totals.cash \in Nat /\ op.amount \in Int
  BY DEF SoundLedger, SoundTotals, Ledgers, Totals, TypedRow
<1>2. ~Error(L).valid
  BY <1>1 DEF Ledgers, Error
<1>3. op.amount > 0 /\ M = [L EXCEPT !.totals.cash = @ + op.amount]
  BY <1>1, <1>2 DEF Income
<1>4. L.totals.cash + op.amount >= 0
  BY <1>1, <1>3
<1>5. M = [L EXCEPT !.totals.cash = L.totals.cash + op.amount]
  BY <1>3
<1> QED BY <1>1, <1>4, <1>5, CashEvent

\* A rounded average is off by half a quantum at most.
LEMMA MoneyRounds ==
    ASSUME NEW total \in Int, NEW units \in Nat \ {0}
    PROVE  /\ Money(total, units) \in Int
           /\ 2 * (units * Money(total, units) - total) <= units
           /\ -units <= 2 * (units * Money(total, units) - total)
<1> DEFINE a == 2 * total + units
           b == 2 * units
           q == a \div b
<1>1. a \in Int /\ b \in Nat /\ b > 0
  OBVIOUS
<1>2. q \in Int /\ b * q <= a /\ a < b * q + b
  <2> HIDE DEF a, b
  <2>1. \A x \in Int, y \in Nat : y > 0 =>
            x \div y \in Int /\ y * (x \div y) <= x /\ x < y * (x \div y) + y
    OBVIOUS
  <2> QED BY <1>1, <2>1
<1>3. Money(total, units) = q
  BY DEF Money
<1>4. \A x \in Int : b * x = 2 * (units * x)
  OBVIOUS
<1>5. units * q \in Int
  <2> HIDE DEF q
  <2> QED BY <1>2
<1>6. b * q = 2 * (units * q)
  <2> HIDE DEF q
  <2> QED BY <1>2, <1>4
<1> HIDE DEF q
<1>7. PICK w \in Int : w = units * q
  BY <1>5
<1>8. 2 * w <= 2 * total + units /\ 2 * total + units < 2 * w + 2 * units
  BY <1>2, <1>6, <1>7
<1> QED BY <1>2, <1>3, <1>7, <1>8

\* M is L with another position of i.
Traded(L, M, i, book) ==
    /\ SoundLedger(M)
    /\ M.valid = L.valid
    /\ M.totals.positions[i] = book
    /\ \A j \in Instruments \ {i} : M.totals.positions[j] = L.totals.positions[j]
    /\ M.totals.withdrawn = L.totals.withdrawn

\* U is T with other cash, contributions and result, and another position of i.
Changed(T, U, i, book) ==
    /\ U.cash \in Nat /\ U.contributed \in Int /\ U.realized \in Int
    /\ U = [cash |-> U.cash, contributed |-> U.contributed, withdrawn |-> T.withdrawn,
            realized |-> U.realized, positions |-> [T.positions EXCEPT ![i] = book]]

Becomes(L, M, U, incomplete) ==
    /\ incomplete \in BOOLEAN
    /\ M = [L EXCEPT !.totals = U, !.incomplete = incomplete]

\* A ledger stays sound with a sound position whose cost is known as long as it is complete.
LEMMA TradeIsSound ==
    ASSUME NEW L, SoundLedger(L), NEW i \in Instruments, NEW book, SoundBook(book),
           NEW U, Changed(L.totals, U, i, book),
           NEW M, NEW incomplete, Becomes(L, M, U, incomplete),
           ~incomplete => ~L.incomplete /\ (book.units > 0 => book.cost # None)
    PROVE  Traded(L, M, i, book) /\ M.totals = U /\ M.incomplete = incomplete
<1>0. PICK T : T = L.totals
  OBVIOUS
<1>1. L \in Ledgers /\ SoundTotals(T) /\ T \in Totals /\ T.withdrawn \in Int
      /\ (~L.incomplete => Known(T))
  BY <1>0 DEF SoundLedger, Ledgers, SoundTotals, Totals
<1>2. /\ SoundTotals(U)
      /\ U.positions[i] = book
      /\ \A j \in Instruments \ {i} : U.positions[j] = T.positions[j]
  BY <1>0, <1>1, SoundTotalsUpdate DEF Changed
<1>3. U.withdrawn = T.withdrawn
  <2>1. PICK a, b, c, d, e : U = [cash |-> a, contributed |-> b, withdrawn |-> c,
                                   realized |-> d, positions |-> e] /\ c = T.withdrawn
    BY <1>0 DEF Changed
  <2> QED BY <2>1
<1>4. ~incomplete => Known(U)
  <2> SUFFICES ASSUME ~incomplete, NEW j \in Instruments, U.positions[j].units > 0
               PROVE  U.positions[j].cost # None
    BY DEF Known
  <2>1. CASE j = i
    BY <1>2, <2>1
  <2>2. CASE j # i
    BY <1>1, <1>2, <2>2 DEF Known
  <2> QED BY <2>1, <2>2
<1>5. U \in Totals
  BY <1>2 DEF SoundTotals
<1>6. M \in Ledgers /\ M.totals = U /\ M.incomplete = incomplete /\ M.valid = L.valid
  BY <1>1, <1>5 DEF Ledgers, Becomes
<1>7. SoundLedger(M)
  BY <1>2, <1>4, <1>6 DEF SoundLedger, Ledgers
<1> QED BY <1>0, <1>2, <1>3, <1>6, <1>7 DEF Traded

\* What a position is, and what a row of the ledger may be.
LEMMA BookOf ==
    ASSUME NEW L, SoundLedger(L), NEW i \in Instruments
    PROVE  /\ L \in Ledgers /\ L.totals \in Totals /\ L.totals.cash \in Nat
           /\ L.totals.contributed \in Int /\ L.totals.realized \in Int
           /\ L.totals.positions[i] = [units |-> L.totals.positions[i].units,
                                       cost |-> L.totals.positions[i].cost]
           /\ L.totals.positions[i].units \in Nat
           /\ L.totals.positions[i].cost \in Int \cup {None}
           /\ L.totals.positions[i].units = 0 => L.totals.positions[i].cost = None
           /\ ~L.incomplete /\ L.totals.positions[i].units > 0 =>
                    L.totals.positions[i].cost # None
<1>1. L \in Ledgers /\ L.totals \in Totals /\ SoundBook(L.totals.positions[i])
      /\ (~L.incomplete => Known(L.totals))
  BY DEF SoundLedger, SoundTotals, Ledgers
<1>2. L.totals.positions[i] \in Books
  BY <1>1 DEF Totals
<1>3. /\ L.totals.positions[i].units \in Nat /\ L.totals.positions[i].cost \in Int \cup {None}
      /\ L.totals.positions[i] = [units |-> L.totals.positions[i].units,
                                  cost |-> L.totals.positions[i].cost]
  BY <1>2 DEF Books
<1>4. L.totals.positions[i].units = 0 => L.totals.positions[i].cost = None
  BY <1>1 DEF SoundBook, NoPosition
<1> QED BY <1>1, <1>3, <1>4 DEF Known, Totals

\* An opened position: bought with nothing, contributed at its price.
LEMMA OpenEvent ==
    ASSUME NEW L, SoundLedger(L), NEW op, TypedRow(op), op.type = "OPENING_POSITION",
           NEW M, M = Open(L, op), M.valid,
           NEW book, book = L.totals.positions[op.instrument]
    PROVE  /\ \E after : /\ Traded(L, M, op.instrument, after)
                         /\ after.units = book.units + op.units
                         /\ book.units = 0 => after = [units |-> op.units, cost |-> op.price]
                         /\ ~M.incomplete =>
                                after.cost = IF book.units = 0 THEN op.price
                                             ELSE Money(book.units * book.cost + op.units * op.price,
                                                        book.units + op.units)
           /\ op.units > 0
           /\ M.totals.cash = L.totals.cash
           /\ M.totals.realized = L.totals.realized
           /\ ~M.incomplete => /\ ~L.incomplete
                               /\ op.price \in Int
                               /\ M.totals.contributed =
                                        L.totals.contributed + op.units * op.price
<1> DEFINE i == op.instrument
           known == op.price # None /\ (book.units > 0 => book.cost # None)
           value == op.units * op.price
           mixed == IF book.units = 0 THEN [units |-> op.units, cost |-> op.price]
                    ELSE Mixed(book, op.units, book.units * book.cost + value)
<1>1. i \in Instruments /\ op.units \in Int /\ op.price \in Int \cup {None}
  BY DEF TypedRow
<1>2. /\ L \in Ledgers /\ L.totals \in Totals /\ L.totals.cash \in Nat
      /\ L.totals.contributed \in Int /\ L.totals.realized \in Int
      /\ book.units \in Nat /\ book.cost \in Int \cup {None}
      /\ book.units = 0 => book.cost = None
      /\ ~L.incomplete /\ book.units > 0 => book.cost # None
  BY <1>1, BookOf
<1>3. ~Error(L).valid
  BY <1>2 DEF Ledgers, Error
<1>4. op.units > 0 /\ ~(op.price # None /\ op.price < 0)
  BY <1>1, <1>3 DEF Open
<1>5. PICK T : T = L.totals
  OBVIOUS
<1>6. CASE ~known
  <2> DEFINE after == Unknown(book, op.units)
             U == [T EXCEPT !.positions[i] = after]
  <2>1. M = [L EXCEPT !.totals.positions[i] = after, !.incomplete = TRUE]
    BY <1>3, <1>6 DEF Open
  <2>2. /\ U.cash = T.cash /\ U.contributed = T.contributed /\ U.realized = T.realized
        /\ Changed(T, U, i, after)
    BY <1>2, <1>5 DEF Totals, Changed
  <2>3. M.totals = U
    BY <1>2, <1>5, <2>1 DEF Ledgers
  <2>4. M = [L EXCEPT !.totals = U, !.incomplete = TRUE]
    BY <1>2, <1>5, <2>1 DEF Ledgers
  <2>5. SoundBook(after) /\ after.units = book.units + op.units
    BY <1>1, <1>2, <1>4 DEF Unknown, SoundBook
  <2> HIDE DEF U, after
  <2>6. Traded(L, M, i, after) /\ M.totals = U /\ M.incomplete = TRUE
    <3>1. PICK x, y : x = i /\ y = TRUE
      OBVIOUS
    <3>2. Changed(L.totals, U, x, after) /\ x \in Instruments
      BY <1>1, <1>5, <2>2, <3>1
    <3>3. /\ Becomes(L, M, U, y)
          /\ ~y => ~L.incomplete /\ (after.units > 0 => after.cost # None)
      BY <2>4, <3>1 DEF Becomes
    <3>4. Traded(L, M, x, after) /\ M.totals = U /\ M.incomplete = y
      BY <2>5, <3>2, <3>3, TradeIsSound
    <3> QED BY <3>1, <3>4
  <2>7. book.units = 0 => after = [units |-> op.units, cost |-> op.price]
    BY <1>1, <1>2, <1>6 DEF after, Unknown
  <2> QED BY <1>4, <1>5, <2>2, <2>5, <2>6, <2>7
<1>7. CASE known
  <2>1. op.price \in Int /\ value \in Int /\ (book.units > 0 => book.cost \in Int)
    BY <1>1, <1>2, <1>7
  <2>2. PICK paid \in Int : paid = value
    BY <2>1
  <2>3. PICK after : after = mixed
    OBVIOUS
  <2>4. M = [L EXCEPT !.totals.contributed = @ + paid, !.totals.positions[i] = after]
    BY <1>3, <1>4, <1>7, <2>2, <2>3 DEF Open
  <2>5. /\ SoundBook(after) /\ after.units = book.units + op.units
        /\ book.units = 0 => after = [units |-> op.units, cost |-> op.price]
        /\ after.cost = IF book.units = 0 THEN op.price
                        ELSE Money(book.units * book.cost + op.units * op.price,
                                   book.units + op.units)
        /\ after.cost \in Int
    <3>1. CASE book.units = 0
      BY <1>1, <1>4, <2>1, <2>3, <3>1 DEF SoundBook
    <3>2. CASE book.units # 0
      <4>1. book.units > 0 /\ book.units * book.cost \in Int
        BY <1>2, <2>1, <3>2
      <4>2. PICK total \in Int, units \in Nat \ {0} :
                total = book.units * book.cost + value /\ units = book.units + op.units
        <5>1. book.units + op.units \in Nat \ {0}
          BY <1>1, <1>2, <1>4
        <5>2. PICK prior, added \in Int : prior = book.units * book.cost /\ added = value
          BY <2>1, <4>1
        <5>3. prior + added \in Int
          BY <5>2
        <5> QED BY <5>1, <5>2, <5>3
      <4>3. Money(total, units) \in Int
        BY MoneyRounds
      <4>4. after = [units |-> units, cost |-> Money(total, units)]
        BY <2>3, <3>2, <4>2 DEF Mixed
      <4>5. SoundBook(after)
        BY <4>3, <4>4 DEF SoundBook
      <4> QED BY <3>2, <4>2, <4>3, <4>4, <4>5
    <3> QED BY <3>1, <3>2
  <2> DEFINE U == [T EXCEPT !.contributed = @ + paid, !.positions[i] = after]
  <2>15. PICK contributed \in Int : contributed = T.contributed + paid
    BY <1>2, <1>5
  <2>16. U = [T EXCEPT !.contributed = contributed, !.positions[i] = after]
    BY <2>15
  <2>6. /\ U.cash = T.cash /\ U.contributed = T.contributed + paid /\ U.realized = T.realized
        /\ Changed(T, U, i, after)
    <3> HIDE DEF U
    <3> QED BY <1>2, <1>5, <2>15, <2>16 DEF Totals, Changed
  <2>7. M.totals = U /\ M.incomplete = L.incomplete
    BY <1>2, <1>5, <2>4 DEF Ledgers
  <2>8. M = [L EXCEPT !.totals = U, !.incomplete = L.incomplete]
    BY <1>2, <1>5, <2>4 DEF Ledgers
  <2>9. L.incomplete \in BOOLEAN
    BY <1>2 DEF Ledgers
  <2>10. after.cost # None
    BY <2>5, RequestAssumption
  <2> HIDE DEF U
  <2>11. Traded(L, M, i, after) /\ M.totals = U
    <3>1. PICK x, y : x = i /\ y = L.incomplete
      OBVIOUS
    <3>2. Changed(L.totals, U, x, after) /\ x \in Instruments
      BY <1>1, <1>5, <2>6, <3>1
    <3>3. (~y => ~L.incomplete) /\ Becomes(L, M, U, y)
      BY <2>8, <2>9, <3>1 DEF Becomes
    <3>4. Traded(L, M, x, after) /\ M.totals = U
      BY <2>5, <2>10, <3>2, <3>3, TradeIsSound
    <3> QED BY <3>1, <3>4
  <2> QED BY <1>4, <1>5, <2>1, <2>2, <2>5, <2>6, <2>7, <2>11
<1> QED BY <1>6, <1>7

\* A purchase: paid from the cash, averaged into what the position has cost.
LEMMA BuyEvent ==
    ASSUME NEW L, SoundLedger(L), NEW op, TypedRow(op), op.type = "BUY",
           NEW M, M = Buy(L, op), M.valid,
           NEW book, book = L.totals.positions[op.instrument]
    PROVE  /\ \E after : /\ Traded(L, M, op.instrument, after)
                         /\ after.units = book.units + op.units
                         /\ ~M.incomplete =>
                                after.cost = Money((IF book.units = 0 THEN 0
                                                    ELSE book.units * book.cost)
                                                   + (op.units * op.price + op.commission),
                                                   book.units + op.units)
           /\ op.units > 0 /\ op.price \in Int
           /\ M.totals.cash = L.totals.cash - (op.units * op.price + op.commission)
           /\ M.totals.contributed = L.totals.contributed
           /\ M.totals.realized = L.totals.realized
           /\ ~M.incomplete => ~L.incomplete
<1> DEFINE i == op.instrument
           spent == op.units * op.price + op.commission
           prior == IF book.cost = None THEN 0 ELSE book.units * book.cost
           unknown == book.units > 0 /\ book.cost = None
<1>1. /\ i \in Instruments /\ op.units \in Int /\ op.price \in Int \cup {None}
      /\ op.commission \in Int
  BY DEF TypedRow
<1>2. /\ L \in Ledgers /\ L.totals \in Totals /\ L.totals.cash \in Nat
      /\ L.totals.contributed \in Int /\ L.totals.realized \in Int
      /\ book.units \in Nat /\ book.cost \in Int \cup {None}
      /\ book.units = 0 => book.cost = None
      /\ ~L.incomplete /\ book.units > 0 => book.cost # None
  BY <1>1, BookOf
<1>3. ~Error(L).valid
  BY <1>2 DEF Ledgers, Error
<1>4. op.units > 0 /\ op.price \in Int /\ ~(L.totals.cash < spent)
  BY <1>1, <1>3 DEF Buy
<1>5. spent \in Int
  BY <1>1, <1>4
<1>6. PICK T, paid : T = L.totals /\ paid = spent /\ paid \in Int
  BY <1>5
<1>7. PICK cash \in Nat : cash = T.cash - paid
  BY <1>2, <1>4, <1>6
<1>8. ASSUME NEW after, NEW y, SoundBook(after),
             M.totals = [T EXCEPT !.cash = cash, !.positions[i] = after],
             Becomes(L, M, M.totals, y),
             ~y => ~L.incomplete /\ (after.units > 0 => after.cost # None)
      PROVE  /\ Traded(L, M, i, after)
             /\ M.totals.cash = L.totals.cash - spent
             /\ M.totals.contributed = L.totals.contributed
             /\ M.totals.realized = L.totals.realized
             /\ M.incomplete = y
  <2>1. PICK x, U : x = i /\ U = M.totals
    OBVIOUS
  <2>2. U = [T EXCEPT !.cash = cash, !.positions[x] = after] /\ T \in Totals
    BY <1>2, <1>6, <1>8, <2>1
  <2>3. /\ U.cash = cash /\ U.contributed = T.contributed /\ U.realized = T.realized
        /\ Changed(T, U, x, after)
    BY <2>2 DEF Totals, Changed
  <2>4. Changed(L.totals, U, x, after) /\ x \in Instruments /\ Becomes(L, M, U, y)
    BY <1>1, <1>6, <1>8, <2>1, <2>3
  <2>5. Traded(L, M, x, after) /\ M.incomplete = y
    BY <1>8, <2>4, TradeIsSound
  <2> QED BY <1>6, <1>7, <2>1, <2>3, <2>5
<1>9. CASE unknown
  <2>1. PICK after, y : after = Unknown(book, op.units) /\ y = TRUE
    OBVIOUS
  <2>2. M = [L EXCEPT !.totals.cash = @ - paid, !.incomplete = TRUE,
                      !.totals.positions[i] = after]
    BY <1>3, <1>4, <1>6, <1>9, <2>1 DEF Buy
  <2>3. M.totals = [L.totals EXCEPT !.cash = @ - paid, !.positions[i] = after]
    BY <1>2, <2>2 DEF Ledgers
  <2>4. M.totals = [T EXCEPT !.cash = cash, !.positions[i] = after]
    BY <1>6, <1>7, <2>3
  <2>5. M = [L EXCEPT !.totals = M.totals, !.incomplete = y]
    BY <1>2, <2>1, <2>2 DEF Ledgers
  <2>6. SoundBook(after) /\ after.units = book.units + op.units
    BY <1>1, <1>2, <1>4, <2>1 DEF Unknown, SoundBook
  <2>7. /\ Becomes(L, M, M.totals, y)
        /\ ~y => ~L.incomplete /\ (after.units > 0 => after.cost # None)
    BY <2>1, <2>5 DEF Becomes
  <2>8. /\ Traded(L, M, i, after)
        /\ M.totals.cash = L.totals.cash - spent
        /\ M.totals.contributed = L.totals.contributed
        /\ M.totals.realized = L.totals.realized
        /\ M.incomplete = y
    BY <1>8, <2>4, <2>6, <2>7
  <2> QED BY <1>4, <2>1, <2>6, <2>8
<1>10. CASE ~unknown
  <2>1. book.units > 0 => book.cost \in Int
    BY <1>2, <1>10
  <2>2. /\ prior \in Int
        /\ prior = IF book.units = 0 THEN 0 ELSE book.units * book.cost
    <3>1. CASE book.units = 0
      BY <1>2, <3>1
    <3>2. CASE book.units # 0
      <4>1. book.units > 0 /\ book.cost \in Int /\ book.cost # None
        BY <1>2, <1>10, <2>1, <3>2
      <4> QED BY <1>2, <3>2, <4>1
    <3> QED BY <3>1, <3>2
  <2>3. PICK total \in Int, units \in Nat \ {0} :
            total = prior + paid /\ units = book.units + op.units
    <3>1. book.units + op.units \in Nat \ {0}
      BY <1>1, <1>2, <1>4
    <3>2. prior + paid \in Int
      <4> HIDE DEF prior, spent
      <4> QED BY <1>6, <2>2
    <3> QED BY <3>1, <3>2
  <2>4. PICK after, y : after = [units |-> units, cost |-> Money(total, units)] /\ y = L.incomplete
    OBVIOUS
  <2>5. SoundBook(after) /\ after.units = book.units + op.units /\ after.cost # None
        /\ after.cost = Money(total, units)
    <3>1. Money(total, units) \in Int
      BY MoneyRounds
    <3> QED BY <2>3, <2>4, <3>1, RequestAssumption DEF SoundBook
  <2>6. M = [L EXCEPT !.totals.cash = @ - paid,
                      !.totals.positions[i] = Mixed(book, op.units, prior + paid)]
    BY <1>3, <1>4, <1>6, <1>10 DEF Buy
  <2>7. Mixed(book, op.units, prior + paid) = after
    BY <2>3, <2>4 DEF Mixed
  <2>8. M = [L EXCEPT !.totals.cash = @ - paid, !.totals.positions[i] = after]
    BY <2>6, <2>7
  <2>9. M.totals = [L.totals EXCEPT !.cash = @ - paid, !.positions[i] = after]
    BY <1>2, <2>8 DEF Ledgers
  <2>10. M.totals = [T EXCEPT !.cash = cash, !.positions[i] = after]
    BY <1>6, <1>7, <2>9
  <2>11. M = [L EXCEPT !.totals = M.totals, !.incomplete = y] /\ y \in BOOLEAN
    BY <1>2, <2>4, <2>8 DEF Ledgers
  <2>12. /\ Becomes(L, M, M.totals, y)
         /\ ~y => ~L.incomplete /\ (after.units > 0 => after.cost # None)
    BY <2>4, <2>5, <2>11 DEF Becomes
  <2>13. /\ Traded(L, M, i, after)
         /\ M.totals.cash = L.totals.cash - spent
         /\ M.totals.contributed = L.totals.contributed
         /\ M.totals.realized = L.totals.realized
         /\ M.incomplete = y
    BY <1>8, <2>5, <2>10, <2>12
  <2>14. after.cost = Money((IF book.units = 0 THEN 0 ELSE book.units * book.cost)
                            + (op.units * op.price + op.commission), book.units + op.units)
    BY <1>6, <2>2, <2>3, <2>5
  <2> QED BY <1>4, <2>4, <2>5, <2>13, <2>14
<1> QED BY <1>9, <1>10

\* A sale: the proceeds come in, and what the units have cost is the result's other side.
LEMMA SellEvent ==
    ASSUME NEW L, SoundLedger(L), NEW op, TypedRow(op), op.type = "SELL",
           NEW M, M = Sell(L, op), M.valid,
           NEW book, book = L.totals.positions[op.instrument]
    PROVE  /\ \E after : /\ Traded(L, M, op.instrument, after)
                         /\ after.units = book.units - op.units
                         /\ after.units > 0 => after.cost = book.cost
           /\ op.units > 0 /\ op.price \in Int
           /\ M.totals.cash = L.totals.cash + (op.units * op.price - op.commission)
           /\ M.totals.contributed = L.totals.contributed
           /\ ~M.incomplete =>
                /\ ~L.incomplete /\ book.cost \in Int
                /\ M.totals.realized = L.totals.realized
                                       + (op.units * op.price - op.commission)
                                       - op.units * book.cost
<1> DEFINE i == op.instrument
           proceeds == op.units * op.price - op.commission
           rest == IF book.units = op.units THEN NoPosition ELSE [book EXCEPT !.units = @ - op.units]
           result == IF book.cost = None THEN L.totals.realized
                     ELSE L.totals.realized + proceeds - op.units * book.cost
<1>1. /\ i \in Instruments /\ op.units \in Int /\ op.price \in Int \cup {None}
      /\ op.commission \in Int
  BY DEF TypedRow
<1>2. /\ L \in Ledgers /\ L.totals \in Totals /\ L.totals.cash \in Nat
      /\ L.totals.contributed \in Int /\ L.totals.realized \in Int
      /\ book = [units |-> book.units, cost |-> book.cost]
      /\ book.units \in Nat /\ book.cost \in Int \cup {None}
      /\ book.units = 0 => book.cost = None
      /\ ~L.incomplete /\ book.units > 0 => book.cost # None
  BY <1>1, BookOf
<1>3. ~Error(L).valid
  BY <1>2 DEF Ledgers, Error
<1>4. op.units > 0 /\ op.price \in Int /\ ~(book.units < op.units) /\ ~(proceeds < 0)
  BY <1>1, <1>3 DEF Sell
<1>5. proceeds \in Nat /\ book.units > 0
  <2>1. proceeds \in Int
    BY <1>1, <1>4
  <2> QED BY <1>1, <1>2, <1>4, <2>1
<1>6. PICK T, taken : T = L.totals /\ taken = proceeds
  OBVIOUS
<1>7. result \in Int
  BY <1>1, <1>2, <1>5
<1>8. PICK cash \in Nat, realized \in Int : cash = T.cash + taken /\ realized = result
  BY <1>2, <1>5, <1>6, <1>7
<1>9. PICK after, y : after = rest /\ y = (L.incomplete \/ book.cost = None)
  OBVIOUS
<1>10. M = [L EXCEPT !.totals.cash = @ + taken, !.totals.realized = realized,
                     !.totals.positions[i] = after, !.incomplete = @ \/ book.cost = None]
  <2>1. M = [L EXCEPT
                !.totals.cash = @ + proceeds,
                !.totals.realized =
                    IF book.cost = None THEN @ ELSE @ + proceeds - op.units * book.cost,
                !.totals.positions[i] =
                    IF book.units = op.units THEN NoPosition
                    ELSE [book EXCEPT !.units = @ - op.units],
                !.incomplete = @ \/ book.cost = None]
    BY <1>3 DEF Sell
  <2> QED BY <1>6, <1>8, <1>9, <2>1
<1>11. M.totals = [L.totals EXCEPT !.cash = @ + taken, !.realized = realized,
                                   !.positions[i] = after]
  BY <1>2, <1>10 DEF Ledgers
<1>12. M = [L EXCEPT !.totals = M.totals, !.incomplete = y] /\ y \in BOOLEAN
  BY <1>2, <1>9, <1>10 DEF Ledgers
<1>13. PICK x, U : x = i /\ U = M.totals
  OBVIOUS
<1>14. U = [T EXCEPT !.cash = cash, !.realized = realized, !.positions[x] = after] /\ T \in Totals
  BY <1>2, <1>6, <1>8, <1>11, <1>13
<1>15. /\ U.cash = cash /\ U.contributed = T.contributed /\ U.realized = realized
       /\ Changed(T, U, x, after)
  BY <1>14 DEF Totals, Changed
<1>16. /\ SoundBook(after) /\ after.units = book.units - op.units
       /\ after.units > 0 => after.cost = book.cost
  <2>1. CASE book.units = op.units
    BY <1>1, <1>2, <1>9, <2>1 DEF SoundBook, NoPosition
  <2>2. CASE book.units # op.units
    <3>1. after = [units |-> book.units - op.units, cost |-> book.cost]
      BY <1>2, <1>9, <2>2
    <3>2. book.units - op.units \in Nat \ {0}
      BY <1>1, <1>2, <1>4, <2>2
    <3> QED BY <1>2, <3>1, <3>2 DEF SoundBook
  <2> QED BY <2>1, <2>2
<1>17. /\ Changed(L.totals, U, x, after) /\ x \in Instruments /\ Becomes(L, M, U, y)
       /\ ~y => ~L.incomplete /\ (after.units > 0 => after.cost # None)
  BY <1>1, <1>2, <1>5, <1>6, <1>9, <1>12, <1>13, <1>15, <1>16 DEF Becomes
<1>18. Traded(L, M, x, after) /\ M.incomplete = y
  BY <1>16, <1>17, TradeIsSound
<1>19. Traded(L, M, op.instrument, after)
  BY <1>13, <1>18
<1>20. M.totals.cash = L.totals.cash + proceeds /\ M.totals.contributed = L.totals.contributed
  BY <1>6, <1>8, <1>13, <1>15
<1>21. ~M.incomplete => /\ ~L.incomplete /\ book.cost \in Int
                        /\ M.totals.realized = L.totals.realized + proceeds - op.units * book.cost
  BY <1>2, <1>5, <1>8, <1>9, <1>13, <1>15, <1>18
<1> QED BY <1>4, <1>16, <1>19, <1>20, <1>21

-----------------------------------------------------------------------------
(* Any event, and any rows.                                                *)

\* A row that leaves the ledger valid did what its type says.
LEMMA ApplyCases ==
    ASSUME NEW L, NEW op, TypedRow(op), NEW M, M = ApplyEvent(L, op), M.valid,
           ~Error(L).valid
    PROVE  /\ L.valid
           /\ \/ op.type \in {"DEPOSIT", "OPENING_CASH"} /\ M = External(L, op)
              \/ op.type = "WITHDRAWAL" /\ M = Withdraw(L, op)
              \/ op.type \in {"COMMISSION", "TAX", "OTHER_FEE"} /\ M = Charge(L, op)
              \/ op.type \in {"DIVIDEND", "COUPON", "AMORTIZATION"} /\ M = Income(L, op)
              \/ op.type = "OPENING_POSITION" /\ M = Open(L, op)
              \/ op.type = "BUY" /\ M = Buy(L, op)
              \/ op.type = "SELL" /\ M = Sell(L, op)
<1>1. L.valid /\ M # Error(L)
  BY DEF ApplyEvent
<1>2. M = CASE op.type \in {"DEPOSIT", "OPENING_CASH"} -> External(L, op)
            [] op.type = "WITHDRAWAL" -> Withdraw(L, op)
            [] op.type \in {"COMMISSION", "TAX", "OTHER_FEE"} -> Charge(L, op)
            [] op.type \in {"DIVIDEND", "COUPON", "AMORTIZATION"} -> Income(L, op)
            [] op.type = "OPENING_POSITION" -> Open(L, op)
            [] op.type = "BUY" -> Buy(L, op)
            [] op.type = "SELL" -> Sell(L, op)
  BY <1>1 DEF ApplyEvent
<1>3. op.type \in OperationTypes
  BY DEF TypedRow
<1>4. CASE op.type \in {"DEPOSIT", "OPENING_CASH"}
  BY <1>1, <1>2, <1>4
<1>5. CASE op.type = "WITHDRAWAL"
  BY <1>1, <1>2, <1>5
<1>6. CASE op.type \in {"COMMISSION", "TAX", "OTHER_FEE"}
  BY <1>1, <1>2, <1>6
<1>7. CASE op.type \in {"DIVIDEND", "COUPON", "AMORTIZATION"}
  BY <1>1, <1>2, <1>7
<1>8. CASE op.type = "OPENING_POSITION"
  BY <1>1, <1>2, <1>8
<1>9. CASE op.type = "BUY"
  BY <1>1, <1>2, <1>9
<1>10. CASE op.type = "SELL"
  BY <1>1, <1>2, <1>10
<1> QED BY <1>3, <1>4, <1>5, <1>6, <1>7, <1>8, <1>9, <1>10 DEF OperationTypes

\* A ledger that was sound and is still valid is still sound.
LEMMA ApplyIsSound ==
    ASSUME NEW L, L.valid => SoundLedger(L), NEW op, TypedRow(op),
           NEW M, M = ApplyEvent(L, op), M.valid
    PROVE  L.valid /\ SoundLedger(L) /\ SoundLedger(M) /\ ~Error(L).valid
<1>1. L.valid
  BY DEF ApplyEvent
<1>2. SoundLedger(L) /\ ~Error(L).valid
  BY <1>1, ErrorIsSound
<1>3. CASE M = External(L, op)
  BY <1>1, <1>2, <1>3, ExternalEvent DEF Flowed
<1>4. CASE M = Withdraw(L, op)
  BY <1>1, <1>2, <1>4, WithdrawEvent DEF Flowed
<1>5. CASE M = Charge(L, op)
  BY <1>1, <1>2, <1>5, ChargeEvent DEF Flowed
<1>6. CASE M = Income(L, op)
  BY <1>1, <1>2, <1>6, IncomeEvent DEF Flowed
<1>7. CASE op.type = "OPENING_POSITION" /\ M = Open(L, op)
  BY <1>1, <1>2, <1>7, OpenEvent DEF Traded
<1>8. CASE op.type = "BUY" /\ M = Buy(L, op)
  BY <1>1, <1>2, <1>8, BuyEvent DEF Traded
<1>9. CASE op.type = "SELL" /\ M = Sell(L, op)
  BY <1>1, <1>2, <1>9, SellEvent DEF Traded
<1> QED BY <1>1, <1>2, <1>3, <1>4, <1>5, <1>6, <1>7, <1>8, <1>9, ApplyCases

\* The empty ledger is sound.
LEMMA EmptyIsSound == SoundLedger(EmptyLedger) /\ EmptyLedger.valid /\ ~EmptyLedger.incomplete
<1>1. NoPosition \in Books /\ NoPosition.units = 0
  BY DEF NoPosition, Books
<1>2. EmptyTotals.positions = [i \in Instruments |-> NoPosition]
  BY DEF EmptyTotals
<1>3. EmptyTotals \in Totals
  BY <1>1 DEF EmptyTotals, Totals
<1>4. \A i \in Instruments : EmptyTotals.positions[i] = NoPosition
  BY <1>2
<1>5. SoundTotals(EmptyTotals) /\ Known(EmptyTotals)
  BY <1>1, <1>3, <1>4 DEF SoundTotals, SoundBook, Known
<1> HIDE DEF EmptyTotals
<1> QED BY <1>3, <1>5 DEF EmptyLedger, SoundLedger

\* Typed rows, in finite number.
TypedRows(journal, ids) == Timed(journal, ids) /\ \A id \in ids : TypedRow(journal[id])

\* Whatever the rows are: if they replay without an error, the ledger is sound.
LEMMA ReplayIsSound ==
    ASSUME NEW journal, NEW S, TypedRows(journal, S)
    PROVE  \A T \in SUBSET S : ReplayOf(journal, T).valid => SoundLedger(ReplayOf(journal, T))
<1> DEFINE C == {T \in SUBSET S :
                    ReplayOf(journal, T).valid => SoundLedger(ReplayOf(journal, T))}
<1>1. {} \in C
  BY ReplayOfNothing, EmptyIsSound
<1>2. ASSUME NEW T \in SUBSET S, T # {}, T \ {Latest(journal, T)} \in C
      PROVE  T \in C
  <2> DEFINE p == Latest(journal, T)
             L == ReplayOf(journal, T \ {p})
             M == ReplayOf(journal, T)
  <2>1. Timed(journal, T)
    BY TimedPart DEF TypedRows
  <2>2. p \in T /\ M = ApplyEvent(L, journal[p])
    BY <1>2, <2>1, LatestIsLast, ReplayStep
  <2>3. L.valid => SoundLedger(L)
    BY <1>2
  <2>4. TypedRow(journal[p])
    BY <2>2 DEF TypedRows
  <2>5. M.valid => SoundLedger(M)
    <3> HIDE DEF L, M, p
    <3> QED BY <2>2, <2>3, <2>4, ApplyIsSound
  <2> QED BY <2>5
<1>3. SUBSET S \subseteq C
  <2> HIDE DEF C
  <2> QED BY <1>1, <1>2, ReplayInduction DEF TypedRows
<1> QED BY <1>3

\* T is the beginning of S, in journal order.
Beginning(journal, S, T) ==
    T \subseteq S /\ \A a \in T, b \in S : Before(journal, b, a) => b \in T

\* If rows replay without an error, so does every beginning of them.
LEMMA BeginningIsValid ==
    ASSUME NEW journal, NEW S, Timed(journal, S), ReplayOf(journal, S).valid,
           NEW B, Beginning(journal, S, B)
    PROVE  ReplayOf(journal, B).valid
<1> DEFINE C == {T \in SUBSET S : ReplayOf(journal, T).valid =>
                    \A U \in SUBSET T : Beginning(journal, T, U) => ReplayOf(journal, U).valid}
<1>1. {} \in C
  OBVIOUS
<1>2. ASSUME NEW T \in SUBSET S, T # {}, T \ {Latest(journal, T)} \in C
      PROVE  T \in C
  <2> DEFINE p == Latest(journal, T)
  <2>1. Timed(journal, T)
    BY TimedPart
  <2>2. /\ p \in T /\ \A b \in T \ {p} : Before(journal, b, p)
        /\ ReplayOf(journal, T) = ApplyEvent(ReplayOf(journal, T \ {p}), journal[p])
    BY <1>2, <2>1, LatestIsLast, ReplayStep
  <2> SUFFICES ASSUME ReplayOf(journal, T).valid, NEW U \in SUBSET T, Beginning(journal, T, U)
               PROVE  ReplayOf(journal, U).valid
    OBVIOUS
  <2>3. CASE p \in U
    <3>1. U = T
      BY <2>2, <2>3 DEF Beginning
    <3> QED BY <3>1
  <2>4. CASE p \notin U
    <3>1. ReplayOf(journal, T \ {p}).valid
      <4> HIDE DEF p
      <4> QED BY <2>2 DEF ApplyEvent
    <3>2. U \in SUBSET (T \ {p}) /\ Beginning(journal, T \ {p}, U)
      BY <2>4 DEF Beginning
    <3> QED BY <1>2, <3>1, <3>2
  <2> QED BY <2>3, <2>4
<1>3. SUBSET S \subseteq C
  <2> HIDE DEF C
  <2> QED BY <1>1, <1>2, ReplayInduction
<1>4. S \in C /\ B \in SUBSET S
  BY <1>3 DEF Beginning
<1> QED BY <1>4

-----------------------------------------------------------------------------
(* The stored portfolio: its rows are typed, dated and shown soundly.      *)

\* The rows of a journal replay in a definite order.
LEMMA JournalIsTimed ==
    ASSUME NEW d, Sound(d), TypedJournal(d.journal)
    PROVE  \A ids \in SUBSET (DOMAIN d.journal) : TypedRows(d.journal, ids)
<1>1. d.lastId \in Nat /\ DOMAIN d.journal \subseteq 1..d.lastId
  BY BookAssumption DEF Sound
<1>2. IsFiniteSet(1..d.lastId) /\ 1..d.lastId \subseteq Int
  BY <1>1, FS_Interval
<1> SUFFICES ASSUME NEW ids \in SUBSET (DOMAIN d.journal) PROVE TypedRows(d.journal, ids)
  OBVIOUS
<1>3. ids \subseteq 1..d.lastId
  BY <1>1
<1>4. IsFiniteSet(ids)
  BY <1>2, <1>3, FS_Subset
<1>5. \A id \in ids : TypedRow(d.journal[id])
  BY DEF TypedJournal
<1> QED BY <1>2, <1>3, <1>4, <1>5 DEF TypedRows, Timed, TypedRow

\* What an active portfolio shows is sound.
LEMMA ShownIsSound ==
    ASSUME NEW d, Sound(d), TypedJournal(d.journal), d.status = "ACTIVE"
    PROVE  SoundTotals(d.totals) /\ SoundLedger(Replay(d.journal))
<1>1. Replay(d.journal).valid /\ d.totals = Replay(d.journal).totals
  BY DEF Sound, Accounts
<1>2. ActiveIds(d.journal) \in SUBSET (DOMAIN d.journal)
  BY DEF ActiveIds
<1>3. PICK journal, ids : journal = d.journal /\ ids = ActiveIds(d.journal)
  OBVIOUS
<1>4. TypedRows(journal, ids)
  BY <1>2, <1>3, JournalIsTimed
<1>5. ReplayOf(journal, ids) = Replay(d.journal)
  BY <1>3 DEF Replay
<1>6. SoundLedger(Replay(d.journal))
  BY <1>1, <1>4, <1>5, ReplayIsSound
<1> QED BY <1>1, <1>6 DEF SoundLedger

\* A row that is recorded by hand, with another one retired, leaves the journal typed and dated.
LEMMA RecordIsDated ==
    ASSUME Sound(db), TypedJournal(db.journal), Cutover(db.journal),
           NEW id, id = 0 \/ id \in ActiveIds(db.journal),
           NEW reason \in {"SUPERSEDED", "CANCELLED"},
           NEW op, TypedRow(op), op.source = "MANUAL",
           op.status = "ACTIVE" => AfterCutover(db.journal, op.occurred),
           NEW journal, journal = Put(Retire(db.journal, id, reason), db.lastId + 1, op)
    PROVE  TypedJournal(journal) /\ Cutover(journal)
<1> DEFINE last == db.lastId + 1
           old == db.journal
<1>1. /\ db.lastId \in Nat
      /\ last \notin DOMAIN old /\ 0 \notin DOMAIN old
      /\ \A j \in DOMAIN old : IsRow(old[j])
  BY BookAssumption DEF Sound
<1>2. id = 0 \/ id \in DOMAIN old
  BY DEF ActiveIds
<1>3. /\ DOMAIN Retire(old, id, reason) = DOMAIN old
      /\ \A j \in DOMAIN old :
            /\ j # id => Retire(old, id, reason)[j] = old[j]
            /\ j = id => Retire(old, id, reason)[j] = [old[j] EXCEPT !.status = reason]
  BY <1>1, <1>2, RetireKeeps
<1>4. /\ DOMAIN journal = DOMAIN old \cup {last}
      /\ journal[last] = op
      /\ \A j \in DOMAIN old : journal[j] = Retire(old, id, reason)[j]
  BY <1>1, <1>3 DEF Put
<1>5. ASSUME NEW row, IsRow(row), NEW after, after = [row EXCEPT !.status = reason]
      PROVE  /\ after.type = row.type /\ after.occurred = row.occurred
             /\ after.instrument = row.instrument /\ after.units = row.units
             /\ after.price = row.price /\ after.amount = row.amount
             /\ after.commission = row.commission /\ after.source = row.source
             /\ after.status # "ACTIVE"
  BY <1>5 DEF IsRow
<1>6. ASSUME NEW j \in DOMAIN old
      PROVE  /\ TypedRow(journal[j])
             /\ journal[j].occurred = old[j].occurred /\ journal[j].source = old[j].source
             /\ journal[j].status = "ACTIVE" => old[j].status = "ACTIVE"
  <2>1. TypedRow(old[j])
    BY DEF TypedJournal
  <2>2. CASE j # id
    BY <1>3, <1>4, <2>1, <2>2
  <2>3. CASE j = id
    <3>1. PICK row, after : row = old[j] /\ after = journal[j]
      OBVIOUS
    <3>2. IsRow(row) /\ after = [row EXCEPT !.status = reason] /\ TypedRow(row)
      BY <1>1, <1>3, <1>4, <2>1, <2>3, <3>1
    <3>3. /\ after.type = row.type /\ after.occurred = row.occurred
          /\ after.instrument = row.instrument /\ after.units = row.units
          /\ after.price = row.price /\ after.amount = row.amount
          /\ after.commission = row.commission /\ after.source = row.source
          /\ after.status # "ACTIVE"
      BY <1>5, <3>2
    <3>4. TypedRow(after)
      BY <3>2, <3>3 DEF TypedRow
    <3> QED BY <3>1, <3>3, <3>4
  <2> QED BY <2>2, <2>3
<1>7. TypedJournal(journal)
  BY <1>4, <1>6 DEF TypedJournal
<1>8. ASSUME NEW j \in DOMAIN old, old[j].source = "OPENING_SNAPSHOT", op.status = "ACTIVE"
      PROVE  old[j].occurred < op.occurred
  <2>1. PICK k \in DOMAIN old : old[k].source = "OPENING_SNAPSHOT" /\ old[k].occurred < op.occurred
    BY <1>8 DEF AfterCutover
  <2>2. old[j].occurred = old[k].occurred
    BY <1>8, <2>1 DEF Cutover
  <2> QED BY <2>1, <2>2
<1>9. Cutover(journal)
  <2> SUFFICES ASSUME NEW j \in DOMAIN journal, NEW opening \in DOMAIN journal,
                      journal[opening].source = "OPENING_SNAPSHOT"
               PROVE  /\ journal[j].source = "OPENING_SNAPSHOT" =>
                            journal[j].occurred = journal[opening].occurred
                      /\ journal[j].source = "MANUAL" /\ journal[j].status = "ACTIVE" =>
                            journal[opening].occurred < journal[j].occurred
    BY DEF Cutover
  <2>1. opening \in DOMAIN old
    BY <1>4
  <2>2. CASE j = last
    BY <1>4, <1>6, <1>8, <2>1, <2>2
  <2>3. CASE j # last
    <3>1. j \in DOMAIN old
      BY <1>4, <2>3
    <3> HIDE DEF old
    <3> QED BY <1>6, <2>1, <3>1 DEF Cutover, old
  <2> QED BY <2>2, <2>3
<1> QED BY <1>7, <1>9

\* What a request for an operation has to say before anything is recorded.
LEMMA CreateAccepts ==
    ASSUME NEW r, CreateOperation(db, r) # Refused(db)
    PROVE  /\ r.type \notin {"OPENING_CASH", "OPENING_POSITION"}
           /\ Journals(db) \/ ~HasSnapshot(db)
           /\ AfterCutover(db.journal, r.occurred)
           /\ r.type \in {"BUY", "SELL"} => r.instrument \in Tradable /\ r.units > 0
<1> DEFINE accepted == /\ r.type \notin {"OPENING_CASH", "OPENING_POSITION"}
                       /\ Journals(db) \/ ~HasSnapshot(db)
                       /\ AfterCutover(db.journal, r.occurred)
                       /\ r.type \in {"BUY", "SELL"} => r.instrument \in Tradable /\ r.units > 0
           existing == WithKey(db.journal, r.key)
           found == CHOOSE id \in existing : TRUE
<1>1. CreateOperation(db, r) =
        CASE ~accepted -> Refused(db)
          [] accepted /\ existing # {} ->
                IF Fingerprint(db.journal[found]) = Fingerprint(Operation(db, r))
                THEN Outcome(db, found) ELSE Refused(db)
          [] accepted /\ existing = {} ->
                IF Supersedable(db.journal, r.supersedes) /\ db.lastId < MaxId
                THEN Projected(db, Put(Retire(db.journal, r.supersedes, "SUPERSEDED"),
                                       db.lastId + 1, Operation(db, r)), db.lastId + 1)
                ELSE Refused(db)
  BY DEF CreateOperation
<1>2. accepted
  <2> HIDE DEF accepted, existing, found
  <2> QED BY <1>1
<1> QED BY <1>2

\* What a create request leaves is typed and dated.
LEMMA CreateIsDated ==
    ASSUME Sound(db), Dated(db), db.status \in {"DRAFT", "ACTIVE"},
           NEW r \in Requests, r.kind = "create", db' = CreateOperation(db, r).db
    PROVE  Dated(db)'
<1>1. CASE db' = db
  BY <1>1 DEF Dated, TypedJournal, Cutover
<1>2. CASE db' # db
  <2> DEFINE op == Operation(db, r)
             journal == Put(Retire(db.journal, r.supersedes, "SUPERSEDED"), db.lastId + 1, op)
  <2>1. /\ Supersedable(db.journal, r.supersedes)
        /\ db' = Projected(db, journal, db.lastId + 1).db
    BY <1>2, CreateCases DEF Refused, Outcome
  <2>2. /\ r.type \notin {"OPENING_CASH", "OPENING_POSITION"}
        /\ AfterCutover(db.journal, r.occurred)
        /\ r.type \in {"BUY", "SELL"} => r.instrument \in Tradable
    BY <1>2, CreateAccepts DEF Refused, Outcome
  <2>3. db' = [db EXCEPT !.status = "ACTIVE", !.journal = journal, !.lastId = @ + 1,
                         !.totals = Replay(journal).totals]
    BY <1>2, <2>1 DEF Projected, Refused, Outcome
  <2>4. /\ r.type \in OperationTypes /\ r.occurred \in Int /\ r.units \in Int /\ r.amount \in Int
        /\ r.price \in Int \cup {None} /\ r.commission \in Nat \cup {None}
    BY RequestAssumption
  <2>5. /\ TypedRow(op) /\ op.source = "MANUAL" /\ op.occurred = r.occurred
    <3>1. /\ op.type = r.type /\ op.occurred = r.occurred /\ op.units = r.units
          /\ op.amount = r.amount /\ op.price = r.price /\ op.instrument = r.instrument
          /\ op.source = "MANUAL"
      BY DEF Operation
    <3>2. op.commission \in Int
      BY <2>4, RequestAssumption DEF Operation
    <3>3. r.type \in {"BUY", "SELL"} => r.instrument \in Instruments
      BY <2>2, BookAssumption
    <3> HIDE DEF op
    <3> QED BY <2>2, <2>4, <3>1, <3>2, <3>3 DEF TypedRow
  <2>6. PICK row, rows, id : row = op /\ rows = journal /\ id = r.supersedes
    OBVIOUS
  <2>7. /\ TypedRow(row) /\ row.source = "MANUAL"
        /\ row.status = "ACTIVE" => AfterCutover(db.journal, row.occurred)
        /\ id = 0 \/ id \in ActiveIds(db.journal)
    BY <2>1, <2>2, <2>5, <2>6 DEF Supersedable
  <2>8. rows = Put(Retire(db.journal, id, "SUPERSEDED"), db.lastId + 1, row)
    BY <2>6
  <2> HIDE DEF journal, op
  <2>9. TypedJournal(rows) /\ Cutover(rows)
    BY <2>7, <2>8, RecordIsDated DEF Dated
  <2>10. db'.journal = rows /\ db'.status = "ACTIVE"
    BY <2>3, <2>6 DEF Sound, IsDb
  <2>11. Sound(db')
    BY CreateIsSound
  <2>12. SoundTotals(db'.totals)
    BY <2>9, <2>10, <2>11, ShownIsSound
  <2> QED BY <2>9, <2>10, <2>12 DEF Dated
<1> QED BY <1>1, <1>2

\* The marker of a cancellation is typed, and not active.
LEMMA MarkerIsTyped ==
    ASSUME NEW op, IsRow(op), TypedRow(op), NEW id, NEW key,
           NEW marker, marker = Marker(op, id, key)
    PROVE  TypedRow(marker) /\ marker.source = "MANUAL" /\ marker.status = "CANCELLED"
<1>1. marker = [type |-> op.type, occurred |-> op.occurred, instrument |-> op.instrument,
                units |-> op.units, price |-> op.price, amount |-> op.amount,
                commission |-> op.commission, status |-> "CANCELLED", source |-> "MANUAL",
                key |-> key, supersedes |-> id]
  BY DEF Marker, IsRow
<1>2. /\ marker.type = op.type /\ marker.occurred = op.occurred
      /\ marker.instrument = op.instrument /\ marker.units = op.units
      /\ marker.price = op.price /\ marker.amount = op.amount
      /\ marker.commission = op.commission
      /\ marker.source = "MANUAL" /\ marker.status = "CANCELLED"
  BY <1>1
<1> QED BY <1>2 DEF TypedRow

\* So is what a cancellation leaves.
LEMMA CancelIsDated ==
    ASSUME Sound(db), Dated(db), db.status \in {"DRAFT", "ACTIVE"},
           NEW r, db' = CancelOperation(db, r).db
    PROVE  Dated(db)'
<1>1. CASE db' = db
  BY <1>1 DEF Dated, TypedJournal, Cutover
<1>2. CASE db' # db
  <2> DEFINE marker == Marker(db.journal[r.target], r.target, r.key)
             journal == Put(Retire(db.journal, r.target, "CANCELLED"), db.lastId + 1, marker)
  <2>1. /\ r.target \in ActiveIds(db.journal)
        /\ db' = Projected(db, journal, r.target).db
    BY <1>2, CancelCases DEF Refused, Outcome
  <2>2. db' = [db EXCEPT !.status = "ACTIVE", !.journal = journal, !.lastId = @ + 1,
                         !.totals = Replay(journal).totals]
    BY <1>2, <2>1 DEF Projected, Refused, Outcome
  <2>3. PICK row, rows, id, key : row = marker /\ rows = journal /\ id = r.target /\ key = r.key
    OBVIOUS
  <2>4. IsRow(db.journal[id]) /\ TypedRow(db.journal[id]) /\ id \in ActiveIds(db.journal)
    BY <2>1, <2>3 DEF Sound, ActiveIds, Dated, TypedJournal
  <2>5. row = Marker(db.journal[id], id, key)
    BY <2>3
  <2>6. TypedRow(row) /\ row.source = "MANUAL" /\ row.status = "CANCELLED"
    BY <2>4, <2>5, MarkerIsTyped
  <2>7. rows = Put(Retire(db.journal, id, "CANCELLED"), db.lastId + 1, row)
    BY <2>3
  <2> HIDE DEF journal, marker
  <2>8. TypedJournal(rows) /\ Cutover(rows)
    BY <2>4, <2>6, <2>7, RecordIsDated DEF Dated
  <2>9. db'.journal = rows /\ db'.status = "ACTIVE"
    BY <2>2, <2>3 DEF Sound, IsDb
  <2>10. Sound(db')
    BY CancelIsSound
  <2>11. SoundTotals(db'.totals)
    BY <2>8, <2>9, <2>10, ShownIsSound
  <2> QED BY <2>8, <2>9, <2>11 DEF Dated
<1> QED BY <1>1, <1>2

\* The rows an activation starts a journal with are typed, and all of the same instant.
LEMMA OpeningRowsAreTyped ==
    ASSUME NEW totals, SoundTotals(totals), NEW now \in Times
    PROVE  \A x \in OpeningRows(totals, now) :
                TypedRow(x) /\ x.source = "OPENING_SNAPSHOT" /\ x.occurred = now
<1>1. /\ totals.cash \in Int /\ now \in Int
      /\ \A i \in Instruments : totals.positions[i].units \in Int
                                /\ totals.positions[i].cost \in Int \cup {None}
  BY RequestAssumption DEF SoundTotals, Totals, Books
<1>2. None \in Int \cup {None} /\ 0 \in Int
  OBVIOUS
<1>3. ASSUME NEW type, NEW i, NEW units, NEW price, NEW amount,
             NEW x, x = Opening(now, type, i, units, price, amount)
      PROVE  /\ x.type = type /\ x.occurred = now /\ x.instrument = i /\ x.units = units
             /\ x.price = price /\ x.amount = amount /\ x.commission = 0
             /\ x.source = "OPENING_SNAPSHOT"
  BY <1>3 DEF Opening
<1>4. SUFFICES ASSUME NEW x \in OpeningRows(totals, now)
               PROVE  TypedRow(x) /\ x.source = "OPENING_SNAPSHOT" /\ x.occurred = now
  OBVIOUS
<1>5. CASE x = Opening(now, "OPENING_CASH", None, 0, None, totals.cash)
  <2>1. /\ x.type = "OPENING_CASH" /\ x.occurred = now /\ x.units = 0 /\ x.price = None
        /\ x.amount = totals.cash /\ x.commission = 0 /\ x.source = "OPENING_SNAPSHOT"
    BY <1>3, <1>5
  <2> QED BY <1>1, <1>2, <2>1 DEF TypedRow, OperationTypes
<1>6. CASE \E i \in Instruments : x = Opening(now, "OPENING_POSITION", i, totals.positions[i].units,
                                              totals.positions[i].cost, 0)
  <2>1. PICK i \in Instruments : x = Opening(now, "OPENING_POSITION", i, totals.positions[i].units,
                                             totals.positions[i].cost, 0)
    BY <1>6
  <2>2. /\ x.type = "OPENING_POSITION" /\ x.occurred = now /\ x.instrument = i
        /\ x.units = totals.positions[i].units /\ x.price = totals.positions[i].cost
        /\ x.amount = 0 /\ x.commission = 0 /\ x.source = "OPENING_SNAPSHOT"
    BY <1>3, <2>1
  <2> QED BY <1>1, <1>2, <2>2 DEF TypedRow, OperationTypes
<1> QED BY <1>5, <1>6 DEF OpeningRows

\* What an activation leaves.
LEMMA ActivationIsDated ==
    ASSUME Sound(db), Dated(db), db.status \in {"DRAFT", "ACTIVE"},
           NEW now \in Times, NEW o \in Activations(db, now), db' = o.db
    PROVE  Dated(db)'
<1>1. CASE db.status = "ACTIVE"
  <2>1. db' = [db EXCEPT !.totals = IF DOMAIN db.journal = {} THEN @ ELSE Replay(db.journal).totals]
    BY <1>1 DEF Activations, Outcome
  <2>2. db.totals = Replay(db.journal).totals /\ IsDb(db)
    BY <1>1 DEF Sound, Accounts
  <2>3. db' = db
    BY <2>1, <2>2 DEF IsDb
  <2> QED BY <2>3 DEF Dated, TypedJournal, Cutover
<1>2. CASE db.status = "DRAFT"
  <2> DEFINE rows == OpeningRows(db.totals, now)
             active(j) == [db EXCEPT !.status = "ACTIVE", !.journal = j,
                                     !.lastId = @ + Cardinality(DOMAIN j),
                                     !.totals = Replay(j).totals]
  <2>1. Activations(db, now) =
            {Outcome(active(j), 0) :
                j \in {k \in OpeningJournals(db, now) : DOMAIN k \subseteq Ids /\ Replay(k).valid}}
    BY <1>2 DEF Activations
  <2>2. \A j : Outcome(active(j), 0).db = active(j)
    BY DEF Outcome
  <2>3. PICK journal \in OpeningJournals(db, now) : db' = active(journal)
    <3> HIDE DEF active
    <3> QED BY <2>1, <2>2
  <2>4. journal \in [db.lastId + 1..db.lastId + Cardinality(rows) -> rows]
    BY DEF OpeningJournals
  <2>5. \A x \in rows : TypedRow(x) /\ x.source = "OPENING_SNAPSHOT" /\ x.occurred = now
    <3>1. PICK totals : totals = db.totals
      OBVIOUS
    <3>2. SoundTotals(totals)
      BY <3>1 DEF Dated
    <3>3. \A x \in OpeningRows(totals, now) :
                TypedRow(x) /\ x.source = "OPENING_SNAPSHOT" /\ x.occurred = now
      BY <3>2, OpeningRowsAreTyped
    <3> QED BY <3>1, <3>3
  <2>6. \A id \in DOMAIN journal :
            /\ TypedRow(journal[id])
            /\ journal[id].source = "OPENING_SNAPSHOT" /\ journal[id].occurred = now
    <3> HIDE DEF rows
    <3> QED BY <2>4, <2>5
  <2>7. TypedJournal(journal) /\ Cutover(journal)
    BY <2>6 DEF TypedJournal, Cutover
  <2>8. db'.journal = journal /\ db'.status = "ACTIVE"
    BY <2>3 DEF Sound, IsDb
  <2>9. Sound(db')
    BY ActivationIsSound
  <2>10. SoundTotals(db'.totals)
    BY <2>7, <2>8, <2>9, ShownIsSound
  <2> QED BY <2>7, <2>8, <2>10 DEF Dated
<1> QED BY <1>1, <1>2

\* A draft that is edited shows sound totals.
LEMMA DraftIsSound ==
    ASSUME NEW totals, SoundTotals(totals), NEW r \in Requests
    PROVE  /\ r.kind = "cash" => SoundTotals([totals EXCEPT !.cash = r.cash])
           /\ r.kind = "position" =>
                SoundTotals([totals EXCEPT !.positions[r.instrument] = r.position])
           /\ SoundTotals(EmptyTotals)
<1>1. totals \in Totals /\ \A i \in Instruments : SoundBook(totals.positions[i])
  BY DEF SoundTotals
<1>2. ASSUME r.kind = "cash" PROVE SoundTotals([totals EXCEPT !.cash = r.cash])
  <2>1. PICK cash \in Nat : cash = r.cash
    BY <1>2, RequestAssumption
  <2>2. PICK after : after = [totals EXCEPT !.cash = cash]
    OBVIOUS
  <2>3. after \in Totals /\ after.positions = totals.positions
    BY <1>1, <2>2 DEF Totals
  <2> QED BY <1>1, <2>1, <2>2, <2>3 DEF SoundTotals
<1>3. ASSUME r.kind = "position"
      PROVE  SoundTotals([totals EXCEPT !.positions[r.instrument] = r.position])
  <2>1. PICK i \in Instruments, book \in {NoPosition} \cup [units: Nat \ {0}, cost: Int \cup {None}] :
            i = r.instrument /\ book = r.position
    BY <1>3, RequestAssumption
  <2>2. PICK after : after = [totals EXCEPT !.positions[i] = book]
    OBVIOUS
  <2>3. SoundBook(book) /\ book \in Books
    BY <2>1 DEF SoundBook, NoPosition, Books
  <2>4. after \in Totals /\ after.positions = [totals.positions EXCEPT ![i] = book]
    BY <1>1, <2>2, <2>3 DEF Totals
  <2>5. totals.positions \in [Instruments -> Books]
    BY <1>1 DEF Totals
  <2>6. \A j \in Instruments : SoundBook(after.positions[j])
    BY <1>1, <2>3, <2>4, <2>5
  <2> QED BY <2>1, <2>2, <2>4, <2>6 DEF SoundTotals
<1> QED BY <1>2, <1>3, EmptyIsSound DEF SoundLedger, EmptyLedger

\* Whatever a request makes of the portfolio, the journal stays typed and dated.
LEMMA OutcomeIsDated ==
    ASSUME Sound(db), Dated(db), NEW r \in Requests, NEW now \in Times,
           NEW o \in Outcomes(db, r, now), db' = o.db
    PROVE  Dated(db)'
<1>0. r.kind \in Kinds
  BY HandlerAssumption
<1>1. CASE db' = db
  BY <1>1 DEF Dated, TypedJournal, Cutover
<1>2. CASE db.status = "ABSENT"
  <2>1. Outcomes(db, r, now) = {Refused(db)}
    BY <1>2 DEF Outcomes
  <2> QED BY <1>1, <2>1 DEF Refused, Outcome
<1>3. CASE db.status # "ABSENT" /\ r.kind = "create"
  <2>1. db.status \in {"DRAFT", "ACTIVE"} /\ db' = CreateOperation(db, r).db
    BY <1>3 DEF Outcomes, Sound
  <2> QED BY <1>3, <2>1, CreateIsDated
<1>4. CASE db.status # "ABSENT" /\ r.kind = "cancel"
  <2>1. db.status \in {"DRAFT", "ACTIVE"} /\ db' = CancelOperation(db, r).db
    BY <1>4 DEF Outcomes, Sound
  <2> QED BY <2>1, CancelIsDated
<1>5. CASE db.status # "ABSENT" /\ r.kind = "activate"
  <2>1. db.status \in {"DRAFT", "ACTIVE"} /\ o \in Activations(db, now)
    BY <1>5 DEF Outcomes, Sound
  <2> QED BY <2>1, ActivationIsDated
<1>6. CASE db.status # "ABSENT" /\ r.kind \in {"cash", "position", "clear"}
  <2>1. PICK totals : db' = EditDraft(db, totals).db /\ SoundTotals(totals)
    <3>1. SoundTotals(db.totals)
      BY DEF Dated
    <3>2. PICK shown : shown = db.totals
      OBVIOUS
    <3>3. /\ r.kind = "cash" => SoundTotals([shown EXCEPT !.cash = r.cash])
          /\ r.kind = "position" =>
                SoundTotals([shown EXCEPT !.positions[r.instrument] = r.position])
          /\ SoundTotals(EmptyTotals)
      BY <3>1, <3>2, DraftIsSound
    <3>4. CASE r.kind = "cash"
      BY <1>6, <3>2, <3>3, <3>4 DEF Outcomes
    <3>5. CASE r.kind = "position"
      BY <1>6, <3>2, <3>3, <3>5 DEF Outcomes
    <3>6. CASE r.kind = "clear"
      BY <1>6, <3>3, <3>6 DEF Outcomes
    <3> QED BY <1>6, <3>4, <3>5, <3>6
  <2>2. CASE db.status = "DRAFT"
    <3>1. db' = [db EXCEPT !.totals = totals]
      BY <2>1, <2>2 DEF EditDraft, Outcome
    <3>2. db'.journal = db.journal /\ db'.totals = totals
      BY <3>1 DEF Sound, IsDb
    <3> QED BY <2>1, <3>2 DEF Dated
  <2>3. CASE db.status # "DRAFT"
    BY <1>1, <2>1, <2>3 DEF EditDraft, Refused, Outcome
  <2> QED BY <2>2, <2>3
<1>7. CASE db.status # "ABSENT" /\ r.kind = "broker"
  <2>1. db' = [db EXCEPT !.broker = r.broker]
    BY <1>7 DEF Outcomes, Outcome
  <2>2. db'.journal = db.journal /\ db'.totals = db.totals
    BY <2>1 DEF Sound, IsDb
  <2> QED BY <2>2 DEF Dated
<1>8. CASE db.status # "ABSENT" /\ r.kind \in {"reset", "delete"}
  <2>1. PICK status \in {"DRAFT", "ABSENT"} :
            db' = [db EXCEPT !.status = status, !.totals = EmptyTotals, !.journal = <<>>]
    BY <1>8 DEF Outcomes, Outcome, Wiped
  <2>2. db'.journal = <<>> /\ db'.totals = EmptyTotals
    BY <2>1 DEF Sound, IsDb
  <2>3. DOMAIN db'.journal = {}
    BY <2>2
  <2>4. SoundTotals(db'.totals)
    BY <2>2, EmptyIsSound DEF SoundLedger, EmptyLedger
  <2> QED BY <2>3, <2>4 DEF Dated, TypedJournal, Cutover
<1> QED BY <1>0, <1>2, <1>3, <1>4, <1>5, <1>6, <1>7, <1>8 DEF Kinds

\* What is committed in a step is what some request makes of what was committed before it.
LEMMA CommittedStep ==
    ASSUME Inv, [Next]_vars
    PROVE  db' = db \/ \E r \in Requests, now \in Times :
                            \E o \in Outcomes(db, r, now) : db' = o.db
<1>1. ASSUME NEW h \in Handlers, NEW r \in Requests, Serve(h, r) PROVE db' = db
  BY <1>1 DEF Serve
<1>2. ASSUME NEW h \in Handlers, Crash(h) PROVE db' = db
  BY <1>2 DEF Crash
<1>3. ASSUME NEW h \in Handlers, Commit(h)
      PROVE  \E r \in Requests, now \in Times : \E o \in Outcomes(db, r, now) : db' = o.db
  <2>1. task[h] # Idle
    BY <1>3 DEF Commit, Idle
  <2>2. PICK r \in Requests, now \in Times : \E o \in Outcomes(db, r, now) : task[h] = Ready(r, o)
    BY <2>1 DEF Inv, Pending
  <2>3. PICK o \in Outcomes(db, r, now) : task[h] = Ready(r, o)
    BY <2>2
  <2>4. db' = o.db
    BY <1>3, <2>3 DEF Commit, Ready
  <2> QED BY <2>4
<1> QED BY <1>1, <1>2, <1>3 DEF Next, vars

LEMMA DatedHolds == Spec => [](Inv /\ Dated(db))
<1>1. Init => Inv /\ Dated(db)
  <2> SUFFICES ASSUME Init PROVE Dated(db)
    BY InitIsSound
  <2>1. db.journal = <<>> /\ db.totals = EmptyTotals
    BY DEF Init, EmptyDb
  <2>2. DOMAIN db.journal = {}
    BY <2>1
  <2>3. SoundTotals(db.totals)
    BY <2>1, EmptyIsSound DEF SoundLedger, EmptyLedger
  <2> QED BY <2>2, <2>3 DEF Dated, TypedJournal, Cutover
<1>2. Inv /\ Dated(db) /\ [Next]_vars => (Inv /\ Dated(db))'
  <2> SUFFICES ASSUME Inv, Dated(db), [Next]_vars PROVE Dated(db)'
    BY StepKeeps
  <2>1. CASE db' = db
    BY <2>1 DEF Dated, TypedJournal, Cutover
  <2>2. CASE db' # db
    <3>1. PICK r \in Requests, now \in Times : \E o \in Outcomes(db, r, now) : db' = o.db
      BY <2>2, CommittedStep
    <3>2. PICK o \in Outcomes(db, r, now) : db' = o.db
      BY <3>1
    <3> QED BY <3>2, OutcomeIsDated DEF Inv
  <2> QED BY <2>1, <2>2
<1> QED BY <1>1, <1>2, PTL DEF Spec

\* Whatever is entered by hand and not cancelled or superseded is later than the opening snapshot.
THEOREM OpeningComesFirstHolds == Spec => []OpeningComesFirst
<1>1. Dated(db) => OpeningComesFirst
  BY DEF Dated, Cutover, OpeningComesFirst, ActiveIds
<1> QED BY DatedHolds, <1>1, PTL

\* No operation and no cancellation, wherever in the past it lands, leaves a moment of the history
\* at which the replay is in error or cash or a position is negative.
THEOREM NeverOverdrawnHolds == Spec => []NeverOverdrawn
<1>1. Inv /\ Dated(db) => NeverOverdrawn
  <2> SUFFICES ASSUME Inv, Dated(db), NEW id \in ActiveIds(db.journal)
               PROVE  LET moment == ReplayOf(db.journal,
                                        {j \in ActiveIds(db.journal) :
                                            j = id \/ Before(db.journal, j, id)})
                      IN  /\ moment.valid
                          /\ moment.totals.cash >= 0
                          /\ \A i \in Instruments : moment.totals.positions[i].units >= 0
    BY DEF NeverOverdrawn
  <2>1. PICK journal, ids, part :
            /\ journal = db.journal /\ ids = ActiveIds(db.journal)
            /\ part = {j \in ids : j = id \/ Before(journal, j, id)}
    OBVIOUS
  <2>2. TypedRows(journal, ids) /\ id \in ids
    BY <2>1, JournalIsTimed DEF Inv, Dated, ActiveIds
  <2>3. db.status = "ACTIVE"
    BY DEF Inv, Sound, ActiveIds
  <2>4. ReplayOf(journal, ids).valid
    BY <2>1, <2>3 DEF Inv, Sound, Accounts, Replay
  <2>5. Beginning(journal, ids, part)
    <3>1. ASSUME NEW a \in part, NEW b \in ids, Before(journal, b, a)
          PROVE  b \in part
      <4>1. a \in ids /\ (a = id \/ Before(journal, a, id))
        BY <2>1
      <4>2. CASE a = id
        BY <2>1, <3>1, <4>2
      <4>3. CASE Before(journal, a, id)
        <5>1. Before(journal, b, id)
          BY <2>2, <3>1, <4>1, <4>3, BeforeIsTransitive DEF TypedRows
        <5> QED BY <2>1, <5>1
      <4> QED BY <4>1, <4>2, <4>3
    <3> QED BY <2>1, <3>1 DEF Beginning
  <2>6. PICK moment : moment = ReplayOf(journal, part)
    OBVIOUS
  <2>7. moment.valid
    BY <2>2, <2>4, <2>5, <2>6, BeginningIsValid DEF TypedRows
  <2>8. SoundLedger(moment)
    <3>1. part \in SUBSET ids
      BY <2>1
    <3> QED BY <2>2, <2>6, <2>7, <3>1, ReplayIsSound
  <2>9. /\ moment.totals.cash \in Nat
        /\ \A i \in Instruments : moment.totals.positions[i].units \in Nat
    BY <2>8 DEF SoundLedger, SoundTotals, Totals, Books
  <2>10. moment.valid /\ moment.totals.cash >= 0
         /\ \A i \in Instruments : moment.totals.positions[i].units >= 0
    BY <2>7, <2>9
  <2> QED BY <2>1, <2>6, <2>10
<1> QED BY DatedHolds, <1>1, PTL

-----------------------------------------------------------------------------
(* Accounts: what cash and cost basis come to.                             *)

Worth(book) == IF book.units > 0 THEN book.units * book.cost ELSE 0

\* What is left when contributions and result are taken from cash and cost basis.
Balance(totals) ==
    totals.cash + Basis(totals) - totals.contributed + totals.withdrawn - totals.realized

\* The cost basis is a sum over positions.
LEMMA BasisIsSum ==
    ASSUME NEW T, SoundTotals(T), Known(T)
    PROVE  /\ Basis(T) = SumFunctionOnSet([i \in Instruments |-> Worth(T.positions[i])], Instruments)
           /\ Basis(T) \in Int
           /\ \A i \in Instruments : Worth(T.positions[i]) \in Int
<1> DEFINE f == [i \in Instruments |-> Worth(T.positions[i])]
<1>1. Basis(T) = SumFunctionOnSet(f, Instruments)
  <2>1. Basis(T) = SumFunction(f)
    BY DEF Basis, Worth
  <2>2. DOMAIN f = Instruments
    OBVIOUS
  <2> HIDE DEF f
  <2> QED BY <2>1, <2>2 DEF SumFunction
<1>2. ASSUME NEW i \in Instruments PROVE Worth(T.positions[i]) \in Int
  <2>1. /\ T.positions[i].units \in Nat
        /\ T.positions[i].units > 0 => T.positions[i].cost \in Int
    BY DEF SoundTotals, Totals, Books, Known
  <2> QED BY <2>1 DEF Worth
<1>3. \A i \in Instruments : f[i] \in Int
  BY <1>2
<1> HIDE DEF f
<1>4. SumFunctionOnSet(f, Instruments) \in Int
  BY <1>3, BookAssumption, SumIsInt
<1> QED BY <1>1, <1>2, <1>4 DEF f

\* With one other position the basis is other by that position's worth.
LEMMA BasisChange ==
    ASSUME NEW T, SoundTotals(T), Known(T), NEW U, SoundTotals(U), Known(U),
           NEW i \in Instruments,
           \A j \in Instruments \ {i} : U.positions[j] = T.positions[j]
    PROVE  Basis(U) = Basis(T) - Worth(T.positions[i]) + Worth(U.positions[i])
<1> DEFINE f == [j \in Instruments |-> Worth(T.positions[j])]
           g == [j \in Instruments |-> Worth(U.positions[j])]
           R == Instruments \ {i}
<1>1. /\ Basis(T) = SumFunctionOnSet(f, Instruments) /\ Basis(U) = SumFunctionOnSet(g, Instruments)
      /\ \A j \in Instruments : f[j] \in Int /\ g[j] \in Int
  BY BasisIsSum
<1>2. \A j \in R : f[j] = g[j]
  OBVIOUS
<1>3. f[i] = Worth(T.positions[i]) /\ g[i] = Worth(U.positions[i])
  OBVIOUS
<1>4. IsFiniteSet(Instruments) /\ IsFiniteSet(R)
  BY BookAssumption, FS_RemoveElement
<1> HIDE DEF f, g
<1>5. /\ SumFunctionOnSet(f, Instruments) = f[i] + SumFunctionOnSet(f, R)
      /\ SumFunctionOnSet(g, Instruments) = g[i] + SumFunctionOnSet(g, R)
  BY <1>1, <1>4, SumRemove
<1>6. SumFunctionOnSet(f, R) = SumFunctionOnSet(g, R) /\ SumFunctionOnSet(f, R) \in Int
  <2>1. \A j \in R : f[j] \in Int
    BY <1>1
  <2> HIDE DEF R
  <2> QED BY <1>2, <1>4, <2>1, SumAgree, SumIsInt
<1>7. f[i] \in Int /\ g[i] \in Int
  BY <1>1
<1> HIDE DEF R
<1> QED BY <1>1, <1>3, <1>5, <1>6, <1>7

\* Numbers of sound totals.
LEMMA SoundNumbers ==
    ASSUME NEW T, SoundTotals(T)
    PROVE  /\ T.cash \in Int /\ T.contributed \in Int /\ T.withdrawn \in Int /\ T.realized \in Int
           /\ \A i \in Instruments : T.positions[i].units \in Nat
BY DEF SoundTotals, Totals, Books

\* Bought or opened: the rows whose averaging rounds.
Buys(op) == op.type \in {"BUY", "OPENING_POSITION"}

\* What a row may take from the balance, or add to it, besides its outlay.
Drift(L, op) == IF Buys(op) THEN L.totals.positions[op.instrument].units + op.units ELSE 0

\* Rows that only move cash leave the balance, but for their outlay.
LEMMA FlowBalance ==
    ASSUME NEW L, SoundLedger(L), NEW M, Flowed(L, M), ~M.incomplete, NEW outlay \in Int,
           M.totals.cash - M.totals.contributed + M.totals.withdrawn
                = L.totals.cash - L.totals.contributed + L.totals.withdrawn - outlay
    PROVE  /\ ~L.incomplete
           /\ Balance(M.totals) + outlay = Balance(L.totals)
           /\ Balance(L.totals) \in Int
<1>1. /\ SoundTotals(L.totals) /\ Known(L.totals) /\ SoundTotals(M.totals) /\ ~L.incomplete
  BY DEF SoundLedger, Flowed
<1>2. PICK T, U : T = L.totals /\ U = M.totals
  OBVIOUS
<1>3. /\ T.cash \in Int /\ T.contributed \in Int /\ T.withdrawn \in Int /\ T.realized \in Int
      /\ U.cash \in Int /\ U.contributed \in Int /\ U.withdrawn \in Int /\ U.realized \in Int
      /\ Basis(T) \in Int
  BY <1>1, <1>2, SoundNumbers, BasisIsSum
<1>4. U.positions = T.positions /\ U.realized = T.realized
  BY <1>2 DEF Flowed
<1>5. Basis(U) = Basis(T)
  BY <1>4 DEF Basis
<1>6. U.cash - U.contributed + U.withdrawn = T.cash - T.contributed + T.withdrawn - outlay
  BY <1>2
<1>7. Balance(U) + outlay = Balance(T) /\ Balance(T) \in Int
  BY <1>3, <1>4, <1>5, <1>6 DEF Balance
<1> QED BY <1>1, <1>2, <1>7

\* A trade changes the balance by what it does to the cash and to the position's worth.
LEMMA TradeBalance ==
    ASSUME NEW L, SoundLedger(L), NEW M, NEW i \in Instruments, NEW after, Traded(L, M, i, after),
           ~L.incomplete, ~M.incomplete, NEW d \in Int,
           M.totals.cash - M.totals.contributed - M.totals.realized
                = L.totals.cash - L.totals.contributed - L.totals.realized + d
    PROVE  /\ Balance(M.totals) = Balance(L.totals) + d + Worth(after)
                                  - Worth(L.totals.positions[i])
           /\ Balance(L.totals) \in Int
           /\ Worth(after) \in Int /\ Worth(L.totals.positions[i]) \in Int
<1>1. PICK T, U : T = L.totals /\ U = M.totals
  OBVIOUS
<1>2. SoundTotals(T) /\ Known(T) /\ SoundTotals(U) /\ Known(U)
  BY <1>1 DEF SoundLedger, Traded
<1>3. /\ U.positions[i] = after /\ U.withdrawn = T.withdrawn
      /\ \A j \in Instruments \ {i} : U.positions[j] = T.positions[j]
  BY <1>1 DEF Traded
<1>4. Basis(U) = Basis(T) - Worth(T.positions[i]) + Worth(U.positions[i])
  BY <1>2, <1>3, BasisChange
<1>5. /\ T.cash \in Int /\ T.contributed \in Int /\ T.withdrawn \in Int /\ T.realized \in Int
      /\ U.cash \in Int /\ U.contributed \in Int /\ U.realized \in Int
      /\ Basis(T) \in Int /\ Worth(T.positions[i]) \in Int /\ Worth(U.positions[i]) \in Int
  BY <1>2, SoundNumbers, BasisIsSum
<1>6. U.cash - U.contributed - U.realized = T.cash - T.contributed - T.realized + d
  BY <1>1
<1>7. /\ Balance(U) = Balance(T) + d + Worth(U.positions[i]) - Worth(T.positions[i])
      /\ Balance(T) \in Int
  BY <1>3, <1>4, <1>5, <1>6 DEF Balance
<1> QED BY <1>1, <1>3, <1>5, <1>7

\* A position at its rounded average is worth what it has cost, up to half a quantum a unit.
LEMMA AverageRounds ==
    ASSUME NEW total \in Int, NEW units \in Nat \ {0}, NEW after, after.units = units,
           after.cost = Money(total, units)
    PROVE  /\ Worth(after) \in Int
           /\ -units <= 2 * (Worth(after) - total) /\ 2 * (Worth(after) - total) <= units
<1>1. Worth(after) = units * Money(total, units)
  BY DEF Worth
<1>2. PICK price \in Int : price = Money(total, units)
  BY MoneyRounds
<1>3. /\ 2 * (units * price - total) <= units
      /\ -units <= 2 * (units * price - total)
  BY <1>2, MoneyRounds
<1>4. PICK w \in Int : w = units * price
  OBVIOUS
<1> QED BY <1>1, <1>2, <1>3, <1>4

\* d is at most half of r, either way.
Within(d, r) == d \in Int /\ r \in Nat /\ -r <= 2 * d /\ 2 * d <= r

\* Opening a position.
LEMMA OpenBalance ==
    ASSUME NEW L, SoundLedger(L), NEW op, TypedRow(op), op.type = "OPENING_POSITION",
           NEW M, M = Open(L, op), M.valid, ~M.incomplete
    PROVE  /\ ~L.incomplete /\ Balance(L.totals) \in Int /\ Balance(M.totals) \in Int
           /\ Within(Balance(M.totals) - Balance(L.totals),
                     L.totals.positions[op.instrument].units + op.units)
<1>1. PICK book, i : book = L.totals.positions[op.instrument] /\ i = op.instrument
  OBVIOUS
<1>2. PICK after :
        /\ Traded(L, M, i, after)
        /\ after.units = book.units + op.units
        /\ book.units = 0 => after = [units |-> op.units, cost |-> op.price]
        /\ after.cost = IF book.units = 0 THEN op.price
                        ELSE Money(book.units * book.cost + op.units * op.price,
                                   book.units + op.units)
  BY <1>1, OpenEvent
<1>3. /\ op.units > 0 /\ M.totals.cash = L.totals.cash /\ M.totals.realized = L.totals.realized
      /\ ~L.incomplete /\ op.price \in Int
      /\ M.totals.contributed = L.totals.contributed + op.units * op.price
  BY <1>1, OpenEvent
<1>4. i \in Instruments /\ op.units \in Nat \ {0}
  BY <1>1, <1>3 DEF TypedRow
<1>5. /\ book.units \in Nat /\ (book.units > 0 => book.cost \in Int)
      /\ L.totals.cash \in Int /\ L.totals.contributed \in Int /\ L.totals.realized \in Int
  <2>1. ~L.incomplete /\ book = L.totals.positions[i]
    BY <1>1, <1>3
  <2>2. /\ L.totals.cash \in Nat /\ L.totals.contributed \in Int /\ L.totals.realized \in Int
        /\ L.totals.positions[i].units \in Nat
        /\ L.totals.positions[i].cost \in Int \cup {None}
        /\ ~L.incomplete /\ L.totals.positions[i].units > 0 =>
                L.totals.positions[i].cost # None
    BY <1>4, BookOf
  <2> QED BY <2>1, <2>2
<1>6. PICK value \in Int, d \in Int : value = op.units * op.price /\ d = -value
  BY <1>3, <1>4
<1>7. M.totals.cash - M.totals.contributed - M.totals.realized
        = L.totals.cash - L.totals.contributed - L.totals.realized + d
  BY <1>3, <1>5, <1>6
<1>8. /\ Balance(M.totals) = Balance(L.totals) + d + Worth(after) - Worth(book)
      /\ Balance(L.totals) \in Int /\ Worth(after) \in Int /\ Worth(book) \in Int
  <2>1. ~L.incomplete /\ book = L.totals.positions[i]
    BY <1>1, <1>3
  <2>2. Traded(L, M, i, after) /\ i \in Instruments /\ d \in Int
    BY <1>2, <1>4, <1>6
  <2> QED BY <1>7, <2>1, <2>2, TradeBalance
<1>9. Within(Worth(after) - Worth(book) - value, book.units + op.units)
  <2>1. CASE book.units = 0
    <3>1. Worth(book) = 0 /\ after.units = op.units /\ after.cost = op.price
      BY <1>2, <1>4, <2>1 DEF Worth
    <3>2. Worth(after) = value
      BY <1>4, <1>6, <3>1 DEF Worth
    <3> QED BY <1>4, <1>6, <2>1, <3>1, <3>2 DEF Within
  <2>2. CASE book.units # 0
    <3>1. Worth(book) = book.units * book.cost
      BY <1>5, <2>2 DEF Worth
    <3>2. PICK total \in Int, units \in Nat \ {0} :
                total = Worth(book) + value /\ units = book.units + op.units
      <4>1. book.units + op.units \in Nat \ {0}
        BY <1>4, <1>5, <1>6
      <4>2. Worth(book) + value \in Int
        BY <1>6, <1>8
      <4> QED BY <4>1, <4>2
    <3>3. after.units = units /\ after.cost = Money(total, units)
      BY <1>2, <1>6, <2>2, <3>1, <3>2
    <3>4. -units <= 2 * (Worth(after) - total) /\ 2 * (Worth(after) - total) <= units
      BY <3>3, AverageRounds
    <3> QED BY <1>6, <1>8, <3>2, <3>4 DEF Within
  <2> QED BY <2>1, <2>2
<1>10. Balance(M.totals) - Balance(L.totals) = Worth(after) - Worth(book) - value
       /\ Balance(M.totals) \in Int
  BY <1>6, <1>8
<1> QED BY <1>1, <1>3, <1>8, <1>9, <1>10

\* A purchase.
LEMMA BuyBalance ==
    ASSUME NEW L, SoundLedger(L), NEW op, TypedRow(op), op.type = "BUY",
           NEW M, M = Buy(L, op), M.valid, ~M.incomplete
    PROVE  /\ ~L.incomplete /\ Balance(L.totals) \in Int /\ Balance(M.totals) \in Int
           /\ Within(Balance(M.totals) - Balance(L.totals),
                     L.totals.positions[op.instrument].units + op.units)
<1>1. PICK book, i : book = L.totals.positions[op.instrument] /\ i = op.instrument
  OBVIOUS
<1>2. PICK after :
        /\ Traded(L, M, i, after)
        /\ after.units = book.units + op.units
        /\ after.cost = Money((IF book.units = 0 THEN 0 ELSE book.units * book.cost)
                              + (op.units * op.price + op.commission), book.units + op.units)
  BY <1>1, BuyEvent
<1>3. /\ op.units > 0 /\ op.price \in Int
      /\ M.totals.cash = L.totals.cash - (op.units * op.price + op.commission)
      /\ M.totals.contributed = L.totals.contributed /\ M.totals.realized = L.totals.realized
      /\ ~L.incomplete
  BY <1>1, BuyEvent
<1>4. i \in Instruments /\ op.units \in Nat \ {0} /\ op.commission \in Int
  BY <1>1, <1>3 DEF TypedRow
<1>5. /\ book.units \in Nat /\ (book.units > 0 => book.cost \in Int)
      /\ L.totals.cash \in Int /\ L.totals.contributed \in Int /\ L.totals.realized \in Int
  <2>1. ~L.incomplete /\ book = L.totals.positions[i]
    BY <1>1, <1>3
  <2>2. /\ L.totals.cash \in Nat /\ L.totals.contributed \in Int /\ L.totals.realized \in Int
        /\ L.totals.positions[i].units \in Nat
        /\ L.totals.positions[i].cost \in Int \cup {None}
        /\ ~L.incomplete /\ L.totals.positions[i].units > 0 =>
                L.totals.positions[i].cost # None
    BY <1>4, BookOf
  <2> QED BY <2>1, <2>2
<1>6. PICK paid \in Int, d \in Int : paid = op.units * op.price + op.commission /\ d = -paid
  BY <1>3, <1>4
<1>7. M.totals.cash - M.totals.contributed - M.totals.realized
        = L.totals.cash - L.totals.contributed - L.totals.realized + d
  BY <1>3, <1>5, <1>6
<1>8. /\ Balance(M.totals) = Balance(L.totals) + d + Worth(after) - Worth(book)
      /\ Balance(L.totals) \in Int /\ Worth(after) \in Int /\ Worth(book) \in Int
  <2>1. ~L.incomplete /\ book = L.totals.positions[i]
    BY <1>1, <1>3
  <2>2. Traded(L, M, i, after) /\ i \in Instruments /\ d \in Int
    BY <1>2, <1>4, <1>6
  <2> QED BY <1>7, <2>1, <2>2, TradeBalance
<1>9. Worth(book) = IF book.units = 0 THEN 0 ELSE book.units * book.cost
  BY <1>5 DEF Worth
<1>10. PICK total \in Int, units \in Nat \ {0} :
            total = Worth(book) + paid /\ units = book.units + op.units
  <2>1. book.units + op.units \in Nat \ {0}
    BY <1>4, <1>5, <1>6
  <2>2. Worth(book) + paid \in Int
    BY <1>6, <1>8
  <2> QED BY <2>1, <2>2
<1>11. after.units = units /\ after.cost = Money(total, units)
  BY <1>2, <1>6, <1>9, <1>10
<1>12. -units <= 2 * (Worth(after) - total) /\ 2 * (Worth(after) - total) <= units
  BY <1>11, AverageRounds
<1>13. Within(Worth(after) - Worth(book) - paid, book.units + op.units)
  BY <1>6, <1>8, <1>10, <1>12 DEF Within
<1>14. Balance(M.totals) - Balance(L.totals) = Worth(after) - Worth(book) - paid
       /\ Balance(M.totals) \in Int
  BY <1>6, <1>8
<1> QED BY <1>1, <1>3, <1>8, <1>13, <1>14

\* A sale.
LEMMA SellBalance ==
    ASSUME NEW L, SoundLedger(L), NEW op, TypedRow(op), op.type = "SELL",
           NEW M, M = Sell(L, op), M.valid, ~M.incomplete
    PROVE  /\ ~L.incomplete /\ Balance(L.totals) \in Int
           /\ Balance(M.totals) = Balance(L.totals)
<1>1. PICK book, i : book = L.totals.positions[op.instrument] /\ i = op.instrument
  OBVIOUS
<1>2. PICK after :
        /\ Traded(L, M, i, after)
        /\ after.units = book.units - op.units
        /\ after.units > 0 => after.cost = book.cost
  BY <1>1, SellEvent
<1>3. /\ op.units > 0 /\ op.price \in Int
      /\ M.totals.cash = L.totals.cash + (op.units * op.price - op.commission)
      /\ M.totals.contributed = L.totals.contributed
      /\ ~L.incomplete /\ book.cost \in Int
      /\ M.totals.realized = L.totals.realized + (op.units * op.price - op.commission)
                             - op.units * book.cost
  BY <1>1, SellEvent
<1>4. i \in Instruments /\ op.units \in Nat \ {0} /\ op.commission \in Int
  BY <1>1, <1>3 DEF TypedRow
<1>5. /\ book.units \in Nat
      /\ L.totals.cash \in Int /\ L.totals.contributed \in Int /\ L.totals.realized \in Int
  <2>1. ~L.incomplete /\ book = L.totals.positions[i]
    BY <1>1, <1>3
  <2>2. /\ L.totals.cash \in Nat /\ L.totals.contributed \in Int /\ L.totals.realized \in Int
        /\ L.totals.positions[i].units \in Nat
        /\ L.totals.positions[i].cost \in Int \cup {None}
        /\ ~L.incomplete /\ L.totals.positions[i].units > 0 =>
                L.totals.positions[i].cost # None
    BY <1>4, BookOf
  <2> QED BY <2>1, <2>2
<1>6. PICK proceeds \in Int, d \in Int :
            proceeds = op.units * op.price - op.commission /\ d = op.units * book.cost
  BY <1>3, <1>4
<1>7. M.totals.cash - M.totals.contributed - M.totals.realized
        = L.totals.cash - L.totals.contributed - L.totals.realized + d
  BY <1>3, <1>5, <1>6
<1>8. /\ Balance(M.totals) = Balance(L.totals) + d + Worth(after) - Worth(book)
      /\ Balance(L.totals) \in Int /\ Worth(after) \in Int /\ Worth(book) \in Int
  <2>1. ~L.incomplete /\ book = L.totals.positions[i]
    BY <1>1, <1>3
  <2>2. Traded(L, M, i, after) /\ i \in Instruments /\ d \in Int
    BY <1>2, <1>4, <1>6
  <2> QED BY <1>7, <2>1, <2>2, TradeBalance
<1>9. after.units \in Nat
  <2>1. PICK U : U = M.totals
    OBVIOUS
  <2>2. SoundTotals(U) /\ U.positions[i] = after
    BY <1>2, <2>1 DEF Traded, SoundLedger
  <2> QED BY <1>4, <2>2, SoundNumbers
<1>10. Worth(after) = after.units * book.cost /\ Worth(book) = book.units * book.cost
  BY <1>2, <1>3, <1>5, <1>9 DEF Worth
<1>11. book.units * book.cost = op.units * book.cost + after.units * book.cost
  <2>1. \A a \in Int, b \in Int, c \in Int : (a + b) * c = a * c + b * c
    OBVIOUS
  <2>2. book.units = op.units + after.units
    BY <1>2, <1>4, <1>5
  <2> QED BY <1>3, <1>4, <1>9, <2>1, <2>2
<1>12. Balance(M.totals) = Balance(L.totals)
  BY <1>6, <1>8, <1>10, <1>11
<1> QED BY <1>3, <1>8, <1>12

\* A row's outlay is a number.
LEMMA OutlayIsInt == ASSUME NEW op, TypedRow(op) PROVE Outlay(op) \in Int
<1>1. op.amount \in Int /\ op.commission \in Int /\ Fee(op) \in Int
  BY DEF TypedRow, Fee
<1>2. CASE op.type \in {"COMMISSION", "TAX", "OTHER_FEE"}
  BY <1>1, <1>2 DEF Outlay
<1>3. CASE op.type \in {"DIVIDEND", "COUPON", "AMORTIZATION"}
  BY <1>1, <1>3 DEF Outlay
<1>4. CASE op.type \notin {"COMMISSION", "TAX", "OTHER_FEE", "DIVIDEND", "COUPON", "AMORTIZATION"}
  BY <1>4 DEF Outlay
<1> QED BY <1>2, <1>3, <1>4

\* What a row does to the balance of a ledger that stays complete.
LEMMA ApplyBalance ==
    ASSUME NEW L, SoundLedger(L), NEW op, TypedRow(op),
           NEW M, M = ApplyEvent(L, op), M.valid, ~M.incomplete, ~Error(L).valid
    PROVE  /\ ~L.incomplete
           /\ Balance(L.totals) \in Int /\ Balance(M.totals) \in Int
           /\ Within(Balance(M.totals) + Outlay(op) - Balance(L.totals), Drift(L, op))
<1>1. PICK outlay \in Int : outlay = Outlay(op)
  BY OutlayIsInt
<1>2. /\ L.totals.cash \in Int /\ L.totals.contributed \in Int /\ L.totals.withdrawn \in Int
      /\ op.amount \in Int /\ Fee(op) \in Int
  BY DEF SoundLedger, SoundTotals, Totals, TypedRow, Fee
<1>3. ASSUME Flowed(L, M), ~Buys(op),
             M.totals.cash - M.totals.contributed + M.totals.withdrawn
                = L.totals.cash - L.totals.contributed + L.totals.withdrawn - outlay
      PROVE  /\ ~L.incomplete
             /\ Balance(L.totals) \in Int /\ Balance(M.totals) \in Int
             /\ Within(Balance(M.totals) + outlay - Balance(L.totals), Drift(L, op))
  <2>1. /\ ~L.incomplete /\ Balance(L.totals) \in Int
        /\ Balance(M.totals) + outlay = Balance(L.totals)
    BY <1>3, FlowBalance
  <2>2. Balance(M.totals) \in Int
    <3>1. SoundTotals(M.totals) /\ Known(M.totals)
      BY <1>3 DEF Flowed, SoundLedger
    <3>2. PICK U : U = M.totals
      OBVIOUS
    <3>3. /\ U.cash \in Int /\ U.contributed \in Int /\ U.withdrawn \in Int
          /\ U.realized \in Int /\ Basis(U) \in Int
      BY <3>1, <3>2, SoundNumbers, BasisIsSum
    <3>4. Balance(U) \in Int
      BY <3>3 DEF Balance
    <3> QED BY <3>2, <3>4
  <2>3. Drift(L, op) = 0
    BY <1>3 DEF Drift
  <2>4. Balance(M.totals) + outlay - Balance(L.totals) = 0
    BY <2>1, <2>2
  <2> QED BY <2>1, <2>2, <2>3, <2>4 DEF Within
<1>4. CASE op.type \in {"DEPOSIT", "OPENING_CASH"} /\ M = External(L, op)
  <2>1. outlay = 0 /\ ~Buys(op)
    BY <1>1, <1>4 DEF Outlay, Buys
  <2>2. /\ Flowed(L, M) /\ M.totals.cash = L.totals.cash + op.amount
        /\ M.totals.contributed = L.totals.contributed + op.amount
        /\ M.totals.withdrawn = L.totals.withdrawn
    BY <1>4, ExternalEvent
  <2> QED BY <1>1, <1>2, <1>3, <2>1, <2>2
<1>5. CASE op.type = "WITHDRAWAL" /\ M = Withdraw(L, op)
  <2>1. outlay = 0 /\ ~Buys(op)
    BY <1>1, <1>5 DEF Outlay, Buys
  <2>2. /\ Flowed(L, M) /\ M.totals.cash = L.totals.cash - op.amount
        /\ M.totals.contributed = L.totals.contributed
        /\ M.totals.withdrawn = L.totals.withdrawn + op.amount
    BY <1>5, WithdrawEvent
  <2> QED BY <1>1, <1>2, <1>3, <2>1, <2>2
<1>6. CASE op.type \in {"COMMISSION", "TAX", "OTHER_FEE"} /\ M = Charge(L, op)
  <2>1. outlay = Fee(op) /\ ~Buys(op)
    BY <1>1, <1>6 DEF Outlay, Buys
  <2>2. /\ Flowed(L, M) /\ M.totals.cash = L.totals.cash - Fee(op)
        /\ M.totals.contributed = L.totals.contributed
        /\ M.totals.withdrawn = L.totals.withdrawn
    BY <1>6, ChargeEvent
  <2> QED BY <1>1, <1>2, <1>3, <2>1, <2>2
<1>7. CASE op.type \in {"DIVIDEND", "COUPON", "AMORTIZATION"} /\ M = Income(L, op)
  <2>1. outlay = -op.amount /\ ~Buys(op)
    BY <1>1, <1>7 DEF Outlay, Buys
  <2>2. /\ Flowed(L, M) /\ M.totals.cash = L.totals.cash + op.amount
        /\ M.totals.contributed = L.totals.contributed
        /\ M.totals.withdrawn = L.totals.withdrawn
    BY <1>7, IncomeEvent
  <2> QED BY <1>1, <1>2, <1>3, <2>1, <2>2
<1>8. CASE op.type = "OPENING_POSITION" /\ M = Open(L, op)
  <2>1. /\ ~L.incomplete /\ Balance(L.totals) \in Int /\ Balance(M.totals) \in Int
        /\ Within(Balance(M.totals) - Balance(L.totals),
                  L.totals.positions[op.instrument].units + op.units)
    BY <1>8, OpenBalance
  <2>2. Outlay(op) = 0 /\ Drift(L, op) = L.totals.positions[op.instrument].units + op.units
    BY <1>8 DEF Outlay, Drift, Buys
  <2>3. Balance(M.totals) + Outlay(op) - Balance(L.totals) = Balance(M.totals) - Balance(L.totals)
    BY <2>1, <2>2
  <2> QED BY <2>1, <2>2, <2>3
<1>9. CASE op.type = "BUY" /\ M = Buy(L, op)
  <2>1. /\ ~L.incomplete /\ Balance(L.totals) \in Int /\ Balance(M.totals) \in Int
        /\ Within(Balance(M.totals) - Balance(L.totals),
                  L.totals.positions[op.instrument].units + op.units)
    BY <1>9, BuyBalance
  <2>2. Outlay(op) = 0 /\ Drift(L, op) = L.totals.positions[op.instrument].units + op.units
    BY <1>9 DEF Outlay, Drift, Buys
  <2>3. Balance(M.totals) + Outlay(op) - Balance(L.totals) = Balance(M.totals) - Balance(L.totals)
    BY <2>1, <2>2
  <2> QED BY <2>1, <2>2, <2>3
<1>10. CASE op.type = "SELL" /\ M = Sell(L, op)
  <2>1. /\ ~L.incomplete /\ Balance(L.totals) \in Int /\ Balance(M.totals) = Balance(L.totals)
    BY <1>10, SellBalance
  <2>2. Outlay(op) = 0 /\ Drift(L, op) = 0
    BY <1>10 DEF Outlay, Drift, Buys
  <2>3. Balance(M.totals) + Outlay(op) - Balance(L.totals) = 0
    BY <2>1, <2>2
  <2> QED BY <2>1, <2>2, <2>3 DEF Within
<1> QED BY <1>1, <1>4, <1>5, <1>6, <1>7, <1>8, <1>9, <1>10, ApplyCases

\* No position grows by more than what is bought or opened.
LEMMA ApplyUnits ==
    ASSUME NEW L, SoundLedger(L), NEW op, TypedRow(op),
           NEW M, M = ApplyEvent(L, op), M.valid, ~Error(L).valid,
           NEW bound \in Nat, \A i \in Instruments : L.totals.positions[i].units <= bound
    PROVE  /\ Buys(op) => op.units \in Nat /\ op.instrument \in Instruments
           /\ \A i \in Instruments :
                M.totals.positions[i].units <= bound + (IF Buys(op) THEN op.units ELSE 0)
<1>0. /\ op.units \in Int
      /\ \A i \in Instruments : L.totals.positions[i].units \in Nat
  BY DEF TypedRow, SoundLedger, SoundTotals, Totals, Books
<1>1. CASE op.type \notin {"OPENING_POSITION", "BUY", "SELL"}
  <2>1. Flowed(L, M)
    BY <1>1, ApplyCases, ExternalEvent, WithdrawEvent, ChargeEvent, IncomeEvent
  <2>2. M.totals.positions = L.totals.positions /\ ~Buys(op)
    BY <1>1, <2>1 DEF Flowed, Buys
  <2> QED BY <1>0, <2>2
<1>2. CASE op.type \in {"OPENING_POSITION", "BUY", "SELL"}
  <2>0. op.instrument \in Instruments
    BY <1>2 DEF TypedRow
  <2>1. PICK book : book = L.totals.positions[op.instrument]
    OBVIOUS
  <2>2. /\ op.units > 0
        /\ \E after : /\ Traded(L, M, op.instrument, after)
                      /\ after.units = IF Buys(op) THEN book.units + op.units
                                       ELSE book.units - op.units
    <3>1. CASE op.type = "OPENING_POSITION" /\ M = Open(L, op)
      BY <2>1, <3>1, OpenEvent DEF Buys
    <3>2. CASE op.type = "BUY" /\ M = Buy(L, op)
      BY <2>1, <3>2, BuyEvent DEF Buys
    <3>3. CASE op.type = "SELL" /\ M = Sell(L, op)
      BY <2>1, <3>3, SellEvent DEF Buys
    <3> QED BY <1>2, <3>1, <3>2, <3>3, ApplyCases
  <2>3. PICK after : /\ Traded(L, M, op.instrument, after)
                     /\ after.units = IF Buys(op) THEN book.units + op.units
                                      ELSE book.units - op.units
    BY <2>2
  <2>4. book.units \in Nat /\ book.units <= bound
    BY <1>0, <2>0, <2>1
  <2>5. ASSUME NEW i \in Instruments
        PROVE  M.totals.positions[i].units <= bound + (IF Buys(op) THEN op.units ELSE 0)
    <3>1. CASE i = op.instrument
      <4>1. M.totals.positions[i].units = after.units
        BY <2>3, <3>1 DEF Traded
      <4> QED BY <1>0, <2>2, <2>3, <2>4, <4>1
    <3>2. CASE i # op.instrument
      <4>1. M.totals.positions[i] = L.totals.positions[i]
        BY <2>3, <3>2 DEF Traded
      <4> QED BY <1>0, <2>2, <4>1
    <3> QED BY <3>1, <3>2
  <2> QED BY <1>0, <2>0, <2>2, <2>5
<1> QED BY <1>1, <1>2

\* The accounts after some rows: the balance is their outlays, up to the slack.
Accounted(journal, ids) ==
    LET ledger == ReplayOf(journal, ids)
        units == UnitsBought(journal, ids)
    IN  ledger.valid /\ ~ledger.incomplete =>
            /\ units \in Nat
            /\ \A i \in Instruments : ledger.totals.positions[i].units <= units
            /\ Within(Balance(ledger.totals) + Outlays(journal, ids),
                      Cardinality(Bought(journal, ids)) * units)

\* One row more, in the sums over rows.
LEMMA OutlaysInsert ==
    ASSUME NEW journal, NEW S, TypedRows(journal, S), NEW p \in S
    PROVE  /\ Outlays(journal, S) = Outlay(journal[p]) + Outlays(journal, S \ {p})
           /\ Outlays(journal, S \ {p}) \in Int
<1> DEFINE f == [id \in S |-> Outlay(journal[id])]
           g == [id \in S \ {p} |-> Outlay(journal[id])]
<1>1. \A id \in S : f[id] \in Int /\ f[id] = Outlay(journal[id])
  BY OutlayIsInt DEF TypedRows
<1>2. DOMAIN g = S \ {p} /\ DOMAIN f = (S \ {p}) \cup {p}
  OBVIOUS
<1>3. \A id \in S \ {p} : f[id] = g[id]
  OBVIOUS
<1>4. IsFiniteSet(S \ {p})
  BY FS_RemoveElement DEF TypedRows, Timed
<1> HIDE DEF f, g
<1>5. SumFunction(f) = f[p] + SumFunction(g) /\ SumFunction(g) \in Int
  <2>1. \A y \in DOMAIN f : f[y] \in Int
    BY <1>1, <1>2
  <2>2. \A y \in DOMAIN g : f[y] = g[y]
    BY <1>2, <1>3
  <2>3. IsFiniteSet(DOMAIN g) /\ p \notin DOMAIN g /\ DOMAIN f = DOMAIN g \cup {p}
    BY <1>2, <1>4
  <2> QED BY <2>1, <2>2, <2>3, SumFunctionInsert
<1>6. Outlays(journal, S) = SumFunction(f) /\ Outlays(journal, S \ {p}) = SumFunction(g)
  BY DEF Outlays, f, g
<1> QED BY <1>1, <1>5, <1>6

LEMMA BoughtInsert ==
    ASSUME NEW journal, NEW S, TypedRows(journal, S), NEW p \in S
    PROVE  /\ ~Buys(journal[p]) =>
                /\ Bought(journal, S) = Bought(journal, S \ {p})
                /\ UnitsBought(journal, S) = UnitsBought(journal, S \ {p})
           /\ Buys(journal[p]) =>
                /\ Cardinality(Bought(journal, S)) = Cardinality(Bought(journal, S \ {p})) + 1
                /\ UnitsBought(journal, S) = journal[p].units + UnitsBought(journal, S \ {p})
           /\ Cardinality(Bought(journal, S \ {p})) \in Nat
<1> DEFINE B == Bought(journal, S)
           R == Bought(journal, S \ {p})
           f == [id \in B |-> journal[id].units]
           g == [id \in R |-> journal[id].units]
<1>1. /\ B = {id \in S : Buys(journal[id])}
      /\ R = {id \in S : Buys(journal[id])} \ {p}
  BY DEF Bought, Buys
<1>2. UnitsBought(journal, S) = SumFunction(f) /\ UnitsBought(journal, S \ {p}) = SumFunction(g)
  BY DEF UnitsBought
<1>3. IsFiniteSet(B) /\ IsFiniteSet(R) /\ Cardinality(R) \in Nat
  <2>1. IsFiniteSet(S)
    BY DEF TypedRows, Timed
  <2>2. B \subseteq S /\ R \subseteq S
    BY <1>1
  <2> HIDE DEF B, R
  <2> QED BY <2>1, <2>2, FS_Subset, FS_CardinalityType
<1>4. ASSUME ~Buys(journal[p]) PROVE B = R
  BY <1>1, <1>4
<1>5. ASSUME Buys(journal[p])
      PROVE  /\ Cardinality(B) = Cardinality(R) + 1
             /\ SumFunction(f) = journal[p].units + SumFunction(g)
  <2>1. B = R \cup {p} /\ p \notin R
    BY <1>1, <1>5
  <2>2. Cardinality(B) = Cardinality(R) + 1
    <3> HIDE DEF B, R
    <3> QED BY <1>3, <2>1, FS_AddElement
  <2>3. \A id \in B : f[id] \in Int /\ f[id] = journal[id].units
    BY <1>1 DEF TypedRows, TypedRow
  <2>4. \A id \in R : f[id] = g[id]
    <3> HIDE DEF B, R
    <3> QED BY <2>1
  <2>5. DOMAIN f = B /\ DOMAIN g = R
    OBVIOUS
  <2> HIDE DEF f, g, B, R
  <2>6. SumFunction(f) = f[p] + SumFunction(g)
    <3>1. \A y \in DOMAIN f : f[y] \in Int
      BY <2>3, <2>5
    <3>2. \A y \in DOMAIN g : f[y] = g[y]
      BY <2>4, <2>5
    <3>3. IsFiniteSet(DOMAIN g) /\ p \notin DOMAIN g /\ DOMAIN f = DOMAIN g \cup {p}
      BY <1>3, <2>1, <2>5
    <3> QED BY <3>1, <3>2, <3>3, SumFunctionInsert
  <2> QED BY <2>1, <2>2, <2>3, <2>6
<1>6. ~Buys(journal[p]) => UnitsBought(journal, S) = UnitsBought(journal, S \ {p})
  BY <1>4 DEF UnitsBought
<1> HIDE DEF B, R, f, g
<1> QED BY <1>2, <1>3, <1>4, <1>5, <1>6 DEF B, R

\* The slack after one row more.
LEMMA SlackGrows ==
    ASSUME NEW k \in Nat, NEW u \in Nat, NEW w \in Nat, NEW e, NEW d, NEW r \in Nat,
           Within(e, k * u), Within(d, r), r <= u + w
    PROVE  Within(e + d, (k + 1) * (u + w))
<1>1. \A a \in Nat, b \in Nat : a * b \in Nat
  OBVIOUS
<1>2. (k + 1) * (u + w) = k * u + k * w + (u + w)
  OBVIOUS
<1>3. PICK x \in Nat, y \in Nat : x = k * u /\ y = k * w
  BY <1>1
<1>4. (k + 1) * (u + w) = x + y + (u + w)
  BY <1>2, <1>3
<1>5. /\ e \in Int /\ d \in Int /\ -x <= 2 * e /\ 2 * e <= x
      /\ -r <= 2 * d /\ 2 * d <= r
  BY <1>3 DEF Within
<1> QED BY <1>3, <1>4, <1>5 DEF Within

\* Nothing has happened, nothing is accounted for.
LEMMA NothingIsAccounted == ASSUME NEW journal PROVE Accounted(journal, {})
<1>1. ReplayOf(journal, {}) = EmptyLedger
  BY ReplayOfNothing
<1>2. Bought(journal, {}) = {} /\ Cardinality({}) = 0
  BY FS_EmptySet DEF Bought
<1>3. SumFunction([id \in {} |-> journal[id].units]) = 0
  <2>1. PICK f : f = [id \in {} |-> journal[id].units]
    OBVIOUS
  <2>2. DOMAIN f = {}
    BY <2>1
  <2> QED BY <2>1, <2>2, SumEmpty DEF SumFunction
<1>4. SumFunction([id \in {} |-> Outlay(journal[id])]) = 0
  <2>1. PICK f : f = [id \in {} |-> Outlay(journal[id])]
    OBVIOUS
  <2>2. DOMAIN f = {}
    BY <2>1
  <2> QED BY <2>1, <2>2, SumEmpty DEF SumFunction
<1>5. UnitsBought(journal, {}) = 0 /\ Outlays(journal, {}) = 0
  BY <1>2, <1>3, <1>4 DEF UnitsBought, Outlays
<1>6. PICK T : T = EmptyTotals
  OBVIOUS
<1>7. /\ T.cash = 0 /\ T.contributed = 0 /\ T.withdrawn = 0 /\ T.realized = 0
      /\ \A i \in Instruments : T.positions[i].units = 0
  BY <1>6 DEF EmptyTotals, NoPosition
<1>8. SoundTotals(T) /\ Known(T)
  BY <1>6, EmptyIsSound DEF EmptyLedger, SoundLedger
<1>9. Basis(T) = 0
  <2> DEFINE f == [i \in Instruments |-> Worth(T.positions[i])]
  <2>1. Basis(T) = SumFunctionOnSet(f, Instruments)
    BY <1>8, BasisIsSum
  <2>2. \A i \in Instruments : f[i] = 0
    BY <1>7 DEF Worth
  <2> HIDE DEF f
  <2>3. \A i \in Instruments : f[i] \in Int /\ f[i] = 0 * f[i]
    BY <2>2
  <2>4. SumFunctionOnSet(f, Instruments) = 0 * SumFunctionOnSet(f, Instruments)
    BY <2>3, BookAssumption, SumScale
  <2>5. SumFunctionOnSet(f, Instruments) \in Int
    BY <2>3, BookAssumption, SumIsInt
  <2> QED BY <2>1, <2>4, <2>5
<1>10. Balance(T) = 0
  BY <1>7, <1>9 DEF Balance
<1>11. Within(Balance(T) + Outlays(journal, {}),
              Cardinality(Bought(journal, {})) * UnitsBought(journal, {}))
  <2>1. Balance(T) + Outlays(journal, {}) = 0
    BY <1>5, <1>10
  <2>2. Cardinality(Bought(journal, {})) * UnitsBought(journal, {}) = 0
    BY <1>2, <1>5
  <2>3. Within(0, 0)
    BY DEF Within
  <2> QED BY <2>1, <2>2, <2>3
<1>12. EmptyLedger.totals = T
  BY <1>6 DEF EmptyLedger
<1> HIDE DEF EmptyLedger
<1> QED BY <1>1, <1>5, <1>7, <1>11, <1>12 DEF Accounted

\* The slack covers what a row adds to it.
LEMMA RowAccounts ==
    ASSUME NEW journal, NEW T, TypedRows(journal, T), NEW p \in T,
           NEW L, L.valid => SoundLedger(L),
           NEW M, M = ApplyEvent(L, journal[p]), M.valid, ~M.incomplete,
           ~L.incomplete =>
                /\ UnitsBought(journal, T \ {p}) \in Nat
                /\ \A i \in Instruments : L.totals.positions[i].units <= UnitsBought(journal, T \ {p})
                /\ Within(Balance(L.totals) + Outlays(journal, T \ {p}),
                          Cardinality(Bought(journal, T \ {p})) * UnitsBought(journal, T \ {p}))
    PROVE  /\ UnitsBought(journal, T) \in Nat
           /\ \A i \in Instruments : M.totals.positions[i].units <= UnitsBought(journal, T)
           /\ Within(Balance(M.totals) + Outlays(journal, T),
                     Cardinality(Bought(journal, T)) * UnitsBought(journal, T))
<1>1. PICK op : op = journal[p]
  OBVIOUS
<1>2. TypedRow(op)
  BY <1>1 DEF TypedRows
<1>3. SoundLedger(L) /\ ~Error(L).valid
  BY <1>1, <1>2, ApplyIsSound
<1>4. /\ ~L.incomplete
      /\ Balance(L.totals) \in Int /\ Balance(M.totals) \in Int
      /\ Within(Balance(M.totals) + Outlay(op) - Balance(L.totals), Drift(L, op))
  BY <1>1, <1>2, <1>3, ApplyBalance
<1>5. PICK u : u = UnitsBought(journal, T \ {p})
  OBVIOUS
<1>6. PICK k : k = Cardinality(Bought(journal, T \ {p}))
  OBVIOUS
<1>7. PICK a : a = Outlays(journal, T \ {p})
  OBVIOUS
<1>8. /\ u \in Nat
      /\ \A i \in Instruments : L.totals.positions[i].units <= u
      /\ Within(Balance(L.totals) + a, k * u)
  BY <1>4, <1>5, <1>6, <1>7
<1>9. k \in Nat /\ a \in Int /\ Outlays(journal, T) = Outlay(op) + a
  <2>1. Cardinality(Bought(journal, T \ {p})) \in Nat
    BY BoughtInsert
  <2>2. /\ Outlays(journal, T) = Outlay(journal[p]) + Outlays(journal, T \ {p})
        /\ Outlays(journal, T \ {p}) \in Int
    BY OutlaysInsert
  <2> QED BY <1>1, <1>6, <1>7, <2>1, <2>2
<1>10. /\ Buys(op) => op.units \in Nat /\ op.instrument \in Instruments
       /\ \A i \in Instruments :
            M.totals.positions[i].units <= u + (IF Buys(op) THEN op.units ELSE 0)
  BY <1>1, <1>2, <1>3, <1>8, ApplyUnits
<1>11. PICK x : x = Balance(L.totals)
  OBVIOUS
<1>12. PICK y : y = Balance(M.totals)
  OBVIOUS
<1>13. PICK o : o = Outlay(op)
  OBVIOUS
<1>14. x \in Int /\ y \in Int /\ o \in Int
  BY <1>2, <1>4, <1>11, <1>12, <1>13, OutlayIsInt
<1>15. Within(x + a, k * u) /\ Within(y + o - x, Drift(L, op))
  BY <1>4, <1>8, <1>11, <1>12, <1>13
<1>16. (x + a) + (y + o - x) = y + (o + a)
  BY <1>9, <1>14
<1>17. CASE Buys(op)
  <2>1. /\ Cardinality(Bought(journal, T)) = k + 1
        /\ UnitsBought(journal, T) = op.units + u
    BY <1>1, <1>5, <1>6, <1>17, BoughtInsert
  <2>2. PICK w \in Nat : w = op.units
    BY <1>10, <1>17
  <2>3. PICK r : r = Drift(L, op)
    OBVIOUS
  <2>4. r \in Nat /\ r <= u + w
    <3>1. r = L.totals.positions[op.instrument].units + w
      BY <1>17, <2>2, <2>3 DEF Drift
    <3>2. L.totals.positions[op.instrument].units \in Nat
      BY <1>3, <1>10, <1>17 DEF SoundLedger, SoundTotals, Totals, Books
    <3> QED BY <1>8, <1>10, <1>17, <2>2, <3>1, <3>2
  <2>5. Within((x + a) + (y + o - x), (k + 1) * (u + w))
    BY <1>8, <1>9, <1>15, <2>2, <2>3, <2>4, SlackGrows
  <2>6. Within(y + (o + a), (k + 1) * (u + w))
    BY <1>16, <2>5
  <2>7. UnitsBought(journal, T) = u + w
    BY <1>8, <2>1, <2>2
  <2>8. \A i \in Instruments : M.totals.positions[i].units <= u + w
    BY <1>10, <1>17, <2>2
  <2> QED BY <1>8, <1>9, <1>12, <1>13, <2>1, <2>2, <2>6, <2>7, <2>8
<1>18. CASE ~Buys(op)
  <2>1. /\ Cardinality(Bought(journal, T)) = k
        /\ UnitsBought(journal, T) = u
    BY <1>1, <1>5, <1>6, <1>18, BoughtInsert
  <2>2. Within(y + o - x, 0)
    BY <1>15, <1>18 DEF Drift
  <2>3. Within(y + (o + a), k * u)
    <3>1. PICK z : z = k * u
      OBVIOUS
    <3>2. /\ z \in Nat /\ -z <= 2 * (x + a) /\ 2 * (x + a) <= z
          /\ y + o - x = 0
      BY <1>14, <1>15, <2>2, <3>1 DEF Within
    <3>3. y + (o + a) = x + a
      BY <1>9, <1>14, <3>2
    <3> QED BY <1>15, <3>3
  <2>4. \A i \in Instruments : M.totals.positions[i].units <= u
    BY <1>8, <1>10, <1>18
  <2> QED BY <1>8, <1>9, <1>12, <1>13, <2>1, <2>3, <2>4
<1> QED BY <1>17, <1>18

LEMMA OutlaysAreInt ==
    ASSUME NEW journal, NEW S, TypedRows(journal, S)
    PROVE  Outlays(journal, S) \in Int
<1> DEFINE f == [id \in S |-> Outlay(journal[id])]
<1>1. IsFiniteSet(S) /\ \A id \in S : f[id] \in Int
  BY OutlayIsInt DEF TypedRows, Timed
<1>2. DOMAIN f = S
  OBVIOUS
<1>3. Outlays(journal, S) = SumFunction(f)
  BY DEF Outlays
<1> HIDE DEF f
<1>4. SumFunctionOnSet(f, S) \in Int
  BY <1>1, SumIsInt
<1> QED BY <1>2, <1>3, <1>4 DEF SumFunction

\* Any rows that replay without an error are accounted for.
LEMMA ReplayIsAccounted ==
    ASSUME NEW journal, NEW S, TypedRows(journal, S)
    PROVE  \A T \in SUBSET S : Accounted(journal, T)
<1> DEFINE C == {T \in SUBSET S : Accounted(journal, T)}
<1>1. {} \in C
  BY NothingIsAccounted
<1>2. ASSUME NEW T \in SUBSET S, T # {}, T \ {Latest(journal, T)} \in C
      PROVE  T \in C
  <2>1. TypedRows(journal, T)
    BY TimedPart DEF TypedRows
  <2>2. PICK p : p = Latest(journal, T)
    OBVIOUS
  <2>3. PICK L : L = ReplayOf(journal, T \ {p})
    OBVIOUS
  <2>4. PICK M : M = ReplayOf(journal, T)
    OBVIOUS
  <2>5. p \in T /\ M = ApplyEvent(L, journal[p])
    BY <1>2, <2>1, <2>2, <2>3, <2>4, LatestIsLast, ReplayStep DEF TypedRows
  <2>6. L.valid => SoundLedger(L)
    BY <2>3, ReplayIsSound
  <2>7. Accounted(journal, T \ {p})
    BY <1>2, <2>2
  <2>8. ASSUME M.valid, ~M.incomplete
        PROVE  /\ UnitsBought(journal, T) \in Nat
               /\ \A i \in Instruments : M.totals.positions[i].units <= UnitsBought(journal, T)
               /\ Within(Balance(M.totals) + Outlays(journal, T),
                         Cardinality(Bought(journal, T)) * UnitsBought(journal, T))
    <3>1. L.valid
      BY <2>5, <2>8 DEF ApplyEvent
    <3>2. ~L.incomplete =>
            /\ UnitsBought(journal, T \ {p}) \in Nat
            /\ \A i \in Instruments : L.totals.positions[i].units <= UnitsBought(journal, T \ {p})
            /\ Within(Balance(L.totals) + Outlays(journal, T \ {p}),
                      Cardinality(Bought(journal, T \ {p})) * UnitsBought(journal, T \ {p}))
      BY <2>3, <2>7, <3>1 DEF Accounted
    <3> QED BY <2>1, <2>5, <2>6, <2>8, <3>2, RowAccounts
  <2>9. Accounted(journal, T)
    BY <2>4, <2>8 DEF Accounted
  <2> QED BY <2>9
<1>3. SUBSET S \subseteq C
  <2> HIDE DEF C
  <2> QED BY <1>1, <1>2, ReplayInduction DEF TypedRows
<1> QED BY <1>3

\* Whatever is deposited, traded, paid and received, and in whatever order it is entered, cash and
\* cost basis come to the net contributions and the realized result, less fees and taxes and with
\* the income, up to half a quantum per unit for every averaging purchase.
THEOREM ResultIsAccountedHolds == Spec => []ResultIsAccounted
<1>1. Inv /\ Dated(db) => ResultIsAccounted
  <2> SUFFICES ASSUME Inv, Dated(db), db.status = "ACTIVE", ~Replay(db.journal).incomplete
               PROVE  LET ids == ActiveIds(db.journal)
                          totals == db.totals
                          net == totals.contributed - totals.withdrawn + totals.realized
                                    - Outlays(db.journal, ids)
                          slack == Cardinality(Bought(db.journal, ids)) * UnitsBought(db.journal, ids)
                      IN  2 * (totals.cash + Basis(totals) - net) \in -slack..slack
    BY DEF ResultIsAccounted
  <2>1. PICK journal, ids : journal = db.journal /\ ids = ActiveIds(db.journal)
    OBVIOUS
  <2>2. TypedRows(journal, ids)
    BY <2>1, JournalIsTimed DEF Inv, Dated, ActiveIds
  <2>3. PICK ledger : ledger = ReplayOf(journal, ids)
    OBVIOUS
  <2>4. ledger.valid /\ ~ledger.incomplete /\ db.totals = ledger.totals
    BY <2>1, <2>3 DEF Inv, Sound, Accounts, Replay
  <2>5. SoundLedger(ledger)
    BY <2>2, <2>3, <2>4, ReplayIsSound
  <2>6. PICK T : T = ledger.totals
    OBVIOUS
  <2>7. SoundTotals(T) /\ Known(T)
    BY <2>4, <2>5, <2>6 DEF SoundLedger
  <2>8. PICK b : b = Basis(T)
    OBVIOUS
  <2>9. /\ b \in Int /\ T.cash \in Int /\ T.contributed \in Int
        /\ T.withdrawn \in Int /\ T.realized \in Int
    BY <2>7, <2>8, BasisIsSum, SoundNumbers
  <2>10. PICK o : o = Outlays(journal, ids)
    OBVIOUS
  <2>11. PICK slack : slack = Cardinality(Bought(journal, ids)) * UnitsBought(journal, ids)
    OBVIOUS
  <2>12. Accounted(journal, ids)
    BY <2>2, ReplayIsAccounted
  <2>13. Within(Balance(T) + o, slack)
    BY <2>3, <2>4, <2>6, <2>10, <2>11, <2>12 DEF Accounted
  <2>14. o \in Int
    BY <2>2, <2>10, OutlaysAreInt
  <2>15. PICK d : d = Balance(T) + o
    OBVIOUS
  <2>16. d \in Int /\ slack \in Nat /\ -slack <= 2 * d /\ 2 * d <= slack
    BY <2>13, <2>15 DEF Within
  <2>17. d = T.cash + b - (T.contributed - T.withdrawn + T.realized - o)
    BY <2>8, <2>9, <2>14, <2>15 DEF Balance
  <2>18. 2 * (T.cash + b - (T.contributed - T.withdrawn + T.realized - o)) \in -slack..slack
    BY <2>16, <2>17
  <2> QED BY <2>1, <2>4, <2>6, <2>8, <2>10, <2>11, <2>18
<1> QED BY DatedHolds, <1>1, PTL

-----------------------------------------------------------------------------
(* An activation shows what the draft showed.                              *)

\* x records the draft's cash, or one of its positions.
OpeningOf(totals, x) ==
    \/ x.type = "OPENING_CASH" /\ x.amount = totals.cash
    \/ /\ x.type = "OPENING_POSITION" /\ x.instrument \in Instruments
       /\ x.units = totals.positions[x.instrument].units
       /\ x.price = totals.positions[x.instrument].cost

\* Of rows that record the same, there is one.
Apart(x, y) ==
    /\ ~(x.type = "OPENING_CASH" /\ y.type = "OPENING_CASH")
    /\ ~(/\ x.type = "OPENING_POSITION" /\ y.type = "OPENING_POSITION"
         /\ x.instrument = y.instrument)

\* Nothing of the draft is left out.
LEMMA OpeningRowsAre ==
    ASSUME NEW totals, NEW now
    PROVE  /\ \A x \in OpeningRows(totals, now) : OpeningOf(totals, x) /\ x.status = "ACTIVE"
           /\ \A x, y \in OpeningRows(totals, now) : x # y => Apart(x, y)
           /\ totals.cash # 0 => \E x \in OpeningRows(totals, now) : x.type = "OPENING_CASH"
           /\ \A i \in Instruments : totals.positions[i].units > 0 =>
                \E x \in OpeningRows(totals, now) : x.type = "OPENING_POSITION" /\ x.instrument = i
<1> DEFINE cash == Opening(now, "OPENING_CASH", None, 0, None, totals.cash)
           position(i) == Opening(now, "OPENING_POSITION", i, totals.positions[i].units,
                                  totals.positions[i].cost, 0)
           held == {j \in Instruments : totals.positions[j].units > 0}
<1>1. /\ cash.type = "OPENING_CASH" /\ cash.amount = totals.cash /\ cash.instrument = None
      /\ cash.status = "ACTIVE"
  BY DEF Opening
<1>2. ASSUME NEW i
      PROVE  /\ position(i).type = "OPENING_POSITION" /\ position(i).instrument = i
             /\ position(i).units = totals.positions[i].units
             /\ position(i).price = totals.positions[i].cost
             /\ position(i).status = "ACTIVE"
  BY DEF Opening
<1>3. OpeningRows(totals, now) = {Opening(now, "OPENING_CASH", None, 0, None, c) :
                                    c \in {totals.cash} \ {0}}
                                 \cup {position(i) : i \in held}
  BY DEF OpeningRows
<1>4. /\ \A x \in OpeningRows(totals, now) : x = cash \/ \E i \in held : x = position(i)
      /\ totals.cash # 0 => cash \in OpeningRows(totals, now)
      /\ \A i \in held : position(i) \in OpeningRows(totals, now)
  <2>1. {Opening(now, "OPENING_CASH", None, 0, None, c) : c \in {totals.cash} \ {0}}
            = IF totals.cash = 0 THEN {} ELSE {cash}
    OBVIOUS
  <2>2. OpeningRows(totals, now) = (IF totals.cash = 0 THEN {} ELSE {cash})
                                   \cup {position(i) : i \in held}
    BY <1>3, <2>1
  <2> HIDE DEF cash, position, held
  <2> QED BY <2>2
<1>5. \A i \in held : i \in Instruments
  OBVIOUS
<1>6. \A i \in Instruments : totals.positions[i].units > 0 => i \in held
  OBVIOUS
<1> HIDE DEF cash, position, held
<1>7. \A x \in OpeningRows(totals, now) : OpeningOf(totals, x) /\ x.status = "ACTIVE"
  BY <1>1, <1>2, <1>4, <1>5 DEF OpeningOf
<1>8. ASSUME NEW x \in OpeningRows(totals, now), NEW y \in OpeningRows(totals, now), x # y
      PROVE  Apart(x, y)
  <2>1. x = cash \/ \E i \in held : x = position(i)
    BY <1>4
  <2>2. y = cash \/ \E i \in held : y = position(i)
    BY <1>4
  <2> QED BY <1>1, <1>2, <1>8, <2>1, <2>2 DEF Apart
<1> QED BY <1>1, <1>2, <1>4, <1>6, <1>7, <1>8

\* What the rows of T, of a snapshot of the given totals, come to.
Opened(journal, T, totals, shown) ==
    /\ shown.cash = IF \E id \in T : journal[id].type = "OPENING_CASH" THEN totals.cash ELSE 0
    /\ \A i \in Instruments :
        shown.positions[i] =
            IF \E id \in T : journal[id].type = "OPENING_POSITION" /\ journal[id].instrument = i
            THEN totals.positions[i] ELSE NoPosition

LEMMA NothingIsOpened ==
    ASSUME NEW journal, NEW totals PROVE Opened(journal, {}, totals, EmptyTotals)
<1>1. EmptyTotals.cash = 0 /\ EmptyTotals.positions = [i \in Instruments |-> NoPosition]
  BY DEF EmptyTotals
<1>2. \A i \in Instruments : EmptyTotals.positions[i] = NoPosition
  BY <1>1
<1> HIDE DEF EmptyTotals
<1> QED BY <1>1, <1>2 DEF Opened

\* One row more of the snapshot shows one thing more of the draft.
LEMMA RowOpens ==
    ASSUME NEW journal, NEW T, NEW p \in T, NEW totals, SoundTotals(totals),
           NEW op, op = journal[p], TypedRow(op), OpeningOf(totals, op),
           \A id \in T \ {p} : Apart(journal[id], op),
           NEW L, SoundLedger(L), ~Error(L).valid,
           NEW M, M = ApplyEvent(L, op), M.valid,
           Opened(journal, T \ {p}, totals, L.totals)
    PROVE  Opened(journal, T, totals, M.totals)
<1> DEFINE cash(S) == \E id \in S : journal[id].type = "OPENING_CASH"
           opens(S, i) == \E id \in S : /\ journal[id].type = "OPENING_POSITION"
                                        /\ journal[id].instrument = i
<1>1. cash(T) <=> cash(T \ {p}) \/ op.type = "OPENING_CASH"
  OBVIOUS
<1>2. \A i : opens(T, i) <=> opens(T \ {p}, i) \/ (op.type = "OPENING_POSITION" /\ op.instrument = i)
  OBVIOUS
<1>3. /\ op.type = "OPENING_CASH" => ~cash(T \ {p})
      /\ op.type = "OPENING_POSITION" => ~opens(T \ {p}, op.instrument)
  BY DEF Apart
<1>4. /\ L.totals.cash = IF cash(T \ {p}) THEN totals.cash ELSE 0
      /\ \A i \in Instruments :
            L.totals.positions[i] = IF opens(T \ {p}, i) THEN totals.positions[i] ELSE NoPosition
  BY DEF Opened
<1>5. SUFFICES /\ M.totals.cash = IF cash(T) THEN totals.cash ELSE 0
               /\ \A i \in Instruments :
                    M.totals.positions[i] = IF opens(T, i) THEN totals.positions[i] ELSE NoPosition
  BY DEF Opened
<1> HIDE DEF cash, opens
<1>6. CASE op.type = "OPENING_CASH"
  <2>1. M = External(L, op)
    BY <1>6, ApplyCases
  <2>2. M.totals.cash = L.totals.cash + op.amount /\ M.totals.positions = L.totals.positions
    BY <2>1, ExternalEvent DEF Flowed
  <2>3. op.amount = totals.cash /\ totals.cash \in Int
    BY <1>6, SoundNumbers DEF OpeningOf
  <2>4. M.totals.cash = totals.cash
    BY <1>3, <1>4, <1>6, <2>2, <2>3
  <2> QED BY <1>1, <1>2, <1>4, <1>6, <2>2, <2>4
<1>7. CASE op.type = "OPENING_POSITION"
  <2>1. M = Open(L, op)
    BY <1>7, ApplyCases
  <2>2. PICK i \in Instruments : i = op.instrument
    BY <1>7 DEF OpeningOf
  <2>3. op.units = totals.positions[i].units /\ op.price = totals.positions[i].cost
    BY <1>7, <2>2 DEF OpeningOf
  <2>4. L.totals.positions[i] = NoPosition
    BY <1>3, <1>4, <1>7, <2>2
  <2>5. PICK book : book = L.totals.positions[op.instrument]
    OBVIOUS
  <2>6. book.units = 0
    BY <2>2, <2>4, <2>5 DEF NoPosition
  <2>7. /\ \E after : /\ Traded(L, M, op.instrument, after)
                      /\ book.units = 0 => after = [units |-> op.units, cost |-> op.price]
        /\ M.totals.cash = L.totals.cash
    BY <1>7, <2>1, <2>5, OpenEvent
  <2>8. Traded(L, M, i, [units |-> op.units, cost |-> op.price])
    BY <2>2, <2>6, <2>7
  <2>9. totals.positions[i] = [units |-> op.units, cost |-> op.price]
    <3>1. totals.positions[i] \in Books
      BY DEF SoundTotals, Totals
    <3> QED BY <2>3, <3>1 DEF Books
  <2>10. /\ M.totals.positions[i] = totals.positions[i]
         /\ \A j \in Instruments \ {i} : M.totals.positions[j] = L.totals.positions[j]
    BY <2>8, <2>9 DEF Traded
  <2>11. opens(T, i) /\ \A j \in Instruments \ {i} : opens(T, j) <=> opens(T \ {p}, j)
    BY <1>2, <1>7, <2>2
  <2>12. ASSUME NEW j \in Instruments
         PROVE  M.totals.positions[j] = IF opens(T, j) THEN totals.positions[j] ELSE NoPosition
    <3>1. CASE j = i
      BY <2>10, <2>11, <3>1
    <3>2. CASE j # i
      BY <1>4, <2>10, <2>11, <3>2
    <3> QED BY <3>1, <3>2
  <2>13. cash(T) <=> cash(T \ {p})
    BY <1>1, <1>7
  <2> QED BY <1>4, <2>7, <2>12, <2>13
<1> QED BY <1>6, <1>7 DEF OpeningOf

\* The rows of a snapshot show what they record.
LEMMA SnapshotOpens ==
    ASSUME NEW journal, NEW S, TypedRows(journal, S), NEW totals, SoundTotals(totals),
           \A id \in S : OpeningOf(totals, journal[id]),
           \A a, b \in S : a # b => Apart(journal[a], journal[b])
    PROVE  \A T \in SUBSET S : ReplayOf(journal, T).valid =>
                Opened(journal, T, totals, ReplayOf(journal, T).totals)
<1> DEFINE C == {T \in SUBSET S : ReplayOf(journal, T).valid =>
                    Opened(journal, T, totals, ReplayOf(journal, T).totals)}
<1>1. {} \in C
  <2>1. ReplayOf(journal, {}).totals = EmptyTotals
    BY ReplayOfNothing DEF EmptyLedger
  <2> QED BY <2>1, NothingIsOpened
<1>2. ASSUME NEW T \in SUBSET S, T # {}, T \ {Latest(journal, T)} \in C
      PROVE  T \in C
  <2>1. Timed(journal, T)
    BY TimedPart DEF TypedRows
  <2>2. PICK p : p = Latest(journal, T)
    OBVIOUS
  <2>3. PICK L : L = ReplayOf(journal, T \ {p})
    OBVIOUS
  <2>4. PICK M : M = ReplayOf(journal, T)
    OBVIOUS
  <2>5. p \in T /\ M = ApplyEvent(L, journal[p])
    BY <1>2, <2>1, <2>2, <2>3, <2>4, LatestIsLast, ReplayStep
  <2>6. L.valid => SoundLedger(L) /\ Opened(journal, T \ {p}, totals, L.totals)
    BY <1>2, <2>2, <2>3, ReplayIsSound
  <2>7. PICK op : op = journal[p]
    OBVIOUS
  <2>8. /\ TypedRow(op) /\ OpeningOf(totals, op)
        /\ \A id \in T \ {p} : Apart(journal[id], op)
    BY <2>5, <2>7 DEF TypedRows
  <2>9. ASSUME M.valid PROVE Opened(journal, T, totals, M.totals)
    <3>1. M = ApplyEvent(L, op)
      BY <2>5, <2>7
    <3>2. L.valid /\ SoundLedger(L) /\ ~Error(L).valid
      BY <2>6, <2>8, <2>9, <3>1, ApplyIsSound
    <3>3. Opened(journal, T \ {p}, totals, L.totals)
      BY <2>6, <3>2
    <3> QED BY <2>5, <2>7, <2>8, <2>9, <3>1, <3>2, <3>3, RowOpens
  <2> QED BY <2>4, <2>9
<1>3. SUBSET S \subseteq C
  <2> HIDE DEF C
  <2> QED BY <1>1, <1>2, ReplayInduction DEF TypedRows
<1> QED BY <1>3

\* An activation of a draft leaves its cash and its positions as they were.
LEMMA ActivationPreserves ==
    ASSUME Sound(db), Dated(db), db.status = "DRAFT",
           NEW now \in Times, NEW o \in Activations(db, now), db' = o.db
    PROVE  /\ db'.totals.cash = db.totals.cash
           /\ db'.totals.positions = db.totals.positions
<1>1. PICK totals : totals = db.totals
  OBVIOUS
<1>2. SoundTotals(totals)
  BY <1>1 DEF Dated
<1> DEFINE rows == OpeningRows(totals, now)
           n == Cardinality(rows)
           active(j) == [db EXCEPT !.status = "ACTIVE", !.journal = j,
                                   !.lastId = @ + Cardinality(DOMAIN j),
                                   !.totals = Replay(j).totals]
<1>3. Activations(db, now) =
        {Outcome(active(j), 0) :
            j \in {k \in OpeningJournals(db, now) : DOMAIN k \subseteq Ids /\ Replay(k).valid}}
  BY DEF Activations
<1>4. \A j : Outcome(active(j), 0).db = active(j)
  BY DEF Outcome
<1>5. PICK journal \in OpeningJournals(db, now) : Replay(journal).valid /\ db' = active(journal)
  <2> HIDE DEF active
  <2> QED BY <1>3, <1>4
<1>6. db'.journal = journal /\ db'.status = "ACTIVE" /\ db'.totals = Replay(journal).totals
  BY <1>5 DEF Sound, IsDb
<1> HIDE DEF active
<1>7. PICK ids : ids = db.lastId + 1..db.lastId + n
  OBVIOUS
<1>8. /\ journal \in [ids -> rows]
      /\ \A a, b \in ids : a # b => journal[a] # journal[b]
  BY <1>1, <1>7 DEF OpeningJournals
<1>9. IsFiniteSet(rows) /\ n \in Nat
  BY OpeningRowsDiffer, FS_CardinalityType
<1>10. /\ \A x \in rows : OpeningOf(totals, x) /\ x.status = "ACTIVE"
       /\ \A x, y \in rows : x # y => Apart(x, y)
       /\ totals.cash # 0 => \E x \in rows : x.type = "OPENING_CASH"
       /\ \A i \in Instruments : totals.positions[i].units > 0 =>
            \E x \in rows : x.type = "OPENING_POSITION" /\ x.instrument = i
  BY OpeningRowsAre
<1> HIDE DEF rows
<1>11. IsFiniteSet(ids) /\ Cardinality(ids) = n
  <2>1. PICK a, b : a = db.lastId + 1 /\ b = db.lastId + n
    OBVIOUS
  <2>2. a \in Int /\ b \in Int /\ db.lastId \in Int
    BY <1>9, <2>1, BookAssumption DEF Sound
  <2>3. IsFiniteSet(a..b) /\ Cardinality(a..b) = IF a > b THEN 0 ELSE b - a + 1
    BY <2>2, FS_Interval
  <2>4. ids = a..b
    BY <1>7, <2>1
  <2> HIDE DEF n
  <2>5. (IF a > b THEN 0 ELSE b - a + 1) = n
    BY <1>9, <2>1, <2>2
  <2> QED BY <2>3, <2>4, <2>5
<1>12. \A x \in rows : \E id \in ids : journal[id] = x
  <2>1. journal \in Injection(ids, rows)
    BY <1>8 DEF Injection, IsInjective
  <2>2. journal \in Surjection(ids, rows)
    BY <1>9, <1>11, <2>1, FS_Injection
  <2> QED BY <2>2 DEF Surjection
<1>13. DOMAIN journal = ids /\ \A id \in ids : journal[id] \in rows
  BY <1>8
<1>14. ActiveIds(journal) = ids
  BY <1>10, <1>13 DEF ActiveIds
<1>15. TypedRows(journal, ids)
  <2>1. Sound(db') /\ Dated(db)'
    BY ActivationIsSound, ActivationIsDated
  <2>2. PICK d : d = db'
    OBVIOUS
  <2>3. Sound(d) /\ TypedJournal(d.journal) /\ d.journal = journal
    BY <1>6, <2>1, <2>2 DEF Dated
  <2>4. ids \in SUBSET (DOMAIN d.journal)
    BY <1>13, <2>3
  <2>5. TypedRows(d.journal, ids)
    BY <2>3, <2>4, JournalIsTimed
  <2> QED BY <2>3, <2>5
<1>16. PICK shown : shown = ReplayOf(journal, ids).totals
  OBVIOUS
<1>17. /\ db'.totals = shown
       /\ ReplayOf(journal, ids).valid
  BY <1>5, <1>6, <1>14, <1>16 DEF Replay
<1>18. SoundTotals(shown)
  BY <1>15, <1>16, <1>17, ReplayIsSound DEF SoundLedger
<1>19. Opened(journal, ids, totals, shown)
  <2>1. \A id \in ids : OpeningOf(totals, journal[id])
    BY <1>10, <1>13
  <2>2. \A a, b \in ids : a # b => Apart(journal[a], journal[b])
    BY <1>8, <1>10, <1>13
  <2>3. \A T \in SUBSET ids : ReplayOf(journal, T).valid =>
            Opened(journal, T, totals, ReplayOf(journal, T).totals)
    BY <1>2, <1>15, <2>1, <2>2, SnapshotOpens
  <2> QED BY <1>16, <1>17, <2>3
<1>20. shown.cash = totals.cash
  <2>1. totals.cash # 0 => \E id \in ids : journal[id].type = "OPENING_CASH"
    BY <1>10, <1>12
  <2> QED BY <1>19, <2>1 DEF Opened
<1>21. ASSUME NEW i \in Instruments PROVE shown.positions[i] = totals.positions[i]
  <2>1. CASE totals.positions[i].units > 0
    <3>1. \E id \in ids : journal[id].type = "OPENING_POSITION" /\ journal[id].instrument = i
      BY <1>10, <1>12, <2>1
    <3> QED BY <1>19, <3>1 DEF Opened
  <2>2. CASE ~(totals.positions[i].units > 0)
    <3>1. totals.positions[i] = NoPosition
      BY <1>2, <2>2 DEF SoundTotals, SoundBook
    <3> QED BY <1>19, <3>1 DEF Opened
  <2> QED BY <2>1, <2>2
<1>22. shown.positions \in [Instruments -> Books] /\ totals.positions \in [Instruments -> Books]
  BY <1>2, <1>18 DEF SoundTotals, Totals
<1>23. shown.positions = totals.positions
  BY <1>21, <1>22
<1> QED BY <1>1, <1>17, <1>20, <1>23

\* Only an activation makes a draft with a snapshot active: an operation is not accepted on top of
\* one, and there is nothing to cancel.
LEMMA OnlyActivationStarts ==
    ASSUME Sound(db), db.status = "DRAFT", HasSnapshot(db), NEW r \in Requests, NEW now \in Times,
           NEW o \in Outcomes(db, r, now), db' = o.db, db'.status = "ACTIVE"
    PROVE  o \in Activations(db, now)
<1>1. r.kind \in Kinds
  BY HandlerAssumption
<1>2. DOMAIN db.journal = {} /\ IsDb(db)
  BY DEF Sound
<1>3. db' # db
  OBVIOUS
<1>4. CASE r.kind = "create"
  <2>1. o = CreateOperation(db, r)
    BY <1>4 DEF Outcomes
  <2>2. o # Refused(db)
    BY <1>3 DEF Refused, Outcome
  <2>3. Journals(db) \/ ~HasSnapshot(db)
    BY <2>1, <2>2, CreateAccepts
  <2> QED BY <1>2, <2>3 DEF Journals
<1>5. CASE r.kind = "cancel"
  <2>1. o = CancelOperation(db, r)
    BY <1>5 DEF Outcomes
  <2>2. r.target \in ActiveIds(db.journal)
    BY <1>3, <2>1, CancelCases DEF Refused, Outcome
  <2> QED BY <1>2, <2>2 DEF ActiveIds
<1>6. CASE r.kind = "activate"
  BY <1>6 DEF Outcomes
<1>7. ASSUME NEW totals, o = EditDraft(db, totals) PROVE FALSE
  <2>1. db' = [db EXCEPT !.totals = totals]
    BY <1>7 DEF EditDraft, Outcome
  <2> QED BY <1>2, <2>1 DEF IsDb
<1>8. CASE r.kind \in {"cash", "position", "clear"}
  BY <1>7, <1>8 DEF Outcomes
<1>9. CASE r.kind = "broker"
  <2>1. db' = [db EXCEPT !.broker = r.broker]
    BY <1>9 DEF Outcomes, Outcome
  <2> QED BY <1>2, <2>1 DEF IsDb
<1>10. CASE r.kind \in {"reset", "delete"}
  <2>1. db' = Wiped(db, "DRAFT") \/ db' = Wiped(db, "ABSENT")
    BY <1>10 DEF Outcomes, Outcome
  <2> QED BY <1>2, <2>1 DEF Wiped, IsDb
<1> QED BY <1>1, <1>4, <1>5, <1>6, <1>8, <1>9, <1>10 DEF Kinds

\* POST /activate keeps the cash and the positions the draft showed, whatever order the opening
\* rows are written in; no other request makes a draft with a snapshot active.
THEOREM ActivationKeeps == Spec => ActivationKeepsTheDraft
<1>1. Inv /\ Dated(db) /\ [Next]_vars => Preserves
  <2> SUFFICES ASSUME Inv, Dated(db), [Next]_vars,
                      db.status = "DRAFT", HasSnapshot(db), db'.status = "ACTIVE"
               PROVE  /\ db'.totals.cash = db.totals.cash
                      /\ db'.totals.positions = db.totals.positions
    BY DEF Preserves
  <2>1. db' # db
    OBVIOUS
  <2>2. PICK r \in Requests, now \in Times : \E o \in Outcomes(db, r, now) : db' = o.db
    BY <2>1, CommittedStep
  <2>3. PICK o \in Outcomes(db, r, now) : db' = o.db
    BY <2>2
  <2>4. Sound(db)
    BY DEF Inv
  <2>5. o \in Activations(db, now)
    BY <2>3, <2>4, OnlyActivationStarts
  <2> QED BY <2>3, <2>4, <2>5, ActivationPreserves
<1> QED BY DatedHolds, <1>1, PTL DEF Spec, ActivationKeepsTheDraft
=============================================================================
