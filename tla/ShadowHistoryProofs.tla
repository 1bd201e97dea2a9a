------------------------ MODULE ShadowHistoryProofs ------------------------
(***************************************************************************)
(* Theorems about what a ShadowPortfolio's ledger says of its past: cash   *)
(* and positions are what the fill rows give, peak and guard what the NAV  *)
(* rows give, sessions are committed whole and committed history only      *)
(* grows.                                                                  *)
(*                                                                         *)
(* None of this is inductive for the committed book alone.  HInv says it   *)
(* of all three books (TrueBook), that each keeps the history of the one   *)
(* it may be rolled back to (Kept), that only the session in hand has      *)
(* fills without a NAV row (SessionFills), and that a run goes through     *)
(* its sessions upwards from the watermark (Agenda).                       *)
(*                                                                         *)
(* Positions and past NAV rows follow from the fills only where there are  *)
(* no intraday fills; CandleInv is the invariant of that case.             *)
(***************************************************************************)
EXTENDS ShadowPortfolioProofs, FoldLemmas

TrueBook(b) ==
    /\ CashIsFills(b)
    /\ RiskIsReplay(b)
    /\ IntradayKnewNoOpen(b)
    /\ MarkedAfterActivation(b)
    /\ b.activated = 0 => Booked(b) = {}

Kept ==
    /\ Extends(durable, savepoint)
    /\ Extends(savepoint, book)

InSession == run.stage = "fill" /\ run.kind # "intraday"

SessionFills ==
    /\ CandleFillsMarked(savepoint)
    /\ CandleFillsMarked(durable)
    /\ \A k \in Filled(book) :
          book.fills[k].source = "CANDLE" =>
              \/ book.fills[k].day \in Booked(book)
              \/ InSession /\ book.fills[k].day = run.day

Agenda ==
    /\ run.kind \in {"advance", "catchup"} =>
          /\ book.activated # 0
          /\ \A d \in run.days : book.watermark < d /\ run.day < d
          /\ run.day # 0 => book.watermark < run.day
          /\ run.kind = "advance" /\ run.stage # "fill" => run.day = 0
    /\ InSession => book.activated < run.day

HInv ==
    /\ TrueBook(book) /\ TrueBook(savepoint) /\ TrueBook(durable)
    /\ Kept
    /\ SessionFills
    /\ Agenda

-----------------------------------------------------------------------------
(* Finite sets of orders.                                                  *)

\* Weeks and instruments are finite, so there are finitely many orders.
LEMMA OrderKeysFinite == \A K \in SUBSET OrderKeys : IsFiniteSet(K)
<1>1. IsFiniteSet(Days)
  BY FS_Interval, CalendarAssumption DEF Days
<1>2. WeekOf \in Surjection(Days, Weeks)
  BY CalendarAssumption DEF Surjection, Weeks
<1>3. IsFiniteSet(Weeks)
  BY <1>1, <1>2, FS_Surjection
<1>4. IsFiniteSet(OrderKeys)
  BY <1>3, CohortAssumption, FS_Product DEF OrderKeys
<1> QED BY <1>4, FS_Subset

\* What a fill moved is a natural number.
LEMMA FillAmounts ==
    ASSUME NEW b \in Book, NEW k \in Filled(b)
    PROVE  FillCost(b, k) \in Nat /\ FillProceeds(b, k) \in Nat /\ b.fills[k].day \in Days
<1>1. k \in OrderKeys /\ k[2] \in Instruments /\ b.fills[k] \in Fill
  BY DEF Filled, OrderKeys, Book
<1>2. b.fills[k].day \in Days
  BY <1>1, CalendarAssumption DEF Filled, Fill, Days
<1>3. b.fills[k].qty \in 0..MaxUnits
  BY <1>1, BoundsAssumption DEF Fill
<1> QED BY <1>1, <1>2, <1>3, PricesAreNat DEF FillCost, FillProceeds

-----------------------------------------------------------------------------
(* Cash.                                                                   *)

\* Cash after some orders depends on their fills and sides only.
LEMMA CashAgrees ==
    ASSUME NEW b, NEW c, NEW K \in SUBSET OrderKeys,
           \A k \in K : c.fills[k] = b.fills[k],
           \A k \in K \cap Filled(b) : c.orders[k].side = b.orders[k].side
    PROVE  CashAfter(c, K) = CashAfter(b, K)
<1>1. ASSUME NEW side PROVE K \cap Sides(c, side) = K \cap Sides(b, side)
  BY DEF Sides, Filled
<1>2. ASSUME NEW k \in K
      PROVE  FillCost(c, k) = FillCost(b, k) /\ FillProceeds(c, k) = FillProceeds(b, k)
  BY DEF FillCost, FillProceeds
<1>3. [k \in K \cap Sides(c, "BUY") |-> FillCost(c, k)]
        = [k \in K \cap Sides(b, "BUY") |-> FillCost(b, k)]
  BY <1>1, <1>2
<1>4. [k \in K \cap Sides(c, "SELL") |-> FillProceeds(c, k)]
        = [k \in K \cap Sides(b, "SELL") |-> FillProceeds(b, k)]
  BY <1>1, <1>2
<1> QED BY <1>3, <1>4, Zenon DEF CashAfter

\* One fill more moves cash by what it cost or brought.
LEMMA CashMoves ==
    ASSUME NEW b \in Book, NEW c \in Book, NEW K \in SUBSET OrderKeys,
           NEW k \in K, k \notin Filled(b), k \in Filled(c),
           \A j \in OrderKeys : j # k =>
               c.fills[j] = b.fills[j] /\ c.orders[j].side = b.orders[j].side
    PROVE  /\ CashAfter(b, K) \in Int
           /\ c.orders[k].side = "BUY" => CashAfter(c, K) = CashAfter(b, K) - FillCost(c, k)
           /\ c.orders[k].side = "SELL" => CashAfter(c, K) = CashAfter(b, K) + FillProceeds(c, k)
<1> DEFINE B(x) == K \cap Sides(x, "BUY")
           S(x) == K \cap Sides(x, "SELL")
           buys(x) == [j \in B(x) |-> FillCost(x, j)]
           sells(x) == [j \in S(x) |-> FillProceeds(x, j)]
<1>1. ASSUME NEW x \in Book
      PROVE  /\ IsFiniteSet(B(x)) /\ IsFiniteSet(S(x))
             /\ \A j \in B(x) : FillCost(x, j) \in Int
             /\ \A j \in S(x) : FillProceeds(x, j) \in Int
  <2>1. B(x) \in SUBSET OrderKeys /\ S(x) \in SUBSET OrderKeys
    OBVIOUS
  <2>2. B(x) \subseteq Filled(x) /\ S(x) \subseteq Filled(x)
    BY DEF Sides
  <2> QED BY <2>1, <2>2, OrderKeysFinite, FillAmounts
<1>2. k \notin B(b) /\ k \notin S(b)
  BY DEF Sides
<1>3. ASSUME NEW j \in K, j # k
      PROVE  /\ j \in B(c) <=> j \in B(b)
             /\ j \in S(c) <=> j \in S(b)
             /\ FillCost(c, j) = FillCost(b, j)
             /\ FillProceeds(c, j) = FillProceeds(b, j)
  BY <1>3 DEF Sides, Filled, FillCost, FillProceeds
<1>4. CashAfter(b, K) = InitialCapital - SumFunction(buys(b)) + SumFunction(sells(b))
  BY DEF CashAfter
<1>5. CashAfter(c, K) = InitialCapital - SumFunction(buys(c)) + SumFunction(sells(c))
  BY DEF CashAfter
<1>6. SumFunction(buys(b)) \in Int /\ SumFunction(sells(b)) \in Int
  BY <1>1, SumIsInt DEF SumFunction
<1>7. InitialCapital \in Int
  BY BoundsAssumption
<1>8. CASE c.orders[k].side = "BUY"
  <2>1. B(c) = B(b) \cup {k} /\ S(c) = S(b)
    BY <1>3, <1>8 DEF Sides
  <2>2. sells(c) = sells(b)
    BY <1>2, <1>3, <2>1
  <2>3. SumFunction(buys(c)) = buys(c)[k] + SumFunction(buys(b))
    <3>1. DOMAIN buys(c) = B(c) /\ DOMAIN buys(b) = B(b)
      OBVIOUS
    <3>2. \A y \in B(c) : buys(c)[y] \in Int BY <1>1
    <3>3. \A y \in B(b) : buys(c)[y] = buys(b)[y] BY <1>2, <1>3, <2>1
    <3>4. IsFiniteSet(B(b)) BY <1>1
    <3> HIDE DEF buys, B
    <3> QED BY <1>2, <2>1, <3>1, <3>2, <3>3, <3>4, SumFunctionInsert
  <2>4. buys(c)[k] = FillCost(c, k) /\ FillCost(c, k) \in Int
    BY <1>1, <2>1
  <2> HIDE DEF buys, sells
  <2> QED BY <1>4, <1>5, <1>6, <1>7, <1>8, <2>2, <2>3, <2>4
<1>9. CASE c.orders[k].side = "SELL"
  <2>1. S(c) = S(b) \cup {k} /\ B(c) = B(b)
    BY <1>3, <1>9 DEF Sides
  <2>2. buys(c) = buys(b)
    BY <1>2, <1>3, <2>1
  <2>3. SumFunction(sells(c)) = sells(c)[k] + SumFunction(sells(b))
    <3>1. DOMAIN sells(c) = S(c) /\ DOMAIN sells(b) = S(b)
      OBVIOUS
    <3>2. \A y \in S(c) : sells(c)[y] \in Int BY <1>1
    <3>3. \A y \in S(b) : sells(c)[y] = sells(b)[y] BY <1>2, <1>3, <2>1
    <3>4. IsFiniteSet(S(b)) BY <1>1
    <3> HIDE DEF sells, S
    <3> QED BY <1>2, <2>1, <3>1, <3>2, <3>3, <3>4, SumFunctionInsert
  <2>4. sells(c)[k] = FillProceeds(c, k) /\ FillProceeds(c, k) \in Int
    BY <1>1, <2>1
  <2> HIDE DEF buys, sells
  <2> QED BY <1>4, <1>5, <1>6, <1>7, <1>9, <2>2, <2>3, <2>4
<1> HIDE DEF buys, sells
<1> QED BY <1>4, <1>6, <1>7, <1>8, <1>9

-----------------------------------------------------------------------------
(* Peak and guard.                                                         *)

Mode == {"normal", "risk_off"}

\* The guard is on or off.
LEMMA GuardModeType ==
    ASSUME NEW mode \in Mode, NEW total, NEW peak PROVE GuardMode(mode, total, peak) \in Mode
BY DEF GuardMode, Mode

\* A NAV row's total is a natural number.
LEMMA NavTotals ==
    ASSUME NEW b \in Book PROVE \A d \in Days : NavTotal(b, d) \in Nat /\ b.nav[d] \in NavRow
BY DEF NavTotal, Book, NavRow

\* The peak up to a day is the largest of the initial capital and the totals up to it.
LEMMA PeakFacts ==
    ASSUME NEW b \in Book, NEW d
    PROVE  /\ PeakUpTo(b, d) \in Nat
           /\ PeakUpTo(b, d) >= InitialCapital
           /\ \A e \in Booked(b) : e <= d => PeakUpTo(b, d) >= NavTotal(b, e)
           /\ \/ PeakUpTo(b, d) = InitialCapital
              \/ \E e \in Booked(b) : e <= d /\ PeakUpTo(b, d) = NavTotal(b, e)
<1> DEFINE D == {e \in Booked(b) : e <= d}
           T == {NavTotal(b, e) : e \in D}
           S == {InitialCapital} \cup T
           f == [e \in D |-> NavTotal(b, e)]
<1>1. D \in SUBSET Days
  BY DEF Booked
<1>2. IsFiniteSet(D)
  <2>1. IsFiniteSet(Days) BY FS_Interval, CalendarAssumption DEF Days
  <2> QED BY <1>1, <2>1, FS_Subset
<1>3. f \in Surjection(D, T)
  BY DEF Surjection
<1>4. IsFiniteSet(T)
  <2> HIDE DEF f, T, D
  <2> QED BY <1>2, <1>3, FS_Surjection
<1>5. S = T \cup {InitialCapital}
  OBVIOUS
<1>6. IsFiniteSet(S)
  <2> HIDE DEF S, T
  <2> QED BY <1>4, <1>5, FS_AddElement
<1>7. \A x \in S : x \in Nat
  BY <1>1, NavTotals, BoundsAssumption
<1>8. S \in SUBSET Int /\ S # {}
  BY <1>7
<1>9. Max(S) \in S /\ \A x \in S : Max(S) >= x
  <2> HIDE DEF S
  <2> QED BY <1>6, <1>8, MaxExists
<1>10. PeakUpTo(b, d) = Max(S)
  BY DEF PeakUpTo
<1> HIDE DEF f
<1> QED BY <1>7, <1>9, <1>10

\* Conversely, such a value is the peak.
LEMMA PeakIs ==
    ASSUME NEW b \in Book, NEW d, NEW m \in Int,
           m >= InitialCapital,
           \A e \in Booked(b) : e <= d => m >= NavTotal(b, e),
           m = InitialCapital \/ \E e \in Booked(b) : e <= d /\ m = NavTotal(b, e)
    PROVE  PeakUpTo(b, d) = m
<1> DEFINE S == {InitialCapital} \cup {NavTotal(b, e) : e \in {f \in Booked(b) : f <= d}}
<1>1. S \in SUBSET Int
  BY NavTotals, BoundsAssumption DEF Booked
<1>2. m \in S /\ \A x \in S : m >= x
  OBVIOUS
<1>3. Max(S) = m
  <2> HIDE DEF S
  <2> QED BY <1>1, <1>2, MaxIs
<1> QED BY <1>3 DEF PeakUpTo

\* The replay goes from day to day.
LEMMA ReplayGoes ==
    ASSUME NEW b
    PROVE  /\ ReplayedModes(b)[0] = "normal"
           /\ \A d \in Days :
                 ReplayedModes(b)[d] =
                     IF d \in Booked(b)
                     THEN GuardMode(ReplayedModes(b)[d - 1], NavTotal(b, d), PeakUpTo(b, d))
                     ELSE ReplayedModes(b)[d - 1]
           /\ \A d \in 0..LastDay : ReplayedModes(b)[d] \in Mode
<1> DEFINE After(d, v) ==
               IF d \in Booked(b) THEN GuardMode(v, NavTotal(b, d), PeakUpTo(b, d)) ELSE v
           Body(h, d) == IF d = 0 THEN "normal" ELSE After(d, h[d - 1])
           Solves(h) == h = [d \in 0..LastDay |-> Body(h, d)]
           step == [d \in 1..LastDay |-> [v \in Mode |-> After(d, v)]]
<1>l. LastDay \in Nat /\ Days = 1..LastDay
  BY CalendarAssumption DEF Days
<1>1. ASSUME NEW d, NEW v \in Mode PROVE After(d, v) \in Mode
  BY GuardModeType
<1>2. step \in [1..LastDay -> [Mode -> Mode]]
  <2> HIDE DEF After
  <2> QED BY <1>1
<1>3. "normal" \in Mode BY DEF Mode
<1>4. PICK h \in [0..LastDay -> Mode] : Stepwise(LastDay, "normal", step, h)
  <2> HIDE DEF step
  <2> QED BY <1>l, <1>2, <1>3, StepwiseFunction
<1>5. Solves(h)
  <2>1. ASSUME NEW d \in 0..LastDay PROVE h[d] = Body(h, d)
    <3>1. CASE d = 0 BY <1>4, <3>1 DEF Stepwise
    <3>2. CASE d # 0
      <4>1. d \in 1..LastDay /\ d - 1 \in 0..LastDay BY <1>l, <3>2
      <4>2. h[d] = step[d][h[d - 1]] /\ h[d - 1] \in Mode BY <1>4, <3>2, <4>1 DEF Stepwise
      <4> HIDE DEF After
      <4> QED BY <3>2, <4>1, <4>2
    <3> QED BY <3>1, <3>2
  <2>2. h = [d \in 0..LastDay |-> h[d]]
    OBVIOUS
  <2> HIDE DEF Body
  <2> QED BY <2>1, <2>2
<1>6. ReplayedModes(b) = CHOOSE g : Solves(g)
  BY DEF ReplayedModes
<1>7. Solves(ReplayedModes(b))
  <2> HIDE DEF Solves
  <2> QED BY <1>5, <1>6
<1> DEFINE r == ReplayedModes(b)
<1>8. r[0] = "normal"
  BY <1>l, <1>7
<1>9. ASSUME NEW d \in Days PROVE r[d] = After(d, r[d - 1])
  <2>1. d \in 0..LastDay /\ d # 0 BY <1>l
  <2> QED BY <1>7, <2>1
<1>10. \A d \in 0..LastDay : r[d] \in Mode
  <2> DEFINE N == {d \in 0..LastDay : r[d] \in Mode}
  <2>1. 0 \in N BY <1>l, <1>3, <1>8
  <2>2. ASSUME NEW m \in N, m < LastDay PROVE m + 1 \in N
    <3>1. m + 1 \in 0..LastDay /\ m + 1 \in Days /\ (m + 1) - 1 = m BY <1>l, <2>2
    <3>2. r[m + 1] = After(m + 1, r[m]) BY <1>9, <3>1
    <3>3. r[m] \in Mode
      OBVIOUS
    <3> QED BY <1>1, <3>1, <3>2, <3>3
  <2>3. N = 0..LastDay
    <3> HIDE DEF N
    <3>1. N \in SUBSET (0..LastDay) BY DEF N
    <3> QED BY <1>l, <2>1, <2>2, <3>1, IntervalInduction
  <2> QED BY <2>3
<1> QED BY <1>8, <1>9, <1>10

\* Peak and guard up to a day depend on the NAV rows up to that day.
LEMMA HistoryAgrees ==
    ASSUME NEW b, NEW c, NEW D \in 0..LastDay, \A d \in Days : d <= D => c.nav[d] = b.nav[d]
    PROVE  \A d \in 0..D : /\ ReplayedModes(c)[d] = ReplayedModes(b)[d]
                           /\ PeakUpTo(c, d) = PeakUpTo(b, d)
<1>l. LastDay \in Nat /\ Days = 1..LastDay /\ D \in Nat /\ D <= LastDay
  BY CalendarAssumption DEF Days
<1>1. ASSUME NEW d \in Days, d <= D
      PROVE  (d \in Booked(c) <=> d \in Booked(b)) /\ NavTotal(c, d) = NavTotal(b, d)
  BY <1>1 DEF Booked, NavTotal
<1>2. ASSUME NEW d \in 0..D PROVE PeakUpTo(c, d) = PeakUpTo(b, d)
  <2> DEFINE E(x) == {e \in Booked(x) : e <= d}
             T(x) == {NavTotal(x, e) : e \in E(x)}
  <2>1. ASSUME NEW e \in Days, e <= d PROVE e <= D
    BY <1>l, <2>1
  <2>2. E(c) = E(b)
    BY <1>1, <2>1 DEF Booked
  <2>3. \A e \in E(b) : NavTotal(c, e) = NavTotal(b, e)
    BY <1>1, <2>1 DEF Booked
  <2>4. T(c) = T(b)
    <3> HIDE DEF E
    <3> QED BY <2>2, <2>3
  <2>5. PeakUpTo(c, d) = Max({InitialCapital} \cup T(c)) /\ PeakUpTo(b, d) = Max({InitialCapital} \cup T(b))
    BY DEF PeakUpTo
  <2> HIDE DEF T
  <2> QED BY <2>4, <2>5
<1> DEFINE N == {d \in 0..D : ReplayedModes(c)[d] = ReplayedModes(b)[d]}
<1>3. 0 \in N
  BY <1>l, ReplayGoes
<1>4. ASSUME NEW m \in N, m < D PROVE m + 1 \in N
  <2>1. m + 1 \in 0..D /\ m + 1 \in Days /\ m + 1 <= D /\ (m + 1) - 1 = m
    BY <1>l, <1>4
  <2>2. ReplayedModes(c)[m] = ReplayedModes(b)[m]
    OBVIOUS
  <2>3. PeakUpTo(c, m + 1) = PeakUpTo(b, m + 1) BY <1>2, <2>1
  <2>4. /\ m + 1 \in Booked(c) <=> m + 1 \in Booked(b)
        /\ NavTotal(c, m + 1) = NavTotal(b, m + 1)
    BY <1>1, <2>1
  <2>5. \A x \in {b, c} : ReplayedModes(x)[m + 1] =
            IF m + 1 \in Booked(x)
            THEN GuardMode(ReplayedModes(x)[m], NavTotal(x, m + 1), PeakUpTo(x, m + 1))
            ELSE ReplayedModes(x)[m]
    BY <2>1, ReplayGoes
  <2> QED BY <2>1, <2>2, <2>3, <2>4, <2>5
<1>5. N = 0..D
  <2>1. N \in SUBSET (0..D)
    OBVIOUS
  <2> HIDE DEF N
  <2> QED BY <1>l, <1>3, <1>4, <2>1, IntervalInduction
<1> QED BY <1>2, <1>5

\* Days without a NAV row change neither.
LEMMA HistoryRests ==
    ASSUME NEW b, NEW D \in 0..LastDay, \A d \in Booked(b) : d <= D
    PROVE  /\ ReplayedModes(b)[LastDay] = ReplayedModes(b)[D]
           /\ PeakUpTo(b, LastDay) = PeakUpTo(b, D)
<1>l. LastDay \in Nat /\ Days = 1..LastDay /\ D \in Nat /\ D <= LastDay
  BY CalendarAssumption DEF Days
<1> DEFINE n == LastDay - D
           N == {m \in 0..n : ReplayedModes(b)[D + m] = ReplayedModes(b)[D]}
<1>1. 0 \in N /\ n \in Nat
  BY <1>l
<1>2. ASSUME NEW m \in N, m < n PROVE m + 1 \in N
  <2>1. /\ m + 1 \in 0..n /\ D + (m + 1) \in Days /\ (D + (m + 1)) - 1 = D + m
        /\ ~(D + (m + 1) <= D)
    BY <1>l, <1>2
  <2>2. D + (m + 1) \notin Booked(b) BY <2>1
  <2>3. ReplayedModes(b)[D + (m + 1)] = ReplayedModes(b)[D + m]
    BY <2>1, <2>2, ReplayGoes
  <2> QED BY <2>1, <2>3
<1>3. N = 0..n
  <2>1. N \in SUBSET (0..n)
    OBVIOUS
  <2> HIDE DEF N
  <2> QED BY <1>1, <1>2, <2>1, IntervalInduction
<1>4. n \in 0..n /\ D + n = LastDay
  BY <1>l
<1>5. n \in N
  BY <1>3, <1>4
<1>6. {e \in Booked(b) : e <= LastDay} = {e \in Booked(b) : e <= D}
  BY <1>l DEF Booked
<1> QED BY <1>4, <1>5, <1>6 DEF PeakUpTo

\* The NAV row of a new latest day carries peak and guard on.
LEMMA RiskMarked ==
    ASSUME NEW b \in Book, NEW d \in Days, Marked(b, d) \in Book,
           RiskIsReplay(b), \A e \in Booked(b) : e < d
    PROVE  RiskIsReplay(Marked(b, d))
<1> DEFINE c == Marked(b, d)
           total == b.cash + MarketValue[d][b.units]
           peak == IF b.peak > total THEN b.peak ELSE total
<1>l. LastDay \in Nat /\ Days = 1..LastDay /\ d \in Nat /\ d - 1 \in 0..LastDay
  BY CalendarAssumption DEF Days
<1>1. d \notin Booked(b)
  BY <1>l
<1>2. /\ c.nav = [b.nav EXCEPT ![d] = [booked |-> TRUE, cash |-> b.cash,
                                       value |-> MarketValue[d][b.units]]]
      /\ c.peak = peak
      /\ c.riskMode = IF GuardOn THEN GuardMode(b.riskMode, total, peak) ELSE b.riskMode
  BY <1>1 DEF Marked, Book, Booked
<1>3. /\ NavTotal(c, d) = total /\ c.nav[d].booked
      /\ \A e \in Days : e # d => c.nav[e] = b.nav[e]
  BY <1>2 DEF NavTotal, Book
<1>4. Booked(c) = Booked(b) \cup {d}
  BY <1>3 DEF Booked
<1>5. \A e \in Booked(b) : e \in Nat /\ e <= d - 1 /\ NavTotal(c, e) = NavTotal(b, e)
  BY <1>l, <1>3 DEF Booked, NavTotal
<1>6. /\ ReplayedModes(b)[LastDay] = ReplayedModes(b)[d - 1]
      /\ PeakUpTo(b, LastDay) = PeakUpTo(b, d - 1)
  BY <1>l, <1>5, HistoryRests
<1>7. /\ ReplayedModes(c)[d - 1] = ReplayedModes(b)[d - 1]
  <2>1. \A e \in Days : e <= d - 1 => c.nav[e] = b.nav[e]
    BY <1>l, <1>3
  <2>2. d - 1 \in 0..(d - 1)
    BY <1>l
  <2> HIDE DEF c
  <2> QED BY <1>l, <2>1, <2>2, HistoryAgrees
<1>8. \A e \in Booked(c) : e <= d /\ e <= LastDay
  BY <1>l, <1>4, <1>5 DEF Booked
<1>9. /\ ReplayedModes(c)[LastDay] = ReplayedModes(c)[d]
      /\ PeakUpTo(c, LastDay) = PeakUpTo(c, d)
  <2>1. d \in 0..LastDay
    BY <1>l
  <2> HIDE DEF c
  <2> QED BY <1>8, <2>1, HistoryRests
<1>10. total \in Nat /\ b.peak \in Nat /\ InitialCapital \in Nat
  <2>1. NavTotal(c, d) \in Nat
    BY NavTotals
  <2> QED BY <1>3, <2>1, BoundsAssumption DEF Book
<1>11. /\ b.peak >= InitialCapital
       /\ \A e \in Booked(b) : b.peak >= NavTotal(b, e)
       /\ b.peak = InitialCapital \/ \E e \in Booked(b) : b.peak = NavTotal(b, e)
  <2>1. b.peak = PeakUpTo(b, LastDay)
    BY DEF RiskIsReplay
  <2>2. \A e \in Booked(b) : e <= LastDay
    BY <1>l DEF Booked
  <2> QED BY <2>1, <2>2, PeakFacts
<1>12. PeakUpTo(c, d) = peak
  <2>1. peak \in Int /\ peak >= InitialCapital
    BY <1>10, <1>11
  <2>2. \A e \in Booked(c) : e <= d => peak >= NavTotal(c, e)
    <3> SUFFICES ASSUME NEW e \in Booked(c) PROVE peak >= NavTotal(c, e)
      OBVIOUS
    <3>1. CASE e = d BY <1>3, <1>10, <3>1
    <3>2. CASE e # d
      <4>1. e \in Booked(b) /\ NavTotal(c, e) = NavTotal(b, e) BY <1>4, <1>5, <3>2
      <4>2. b.peak >= NavTotal(b, e) /\ NavTotal(b, e) \in Nat BY <1>11, <4>1, NavTotals DEF Booked
      <4> HIDE DEF c
      <4> QED BY <1>10, <4>1, <4>2
    <3> QED BY <3>1, <3>2
  <2>3. peak = InitialCapital \/ \E e \in Booked(c) : e <= d /\ peak = NavTotal(c, e)
    <3>1. CASE b.peak > total
      <4>1. peak = b.peak
        BY <3>1
      <4> HIDE DEF c, peak
      <4> QED BY <1>4, <1>5, <1>8, <1>11, <4>1
    <3>2. CASE ~(b.peak > total)
      <4>1. peak = total
        BY <3>2
      <4>2. d \in Booked(c)
        BY <1>4
      <4> HIDE DEF c, peak
      <4> QED BY <1>3, <1>8, <4>1, <4>2
    <3> QED BY <3>1, <3>2
  <2>4. c \in Book
    OBVIOUS
  <2> HIDE DEF c, peak
  <2> QED BY <2>1, <2>2, <2>3, <2>4, PeakIs
<1>13. ReplayedModes(c)[d] = GuardMode(ReplayedModes(b)[LastDay], total, peak)
  <2>1. d \in Booked(c)
    BY <1>4
  <2> HIDE DEF c, peak, total
  <2> QED BY <1>3, <1>6, <1>7, <1>12, <2>1, ReplayGoes
<1> HIDE DEF peak, total
<1> QED BY <1>2, <1>9, <1>12, <1>13 DEF RiskIsReplay

-----------------------------------------------------------------------------
(* What the operators of ShadowBook keep.                                  *)

\* A filled order is FILLED.
LEMMA FilledOrders ==
    ASSUME NEW published, NEW b, SoundBook(b, published), NEW k \in Filled(b)
    PROVE  k \in OrderKeys /\ b.orders[k].status = "FILLED" /\ b.fills[k] # NoFill
BY DEF Filled, SoundBook, Linked, NoFill

\* Every book keeps its own history.
LEMMA ExtendsItself ==
    ASSUME NEW b \in Book PROVE Extends(b, b)
<1>1. b.watermark \in Int /\ b.peak \in Int
  BY CalendarAssumption DEF Book
<1> QED BY <1>1 DEF Extends

\* History is kept along several steps.
LEMMA ExtendsFurther ==
    ASSUME NEW a \in Book, NEW b \in Book, NEW c \in Book, Extends(a, b), Extends(b, c)
    PROVE  Extends(a, c)
<1>1. \A x \in {a, b, c} : x.watermark \in Int /\ x.peak \in Int
  BY CalendarAssumption DEF Book
<1>2. c.watermark >= a.watermark /\ c.peak >= a.peak
  BY <1>1 DEF Extends
<1>3. ASSUME NEW k \in OrderKeys
      PROVE  /\ a.fills[k] # NoFill => c.fills[k] = a.fills[k]
             /\ a.orders[k].status \in {"FILLED", "CANCELLED"} => c.orders[k] = a.orders[k]
  BY DEF Extends
<1>4. ASSUME NEW d \in Booked(a) PROVE c.nav[d] = a.nav[d]
  BY DEF Extends, Booked
<1>5. ASSUME NEW w \in Weeks, Decided(a, w) PROVE c.decisions[w] = a.decisions[w]
  BY <1>5 DEF Extends, Decided
<1> QED BY <1>2, <1>3, <1>4, <1>5 DEF Extends

\* Book c differs from b in open orders, new decisions, pointers and status only.
Quiet(b, c) ==
    /\ c.cash = b.cash
    /\ c.fills = b.fills
    /\ c.nav = b.nav
    /\ c.peak = b.peak
    /\ c.riskMode = b.riskMode
    /\ c.watermark >= b.watermark
    /\ c.activated = b.activated \/ b.activated = 0
    /\ \A k \in OrderKeys :
          b.orders[k].status \in {"FILLED", "CANCELLED"} => c.orders[k] = b.orders[k]
    /\ \A w \in Weeks : Decided(b, w) => c.decisions[w] = b.decisions[w]

\* Such a step keeps the book true and its history.
LEMMA QuietKeeps ==
    ASSUME NEW published, NEW b, SoundBook(b, published), NEW c \in Book, Quiet(b, c), TrueBook(b)
    PROVE  /\ TrueBook(c)
           /\ Extends(b, c)
           /\ Filled(c) = Filled(b) /\ Booked(c) = Booked(b)
           /\ CandleFillsMarked(b) => CandleFillsMarked(c)
<1>b. b \in Book
  BY DEF SoundBook
<1>1. Filled(c) = Filled(b) /\ Booked(c) = Booked(b)
  BY DEF Quiet, Filled, Booked
<1>2. ASSUME NEW k \in Filled(b)
      PROVE  c.orders[k] = b.orders[k] /\ c.fills[k] = b.fills[k]
  BY FilledOrders DEF Quiet
<1>3. CashIsFills(c)
  <2>1. \A k \in OrderKeys : c.fills[k] = b.fills[k]
    BY DEF Quiet
  <2>2. \A k \in OrderKeys \cap Filled(b) : c.orders[k].side = b.orders[k].side
    BY <1>2
  <2>3. OrderKeys \in SUBSET OrderKeys
    OBVIOUS
  <2>4. CashAfter(c, OrderKeys) = CashAfter(b, OrderKeys)
    BY <2>1, <2>2, <2>3, CashAgrees
  <2>5. b.cash = CashAfter(b, OrderKeys) /\ c.cash = b.cash
    BY DEF TrueBook, CashIsFills, Quiet
  <2> QED BY <2>4, <2>5 DEF CashIsFills
<1>4. RiskIsReplay(c)
  <2>1. /\ ReplayedModes(c)[LastDay] = ReplayedModes(b)[LastDay]
        /\ PeakUpTo(c, LastDay) = PeakUpTo(b, LastDay)
    <3>1. \A d \in Days : d <= LastDay => c.nav[d] = b.nav[d]
      BY DEF Quiet
    <3>2. LastDay \in 0..LastDay
      BY CalendarAssumption
    <3> QED BY <3>1, <3>2, HistoryAgrees
  <2> QED BY <2>1 DEF TrueBook, RiskIsReplay, Quiet
<1>5. IntradayKnewNoOpen(c)
  BY <1>1, <1>2 DEF TrueBook, IntradayKnewNoOpen
<1>6. MarkedAfterActivation(c) /\ (c.activated = 0 => Booked(c) = {})
  <2>1. b.watermark \in Int /\ c.watermark \in Int
    BY <1>b, CalendarAssumption DEF Book
  <2>2. Booked(b) \subseteq Int
    BY DEF Booked, Days
  <2> QED BY <1>1, <2>1, <2>2 DEF TrueBook, MarkedAfterActivation, Quiet
<1>7. Extends(b, c)
  <2>1. c.peak >= b.peak
    BY <1>b DEF Quiet, Book
  <2> QED BY <2>1 DEF Extends, Quiet
<1> QED BY <1>1, <1>2, <1>3, <1>4, <1>5, <1>6, <1>7 DEF TrueBook, CandleFillsMarked

\* Status, last week, activation date, later watermarks and the day's splits are quiet.
LEMMA PointersQuiet ==
    ASSUME NEW b \in Book
    PROVE  /\ Quiet(b, b)
           /\ \A d \in Days : b.watermark <= d => Quiet(b, SkippedDay(b, d))
           /\ \A w : Quiet(b, [b EXCEPT !.lastWeek = w])
           /\ \A s : Quiet(b, [b EXCEPT !.status = s])
           /\ \A s, t : b.activated = 0 => Quiet(b, [b EXCEPT !.activated = t, !.status = s])
           /\ \A d : Quiet(b, CorporateActions(b, d))
<1>1. b.watermark \in Int /\ b.watermark >= b.watermark
  BY CalendarAssumption DEF Book
<1>2. Quiet(b, b)
  BY <1>1 DEF Quiet
<1>3. ASSUME NEW d \in Days, b.watermark <= d PROVE Quiet(b, SkippedDay(b, d))
  <2>1. SkippedDay(b, d).watermark >= b.watermark
    BY <1>1, <1>3 DEF SkippedDay, Book, Days
  <2> QED BY <2>1 DEF Quiet, SkippedDay, Book
<1>4. ASSUME NEW w PROVE Quiet(b, [b EXCEPT !.lastWeek = w])
  BY <1>1 DEF Quiet, Book
<1>5. ASSUME NEW s PROVE Quiet(b, [b EXCEPT !.status = s])
  BY <1>1 DEF Quiet, Book
<1>6. ASSUME NEW s, NEW t, b.activated = 0
      PROVE  Quiet(b, [b EXCEPT !.activated = t, !.status = s])
  BY <1>1, <1>6 DEF Quiet, Book
<1>7. ASSUME NEW d PROVE Quiet(b, CorporateActions(b, d))
  BY <1>1 DEF Quiet, CorporateActions, Book
<1> QED BY <1>2, <1>3, <1>4, <1>5, <1>6, <1>7

\* Quiet steps add up.
LEMMA QuietFurther ==
    ASSUME NEW a \in Book, NEW b \in Book, NEW c \in Book, Quiet(a, b), Quiet(b, c)
    PROVE  Quiet(a, c)
<1>1. \A x \in {a, b, c} : x.watermark \in Int
  BY CalendarAssumption DEF Book
<1>2. c.watermark >= a.watermark
  BY <1>1 DEF Quiet
<1>3. ASSUME NEW w \in Weeks, Decided(a, w) PROVE c.decisions[w] = a.decisions[w]
  BY <1>3 DEF Quiet, Decided
<1>4. ASSUME NEW k \in OrderKeys, a.orders[k].status \in {"FILLED", "CANCELLED"}
      PROVE  c.orders[k] = a.orders[k]
  BY <1>4 DEF Quiet
<1> QED BY <1>2, <1>3, <1>4 DEF Quiet

\* The three ways a run sets the status.
LEMMA StatusQuiet ==
    ASSUME NEW b \in Book
    PROVE  Quiet(b, Refreshed(b)) /\ Quiet(b, FirstStatus(b)) /\ \A k : Quiet(b, AfterIntradayFill(b, k))
<1>1. Quiet(b, Refreshed(b))
  <2>1. PICK s : Refreshed(b) = [b EXCEPT !.status = s]
    BY DEF Refreshed
  <2> QED BY <2>1, PointersQuiet
<1>2. Quiet(b, FirstStatus(b))
  <2>1. PICK s : FirstStatus(b) = [b EXCEPT !.status = s]
    BY DEF FirstStatus
  <2> QED BY <2>1, PointersQuiet
<1>3. ASSUME NEW k PROVE Quiet(b, AfterIntradayFill(b, k))
  <2>1. PICK s : AfterIntradayFill(b, k) = [b EXCEPT !.status = s]
    BY DEF AfterIntradayFill
  <2> QED BY <2>1, PointersQuiet
<1> QED BY <1>1, <1>2, <1>3

\* A decision for a week that has none closes no order and reopens none.
LEMMA DecideQuiet ==
    ASSUME NEW published, NEW b, SoundBook(b, published), NEW asOf \in Days, NEW at, NEW stamp,
           NEW plan, ~Decided(b, WeekOf[asOf])
    PROVE  Quiet(b, Decide(b, asOf, at, stamp, plan))
<1> DEFINE w == WeekOf[asOf]
           c == Decide(b, asOf, at, stamp, plan)
<1>b. b \in Book /\ b.watermark >= b.watermark
  BY PointersQuiet DEF SoundBook, Quiet
<1>1. /\ c.decisions = [b.decisions EXCEPT ![w] = [asOf |-> asOf, at |-> at]]
      /\ c.orders = [k \in OrderKeys |->
            IF k[1] # w THEN Superseded(b.orders[k])
            ELSE IF plan[k[2]] # 0 THEN PlannedOrder(plan[k[2]], at, stamp)
            ELSE b.orders[k]]
      /\ c.cash = b.cash /\ c.fills = b.fills /\ c.nav = b.nav /\ c.peak = b.peak
      /\ c.riskMode = b.riskMode /\ c.watermark = b.watermark /\ c.activated = b.activated
  BY <1>b DEF Decide, Book
<1>2. ASSUME NEW v \in Weeks, Decided(b, v) PROVE c.decisions[v] = b.decisions[v]
  BY <1>1, <1>2, <1>b DEF Book
<1>3. ASSUME NEW k \in OrderKeys, b.orders[k].status \in {"FILLED", "CANCELLED"}
      PROVE  c.orders[k] = b.orders[k]
  <2>1. Decided(b, k[1])
    BY <1>3 DEF SoundBook, Linked
  <2>2. k[1] # w
    BY <2>1
  <2> QED BY <1>1, <1>3, <2>2 DEF Superseded
<1>4. Quiet(b, c)
  <2> HIDE DEF c
  <2> QED BY <1>1, <1>2, <1>3, <1>b DEF Quiet
<1> QED BY <1>4

\* So does a SELL of nothing, which is cancelled.
LEMMA CancelledQuiet ==
    ASSUME NEW b \in Book, NEW k \in Pending(b) PROVE Quiet(b, Cancelled(b, k))
<1> DEFINE c == Cancelled(b, k)
<1>1. /\ c.orders = [b.orders EXCEPT ![k].status = "CANCELLED"]
      /\ c.decisions = b.decisions
      /\ c.cash = b.cash /\ c.fills = b.fills /\ c.nav = b.nav /\ c.peak = b.peak
      /\ c.riskMode = b.riskMode /\ c.watermark = b.watermark /\ c.activated = b.activated
  BY DEF Cancelled, Book
<1>2. b.watermark >= b.watermark
  BY PointersQuiet DEF Quiet
<1>3. ASSUME NEW j \in OrderKeys, b.orders[j].status \in {"FILLED", "CANCELLED"}
      PROVE  c.orders[j] = b.orders[j]
  BY <1>1, <1>3 DEF Pending, Book
<1>4. Quiet(b, c)
  <2> HIDE DEF c
  <2> QED BY <1>1, <1>2, <1>3 DEF Quiet
<1> QED BY <1>4

\* Book c is b after a fill of order k that moved cash by what it cost or brought.
FilledBy(b, c, k, fill) ==
    /\ c.orders = [b.orders EXCEPT ![k].status = "FILLED"]
    /\ c.fills = [b.fills EXCEPT ![k] = fill]
    /\ c.decisions = b.decisions
    /\ c.nav = b.nav
    /\ c.peak = b.peak
    /\ c.riskMode = b.riskMode
    /\ c.watermark = b.watermark
    /\ c.activated = b.activated
    /\ b.orders[k].side = "BUY" => c.cash = b.cash - FillCost(c, k)
    /\ b.orders[k].side = "SELL" => c.cash = b.cash + FillProceeds(c, k)

\* Book c has the true history of b and that fill.
FillKept(b, c, k, day, source) ==
    /\ TrueBook(c)
    /\ Extends(b, c)
    /\ Filled(c) = Filled(b) \cup {k} /\ k \notin Filled(b)
    /\ Booked(c) = Booked(b)
    /\ c.fills[k].day = day /\ c.fills[k].source = source
    /\ \A j \in Filled(b) : c.fills[j] = b.fills[j] /\ c.orders[j] = b.orders[j]
    /\ c.watermark = b.watermark /\ c.activated = b.activated

\* Such a fill of a PENDING order keeps the book true and its history.
LEMMA FillKeeps ==
    ASSUME NEW published, NEW b, SoundBook(b, published), NEW c \in Book, TrueBook(b),
           NEW k \in Pending(b), NEW fill \in Fill, fill.day \in Days, FilledBy(b, c, k, fill),
           fill.source = "INTRADAY" => b.orders[k].created < SessionOpen(fill.day)
    PROVE  FillKept(b, c, k, fill.day, fill.source)
<1>b. b \in Book
  BY DEF SoundBook
<1>k. k \in OrderKeys /\ b.orders[k].status = "PENDING" /\ b.orders[k] \in Order
  BY <1>b DEF Pending, Book
<1>f. b.fills[k] = NoFill /\ k \notin Filled(b)
  BY <1>k DEF SoundBook, Linked, Filled, NoFill
<1>1. /\ c.fills[k] = fill
      /\ c.orders[k].side = b.orders[k].side
      /\ c.orders[k].created = b.orders[k].created
      /\ \A j \in OrderKeys : j # k => c.fills[j] = b.fills[j] /\ c.orders[j] = b.orders[j]
  BY <1>b, <1>k DEF FilledBy, Book, Order
<1>2. Filled(c) = Filled(b) \cup {k}
  <2>1. fill.day # 0
    BY DEF Days
  <2> QED BY <1>1, <1>k, <2>1 DEF Filled
<1>3. Booked(c) = Booked(b)
  BY DEF FilledBy, Booked
<1>4. CashIsFills(c)
  <2>1. /\ CashAfter(b, OrderKeys) \in Int
        /\ c.orders[k].side = "BUY" => CashAfter(c, OrderKeys) = CashAfter(b, OrderKeys) - FillCost(c, k)
        /\ c.orders[k].side = "SELL" => CashAfter(c, OrderKeys) = CashAfter(b, OrderKeys) + FillProceeds(c, k)
    <3>1. \A j \in OrderKeys : j # k => c.fills[j] = b.fills[j] /\ c.orders[j].side = b.orders[j].side
      BY <1>1
    <3>2. k \in Filled(c)
      BY <1>2
    <3>3. OrderKeys \in SUBSET OrderKeys
      OBVIOUS
    <3> QED BY <1>b, <1>f, <1>k, <3>1, <3>2, <3>3, CashMoves
  <2>2. b.cash = CashAfter(b, OrderKeys)
    BY DEF TrueBook, CashIsFills
  <2>3. b.orders[k].side \in {"BUY", "SELL"}
    BY <1>k DEF Order
  <2> QED BY <1>1, <2>1, <2>2, <2>3 DEF CashIsFills, FilledBy
<1>5. RiskIsReplay(c)
  <2>1. /\ ReplayedModes(c)[LastDay] = ReplayedModes(b)[LastDay]
        /\ PeakUpTo(c, LastDay) = PeakUpTo(b, LastDay)
    <3>1. \A d \in Days : d <= LastDay => c.nav[d] = b.nav[d]
      BY DEF FilledBy
    <3>2. LastDay \in 0..LastDay
      BY CalendarAssumption
    <3> QED BY <3>1, <3>2, HistoryAgrees
  <2> QED BY <2>1 DEF TrueBook, RiskIsReplay, FilledBy
<1>6. IntradayKnewNoOpen(c)
  <2> SUFFICES ASSUME NEW j \in Filled(c), c.fills[j].source = "INTRADAY"
               PROVE  c.orders[j].created < SessionOpen(c.fills[j].day)
    BY DEF IntradayKnewNoOpen
  <2>1. CASE j = k BY <1>1, <2>1
  <2>2. CASE j # k
    <3>1. j \in Filled(b) /\ j \in OrderKeys BY <1>2, <2>2 DEF Filled
    <3> QED BY <1>1, <2>2, <3>1 DEF TrueBook, IntradayKnewNoOpen
  <2> QED BY <2>1, <2>2
<1>7. MarkedAfterActivation(c) /\ (c.activated = 0 => Booked(c) = {})
  BY <1>3 DEF TrueBook, MarkedAfterActivation, FilledBy
<1>8. Extends(b, c)
  <2>1. c.watermark >= b.watermark /\ c.peak >= b.peak
    BY ExtendsItself, <1>b DEF Extends, FilledBy
  <2>2. \A j \in OrderKeys :
           /\ b.fills[j] # NoFill => c.fills[j] = b.fills[j]
           /\ b.orders[j].status \in {"FILLED", "CANCELLED"} => c.orders[j] = b.orders[j]
    BY <1>1, <1>f, <1>k
  <2>3. c.nav = b.nav /\ c.decisions = b.decisions
    BY DEF FilledBy
  <2> QED BY <2>1, <2>2, <2>3 DEF Extends
<1>9. \A j \in Filled(b) : c.fills[j] = b.fills[j] /\ c.orders[j] = b.orders[j]
  BY <1>1, <1>f DEF Filled
<1> QED BY <1>1, <1>2, <1>3, <1>4, <1>5, <1>6, <1>7, <1>8, <1>9, <1>f
        DEF TrueBook, FillKept, FilledBy

\* A BUY.
LEMMA BoughtKeeps ==
    ASSUME NEW published, NEW b, SoundBook(b, published), TrueBook(b),
           NEW k \in Pending(b), NEW d \in Days, NEW source \in {"CANDLE", "INTRADAY"},
           SoundBook(Bought(b, k, d, source), published),
           b.orders[k].side = "BUY",
           source = "INTRADAY" => b.orders[k].created < SessionOpen(d)
    PROVE  FillKept(b, Bought(b, k, d, source), k, d, source)
<1> DEFINE c == Bought(b, k, d, source)
           q == b.orders[k].qty
           fill == [day |-> d, qty |-> q, source |-> source]
<1>b. b \in Book /\ c \in Book
  BY DEF SoundBook
<1>1. /\ c.orders = [b.orders EXCEPT ![k].status = "FILLED"]
      /\ c.fills = [b.fills EXCEPT ![k] = fill]
      /\ c.cash = b.cash - BuyCost[d][k[2]][q]
      /\ c.decisions = b.decisions /\ c.nav = b.nav /\ c.peak = b.peak
      /\ c.riskMode = b.riskMode /\ c.watermark = b.watermark /\ c.activated = b.activated
  BY <1>b DEF Bought, Book
<1>2. c.fills[k] = fill /\ fill \in Fill
  BY <1>1, <1>b DEF Pending, Book
<1>3. FillCost(c, k) = BuyCost[d][k[2]][q]
  BY <1>2 DEF FillCost
<1> HIDE DEF c
<1>4. FillKept(b, c, k, fill.day, fill.source)
  <2>1. fill.day \in Days /\ (fill.source = "INTRADAY" => b.orders[k].created < SessionOpen(fill.day))
    OBVIOUS
  <2>2. FilledBy(b, c, k, fill)
    BY <1>1, <1>3 DEF FilledBy
  <2> HIDE DEF fill
  <2> QED BY <1>b, <1>2, <2>1, <2>2, FillKeeps
<1> QED BY <1>4 DEF c

\* A SELL.
LEMMA SoldKeeps ==
    ASSUME NEW published, NEW b, SoundBook(b, published), TrueBook(b),
           NEW k \in Pending(b), NEW d \in Days, NEW source \in {"CANDLE", "INTRADAY"},
           SoundBook(Sold(b, k, d, source), published),
           b.orders[k].side = "SELL",
           source = "INTRADAY" => b.orders[k].created < SessionOpen(d)
    PROVE  FillKept(b, Sold(b, k, d, source), k, d, source)
<1> DEFINE c == Sold(b, k, d, source)
           q == SellUnits(b, k)
           fill == [day |-> d, qty |-> q, source |-> source]
<1>b. b \in Book /\ c \in Book
  BY DEF SoundBook
<1>1. /\ c.orders = [b.orders EXCEPT ![k].status = "FILLED"]
      /\ c.fills = [b.fills EXCEPT ![k] = fill]
      /\ c.cash = b.cash + SellProceeds[d][k[2]][q]
      /\ c.decisions = b.decisions /\ c.nav = b.nav /\ c.peak = b.peak
      /\ c.riskMode = b.riskMode /\ c.watermark = b.watermark /\ c.activated = b.activated
  BY <1>b DEF Sold, Book
<1>2. c.fills[k] = fill /\ fill \in Fill
  BY <1>1, <1>b DEF Pending, Book
<1>3. FillProceeds(c, k) = SellProceeds[d][k[2]][q]
  BY <1>2 DEF FillProceeds
<1> HIDE DEF c, q
<1>4. FillKept(b, c, k, fill.day, fill.source)
  <2>1. fill.day \in Days /\ (fill.source = "INTRADAY" => b.orders[k].created < SessionOpen(fill.day))
    OBVIOUS
  <2>2. FilledBy(b, c, k, fill)
    BY <1>1, <1>3 DEF FilledBy
  <2> HIDE DEF fill
  <2> QED BY <1>b, <1>2, <2>1, <2>2, FillKeeps
<1> QED BY <1>4 DEF c

\* NAV row, peak, guard and watermark of a session after all those marked before.
LEMMA MarkedKeeps ==
    ASSUME NEW published, NEW b, SoundBook(b, published), TrueBook(b), NEW d \in Days,
           b.activated # 0, b.activated < d, b.watermark < d
    PROVE  /\ TrueBook(Marked(b, d))
           /\ Extends(b, Marked(b, d))
           /\ Filled(Marked(b, d)) = Filled(b)
           /\ Marked(b, d).fills = b.fills /\ Marked(b, d).orders = b.orders
           /\ Booked(Marked(b, d)) = Booked(b) \cup {d}
           /\ Marked(b, d).activated = b.activated
           /\ Marked(b, d).watermark = d
<1> DEFINE c == Marked(b, d)
           total == b.cash + MarketValue[d][b.units]
           peak == IF b.peak > total THEN b.peak ELSE total
<1>b. b \in Book /\ c \in Book
  BY MarkedSound DEF SoundBook
<1>w. b.watermark \in Int /\ Days \subseteq Int
  BY <1>b, CalendarAssumption DEF Book, Days
<1>1. \A e \in Booked(b) : e < d /\ e # d
  BY <1>w DEF TrueBook, MarkedAfterActivation, Booked
<1>2. /\ c.fills = b.fills /\ c.orders = b.orders /\ c.decisions = b.decisions
      /\ c.cash = b.cash /\ c.activated = b.activated /\ c.watermark = d
      /\ c.peak = peak
      /\ c.nav = [b.nav EXCEPT ![d] = [booked |-> TRUE, cash |-> b.cash,
                                       value |-> MarketValue[d][b.units]]]
  BY <1>b, <1>1 DEF Marked, Book, Booked
<1>3. c.nav[d].booked /\ \A e \in Days : e # d => c.nav[e] = b.nav[e]
  BY <1>2, <1>b DEF Book
<1>4. Booked(c) = Booked(b) \cup {d}
  BY <1>3 DEF Booked
<1>5. Filled(c) = Filled(b)
  BY <1>2 DEF Filled
<1>6. CashIsFills(c)
  <2>1. OrderKeys \in SUBSET OrderKeys
    OBVIOUS
  <2>2. CashAfter(c, OrderKeys) = CashAfter(b, OrderKeys)
    <3> HIDE DEF c
    <3> QED BY <1>2, <2>1, CashAgrees
  <2> QED BY <1>2, <2>2 DEF TrueBook, CashIsFills
<1>7. RiskIsReplay(c)
  BY <1>b, <1>1, RiskMarked DEF TrueBook
<1>8. IntradayKnewNoOpen(c)
  BY <1>2, <1>5 DEF TrueBook, IntradayKnewNoOpen
<1>9. MarkedAfterActivation(c)
  BY <1>1, <1>2, <1>4, <1>w DEF TrueBook, MarkedAfterActivation, Booked
<1>10. Extends(b, c)
  <2>1. c.peak >= b.peak
    <3>1. b.peak \in Int /\ c.peak \in Int
      BY <1>b DEF Book
    <3>2. CASE b.peak > total BY <1>2, <3>1, <3>2
    <3>3. CASE ~(b.peak > total)
      <4>1. total = c.peak BY <1>2, <3>3
      <4> QED BY <3>1, <3>3, <4>1
    <3> QED BY <3>2, <3>3
  <2>2. \A e \in Booked(b) : c.nav[e] = b.nav[e]
    BY <1>1, <1>3 DEF Booked
  <2>3. c.watermark >= b.watermark
    BY <1>2, <1>w
  <2> HIDE DEF c
  <2> QED BY <1>2, <2>1, <2>2, <2>3 DEF Extends
<1> QED BY <1>2, <1>4, <1>5, <1>6, <1>7, <1>8, <1>9, <1>10 DEF TrueBook

-----------------------------------------------------------------------------
(* The initial state and the ways a step can go.                           *)

\* A new portfolio has no history, and its peak is its capital.
LEMMA EmptyBookTrue == TrueBook(EmptyBook)
<1> DEFINE b == EmptyBook
<1>b. b \in Book
  BY EmptyBookSound DEF SoundBook
<1>l. LastDay \in Nat /\ 0 \in 0..LastDay
  BY CalendarAssumption
<1>1. Filled(b) = {} /\ Booked(b) = {}
  BY DEF Filled, Booked, EmptyBook, NoFill, NoNavRow
<1>2. CashIsFills(b)
  <2>1. DOMAIN [k \in OrderKeys \cap Sides(b, "BUY") |-> FillCost(b, k)] = {}
    BY <1>1 DEF Sides
  <2>2. DOMAIN [k \in OrderKeys \cap Sides(b, "SELL") |-> FillProceeds(b, k)] = {}
    BY <1>1 DEF Sides
  <2>3. CashAfter(b, OrderKeys) = InitialCapital - 0 + 0
    BY <2>1, <2>2, SumEmpty DEF CashAfter, SumFunction
  <2>4. b.cash = InitialCapital /\ InitialCapital \in Nat
    BY BoundsAssumption DEF EmptyBook
  <2> QED BY <2>3, <2>4 DEF CashIsFills
<1>3. RiskIsReplay(b)
  <2>1. ReplayedModes(b)[LastDay] = "normal"
    <3>1. \A d \in Booked(b) : d <= 0
      BY <1>1
    <3>2. ReplayedModes(b)[LastDay] = ReplayedModes(b)[0]
      BY <1>l, <3>1, HistoryRests
    <3> QED BY <3>2, ReplayGoes
  <2>2. PeakUpTo(b, LastDay) = InitialCapital
    BY <1>b, <1>1, PeakFacts
  <2> QED BY <2>1, <2>2 DEF RiskIsReplay, EmptyBook
<1> QED BY <1>1, <1>2, <1>3 DEF TrueBook, IntradayKnewNoOpen, MarkedAfterActivation

LEMMA InitHInv == Init => HInv
<1> SUFFICES ASSUME Init PROVE HInv
  OBVIOUS
<1>1. book = EmptyBook /\ savepoint = EmptyBook /\ durable = EmptyBook /\ run = Idle
  BY DEF Init
<1>2. EmptyBook \in Book /\ Filled(EmptyBook) = {}
  BY EmptyBookSound DEF SoundBook, Filled, EmptyBook, NoFill
<1>3. Agenda
  BY <1>1, IdleRun DEF Agenda, InSession
<1>4. SessionFills
  BY <1>1, <1>2 DEF SessionFills, CandleFillsMarked
<1> QED BY <1>1, <1>2, <1>3, <1>4, EmptyBookTrue, ExtendsItself DEF HInv, Kept

\* What a step must show.
HistoryKept == HInv' /\ Extends(durable, durable')

\* Each book may be rolled back to the next, and the committed one to nothing.
LEMMA BooksExtend ==
    ASSUME IInv, HInv PROVE Extends(durable, book) /\ Extends(durable, savepoint)
BY ExtendsFurther DEF HInv, Kept, IInv, TypeOK

\* A step that goes on from the book of the run.
LEMMA GoOn ==
    ASSUME IInv, IInv', HInv, TrueBook(book'), Extends(book, book'),
           savepoint' \in {savepoint, book'}, durable' \in {durable, savepoint'},
           SessionFills', Agenda'
    PROVE  HistoryKept
<1>t. /\ book \in Book /\ savepoint \in Book /\ durable \in Book
      /\ book' \in Book /\ savepoint' \in Book /\ durable' \in Book
  BY DEF IInv, TypeOK
<1>1. Extends(savepoint, book')
  BY <1>t, ExtendsFurther DEF HInv, Kept
<1>2. Extends(durable, book') /\ Extends(durable, savepoint)
  BY <1>t, BooksExtend, ExtendsFurther
<1>3. Extends(durable, savepoint') /\ Extends(savepoint', book')
  BY <1>1, <1>2, <1>t, ExtendsItself
<1>4. Extends(durable, durable') /\ Extends(durable', savepoint')
  BY <1>3, <1>t, ExtendsItself
<1>5. TrueBook(savepoint') /\ TrueBook(durable')
  BY DEF HInv
<1> QED BY <1>3, <1>4, <1>5 DEF HistoryKept, HInv, Kept

\* A step that commits a book with the committed history and no session half done.
LEMMA CommitHistory ==
    ASSUME IInv', NEW b, CommitAs(b), TrueBook(b), Extends(durable, b),
           CandleFillsMarked(b), Agenda'
    PROVE  HistoryKept
<1>1. book' = b /\ savepoint' = b /\ durable' = b
  BY DEF CommitAs
<1>2. Extends(b, b)
  BY <1>1, ExtendsItself DEF IInv, TypeOK
<1>3. SessionFills'
  BY <1>1 DEF SessionFills, CandleFillsMarked
<1> QED BY <1>1, <1>2, <1>3 DEF HistoryKept, HInv, Kept

\* Nothing in hand.
LEMMA IdleAgenda ==
    /\ run \in {Idle, Failed} => Agenda /\ ~InSession
    /\ run' \in {Idle, Failed} => Agenda' /\ ~InSession'
BY IdleRun DEF Agenda, InSession

\* Between sessions the book of the run has no candle fill without its NAV row.
LEMMA BetweenSessions ==
    ASSUME HInv, ~InSession PROVE CandleFillsMarked(book)
BY DEF HInv, SessionFills, CandleFillsMarked

\* A quiet step between sessions.
LEMMA QuietStep ==
    ASSUME IInv, IInv', HInv, ~InSession, Quiet(book, book'),
           savepoint' \in {savepoint, book'}, durable' \in {durable, savepoint'}, Agenda'
    PROVE  HistoryKept
<1>1. SoundBook(book, batch) /\ book' \in Book
  BY DEF IInv, TypeOK
<1>2. /\ TrueBook(book') /\ Extends(book, book') /\ CandleFillsMarked(book')
  BY <1>1, QuietKeeps, BetweenSessions DEF HInv
<1>3. SessionFills'
  BY <1>2 DEF HInv, SessionFills, CandleFillsMarked
<1> QED BY <1>1, <1>2, <1>3, GoOn

\* A quiet commit at the end of a run, or between runs.
LEMMA QuietCommit ==
    ASSUME IInv, IInv', HInv, NEW b, NEW c \in {book, savepoint, durable}, CommitAs(b),
           Quiet(c, b), c = book => ~InSession, run' \in {Idle, Failed}
    PROVE  HistoryKept
<1>1. b \in Book /\ c \in Book /\ durable \in Book
  BY DEF IInv, TypeOK, CommitAs
<1>2. SoundBook(c, batch) /\ TrueBook(c)
  BY DEF IInv, HInv
<1>3. CandleFillsMarked(c)
  BY BetweenSessions DEF HInv, SessionFills
<1>4. TrueBook(b) /\ Extends(c, b) /\ CandleFillsMarked(b)
  BY <1>1, <1>2, <1>3, QuietKeeps
<1>5. Extends(durable, c)
  BY <1>1, BooksExtend, ExtendsItself
<1>6. Extends(durable, b)
  BY <1>1, <1>4, <1>5, ExtendsFurther
<1> QED BY <1>4, <1>6, IdleAgenda, CommitHistory

-----------------------------------------------------------------------------
(* The steps.                                                              *)

\* What the run holds is typed.
LEMMA RunFields ==
    ASSUME IInv
    PROVE  /\ run \in Run /\ run.days \in SUBSET Days /\ run.day \in 0..LastDay
           /\ run.stage = "fill" => run.day \in Days
           /\ book \in Book /\ book.watermark \in Int /\ book.activated \in 0..LastDay
           /\ Days \subseteq Int /\ 0..LastDay \subseteq Int
<1>1. run \in Run /\ book \in Book /\ (run.stage = "fill" => run.day # 0)
  BY DEF IInv, TypeOK, RunInv
<1>2. run.days \in SUBSET Days /\ run.day \in 0..LastDay
  BY <1>1 DEF Run
<1>3. LastDay \in Nat /\ Days = 1..LastDay
  BY CalendarAssumption DEF Days
<1>4. run.stage = "fill" => run.day \in Days
  BY <1>1, <1>2, <1>3
<1>5. book.watermark \in 0..LastDay /\ book.activated \in 0..LastDay
  BY <1>1 DEF Book
<1> QED BY <1>1, <1>2, <1>3, <1>4, <1>5

\* The surroundings leave books and run alone.
LEMMA SameBooks ==
    ASSUME IInv, IInv', HInv, UNCHANGED <<book, savepoint, durable, run>>
    PROVE  HistoryKept
<1>1. Agenda' /\ SessionFills'
  BY DEF HInv, Agenda, InSession, SessionFills, CandleFillsMarked
<1>2. Extends(book, book)
  BY ExtendsItself DEF IInv, TypeOK
<1> QED BY <1>1, <1>2, GoOn DEF HInv

\* The owner's steps are between runs, commit, and touch orders, decisions and pointers only.
LEMMA OwnerQuiet ==
    ASSUME IInv, IInv', Owner
    PROVE  /\ Quiet(book, book') /\ book'.units = book.units
           /\ savepoint' = book' /\ durable' = book'
           /\ run' \in {Idle, Failed} /\ ~InSession
<1> DEFINE Goal == /\ Quiet(book, book') /\ book'.units = book.units
                   /\ savepoint' = book' /\ durable' = book'
<1>b. book \in Book /\ SoundBook(book, batch)
  BY DEF IInv, TypeOK
<1>r. run' \in {Idle, Failed} /\ ~InSession
  BY IdleAgenda DEF Owner, Activate, ActivateEmpty, NoRun
<1>t. Today \in Days
  BY TodayIsDay DEF IInv, TypeOK, Today
<1>i. {"INITIALIZED", "WAITING_FOR_NEW_MARKET", "WAITING_FOR_SIGNAL"} \subseteq PortfolioStatus
  BY DEF PortfolioStatus
<1>1. ASSUME NEW b, CommitAs(b), Quiet(book, b), b.units = book.units PROVE Goal
  BY <1>1 DEF CommitAs
<1>g. SUFFICES Goal
  BY <1>r DEF Goal
<1> HIDE DEF Goal
<1>2. CASE Activate
  <2>1. PICK asOf \in PublishedBatches :
          LET b == IF book.activated = 0 THEN Activated(book, "INITIALIZED") ELSE book
          IN  \/ CommitAs([b EXCEPT !.status = "WAITING_FOR_SIGNAL"])
              \/ CommitAs(FirstStatus(b))
              \/ /\ ~Decided(b, WeekOf[asOf])
                 /\ \E plan \in Plans(b, bars, asOf) :
                       CommitAs(FirstStatus(Decide(b, asOf, Today, clock, plan)))
    BY <1>2 DEF Activate
  <2> DEFINE b == IF book.activated = 0 THEN Activated(book, "INITIALIZED") ELSE book
  <2>2. SoundBook(b, batch) /\ Quiet(book, b)
    BY <1>b, <1>t, <1>i, PointersSound, PointersQuiet DEF Activated
  <2>u. b.units = book.units
    BY <1>b DEF Activated, Book
  <2>3. b \in Book /\ asOf \in Days /\ asOf <= Today /\ batch[asOf] # 0 /\ batch[asOf] <= Today + 1
    BY <2>2 DEF SoundBook, PublishedBatches, IInv, BatchInv
  <2> HIDE DEF b
  <2>4. CASE CommitAs([b EXCEPT !.status = "WAITING_FOR_SIGNAL"])
    <3>1. [b EXCEPT !.status = "WAITING_FOR_SIGNAL"] \in Book
      BY <1>i, <2>2, PointersSound DEF SoundBook
    <3>2. [b EXCEPT !.status = "WAITING_FOR_SIGNAL"].units = book.units
      BY <2>u, <2>3 DEF Book
    <3>3. Quiet(book, [b EXCEPT !.status = "WAITING_FOR_SIGNAL"])
      BY <1>b, <2>2, <2>3, <3>1, PointersQuiet, QuietFurther
    <3> QED BY <1>1, <2>4, <3>2, <3>3
  <2>5. CASE CommitAs(FirstStatus(b))
    <3>1. FirstStatus(b) \in Book
      BY <2>2, StatusSound DEF SoundBook
    <3>2. FirstStatus(b).units = book.units
      BY <2>u, <2>3 DEF FirstStatus, Book
    <3>3. Quiet(book, FirstStatus(b))
      BY <1>b, <2>2, <2>3, <3>1, StatusQuiet, QuietFurther
    <3> QED BY <1>1, <2>5, <3>2, <3>3
  <2>6. ASSUME ~Decided(b, WeekOf[asOf]), NEW plan \in Plans(b, bars, asOf),
               CommitAs(FirstStatus(Decide(b, asOf, Today, clock, plan)))
        PROVE  Goal
    <3> DEFINE c == Decide(b, asOf, Today, clock, plan)
    <3>1. SoundBook(c, batch)
      <4>1. plan \in [Instruments -> (-MaxLot)..MaxLot] BY DEF Plans
      <4>2. Today \in 0..LastDay BY <1>t, CalendarAssumption DEF Days
      <4>3. clock \in 0..2 * LastDay + 1 BY TodayIsDay DEF IInv, TypeOK
      <4> QED BY <2>2, <2>3, <2>6, <4>1, <4>2, <4>3, DecideSound
    <3>2. Quiet(b, c)
      BY <2>2, <2>3, <2>6, DecideQuiet
    <3>u. c.units = book.units
      BY <2>u, <2>3 DEF Decide, Book
    <3> HIDE DEF c
    <3>3. c \in Book /\ FirstStatus(c) \in Book
      BY <3>1, StatusSound DEF SoundBook
    <3>4. Quiet(book, c)
      BY <1>b, <2>2, <2>3, <3>2, <3>3, QuietFurther
    <3>5. Quiet(book, FirstStatus(c))
      BY <1>b, <3>3, <3>4, StatusQuiet, QuietFurther
    <3>6. CommitAs(FirstStatus(c))
      BY <2>6 DEF c
    <3>7. FirstStatus(c).units = book.units
      BY <3>u, <3>3 DEF FirstStatus, Book
    <3> QED BY <1>1, <3>5, <3>6, <3>7
  <2> QED BY <2>1, <2>4, <2>5, <2>6 DEF b
<1>3. CASE ActivateEmpty
  <2>1. book.activated = 0 /\ CommitAs(Activated(book, "WAITING_FOR_NEW_MARKET"))
    BY <1>3 DEF ActivateEmpty
  <2>2. Quiet(book, Activated(book, "WAITING_FOR_NEW_MARKET"))
    BY <1>b, <2>1, PointersQuiet DEF Activated
  <2>3. Activated(book, "WAITING_FOR_NEW_MARKET").units = book.units
    BY <1>b DEF Activated, Book
  <2> QED BY <1>1, <2>1, <2>2, <2>3
<1> QED BY <1>2, <1>3 DEF Owner

\* So they keep the history.
LEMMA OwnerHistory == IInv /\ IInv' /\ HInv /\ Owner => HistoryKept
<1> SUFFICES ASSUME IInv, IInv', HInv, Owner PROVE HistoryKept
  OBVIOUS
<1>1. CommitAs(book')
  BY OwnerQuiet DEF CommitAs
<1> QED BY <1>1, OwnerQuiet, QuietCommit

\* A run starts with the book as it is and with sessions after the watermark.
LEMMA StartHistory == IInv /\ IInv' /\ HInv /\ (StartRun \/ StartIntraday) => HistoryKept
<1> SUFFICES ASSUME IInv, IInv', HInv, StartRun \/ StartIntraday PROVE HistoryKept
  OBVIOUS
<1>b. Quiet(book, book) /\ UNCHANGED <<book, savepoint, durable>>
  BY RunFields, PointersQuiet
     DEF StartRun, StartIntraday, StartAdvance, StartCatchUpNoOp, StartCatchUp
<1>r. ~InSession
  BY IdleAgenda DEF StartRun, StartIntraday, StartAdvance, StartCatchUpNoOp, StartCatchUp, NoRun
<1>1. CASE StartAdvance
  <2>1. /\ run'.kind = "advance" /\ run'.stage = "decide" /\ run'.days = {} /\ run'.day = 0
        /\ book.activated # 0
    BY <1>1 DEF StartAdvance, Idle
  <2>2. Agenda'
    BY <1>b, <2>1 DEF Agenda, InSession
  <2> QED BY <1>b, <1>r, <2>2, QuietStep
<1>2. ASSUME NEW latest \in Days, StartCatchUpNoOp(latest) PROVE HistoryKept
  <2>1. /\ run'.kind = "catchup" /\ run'.stage = "decide" /\ run'.days = {} /\ run'.day = 0
        /\ book.activated # 0
    BY <1>2 DEF StartCatchUpNoOp, Idle
  <2>2. Agenda'
    BY <1>b, <2>1 DEF Agenda, InSession
  <2> QED BY <1>b, <1>r, <2>2, QuietStep
<1>3. ASSUME NEW latest \in Days, NEW commitEach \in BOOLEAN, StartCatchUp(latest, commitEach)
      PROVE  HistoryKept
  <2>1. /\ run'.kind = "catchup" /\ run'.stage = "days" /\ run'.day = 0
        /\ run'.days = MissingSessions(latest)
        /\ book.activated # 0
    BY <1>3 DEF StartCatchUp, Idle
  <2>2. MissingSessions(latest) \subseteq Days
    BY DEF MissingSessions, BarDays, IInv, TypeOK
  <2>3. \A d \in MissingSessions(latest) : book.watermark < d /\ 0 < d
    BY <2>2 DEF MissingSessions, Days
  <2>4. Agenda'
    BY <1>b, <2>1, <2>3 DEF Agenda, InSession
  <2> QED BY <1>b, <1>r, <2>4, QuietStep
<1>4. CASE StartIntraday
  <2>1. run'.kind = "intraday"
    BY <1>4 DEF StartIntraday, Idle
  <2>2. Agenda'
    BY <2>1 DEF Agenda, InSession
  <2> QED BY <1>b, <1>r, <2>2, QuietStep
<1> QED BY <1>1, <1>2, <1>3, <1>4 DEF StartRun

\* A batch skipped, or a week's decision.
LEMMA BatchQuiet ==
    ASSUME IInv, NEW asOf \in Days, SkipBatch(asOf) \/ DecideWeek(asOf)
    PROVE  /\ run.kind \in {"advance", "catchup"} /\ run.stage = "decide"
           /\ run'.kind = run.kind /\ run'.stage = run.stage /\ run'.days = run.days
           /\ run'.day = run.day
           /\ Quiet(book, book') /\ book'.units = book.units
           /\ savepoint' \in {savepoint, book'} /\ durable' = durable
           /\ book'.watermark = book.watermark /\ book'.activated = book.activated
<1>f. run \in Run /\ book \in Book /\ SoundBook(book, batch)
  BY DEF IInv, TypeOK
<1>1. run.kind \in {"advance", "catchup"} /\ run.stage = "decide"
  BY DEF SkipBatch, DecideWeek
<1>2. /\ run'.kind = run.kind /\ run'.stage = run.stage /\ run'.days = run.days
      /\ run'.day = run.day
  BY <1>f DEF SkipBatch, DecideWeek, Run
<1> DEFINE Small == /\ Quiet(book, book') /\ book'.units = book.units
                    /\ savepoint' \in {savepoint, book'} /\ durable' = durable
                    /\ book'.watermark = book.watermark /\ book'.activated = book.activated
<1>3. Small
  <2>1. CASE UNCHANGED <<book, savepoint, durable>>
    BY <1>f, <2>1, PointersQuiet
  <2>2. CASE WriteAs([book EXCEPT !.lastWeek = WeekOf[asOf]])
    BY <1>f, <2>2, PointersQuiet DEF WriteAs, Book
  <2>3. ASSUME DecideWeek(asOf)
        PROVE  Small
    <3>1. PICK plan \in Plans(book, bars, asOf) :
             WriteAs(Decide(book, asOf, run.at, clock, plan))
      BY <2>3 DEF DecideWeek
    <3>2. Quiet(book, Decide(book, asOf, run.at, clock, plan))
      BY <1>f, <2>3, DecideQuiet DEF DecideWeek
    <3>3. /\ book' = Decide(book, asOf, run.at, clock, plan)
          /\ savepoint' \in {savepoint, book'} /\ durable' = durable
      BY <3>1 DEF WriteAs
    <3>4. /\ book'.watermark = book.watermark /\ book'.activated = book.activated
          /\ book'.units = book.units
      BY <1>f, <3>3 DEF Decide, Book
    <3> QED BY <3>2, <3>3, <3>4
  <2> QED BY <2>1, <2>2, <2>3 DEF SkipBatch
<1> QED BY <1>1, <1>2, <1>3

\* So it keeps the history.
LEMMA DecideHistory ==
    ASSUME IInv, IInv', HInv, NEW asOf \in Days, SkipBatch(asOf) \/ DecideWeek(asOf)
    PROVE  HistoryKept
<1>1. Agenda'
  BY BatchQuiet DEF HInv, Agenda, InSession
<1>2. ~InSession
  BY BatchQuiet DEF InSession
<1> QED BY <1>1, <1>2, BatchQuiet, QuietStep

\* A fill of the session in hand, or of the intraday run.
LEMMA FilledStep ==
    ASSUME IInv, IInv', HInv, UNCHANGED <<savepoint, durable>>,
           NEW k \in OrderKeys, NEW source \in {"CANDLE", "INTRADAY"},
           FillKept(book, book', k, run.day, source), source = "CANDLE" => InSession,
           run' = OrderTried(k)
    PROVE  HistoryKept
<1>f. run \in Run
  BY RunFields
<1>1. /\ run'.kind = run.kind /\ run'.stage = run.stage /\ run'.days = run.days
      /\ run'.day = run.day
  BY <1>f DEF OrderTried, Run
<1>2. Agenda'
  BY <1>1 DEF HInv, Agenda, InSession, FillKept
<1>3. SessionFills'
  <2>1. ASSUME NEW j \in Filled(book'), book'.fills[j].source = "CANDLE"
        PROVE  \/ book'.fills[j].day \in Booked(book')
               \/ InSession' /\ book'.fills[j].day = run'.day
    <3>1. CASE j = k
      BY <1>1, <2>1, <3>1 DEF FillKept, InSession
    <3>2. CASE j # k
      <4>1. j \in Filled(book) /\ book'.fills[j] = book.fills[j] /\ Booked(book') = Booked(book)
        BY <3>2 DEF FillKept
      <4> QED BY <1>1, <2>1, <4>1 DEF HInv, SessionFills, InSession
    <3> QED BY <3>1, <3>2
  <2> QED BY <2>1 DEF HInv, SessionFills, CandleFillsMarked
<1> QED BY <1>2, <1>3, GoOn DEF FillKept

\* An order that is left alone or cancelled.
LEMMA TriedQuietly ==
    ASSUME IInv, IInv', HInv, UNCHANGED <<savepoint, durable>>,
           NEW k \in Pending(book), book' \in {book, Cancelled(book, k)}, run' = OrderTried(k)
    PROVE  HistoryKept
<1>f. run \in Run /\ book \in Book /\ book' \in Book /\ SoundBook(book, batch)
  BY DEF IInv, TypeOK
<1>1. /\ run'.kind = run.kind /\ run'.stage = run.stage /\ run'.days = run.days
      /\ run'.day = run.day
  BY <1>f DEF OrderTried, Run
<1>2. Quiet(book, book')
  BY <1>f, PointersQuiet, CancelledQuiet
<1>3. book'.watermark = book.watermark /\ book'.activated = book.activated
  BY <1>f DEF Cancelled, Book
<1>4. Agenda'
  BY <1>1, <1>3 DEF HInv, Agenda, InSession
<1>5. /\ TrueBook(book') /\ Extends(book, book')
      /\ Filled(book') = Filled(book) /\ Booked(book') = Booked(book)
      /\ book'.fills = book.fills
  BY <1>f, <1>2, QuietKeeps DEF HInv, Quiet
<1>6. SessionFills'
  BY <1>1, <1>5 DEF HInv, SessionFills, CandleFillsMarked, InSession
<1> QED BY <1>4, <1>5, <1>6, GoOn

\* An order of the candle path.
LEMMA FillHistory ==
    ASSUME IInv, IInv', HInv, NEW k \in OrderKeys, FillOrder(k) PROVE HistoryKept
<1> DEFINE d == run.day
<1>1. /\ run.stage = "fill" /\ k \in run.orders /\ run' = OrderTried(k)
      /\ UNCHANGED <<savepoint, durable>> /\ InSession
  BY DEF FillOrder, NextOrder, InSession
<1>2. k \in Pending(book) /\ SoundBook(book, batch) /\ TrueBook(book) /\ d \in Days
  BY <1>1, RunFields DEF IInv, RunInv, HInv
<1>3. SoundBook(book', batch')
  BY DEF IInv
<1>4. CASE book.orders[k].side = "BUY" /\ book' = Bought(book, k, d, "CANDLE")
  <2>1. SoundBook(book', batch)
    BY <1>3 DEF FillOrder
  <2>2. FillKept(book, book', k, d, "CANDLE")
    BY <1>2, <1>4, <2>1, BoughtKeeps
  <2> QED BY <1>1, <2>2, FilledStep
<1>5. CASE book.orders[k].side = "SELL" /\ book' = Sold(book, k, d, "CANDLE")
  <2>1. SoundBook(book', batch)
    BY <1>3 DEF FillOrder
  <2>2. FillKept(book, book', k, d, "CANDLE")
    BY <1>2, <1>5, <2>1, SoldKeeps
  <2> QED BY <1>1, <2>2, FilledStep
<1>6. CASE book' \in {book, Cancelled(book, k)}
  BY <1>1, <1>2, <1>6, TriedQuietly
<1> QED BY <1>4, <1>5, <1>6 DEF FillOrder

\* A status change after a fill changes nothing of it.
LEMMA FillThenStatus ==
    ASSUME NEW published, NEW b \in Book, NEW x, SoundBook(x, published), NEW c \in Book,
           Quiet(x, c), c.watermark = x.watermark, c.activated = x.activated, c.orders = x.orders,
           NEW k \in OrderKeys, NEW day, NEW source, FillKept(b, x, k, day, source)
    PROVE  FillKept(b, c, k, day, source)
<1>1. x \in Book
  BY DEF SoundBook
<1>2. /\ TrueBook(c) /\ Extends(x, c) /\ Filled(c) = Filled(x) /\ Booked(c) = Booked(x)
      /\ c.fills = x.fills
  BY QuietKeeps DEF FillKept, Quiet
<1>3. Extends(b, c)
  BY <1>1, <1>2, ExtendsFurther DEF FillKept
<1> QED BY <1>2, <1>3 DEF FillKept

\* The intraday path and its end.
LEMMA IntradayHistory == IInv /\ IInv' /\ HInv /\ IntradayStep => HistoryKept
<1> SUFFICES ASSUME IInv, IInv', HInv, IntradayStep PROVE HistoryKept
  OBVIOUS
<1> DEFINE d == run.day
<1>i. run.kind = "intraday" /\ ~InSession
  BY DEF IntradayStep, QuoteOrder, SkipOrder, FinishIntraday, InSession
<1>d. d \in Days
  BY <1>i, RunFields DEF IInv, RunInv
<1>s. SoundBook(book, batch) /\ TrueBook(book) /\ book \in Book
  BY DEF IInv, TypeOK, HInv
<1>1. ASSUME NEW k \in OrderKeys, QuoteOrder(k) PROVE HistoryKept
  <2>1. /\ k \in run.orders /\ run' = OrderTried(k)
        /\ UNCHANGED <<savepoint, durable, batch>>
        /\ book.orders[k].created < SessionOpen(d)
        /\ d >= book.orders[k].minExec
    BY <1>1 DEF QuoteOrder, NextOrder, QuoteEligible
  <2>2. k \in Pending(book)
    BY <2>1 DEF IInv, RunInv
  <2>m. book.orders[k].minExec <= d
    <3>1. book.orders[k].minExec \in Nat BY <1>s, CalendarAssumption DEF Book, Order
    <3> QED BY <1>d, <2>1, <3>1 DEF Days
  <2>3. ASSUME NEW x, SoundBook(x, batch), FillKept(book, x, k, d, "INTRADAY"),
               book' = AfterIntradayFill(x, k)
        PROVE  HistoryKept
    <3>1. x \in Book /\ book' \in Book
      BY <2>3 DEF SoundBook, IInv, TypeOK
    <3>2. Quiet(x, book')
      BY <2>3, <3>1, StatusQuiet
    <3>3. book'.watermark = x.watermark /\ book'.activated = x.activated /\ book'.orders = x.orders
      BY <2>3, <3>1 DEF AfterIntradayFill, Book
    <3>4. FillKept(book, book', k, d, "INTRADAY")
      BY <1>s, <2>3, <3>1, <3>2, <3>3, FillThenStatus
    <3> QED BY <2>1, <3>4, FilledStep
  <2>4. CASE /\ book.orders[k].side = "BUY" /\ Affordable(book, k, d) /\ WithinBound(k)
             /\ book' = AfterIntradayFill(Bought(book, k, d, "INTRADAY"), k)
    <3>1. SoundBook(Bought(book, k, d, "INTRADAY"), batch)
      BY <1>d, <1>s, <2>2, <2>m, <2>4, BoughtSound DEF WithinBound
    <3>2. FillKept(book, Bought(book, k, d, "INTRADAY"), k, d, "INTRADAY")
      BY <1>d, <1>s, <2>1, <2>2, <2>4, <3>1, BoughtKeeps
    <3> QED BY <2>3, <2>4, <3>1, <3>2
  <2>5. CASE /\ book.orders[k].side = "SELL"
             /\ book' = AfterIntradayFill(Sold(book, k, d, "INTRADAY"), k)
    <3>1. SoundBook(Sold(book, k, d, "INTRADAY"), batch)
      BY <1>d, <1>s, <2>2, <2>m, SoldSound
    <3>2. FillKept(book, Sold(book, k, d, "INTRADAY"), k, d, "INTRADAY")
      BY <1>d, <1>s, <2>1, <2>2, <2>5, <3>1, SoldKeeps
    <3> QED BY <2>3, <2>5, <3>1, <3>2
  <2>6. CASE book' = Cancelled(book, k)
    BY <2>1, <2>2, <2>6, TriedQuietly
  <2> QED BY <1>1, <2>4, <2>5, <2>6 DEF QuoteOrder
<1>2. ASSUME NEW k \in OrderKeys, SkipOrder(k) PROVE HistoryKept
  <2>1. k \in run.orders /\ run' = OrderTried(k) /\ UNCHANGED <<book, savepoint, durable>>
    BY <1>2 DEF SkipOrder, NextOrder
  <2>2. k \in Pending(book)
    BY <2>1 DEF IInv, RunInv
  <2> QED BY <2>1, <2>2, TriedQuietly
<1>3. CASE FinishIntraday
  BY <1>3, <1>i, <1>s, PointersQuiet, QuietCommit DEF FinishIntraday
<1> QED BY <1>1, <1>2, <1>3 DEF IntradayStep

\* The earliest of a set of days is before the others.
LEMMA EarliestFirst ==
    ASSUME NEW days \in SUBSET Days, NEW d, Earliest(d, days)
    PROVE  d \in Days /\ \A e \in days \ {d} : d < e
BY DEF Earliest, Days

\* A session opens: from here to its NAV row it may hold unmarked candle fills.
LEMMA SessionHistory ==
    ASSUME IInv, IInv', HInv, NEW d \in Days, StartSession(d), ~InSession,
           UNCHANGED <<savepoint, durable>>,
           book.activated # 0, book.activated < d, book.watermark < d,
           run' \in Run, run'.stage = "fill", run'.day = d, run'.kind # "intraday",
           \A e \in run'.days : d < e
    PROVE  HistoryKept
<1>b. book \in Book /\ Days \subseteq Int /\ book.watermark \in Int
  BY RunFields
<1>1. book' = CorporateActions(book, d)
  BY DEF StartSession
<1>2. Quiet(book, book')
  BY <1>b, <1>1, PointersQuiet
<1>3. book'.watermark = book.watermark /\ book'.activated = book.activated
  BY <1>b, <1>1 DEF CorporateActions, Book
<1>4. ASSUME NEW e \in run'.days PROVE book.watermark < e
  <2>1. e \in Days /\ d < e
    BY DEF Run
  <2>2. book.watermark \in Int /\ d \in Int /\ e \in Int
    BY <1>b, <2>1
  <2> QED BY <2>1, <2>2
<1>5. d # 0
  BY DEF Days
<1>6. Agenda'
  BY <1>3, <1>4, <1>5 DEF Agenda, InSession
<1> QED BY <1>2, <1>6, QuietStep

\* The daily advance between its decisions and its end.
LEMMA AdvanceHistory ==
    ASSUME IInv, IInv', HInv,
           \/ ListDays \/ AdvanceMark \/ FinishAdvance
           \/ \E d \in Days : AdvanceDay(d)
    PROVE  HistoryKept
<1>f. /\ run \in Run /\ book \in Book /\ run.days \in SUBSET Days
      /\ SoundBook(book, batch) /\ TrueBook(book) /\ Quiet(book, book)
      /\ book.watermark \in Int /\ Days \subseteq Int
  BY RunFields, PointersQuiet DEF IInv, HInv
<1>1. CASE ListDays
  <2>1. /\ run.kind = "advance" /\ run.stage = "decide" /\ run.day = 0 /\ book.activated # 0
    BY <1>1 DEF ListDays, HInv, Agenda
  <2>2. /\ run'.kind = "advance" /\ run'.stage = "days" /\ run'.day = 0
        /\ run'.days = {d \in BarDays : d > book.watermark}
        /\ UNCHANGED <<book, savepoint, durable>>
    BY <1>1, <1>f, <2>1 DEF ListDays, Run
  <2>3. BarDays \subseteq Days
    BY DEF BarDays, IInv, TypeOK
  <2>4. ASSUME NEW d \in run'.days PROVE book.watermark < d /\ 0 < d
    <3>1. d \in Days /\ d > book.watermark
      BY <2>2, <2>3
    <3> QED BY <1>f, <3>1 DEF Days
  <2>5. Agenda'
    BY <2>1, <2>2, <2>4 DEF Agenda, InSession
  <2> QED BY <1>f, <2>1, <2>2, <2>5, QuietStep DEF InSession
<1>2. ASSUME NEW d \in Days, AdvanceDay(d) PROVE HistoryKept
  <2>1. /\ run.kind = "advance" /\ run.stage = "days" /\ Earliest(d, run.days)
        /\ run.day = 0 /\ book.activated # 0 /\ book.watermark < d /\ ~InSession
    BY <1>2 DEF AdvanceDay, HInv, Agenda, InSession, Earliest
  <2>2. \A e \in run.days \ {d} : d < e
    BY <1>f, <2>1, EarliestFirst
  <2>3. CASE PreActivation(d)
    <3>1. /\ book' = SkippedDay(book, d)
          /\ savepoint' \in {savepoint, book'} /\ durable' = durable
          /\ run' = [run EXCEPT !.days = @ \ {d}]
      BY <1>2, <2>3 DEF AdvanceDay, WriteAs
    <3>2. Quiet(book, book')
      <4>1. book.watermark <= d
        BY <1>f, <2>1
      <4> QED BY <1>f, <3>1, <4>1, PointersQuiet
    <3>3. book'.watermark = d /\ book'.activated = book.activated
      BY <1>f, <3>1 DEF SkippedDay, Book
    <3>4. /\ run'.kind = run.kind /\ run'.stage = run.stage /\ run'.day = run.day
          /\ run'.days = run.days \ {d}
      BY <1>f, <3>1 DEF Run
    <3>5. \A e \in run.days \ {d} : 0 < e
      BY <1>f DEF Days
    <3>6. Agenda'
      BY <2>1, <2>2, <3>3, <3>4, <3>5 DEF Agenda, InSession
    <3> QED BY <2>1, <3>1, <3>2, <3>6, QuietStep
  <2>4. CASE ~PreActivation(d)
    <3>1. /\ StartSession(d) /\ run' = [SessionRun(d) EXCEPT !.days = @ \ {d}]
          /\ UNCHANGED <<savepoint, durable>>
      BY <1>2, <2>4 DEF AdvanceDay
    <3>2. /\ run'.kind = run.kind /\ run'.stage = "fill" /\ run'.day = d
          /\ run'.days = run.days \ {d}
      BY <1>f, <3>1 DEF SessionRun, Run
    <3>3. book.activated < d
      BY <2>4, RunFields DEF PreActivation
    <3>4. run' \in Run
      BY DEF IInv, TypeOK
    <3> QED BY <2>1, <2>2, <3>1, <3>2, <3>3, <3>4, SessionHistory
  <2> QED BY <2>3, <2>4
<1>3. CASE AdvanceMark
  <2>1. /\ run.kind = "advance" /\ run.stage = "fill" /\ InSession
        /\ book' = Marked(book, run.day) /\ savepoint' = book' /\ durable' = durable
        /\ run' = [run EXCEPT !.stage = "days", !.day = 0]
    BY <1>3 DEF AdvanceMark, SessionFilled, InSession
  <2>2. /\ run.day \in Days /\ run.day # 0
        /\ book.activated # 0 /\ book.activated < run.day /\ book.watermark < run.day
        /\ \A e \in run.days : run.day < e
    BY <2>1, RunFields DEF HInv, Agenda, IInv, RunInv
  <2>3. /\ TrueBook(book') /\ Extends(book, book')
        /\ Filled(book') = Filled(book) /\ book'.fills = book.fills
        /\ Booked(book') = Booked(book) \cup {run.day}
        /\ book'.activated = book.activated /\ book'.watermark = run.day
    BY <1>f, <2>1, <2>2, MarkedKeeps
  <2>4. /\ run'.kind = "advance" /\ run'.stage = "days" /\ run'.day = 0 /\ run'.days = run.days
    BY <1>f, <2>1 DEF Run
  <2>5. \A e \in run.days : 0 < e
    BY <1>f DEF Days
  <2>6. Agenda'
    BY <2>2, <2>3, <2>4, <2>5 DEF Agenda, InSession
  <2>7. SessionFills'
    BY <2>1, <2>3 DEF HInv, SessionFills, CandleFillsMarked
  <2> QED BY <2>1, <2>3, <2>6, <2>7, GoOn
<1>4. CASE FinishAdvance
  <2>1. CommitAs(Refreshed(book)) /\ run' = Idle /\ ~InSession
    BY <1>4 DEF FinishAdvance, InSession
  <2> QED BY <1>f, <2>1, StatusQuiet, QuietCommit
<1> QED BY <1>1, <1>2, <1>3, <1>4

\* The end of a catch-up session, with b the book it leaves.
LEMMA CloseHistory ==
    ASSUME IInv, IInv', HInv, NEW b, SoundBook(b, batch), TrueBook(b), Extends(book, b),
           CandleFillsMarked(b), b.watermark = run.day, b.activated # 0,
           CloseCatchUpSession(b), run.kind = "catchup", \A e \in run.days : run.day < e
    PROVE  HistoryKept
<1>f. run \in Run /\ run.days \in SUBSET Days /\ book \in Book
  BY RunFields
<1>1. /\ book' = Refreshed(b) /\ savepoint' = book' /\ durable' \in {durable, book'}
      /\ run' = [run EXCEPT !.stage = "days", !.day = 0, !.at = 0, !.orders = {}]
  BY DEF CloseCatchUpSession
<1>2. b \in Book /\ book' \in Book
  BY DEF SoundBook, IInv, TypeOK
<1>3. Quiet(b, book') /\ book'.watermark = b.watermark /\ book'.activated = b.activated
  BY <1>1, <1>2, StatusQuiet DEF Refreshed, Book
<1>4. TrueBook(book') /\ Extends(b, book') /\ CandleFillsMarked(book')
  BY <1>2, <1>3, QuietKeeps
<1>5. Extends(book, book')
  BY <1>f, <1>2, <1>4, ExtendsFurther
<1>6. /\ run'.kind = "catchup" /\ run'.stage = "days" /\ run'.day = 0 /\ run'.days = run.days
  BY <1>f, <1>1 DEF Run
<1>7. \A e \in run.days : 0 < e
  BY <1>f DEF Days
<1>8. Agenda'
  BY <1>3, <1>6, <1>7 DEF Agenda, InSession
<1>9. SessionFills'
  BY <1>1, <1>4 DEF HInv, SessionFills, CandleFillsMarked
<1> QED BY <1>1, <1>4, <1>5, <1>8, <1>9, GoOn

\* The catch-up between its start and its end.
LEMMA CatchUpHistory ==
    ASSUME IInv, IInv', HInv,
           \/ CatchUpDay \/ CatchUpMark \/ FinishCatchUp
           \/ \E d \in Days : OpenCatchUpSession(d)
    PROVE  HistoryKept
<1>f. /\ run \in Run /\ book \in Book /\ run.days \in SUBSET Days
      /\ SoundBook(book, batch) /\ TrueBook(book) /\ Quiet(book, book)
      /\ book.watermark \in Int /\ Days \subseteq Int
  BY RunFields, PointersQuiet DEF IInv, HInv
<1>1. ASSUME NEW d \in Days, OpenCatchUpSession(d) PROVE HistoryKept
  <2>1. /\ run.kind = "catchup" /\ run.stage = "days" /\ Earliest(d, run.days) /\ ~InSession
        /\ UNCHANGED <<book, savepoint, durable>>
        /\ book.activated # 0 /\ book.watermark < d
    BY <1>1 DEF OpenCatchUpSession, HInv, Agenda, InSession, Earliest
  <2>2. \A e \in run.days \ {d} : d < e /\ book.watermark < e
    BY <1>f, <2>1, EarliestFirst
  <2>3. /\ run'.kind = "catchup" /\ run'.stage = "decide" /\ run'.day = d
        /\ run'.days = run.days \ {d}
    BY <1>1, <1>f, <2>1 DEF OpenCatchUpSession, Run
  <2>4. Agenda'
    BY <2>1, <2>2, <2>3 DEF Agenda, InSession
  <2> QED BY <1>f, <2>1, <2>4, QuietStep
<1>2. CASE CatchUpDay
  <2>1. /\ run.kind = "catchup" /\ run.stage = "decide" /\ run.day # 0 /\ ~InSession
        /\ book.activated # 0 /\ book.watermark < run.day /\ run.day \in Days
        /\ \A e \in run.days : run.day < e
    BY <1>2, RunFields, CalendarAssumption DEF CatchUpDay, HInv, Agenda, InSession, Days
  <2>2. CASE PreActivation(run.day)
    <3> DEFINE b == SkippedDay(book, run.day)
    <3>1. CloseCatchUpSession(b)
      BY <1>2, <2>2 DEF CatchUpDay
    <3>2. SoundBook(b, batch) /\ Quiet(book, b)
      <4>1. book.watermark <= run.day
        <5>1. run.day \in Int /\ book.watermark \in Int /\ book.watermark < run.day
          BY <1>f, <2>1
        <5> QED BY <5>1
      <4> QED BY <1>f, <2>1, <4>1, PointersSound, PointersQuiet
    <3>3. b.watermark = run.day /\ b.activated = book.activated
      BY <1>f DEF SkippedDay, Book
    <3> HIDE DEF b
    <3>4. TrueBook(b) /\ Extends(book, b) /\ CandleFillsMarked(b)
      BY <1>f, <2>1, <3>2, QuietKeeps, BetweenSessions DEF SoundBook
    <3> QED BY <2>1, <3>1, <3>2, <3>3, <3>4, CloseHistory
  <2>3. CASE ~PreActivation(run.day)
    <3>1. /\ StartSession(run.day) /\ run' = SessionRun(run.day)
          /\ UNCHANGED <<savepoint, durable>>
      BY <1>2, <2>3 DEF CatchUpDay
    <3>2. /\ run'.kind = run.kind /\ run'.stage = "fill" /\ run'.day = run.day
          /\ run'.days = run.days
      BY <1>f, <3>1 DEF SessionRun, Run
    <3>3. book.activated < run.day
      BY <2>3, RunFields DEF PreActivation
    <3>4. run' \in Run
      BY DEF IInv, TypeOK
    <3> QED BY <2>1, <3>1, <3>2, <3>3, <3>4, SessionHistory
  <2> QED BY <2>2, <2>3
<1>3. CASE CatchUpMark
  <2> DEFINE b == Marked(book, run.day)
  <2>1. /\ run.kind = "catchup" /\ run.stage = "fill" /\ InSession /\ CloseCatchUpSession(b)
    BY <1>3 DEF CatchUpMark, SessionFilled, InSession
  <2>2. /\ run.day \in Days /\ run.day # 0
        /\ book.activated # 0 /\ book.activated < run.day /\ book.watermark < run.day
        /\ \A e \in run.days : run.day < e
    BY <2>1, RunFields DEF HInv, Agenda, IInv, RunInv
  <2>3. /\ TrueBook(b) /\ Extends(book, b)
        /\ Filled(b) = Filled(book) /\ b.fills = book.fills
        /\ Booked(b) = Booked(book) \cup {run.day}
        /\ b.activated = book.activated /\ b.watermark = run.day
    BY <1>f, <2>2, MarkedKeeps
  <2>4. SoundBook(b, batch)
    BY <1>f, <2>2, MarkedSound
  <2> HIDE DEF b
  <2>5. CandleFillsMarked(b)
    BY <2>3 DEF HInv, SessionFills, CandleFillsMarked
  <2> QED BY <2>1, <2>2, <2>3, <2>4, <2>5, CloseHistory
<1>4. CASE FinishCatchUp
  <2>1. CommitAs(book) /\ run' = Idle /\ ~InSession
    BY <1>4 DEF FinishCatchUp, InSession
  <2> QED BY <1>f, <2>1, QuietCommit
<1> QED BY <1>1, <1>2, <1>3, <1>4

\* A blocked session, and the two ways a run fails.
LEMMA EndHistory == IInv /\ IInv' /\ HInv /\ (BlockSession \/ Failure) => HistoryKept
<1> SUFFICES ASSUME IInv, IInv', HInv, BlockSession \/ Failure PROVE HistoryKept
  OBVIOUS
<1>q. Quiet(book, book) /\ Quiet(savepoint, savepoint) /\ Quiet(savepoint, Refreshed(savepoint))
  BY PointersQuiet, StatusQuiet DEF IInv, TypeOK
<1>1. CASE BlockSession
  <2>1. run' = Idle /\ (CommitAs(savepoint) \/ CommitAs(Refreshed(savepoint)))
    BY <1>1 DEF BlockSession, BlockedBook
  <2>2. ASSUME NEW b, CommitAs(b), Quiet(savepoint, b) PROVE HistoryKept
    <3>1. b \in Book /\ durable \in Book /\ savepoint \in Book /\ SoundBook(savepoint, batch)
      BY <2>2 DEF IInv, TypeOK, CommitAs
    <3>2. TrueBook(b) /\ Extends(savepoint, b) /\ CandleFillsMarked(b)
      BY <2>2, <3>1, QuietKeeps DEF HInv, SessionFills
    <3>3. Extends(durable, b)
      BY <3>1, <3>2, ExtendsFurther DEF HInv, Kept
    <3> QED BY <2>1, <2>2, <3>2, <3>3, IdleAgenda, CommitHistory
  <2> QED BY <1>q, <2>1, <2>2
<1>2. CASE Crash
  <2>1. run' = Failed /\ CommitAs(durable)
    BY <1>2 DEF Crash
  <2>2. Extends(durable, durable) /\ TrueBook(durable) /\ CandleFillsMarked(durable)
    BY ExtendsItself DEF IInv, TypeOK, HInv, SessionFills
  <2> QED BY <2>1, <2>2, IdleAgenda, CommitHistory
<1>3. CASE Abort
  <2>1. run' = Failed
    BY <1>3 DEF Abort
  <2>2. CASE run.kind = "advance"
    <3>1. CommitAs(savepoint)
      BY <1>3, <2>2 DEF Abort
    <3>2. Extends(durable, savepoint) /\ TrueBook(savepoint) /\ CandleFillsMarked(savepoint)
      BY DEF HInv, Kept, SessionFills
    <3> QED BY <2>1, <3>1, <3>2, IdleAgenda, CommitHistory
  <2>3. CASE run.kind # "advance"
    <3>1. CommitAs(book) /\ ~InSession
      BY <1>3, <2>3 DEF Abort, InSession
    <3> QED BY <1>q, <2>1, <3>1, QuietCommit
  <2> QED BY <2>2, <2>3
<1> QED BY <1>1, <1>2, <1>3 DEF Failure

-----------------------------------------------------------------------------
(* The theorems.                                                           *)

\* Every step keeps the invariant and the committed history.
LEMMA NextHistory == IInv /\ IInv' /\ HInv /\ [Next]_vars => HistoryKept
<1> SUFFICES ASSUME IInv, IInv', HInv, [Next]_vars PROVE HistoryKept
  OBVIOUS
<1>1. CASE Environment
  BY <1>1, SameBooks DEF Environment, Tick, IngestBar, PublishBatch
<1>2. CASE Owner BY <1>2, OwnerHistory
<1>3. CASE StartRun \/ StartIntraday BY <1>3, StartHistory
<1>4. CASE RunStep
  <2>1. ASSUME NEW asOf \in Days, SkipBatch(asOf) \/ DecideWeek(asOf) PROVE HistoryKept
    BY <2>1, DecideHistory
  <2>2. ASSUME NEW k \in OrderKeys, FillOrder(k) PROVE HistoryKept
    BY <2>2, FillHistory
  <2>3. CASE BlockSession BY <2>3, EndHistory
  <2>4. CASE ListDays \/ AdvanceMark \/ FinishAdvance \/ \E d \in Days : AdvanceDay(d)
    BY <2>4, AdvanceHistory
  <2>5. CASE CatchUpDay \/ CatchUpMark \/ FinishCatchUp \/ \E d \in Days : OpenCatchUpSession(d)
    BY <2>5, CatchUpHistory
  <2> QED BY <1>4, <2>1, <2>2, <2>3, <2>4, <2>5 DEF RunStep
<1>5. CASE IntradayStep BY <1>5, IntradayHistory
<1>6. CASE Failure BY <1>6, EndHistory
<1>7. CASE UNCHANGED vars BY <1>7, SameBooks DEF vars
<1> QED BY <1>1, <1>2, <1>3, <1>4, <1>5, <1>6, <1>7 DEF Next

\* Every reachable state satisfies both invariants.
THEOREM TrueHistory == Spec => [](IInv /\ HInv)
<1>1. Init => IInv /\ HInv
  BY InitIInv, InitHInv
<1>2. (IInv /\ HInv) /\ [Next]_vars => (IInv /\ HInv)'
  BY NextIInv, NextHistory DEF HistoryKept
<1> QED BY <1>1, <1>2, PTL DEF Spec

\* Cash is the initial capital moved by the fill rows alone, in the middle of a run and
\* after every rollback, retry and crash.
THEOREM CashMatchesFillsHolds == Spec => []CashMatchesFills
<1>1. IInv /\ HInv => CashMatchesFills BY DEF HInv, TrueBook, CashMatchesFills
<1> QED BY <1>1, TrueHistory, PTL

\* Sessions are committed whole: a committed candle fill has its NAV row and watermark.
THEOREM FillsAreMarkedHolds == Spec => []FillsAreMarked
<1>1. IInv /\ HInv => FillsAreMarked BY DEF HInv, TrueBook, SessionFills, FillsAreMarked
<1> QED BY <1>1, TrueHistory, PTL

\* Peak and drawdown guard are a function of the recorded NAV rows: blocked, repeated and
\* caught-up sessions leave nothing else behind.
THEOREM RiskMatchesHistoryHolds == Spec => []RiskMatchesHistory
<1>1. IInv /\ HInv => RiskMatchesHistory BY DEF HInv, TrueBook, RiskMatchesHistory
<1> QED BY <1>1, TrueHistory, PTL

\* No intraday fill takes an OPEN that was known when its order was created.
THEOREM IntradayFillsKnewNoOpenHolds == Spec => []IntradayFillsKnewNoOpen
<1>1. IInv /\ HInv => IntradayFillsKnewNoOpen
  BY DEF HInv, TrueBook, IntradayFillsKnewNoOpen
<1> QED BY <1>1, TrueHistory, PTL

\* Fills, NAV rows, decisions and closed orders are never rewritten by a later commit.
THEOREM HistoryAppendOnlyHolds == Spec => HistoryAppendOnly
<1>1. IInv /\ HInv /\ (IInv /\ HInv)' /\ [Next]_vars => [Extends(durable, durable')]_durable
  BY NextHistory DEF HistoryKept
<1> QED BY <1>1, TrueHistory, PTL DEF Spec, HistoryAppendOnly

-----------------------------------------------------------------------------
(* Splits.                                                                 *)

\* The factor of a day from that of the day before.
SplitStep(applied, i, d, e, v) ==
    IF e <= d THEN 1 ELSE IF e \in applied THEN Split[e][i] * v ELSE v

\* The split factors go from day to day.
LEMMA SplitsGo ==
    ASSUME NEW applied, NEW i \in Instruments, NEW d \in 0..LastDay
    PROVE  /\ SplitFactors(applied, i, d)[0] = 1
           /\ \A e \in Days :
                 SplitFactors(applied, i, d)[e] =
                     SplitStep(applied, i, d, e, SplitFactors(applied, i, d)[e - 1])
           /\ \A e \in 0..LastDay : SplitFactors(applied, i, d)[e] \in Nat
<1> DEFINE After(e, v) == SplitStep(applied, i, d, e, v)
           Body(h, e) == IF e <= d THEN 1
                         ELSE IF e \in applied THEN Split[e][i] * h[e - 1]
                         ELSE h[e - 1]
           Solves(h) == h = [e \in 0..LastDay |-> Body(h, e)]
           step == [e \in 1..LastDay |-> [v \in Nat |-> After(e, v)]]
<1>l. LastDay \in Nat /\ Days = 1..LastDay /\ d \in Nat /\ 0 <= d
  BY CalendarAssumption DEF Days
<1>1. ASSUME NEW e \in Days, NEW v \in Nat PROVE After(e, v) \in Nat
  <2>1. Split[e][i] \in Nat
    BY PriceAssumption
  <2> QED BY <2>1 DEF SplitStep
<1>2. step \in [1..LastDay -> [Nat -> Nat]]
  <2> HIDE DEF After
  <2> QED BY <1>1, <1>l
<1>3. 1 \in Nat
  OBVIOUS
<1>4. PICK h \in [0..LastDay -> Nat] : Stepwise(LastDay, 1, step, h)
  <2> HIDE DEF step
  <2> QED BY <1>l, <1>2, <1>3, StepwiseFunction
<1>5. Solves(h)
  <2>1. ASSUME NEW e \in 0..LastDay PROVE h[e] = Body(h, e)
    <3>1. CASE e = 0 BY <1>4, <1>l, <3>1 DEF Stepwise, SplitStep
    <3>2. CASE e # 0
      <4>1. e \in 1..LastDay /\ e - 1 \in 0..LastDay BY <1>l, <3>2
      <4>2. h[e] = step[e][h[e - 1]] /\ h[e - 1] \in Nat BY <1>4, <3>2, <4>1 DEF Stepwise
      <4>3. step[e][h[e - 1]] = After(e, h[e - 1])
        <5> HIDE DEF After
        <5> QED BY <4>1, <4>2
      <4> QED BY <4>2, <4>3 DEF SplitStep
    <3> QED BY <3>1, <3>2
  <2>2. h = [e \in 0..LastDay |-> h[e]]
    OBVIOUS
  <2> HIDE DEF Body
  <2> QED BY <2>1, <2>2
<1>6. SplitFactors(applied, i, d) = CHOOSE g : Solves(g)
  BY DEF SplitFactors
<1>7. Solves(SplitFactors(applied, i, d))
  <2> HIDE DEF Solves
  <2> QED BY <1>5, <1>6
<1> DEFINE r == SplitFactors(applied, i, d)
<1>8. r[0] = 1
  BY <1>l, <1>7
<1>9. ASSUME NEW e \in Days PROVE r[e] = After(e, r[e - 1])
  <2>1. e \in 0..LastDay /\ e # 0 BY <1>l
  <2> QED BY <1>7, <2>1 DEF SplitStep
<1>10. \A e \in 0..LastDay : r[e] \in Nat
  <2> DEFINE N == {e \in 0..LastDay : r[e] \in Nat}
  <2>1. 0 \in N BY <1>l, <1>3, <1>8
  <2>2. ASSUME NEW m \in N, m < LastDay PROVE m + 1 \in N
    <3>1. m + 1 \in 0..LastDay /\ m + 1 \in Days /\ (m + 1) - 1 = m BY <1>l, <2>2
    <3>2. r[m + 1] = After(m + 1, r[m]) BY <1>9, <3>1
    <3>3. r[m] \in Nat
      OBVIOUS
    <3> QED BY <1>1, <3>1, <3>2, <3>3
  <2>3. N = 0..LastDay
    <3> HIDE DEF N
    <3>1. N \in SUBSET (0..LastDay) BY DEF N
    <3> QED BY <1>l, <2>1, <2>2, <3>1, IntervalInduction
  <2> QED BY <2>3
<1> QED BY <1>8, <1>9, <1>10

\* Days without a split change no factor.
LEMMA SplitsRest ==
    ASSUME NEW applied, NEW i \in Instruments, NEW d \in 0..LastDay,
           NEW D \in 0..LastDay, d <= D, \A e \in applied : e <= D
    PROVE  SplitsSince(applied, i, d) = SplitFactors(applied, i, d)[D]
<1> DEFINE r == SplitFactors(applied, i, d)
           n == LastDay - D
           N == {m \in 0..n : r[D + m] = r[D]}
<1>l. LastDay \in Nat /\ Days = 1..LastDay /\ D \in Nat /\ D <= LastDay /\ d \in Nat
  BY CalendarAssumption DEF Days
<1>1. 0 \in N /\ n \in Nat
  BY <1>l
<1>2. ASSUME NEW m \in N, m < n PROVE m + 1 \in N
  <2>1. /\ m + 1 \in 0..n /\ D + (m + 1) \in Days /\ (D + (m + 1)) - 1 = D + m
        /\ ~(D + (m + 1) <= D) /\ ~(D + (m + 1) <= d)
    BY <1>l, <1>2
  <2>2. D + (m + 1) \notin applied BY <2>1
  <2>3. r[D + (m + 1)] = SplitStep(applied, i, d, D + (m + 1), r[D + m])
    BY <2>1, SplitsGo
  <2>4. r[D + (m + 1)] = r[D + m]
    <3> HIDE DEF r
    <3> QED BY <2>1, <2>2, <2>3 DEF SplitStep
  <2> HIDE DEF r
  <2> QED BY <2>1, <2>4
<1>3. N = 0..n
  <2>1. N \in SUBSET (0..n)
    OBVIOUS
  <2> HIDE DEF N
  <2> QED BY <1>1, <1>2, <2>1, IntervalInduction
<1>4. n \in 0..n /\ D + n = LastDay
  BY <1>l
<1>5. n \in N
  BY <1>3, <1>4
<1>6. r[LastDay] = r[D]
  BY <1>4, <1>5
<1> QED BY <1>6 DEF SplitsSince

\* A fill on the latest of the days has seen no split yet.
LEMMA SplitsNone ==
    ASSUME NEW applied, NEW i \in Instruments, NEW d \in Days, \A e \in applied : e <= d
    PROVE  SplitsSince(applied, i, d) = 1
<1>1. d \in 0..LastDay /\ d <= d
  BY CalendarAssumption DEF Days
<1>2. SplitsSince(applied, i, d) = SplitFactors(applied, i, d)[d]
  BY <1>1, SplitsRest
<1>3. SplitFactors(applied, i, d)[d]
        = SplitStep(applied, i, d, d, SplitFactors(applied, i, d)[d - 1])
  BY <1>1, SplitsGo
<1> QED BY <1>1, <1>2, <1>3 DEF SplitStep

\* The split of a new latest day multiplies what came before.
LEMMA SplitsLatest ==
    ASSUME NEW applied, NEW i \in Instruments, NEW d \in Days, NEW x \in Days, d < x,
           \A e \in applied : e \in Int /\ e < x
    PROVE  /\ SplitsSince(applied, i, d) \in Nat
           /\ SplitsSince(applied \cup {x}, i, d) = Split[x][i] * SplitsSince(applied, i, d)
<1> DEFINE f == SplitFactors(applied \cup {x}, i, d)
           g == SplitFactors(applied, i, d)
<1>l. /\ LastDay \in Nat /\ Days = 1..LastDay /\ x \in Nat /\ d \in 0..LastDay
      /\ x - 1 \in 0..LastDay /\ x \in 0..LastDay /\ ~(x <= d) /\ d <= x - 1 /\ d <= x
  BY CalendarAssumption DEF Days
<1> DEFINE N == {m \in 0..(x - 1) : f[m] = g[m]}
<1>1. 0 \in N
  <2>1. f[0] = 1 /\ g[0] = 1
    BY <1>l, SplitsGo
  <2> HIDE DEF f, g
  <2> QED BY <1>l, <2>1
<1>2. ASSUME NEW m \in N, m < x - 1 PROVE m + 1 \in N
  <2>1. m + 1 \in 0..(x - 1) /\ m + 1 \in Days /\ (m + 1) - 1 = m /\ m + 1 # x
    BY <1>l, <1>2
  <2>2. f[m] = g[m]
    OBVIOUS
  <2>3. /\ f[m + 1] = SplitStep(applied \cup {x}, i, d, m + 1, f[m])
        /\ g[m + 1] = SplitStep(applied, i, d, m + 1, g[m])
    <3>1. /\ \A e \in Days : f[e] = SplitStep(applied \cup {x}, i, d, e, f[e - 1])
          /\ \A e \in Days : g[e] = SplitStep(applied, i, d, e, g[e - 1])
      BY <1>l, SplitsGo
    <3> HIDE DEF f, g
    <3> QED BY <2>1, <3>1
  <2>4. SplitStep(applied \cup {x}, i, d, m + 1, g[m]) = SplitStep(applied, i, d, m + 1, g[m])
    BY <2>1 DEF SplitStep
  <2>5. f[m + 1] = g[m + 1]
    <3> HIDE DEF f, g
    <3> QED BY <2>2, <2>3, <2>4
  <2> HIDE DEF f, g
  <2> QED BY <2>1, <2>5
<1>3. N = 0..(x - 1)
  <2>1. N \in SUBSET (0..(x - 1)) /\ x - 1 \in Nat
    BY <1>l
  <2> HIDE DEF N
  <2> QED BY <1>1, <1>2, <2>1, IntervalInduction
<1>4. f[x - 1] = g[x - 1]
  <2>1. x - 1 \in 0..(x - 1) BY <1>l
  <2>2. x - 1 \in N BY <1>3, <2>1
  <2> QED BY <2>2
<1>5. f[x] = Split[x][i] * f[x - 1]
  <2>1. x \in applied \cup {x}
    OBVIOUS
  <2>2. \A e \in Days : f[e] = SplitStep(applied \cup {x}, i, d, e, f[e - 1])
    BY <1>l, SplitsGo
  <2> HIDE DEF f
  <2> QED BY <1>l, <2>1, <2>2 DEF SplitStep
<1>6. SplitsSince(applied \cup {x}, i, d) = f[x]
  <2>1. \A e \in applied \cup {x} : e <= x
    BY <1>l
  <2> QED BY <1>l, <2>1, SplitsRest
<1>7. SplitsSince(applied, i, d) = g[x - 1]
  <2>1. \A e \in applied : e <= x - 1
    BY <1>l
  <2> QED BY <1>l, <2>1, SplitsRest
<1>8. g[x - 1] \in Nat
  BY <1>l, SplitsGo
<1> HIDE DEF f, g
<1> QED BY <1>4, <1>5, <1>6, <1>7, <1>8

-----------------------------------------------------------------------------
(* Holdings.                                                               *)

\* The fills of one side in one instrument, and the units each is worth now.
FillsOf(b, i, side) == {k \in Sides(b, side) : k[2] = i}
UnitsNow(b, applied, i, k) == b.fills[k].qty * SplitsSince(applied, i, b.fills[k].day)

LEMMA UnitsAreSums ==
    ASSUME NEW b \in Book, NEW applied, NEW i \in Instruments, NEW side
    PROVE  /\ UnitsFilled(b, applied, i, side)
                  = SumFunction([k \in FillsOf(b, i, side) |-> UnitsNow(b, applied, i, k)])
           /\ IsFiniteSet(FillsOf(b, i, side))
           /\ \A k \in Filled(b) : /\ b.fills[k].qty \in Nat
                                   /\ SplitsSince(applied, i, b.fills[k].day) \in Nat
                                   /\ UnitsNow(b, applied, i, k) \in Int
           /\ FillsOf(b, i, side) \subseteq Filled(b)
           /\ UnitsFilled(b, applied, i, side) \in Int
<1> DEFINE S == FillsOf(b, i, side)
           f == [k \in S |-> UnitsNow(b, applied, i, k)]
<1>1. UnitsFilled(b, applied, i, side) = SumFunction(f)
  BY DEF UnitsFilled, FillsOf, UnitsNow
<1>2. S \subseteq Filled(b) /\ S \in SUBSET OrderKeys
  BY DEF FillsOf, Sides, Filled
<1>3. IsFiniteSet(S)
  BY <1>2, OrderKeysFinite
<1>4. ASSUME NEW k \in Filled(b)
      PROVE  /\ b.fills[k].qty \in Nat
             /\ SplitsSince(applied, i, b.fills[k].day) \in Nat
             /\ UnitsNow(b, applied, i, k) \in Int
  <2>1. b.fills[k] \in Fill
    BY DEF Filled, Book
  <2>2. b.fills[k].qty \in Nat /\ b.fills[k].day \in 0..LastDay /\ LastDay \in 0..LastDay
    BY <2>1, BoundsAssumption, CalendarAssumption DEF Fill
  <2>3. SplitsSince(applied, i, b.fills[k].day) \in Nat
    BY <2>2, SplitsGo DEF SplitsSince
  <2>4. b.fills[k].qty * SplitsSince(applied, i, b.fills[k].day) \in Int
    BY <2>2, <2>3
  <2> QED BY <2>2, <2>3, <2>4 DEF UnitsNow
<1>5. SumFunction(f) \in Int
  <2>1. DOMAIN f = S /\ \A k \in S : f[k] \in Int
    BY <1>2, <1>4
  <2> HIDE DEF f, S
  <2> QED BY <1>3, <2>1, SumIsInt DEF SumFunction
<1> QED BY <1>1, <1>2, <1>3, <1>4, <1>5

\* Holdings depend on units, fills and sides only.
LEMMA HoldingsAgree ==
    ASSUME NEW b, NEW c, NEW applied, HoldingsAreFills(b, applied), c.units = b.units,
           Filled(c) = Filled(b),
           \A k \in Filled(b) : c.fills[k] = b.fills[k] /\ c.orders[k].side = b.orders[k].side
    PROVE  HoldingsAreFills(c, applied)
<1>1. ASSUME NEW i, NEW side PROVE FillsOf(c, i, side) = FillsOf(b, i, side)
  BY DEF FillsOf, Sides
<1>2. ASSUME NEW i, NEW side, NEW k \in FillsOf(b, i, side)
      PROVE  UnitsNow(c, applied, i, k) = UnitsNow(b, applied, i, k)
  BY DEF FillsOf, Sides, UnitsNow
<1>3. ASSUME NEW i, NEW side
      PROVE  UnitsFilled(c, applied, i, side) = UnitsFilled(b, applied, i, side)
  <2>1. [k \in FillsOf(c, i, side) |-> UnitsNow(c, applied, i, k)]
          = [k \in FillsOf(b, i, side) |-> UnitsNow(b, applied, i, k)]
    BY <1>1, <1>2
  <2> QED BY <2>1 DEF UnitsFilled, FillsOf, UnitsNow
<1> QED BY <1>3 DEF HoldingsAreFills

\* The splits of a new latest day adjust every fill before it, and the position.
LEMMA HoldingsSplit ==
    ASSUME NEW b \in Book, NEW c \in Book, NEW applied \in SUBSET Days, NEW x \in Days,
           HoldingsAreFills(b, applied), c = CorporateActions(b, x),
           \A e \in applied : e < x, \A k \in Filled(b) : b.fills[k].day < x
    PROVE  HoldingsAreFills(c, applied \cup {x})
<1>1. c.fills = b.fills /\ c.orders = b.orders /\ c.units = SplitHoldings(b, x)
  BY DEF CorporateActions, Book
<1>2. \A e \in applied : e \in Int /\ e < x
  BY DEF Days
<1>3. ASSUME NEW i \in Instruments, NEW side
      PROVE  /\ UnitsFilled(c, applied \cup {x}, i, side) = Split[x][i] * UnitsFilled(b, applied, i, side)
             /\ UnitsFilled(b, applied, i, side) \in Int
  <2> DEFINE S == FillsOf(b, i, side)
             f == [k \in S |-> UnitsNow(b, applied, i, k)]
             g == [k \in S |-> UnitsNow(b, applied \cup {x}, i, k)]
  <2>1. UnitsFilled(c, applied \cup {x}, i, side) = SumFunction(g)
    BY <1>1 DEF UnitsFilled, FillsOf, UnitsNow, Sides, Filled
  <2>2. UnitsFilled(b, applied, i, side) = SumFunction(f) /\ SumFunction(f) \in Int
    BY UnitsAreSums
  <2>3. Split[x][i] \in Int
    BY PriceAssumption
  <2>4. ASSUME NEW k \in S PROVE f[k] \in Int /\ g[k] = Split[x][i] * f[k]
    <3> DEFINE q == b.fills[k].qty
               m == SplitsSince(applied, i, b.fills[k].day)
    <3>1. k \in Filled(b) /\ b.fills[k].day \in Days
      BY UnitsAreSums, FillAmounts
    <3>2. q \in Nat /\ m \in Nat
      BY <3>1, UnitsAreSums
    <3>3. SplitsSince(applied \cup {x}, i, b.fills[k].day) = Split[x][i] * m
      BY <1>2, <3>1, SplitsLatest
    <3>4. f[k] = q * m /\ g[k] = q * (Split[x][i] * m)
      BY <3>3 DEF UnitsNow
    <3> HIDE DEF q, m, f, g
    <3> QED BY <2>3, <3>2, <3>4
  <2>5. IsFiniteSet(S) /\ DOMAIN f = S /\ DOMAIN g = S
    BY UnitsAreSums
  <2>6. SumFunction(g) = Split[x][i] * SumFunction(f)
    <3> HIDE DEF f, g, S
    <3> QED BY <2>3, <2>4, <2>5, SumScale DEF SumFunction
  <2> HIDE DEF f, g
  <2> QED BY <2>1, <2>2, <2>6
<1>4. ASSUME NEW i \in Instruments
      PROVE  c.units[i] = UnitsFilled(c, applied \cup {x}, i, "BUY")
                          - UnitsFilled(c, applied \cup {x}, i, "SELL")
  <2> DEFINE buys == UnitsFilled(b, applied, i, "BUY")
             sells == UnitsFilled(b, applied, i, "SELL")
  <2>1. c.units[i] = b.units[i] * Split[x][i] /\ b.units[i] = buys - sells
    BY <1>1 DEF SplitHoldings, HoldingsAreFills
  <2>2. Split[x][i] \in Int /\ buys \in Int /\ sells \in Int
    BY <1>3, PriceAssumption
  <2>3. /\ UnitsFilled(c, applied \cup {x}, i, "BUY") = Split[x][i] * buys
        /\ UnitsFilled(c, applied \cup {x}, i, "SELL") = Split[x][i] * sells
    BY <1>3
  <2>4. (buys - sells) * Split[x][i] = Split[x][i] * buys - Split[x][i] * sells
    <3> HIDE DEF buys, sells
    <3> QED BY <2>2
  <2> HIDE DEF buys, sells
  <2> QED BY <2>1, <2>3, <2>4
<1> QED BY <1>4 DEF HoldingsAreFills

\* A fill on the latest day adds its units to one side of one instrument.
LEMMA UnitsInsert ==
    ASSUME NEW b \in Book, NEW c \in Book, NEW applied, NEW k, k \notin Filled(b),
           Filled(c) = Filled(b) \cup {k},
           \A j \in Filled(b) : c.fills[j] = b.fills[j] /\ c.orders[j] = b.orders[j],
           \A e \in applied : e <= c.fills[k].day,
           NEW i \in Instruments, NEW side
    PROVE  /\ UnitsFilled(b, applied, i, side) \in Int
           /\ UnitsFilled(c, applied, i, side) =
                  IF k[2] = i /\ c.orders[k].side = side
                  THEN UnitsFilled(b, applied, i, side) + c.fills[k].qty
                  ELSE UnitsFilled(b, applied, i, side)
<1> DEFINE S(x) == FillsOf(x, i, side)
           f(x) == [j \in S(x) |-> UnitsNow(x, applied, i, j)]
<1>1. \A x \in {b, c} : /\ UnitsFilled(x, applied, i, side) = SumFunction(f(x))
                        /\ IsFiniteSet(S(x)) /\ DOMAIN f(x) = S(x)
                        /\ \A j \in S(x) : f(x)[j] \in Int
                        /\ SumFunction(f(x)) \in Int
  BY UnitsAreSums
<1>2. ASSUME NEW j, j # k PROVE j \in S(c) <=> j \in S(b)
  BY <1>2 DEF FillsOf, Sides
<1>3. ASSUME NEW j \in S(b) PROVE UnitsNow(c, applied, i, j) = UnitsNow(b, applied, i, j)
  BY DEF UnitsNow, FillsOf, Sides
<1>4. k \notin S(b)
  BY DEF FillsOf, Sides
<1>5. k \in S(c) <=> k[2] = i /\ c.orders[k].side = side
  BY DEF FillsOf, Sides
<1>6. CASE k \in S(c)
  <2>1. S(c) = S(b) \cup {k}
    BY <1>2, <1>6
  <2>2. \A j \in S(b) : f(c)[j] = f(b)[j]
    BY <1>3, <2>1
  <2>3. f(c)[k] = c.fills[k].qty
    <3>1. k \in Filled(c) /\ c.fills[k].day \in Days /\ c.fills[k].qty \in Nat
      BY FillAmounts, UnitsAreSums
    <3>2. SplitsSince(applied, i, c.fills[k].day) = 1
      BY <3>1, SplitsNone
    <3> QED BY <1>6, <3>1, <3>2 DEF UnitsNow
  <2>4. SumFunction(f(c)) = f(c)[k] + SumFunction(f(b))
    <3>1. /\ IsFiniteSet(DOMAIN f(b)) /\ k \notin DOMAIN f(b)
          /\ DOMAIN f(c) = DOMAIN f(b) \cup {k}
          /\ \A y \in DOMAIN f(c) : f(c)[y] \in Int
          /\ \A y \in DOMAIN f(b) : f(c)[y] = f(b)[y]
      BY <1>1, <1>4, <2>1, <2>2
    <3> HIDE DEF f, S
    <3> QED BY <3>1, SumFunctionInsert
  <2>5. c.fills[k].qty \in Int
    <3>1. k \in Filled(c)
      OBVIOUS
    <3>2. c.fills[k].qty \in Nat
      BY <3>1, UnitsAreSums
    <3> QED BY <3>2
  <2> HIDE DEF f, S
  <2> QED BY <1>1, <1>5, <1>6, <2>3, <2>4, <2>5
<1>7. CASE k \notin S(c)
  <2>1. S(c) = S(b)
    BY <1>2, <1>4, <1>7
  <2>2. f(c) = f(b)
    BY <1>3, <2>1
  <2> HIDE DEF f, S
  <2> QED BY <1>1, <1>5, <1>7, <2>2
<1> QED BY <1>6, <1>7

\* A fill of the latest day moves the position by what it bought or sold.
LEMMA HoldingsFilled ==
    ASSUME NEW b \in Book, NEW c \in Book, NEW applied, NEW k \in OrderKeys, k \notin Filled(b),
           Filled(c) = Filled(b) \cup {k},
           \A j \in Filled(b) : c.fills[j] = b.fills[j] /\ c.orders[j] = b.orders[j],
           \A e \in applied : e <= c.fills[k].day,
           HoldingsAreFills(b, applied),
           c.units = [b.units EXCEPT ![k[2]] =
                         IF c.orders[k].side = "BUY" THEN @ + c.fills[k].qty
                         ELSE @ - c.fills[k].qty]
    PROVE  HoldingsAreFills(c, applied)
<1> SUFFICES ASSUME NEW i \in Instruments
             PROVE  c.units[i] = UnitsFilled(c, applied, i, "BUY") - UnitsFilled(c, applied, i, "SELL")
  BY DEF HoldingsAreFills
<1> DEFINE U(x, side) == UnitsFilled(x, applied, i, side)
           side == c.orders[k].side
           q == c.fills[k].qty
<1>1. ASSUME NEW s
      PROVE  /\ U(b, s) \in Int
             /\ U(c, s) = IF k[2] = i /\ side = s THEN U(b, s) + q ELSE U(b, s)
  BY UnitsInsert
<1>2. side \in {"BUY", "SELL"} /\ q \in Nat
  <2>1. k \in Filled(c) /\ c.orders[k] \in Order
    BY DEF Book
  <2> QED BY <2>1, UnitsAreSums DEF Order
<1>3. b.units[i] = U(b, "BUY") - U(b, "SELL")
  BY DEF HoldingsAreFills
<1>4. c.units[i] = IF k[2] # i THEN b.units[i]
                   ELSE IF side = "BUY" THEN b.units[i] + q ELSE b.units[i] - q
  BY DEF Book, Holdings, OrderKeys
<1>5. U(b, "BUY") \in Int /\ U(b, "SELL") \in Int
  BY <1>1
<1> HIDE DEF U, side, q
<1> QED BY <1>1, <1>2, <1>3, <1>4, <1>5 DEF U

-----------------------------------------------------------------------------
(* NAV rows and holdings.  An intraday fill of a day takes a place in the  *)
(* ledger before the day's splits and before days not marked yet, so what  *)
(* follows is about a system with INTRADAY_MARKET_ENABLED off, its         *)
(* default: every fill is then of the session in hand or of a marked day.  *)

\* Only the candle path filled, and NAV rows hold the cash of the past.
CandleBook(b) ==
    /\ \A k \in Filled(b) : b.fills[k].source = "CANDLE"
    /\ NavIsPastCash(b)

\* Such a book between sessions: the splits applied are those of the marked days.
SettledBook(b) == CandleBook(b) /\ HoldingsAreFills(b, Booked(b))

\* The days whose splits the book of the run has applied.
Applied == Booked(book) \cup (IF InSession THEN {run.day} ELSE {})

CandleInv ==
    /\ run.kind # "intraday"
    /\ CandleBook(book)
    /\ HoldingsAreFills(book, Applied)
    /\ SettledBook(savepoint)
    /\ SettledBook(durable)

\* A quiet step that leaves the positions alone.
LEMMA QuietSettled ==
    ASSUME NEW published, NEW b, SoundBook(b, published), NEW c \in Book, Quiet(b, c)
    PROVE  /\ CandleBook(b) => CandleBook(c)
           /\ c.units = b.units =>
                 \A applied : HoldingsAreFills(b, applied) => HoldingsAreFills(c, applied)
           /\ c.units = b.units /\ SettledBook(b) => SettledBook(c)
           /\ Filled(c) = Filled(b) /\ Booked(c) = Booked(b) /\ c.fills = b.fills
<1>1. Filled(c) = Filled(b) /\ Booked(c) = Booked(b) /\ c.fills = b.fills /\ c.nav = b.nav
  BY DEF Quiet, Filled, Booked
<1>2. ASSUME NEW k \in Filled(b) PROVE c.orders[k] = b.orders[k]
  BY FilledOrders DEF Quiet
<1>3. ASSUME CandleBook(b) PROVE CandleBook(c)
  <2> SUFFICES ASSUME NEW d \in Booked(b)
               PROVE  b.nav[d].cash = CashAfter(c, {k \in Filled(b) : b.fills[k].day <= d})
    BY <1>1, <1>3 DEF CandleBook, NavIsPastCash
  <2> DEFINE K == {k \in Filled(b) : b.fills[k].day <= d}
  <2>1. K \in SUBSET OrderKeys /\ \A k \in K \cap Filled(b) : c.orders[k].side = b.orders[k].side
    BY <1>2 DEF Filled
  <2>2. \A k \in K : c.fills[k] = b.fills[k]
    BY <1>1
  <2>3. b.nav[d].cash = CashAfter(b, K)
    BY <1>3 DEF CandleBook, NavIsPastCash
  <2> HIDE DEF K
  <2>4. CashAfter(c, K) = CashAfter(b, K)
    BY <2>1, <2>2, CashAgrees
  <2> QED BY <2>3, <2>4 DEF K
<1>4. ASSUME c.units = b.units, NEW applied, HoldingsAreFills(b, applied)
      PROVE  HoldingsAreFills(c, applied)
  BY <1>1, <1>2, <1>4, HoldingsAgree
<1> QED BY <1>1, <1>3, <1>4 DEF SettledBook

\* A step that ends outside a session.
LEMMA SettledBetween ==
    ASSUME CandleInv, ~InSession', run'.kind # "intraday", SettledBook(book'),
           savepoint' \in {savepoint, durable, book'}, durable' \in {durable, book'}
    PROVE  CandleInv'
BY DEF CandleInv, SettledBook, Applied

\* Between sessions the book of the run is settled.
LEMMA BookSettled ==
    ASSUME CandleInv, ~InSession PROVE SettledBook(book)
<1>1. Applied = Booked(book) BY DEF Applied
<1> QED BY <1>1 DEF CandleInv, SettledBook

\* A quiet step between sessions that leaves the positions alone.
LEMMA QuietBetween ==
    ASSUME IInv, IInv', CandleInv, ~InSession, ~InSession', run'.kind # "intraday",
           Quiet(book, book'), book'.units = book.units,
           savepoint' \in {savepoint, book'}, durable' \in {durable, book'}
    PROVE  CandleInv'
<1>1. SoundBook(book, batch) /\ book' \in Book
  BY DEF IInv, TypeOK
<1>2. SettledBook(book')
  BY <1>1, BookSettled, QuietSettled
<1> QED BY <1>2, SettledBetween

\* In a session the fills are of its day or of a marked one, and all marked days are earlier.
LEMMA SessionDays ==
    ASSUME IInv, HInv, CandleInv
    PROVE  /\ \A k \in Filled(book) : /\ book.fills[k].day \in Days
                                      /\ \/ book.fills[k].day \in Booked(book)
                                         \/ InSession /\ book.fills[k].day = run.day
           /\ \A e \in Booked(book) : e \in Days /\ e <= book.watermark
           /\ \A d \in Days : book.watermark < d => \A e \in Booked(book) : e < d
<1>1. book \in Book /\ book.watermark \in Int /\ Days \subseteq Int
  BY RunFields
<1>2. \A e \in Booked(book) : e \in Days /\ e <= book.watermark
  BY DEF HInv, TrueBook, MarkedAfterActivation, Booked
<1>3. ASSUME NEW d \in Days, book.watermark < d, NEW e \in Booked(book) PROVE e < d
  <2>1. e \in Int /\ d \in Int /\ book.watermark \in Int /\ e <= book.watermark
    BY <1>1, <1>2
  <2> QED BY <1>3, <2>1
<1>4. ASSUME NEW k \in Filled(book)
      PROVE  /\ book.fills[k].day \in Days
             /\ \/ book.fills[k].day \in Booked(book)
                \/ InSession /\ book.fills[k].day = run.day
  BY <1>1, FillAmounts DEF CandleInv, CandleBook, HInv, SessionFills
<1> QED BY <1>2, <1>3, <1>4

\* A session opens: its splits adjust every fill so far.
LEMMA SessionSettled ==
    ASSUME IInv, IInv', HInv, CandleInv, NEW d \in Days, StartSession(d), ~InSession,
           UNCHANGED <<savepoint, durable>>, book.watermark < d,
           run'.stage = "fill", run'.day = d, run'.kind # "intraday"
    PROVE  CandleInv'
<1>1. SoundBook(book, batch) /\ book \in Book /\ book' \in Book
  BY DEF IInv, TypeOK
<1>2. book' = CorporateActions(book, d)
  BY DEF StartSession
<1>3. Quiet(book, book')
  BY <1>1, <1>2, PointersQuiet
<1>4. CandleBook(book') /\ Booked(book') = Booked(book)
  BY <1>1, <1>3, QuietSettled DEF CandleInv
<1>5. \A e \in Booked(book) : e < d
  BY SessionDays
<1>6. \A k \in Filled(book) : book.fills[k].day < d
  BY <1>5, SessionDays
<1>7. Booked(book) \in SUBSET Days /\ HoldingsAreFills(book, Booked(book))
  BY BookSettled DEF SettledBook, Booked
<1>8. HoldingsAreFills(book', Booked(book) \cup {d})
  BY <1>1, <1>2, <1>5, <1>6, <1>7, HoldingsSplit
<1>9. Applied' = Booked(book) \cup {d}
  BY <1>4 DEF Applied, InSession
<1> QED BY <1>4, <1>8, <1>9 DEF CandleInv

\* A fill of the session in hand.
LEMMA FillSettled ==
    ASSUME IInv, IInv', HInv, CandleInv, NEW k \in OrderKeys, InSession,
           run.kind \in {"advance", "catchup"}, UNCHANGED <<savepoint, durable>>,
           FillKept(book, book', k, run.day, "CANDLE"), run' = OrderTried(k),
           book'.units = [book.units EXCEPT ![k[2]] =
                             IF book'.orders[k].side = "BUY" THEN @ + book'.fills[k].qty
                             ELSE @ - book'.fills[k].qty]
    PROVE  CandleInv'
<1>1. /\ book \in Book /\ book' \in Book /\ run.day \in Days /\ run \in Run
      /\ book.watermark < run.day /\ Days \subseteq Int
  BY RunFields DEF InSession, IInv, TypeOK, HInv, Agenda, Days
<1>2. /\ k \notin Filled(book) /\ Filled(book') = Filled(book) \cup {k}
      /\ Booked(book') = Booked(book) /\ book'.fills[k].day = run.day
      /\ book'.fills[k].source = "CANDLE"
      /\ \A j \in Filled(book) : book'.fills[j] = book.fills[j] /\ book'.orders[j] = book.orders[j]
  BY DEF FillKept
<1>3. run'.kind = run.kind /\ run'.stage = run.stage /\ run'.day = run.day
  BY <1>1 DEF OrderTried, Run
<1>4. Applied' = Applied /\ Applied = Booked(book) \cup {run.day}
  BY <1>2, <1>3 DEF Applied, InSession
<1>5. \A e \in Booked(book) : e \in Days /\ e < run.day
  BY <1>1, SessionDays
<1>6. HoldingsAreFills(book', Applied)
  <2>1. ASSUME NEW e \in Applied PROVE e <= book'.fills[k].day
    <3>1. e = run.day \/ e < run.day
      BY <1>4, <1>5
    <3>2. e \in Int /\ run.day \in Int
      BY <1>1, <1>4, <1>5
    <3> QED BY <1>2, <3>1, <3>2
  <2> QED BY <1>1, <1>2, <2>1, HoldingsFilled DEF CandleInv
<1>7. NavIsPastCash(book')
  <2> SUFFICES ASSUME NEW d \in Booked(book)
               PROVE  book'.nav[d].cash
                          = CashAfter(book', {j \in Filled(book') : book'.fills[j].day <= d})
    BY <1>2 DEF NavIsPastCash
  <2> DEFINE K == {j \in Filled(book) : book.fills[j].day <= d}
  <2>1. {j \in Filled(book') : book'.fills[j].day <= d} = K
    <3>1. ~(run.day <= d)
      <4>1. d < run.day /\ d \in Int /\ run.day \in Int
        BY <1>1, <1>5
      <4> QED BY <4>1
    <3> QED BY <1>2, <3>1
  <2>2. /\ K \in SUBSET OrderKeys /\ \A j \in K : book'.fills[j] = book.fills[j]
        /\ \A j \in K \cap Filled(book) : book'.orders[j].side = book.orders[j].side
    BY <1>2 DEF Filled
  <2>3. book'.nav[d] = book.nav[d]
    BY DEF FillKept, Extends, Booked
  <2>4. book.nav[d].cash = CashAfter(book, K)
    BY DEF CandleInv, CandleBook, NavIsPastCash
  <2> HIDE DEF K
  <2>5. CashAfter(book', K) = CashAfter(book, K)
    BY <2>2, CashAgrees
  <2> QED BY <2>1, <2>3, <2>4, <2>5
<1>8. \A j \in Filled(book') : book'.fills[j].source = "CANDLE"
  BY <1>2 DEF CandleInv, CandleBook
<1> QED BY <1>3, <1>4, <1>6, <1>7, <1>8 DEF CandleInv, CandleBook

\* A NAV row of the session in hand: its cash is that of all fills so far.
LEMMA MarkSettled ==
    ASSUME IInv, HInv, CandleInv, InSession, run.kind \in {"advance", "catchup"}
    PROVE  SettledBook(Marked(book, run.day))
<1> DEFINE d == run.day
           c == Marked(book, d)
           K(e) == {k \in Filled(book) : book.fills[k].day <= e}
<1>1. /\ book \in Book /\ d \in Days /\ book.watermark < d /\ Days \subseteq Int
      /\ SoundBook(book, batch) /\ TrueBook(book)
      /\ book.activated # 0 /\ book.activated < d
  BY RunFields DEF InSession, IInv, HInv, Agenda, Days
<1>2. \A e \in Booked(book) : e \in Days /\ e < d
  BY <1>1, SessionDays
<1>3. /\ Filled(c) = Filled(book) /\ c.fills = book.fills /\ c.orders = book.orders
      /\ Booked(c) = Booked(book) \cup {d} /\ Extends(book, c)
  BY <1>1, MarkedKeeps
<1>4. c.units = book.units /\ c.nav[d].cash = book.cash
  BY <1>1, <1>2 DEF Marked, Book, Booked
<1>5. ASSUME NEW k \in Filled(book) PROVE book.fills[k].day <= d
  <2>1. book.fills[k].day = d \/ book.fills[k].day < d
    BY <1>2, SessionDays
  <2>2. book.fills[k].day \in Int /\ d \in Int
    BY <1>1, SessionDays
  <2> QED BY <2>1, <2>2
<1>6. ASSUME NEW e PROVE CashAfter(c, K(e)) = CashAfter(book, K(e))
  <2>1. K(e) \in SUBSET OrderKeys
    BY DEF Filled
  <2> HIDE DEF K, c
  <2> QED BY <1>3, <2>1, CashAgrees
<1>7. CashAfter(book, K(d)) = book.cash
  <2>1. K(d) = Filled(book)
    BY <1>5
  <2>2. ASSUME NEW side
        PROVE  Filled(book) \cap Sides(book, side) = OrderKeys \cap Sides(book, side)
    BY DEF Sides, Filled
  <2>3. CashAfter(book, Filled(book)) = CashAfter(book, OrderKeys)
    BY <2>2, Zenon DEF CashAfter
  <2> QED BY <1>1, <2>1, <2>3 DEF TrueBook, CashIsFills
<1>8. NavIsPastCash(c)
  <2> SUFFICES ASSUME NEW e \in Booked(c) PROVE c.nav[e].cash = CashAfter(c, K(e))
    BY <1>3 DEF NavIsPastCash
  <2>1. CASE e = d
    BY <1>4, <1>6, <1>7, <2>1
  <2>2. CASE e # d
    <3>1. e \in Booked(book)
      BY <1>3, <2>2
    <3>2. c.nav[e] = book.nav[e]
      BY <1>3, <3>1 DEF Extends
    <3>3. book.nav[e].cash = CashAfter(book, K(e))
      BY <3>1 DEF CandleInv, CandleBook, NavIsPastCash
    <3> HIDE DEF c, K
    <3> QED BY <1>6, <3>2, <3>3
  <2> QED BY <2>1, <2>2
<1>9. HoldingsAreFills(c, Booked(c))
  <2>1. Applied = Booked(c)
    BY <1>3 DEF Applied
  <2>2. HoldingsAreFills(book, Applied)
    BY DEF CandleInv
  <2> HIDE DEF c
  <2> QED BY <1>3, <1>4, <2>1, <2>2, HoldingsAgree
<1> HIDE DEF c
<1>10. CandleBook(c)
  BY <1>3, <1>8 DEF CandleInv, CandleBook
<1> QED BY <1>9, <1>10 DEF SettledBook, c

\* A portfolio nobody has traded.
LEMMA InitSettled == Init => CandleInv
<1> SUFFICES ASSUME Init PROVE CandleInv
  OBVIOUS
<1>1. book = EmptyBook /\ savepoint = EmptyBook /\ durable = EmptyBook /\ run = Idle
  BY DEF Init
<1>2. run.kind # "intraday" /\ ~InSession
  BY <1>1 DEF Idle, InSession
<1>3. Filled(EmptyBook) = {} /\ Booked(EmptyBook) = {} /\ EmptyBook \in Book
  BY EmptyBookSound DEF EmptyBook, Filled, Booked, NoFill, NoNavRow, SoundBook
<1>4. CandleBook(EmptyBook)
  BY <1>3 DEF CandleBook, NavIsPastCash
<1>5. HoldingsAreFills(EmptyBook, Booked(EmptyBook))
  <2> SUFFICES ASSUME NEW i \in Instruments
               PROVE  EmptyBook.units[i] = UnitsFilled(EmptyBook, {}, i, "BUY")
                                           - UnitsFilled(EmptyBook, {}, i, "SELL")
    BY <1>3 DEF HoldingsAreFills
  <2>1. ASSUME NEW side PROVE UnitsFilled(EmptyBook, {}, i, side) = 0
    <3> DEFINE f == [k \in {} |-> UnitsNow(EmptyBook, {}, i, k)]
    <3>1. FillsOf(EmptyBook, i, side) = {}
      BY <1>3 DEF FillsOf, Sides
    <3>2. UnitsFilled(EmptyBook, {}, i, side) = SumFunction(f)
      <4>1. UnitsFilled(EmptyBook, {}, i, side)
              = SumFunction([k \in FillsOf(EmptyBook, i, side) |-> UnitsNow(EmptyBook, {}, i, k)])
        BY <1>3, UnitsAreSums
      <4> QED BY <3>1, <4>1
    <3>3. SumFunction(f) = 0
      <4>1. DOMAIN f = {}
        OBVIOUS
      <4> HIDE DEF f
      <4> QED BY <4>1, SumEmpty DEF SumFunction
    <3> QED BY <3>2, <3>3
  <2> QED BY <2>1 DEF EmptyBook
<1>6. SettledBook(EmptyBook) BY <1>4, <1>5 DEF SettledBook
<1> QED BY <1>1, <1>2, <1>6, BookSettled DEF CandleInv, SettledBook, Applied

\* The surroundings, and a step that changes nothing.
LEMMA SameSettled ==
    ASSUME CandleInv, UNCHANGED <<book, savepoint, durable, run>> PROVE CandleInv'
BY DEF CandleInv, Applied, InSession

\* Owner, start of a run, decisions.
LEMMA BetweenSettled ==
    ASSUME IInv, IInv', CandleInv,
           Owner \/ StartRun \/ \E asOf \in Days : SkipBatch(asOf) \/ DecideWeek(asOf)
    PROVE  CandleInv'
<1>1. CASE Owner
  <2>1. ~InSession /\ ~InSession' /\ run'.kind # "intraday"
    BY <1>1, OwnerQuiet, IdleRun DEF InSession
  <2> QED BY <1>1, <2>1, OwnerQuiet, QuietBetween
<1>2. CASE StartRun
  <2>1. ~InSession /\ ~InSession' /\ run'.kind # "intraday" /\ UNCHANGED <<book, savepoint, durable>>
    BY <1>2, IdleRun
       DEF StartRun, StartAdvance, StartCatchUpNoOp, StartCatchUp, NoRun, Idle, InSession
  <2>2. Quiet(book, book)
    BY PointersQuiet DEF IInv, TypeOK
  <2> QED BY <2>1, <2>2, QuietBetween
<1>3. ASSUME NEW asOf \in Days, SkipBatch(asOf) \/ DecideWeek(asOf) PROVE CandleInv'
  <2>1. /\ ~InSession /\ ~InSession' /\ run'.kind # "intraday"
        /\ Quiet(book, book') /\ book'.units = book.units
        /\ savepoint' \in {savepoint, book'} /\ durable' \in {durable, book'}
    BY <1>3, BatchQuiet DEF InSession
  <2> QED BY <2>1, QuietBetween
<1> QED BY <1>1, <1>2, <1>3

\* An order of the candle path.
LEMMA OrderSettled ==
    ASSUME IInv, IInv', HInv, CandleInv, NEW k \in OrderKeys, FillOrder(k) PROVE CandleInv'
<1> DEFINE d == run.day
<1>1. /\ run.stage = "fill" /\ k \in run.orders /\ run' = OrderTried(k)
      /\ UNCHANGED <<savepoint, durable, batch>> /\ InSession
      /\ run.kind \in {"advance", "catchup"}
  BY DEF FillOrder, NextOrder, InSession
<1>2. k \in Pending(book) /\ SoundBook(book, batch) /\ TrueBook(book) /\ d \in Days
  BY <1>1, RunFields DEF IInv, RunInv, HInv
<1>3. SoundBook(book', batch) /\ book \in Book /\ book' \in Book /\ run \in Run
  BY <1>1 DEF IInv, TypeOK
<1>4. CASE book.orders[k].side = "BUY" /\ book' = Bought(book, k, d, "CANDLE")
  <2>1. FillKept(book, book', k, d, "CANDLE")
    BY <1>2, <1>3, <1>4, BoughtKeeps
  <2>2. /\ book'.orders[k].side = "BUY" /\ book'.fills[k].qty = book.orders[k].qty
        /\ book'.units = [book.units EXCEPT ![k[2]] = @ + book.orders[k].qty]
    <3>1. /\ book'.orders = [book.orders EXCEPT ![k].status = "FILLED"]
          /\ book'.units = [book.units EXCEPT ![k[2]] = @ + book.orders[k].qty]
          /\ book'.fills = [book.fills EXCEPT ![k] = [day |-> d, qty |-> book.orders[k].qty,
                                                      source |-> "CANDLE"]]
      BY <1>3, <1>4 DEF Bought, Book
    <3>2. book.orders[k] \in Order
      BY <1>3 DEF Book
    <3> QED BY <1>3, <1>4, <3>1, <3>2 DEF Book, Order
  <2> QED BY <1>1, <2>1, <2>2, FillSettled
<1>5. CASE book.orders[k].side = "SELL" /\ book' = Sold(book, k, d, "CANDLE")
  <2>1. FillKept(book, book', k, d, "CANDLE")
    BY <1>2, <1>3, <1>5, SoldKeeps
  <2>2. /\ book'.orders[k].side = "SELL" /\ book'.fills[k].qty = SellUnits(book, k)
        /\ book'.units = [book.units EXCEPT ![k[2]] = @ - SellUnits(book, k)]
    <3>1. /\ book'.orders = [book.orders EXCEPT ![k].status = "FILLED"]
          /\ book'.units = [book.units EXCEPT ![k[2]] = @ - SellUnits(book, k)]
          /\ book'.fills = [book.fills EXCEPT ![k] = [day |-> d, qty |-> SellUnits(book, k),
                                                      source |-> "CANDLE"]]
      BY <1>3, <1>5 DEF Sold, Book
    <3>2. book.orders[k] \in Order
      BY <1>3 DEF Book
    <3> QED BY <1>3, <1>5, <3>1, <3>2 DEF Book, Order
  <2> QED BY <1>1, <2>1, <2>2, FillSettled
<1>6. CASE book' \in {book, Cancelled(book, k)}
  <2>1. run'.kind = run.kind /\ run'.stage = run.stage /\ run'.day = run.day
    BY <1>1, <1>3 DEF OrderTried, Run
  <2>2. Quiet(book, book') /\ book'.units = book.units
    BY <1>2, <1>3, <1>6, PointersQuiet, CancelledQuiet DEF Cancelled, Book
  <2>3. CandleBook(book') /\ HoldingsAreFills(book', Applied) /\ Booked(book') = Booked(book)
    BY <1>2, <1>3, <2>2, QuietSettled DEF CandleInv
  <2>4. Applied' = Applied
    BY <2>1, <2>3 DEF Applied, InSession
  <2> QED BY <1>1, <2>1, <2>3, <2>4 DEF CandleInv
<1> QED BY <1>4, <1>5, <1>6 DEF FillOrder

\* A catch-up session closes with a settled book.
LEMMA CloseSettled ==
    ASSUME IInv, IInv', CandleInv, NEW b, SoundBook(b, batch), SettledBook(b),
           CloseCatchUpSession(b), run.kind = "catchup"
    PROVE  CandleInv'
<1>1. /\ book' = Refreshed(b) /\ savepoint' = book' /\ durable' \in {durable, book'}
      /\ run'.stage = "days" /\ run'.kind = "catchup"
  BY RunFields DEF CloseCatchUpSession, Run
<1>2. b \in Book /\ book' \in Book
  BY DEF SoundBook, IInv, TypeOK
<1>3. Quiet(b, book') /\ book'.units = b.units
  BY <1>1, <1>2, StatusQuiet DEF Refreshed, Book
<1>4. SettledBook(book')
  BY <1>2, <1>3, QuietSettled
<1> QED BY <1>1, <1>4, SettledBetween DEF InSession

\* The sessions of the two runs.
LEMMA RunSettled ==
    ASSUME IInv, IInv', HInv, CandleInv,
           \/ ListDays \/ AdvanceMark \/ FinishAdvance
           \/ CatchUpDay \/ CatchUpMark \/ FinishCatchUp
           \/ \E d \in Days : AdvanceDay(d) \/ OpenCatchUpSession(d)
    PROVE  CandleInv'
<1>f. /\ run \in Run /\ book \in Book /\ book' \in Book /\ run.days \in SUBSET Days
      /\ SoundBook(book, batch) /\ Quiet(book, book)
      /\ book.watermark \in Int /\ Days \subseteq Int
  BY RunFields, PointersQuiet DEF IInv, TypeOK
<1>1. CASE ListDays \/ \E d \in Days : OpenCatchUpSession(d)
  <2>1. /\ ~InSession /\ ~InSession' /\ run'.kind # "intraday"
        /\ UNCHANGED <<book, savepoint, durable>>
    BY <1>1, <1>f DEF ListDays, OpenCatchUpSession, InSession, Run
  <2> QED BY <1>f, <2>1, QuietBetween
<1>2. ASSUME NEW d \in Days, AdvanceDay(d) PROVE CandleInv'
  <2>1. /\ run.kind = "advance" /\ run.stage = "days" /\ Earliest(d, run.days) /\ ~InSession
        /\ book.watermark < d
    BY <1>2 DEF AdvanceDay, HInv, Agenda, InSession, Earliest
  <2>2. CASE PreActivation(d)
    <3>1. /\ book' = SkippedDay(book, d) /\ savepoint' \in {savepoint, book'}
          /\ durable' = durable /\ run' = [run EXCEPT !.days = @ \ {d}]
      BY <1>2, <2>2 DEF AdvanceDay, WriteAs
    <3>2. ~InSession' /\ run'.kind # "intraday"
      BY <1>f, <2>1, <3>1 DEF InSession, Run
    <3>3. Quiet(book, book')
      <4>1. book.watermark <= d
        BY <1>f, <2>1
      <4> QED BY <1>f, <3>1, <4>1, PointersQuiet
    <3>4. book'.units = book.units
      BY <1>f, <3>1 DEF SkippedDay, Book
    <3> QED BY <2>1, <3>1, <3>2, <3>3, <3>4, QuietBetween
  <2>3. CASE ~PreActivation(d)
    <3>1. /\ StartSession(d) /\ run' = [SessionRun(d) EXCEPT !.days = @ \ {d}]
          /\ UNCHANGED <<savepoint, durable>>
      BY <1>2, <2>3 DEF AdvanceDay
    <3>2. run'.kind # "intraday" /\ run'.stage = "fill" /\ run'.day = d
      BY <1>f, <2>1, <3>1 DEF SessionRun, Run
    <3> QED BY <2>1, <3>1, <3>2, SessionSettled
  <2> QED BY <2>2, <2>3
<1>3. CASE AdvanceMark
  <2>1. /\ InSession /\ run.kind = "advance" /\ durable' = durable
        /\ book' = Marked(book, run.day) /\ savepoint' = book'
        /\ run' = [run EXCEPT !.stage = "days", !.day = 0]
    BY <1>3 DEF AdvanceMark, SessionFilled, InSession
  <2>2. ~InSession' /\ run'.kind # "intraday"
    BY <1>f, <2>1 DEF InSession, Run
  <2>3. SettledBook(book')
    BY <2>1, MarkSettled
  <2> QED BY <2>1, <2>2, <2>3, SettledBetween
<1>4. CASE FinishAdvance \/ FinishCatchUp
  <2>1. /\ ~InSession /\ book' \in {book, Refreshed(book)} /\ run' = Idle
        /\ savepoint' = book' /\ durable' = book'
    BY <1>4 DEF FinishAdvance, FinishCatchUp, InSession, CommitAs
  <2>2. Quiet(book, book') /\ book'.units = book.units
    BY <1>f, <2>1, StatusQuiet DEF Refreshed, Book
  <2>3. ~InSession' /\ run'.kind # "intraday"
    BY <2>1 DEF Idle, InSession
  <2> QED BY <2>1, <2>2, <2>3, QuietBetween
<1>5. CASE CatchUpDay
  <2>1. /\ run.kind = "catchup" /\ run.stage = "decide" /\ ~InSession
        /\ book.watermark < run.day /\ run.day \in Days
    BY <1>5, RunFields, CalendarAssumption DEF CatchUpDay, HInv, Agenda, InSession, Days
  <2>2. CASE PreActivation(run.day)
    <3> DEFINE b == SkippedDay(book, run.day)
    <3>1. CloseCatchUpSession(b)
      BY <1>5, <2>2 DEF CatchUpDay
    <3>2. SoundBook(b, batch) /\ Quiet(book, b) /\ b.units = book.units
      <4>1. book.watermark <= run.day
        <5>1. run.day \in Int /\ book.watermark < run.day
          BY <1>f, <2>1
        <5> QED BY <1>f, <5>1
      <4>2. SkippedDay(book, run.day).units = book.units
        BY <1>f DEF SkippedDay, Book
      <4> QED BY <1>f, <2>1, <4>1, <4>2, PointersSound, PointersQuiet
    <3> HIDE DEF b
    <3>3. SettledBook(b)
      BY <1>f, <2>1, <3>2, BookSettled, QuietSettled DEF SoundBook
    <3> QED BY <2>1, <3>1, <3>2, <3>3, CloseSettled
  <2>3. CASE ~PreActivation(run.day)
    <3>1. /\ StartSession(run.day) /\ run' = SessionRun(run.day)
          /\ UNCHANGED <<savepoint, durable>>
      BY <1>5, <2>3 DEF CatchUpDay
    <3>2. run'.kind # "intraday" /\ run'.stage = "fill" /\ run'.day = run.day
      BY <1>f, <2>1, <3>1 DEF SessionRun, Run
    <3> QED BY <2>1, <3>1, <3>2, SessionSettled
  <2> QED BY <2>2, <2>3
<1>6. CASE CatchUpMark
  <2>1. /\ InSession /\ run.kind = "catchup" /\ CloseCatchUpSession(Marked(book, run.day))
        /\ run.day \in Days /\ book.watermark < run.day
    BY <1>6, RunFields DEF CatchUpMark, SessionFilled, InSession, HInv, Agenda, IInv, RunInv
  <2>2. SettledBook(Marked(book, run.day)) /\ SoundBook(Marked(book, run.day), batch)
    BY <1>f, <2>1, MarkSettled, MarkedSound
  <2> QED BY <2>1, <2>2, CloseSettled
<1> QED BY <1>1, <1>2, <1>3, <1>4, <1>5, <1>6

\* A blocked session, and the two ways a run fails.
LEMMA EndSettled ==
    ASSUME IInv, IInv', CandleInv, BlockSession \/ Failure PROVE CandleInv'
<1>1. PICK c \in {book, savepoint, durable} :
         /\ book' \in {c, Refreshed(c)} /\ savepoint' = book' /\ durable' = book'
         /\ c = book => ~InSession \/ book = savepoint \/ book = durable
  BY DEF BlockSession, BlockedBook, Failure, Crash, Abort, CommitAs, InSession
<1>2. run' \in {Idle, Failed}
  BY DEF BlockSession, Failure, Crash, Abort
<1>3. ~InSession' /\ run'.kind # "intraday"
  BY <1>2, IdleRun DEF InSession
<1>4. SettledBook(c) /\ SoundBook(c, batch) /\ c \in Book /\ book' \in Book
  BY <1>1, BookSettled DEF CandleInv, IInv, TypeOK
<1>5. Quiet(c, book') /\ book'.units = c.units
  BY <1>1, <1>4, PointersQuiet, StatusQuiet DEF Refreshed, Book
<1>6. SettledBook(book')
  BY <1>4, <1>5, QuietSettled
<1> QED BY <1>1, <1>3, <1>6, SettledBetween

\* Without intraday runs every step keeps the invariant.
LEMMA NextSettled ==
    ~IntradayEnabled /\ IInv /\ IInv' /\ HInv /\ CandleInv /\ [Next]_vars => CandleInv'
<1> SUFFICES ASSUME ~IntradayEnabled, IInv, IInv', HInv, CandleInv, [Next]_vars
             PROVE  CandleInv'
  OBVIOUS
<1>1. CASE Environment
  BY <1>1, SameSettled DEF Environment, Tick, IngestBar, PublishBatch
<1>2. CASE Owner \/ StartRun BY <1>2, BetweenSettled
<1>3. CASE RunStep
  <2>1. ASSUME NEW asOf \in Days, SkipBatch(asOf) \/ DecideWeek(asOf) PROVE CandleInv'
    BY <2>1, BetweenSettled
  <2>2. ASSUME NEW k \in OrderKeys, FillOrder(k) PROVE CandleInv'
    BY <2>2, OrderSettled
  <2>3. CASE BlockSession BY <2>3, EndSettled
  <2>4. CASE \/ ListDays \/ AdvanceMark \/ FinishAdvance
             \/ CatchUpDay \/ CatchUpMark \/ FinishCatchUp
             \/ \E d \in Days : AdvanceDay(d) \/ OpenCatchUpSession(d)
    BY <2>4, RunSettled
  <2> QED BY <1>3, <2>1, <2>2, <2>3, <2>4 DEF RunStep
<1>4. ~StartIntraday /\ ~IntradayStep
  BY DEF StartIntraday, IntradayStep, QuoteOrder, SkipOrder, FinishIntraday, CandleInv
<1>5. CASE Failure BY <1>5, EndSettled
<1>6. CASE UNCHANGED vars BY <1>6, SameSettled DEF vars
<1> QED BY <1>1, <1>2, <1>3, <1>4, <1>5, <1>6 DEF Next

\* With the intraday setting off, every reachable state satisfies the three invariants.
THEOREM SettledHistory == ~IntradayEnabled => (Spec => [](IInv /\ HInv /\ CandleInv))
<1> SUFFICES ASSUME ~IntradayEnabled PROVE Spec => [](IInv /\ HInv /\ CandleInv)
  OBVIOUS
<1>1. Init => CandleInv
  BY InitSettled
<1>2. IInv /\ HInv /\ (IInv /\ HInv)' /\ CandleInv /\ [Next]_vars => CandleInv'
  BY NextSettled
<1> QED BY <1>1, <1>2, TrueHistory, PTL DEF Spec

\* The NAV row of a day holds the cash that the fills up to that day leave.
THEOREM NavUsesPastFillsHolds == ~IntradayEnabled => (Spec => []NavUsesPastFills)
<1>1. IInv /\ HInv /\ CandleInv => NavUsesPastFills
  BY DEF CandleInv, SettledBook, CandleBook, NavUsesPastFills
<1> QED BY <1>1, SettledHistory, PTL

\* A position is what its fills bought less what they sold, each adjusted once by every
\* split of a session processed after it.
THEOREM HoldingsMatchFillsHolds == ~IntradayEnabled => (Spec => []HoldingsMatchFills)
<1>1. IInv /\ HInv /\ CandleInv => HoldingsMatchFills
  BY DEF CandleInv, SettledBook, HoldingsMatchFills
<1> QED BY <1>1, SettledHistory, PTL
=============================================================================
