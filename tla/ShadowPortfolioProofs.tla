----------------------- MODULE ShadowPortfolioProofs -----------------------
(***************************************************************************)
(* Theorems about ShadowPortfolio, for every value of its constants: types *)
(* are kept, one weekly plan is live, no order fills twice and nothing is  *)
(* decided or filled on data of its own future.                            *)
(*                                                                         *)
(* The inductive invariant says of each of the three books that its orders *)
(* are tied to their decisions and fills (Linked) and its decisions to     *)
(* published batches (Signals), and of the run that the batches it has in  *)
(* hand may be used at the date it decides at (RunInv).  One lemma per     *)
(* operator of ShadowBook says that it keeps a book sound; the induction   *)
(* step has one step per action and cites them.                            *)
(***************************************************************************)
EXTENDS ShadowPortfolio, TLAPS

Linked(b) ==
    \A k \in OrderKeys :
        /\ b.orders[k].status # "NONE" =>
              /\ Decided(b, k[1])
              /\ b.orders[k].minExec = b.decisions[k[1]].at + 1
        /\ b.orders[k].status # "FILLED" => b.fills[k] = NoFill
        /\ b.orders[k].status = "FILLED" =>
              /\ b.fills[k].day # 0
              /\ b.orders[k].minExec <= b.fills[k].day
              /\ b.fills[k].qty <= b.orders[k].qty

Signals(b, published) ==
    \A w \in Weeks : Decided(b, w) =>
        /\ b.decisions[w].asOf <= b.decisions[w].at
        /\ published[b.decisions[w].asOf] # 0
        /\ published[b.decisions[w].asOf] <= b.decisions[w].at + 1

SoundBook(b, published) ==
    /\ b \in Book
    /\ PlanIsCurrent(b)
    /\ Linked(b)
    /\ Signals(b, published)

BatchInv ==
    \A d \in Days : batch[d] # 0 => d <= Today /\ batch[d] <= Today + 1

RunInv ==
    /\ run.stage = "fill" => run.day # 0
    /\ run.stage # "fill" => run.orders = {}
    /\ run.stage # "decide" => run.batches = {}
    /\ run.kind = "intraday" => run.stage = "fill"
    /\ run.orders \subseteq Pending(book)
    /\ \A asOf \in run.batches :
          asOf <= run.at /\ batch[asOf] # 0 /\ batch[asOf] <= run.at + 1

IInv ==
    /\ TypeOK
    /\ SoundBook(book, batch)
    /\ SoundBook(savepoint, batch)
    /\ SoundBook(durable, batch)
    /\ BatchInv
    /\ RunInv

-----------------------------------------------------------------------------
(* The constants.                                                          *)

\* The clock shows a day of the calendar.
LEMMA TodayIsDay ==
    ASSUME NEW t \in Instants PROVE DateOf(t) \in Days /\ t \in 0..2 * LastDay + 1
BY SurroundingsAssumption, CalendarAssumption DEF DateOf, Days

\* Dates follow the clock.
LEMMA DatesFollowClock == \A t \in Nat, u \in Nat : t < u => DateOf(t) <= DateOf(u)
BY DEF DateOf

\* The price tables give natural numbers.
LEMMA PricesAreNat ==
    ASSUME NEW d \in Days, NEW i \in Instruments, NEW q \in 0..MaxUnits
    PROVE  BuyCost[d][i][q] \in Nat /\ SellProceeds[d][i][q] \in Nat
<1>1. BuyCost[d] \in [Instruments -> [0..MaxUnits -> Nat]] BY PriceAssumption
<1>2. SellProceeds[d] \in [Instruments -> [0..MaxUnits -> Nat]] BY PriceAssumption
<1>3. BuyCost[d][i] \in [0..MaxUnits -> Nat] /\ SellProceeds[d][i] \in [0..MaxUnits -> Nat]
  BY <1>1, <1>2
<1> QED BY <1>3

\* A new portfolio: cash and nothing else.
LEMMA EmptyBookSound ==
    ASSUME NEW published PROVE SoundBook(EmptyBook, published)
<1>1. EmptyBook \in Book
  BY BoundsAssumption, CalendarAssumption
  DEF EmptyBook, Book, Holdings, Order, Fill, Decision, NavRow, NoOrder, NoFill, NoDecision,
      NoNavRow, OrderStatus, PortfolioStatus
<1>2. PlanIsCurrent(EmptyBook) /\ Linked(EmptyBook) /\ Signals(EmptyBook, published)
  BY DEF PlanIsCurrent, Linked, Signals, Pending, Decided, EmptyBook, NoOrder, NoFill,
         NoDecision, OrderKeys
<1> QED BY <1>1, <1>2 DEF SoundBook

-----------------------------------------------------------------------------
(* Decisions.                                                              *)

\* A week's decision, taken on a published batch that may be used at its date, keeps the
\* book sound if the week had none.
LEMMA DecideSound ==
    ASSUME NEW published, NEW b, SoundBook(b, published),
           NEW asOf \in Days, NEW at \in 0..LastDay, NEW stamp \in 0..2 * LastDay + 1,
           NEW plan \in [Instruments -> (-MaxLot)..MaxLot],
           ~Decided(b, WeekOf[asOf]),
           asOf <= at, published[asOf] # 0, published[asOf] <= at + 1
    PROVE  SoundBook(Decide(b, asOf, at, stamp, plan), published)
<1> DEFINE w == WeekOf[asOf]
           c == Decide(b, asOf, at, stamp, plan)
<1>b. b \in Book BY DEF SoundBook
<1>w. w \in Weeks BY DEF Weeks
<1>1. /\ c.decisions = [b.decisions EXCEPT ![w] = [asOf |-> asOf, at |-> at]]
      /\ c.orders = [k \in OrderKeys |->
            IF k[1] # w THEN Superseded(b.orders[k])
            ELSE IF plan[k[2]] # 0 THEN PlannedOrder(plan[k[2]], at, stamp)
            ELSE b.orders[k]]
      /\ c.fills = b.fills
      /\ c.lastDecision = w
  BY <1>b DEF Decide, Book
<1>2. ASSUME NEW k \in OrderKeys PROVE c.orders[k] \in Order
  <2>1. k[1] \in Weeks /\ k[2] \in Instruments BY DEF OrderKeys
  <2>2. b.orders[k] \in Order BY <1>b DEF Book
  <2>3. Superseded(b.orders[k]) \in Order BY <2>2 DEF Superseded, Order, OrderStatus
  <2>4. ASSUME plan[k[2]] # 0 PROVE PlannedOrder(plan[k[2]], at, stamp) \in Order
    <3>1. plan[k[2]] \in (-MaxLot)..MaxLot BY <2>1
    <3> QED BY <3>1, BoundsAssumption, CalendarAssumption DEF PlannedOrder, Order, OrderStatus
  <2> QED BY <1>1, <2>2, <2>3, <2>4
<1>3. c \in Book
  <2>1. c.orders \in [OrderKeys -> Order] BY <1>1, <1>2
  <2>2. [asOf |-> asOf, at |-> at] \in Decision BY CalendarAssumption DEF Decision, Days
  <2>3. c.decisions \in [Weeks -> Decision] BY <1>1, <1>b, <2>2 DEF Book
  <2>4. c = [b EXCEPT !.decisions = c.decisions, !.orders = c.orders, !.lastWeek = w,
                      !.lastDecision = w]
    BY <1>b DEF Decide, Book
  <2> QED BY <1>b, <1>w, <2>1, <2>3, <2>4 DEF Book
<1>4. ASSUME NEW k \in OrderKeys, k[1] = w PROVE b.orders[k].status = "NONE"
  BY <1>4 DEF SoundBook, Linked
<1>5. ASSUME NEW k \in OrderKeys, k[1] # w
      PROVE  /\ c.orders[k] = Superseded(b.orders[k])
             /\ c.decisions[k[1]] = b.decisions[k[1]]
  BY <1>1, <1>5, <1>b DEF Book, OrderKeys
<1>6. PlanIsCurrent(c)
  <2> SUFFICES ASSUME NEW k \in OrderKeys, c.orders[k].status = "PENDING", k[1] # w
               PROVE FALSE
    BY <1>1 DEF PlanIsCurrent, Pending
  <2>1. b.orders[k] \in Order BY <1>b DEF Book
  <2> QED BY <1>5, <2>1 DEF Superseded, Order
<1>7. Linked(c)
  <2> SUFFICES ASSUME NEW k \in OrderKeys
               PROVE  Linked(c)!(k)
    BY DEF Linked
  <2>1. b.orders[k] \in Order /\ b.fills[k] \in Fill BY <1>b DEF Book
  <2>2. CASE k[1] # w
    <3>1. /\ c.orders[k].status = b.orders[k].status \/ (b.orders[k].status = "PENDING" /\ c.orders[k].status = "CANCELLED")
          /\ c.orders[k].minExec = b.orders[k].minExec
          /\ c.orders[k].qty = b.orders[k].qty
      BY <1>5, <2>1, <2>2 DEF Superseded, Order
    <3> QED BY <1>1, <1>5, <2>2, <3>1 DEF SoundBook, Linked, Decided
  <2>3. CASE k[1] = w
    <3>1. b.orders[k].status = "NONE" BY <1>4, <2>3
    <3>2. b.fills[k] = NoFill BY <3>1 DEF SoundBook, Linked
    <3>3. c.decisions[w] = [asOf |-> asOf, at |-> at] BY <1>1, <1>b, <1>w DEF Book
    <3>4. asOf # 0 BY DEF Days
    <3>5. CASE plan[k[2]] # 0
      BY <1>1, <2>3, <3>2, <3>3, <3>4, <3>5 DEF PlannedOrder, Decided
    <3>6. CASE plan[k[2]] = 0
      BY <1>1, <2>3, <3>1, <3>2, <3>3, <3>6
    <3> QED BY <3>5, <3>6
  <2> QED BY <2>2, <2>3
<1>8. Signals(c, published)
  <2> SUFFICES ASSUME NEW v \in Weeks, Decided(c, v)
               PROVE  Signals(c, published)!(v)!2
    BY DEF Signals
  <2> QED BY <1>1, <1>b DEF Book, SoundBook, Signals, Decided
<1> QED BY <1>3, <1>6, <1>7, <1>8 DEF SoundBook

-----------------------------------------------------------------------------
(* The other operators.                                                    *)

\* What leaves orders, fills and decisions alone keeps the book sound.
LEMMA SameLedger ==
    ASSUME NEW published, NEW b, SoundBook(b, published), NEW c \in Book,
           c.orders = b.orders, c.fills = b.fills, c.decisions = b.decisions,
           c.lastDecision = b.lastDecision
    PROVE  SoundBook(c, published)
BY DEF SoundBook, PlanIsCurrent, Pending, Linked, Signals, Decided

\* So does a PENDING order's one fill, on or after its execution date.
LEMMA FilledSound ==
    ASSUME NEW published, NEW b, SoundBook(b, published), NEW c \in Book,
           NEW k \in Pending(b), NEW fill \in Fill,
           fill.day # 0, b.orders[k].minExec <= fill.day, fill.qty <= b.orders[k].qty,
           c.orders = [b.orders EXCEPT ![k].status = "FILLED"],
           c.fills = [b.fills EXCEPT ![k] = fill],
           c.decisions = b.decisions, c.lastDecision = b.lastDecision
    PROVE  SoundBook(c, published)
<1>k. k \in OrderKeys /\ b.orders[k].status = "PENDING" BY DEF Pending
<1>b. b \in Book BY DEF SoundBook
<1>t. ASSUME NEW j \in OrderKeys PROVE b.orders[j] \in Order BY <1>b DEF Book
<1>1. /\ c.orders[k].status = "FILLED"
      /\ c.orders[k].minExec = b.orders[k].minExec
      /\ c.orders[k].qty = b.orders[k].qty
      /\ c.fills[k] = fill
  BY <1>k, <1>b, <1>t DEF Book, Order
<1>2. ASSUME NEW j \in OrderKeys, j # k
      PROVE  c.orders[j] = b.orders[j] /\ c.fills[j] = b.fills[j]
  BY <1>2, <1>b DEF Book
<1>3. PlanIsCurrent(c) BY <1>1, <1>2 DEF PlanIsCurrent, Pending, SoundBook
<1>4. Linked(c)
  <2>1. ASSUME NEW j \in OrderKeys, j # k PROVE Linked(c)!(j)
    BY <1>2, <2>1 DEF SoundBook, Linked, Decided
  <2>2. Linked(c)!(k)
    BY <1>1, <1>k DEF SoundBook, Linked, Decided
  <2> QED BY <2>1, <2>2 DEF Linked
<1>5. Signals(c, published) BY DEF Signals, SoundBook, Decided
<1> QED BY <1>3, <1>4, <1>5 DEF SoundBook

\* A BUY the cash and the bound on units allow.
LEMMA BoughtSound ==
    ASSUME NEW published, NEW b, SoundBook(b, published),
           NEW k \in Pending(b), NEW d \in Days, NEW source \in {"CANDLE", "INTRADAY"},
           b.orders[k].minExec <= d, Affordable(b, k, d),
           b.units[k[2]] + b.orders[k].qty <= MaxUnits
    PROVE  SoundBook(Bought(b, k, d, source), published)
<1> DEFINE i == k[2]
           q == b.orders[k].qty
           cost == BuyCost[d][i][q]
           fill == [day |-> d, qty |-> q, source |-> source]
           c == Bought(b, k, d, source)
<1>b. b \in Book BY DEF SoundBook
<1>k. k \in OrderKeys /\ i \in Instruments BY DEF Pending, OrderKeys
<1>o. b.orders[k] \in Order BY <1>b, <1>k DEF Book
<1>q. q \in 0..MaxLot /\ q \in 0..MaxUnits BY <1>o, BoundsAssumption DEF Order
<1>1. /\ c.orders = [b.orders EXCEPT ![k].status = "FILLED"]
      /\ c.fills = [b.fills EXCEPT ![k] = fill]
      /\ c.decisions = b.decisions
      /\ c.lastDecision = b.lastDecision
  BY <1>b DEF Bought, Book
<1>2. c \in Book
  <2>1. b.cash - cost \in Nat
    <3>1. cost \in Nat BY <1>k, <1>q, PricesAreNat
    <3>2. b.cash \in Nat BY <1>b DEF Book
    <3>3. cost <= b.cash BY DEF Affordable
    <3> QED BY <3>1, <3>2, <3>3
  <2>2. [b.units EXCEPT ![i] = b.units[i] + q] \in Holdings
    <3>1. b.units \in [Instruments -> 0..MaxUnits] BY <1>b DEF Book, Holdings
    <3>2. b.units[i] + q \in 0..MaxUnits BY <3>1, <1>k, <1>q, BoundsAssumption
    <3> QED BY <3>1, <3>2 DEF Holdings
  <2>4. [b.orders EXCEPT ![k].status = "FILLED"] \in [OrderKeys -> Order]
    <3>1. [b.orders[k] EXCEPT !.status = "FILLED"] \in Order BY <1>o DEF Order, OrderStatus
    <3> QED BY <3>1, <1>b DEF Book
  <2>5. fill \in Fill BY <1>q DEF Fill, Days
  <2>6. [b.fills EXCEPT ![k] = fill] \in [OrderKeys -> Fill] BY <2>5, <1>b DEF Book
  <2> QED BY <1>b, <2>1, <2>2, <2>4, <2>6 DEF Bought, Book
<1>3. fill \in Fill /\ fill.day # 0 BY <1>q DEF Fill, Days
<1>4. fill.qty <= b.orders[k].qty BY <1>q
<1> QED BY <1>1, <1>2, <1>3, <1>4, FilledSound

\* A SELL, clipped to the position.
LEMMA SoldSound ==
    ASSUME NEW published, NEW b, SoundBook(b, published),
           NEW k \in Pending(b), NEW d \in Days, NEW source \in {"CANDLE", "INTRADAY"},
           b.orders[k].minExec <= d
    PROVE  SoundBook(Sold(b, k, d, source), published)
<1> DEFINE i == k[2]
           q == SellUnits(b, k)
           proceeds == SellProceeds[d][i][q]
           fill == [day |-> d, qty |-> q, source |-> source]
           c == Sold(b, k, d, source)
<1>b. b \in Book BY DEF SoundBook
<1>k. k \in OrderKeys /\ i \in Instruments BY DEF Pending, OrderKeys
<1>o. b.orders[k] \in Order BY <1>b, <1>k DEF Book
<1>u. b.units \in [Instruments -> 0..MaxUnits] BY <1>b DEF Book, Holdings
<1>q. q \in 0..MaxLot /\ q \in 0..MaxUnits /\ q <= b.orders[k].qty /\ q <= b.units[i]
  <2>1. b.orders[k].qty \in 0..MaxLot BY <1>o DEF Order
  <2>2. b.units[i] \in 0..MaxUnits BY <1>u, <1>k
  <2> QED BY <2>1, <2>2, BoundsAssumption DEF SellUnits
<1>1. /\ c.orders = [b.orders EXCEPT ![k].status = "FILLED"]
      /\ c.fills = [b.fills EXCEPT ![k] = fill]
      /\ c.decisions = b.decisions
      /\ c.lastDecision = b.lastDecision
  BY <1>b DEF Sold, Book
<1>2. c \in Book
  <2>1. b.cash + proceeds \in Nat
    <3>1. proceeds \in Nat BY <1>k, <1>q, PricesAreNat
    <3>2. b.cash \in Nat BY <1>b DEF Book
    <3> QED BY <3>1, <3>2
  <2>2. [b.units EXCEPT ![i] = b.units[i] - q] \in Holdings
    <3>1. b.units[i] - q \in 0..MaxUnits BY <1>u, <1>k, <1>q, BoundsAssumption
    <3> QED BY <3>1, <1>u DEF Holdings
  <2>4. [b.orders EXCEPT ![k].status = "FILLED"] \in [OrderKeys -> Order]
    <3>1. [b.orders[k] EXCEPT !.status = "FILLED"] \in Order BY <1>o DEF Order, OrderStatus
    <3> QED BY <3>1, <1>b DEF Book
  <2>5. fill \in Fill BY <1>q DEF Fill, Days
  <2>6. [b.fills EXCEPT ![k] = fill] \in [OrderKeys -> Fill] BY <2>5, <1>b DEF Book
  <2> QED BY <1>b, <2>1, <2>2, <2>4, <2>6 DEF Sold, Book
<1>3. fill \in Fill /\ fill.day # 0 BY <1>q DEF Fill, Days
<1>4. fill.qty <= b.orders[k].qty BY <1>q
<1> QED BY <1>1, <1>2, <1>3, <1>4, FilledSound

\* A SELL of nothing is cancelled instead.
LEMMA CancelledSound ==
    ASSUME NEW published, NEW b, SoundBook(b, published), NEW k \in Pending(b)
    PROVE  SoundBook(Cancelled(b, k), published)
<1> DEFINE c == Cancelled(b, k)
<1>b. b \in Book BY DEF SoundBook
<1>k. k \in OrderKeys /\ b.orders[k].status = "PENDING" BY DEF Pending
<1>t. ASSUME NEW j \in OrderKeys PROVE b.orders[j] \in Order BY <1>b DEF Book
<1>1. /\ c.orders = [b.orders EXCEPT ![k].status = "CANCELLED"]
      /\ c.fills = b.fills
      /\ c.decisions = b.decisions
      /\ c.lastDecision = b.lastDecision
  BY <1>b DEF Cancelled, Book
<1>2. c \in Book
  <2>1. [b.orders[k] EXCEPT !.status = "CANCELLED"] \in Order
    BY <1>k, <1>t DEF Order, OrderStatus
  <2>2. [b.orders EXCEPT ![k].status = "CANCELLED"] \in [OrderKeys -> Order]
    BY <2>1, <1>b DEF Book
  <2> QED BY <1>b, <2>2 DEF Cancelled, Book
<1>3. /\ c.orders[k].status = "CANCELLED"
      /\ c.orders[k].minExec = b.orders[k].minExec
      /\ c.orders[k].qty = b.orders[k].qty
  BY <1>1, <1>k, <1>b, <1>t DEF Book, Order
<1>4. ASSUME NEW j \in OrderKeys, j # k PROVE c.orders[j] = b.orders[j]
  BY <1>1, <1>4, <1>b DEF Book
<1>5. PlanIsCurrent(c) BY <1>1, <1>3, <1>4 DEF PlanIsCurrent, Pending, SoundBook
<1>6. Linked(c)
  <2>1. ASSUME NEW j \in OrderKeys, j # k PROVE Linked(c)!(j)
    BY <1>1, <1>4, <2>1 DEF SoundBook, Linked, Decided
  <2>2. Linked(c)!(k)
    BY <1>1, <1>3, <1>k DEF SoundBook, Linked, Decided
  <2> QED BY <2>1, <2>2 DEF Linked
<1>7. Signals(c, published) BY <1>1 DEF Signals, SoundBook, Decided
<1> QED BY <1>2, <1>5, <1>6, <1>7 DEF SoundBook

\* The day's splits, within the bound on units.
LEMMA CorporateActionsSound ==
    ASSUME NEW published, NEW b, SoundBook(b, published), NEW d,
           SplitHoldings(b, d) \in Holdings
    PROVE  SoundBook(CorporateActions(b, d), published)
<1> DEFINE c == CorporateActions(b, d)
<1>b. b \in Book BY DEF SoundBook
<1>1. /\ c.orders = b.orders
      /\ c.fills = b.fills
      /\ c.decisions = b.decisions
      /\ c.lastDecision = b.lastDecision
  BY <1>b DEF CorporateActions, Book
<1>2. c \in Book BY <1>b DEF CorporateActions, Book
<1> QED BY <1>1, <1>2, SameLedger

\* NAV row, peak, guard and watermark of a session.
LEMMA MarkedSound ==
    ASSUME NEW published, NEW b, SoundBook(b, published), NEW d \in Days
    PROVE  SoundBook(Marked(b, d), published)
<1> DEFINE value == MarketValue[d][b.units]
           total == b.cash + value
           peak == IF b.peak > total THEN b.peak ELSE total
           mode == IF GuardOn THEN GuardMode(b.riskMode, total, peak) ELSE b.riskMode
           row == IF b.nav[d].booked THEN b.nav[d]
                  ELSE [booked |-> TRUE, cash |-> b.cash, value |-> value]
           c == Marked(b, d)
<1>b. b \in Book BY DEF SoundBook
<1>1. /\ c.orders = b.orders
      /\ c.fills = b.fills
      /\ c.decisions = b.decisions
      /\ c.lastDecision = b.lastDecision
  BY <1>b DEF Marked, Book
<1>2. b.cash \in Nat /\ b.peak \in Nat /\ b.units \in Holdings
      /\ b.riskMode \in {"normal", "risk_off"} /\ b.nav \in [Days -> NavRow]
  BY <1>b DEF Book
<1>3. value \in Nat
  <2>1. MarketValue[d] \in [Holdings -> Nat] BY PriceAssumption
  <2> QED BY <1>2, <2>1
<1>4. total \in Nat /\ peak \in Nat BY <1>2, <1>3
<1>5. mode \in {"normal", "risk_off"} BY <1>2 DEF GuardMode
<1>6. [b.nav EXCEPT ![d] = row] \in [Days -> NavRow] BY <1>2, <1>3 DEF NavRow
<1>7. d \in 0..LastDay BY CalendarAssumption DEF Days
<1>8. c = [b EXCEPT !.peak = peak, !.riskMode = mode, !.nav = [b.nav EXCEPT ![d] = row],
                    !.watermark = d]
  BY <1>b DEF Marked, Book
<1>9. c \in Book
  <2> HIDE DEF peak, mode, row, c
  <2> QED BY <1>b, <1>4, <1>5, <1>6, <1>7, <1>8 DEF Book
<1> QED BY <1>1, <1>9, SameLedger

\* Status, watermark, last week and activation date are no part of the ledger.
LEMMA PointersSound ==
    ASSUME NEW published, NEW b, SoundBook(b, published)
    PROVE  /\ \A d \in Days : SoundBook(SkippedDay(b, d), published)
           /\ \A w \in Weeks : SoundBook([b EXCEPT !.lastWeek = w], published)
           /\ \A s \in PortfolioStatus : SoundBook([b EXCEPT !.status = s], published)
           /\ \A s \in PortfolioStatus, t \in Days :
                  SoundBook([b EXCEPT !.activated = t, !.status = s], published)
<1>b. b \in Book BY DEF SoundBook
<1>d. Days \subseteq 0..LastDay BY CalendarAssumption DEF Days
<1>1. ASSUME NEW d \in Days PROVE SoundBook(SkippedDay(b, d), published)
  <2> DEFINE c == SkippedDay(b, d)
  <2>1. c \in Book BY <1>b, <1>d DEF SkippedDay, Book
  <2>2. c.orders = b.orders /\ c.fills = b.fills /\ c.decisions = b.decisions
        /\ c.lastDecision = b.lastDecision
    BY <1>b DEF SkippedDay, Book
  <2> QED BY <2>1, <2>2, SameLedger
<1>2. ASSUME NEW w \in Weeks PROVE SoundBook([b EXCEPT !.lastWeek = w], published)
  <2> DEFINE c == [b EXCEPT !.lastWeek = w]
  <2>1. c \in Book BY <1>b DEF Book
  <2>2. c.orders = b.orders /\ c.fills = b.fills /\ c.decisions = b.decisions
        /\ c.lastDecision = b.lastDecision
    BY <1>b DEF Book
  <2> QED BY <2>1, <2>2, SameLedger
<1>3. ASSUME NEW s \in PortfolioStatus PROVE SoundBook([b EXCEPT !.status = s], published)
  <2> DEFINE c == [b EXCEPT !.status = s]
  <2>1. c \in Book BY <1>b DEF Book
  <2>2. c.orders = b.orders /\ c.fills = b.fills /\ c.decisions = b.decisions
        /\ c.lastDecision = b.lastDecision
    BY <1>b DEF Book
  <2> QED BY <2>1, <2>2, SameLedger
<1>4. ASSUME NEW s \in PortfolioStatus, NEW t \in Days
      PROVE  SoundBook([b EXCEPT !.activated = t, !.status = s], published)
  <2> DEFINE c == [b EXCEPT !.activated = t, !.status = s]
  <2>1. c \in Book BY <1>b, <1>d DEF Book
  <2>2. c.orders = b.orders /\ c.fills = b.fills /\ c.decisions = b.decisions
        /\ c.lastDecision = b.lastDecision
    BY <1>b DEF Book
  <2> QED BY <2>1, <2>2, SameLedger
<1> QED BY <1>1, <1>2, <1>3, <1>4

\* The three ways a run sets the status.
LEMMA StatusSound ==
    ASSUME NEW published, NEW b, SoundBook(b, published)
    PROVE  /\ SoundBook(Refreshed(b), published)
           /\ SoundBook(FirstStatus(b), published)
           /\ \A k : SoundBook(AfterIntradayFill(b, k), published)
<1>b. b.status \in PortfolioStatus BY DEF SoundBook, Book
<1>1. SoundBook(Refreshed(b), published)
  <2>1. PICK s \in PortfolioStatus : Refreshed(b) = [b EXCEPT !.status = s]
    BY <1>b DEF Refreshed, PortfolioStatus
  <2> QED BY <2>1, PointersSound
<1>2. SoundBook(FirstStatus(b), published)
  <2>1. PICK s \in PortfolioStatus : FirstStatus(b) = [b EXCEPT !.status = s]
    BY DEF FirstStatus, PortfolioStatus
  <2> QED BY <2>1, PointersSound
<1>3. ASSUME NEW k PROVE SoundBook(AfterIntradayFill(b, k), published)
  <2>1. PICK s \in PortfolioStatus : AfterIntradayFill(b, k) = [b EXCEPT !.status = s]
    BY <1>b DEF AfterIntradayFill, PortfolioStatus
  <2> QED BY <2>1, PointersSound
<1> QED BY <1>1, <1>2, <1>3

-----------------------------------------------------------------------------
(* The initial state.                                                      *)

\* The inductive invariant holds when nothing has been published or activated.
LEMMA InitIInv == Init => IInv
<1> SUFFICES ASSUME Init PROVE IInv
  OBVIOUS
<1>1. batch \in [Days -> 0..LastDay + 1] BY CalendarAssumption DEF Init
<1>2. EmptyBook \in Book BY EmptyBookSound DEF SoundBook
<1>3. run \in Run BY CalendarAssumption DEF Init, Run, Idle
<1>4. TypeOK BY <1>1, <1>2, <1>3 DEF Init, TypeOK
<1>5. BatchInv BY DEF Init, BatchInv
<1>6. RunInv BY DEF Init, RunInv, Idle
<1> QED BY <1>4, <1>5, <1>6, EmptyBookSound DEF Init, IInv

-----------------------------------------------------------------------------
(* The induction step.                                                     *)

\* No run: nothing in hand.
LEMMA IdleRun ==
    /\ Idle \in Run /\ Failed \in Run
    /\ \A r \in {Idle, Failed} :
          /\ r.stage = "decide" /\ r.batches = {} /\ r.orders = {}
          /\ r.kind \in {"idle", "failed"}
<1>1. Idle \in Run BY CalendarAssumption DEF Run, Idle
<1>2. Failed \in Run BY <1>1 DEF Run, Failed
<1>3. Idle.stage = "decide" /\ Idle.batches = {} /\ Idle.orders = {} /\ Idle.kind = "idle"
  BY DEF Idle
<1>4. /\ Failed.stage = "decide" /\ Failed.batches = {} /\ Failed.orders = {}
      /\ Failed.kind = "failed"
  BY <1>1, <1>3 DEF Failed, Run
<1> QED BY <1>1, <1>2, <1>3, <1>4

\* A batch that is published leaves the decisions on the others as they were.
LEMMA PublishedSound ==
    ASSUME NEW b, NEW published \in [Days -> 0..LastDay + 1], SoundBook(b, published),
           NEW d \in Days, published[d] = 0, NEW first
    PROVE  SoundBook(b, [published EXCEPT ![d] = first])
<1>1. ASSUME NEW w \in Weeks, Decided(b, w)
      PROVE  Signals(b, [published EXCEPT ![d] = first])!(w)!2
  <2>1. published[b.decisions[w].asOf] # 0 BY <1>1 DEF SoundBook, Signals
  <2>2. b.decisions[w].asOf \in Days
    BY <1>1, CalendarAssumption DEF SoundBook, Book, Decision, Decided, Days
  <2> QED BY <1>1, <2>1, <2>2 DEF SoundBook, Signals
<1>2. Signals(b, [published EXCEPT ![d] = first]) BY <1>1 DEF Signals
<1> QED BY <1>2 DEF SoundBook

\* Steps of the surroundings.
LEMMA EnvironmentStep == IInv /\ Environment => IInv'
<1> SUFFICES ASSUME IInv, Environment PROVE IInv'
  OBVIOUS
<1> USE DEF IInv
<1>1. CASE Tick
  <2>1. clock' \in Instants /\ clock < clock' BY <1>1 DEF Tick, Earliest
  <2>2. Today <= Today'
    <3>1. clock \in Nat /\ clock' \in Nat BY <2>1, TodayIsDay DEF TypeOK
    <3> QED BY <2>1, <3>1, DatesFollowClock DEF Today
  <2>3. Today \in Nat /\ Today' \in Nat BY <2>1, TodayIsDay DEF TypeOK, Today, Days
  <2>4. BatchInv'
    <3> SUFFICES ASSUME NEW d \in Days, batch[d] # 0
                 PROVE  d <= Today' /\ batch[d] <= Today' + 1
      BY <1>1 DEF Tick, BatchInv
    <3>1. d <= Today /\ batch[d] <= Today + 1 BY DEF BatchInv
    <3>2. d \in Nat /\ batch[d] \in Nat BY CalendarAssumption DEF TypeOK, Days
    <3> QED BY <2>2, <2>3, <3>1, <3>2
  <2> QED BY <1>1, <2>1, <2>4 DEF Tick, TypeOK, SoundBook, PlanIsCurrent, Linked, Signals,
                                  Decided, Pending, RunInv
<1>2. ASSUME NEW d \in Days, NEW i \in Instruments, IngestBar(d, i) PROVE IInv'
  BY <1>2 DEF IngestBar, TypeOK, SoundBook, PlanIsCurrent, Linked, Signals, Decided, Pending,
              BatchInv, Today, RunInv
<1>3. ASSUME NEW d \in Days, NEW publisher \in Publishers, PublishBatch(d, publisher)
      PROVE  IInv'
  <2> DEFINE first == AdmittedFrom(publisher, d)
  <2>1. Today \in Days BY TodayIsDay DEF TypeOK, Today
  <2>2. publisher \in {"live", "evening", "recovery"}
    BY SurroundingsAssumption DEF Publisher
  <2>3. first \in 1..LastDay + 1 /\ first <= Today + 1
    BY <1>3, <2>1, <2>2, CalendarAssumption DEF AdmittedFrom, PublishBatch, Days
  <2>4. batch' = [batch EXCEPT ![d] = first] /\ batch[d] = 0 BY <1>3 DEF PublishBatch
  <2>5. batch \in [Days -> 0..LastDay + 1] BY DEF TypeOK
  <2>6. first \in 0..LastDay + 1 BY <2>3, CalendarAssumption
  <2>7. batch' \in [Days -> 0..LastDay + 1] BY <2>4, <2>5, <2>6
  <2>8. TypeOK' BY <1>3, <2>7 DEF TypeOK, PublishBatch
  <2>9. \A b \in {book, savepoint, durable} : SoundBook(b, batch')
    BY <2>4, <2>5, PublishedSound
  <2>10. SoundBook(book, batch)' /\ SoundBook(savepoint, batch)' /\ SoundBook(durable, batch)'
    BY <1>3, <2>9 DEF PublishBatch, SoundBook, PlanIsCurrent, Linked, Signals, Decided, Pending
  <2>11. BatchInv'
    BY <1>3, <2>3, <2>4, <2>5 DEF BatchInv, PublishBatch, Today
  <2>12. RunInv'
    <3>1. run.batches \subseteq Days BY DEF TypeOK, Run
    <3>2. ASSUME NEW asOf \in run.batches PROVE batch'[asOf] = batch[asOf]
      BY <2>4, <2>5, <3>1 DEF RunInv
    <3> QED BY <1>3, <3>2 DEF RunInv, PublishBatch, Pending
  <2> QED BY <2>8, <2>10, <2>11, <2>12
<1> QED BY <1>1, <1>2, <1>3 DEF Environment

\* A step that leaves the surroundings alone keeps the invariant if it leaves the three
\* books sound and the run in order.
LEMMA BooksStep ==
    ASSUME IInv, UNCHANGED <<clock, bars, batch>>,
           SoundBook(book', batch), SoundBook(savepoint', batch), SoundBook(durable', batch),
           run' \in Run, RunInv'
    PROVE  IInv'
<1>1. SoundBook(book, batch)' /\ SoundBook(savepoint, batch)' /\ SoundBook(durable, batch)'
  BY DEF SoundBook, PlanIsCurrent, Linked, Signals, Decided, Pending
<1>2. TypeOK' BY <1>1 DEF IInv, TypeOK, SoundBook
<1>3. BatchInv' BY DEF IInv, BatchInv, Today
<1> QED BY <1>1, <1>2, <1>3 DEF IInv

\* A commit that ends a run, or happens between runs.
LEMMA CommitStep ==
    ASSUME IInv, UNCHANGED <<clock, bars, batch>>,
           NEW b, SoundBook(b, batch), CommitAs(b), run' \in {Idle, Failed}
    PROVE  IInv'
<1>1. run' \in Run BY IdleRun
<1>2. RunInv' BY IdleRun DEF RunInv
<1> QED BY <1>1, <1>2, BooksStep DEF CommitAs

\* Activation.
LEMMA OwnerStep == IInv /\ Owner => IInv'
<1> SUFFICES ASSUME IInv, Owner PROVE IInv'
  OBVIOUS
<1>t. Today \in Days /\ clock \in 0..2 * LastDay + 1
  BY TodayIsDay DEF IInv, TypeOK, Today
<1>s. SoundBook(book, batch) BY DEF IInv
<1>i. {"INITIALIZED", "WAITING_FOR_NEW_MARKET", "WAITING_FOR_SIGNAL"} \subseteq PortfolioStatus
  BY DEF PortfolioStatus
<1>1. CASE Activate
  <2>1. PICK asOf \in PublishedBatches :
          LET b == IF book.activated = 0 THEN Activated(book, "INITIALIZED") ELSE book
          IN  \/ CommitAs([b EXCEPT !.status = "WAITING_FOR_SIGNAL"])
              \/ CommitAs(FirstStatus(b))
              \/ /\ ~Decided(b, WeekOf[asOf])
                 /\ \E plan \in Plans(b, bars, asOf) :
                       CommitAs(FirstStatus(Decide(b, asOf, Today, clock, plan)))
    BY <1>1 DEF Activate
  <2> DEFINE b == IF book.activated = 0 THEN Activated(book, "INITIALIZED") ELSE book
  <2>2. SoundBook(b, batch) BY <1>s, <1>t, <1>i, PointersSound DEF Activated
  <2>3. asOf \in Days /\ batch[asOf] # 0 /\ asOf <= Today /\ batch[asOf] <= Today + 1
    BY DEF PublishedBatches, IInv, BatchInv
  <2>4. run' \in {Idle, Failed} /\ UNCHANGED <<clock, bars, batch>>
    BY <1>1 DEF Activate, NoRun
  <2> HIDE DEF b
  <2>5. CASE CommitAs([b EXCEPT !.status = "WAITING_FOR_SIGNAL"])
    <3>1. SoundBook([b EXCEPT !.status = "WAITING_FOR_SIGNAL"], batch)
      BY <1>i, <2>2, PointersSound
    <3> QED BY <2>4, <2>5, <3>1, CommitStep
  <2>6. CASE CommitAs(FirstStatus(b))
    <3>1. SoundBook(FirstStatus(b), batch) BY <2>2, StatusSound
    <3> QED BY <2>4, <2>6, <3>1, CommitStep
  <2>7. ASSUME ~Decided(b, WeekOf[asOf]),
               NEW plan \in Plans(b, bars, asOf),
               CommitAs(FirstStatus(Decide(b, asOf, Today, clock, plan)))
        PROVE  IInv'
    <3>1. plan \in [Instruments -> (-MaxLot)..MaxLot] BY DEF Plans
    <3>2. Today \in 0..LastDay BY <1>t, CalendarAssumption DEF Days
    <3>3. SoundBook(Decide(b, asOf, Today, clock, plan), batch)
      BY <1>t, <2>2, <2>3, <2>7, <3>1, <3>2, DecideSound
    <3>4. SoundBook(FirstStatus(Decide(b, asOf, Today, clock, plan)), batch)
      BY <3>3, StatusSound
    <3> QED BY <2>4, <2>7, <3>4, CommitStep
  <2> QED BY <2>1, <2>5, <2>6, <2>7 DEF b
<1>2. CASE ActivateEmpty
  <2>1. SoundBook(Activated(book, "WAITING_FOR_NEW_MARKET"), batch)
    BY <1>s, <1>t, <1>i, PointersSound DEF Activated
  <2>2. run' \in {Idle, Failed} /\ UNCHANGED <<clock, bars, batch>>
        /\ CommitAs(Activated(book, "WAITING_FOR_NEW_MARKET"))
    BY <1>2 DEF ActivateEmpty, NoRun
  <2> QED BY <2>1, <2>2, CommitStep
<1> QED BY <1>1, <1>2 DEF Owner

\* A run that starts with the book as it is.
LEMMA StartStep ==
    ASSUME IInv, UNCHANGED <<clock, bars, batch, book, savepoint, durable>>, run' \in Run, RunInv'
    PROVE  IInv'
BY BooksStep DEF IInv

\* The advance and the catch-up start with batches they may use at their date.
LEMMA StartRunStep == IInv /\ StartRun => IInv'
<1> SUFFICES ASSUME IInv, StartRun PROVE IInv'
  OBVIOUS
<1>t. Today \in Days /\ Days \subseteq 0..LastDay
  BY TodayIsDay, CalendarAssumption DEF IInv, TypeOK, Today, Days
<1>b. batch \in [Days -> 0..LastDay + 1] BY DEF IInv, TypeOK
<1>1. CASE StartAdvance
  <2>1. PICK ahead \in SUBSET Days :
          run' = [Idle EXCEPT !.kind = "advance", !.batches = PublishedBatches \ ahead,
                              !.at = Today]
    BY <1>1 DEF StartAdvance
  <2>2. run' \in Run BY <1>t, <2>1, IdleRun DEF Run, PublishedBatches
  <2>3. /\ run'.kind = "advance" /\ run'.stage = "decide" /\ run'.orders = {}
        /\ run'.batches \subseteq PublishedBatches /\ run'.at = Today
    BY <2>1, IdleRun DEF Idle
  <2>4. RunInv'
    BY <1>1, <2>3 DEF StartAdvance, RunInv, IInv, BatchInv, PublishedBatches
  <2> QED BY <1>1, <2>2, <2>4, StartStep DEF StartAdvance
<1>2. ASSUME NEW latest \in Days, StartCatchUpNoOp(latest) PROVE IInv'
  <2>1. run' = [Idle EXCEPT !.kind = "catchup", !.batches = VisibleBatches(latest),
                            !.at = latest]
    BY <1>2 DEF StartCatchUpNoOp
  <2>2. run' \in Run BY <1>t, <2>1, IdleRun DEF Run, VisibleBatches, PublishedBatches
  <2>3. /\ run'.kind = "catchup" /\ run'.stage = "decide" /\ run'.orders = {}
        /\ run'.batches = VisibleBatches(latest) /\ run'.at = latest
    BY <2>1, IdleRun DEF Idle
  <2>4. ASSUME NEW asOf \in VisibleBatches(latest)
        PROVE  asOf <= latest /\ batch[asOf] # 0 /\ batch[asOf] <= latest + 1
    BY <1>b, <1>t DEF VisibleBatches, PublishedBatches
  <2>5. RunInv'
    BY <1>2, <2>3, <2>4 DEF StartCatchUpNoOp, RunInv
  <2> QED BY <1>2, <2>2, <2>5, StartStep DEF StartCatchUpNoOp
<1>3. ASSUME NEW latest \in Days, NEW commitEach \in BOOLEAN, StartCatchUp(latest, commitEach)
      PROVE  IInv'
  <2>1. run' = [Idle EXCEPT !.kind = "catchup", !.stage = "days",
                            !.days = MissingSessions(latest), !.commitEach = commitEach]
    BY <1>3 DEF StartCatchUp
  <2>2. MissingSessions(latest) \subseteq Days
    BY DEF IInv, TypeOK, MissingSessions, BarDays
  <2>3. run' \in Run BY <2>1, <2>2, IdleRun DEF Run
  <2>4. /\ run'.kind = "catchup" /\ run'.stage = "days" /\ run'.orders = {}
        /\ run'.batches = {}
    BY <2>1, IdleRun DEF Idle
  <2>5. RunInv'
    BY <1>3, <2>4 DEF StartCatchUp, RunInv
  <2> QED BY <1>3, <2>3, <2>5, StartStep DEF StartCatchUp
<1> QED BY <1>1, <1>2, <1>3 DEF StartRun

\* A step of a run that writes b inside the transaction.
LEMMA WriteStep ==
    ASSUME IInv, UNCHANGED <<clock, bars, batch, durable>>,
           NEW b, SoundBook(b, batch), book' = b, savepoint' \in {savepoint, b},
           run' \in Run, RunInv'
    PROVE  IInv'
BY BooksStep DEF IInv

\* Decisions: a batch skipped, or the week's decision made on it.
LEMMA DecideStep ==
    ASSUME IInv, NEW asOf \in Days, SkipBatch(asOf) \/ DecideWeek(asOf)
    PROVE  IInv'
<1> DEFINE w == WeekOf[asOf]
<1>s. SoundBook(book, batch) BY DEF IInv
<1>w. w \in Weeks BY DEF Weeks
<1>r. run \in Run BY DEF IInv, TypeOK
<1>1. /\ run.stage = "decide" /\ asOf \in run.batches
      /\ run' = [run EXCEPT !.batches = @ \ {asOf}]
      /\ UNCHANGED <<clock, bars, batch, durable>>
      /\ run.kind \in {"advance", "catchup"}
  BY DEF SkipBatch, DecideWeek, Earliest, WriteAs
<1>2. run' \in Run BY <1>r, <1>1 DEF Run
<1>3. /\ run'.stage = "decide" /\ run'.batches = run.batches \ {asOf} /\ run'.at = run.at
      /\ run'.orders = run.orders /\ run'.kind = run.kind
  BY <1>r, <1>1 DEF Run
<1>4. run.orders = {} BY <1>1 DEF IInv, RunInv
<1>5. RunInv' BY <1>1, <1>3, <1>4 DEF IInv, RunInv
<1>6. CASE SkipBatch(asOf)
  <2>1. CASE WriteAs([book EXCEPT !.lastWeek = w])
    <3>1. SoundBook([book EXCEPT !.lastWeek = w], batch) BY <1>s, <1>w, PointersSound
    <3> QED BY <1>1, <1>2, <1>5, <2>1, <3>1, WriteStep DEF WriteAs
  <2>2. CASE UNCHANGED <<book, savepoint, durable>>
    BY <1>1, <1>2, <1>5, <2>2, StartStep
  <2> QED BY <1>6, <2>1, <2>2 DEF SkipBatch
<1>7. CASE DecideWeek(asOf)
  <2>1. PICK plan \in Plans(book, bars, asOf) :
           WriteAs(Decide(book, asOf, run.at, clock, plan))
    BY <1>7 DEF DecideWeek
  <2>2. ~Decided(book, w) BY <1>7 DEF DecideWeek
  <2>3. asOf <= run.at /\ batch[asOf] # 0 /\ batch[asOf] <= run.at + 1
    BY <1>1 DEF IInv, RunInv
  <2>4. run.at \in 0..LastDay BY <1>r DEF Run
  <2>5. clock \in 0..2 * LastDay + 1 BY TodayIsDay DEF IInv, TypeOK
  <2>6. plan \in [Instruments -> (-MaxLot)..MaxLot] BY DEF Plans
  <2>7. SoundBook(Decide(book, asOf, run.at, clock, plan), batch)
    BY <1>s, <2>2, <2>3, <2>4, <2>5, <2>6, DecideSound
  <2> QED BY <1>1, <1>2, <1>5, <2>1, <2>7, WriteStep DEF WriteAs
<1> QED BY <1>6, <1>7

\* An order tried leaves the others PENDING, whatever became of it.
LEMMA TriedStep ==
    ASSUME IInv, UNCHANGED <<clock, bars, batch, savepoint, durable>>, run.stage = "fill",
           NEW k \in run.orders, run' = OrderTried(k),
           SoundBook(book', batch),
           \A j \in OrderKeys : j # k => book'.orders[j] = book.orders[j]
    PROVE  IInv'
<1>r. run \in Run BY DEF IInv, TypeOK
<1>1. run' \in Run BY <1>r DEF Run, OrderTried
<1>2. /\ run'.stage = "fill" /\ run'.batches = run.batches /\ run'.at = run.at
      /\ run'.orders = run.orders \ {k} /\ run'.kind = run.kind /\ run'.day = run.day
  BY <1>r DEF Run, OrderTried
<1>3. RunInv' BY <1>2 DEF IInv, RunInv, Pending
<1> QED BY <1>1, <1>3, BooksStep DEF IInv

\* Only the order itself changes when it is filled or cancelled.
LEMMA OthersKept ==
    ASSUME NEW b \in Book, NEW k \in OrderKeys, NEW d, NEW source
    PROVE  /\ \A j \in OrderKeys : j # k =>
                 /\ Bought(b, k, d, source).orders[j] = b.orders[j]
                 /\ Sold(b, k, d, source).orders[j] = b.orders[j]
                 /\ Cancelled(b, k).orders[j] = b.orders[j]
           /\ \A c \in Book : AfterIntradayFill(c, k).orders = c.orders
<1>1. /\ Bought(b, k, d, source).orders = [b.orders EXCEPT ![k].status = "FILLED"]
      /\ Sold(b, k, d, source).orders = [b.orders EXCEPT ![k].status = "FILLED"]
      /\ Cancelled(b, k).orders = [b.orders EXCEPT ![k].status = "CANCELLED"]
  BY DEF Bought, Sold, Cancelled, Book
<1>2. \A c \in Book : AfterIntradayFill(c, k).orders = c.orders
  BY DEF AfterIntradayFill, Book
<1> QED BY <1>1, <1>2 DEF Book

\* An order of the candle path.
LEMMA FillStep ==
    ASSUME IInv, NEW k \in OrderKeys, FillOrder(k)
    PROVE  IInv'
<1> DEFINE d == run.day
<1>s. SoundBook(book, batch) /\ book \in Book BY DEF IInv, SoundBook
<1>1. /\ run.stage = "fill" /\ k \in run.orders /\ run' = OrderTried(k)
      /\ UNCHANGED <<clock, bars, batch, savepoint, durable>>
  BY DEF FillOrder, NextOrder
<1>2. k \in Pending(book) BY <1>1 DEF IInv, RunInv
<1>3. d \in Days
  <2>1. d \in 0..LastDay /\ d # 0 BY <1>1 DEF IInv, TypeOK, Run, RunInv
  <2> QED BY <2>1, CalendarAssumption DEF Days
<1>4. CASE OpenEligible(book, bars, k, d) /\ Affordable(book, k, d) /\ WithinBound(k)
           /\ book' = Bought(book, k, d, "CANDLE")
  <2>1. SoundBook(book', batch)
    BY <1>s, <1>2, <1>3, <1>4, BoughtSound DEF OpenEligible, WithinBound
  <2>2. \A j \in OrderKeys : j # k => book'.orders[j] = book.orders[j]
    BY <1>s, <1>4, OthersKept
  <2> QED BY <1>1, <2>1, <2>2, TriedStep
<1>5. CASE OpenEligible(book, bars, k, d) /\ book' = Sold(book, k, d, "CANDLE")
  <2>1. SoundBook(book', batch)
    BY <1>s, <1>2, <1>3, <1>5, SoldSound DEF OpenEligible
  <2>2. \A j \in OrderKeys : j # k => book'.orders[j] = book.orders[j]
    BY <1>s, <1>5, OthersKept
  <2> QED BY <1>1, <2>1, <2>2, TriedStep
<1>6. CASE book' = Cancelled(book, k)
  <2>1. SoundBook(book', batch) BY <1>s, <1>2, <1>6, CancelledSound
  <2>2. \A j \in OrderKeys : j # k => book'.orders[j] = book.orders[j]
    BY <1>s, <1>6, OthersKept
  <2> QED BY <1>1, <2>1, <2>2, TriedStep
<1>7. CASE UNCHANGED book
  BY <1>1, <1>7, <1>s, TriedStep
<1> QED BY <1>4, <1>5, <1>6, <1>7 DEF FillOrder

\* The intraday path, where a quote may also be skipped, and its end.
LEMMA IntradayStepKeeps == IInv /\ IntradayStep => IInv'
<1> SUFFICES ASSUME IInv, IntradayStep PROVE IInv'
  OBVIOUS
<1> DEFINE d == run.day
<1>s. SoundBook(book, batch) /\ book \in Book BY DEF IInv, SoundBook
<1>0. run.stage = "fill" /\ d \in Days
  <2>1. run.kind = "intraday" BY DEF IntradayStep, QuoteOrder, SkipOrder, FinishIntraday
  <2>2. run.stage = "fill" BY <2>1 DEF IInv, RunInv
  <2>3. d \in 0..LastDay /\ d # 0 BY <2>2 DEF IInv, TypeOK, Run, RunInv
  <2> QED BY <2>2, <2>3, CalendarAssumption DEF Days
<1>1. ASSUME NEW k \in OrderKeys, QuoteOrder(k) PROVE IInv'
  <2>1. /\ k \in run.orders /\ run' = OrderTried(k)
        /\ UNCHANGED <<clock, bars, batch, savepoint, durable>>
    BY <1>1 DEF QuoteOrder, NextOrder
  <2>2. k \in Pending(book) BY <2>1 DEF IInv, RunInv
  <2>3. book.orders[k].minExec <= d
    <3>1. d >= book.orders[k].minExec BY <1>1 DEF QuoteOrder, QuoteEligible
    <3>2. book.orders[k].minExec \in Nat BY <1>s, CalendarAssumption DEF Book, Order
    <3> QED BY <1>0, <3>1, <3>2, CalendarAssumption DEF Days
  <2>4. CASE Affordable(book, k, d) /\ WithinBound(k)
             /\ book' = AfterIntradayFill(Bought(book, k, d, "INTRADAY"), k)
    <3>1. SoundBook(Bought(book, k, d, "INTRADAY"), batch)
      BY <1>s, <1>0, <2>2, <2>3, <2>4, BoughtSound DEF WithinBound
    <3>2. SoundBook(book', batch) BY <2>4, <3>1, StatusSound
    <3>3. \A j \in OrderKeys : j # k => book'.orders[j] = book.orders[j]
      BY <1>s, <2>4, <3>1, OthersKept DEF SoundBook
    <3> QED BY <1>0, <2>1, <3>2, <3>3, TriedStep
  <2>5. CASE book' = AfterIntradayFill(Sold(book, k, d, "INTRADAY"), k)
    <3>1. SoundBook(Sold(book, k, d, "INTRADAY"), batch)
      BY <1>s, <1>0, <2>2, <2>3, SoldSound
    <3>2. SoundBook(book', batch) BY <2>5, <3>1, StatusSound
    <3>3. \A j \in OrderKeys : j # k => book'.orders[j] = book.orders[j]
      BY <1>s, <2>5, <3>1, OthersKept DEF SoundBook
    <3> QED BY <1>0, <2>1, <3>2, <3>3, TriedStep
  <2>6. CASE book' = Cancelled(book, k)
    <3>1. SoundBook(book', batch) BY <1>s, <2>2, <2>6, CancelledSound
    <3>2. \A j \in OrderKeys : j # k => book'.orders[j] = book.orders[j]
      BY <1>s, <2>6, OthersKept
    <3> QED BY <1>0, <2>1, <3>1, <3>2, TriedStep
  <2> QED BY <1>1, <2>4, <2>5, <2>6 DEF QuoteOrder
<1>2. ASSUME NEW k \in OrderKeys, SkipOrder(k) PROVE IInv'
  BY <1>0, <1>2, <1>s, TriedStep DEF SkipOrder, NextOrder
<1>3. CASE FinishIntraday
  BY <1>3, <1>s, CommitStep DEF FinishIntraday
<1> QED BY <1>1, <1>2, <1>3 DEF IntradayStep

\* A session opens: its splits apply and the PENDING orders come up for a fill.
LEMMA SessionStep ==
    ASSUME IInv, NEW d \in Days, StartSession(d), run.batches = {},
           run.kind \in {"advance", "catchup"},
           NEW days \in SUBSET Days, run' = [SessionRun(d) EXCEPT !.days = days],
           UNCHANGED <<clock, bars, batch, savepoint, durable>>
    PROVE  IInv'
<1>r. run \in Run /\ SoundBook(book, batch) /\ book \in Book BY DEF IInv, TypeOK
<1>1. SoundBook(book', batch) BY <1>r, CorporateActionsSound DEF StartSession
<1>2. Pending(book') = Pending(book)
  <2>1. book'.orders = book.orders BY <1>r DEF StartSession, CorporateActions, Book
  <2> QED BY <2>1 DEF Pending
<1>3. d \in 0..LastDay /\ d # 0 BY CalendarAssumption DEF Days
<1>4. Pending(book) \subseteq OrderKeys BY DEF Pending
<1>5. run' = [run EXCEPT !.stage = "fill", !.day = d, !.orders = Pending(book), !.days = days]
  BY DEF SessionRun
<1>6. run' \in Run BY <1>r, <1>3, <1>4, <1>5 DEF Run
<1>7. /\ run'.stage = "fill" /\ run'.day = d /\ run'.orders = Pending(book)
      /\ run'.batches = {}
  BY <1>r, <1>5 DEF Run
<1>8. Pending(book)' = Pending(book') BY DEF Pending
<1>9. RunInv' BY <1>2, <1>3, <1>7, <1>8 DEF RunInv
<1> QED BY <1>1, <1>6, <1>9, BooksStep DEF IInv

\* The daily advance between its decisions and its end.
LEMMA AdvanceStep ==
    ASSUME IInv,
           \/ ListDays \/ AdvanceMark \/ FinishAdvance
           \/ \E d \in Days : AdvanceDay(d)
    PROVE  IInv'
<1>r. run \in Run /\ RunInv /\ SoundBook(book, batch) /\ book \in Book
  BY DEF IInv, TypeOK
<1>1. CASE ListDays
  <2> DEFINE days == {d \in BarDays : d > book.watermark}
  <2>1. days \subseteq Days BY DEF IInv, TypeOK, BarDays
  <2>2. run' = [run EXCEPT !.stage = "days", !.days = days] BY <1>1 DEF ListDays
  <2>3. run' \in Run BY <1>r, <2>1, <2>2 DEF Run
  <2>4. /\ run'.stage = "days" /\ run'.batches = {} /\ run'.orders = {}
        /\ run'.kind = "advance"
    BY <1>1, <1>r, <2>2 DEF Run, ListDays, RunInv
  <2>5. RunInv' BY <2>4 DEF RunInv
  <2> QED BY <1>1, <2>3, <2>5, StartStep DEF ListDays
<1>2. ASSUME NEW d \in Days, AdvanceDay(d) PROVE IInv'
  <2>1. /\ run.kind = "advance" /\ run.stage = "days" /\ run.batches = {}
        /\ run.orders = {} /\ UNCHANGED <<clock, bars, batch>>
    BY <1>2, <1>r DEF AdvanceDay, RunInv
  <2>2. CASE PreActivation(d)
    <3>1. WriteAs(SkippedDay(book, d)) /\ run' = [run EXCEPT !.days = @ \ {d}]
      BY <1>2, <2>2 DEF AdvanceDay
    <3>2. run' \in Run BY <1>r, <3>1 DEF Run
    <3>3. /\ run'.stage = "days" /\ run'.batches = {} /\ run'.orders = {}
          /\ run'.kind = "advance"
      BY <1>r, <2>1, <3>1 DEF Run
    <3>4. RunInv' BY <3>3 DEF RunInv
    <3> QED BY <1>r, <2>1, <3>1, <3>2, <3>4, PointersSound, WriteStep DEF WriteAs
  <2>3. CASE ~PreActivation(d)
    <3>1. run.days \ {d} \in SUBSET Days BY <1>r DEF Run
    <3>2. SessionRun(d).days = run.days BY <1>r DEF Run, SessionRun
    <3>3. /\ StartSession(d) /\ run' = [SessionRun(d) EXCEPT !.days = run.days \ {d}]
          /\ UNCHANGED <<savepoint, durable>>
      BY <1>2, <2>3, <3>2 DEF AdvanceDay
    <3> QED BY <2>1, <3>1, <3>3, SessionStep
  <2> QED BY <2>2, <2>3
<1>3. CASE AdvanceMark
  <2>1. /\ run.kind = "advance" /\ run.stage = "fill" /\ run.orders = {}
        /\ book' = Marked(book, run.day) /\ savepoint' = book'
        /\ run' = [run EXCEPT !.stage = "days", !.day = 0]
        /\ UNCHANGED <<clock, bars, batch, durable>>
    BY <1>3 DEF AdvanceMark, SessionFilled
  <2>2. run.day \in Days /\ run.batches = {}
    BY <1>r, <2>1, CalendarAssumption DEF Run, RunInv, Days
  <2>3. SoundBook(Marked(book, run.day), batch) BY <1>r, <2>2, MarkedSound
  <2>z. 0 \in 0..LastDay BY CalendarAssumption
  <2>4. run' \in Run BY <1>r, <2>1, <2>z DEF Run
  <2>5. /\ run'.stage = "days" /\ run'.batches = {} /\ run'.orders = {}
        /\ run'.kind = "advance"
    BY <1>r, <2>1, <2>2 DEF Run
  <2>6. RunInv' BY <2>5 DEF RunInv
  <2> QED BY <2>1, <2>3, <2>4, <2>6, WriteStep
<1>4. CASE FinishAdvance
  BY <1>4, <1>r, StatusSound, CommitStep DEF FinishAdvance
<1> QED BY <1>1, <1>2, <1>3, <1>4

\* The end of a catch-up session.
LEMMA CloseStep ==
    ASSUME IInv, UNCHANGED <<clock, bars, batch>>, NEW b, SoundBook(b, batch),
           CloseCatchUpSession(b), run.batches = {}, run.kind = "catchup"
    PROVE  IInv'
<1>r. run \in Run BY DEF IInv, TypeOK
<1>1. SoundBook(Refreshed(b), batch) BY StatusSound
<1>2. run' = [run EXCEPT !.stage = "days", !.day = 0, !.at = 0, !.orders = {}]
  BY DEF CloseCatchUpSession
<1>z. 0 \in 0..LastDay BY CalendarAssumption
<1>3. run' \in Run BY <1>r, <1>2, <1>z DEF Run
<1>4. /\ run'.stage = "days" /\ run'.batches = {} /\ run'.orders = {}
      /\ run'.kind = "catchup"
  BY <1>r, <1>2 DEF Run
<1>5. RunInv' BY <1>4 DEF RunInv
<1>6. durable' \in {durable, Refreshed(b)} /\ book' = Refreshed(b) /\ savepoint' = Refreshed(b)
  BY DEF CloseCatchUpSession
<1>7. SoundBook(durable', batch) BY <1>1, <1>6 DEF IInv
<1> QED BY <1>1, <1>3, <1>5, <1>6, <1>7, BooksStep

\* The catch-up between its start and its end.
LEMMA CatchUpStep ==
    ASSUME IInv,
           \/ CatchUpDay \/ CatchUpMark \/ FinishCatchUp
           \/ \E d \in Days : OpenCatchUpSession(d)
    PROVE  IInv'
<1>r. run \in Run /\ RunInv /\ SoundBook(book, batch) /\ book \in Book
  BY DEF IInv, TypeOK
<1>1. ASSUME NEW d \in Days, OpenCatchUpSession(d) PROVE IInv'
  <2>1. run' = [run EXCEPT !.stage = "decide", !.days = @ \ {d}, !.day = d, !.at = d,
                           !.batches = VisibleBatches(d)]
    BY <1>1 DEF OpenCatchUpSession
  <2>2. d \in 0..LastDay BY CalendarAssumption DEF Days
  <2>3. VisibleBatches(d) \subseteq Days BY DEF VisibleBatches, PublishedBatches
  <2>4. run' \in Run BY <1>r, <2>1, <2>2, <2>3 DEF Run
  <2>5. /\ run'.stage = "decide" /\ run'.batches = VisibleBatches(d) /\ run'.at = d
        /\ run'.orders = {} /\ run'.kind = "catchup"
    BY <1>1, <1>r, <2>1 DEF OpenCatchUpSession, Run, RunInv
  <2>6. ASSUME NEW asOf \in VisibleBatches(d)
        PROVE  asOf <= d /\ batch[asOf] # 0 /\ batch[asOf] <= d + 1
    <3>1. batch[asOf] \in Nat
      BY <2>3, CalendarAssumption DEF IInv, TypeOK
    <3> QED BY <2>2, <3>1, CalendarAssumption DEF VisibleBatches, PublishedBatches
  <2>7. RunInv' BY <1>1, <2>5, <2>6 DEF OpenCatchUpSession, RunInv
  <2> QED BY <1>1, <2>4, <2>7, StartStep DEF OpenCatchUpSession
<1>2. CASE CatchUpDay
  <2>1. /\ run.kind = "catchup" /\ run.batches = {} /\ UNCHANGED <<clock, bars, batch>>
        /\ run.day \in Days
    BY <1>2, <1>r, CalendarAssumption DEF CatchUpDay, Run, Days
  <2>2. CASE PreActivation(run.day)
    <3>1. CloseCatchUpSession(SkippedDay(book, run.day)) BY <1>2, <2>2 DEF CatchUpDay
    <3> QED BY <1>r, <2>1, <3>1, PointersSound, CloseStep
  <2>3. CASE ~PreActivation(run.day)
    <3>1. /\ StartSession(run.day) /\ run' = SessionRun(run.day)
          /\ UNCHANGED <<savepoint, durable>>
      BY <1>2, <2>3 DEF CatchUpDay
    <3>2. run' = [SessionRun(run.day) EXCEPT !.days = run.days] /\ run.days \in SUBSET Days
      BY <1>r, <3>1 DEF Run, SessionRun
    <3> QED BY <2>1, <3>1, <3>2, SessionStep
  <2> QED BY <2>2, <2>3
<1>3. CASE CatchUpMark
  <2>1. /\ run.kind = "catchup" /\ run.stage = "fill"
        /\ CloseCatchUpSession(Marked(book, run.day)) /\ UNCHANGED <<clock, bars, batch>>
    BY <1>3 DEF CatchUpMark, SessionFilled
  <2>2. run.day \in Days /\ run.batches = {}
    BY <1>r, <2>1, CalendarAssumption DEF Run, RunInv, Days
  <2> QED BY <1>r, <2>1, <2>2, MarkedSound, CloseStep
<1>4. CASE FinishCatchUp
  BY <1>4, <1>r, CommitStep DEF FinishCatchUp
<1> QED BY <1>1, <1>2, <1>3, <1>4

\* The intraday run starts on the PENDING orders of an open session.
LEMMA StartIntradayStep == IInv /\ StartIntraday => IInv'
<1> SUFFICES ASSUME IInv, StartIntraday PROVE IInv'
  OBVIOUS
<1>1. run' = [Idle EXCEPT !.kind = "intraday", !.stage = "fill", !.day = Today,
                          !.orders = Pending(book)]
  BY DEF StartIntraday
<1>2. Today \in 0..LastDay /\ Today # 0
  <2>1. Today \in Days BY TodayIsDay DEF IInv, TypeOK, Today
  <2> QED BY <2>1, CalendarAssumption DEF Days
<1>3. Pending(book) \subseteq OrderKeys BY DEF Pending
<1>4. run' \in Run BY <1>1, <1>2, <1>3, IdleRun DEF Run
<1>5. /\ run'.kind = "intraday" /\ run'.stage = "fill" /\ run'.day = Today
      /\ run'.orders = Pending(book) /\ run'.batches = {}
  BY <1>1, IdleRun DEF Idle
<1>6. RunInv' BY <1>2, <1>5 DEF RunInv, StartIntraday
<1> QED BY <1>4, <1>6, StartStep DEF StartIntraday

\* A blocked session, and the two ways a run fails: each commits a sound book.
LEMMA EndStep == IInv /\ (BlockSession \/ Failure) => IInv'
<1> SUFFICES ASSUME IInv, BlockSession \/ Failure PROVE IInv'
  OBVIOUS
<1>s. SoundBook(book, batch) /\ SoundBook(savepoint, batch) /\ SoundBook(durable, batch)
  BY DEF IInv
<1>1. CASE BlockSession
  BY <1>1, <1>s, StatusSound, CommitStep DEF BlockSession, BlockedBook
<1>2. CASE Crash
  BY <1>2, <1>s, CommitStep DEF Crash
<1>3. CASE Abort
  BY <1>3, <1>s, CommitStep DEF Abort
<1> QED BY <1>1, <1>2, <1>3 DEF Failure

-----------------------------------------------------------------------------
(* The theorems.                                                           *)

\* The invariant is inductive: every action keeps it.
LEMMA NextIInv == IInv /\ [Next]_vars => IInv'
<1> SUFFICES ASSUME IInv, [Next]_vars PROVE IInv'
  OBVIOUS
<1>1. CASE Environment BY <1>1, EnvironmentStep
<1>2. CASE Owner BY <1>2, OwnerStep
<1>3. CASE StartRun BY <1>3, StartRunStep
<1>4. CASE RunStep
  <2>1. ASSUME NEW asOf \in Days, SkipBatch(asOf) \/ DecideWeek(asOf) PROVE IInv'
    BY <2>1, DecideStep
  <2>2. ASSUME NEW k \in OrderKeys, FillOrder(k) PROVE IInv'
    BY <2>2, FillStep
  <2>3. CASE BlockSession BY <2>3, EndStep
  <2>4. CASE ListDays \/ AdvanceMark \/ FinishAdvance \/ \E d \in Days : AdvanceDay(d)
    BY <2>4, AdvanceStep
  <2>5. CASE CatchUpDay \/ CatchUpMark \/ FinishCatchUp \/ \E d \in Days : OpenCatchUpSession(d)
    BY <2>5, CatchUpStep
  <2> QED BY <1>4, <2>1, <2>2, <2>3, <2>4, <2>5 DEF RunStep
<1>5. CASE StartIntraday BY <1>5, StartIntradayStep
<1>6. CASE IntradayStep BY <1>6, IntradayStepKeeps
<1>7. CASE Failure BY <1>7, EndStep
<1>8. CASE UNCHANGED vars
  <2>1. run' \in Run /\ RunInv' BY <1>8 DEF vars, IInv, TypeOK, RunInv, Pending
  <2> QED BY <1>8, <2>1, StartStep DEF vars
<1> QED BY <1>1, <1>2, <1>3, <1>4, <1>5, <1>6, <1>7, <1>8 DEF Next

\* Every reachable state satisfies the inductive invariant.
THEOREM Soundness == Spec => []IInv
BY InitIInv, NextIInv, PTL DEF Spec

\* Every component keeps its type: cash, holdings and peak never leave the natural numbers,
\* because a BUY is checked against the cash and a SELL is clipped to the position.
THEOREM TypeCorrect == Spec => []TypeOK
<1>1. IInv => TypeOK BY DEF IInv
<1> QED BY <1>1, Soundness, PTL

\* One weekly plan is live, for every calendar, cohort and order of batches.
THEOREM OnePlanHolds == Spec => []OnePlan
<1>1. IInv => OnePlan BY DEF IInv, SoundBook, OnePlan
<1> QED BY <1>1, Soundness, PTL

\* An order is FILLED exactly when it has its one fill row, however runs fail and repeat.
THEOREM ExactlyOnceHolds == Spec => []ExactlyOnce
<1>1. ASSUME NEW b, SoundBook(b, batch) PROVE FilledOnce(b)
  <2> SUFFICES ASSUME NEW k \in OrderKeys
               PROVE  /\ b.orders[k].status = "FILLED" <=> b.fills[k].day # 0
                      /\ b.fills[k].qty <= b.orders[k].qty
    BY DEF FilledOnce
  <2>1. b.orders[k].qty \in Nat
    BY <1>1, BoundsAssumption DEF SoundBook, Book, Order
  <2> QED BY <1>1, <2>1 DEF SoundBook, Linked, NoFill
<1>2. IInv => ExactlyOnce BY <1>1 DEF IInv, ExactlyOnce
<1> QED BY <1>2, Soundness, PTL

\* Point in time: decisions use published data only and fills follow their decisions, in
\* whatever order candles, batches and sessions arrive.
THEOREM NoLookAheadHolds == Spec => []NoLookAhead
<1>1. ASSUME NEW b, SoundBook(b, batch) PROVE PointInTime(b)
  <2>1. ASSUME NEW k \in Filled(b) PROVE b.decisions[k[1]].at < b.fills[k].day
    <3>1. k \in OrderKeys /\ b.fills[k].day # 0 BY DEF Filled
    <3>2. b.orders[k].status = "FILLED" BY <1>1, <3>1 DEF SoundBook, Linked, NoFill
    <3>3. /\ b.orders[k].minExec = b.decisions[k[1]].at + 1
          /\ b.orders[k].minExec <= b.fills[k].day
      BY <1>1, <3>1, <3>2 DEF SoundBook, Linked
    <3>4. k[1] \in Weeks BY <3>1 DEF OrderKeys
    <3>5. b.decisions[k[1]].at \in Nat /\ b.fills[k].day \in Nat
      BY <1>1, <3>1, <3>4, CalendarAssumption DEF SoundBook, Book, Decision, Fill
    <3> QED BY <3>3, <3>5
  <2>2. \A k \in OrderKeys : b.orders[k].status # "NONE" => Decided(b, k[1])
    BY <1>1 DEF SoundBook, Linked
  <2> QED BY <1>1, <2>1, <2>2 DEF SoundBook, Signals, PointInTime
<1>2. IInv => NoLookAhead BY <1>1 DEF IInv, NoLookAhead
<1> QED BY <1>2, Soundness, PTL
=============================================================================
