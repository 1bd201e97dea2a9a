----------------------------- MODULE ShadowBook -----------------------------
(***************************************************************************)
(* The book of one Shadow portfolio: what the ledger tables hold           *)
(* (ShadowPortfolio, ShadowDecision, ShadowOrder, ShadowFill,              *)
(* ShadowNavDaily) and the operations of shadow/application/service.py on  *)
(* it, each written as an operator from a book to the next book.           *)
(*                                                                         *)
(* Days are calendar days 1..LastDay, 0 stands for NULL.  A week holds at  *)
(* most one decision and a decision at most one order per instrument, so   *)
(* <<week, instrument>> is an order's identity.  Quantities are whole      *)
(* units (lot-aware portfolios, Realism V2).  Prices, slippage and         *)
(* commission are the tables BuyCost and SellProceeds.                     *)
(***************************************************************************)
EXTENDS Integers, FiniteSets, FiniteSetsExt

CONSTANTS
    Instruments,     \* the cohort that can be traded
    LastDay,         \* bound on the calendar
    WeekOf,          \* WeekOf[d]: ISO week of day d
    InitialCapital,  \* cash a portfolio starts with
    MaxUnits,        \* bound on the units held of one instrument
    MaxLot,          \* bound on the units of one order
    BuyCost,         \* BuyCost[d][i][q]: notional plus commission of buying q at d's OPEN
    SellProceeds,    \* SellProceeds[d][i][q]: notional less commission of selling q
    ClosePrice,      \* ClosePrice[d][i]
    MarketValue,     \* MarketValue[d][u]: value of the holdings u at d's closes
    Split,           \* Split[d][i]: factor of the split with event date d, 1 for none
    GuardOn,         \* the spec's risk_name is RISK_DD_GUARD_V1
    TriggerPct,      \* drawdown, in percent, that switches the guard on
    RecoveryPct      \* drawdown at which it switches off

Days == 1..LastDay
Holdings == [Instruments -> 0..MaxUnits]
Weeks == {WeekOf[d] : d \in Days}
OrderKeys == Weeks \X Instruments

ASSUME CohortAssumption == IsFiniteSet(Instruments)

ASSUME CalendarAssumption ==
    /\ LastDay \in Nat \ {0}
    /\ WeekOf \in [Days -> Nat \ {0}]

ASSUME BoundsAssumption ==
    /\ MaxUnits \in Nat
    /\ MaxLot \in Nat
    /\ MaxLot <= MaxUnits
    /\ InitialCapital \in Nat \ {0}
    /\ GuardOn \in BOOLEAN
    /\ TriggerPct \in Nat
    /\ RecoveryPct \in Nat

\* A commission never exceeds what the sale brings: proceeds are natural numbers.
ASSUME PriceAssumption ==
    /\ BuyCost \in [Days -> [Instruments -> [0..MaxUnits -> Nat]]]
    /\ SellProceeds \in [Days -> [Instruments -> [0..MaxUnits -> Nat]]]
    /\ ClosePrice \in [Days -> [Instruments -> Nat \ {0}]]
    /\ MarketValue \in [Days -> [Holdings -> Nat]]
    /\ Split \in [Days -> [Instruments -> Nat \ {0}]]

\* The market value table is the sum of units times close.
ASSUME MarketValueAssumption ==
    \A d \in Days, u \in Holdings :
        MarketValue[d][u] = MapThenSumSet(LAMBDA i : u[i] * ClosePrice[d][i], Instruments)

-----------------------------------------------------------------------------
(* Wall-clock time counts half days: 2d is day d before the session open   *)
(* (07:00 UTC) and 2d + 1 after it.                                        *)

DateOf(t) == t \div 2
SessionOpen(d) == 2 * d + 1

OrderStatus == {"NONE", "PENDING", "FILLED", "CANCELLED"}
PortfolioStatus == {"INITIALIZED", "WAITING_FOR_NEW_MARKET", "WAITING_FOR_SIGNAL",
                    "DECISION_READY", "WAITING_FOR_FUTURE_MARKET_OPEN", "ACTIVE"}

Order == [status : OrderStatus, side : {"BUY", "SELL"}, qty : 0..MaxLot,
          minExec : 0..LastDay + 1, created : 0..2 * LastDay + 1]
Fill == [day : 0..LastDay, qty : 0..MaxLot, source : {"NONE", "CANDLE", "INTRADAY"}]
Decision == [asOf : 0..LastDay, at : 0..LastDay]
NavRow == [booked : BOOLEAN, cash : Nat, value : Nat]

NoOrder == [status |-> "NONE", side |-> "BUY", qty |-> 0, minExec |-> 0, created |-> 0]
NoFill == [day |-> 0, qty |-> 0, source |-> "NONE"]
NoDecision == [asOf |-> 0, at |-> 0]
NoNavRow == [booked |-> FALSE, cash |-> 0, value |-> 0]

Book == [cash : Nat, units : Holdings,
         orders : [OrderKeys -> Order], fills : [OrderKeys -> Fill],
         decisions : [Weeks -> Decision],
         lastWeek : {0} \cup Weeks, lastDecision : {0} \cup Weeks,
         nav : [Days -> NavRow], watermark : 0..LastDay,
         peak : Nat, riskMode : {"normal", "risk_off"},
         status : PortfolioStatus, activated : 0..LastDay]

EmptyBook == [cash |-> InitialCapital, units |-> [i \in Instruments |-> 0],
              orders |-> [k \in OrderKeys |-> NoOrder],
              fills |-> [k \in OrderKeys |-> NoFill],
              decisions |-> [w \in Weeks |-> NoDecision],
              lastWeek |-> 0, lastDecision |-> 0,
              nav |-> [d \in Days |-> NoNavRow], watermark |-> 0,
              peak |-> InitialCapital, riskMode |-> "normal",
              status |-> "INITIALIZED", activated |-> 0]

Held(b) == {i \in Instruments : b.units[i] > 0}
Pending(b) == {k \in OrderKeys : b.orders[k].status = "PENDING"}
Decided(b, w) == b.decisions[w].asOf # 0
Filled(b) == {k \in OrderKeys : b.fills[k].day # 0}
Booked(b) == {d \in Days : b.nav[d].booked}

-----------------------------------------------------------------------------
(* Decisions.  bars is the set of <<day, instrument>> that have a candle.  *)

\* _build_decision_and_orders can size a plan: every held position is priced on the
\* pricing day, or a complete NAV row exists to fall back on.
CanSize(b, bars, asOf) ==
    LET priceDay == IF b.watermark # 0 THEN b.watermark ELSE asOf
    IN  (\A i \in Held(b) : <<priceDay, i>> \in bars) \/ Booked(b) # {}

\* Cash build_lot_order_plan projects at the signal day's closes, fees left out.
PlannedCash(b, asOf, plan) ==
    b.cash - MapThenSumSet(LAMBDA i : plan[i] * ClosePrice[asOf][i], Instruments)

\* What the lot-aware plan may ask for: units to buy (positive) or to sell (negative).
\* Ranks, weights and the sell gate choose among these.
Plans(b, bars, asOf) ==
    {plan \in [Instruments -> (-MaxLot)..MaxLot] :
        /\ \A i \in Instruments : plan[i] # 0 => <<asOf, i>> \in bars
        /\ \A i \in Instruments : -plan[i] <= b.units[i]
        /\ PlannedCash(b, asOf, plan) >= 0}

PlannedOrder(units, at, stamp) ==
    [status |-> "PENDING",
     side |-> IF units > 0 THEN "BUY" ELSE "SELL",
     qty |-> IF units > 0 THEN units ELSE -units,
     minExec |-> at + 1,
     created |-> stamp]

\* Mutant of Superseded: the prior weeks' orders stay.
SupersededNever(o) == o

Superseded(o) == IF o.status = "PENDING" THEN [o EXCEPT !.status = "CANCELLED"] ELSE o

\* Insert the week's decision, cancel every PENDING order of the other decisions,
\* persist the plan's orders and move the last-decision pointers.
Decide(b, asOf, at, stamp, plan) ==
    LET w == WeekOf[asOf]
    IN  [b EXCEPT
            !.decisions[w] = [asOf |-> asOf, at |-> at],
            !.orders = [k \in OrderKeys |->
                IF k[1] # w THEN Superseded(b.orders[k])
                ELSE IF plan[k[2]] # 0 THEN PlannedOrder(plan[k[2]], at, stamp)
                ELSE b.orders[k]],
            !.lastWeek = w,
            !.lastDecision = w]

-----------------------------------------------------------------------------
(* Fills.                                                                  *)

\* The candle path's eligibility: execution day after the decision's date, OPEN known.
OpenEligible(b, bars, k, d) ==
    /\ b.orders[k].minExec <= d
    /\ <<d, k[2]>> \in bars

\* Mutant of Affordable: the price check uses the session's close.
AffordableAtClose(b, k, d) == b.orders[k].qty * ClosePrice[d][k[2]] <= b.cash

Affordable(b, k, d) == BuyCost[d][k[2]][b.orders[k].qty] <= b.cash

\* Mutant of Bought: the order is not closed.
BoughtStillPending(b, k, d, source) ==
    [b EXCEPT !.cash = @ - BuyCost[d][k[2]][b.orders[k].qty],
              !.units[k[2]] = @ + b.orders[k].qty,
              !.fills[k] = [day |-> d, qty |-> b.orders[k].qty, source |-> source]]

Bought(b, k, d, source) ==
    LET i == k[2]
        q == b.orders[k].qty
    IN  [b EXCEPT !.cash = @ - BuyCost[d][i][q],
                  !.units[i] = @ + q,
                  !.orders[k].status = "FILLED",
                  !.fills[k] = [day |-> d, qty |-> q, source |-> source]]

\* A SELL is clipped to the position.
SellUnits(b, k) ==
    IF b.orders[k].qty <= b.units[k[2]] THEN b.orders[k].qty ELSE b.units[k[2]]

\* Mutant of Sold: the commission is added to the proceeds.
SoldFeeAdded(b, k, d, source) ==
    [b EXCEPT !.cash = @ + BuyCost[d][k[2]][SellUnits(b, k)],
              !.units[k[2]] = @ - SellUnits(b, k),
              !.orders[k].status = "FILLED",
              !.fills[k] = [day |-> d, qty |-> SellUnits(b, k), source |-> source]]

Sold(b, k, d, source) ==
    LET i == k[2]
        q == SellUnits(b, k)
    IN  [b EXCEPT !.cash = @ + SellProceeds[d][i][q],
                  !.units[i] = @ - q,
                  !.orders[k].status = "FILLED",
                  !.fills[k] = [day |-> d, qty |-> q, source |-> source]]

Cancelled(b, k) == [b EXCEPT !.orders[k].status = "CANCELLED"]

-----------------------------------------------------------------------------
(* The end-of-day pass.                                                    *)

SplitHoldings(b, d) == [i \in Instruments |-> b.units[i] * Split[d][i]]

CorporateActions(b, d) == [b EXCEPT !.units = SplitHoldings(b, d)]

MissingCloses(b, bars, d) == {i \in Held(b) : <<d, i>> \notin bars}

GuardMode(mode, total, peak) ==
    IF mode = "normal" /\ (peak - total) * 100 >= TriggerPct * peak THEN "risk_off"
    ELSE IF mode = "risk_off" /\ (peak - total) * 100 <= RecoveryPct * peak THEN "normal"
    ELSE mode

\* _mark_nav with every close known.
\* Mutant of Marked: the peak stands still while the guard is on.
MarkedPeakFrozen(b, d) ==
    LET total == b.cash + MarketValue[d][b.units]
        peak  == IF b.peak > total \/ b.riskMode = "risk_off" THEN b.peak ELSE total
    IN  [b EXCEPT
            !.peak = peak,
            !.riskMode = IF GuardOn THEN GuardMode(@, total, peak) ELSE @,
            !.nav[d] = [booked |-> TRUE, cash |-> b.cash, value |-> total - b.cash],
            !.watermark = d]

\* Mutant of Marked: the NAV row is taken before the day's fills.
MarkedBeforeFills(b, d) ==
    LET today == {k \in Filled(b) : b.fills[k].day = d /\ b.orders[k].side = "BUY"}
    IN  [b EXCEPT
            !.nav[d] = [booked |-> TRUE, value |-> MarketValue[d][b.units],
                        cash |-> b.cash + MapThenSumSet(
                            LAMBDA k : BuyCost[d][k[2]][b.fills[k].qty], today)],
            !.watermark = d]

\* Mutant of Marked: the watermark only moves when a position is held.
MarkedKeepsWatermark(b, d) ==
    [b EXCEPT !.nav[d] = [booked |-> TRUE, cash |-> b.cash, value |-> MarketValue[d][b.units]],
              !.watermark = IF Held(b) = {} THEN @ ELSE d]

Marked(b, d) ==
    LET value == MarketValue[d][b.units]
        total == b.cash + value
        peak  == IF b.peak > total THEN b.peak ELSE total
    IN  [b EXCEPT
            !.peak = peak,
            !.riskMode = IF GuardOn THEN GuardMode(@, total, peak) ELSE @,
            !.nav[d] = IF @.booked THEN @
                       ELSE [booked |-> TRUE, cash |-> b.cash, value |-> value],
            !.watermark = d]

\* refresh_shadow_portfolio_status
Refreshed(b) ==
    [b EXCEPT !.status =
        IF Pending(b) # {} THEN "WAITING_FOR_FUTURE_MARKET_OPEN"
        ELSE IF Filled(b) # {} THEN "ACTIVE"
        ELSE IF b.lastDecision # 0 THEN "DECISION_READY"
        ELSE @]
=============================================================================
