------------------------- MODULE MCShadowPortfolio -------------------------
(***************************************************************************)
(* Instances of ShadowPortfolio for TLC.  Two ISO weeks; prices move so    *)
(* that a drawdown trips the guard and recovers, and a buy that was        *)
(* affordable at the signal day's close may not be at the open.            *)
(***************************************************************************)
EXTENDS ShadowPortfolio

CONSTANTS i1, i2

OpenPrice(d, i) == IF i = i1 THEN <<3, 4, 2, 3>>[d] ELSE <<2, 2, 3, 2>>[d]
Close(d, i) == IF i = i1 THEN <<3, 2, 6, 3>>[d] ELSE <<2, 3, 3, 2>>[d]

\* A commission of 1 per order.
MCBuyCost == [d \in Days |-> [i \in Instruments |-> [q \in 0..MaxUnits |->
                 q * OpenPrice(d, i) + 1]]]
MCSellProceeds == [d \in Days |-> [i \in Instruments |-> [q \in 0..MaxUnits |->
                 IF q = 0 THEN 0 ELSE q * OpenPrice(d, i) - 1]]]
MCClosePrice == [d \in Days |-> [i \in Instruments |-> Close(d, i)]]
MCMarketValue == [d \in Days |-> [u \in Holdings |->
                 MapThenSumSet(LAMBDA i : u[i] * Close(d, i), Instruments)]]

\* An order of week 1 can fill from day 2 on, one of week 2 from day 3 on.
MCWeekOf == [d \in Days |-> IF d = 1 THEN 1 ELSE 2]
OneWeek == [d \in Days |-> 1]

\* After each day's open; or before the open of the last days too.
OncePerDay == {2 * d + 1 : d \in Days}
TwicePerDay == 3..2 * LastDay + 1

NoSplits == [d \in Days |-> [i \in Instruments |-> 1]]
\* One unit becomes two on day 3.
SplitOnDay3 == [d \in Days |-> [i \in Instruments |-> IF d = 3 THEN 2 ELSE 1]]
=============================================================================
