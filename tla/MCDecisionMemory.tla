------------------------- MODULE MCDecisionMemory -------------------------
(***************************************************************************)
(* Instances of DecisionMemory for TLC: two requests at a time.            *)
(***************************************************************************)
EXTENDS DecisionMemory, TLC

CONSTANTS r1, r2, k1, k2, v1, v2, o1

\* The screen shows advice to buy, or another decision whose advice is to sell.
MCSideOf == [v \in Views |-> IF v = v1 THEN "BUY" ELSE "SELL"]

MCOperationSide == [o \in Operations |-> "BUY"]

RequestSymmetry == Permutations(Requests)
RequestsAndKeys == Permutations(Requests) \cup Permutations(Keys)
=============================================================================
