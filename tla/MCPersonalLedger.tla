-------------------------- MODULE MCPersonalLedger --------------------------
(***************************************************************************)
(* Instances of PersonalLedger for TLC: a share and a bond, three instants *)
(* and one request of every kind, sent again and again by two handlers.    *)
(***************************************************************************)
EXTENDS PersonalLedger

CONSTANTS h1, h2, share, bond, broker, deposit, buy, sell, payout, fee, fix, undo

MCTimes == {1, 2}

Entry(type, key, occurred, units, price, amount, commission, supersedes) ==
    [kind |-> "create", type |-> type, key |-> key, occurred |-> occurred,
     instrument |-> IF type \in {"BUY", "SELL"} THEN share ELSE None, units |-> units,
     price |-> price, amount |-> amount, commission |-> commission, supersedes |-> supersedes]

\* Two units for 4 and a fee of 1 cost 2.5 each: the average has to be rounded.
MCRequests ==
    {[kind |-> "cash", cash |-> 3],
     [kind |-> "position", instrument |-> bond, position |-> [units |-> 1, cost |-> None]],
     [kind |-> "position", instrument |-> share, position |-> [units |-> 1, cost |-> 2]],
     [kind |-> "clear"], [kind |-> "activate"], [kind |-> "reset"], [kind |-> "delete"],
     [kind |-> "broker", broker |-> broker],
     Entry("DEPOSIT", deposit, 2, 0, None, 4, None, 0),
     Entry("BUY", buy, 2, 2, 2, 0, None, 0),
     Entry("SELL", sell, 3, 2, 2, 0, 0, 0),
     Entry("WITHDRAWAL", payout, 2, 0, None, 2, None, 0),
     Entry("COMMISSION", fee, 3, 0, None, 1, None, 0),
     Entry("DEPOSIT", fix, 3, 0, None, 3, None, 1),
     [kind |-> "cancel", key |-> undo, target |-> 1],
     [kind |-> "cancel", key |-> None, target |-> 2]}
=============================================================================
