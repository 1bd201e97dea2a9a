---------------------------- MODULE MCDailyCycle ----------------------------
(***************************************************************************)
(* Instances of DailyCycle for TLC: two workers, one recovery, two         *)
(* instruments.  Workers are alike unless a property is about liveness.    *)
(***************************************************************************)
EXTENDS DailyCycle, TLC

CONSTANTS w1, w2, m1, i1, i2, r1, r2, r3

WorkerSymmetry == Permutations(Workers)
=============================================================================
