---------------------------- MODULE MCSettlement ----------------------------
(***************************************************************************)
(* Instances of Settlement for TLC: one to three calls of one customer.      *)
(***************************************************************************)
EXTENDS Settlement, TLC

CONSTANTS r1, r2, r3

\* r1 uses less than its hold, r2 more: an estimate is not an upper bound.
MCHold  == [r \in Requests |-> IF r = r1 THEN 3 ELSE 1]
MCPrice == [r \in Requests |-> IF r = r1 THEN 1 ELSE 2]
MCDeltas == {-1, 1}
MCDebits == {-1}

\* Budgets of mishaps: e errors, d disconnects, c crashes, x outlived leases.
Mishap(e, d, c, x) ==
  ("error" :> e) @@ ("disconnect" :> d) @@ ("crash" :> c) @@ ("expiry" :> x)

OneDisconnect == Mishap(0, 1, 0, 0)
CallsBudget   == Mishap(1, 1, 0, 0)
OutboxBudget  == Mishap(1, 1, 1, 2)
=============================================================================
