------------------------------ MODULE BillOnce ------------------------------
(***************************************************************************)
(* What settlement promises about money, whatever fails on the way: a      *)
(* request is billed at most once, a bill takes its whole price from the   *)
(* balance and nothing else does, except the operator's adjustments.       *)
(***************************************************************************)
EXTENDS Integers

CONSTANTS Requests, Price, Opening, Deltas

VARIABLES balance, billed, adjusted

vars == <<balance, billed, adjusted>>

Init == balance = Opening /\ billed = {} /\ adjusted = 0

Bill(r) == /\ r \notin billed
           /\ Price[r] > 0 => balance >= Price[r]
           /\ billed' = billed \cup {r}
           /\ balance' = balance - Price[r]
           /\ UNCHANGED adjusted

Adjust(d) == /\ balance' = balance + d
             /\ adjusted' = adjusted + d
             /\ UNCHANGED billed

Next == (\E r \in Requests : Bill(r)) \/ (\E d \in Deltas : Adjust(d))

Spec == Init /\ [][Next]_vars
=============================================================================
