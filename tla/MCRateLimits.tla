---------------------------- MODULE MCRateLimits ----------------------------
(***************************************************************************)
(* Instances of RateLimits for TLC: two calls, a window of two buckets.     *)
(***************************************************************************)
EXTENDS RateLimits, TLC

CONSTANTS c1, c2

\* c1 uses more than its estimate, c2 less.  Both fit until c1 has settled.
MCEstimate == [c \in Calls |-> IF c = c1 THEN 1 ELSE 2]
MCActual   == [c \in Calls |-> IF c = c1 THEN 2 ELSE 1]
=============================================================================
