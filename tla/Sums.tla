------------------------------- MODULE Sums -------------------------------
(***************************************************************************)
(* The sum of a function over a finite set: money, tokens and holds are    *)
(* totals of what the calls of a customer or the entries of a ledger hold. *)
(***************************************************************************)
EXTENDS FiniteSetsExt

Total(f, S) == MapThenSumSet(LAMBDA x : f[x], S)
=============================================================================
