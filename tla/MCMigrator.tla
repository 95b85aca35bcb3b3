----------------------------- MODULE MCMigrator -----------------------------
(***************************************************************************)
(* Instances of Migrator for TLC: a process of one release, and one of the *)
(* next, which adds a migration and in which two older files were edited.  *)
(***************************************************************************)
EXTENDS Migrator, TLC

CONSTANTS old, new, m1, m2, m3

MCFiles == [r \in Runners |-> IF r = old THEN <<m1, m2>> ELSE <<m1, m2, m3>>]
MCChecksum ==
  [r \in Runners |-> [m \in Migrations |-> IF r = new /\ m # m3 THEN 2 ELSE 1]]
=============================================================================
