------------------------------ MODULE MCPanel ------------------------------
(* A small instance of Panel: the operator may write in one organization,   *)
(* and read in another; a third is created on the way.                      *)
EXTENDS Panel

Pages == {"models", "catalog", "providers", "customers", "keys", "plans", "mgmt",
          "settings", "organizations", "analytics", "playground"}
Granted == [o \in Orgs |-> IF o = "b" THEN "read" ELSE "write"]
=============================================================================
