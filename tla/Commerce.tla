------------------------------ MODULE Commerce ------------------------------
(***************************************************************************)
(* The administration of one organization: Customers and Catalog, over the *)
(* same requests. The routers are mounted side by side in index.ts.        *)
(***************************************************************************)
EXTENDS Customers, Catalog

vars == <<req, customerVars, catalogVars>>

Init == InitRequests /\ InitCustomers /\ InitCatalog

Next ==
    \/ \E r \in Requests :
        \/ CustomerStep(r) /\ UNCHANGED catalogVars
        \/ CatalogStep(r) /\ UNCHANGED customerVars
        \/ Stop(r) /\ UNCHANGED <<customerVars, catalogVars>>
    \/ BuildIndex /\ UNCHANGED catalogVars

Spec == Init /\ [][Next]_vars

(* What the requests leave in every collection has the type of its schema. *)
TypeOK == CustomersTypeOK /\ CatalogTypeOK

(* Documents refer to what is there: entries to providers, discovered      *)
(* models to theirs; a model's fallbacks stay in order and never run out.  *)
DocumentsSound ==
    TypeOK /\ EntriesResolve /\ CatalogOwned /\ FallbacksInOrder /\ DistinctEntriesRemain
=============================================================================
