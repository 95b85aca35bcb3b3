---------------------------- MODULE MCCommerce ----------------------------
(* Commerce on an organization with two customers, two plans, two          *)
(* providers and two models, administered by two requests at a time. The   *)
(* documents that are there came from requests before these.               *)
EXTENDS Commerce

CONSTANTS c1, c2, c3, e1, e2, x1, p1, p2, p3, v1, v2, v3, m1, m2, m3,
          i1, i2, i3, i4, i5, i6, i7, k1, r0, r1, r2

MCPanelPermissions ==
    {"manage", "customers:read", "customers:write", "balances:read", "balances:write",
     "plans:write", "subscriptions:write", "customer_keys:write", "organization:write",
     "providers:write", "models:read", "models:write"}
MCWriteOf == "customers:read" :> "customers:write" @@ "balances:read" :> "balances:write"
             @@ "models:read" :> "models:write"
MCScopes == {"customers:read", "customers:write", "balances:read", "balances:write",
             "subscriptions:write", "models:read"}
MCPermissionOf == [s \in MCScopes |-> s]

MCPrincipals ==
    {[kind |-> "panel", grants |-> Admin],
     [kind |-> "panel", grants |-> Member({"customers:write"})],
     [kind |-> "panel", grants |-> Member({"balances:write"})],
     [kind |-> "management", scopes |-> {"customers:write", "balances:write"}]}

Rule(stream, active, id) == [stream |-> stream, active |-> active, id |-> id]
MCRuleSets == {{Rule("hour", TRUE, 1)},
               {Rule("hour", TRUE, 1), Rule("hour", TRUE, 2)},
               {Rule("hour", TRUE, 1), Rule("hour", FALSE, 2)}}
MCAmounts == {2, -1}

Entry(i, p, n) == [id |-> i, provider |-> p, priority |-> n]
MCEntryInputs == {<<Entry(NoId, v1, NoPriority)>>,
                  <<Entry(NoId, v2, 2), Entry(NoId, v1, NoPriority)>>,
                  <<Entry(i3, v2, 0)>>}
MCReorders == {i1 :> 2, i3 :> 0, i2 :> 0 @@ i1 :> 2, i1 :> 0 @@ i3 :> 0 @@ i2 :> 0}

Everything == DOMAIN PanelRoutes \cup {"useKey"} \cup DOMAIN CatalogGates.panel

(* r0 came before: it issued a key of c1 and credited c1. v2 is not named  *)
(* by a model.                                                             *)
MCInit ==
    /\ req = [r \in Requests |-> IF r = r0 THEN Answer("ok", FALSE) ELSE Idle]
    /\ currency = "USD"
    /\ customers = [c \in CustomerIds |->
        CASE c = c1 -> [status |-> "active", email |-> e1, externalId |-> None,
                        currency |-> "USD", balance |-> 2]
          [] c = c2 -> [status |-> "active", email |-> None, externalId |-> x1,
                        currency |-> "USD", balance |-> 0]
          [] OTHER -> AbsentCustomer]
    /\ adjustments = [r \in Requests |->
        IF r = r0 THEN [key |-> None, customer |-> c1, amount |-> 2, currency |-> "USD"]
        ELSE None]
    /\ plans = [p \in PlanIds |->
        CASE p = p1 -> [status |-> "active", currency |-> "USD", rules |-> {Rule("hour", TRUE, 1)}]
          [] p = p2 -> [status |-> "inactive", currency |-> "USD", rules |-> {}]
          [] OTHER -> AbsentPlan]
    /\ subscriptions = [r \in Requests |-> None]
    /\ apiKeys = [r \in Requests |->
        IF r = r0 THEN [customer |-> c1, prefix |-> "a", status |-> "active"] ELSE None]
    /\ posted \in BOOLEAN
    /\ providers = [p \in ProviderIds |->
        IF p \in {v1, v2} THEN [status |-> "present", active |-> TRUE, raced |-> FALSE]
        ELSE AbsentProvider]
    /\ modelCatalog = {[provider |-> v2, upstream |-> "u1", raced |-> FALSE]}
    /\ models = [m \in ModelIds |->
        IF m = m1
        THEN [status |-> "present", alias |-> "a1", active |-> TRUE, repeated |-> FALSE,
              raced |-> FALSE,
              entries |-> <<[id |-> i1, provider |-> v1, priority |-> 0],
                            [id |-> i2, provider |-> v1, priority |-> 1]>>]
        ELSE AbsentModel]

MCSpec == MCInit /\ [][Next]_vars
Symmetry == Permutations({r1, r2})
=============================================================================
