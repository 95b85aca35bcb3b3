----------------------------- MODULE Customers -----------------------------
(***************************************************************************)
(* The customers of one organization: their balances, plans and keys.      *)
(*   domains/{customers,plans,keys}/operations.ts,                         *)
(*   routes/{customers,plans,api-keys}.ts, routes/management/*.ts,         *)
(*   infrastructure/mongo/repositories/live.ts                             *)
(* What generation charges is in Settlement: here a balance moves by hand. *)
(***************************************************************************)
EXTENDS AdminRequests, Integers, Sums

CONSTANTS
    CustomerIds, PlanIds, Emails, ExternalIds, Currencies,
    Amounts,         \* an amount with its reason
    IdempotencyKeys, \* what the Idempotency-Key header may hold
    RuleSets,        \* sets of rate-limit rules, [stream, active, id]
    KeyPrefixes,        \* lookup prefixes of keys
    Attempts,        \* API_KEY_PREFIX_COLLISION_ATTEMPTS_COUNT
    None

\* A row of balance_adjustments.
AdjustmentRow == [key : IdempotencyKeys \cup {None}, customer : CustomerIds,
                  amount : Amounts, currency : Currencies]

ASSUME CustomersAssumption ==
    /\ Amounts \subseteq Int
    /\ Attempts \in Nat \ {0}
    /\ None \notin CustomerIds /\ None \notin AdjustmentRow
    /\ "balances:read" \in DOMAIN WriteOf /\ WriteOf["balances:read"] = "balances:write"
    /\ "balances:write" \notin DOMAIN WriteOf

VARIABLES
    currency,      \* the organization's defaultCurrency
    customers,     \* customers[c]
    adjustments,   \* adjustments[r]: the row that request r inserted, or None
    plans,         \* plans[p]
    subscriptions, \* subscriptions[r]: the row that request r inserted
    apiKeys,       \* apiKeys[r]: the key that request r issued
    posted         \* has the post phase built the idempotency index

customerVars == <<currency, customers, adjustments, plans, subscriptions, apiKeys, posted>>

AbsentCustomer == [status |-> "none", email |-> None, externalId |-> None,
                   currency |-> None, balance |-> 0]
AbsentPlan == [status |-> "none", currency |-> None, rules |-> {}]

Is(c) == customers[c].status # "none"
Fresh(docs) == {d \in DOMAIN docs : docs[d].status = "none"}
Body(r) == req[r].body

SubscribedTo(s, c) == subscriptions[s] # None /\ subscriptions[s].customer = c

-----------------------------------------------------------------------------
(* Routes: what each operation asks for, and what its body may say.        *)
CustomerOps ==
    {"getCustomer", "getSubscription", "balanceHistory", "closeCustomer", "issueKey",
     "createCustomer", "updateCustomer", "adjustBalance", "subscribe", "createPlan",
     "updatePlan", "deactivatePlan", "updateKey", "revokeKey", "updateOrg"}

CustomerRoutes ==
    [op \in {"getCustomer", "getSubscription", "createCustomer", "updateCustomer",
             "closeCustomer", "adjustBalance", "balanceHistory", "subscribe"} |->
        CASE op \in {"getCustomer", "getSubscription"} -> "customers:read"
          [] op = "adjustBalance" -> "balances:write"
          [] op = "balanceHistory" -> "balances:read"
          [] op = "subscribe" -> "subscriptions:write"
          [] OTHER -> "customers:write"]

PlanRoutes == [op \in {"createPlan", "updatePlan", "deactivatePlan"} |-> "plans:write"]
ApiKeyRoutes == [op \in {"issueKey", "updateKey", "revokeKey"} |-> "customer_keys:write"]
OrganizationRoute == [op \in {"updateOrg"} |-> "organization:write"]

PanelRoutes ==
    [op \in CustomerOps |->
        CASE op \in DOMAIN CustomerRoutes -> CustomerRoutes[op]
          [] op \in DOMAIN PlanRoutes -> PlanRoutes[op]
          [] op \in DOMAIN ApiKeyRoutes -> ApiKeyRoutes[op]
          [] op \in DOMAIN OrganizationRoute -> OrganizationRoute[op]]

ManagementReads ==
    [op \in {"getCustomer", "getSubscription", "balanceHistory"} |->
        IF op = "balanceHistory" THEN "balances:read" ELSE "customers:read"]
ManagementWrites ==
    [op \in {"createCustomer", "updateCustomer", "closeCustomer", "adjustBalance",
             "subscribe"} |->
        CASE op = "adjustBalance" -> "balances:write"
          [] op = "subscribe" -> "subscriptions:write"
          [] OTHER -> "customers:write"]
ManagementRoutes ==
    [op \in DOMAIN ManagementReads \cup DOMAIN ManagementWrites |->
        IF op \in DOMAIN ManagementReads THEN ManagementReads[op] ELSE ManagementWrites[op]]

CustomerGates == [panel |-> PanelRoutes, management |-> ManagementRoutes]

OneCustomer == [customer : CustomerIds]
CustomerCreateInput == [email : Emails \cup {None}, externalId : ExternalIds \cup {None}]
CustomerUpdateInput ==
    [customer : CustomerIds, patch : {"email"}, to : Emails \cup {None}]
    \cup [customer : CustomerIds, patch : {"externalId"}, to : ExternalIds \cup {None}]
    \cup [customer : CustomerIds, patch : {"status"}, to : {"active", "suspended", "closed"}]
BalanceAdjustBody ==
    [customer : CustomerIds, amount : Amounts, key : IdempotencyKeys \cup {None}]
SubscribeBody == [customer : CustomerIds, plan : PlanIds]
PlanUpdateInput ==
    [plan : PlanIds, patch : {"rateLimits"}, to : RuleSets]
    \cup [plan : PlanIds, patch : {"active"}, to : BOOLEAN]
ApiKeyUpdateInput == [key : Requests, status : {"active", "revoked"}]

CustomerBodies ==
    [op \in CustomerOps |->
        CASE op = "createCustomer" -> CustomerCreateInput
          [] op = "updateCustomer" -> CustomerUpdateInput
          [] op = "adjustBalance" -> BalanceAdjustBody
          [] op = "subscribe" -> SubscribeBody
          [] op = "createPlan" -> [rules : RuleSets]
          [] op = "updatePlan" -> PlanUpdateInput
          [] op = "deactivatePlan" -> [plan : PlanIds]
          [] op = "updateKey" -> ApiKeyUpdateInput
          [] op = "revokeKey" -> [key : Requests]
          [] op = "updateOrg" -> [currency : Currencies]
          [] OTHER -> OneCustomer]

(* The panel sends no idempotency key.                                     *)
CustomerArrive(r) ==
    /\ \/ Arrive(r, CustomerGates, CustomerBodies)
       \/ ArriveWithKey(r, "useKey", [key : Requests])
    /\ (req'[r].op = "adjustBalance" /\ req'[r].by.kind = "panel"
          => req'[r].body.key = None)
    /\ UNCHANGED customerVars

(* redactCustomerBalance, by the route; with the panel's adjustment, whose *)
(* balances:write stands for the read, nothing is redacted.                *)
Shows(r) ==
    \/ req[r].op \in {"getCustomer", "createCustomer", "updateCustomer"}
       /\ Permits(req[r].by, "balances:read")
    \/ req[r].op = "balanceHistory"
    \/ req[r].op = "adjustBalance"
       /\ (req[r].by.kind = "panel" \/ Permits(req[r].by, "balances:read"))

-----------------------------------------------------------------------------
(* Customers. findConflict looks for another one with the address or the   *)
(* external id; the unique indexes have the last word.                     *)
Clash(email, externalId, self) ==
    \E c \in CustomerIds \ {self} :
        /\ Is(c)
        /\ \/ email # None /\ customers[c].email = email
           \/ externalId # None /\ customers[c].externalId = externalId

GetCustomer(r) ==
    /\ At(r, "getCustomer", "start") \/ At(r, "balanceHistory", "start")
    /\ IF Is(Body(r).customer) \/ req[r].op = "balanceHistory"
       THEN req' = [req EXCEPT ![r] = Answer("ok", Shows(r))]
       ELSE Refuses(r)
    /\ UNCHANGED customerVars

GetActiveSubscription(r) ==
    /\ At(r, "getSubscription", "start")
    /\ IF \E s \in Requests : SubscribedTo(s, Body(r).customer)
       THEN req' = [req EXCEPT ![r] = Answer("ok", Shows(r))] ELSE Refuses(r)
    /\ UNCHANGED customerVars

CreateCustomer(r) ==
    /\ \/ /\ At(r, "createCustomer", "start")
          /\ Reads(r, "conflict", [currency |-> currency])
       \/ /\ At(r, "createCustomer", "conflict")
          /\ IF Clash(Body(r).email, Body(r).externalId, None)
             THEN Refuses(r) ELSE Reads(r, "insert", <<>>)
    /\ UNCHANGED customerVars

\* Mutant: the insert relies on the conflict that was looked for before.
InsertUnchecked(r, c) == TRUE

MayInsert(r, c) == ~Clash(Body(r).email, Body(r).externalId, None)

(* In one transaction with an adjustment, were the balance not 0.          *)
InsertWithOpeningBalance(r) ==
    /\ At(r, "createCustomer", "insert") /\ Fresh(customers) # {}
    /\ LET c == CHOOSE c \in Fresh(customers) : TRUE
       IN  IF MayInsert(r, c)
           THEN /\ customers' = [customers EXCEPT ![c] =
                     [status |-> "active", email |-> Body(r).email,
                      externalId |-> Body(r).externalId,
                      currency |-> req[r].currency, balance |-> 0]]
                /\ Answers(r, Shows(r))
           ELSE Refuses(r) /\ UNCHANGED customers
    /\ UNCHANGED <<currency, adjustments, plans, subscriptions, apiKeys, posted>>

(* One field of the patch at a time; null takes an address away.           *)
PatchClash(r) ==
    LET patch == Body(r) IN
    \/ patch.patch = "email" /\ Clash(patch.to, None, patch.customer)
    \/ patch.patch = "externalId" /\ Clash(None, patch.to, patch.customer)

UpdateCustomer(r) ==
    \/ /\ At(r, "updateCustomer", "start")
       /\ IF PatchClash(r) THEN Refuses(r) ELSE Reads(r, "update", <<>>)
       /\ UNCHANGED customers
    \/ /\ At(r, "updateCustomer", "update")
       /\ IF Is(Body(r).customer) /\ ~PatchClash(r)
          THEN /\ customers' = [customers EXCEPT
                    ![Body(r).customer][Body(r).patch] = Body(r).to]
               /\ Answers(r, Shows(r))
          ELSE Refuses(r) /\ UNCHANGED customers

UpdatesCustomer(r) ==
    /\ UpdateCustomer(r)
    /\ UNCHANGED <<currency, adjustments, plans, subscriptions, apiKeys, posted>>

CloseCustomer(r) ==
    /\ At(r, "closeCustomer", "start")
    /\ IF Is(Body(r).customer)
       THEN /\ customers' = [customers EXCEPT ![Body(r).customer].status = "closed"]
            /\ Answers(r, FALSE)
       ELSE Refuses(r) /\ UNCHANGED customers
    /\ UNCHANGED <<currency, adjustments, plans, subscriptions, apiKeys, posted>>

-----------------------------------------------------------------------------
(* adjustCustomerBalance: the customer's currency is read, and what is     *)
(* then written counts on it.                                              *)
Rows == {r \in Requests : adjustments[r] # None}
WithKey(key) == {r \in Rows : key # None /\ adjustments[r].key = key}

ReadCurrency(r) ==
    /\ At(r, "adjustBalance", "start")
    /\ IF Is(Body(r).customer)
       THEN Reads(r, "transact", [expected |-> customers[Body(r).customer].currency])
       ELSE Refuses(r)
    /\ UNCHANGED customerVars

\* Mutant: the row and the balance are written one after the other.
CreditOnly(r) == UNCHANGED adjustments

InsertRow(r) ==
    adjustments' = [adjustments EXCEPT ![r] =
        [key |-> Body(r).key, customer |-> Body(r).customer,
         amount |-> Body(r).amount, currency |-> req[r].expected]]

\* Mutant: the index is on the key, the customer and the amount.
DuplicateRequest(r) ==
    \E s \in WithKey(Body(r).key) : adjustments[s].customer = Body(r).customer

(* One transaction: the row, which the index refuses if the key is there,  *)
(* and the balance. It commits although the answer may get lost.           *)
Duplicate(r) == posted /\ WithKey(Body(r).key) # {}

AdjustBalance(r) ==
    /\ At(r, "adjustBalance", "transact")
    /\ LET c == Body(r).customer
       IN  IF Duplicate(r) THEN Reads(r, "existing", <<>>) /\ UNCHANGED <<customers, adjustments>>
           ELSE IF customers[c].currency # req[r].expected
           THEN Refuses(r) /\ UNCHANGED <<customers, adjustments>>
           ELSE /\ InsertRow(r)
                /\ customers' = [customers EXCEPT ![c].balance = @ + Body(r).amount]
                /\ Answers(r, Shows(r))
    /\ UNCHANGED <<currency, plans, subscriptions, apiKeys, posted>>

\* Mutant: whatever has the key is the answer.
SameKey(r, row) == row.key = Body(r).key

SameRequest(r, row) ==
    /\ row.key = Body(r).key
    /\ row.customer = Body(r).customer
    /\ row.amount = Body(r).amount
    /\ row.currency = req[r].expected

AnswerExisting(r) ==
    /\ At(r, "adjustBalance", "existing")
    /\ \E s \in WithKey(Body(r).key) :
        IF SameRequest(r, adjustments[s])
        THEN req' = [req EXCEPT ![r] = Answer("ok", Shows(r))]
        ELSE Refuses(r)
    /\ UNCHANGED customerVars

(* The index comes with the post phase, when the new version runs already; *)
(* it is not built while two rows have one key.                            *)
BuildIndex ==
    /\ ~posted
    /\ \A key \in IdempotencyKeys : Cardinality(WithKey(key)) <= 1
    /\ posted' = TRUE
    /\ UNCHANGED <<currency, customers, adjustments, plans, subscriptions, apiKeys, req>>

UpdateOrganization(r) ==
    /\ At(r, "updateOrg", "start")
    /\ currency' = Body(r).currency
    /\ Answers(r, FALSE)
    /\ UNCHANGED <<customers, adjustments, plans, subscriptions, apiKeys, posted>>

-----------------------------------------------------------------------------
(* Plans. Two active rules of one stream would count on one counter.       *)
FindDuplicateRateLimitStream(rules) ==
    \E a, b \in rules : a # b /\ a.active /\ b.active /\ a.stream = b.stream

CreatePlan(r) ==
    \/ /\ At(r, "createPlan", "start")
       /\ IF FindDuplicateRateLimitStream(Body(r).rules)
          THEN Refuses(r) ELSE Reads(r, "insert", [currency |-> currency])
       /\ UNCHANGED plans
    \/ /\ At(r, "createPlan", "insert") /\ Fresh(plans) # {}
       /\ plans' = [plans EXCEPT ![CHOOSE p \in Fresh(plans) : TRUE] =
            [status |-> "active", currency |-> req[r].currency, rules |-> Body(r).rules]]
       /\ Answers(r, FALSE)

MayPatchPlan(r) ==
    Body(r).patch = "rateLimits" => ~FindDuplicateRateLimitStream(Body(r).to)

UpdatePlan(r) ==
    \/ /\ At(r, "updatePlan", "start")
       /\ IF plans[Body(r).plan].status # "none" /\ MayPatchPlan(r)
          THEN Reads(r, "update", <<>>) ELSE Refuses(r)
       /\ UNCHANGED plans
    \/ /\ At(r, "updatePlan", "update")
       /\ plans' = [plans EXCEPT ![Body(r).plan] =
            IF Body(r).patch = "rateLimits" THEN [@ EXCEPT !.rules = Body(r).to]
            ELSE [@ EXCEPT !.status = IF Body(r).to THEN "active" ELSE "inactive"]]
       /\ Answers(r, FALSE)

DeactivatePlan(r) ==
    /\ At(r, "deactivatePlan", "start")
    /\ IF plans[Body(r).plan].status # "none"
       THEN /\ plans' = [plans EXCEPT ![Body(r).plan].status = "inactive"]
            /\ Answers(r, FALSE)
       ELSE Refuses(r) /\ UNCHANGED plans

ChangesPlan(r) ==
    /\ CreatePlan(r) \/ UpdatePlan(r) \/ DeactivatePlan(r)
    /\ UNCHANGED <<currency, customers, adjustments, subscriptions, apiKeys, posted>>

(* subscribeCustomer: nothing ever ends a subscription.                    *)
ActiveSubscription(r) == \E s \in Requests : SubscribedTo(s, Body(r).customer)

PlanIsActive(r) == plans[Body(r).plan].status = "active"

Subscribe(r) ==
    \/ /\ At(r, "subscribe", "start")
       /\ IF Is(Body(r).customer) THEN Reads(r, "plan", <<>>) ELSE Refuses(r)
       /\ UNCHANGED subscriptions
    \/ /\ At(r, "subscribe", "plan")
       /\ IF PlanIsActive(r) THEN Reads(r, "current", <<>>) ELSE Refuses(r)
       /\ UNCHANGED subscriptions
    \/ /\ At(r, "subscribe", "current")
       /\ IF \E s \in Requests : SubscribedTo(s, Body(r).customer)
          THEN Refuses(r) ELSE Reads(r, "insert", <<>>)
       /\ UNCHANGED subscriptions
    \/ /\ At(r, "subscribe", "insert")
       /\ IF ActiveSubscription(r)
          THEN Refuses(r) /\ UNCHANGED subscriptions
          ELSE /\ subscriptions' = [subscriptions EXCEPT ![r] =
                    [customer |-> Body(r).customer, plan |-> Body(r).plan,
                     raced |-> req[r].raced]]
               /\ Answers(r, FALSE)

Subscribes(r) ==
    /\ Subscribe(r)
    /\ UNCHANGED <<currency, customers, adjustments, plans, apiKeys, posted>>

-----------------------------------------------------------------------------
(* Keys of customers. issueWithRetry draws a new key while the prefix is   *)
(* one that some key has already.                                          *)
Issued == {k \in Requests : apiKeys[k] # None}

PrefixUnused(p) == \A k \in Issued : apiKeys[k].prefix # p

IssueKey(r) ==
    \/ /\ At(r, "issueKey", "start")
       /\ IF Is(Body(r).customer) THEN Reads(r, "insert", [left |-> Attempts]) ELSE Refuses(r)
       /\ UNCHANGED apiKeys
    \/ /\ At(r, "issueKey", "insert")
       /\ \E p \in KeyPrefixes :
            IF PrefixUnused(p)
            THEN /\ apiKeys' = [apiKeys EXCEPT ![r] =
                      [customer |-> Body(r).customer, prefix |-> p, status |-> "active"]]
                 /\ Answers(r, FALSE)
            ELSE /\ IF req[r].left > 1
                    THEN Reads(r, "insert", [left |-> req[r].left - 1])
                    ELSE Refuses(r)
                 /\ UNCHANGED apiKeys

PatchKey(r) ==
    /\ At(r, "updateKey", "start") \/ At(r, "revokeKey", "start")
    /\ IF Body(r).key \in Issued
       THEN /\ apiKeys' = [apiKeys EXCEPT ![Body(r).key].status =
                  IF req[r].op = "revokeKey" THEN "revoked" ELSE Body(r).status]
            /\ Answers(r, FALSE)
       ELSE Refuses(r) /\ UNCHANGED apiKeys

ChangesKeys(r) ==
    /\ IssueKey(r) \/ PatchKey(r)
    /\ UNCHANGED <<currency, customers, adjustments, plans, subscriptions, posted>>

(* resolvePublicPrincipal: the key by its prefix, its hash, its customer.  *)
\* Mutant: the key alone lets a call in.
AnyCustomer(c) == Is(c)

MayCall(c) == customers[c].status = "active"

UseKey(r) ==
    /\ \/ /\ At(r, "useKey", "start")
          /\ Body(r).key \in Issued
          /\ \E k \in Issued :
                /\ apiKeys[k].prefix = apiKeys[Body(r).key].prefix
                /\ IF k = Body(r).key /\ apiKeys[k].status = "active"
                   THEN Reads(r, "customer", [read |-> apiKeys[k].status])
                   ELSE Refuses(r)
       \/ /\ At(r, "useKey", "customer")
          /\ IF MayCall(apiKeys[Body(r).key].customer)
             THEN Reads(r, "serve", <<>>) ELSE Refuses(r)
    /\ UNCHANGED customerVars

-----------------------------------------------------------------------------
InitCustomers ==
    /\ currency \in Currencies
    /\ customers = [c \in CustomerIds |-> AbsentCustomer]
    /\ adjustments = [r \in Requests |-> None]
    /\ plans = [p \in PlanIds |-> AbsentPlan]
    /\ subscriptions = [r \in Requests |-> None]
    /\ apiKeys = [r \in Requests |-> None]
    /\ posted \in BOOLEAN

CustomerStep(r) ==
    \/ CustomerArrive(r) \/ GetCustomer(r) \/ GetActiveSubscription(r)
    \/ CreateCustomer(r) \/ InsertWithOpeningBalance(r)
    \/ UpdatesCustomer(r) \/ CloseCustomer(r)
    \/ ReadCurrency(r) \/ AdjustBalance(r) \/ AnswerExisting(r)
    \/ UpdateOrganization(r) \/ ChangesPlan(r) \/ Subscribes(r)
    \/ ChangesKeys(r) \/ UseKey(r)

-----------------------------------------------------------------------------
CustomersTypeOK ==
    /\ currency \in Currencies /\ posted \in BOOLEAN
    /\ \A c \in CustomerIds : Is(c) =>
        /\ customers[c].status \in {"active", "suspended", "closed"}
        /\ customers[c].currency \in Currencies /\ customers[c].balance \in Int
    /\ \A r \in Rows : adjustments[r].customer \in CustomerIds
    /\ \A r \in Issued : apiKeys[r].prefix \in KeyPrefixes
    /\ \A p \in PlanIds : plans[p].status # "none" => plans[p].currency \in Currencies

Ledger(c) == {r \in Rows : adjustments[r].customer = c}
AmountOf == [r \in Rows |-> adjustments[r].amount]

(* A customer's balance is what its adjustments, all of its one currency,  *)
(* add up to, whatever was retried, lost or refused.                       *)
BalanceIsLedger ==
    \A c \in CustomerIds :
        /\ customers[c].balance = Total(AmountOf, Ledger(c))
        /\ \A r \in Ledger(c) : adjustments[r].currency = customers[c].currency

(* Retries with one idempotency key adjust once: there is one row for it.  *)
AdjustedOnce ==
    posted => \A key \in IdempotencyKeys : Cardinality(WithKey(key)) <= 1

(* The money of the customers and the rows that say where it came from     *)
(* agree, and no row is there twice for one wish of its sender.            *)
LedgerHolds == BalanceIsLedger /\ AdjustedOnce

(* Who is told that an adjustment is done asked for what a row of the      *)
(* ledger says: a key used again with another body is not answered so.     *)
AnsweredWithOwn ==
    [][\A r \in Requests :
        /\ Running(r) /\ req[r].op = "adjustBalance"
        /\ req'[r].at = "done" /\ req'[r].answer = "ok"
        => \E s \in Requests :
            /\ adjustments'[s] # None
            /\ adjustments'[s].key = Body(r).key
            /\ adjustments'[s].customer = Body(r).customer
            /\ adjustments'[s].amount = Body(r).amount
            /\ Body(r).key = None => s = r]_<<adjustments, req>>

(* Two customers never share an address or an external id, also when they  *)
(* are created and changed at the same time.                               *)
HandlesUnique ==
    \A c \in CustomerIds : Is(c) => ~Clash(customers[c].email, customers[c].externalId, c)

(* At most one subscription of a customer is active, whatever subscribes   *)
(* and cancels at the same time.                                           *)
OneSubscription ==
    \A r, s \in Requests :
        r # s /\ subscriptions[r] # None /\ subscriptions[s] # None
            => subscriptions[r].customer # subscriptions[s].customer

(* No two active rules of a plan count on one counter.                     *)
StreamsDistinct ==
    \A p \in PlanIds : ~FindDuplicateRateLimitStream(plans[p].rules)

(* A key that was issued is the only one its prefix finds, also when two   *)
(* requests draw the same prefix at the same time.                         *)
KeysOpen ==
    \A k, l \in Issued : apiKeys[k].prefix = apiKeys[l].prefix => k = l

(* No call is let in after its key was revoked or its customer suspended   *)
(* or closed, unless that happened between its own reads of the two.       *)
CallsAllowed ==
    \A r \in Requests : At(r, "useKey", "serve") =>
        \/ req[r].raced
        \/ /\ apiKeys[Body(r).key].status = "active"
           /\ customers[apiKeys[Body(r).key].customer].status = "active"

(* A balance is shown to those alone who may read balances.                *)
BalancesShown ==
    [][\A r \in Requests :
        /\ Running(r) /\ req'[r].at = "done" /\ req'[r].shown
        => Permits(req[r].by, "balances:read")]_req

(* What names something names one of them, whichever requests overlap      *)
(* between their check and their write: an address or external id one      *)
(* customer, a customer one subscription, a stream one rule, a prefix one  *)
(* key (the unique indexes of repositories/live.ts).                       *)
NamesAreUnique == HandlesUnique /\ OneSubscription /\ StreamsDistinct /\ KeysOpen

(* Answers are true to the ledger and show what their reader may see.      *)
AnswersTrue == AnsweredWithOwn /\ BalancesShown
=============================================================================
