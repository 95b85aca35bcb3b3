--------------------------- MODULE CommerceProofs ---------------------------
(***************************************************************************)
(* Proofs about Commerce for any organization and any number of requests:  *)
(* what each write of customers, plans, subscriptions and keys relies on   *)
(* still holds when it is done, whoever wrote in between; and so does what *)
(* each write of the catalog relies on, unless another one wrote.          *)
(***************************************************************************)
EXTENDS Commerce, SumTheorems

OfRequests(f) == f = [r \in Requests |-> f[r]]

Shaped ==
    /\ OfRequests(req) /\ OfRequests(adjustments)
    /\ OfRequests(subscriptions) /\ OfRequests(apiKeys)
    /\ customers = [c \in CustomerIds |-> customers[c]]
    /\ \A c \in CustomerIds : {"status", "email", "externalId"} \subseteq DOMAIN customers[c]
    /\ plans = [p \in PlanIds |-> plans[p]]
    /\ \A p \in PlanIds : {"status", "rules"} \subseteq DOMAIN plans[p]
    /\ \A k \in Issued : {"prefix", "status"} \subseteq DOMAIN apiKeys[k]

Fields == {"at", "op", "body", "raced"}

(* What a request relies on at a step: what it has checked itself is so,   *)
(* what it has read is so unless another one wrote.                        *)
Ready(r) ==
    /\ "at" \in DOMAIN req[r]
    /\ Running(r) => Fields \subseteq DOMAIN req[r] /\ req[r].raced \in BOOLEAN
    /\ At(r, "createPlan", "insert") => ~FindDuplicateRateLimitStream(Body(r).rules)
    /\ At(r, "updatePlan", "update") => MayPatchPlan(r)
    /\ At(r, "useKey", "customer") \/ At(r, "useKey", "serve")
         => req[r].raced \/ apiKeys[Body(r).key].status = "active"
    /\ At(r, "useKey", "serve")
         => req[r].raced \/ customers[apiKeys[Body(r).key].customer].status = "active"

(* Two rows of one key are one, once there is the index.                   *)
OneRow ==
    posted => \A key \in IdempotencyKeys : \A s, t \in WithKey(key) : s = t

Data ==
    /\ OneRow /\ HandlesUnique /\ OneSubscription /\ StreamsDistinct /\ KeysOpen

IInv == Shaped /\ (\A r \in Requests : Ready(r)) /\ Data

-----------------------------------------------------------------------------
(* What the step of a request does to the others: nothing, or it marks     *)
(* them; and what it writes marks them all.                                *)
Same(q) == req'[q] = req[q]
Hit(q) == Running(q) /\ req'[q] = [req[q] EXCEPT !.raced = TRUE]

Moves(r) == OfRequests(req)' /\ \A q \in Requests \ {r} : Same(q) \/ Hit(q)
WritesMark(r) ==
    \/ UNCHANGED <<customers, apiKeys>>
    \/ \A q \in Requests \ {r} : Running(q) => Hit(q)

StepOf(r) == Moves(r) /\ WritesMark(r) /\ Ready(r)'

LEMMA OthersReady ==
  ASSUME IInv, NEW r \in Requests, StepOf(r)
  PROVE  \A q \in Requests : Ready(q)'
<1> SUFFICES ASSUME NEW q \in Requests, q # r PROVE Ready(q)'
  BY DEF StepOf
<1>1. Ready(q) /\ (Same(q) \/ Hit(q))
  BY DEF IInv, StepOf, Moves
<1>2. CASE UNCHANGED <<customers, apiKeys>> /\ Same(q)
  BY <1>1, <1>2 DEF Same, Ready, Running, At, Body, MayPatchPlan, Fields
<1>3. CASE Hit(q)
  <2>1. /\ Running(q) /\ Fields \subseteq DOMAIN req[q]
        /\ req'[q] = [req[q] EXCEPT !.raced = TRUE]
    BY <1>1, <1>3 DEF Hit, Ready
  <2>2. /\ req'[q].at = req[q].at /\ req'[q].op = req[q].op /\ req'[q].body = req[q].body
        /\ req'[q].raced = TRUE /\ DOMAIN req'[q] = DOMAIN req[q]
    BY <2>1 DEF Fields
  <2>3. QED
    BY <1>1, <2>1, <2>2 DEF Ready, Running, At, Body, MayPatchPlan, Fields
<1>4. CASE Same(q) /\ ~Running(q)
  BY <1>1, <1>4 DEF Same, Ready, Running, At
<1>5. QED
  BY <1>1, <1>2, <1>3, <1>4 DEF StepOf, WritesMark

(* The ways in which a request moves on.                                   *)
LEMMA ReadsMoves ==
  ASSUME IInv, NEW r \in Requests, NEW step, NEW read, Reads(r, step, read),
         Running(r), DOMAIN read \cap Fields = {}
  PROVE  /\ Moves(r) /\ Fields \subseteq DOMAIN req'[r]
         /\ req'[r].at = step /\ req'[r].op = req[r].op
         /\ req'[r].body = req[r].body /\ req'[r].raced = req[r].raced
<1>1. OfRequests(req) /\ Fields \subseteq DOMAIN req[r]
  BY DEF IInv, Shaped, Ready
<1> DEFINE stepped == [req[r] EXCEPT !.at = step]
           merged == [field \in DOMAIN read \cup DOMAIN stepped |->
                        IF field \in DOMAIN read THEN read[field] ELSE stepped[field]]
<1>2. req' = [req EXCEPT ![r] = merged]
  BY DEF Reads
<1>3. DOMAIN stepped = DOMAIN req[r] /\ stepped.at = step /\ stepped.op = req[r].op
      /\ stepped.body = req[r].body /\ stepped.raced = req[r].raced
  BY <1>1 DEF Fields
<1> HIDE DEF stepped
<1>4. Fields \subseteq DOMAIN merged /\ \A f \in Fields : merged[f] = stepped[f]
  BY <1>1, <1>3
<1> HIDE DEF merged
<1>5. req'[r] = merged /\ Moves(r)
  BY <1>1, <1>2 DEF Moves, Same, OfRequests
<1>6. merged.at = stepped.at /\ merged.op = stepped.op /\ merged.body = stepped.body
      /\ merged.raced = stepped.raced
  BY <1>4 DEF Fields
<1>7. QED
  BY <1>3, <1>4, <1>5, <1>6

LEMMA WroteMoves ==
  ASSUME NEW r \in Requests, NEW next, Wrote(r, next)
  PROVE  /\ Moves(r) /\ req'[r] = next
         /\ \A q \in Requests \ {r} : Running(q) => Hit(q)
  BY DEF Wrote, Moves, OfRequests, Same, Hit

LEMMA AnswersMoves ==
  ASSUME NEW r \in Requests, NEW shown, Answers(r, shown)
  PROVE  /\ Moves(r) /\ Ready(r)'
         /\ \A q \in Requests \ {r} : Running(q) => Hit(q)
<1>1. PICK answer, sh : Wrote(r, Answer(answer, sh))
  BY DEF Answers
<1>2. req'[r].at = "done" /\ "at" \in DOMAIN req'[r]
  BY <1>1, WroteMoves DEF Answer
<1>3. QED
  BY <1>1, <1>2, WroteMoves DEF Ready, Running, At

LEMMA AnswerMoves ==
  ASSUME IInv, NEW r \in Requests, NEW answer, NEW shown,
         req' = [req EXCEPT ![r] = Answer(answer, shown)]
  PROVE  Moves(r) /\ Ready(r)'
<1>1. Moves(r) /\ req'[r] = Answer(answer, shown)
  BY DEF IInv, Shaped, OfRequests, Moves, Same
<1>2. req'[r].at = "done" /\ "at" \in DOMAIN req'[r]
  BY <1>1 DEF Answer
<1>3. QED
  BY <1>1, <1>2 DEF Ready, Running, At

LEMMA RefusesMoves ==
  ASSUME IInv, NEW r \in Requests, Refuses(r) PROVE Moves(r) /\ Ready(r)'
  BY AnswerMoves DEF Refuses

(* A step at which nothing is relied on.                                   *)
LEMMA PlainReads ==
  ASSUME IInv, NEW r \in Requests, NEW step, NEW read, Reads(r, step, read),
         Running(r), DOMAIN read \cap Fields = {},
         \/ step \notin {"insert", "update", "customer", "serve"}
         \/ req[r].op \notin {"createPlan", "updatePlan", "useKey"}
  PROVE  Moves(r) /\ Ready(r)'
<1>1. /\ Moves(r) /\ Fields \subseteq DOMAIN req'[r]
      /\ req'[r].at = step /\ req'[r].op = req[r].op /\ req'[r].raced = req[r].raced
  BY ReadsMoves
<1>2. req[r].raced \in BOOLEAN
  BY DEF IInv, Ready
<1>3. QED
  BY <1>1, <1>2 DEF Ready, Running, At, Fields

(* A request that comes has checked nothing.                               *)
LEMMA ArrivesMoves ==
  ASSUME IInv, NEW r \in Requests, NEW next,
         req' = [req EXCEPT ![r] = next],
         next.at = "start", Fields \subseteq DOMAIN next, next.raced \in BOOLEAN
  PROVE  Moves(r) /\ Ready(r)'
<1>1. Moves(r) /\ req'[r] = next
  BY DEF IInv, Shaped, OfRequests, Moves, Same
<1>2. QED
  BY <1>1 DEF Ready, Running, At, Fields

LEMMA ArriveMoves ==
  ASSUME IInv, NEW r \in Requests, NEW gates, NEW bodies, Arrive(r, gates, bodies)
  PROVE  Moves(r) /\ Ready(r)'
<1>1. PICK op, p, body : req' = [req EXCEPT ![r] =
            [op |-> op, at |-> "start", by |-> p, body |-> body, raced |-> FALSE]]
  BY DEF Arrive
<1>2. QED
  BY <1>1, ArrivesMoves DEF Fields

LEMMA ArriveWithKeyMoves ==
  ASSUME IInv, NEW r \in Requests, NEW op, NEW bodies, ArriveWithKey(r, op, bodies)
  PROVE  Moves(r) /\ Ready(r)'
<1>1. PICK body : req' = [req EXCEPT ![r] =
            [op |-> op, at |-> "start", body |-> body, raced |-> FALSE]]
  BY DEF ArriveWithKey
<1>2. QED
  BY <1>1, ArrivesMoves DEF Fields

-----------------------------------------------------------------------------
(* The documents.                                                          *)
LEMMA SameData ==
  ASSUME IInv, UNCHANGED <<customers, adjustments, plans, subscriptions, apiKeys, posted>>,
         OfRequests(req)'
  PROVE  Shaped' /\ Data'
  BY DEF IInv, Shaped, Data, OneRow, WithKey, Rows, HandlesUnique, Clash, Is, OneSubscription,
         StreamsDistinct, KeysOpen, Issued, OfRequests

LEMMA QuietStep ==
  ASSUME IInv, NEW r \in Requests, Moves(r), Ready(r)', UNCHANGED customerVars
  PROVE  StepOf(r) /\ Shaped' /\ Data'
  BY SameData DEF StepOf, WritesMark, Moves, customerVars

(* Requests of the catalog write none of these documents, and are at no    *)
(* step where one of them was checked.                                     *)
LEMMA CatalogReads ==
  ASSUME IInv, NEW r \in Requests, CatalogStep(r), UNCHANGED customerVars
  PROVE  Moves(r) /\ Ready(r)'
<1>1. CASE CatalogArrive(r)
  BY <1>1, ArriveMoves DEF CatalogArrive
<1>2. CASE CreateProvider(r) \/ UpdateProvider(r)
  BY <1>2, AnswersMoves, RefusesMoves DEF CreateProvider, UpdateProvider
<1>3. CASE DeletesProvider(r)
  <2>1. CASE Reads(r, "count", <<>>) /\ Running(r)
    BY <2>1, PlainReads DEF Fields
  <2>2. CASE Reads(r, "rows", <<>>) /\ Running(r)
    BY <2>2, PlainReads DEF Fields
  <2>3. CASE Running(r) /\ Wrote(r, [req[r] EXCEPT !.at = "delete"])
    <3>1. Moves(r) /\ req'[r] = [req[r] EXCEPT !.at = "delete"]
      BY <2>3, WroteMoves
    <3>2. Ready(r) /\ Fields \subseteq DOMAIN req[r] /\ req[r].raced \in BOOLEAN
      BY <2>3 DEF IInv, Ready
    <3>3. /\ req'[r].at = "delete" /\ Fields \subseteq DOMAIN req'[r]
          /\ req'[r].raced = req[r].raced
      BY <3>1, <3>2 DEF Fields
    <3>4. QED
      BY <3>1, <3>2, <3>3 DEF Ready, Running, At, Fields
  <2>4. CASE Answers(r, FALSE) \/ Refuses(r)
    BY <2>4, AnswersMoves, RefusesMoves
  <2>5. QED
    BY <1>3, <2>1, <2>2, <2>3, <2>4 DEF DeletesProvider, DeleteProvider, At, Running
<1>4. CASE DiscoverModels(r)
  <2>1. CASE Reads(r, "upstream", <<>>) /\ Running(r)
    BY <2>1, PlainReads DEF Fields
  <2>2. QED
    BY <1>4, <2>1, AnswersMoves, RefusesMoves DEF DiscoverModels, At, Running
<1>5. CASE ListModels(r)
  BY <1>5, AnswerMoves, RefusesMoves DEF ListModels
<1>6. CASE FindModel(r)
  <2>1. CASE /\ Reads(r, "check", [existing |-> models[Input(r).model].entries])
             /\ Running(r)
    BY <2>1, PlainReads DEF Fields
  <2>2. QED
    BY <1>6, <2>1, RefusesMoves DEF FindModel, Running
<1>7. CASE CheckEntries(r)
  <2>1. CASE Reads(r, "write", <<>>) /\ Running(r)
    BY <2>1, PlainReads DEF Fields
  <2>2. QED
    BY <1>7, <2>1, RefusesMoves DEF CheckEntries, Running
<1>8. CASE ChangesModel(r)
  <2>1. CASE Reads(r, "insert", <<>>) /\ At(r, "createModel", "start")
    BY <2>1, PlainReads DEF Fields, At, Running
  <2>2. CASE Answers(r, FALSE) \/ Refuses(r)
    BY <2>2, AnswersMoves, RefusesMoves
  <2>3. QED
    BY <1>8, <2>1, <2>2 DEF ChangesModel, CreateModel, UpdateModel, DeleteModel
<1>9. QED
  BY <1>1, <1>2, <1>3, <1>4, <1>5, <1>6, <1>7, <1>8 DEF CatalogStep

(* Requests that read, or come, or stop.                                   *)
LEMMA CustomerReads ==
  ASSUME IInv, NEW r \in Requests,
         \/ CustomerArrive(r) \/ GetCustomer(r) \/ GetActiveSubscription(r)
         \/ CreateCustomer(r) \/ ReadCurrency(r) \/ AnswerExisting(r)
  PROVE  StepOf(r) /\ Shaped' /\ Data'
<1>1. UNCHANGED customerVars
  BY DEF CustomerArrive, GetCustomer, GetActiveSubscription, CreateCustomer, ReadCurrency,
         AnswerExisting
<1>2. CASE CustomerArrive(r)
  BY <1>1, <1>2, ArriveMoves, ArriveWithKeyMoves, QuietStep DEF CustomerArrive
<1>3. CASE GetCustomer(r) \/ GetActiveSubscription(r) \/ AnswerExisting(r)
  <2>1. Moves(r) /\ Ready(r)'
    BY <1>3, AnswerMoves, RefusesMoves DEF GetCustomer, GetActiveSubscription, AnswerExisting
  <2>2. QED
    BY <1>1, <2>1, QuietStep
<1>4. CASE CreateCustomer(r)
  <2>1. req[r].op = "createCustomer" /\ Running(r)
    BY <1>4 DEF CreateCustomer, At, Running
  <2>2. CASE Reads(r, "conflict", [currency |-> currency])
    BY <1>1, <2>1, <2>2, PlainReads, QuietStep DEF Fields
  <2>3. CASE Reads(r, "insert", <<>>)
    BY <1>1, <2>1, <2>3, PlainReads, QuietStep DEF Fields
  <2>4. QED
    BY <1>1, <1>4, <2>2, <2>3, RefusesMoves, QuietStep DEF CreateCustomer
<1>5. CASE ReadCurrency(r)
  <2>1. CASE /\ Reads(r, "transact", [expected |-> customers[Body(r).customer].currency])
             /\ Running(r)
    BY <1>1, <2>1, PlainReads, QuietStep DEF Fields
  <2>2. QED
    BY <1>1, <1>5, <2>1, RefusesMoves, QuietStep DEF ReadCurrency, At, Running
<1>6. QED
  BY <1>2, <1>3, <1>4, <1>5

(* A write, with its answer.                                               *)
LEMMA WriteStep ==
  ASSUME IInv, NEW r \in Requests, NEW shown, Answers(r, shown)
  PROVE  StepOf(r) /\ OfRequests(req)'
  BY AnswersMoves DEF StepOf, WritesMark, Moves

LEMMA RefusalStep ==
  ASSUME IInv, NEW r \in Requests, Refuses(r), UNCHANGED customerVars
  PROVE  StepOf(r) /\ Shaped' /\ Data'
  BY RefusesMoves, QuietStep

LEMMA PlainStep ==
  ASSUME IInv, NEW r \in Requests, NEW step, NEW read, Reads(r, step, read),
         Running(r), DOMAIN read \cap Fields = {}, UNCHANGED customerVars,
         \/ step \notin {"insert", "update", "customer", "serve"}
         \/ req[r].op \notin {"createPlan", "updatePlan", "useKey"}
  PROVE  StepOf(r) /\ Shaped' /\ Data'
  BY PlainReads, QuietStep

(* Customers: the unique indexes refuse what the check before did not see. *)
LEMMA InsertCustomer ==
  ASSUME IInv, NEW r \in Requests, InsertWithOpeningBalance(r)
  PROVE  StepOf(r) /\ Shaped' /\ Data'
<1> DEFINE c == CHOOSE c \in Fresh(customers) : TRUE
<1>1. c \in CustomerIds /\ ~Is(c)
  <2>1. c \in Fresh(customers)
    BY DEF InsertWithOpeningBalance
  <2>2. QED
    BY <2>1 DEF Fresh, IInv, Shaped, Is
<1> HIDE DEF c
<1>2. CASE MayInsert(r, c)
  <2>1. /\ customers' = [customers EXCEPT ![c] =
              [status |-> "active", email |-> Body(r).email,
               externalId |-> Body(r).externalId,
               currency |-> req[r].currency, balance |-> 0]]
        /\ Answers(r, Shows(r))
    BY <1>2 DEF InsertWithOpeningBalance, c
  <2>2. UNCHANGED <<adjustments, plans, subscriptions, apiKeys, posted>>
    BY DEF InsertWithOpeningBalance
  <2>3. /\ customers'[c].email = Body(r).email
        /\ customers'[c].externalId = Body(r).externalId
        /\ {"status", "email", "externalId"} \subseteq DOMAIN customers'[c]
        /\ customers' = [d \in CustomerIds |-> customers'[d]]
        /\ \A d \in CustomerIds \ {c} : customers'[d] = customers[d]
    BY <1>1, <2>1 DEF IInv, Shaped
  <2>4. \A d \in CustomerIds : Is(d) =>
          /\ Body(r).email # None => customers[d].email # Body(r).email
          /\ Body(r).externalId # None => customers[d].externalId # Body(r).externalId
    BY <1>2, CustomersAssumption DEF MayInsert, Clash
  <2>5. HandlesUnique'
    BY <1>1, <2>3, <2>4 DEF IInv, Data, HandlesUnique, Clash, Is
  <2>6. Shaped'
    BY <2>1, <2>2, <2>3, WriteStep DEF IInv, Shaped, OfRequests, Issued
  <2>7. Data'
    BY <2>2, <2>5 DEF IInv, Data, OneRow, WithKey, Rows, OneSubscription, StreamsDistinct,
         KeysOpen, Issued
  <2>8. QED
    BY <2>1, <2>6, <2>7, WriteStep
<1>3. CASE ~MayInsert(r, c)
  BY <1>3, RefusalStep DEF InsertWithOpeningBalance, c, customerVars
<1>4. QED
  BY <1>2, <1>3

LEMMA PatchCustomer ==
  ASSUME IInv, NEW r \in Requests, UpdatesCustomer(r)
  PROVE  StepOf(r) /\ Shaped' /\ Data'
<1>1. CASE At(r, "updateCustomer", "start") /\ UNCHANGED customers
  <2>1. UNCHANGED customerVars
    BY <1>1 DEF UpdatesCustomer, customerVars
  <2>2. CASE Reads(r, "update", <<>>)
    BY <1>1, <2>1, <2>2, PlainStep DEF Fields, At, Running
  <2>3. QED
    BY <1>1, <2>1, <2>2, RefusalStep DEF UpdatesCustomer, UpdateCustomer, At
<1>2. CASE At(r, "updateCustomer", "update")
  <2>1. CASE Refuses(r) /\ UNCHANGED customers
    BY <2>1, RefusalStep DEF UpdatesCustomer, customerVars
  <2>2. CASE /\ Is(Body(r).customer) /\ ~PatchClash(r)
             /\ customers' = [customers EXCEPT
                    ![Body(r).customer][Body(r).patch] = Body(r).to]
             /\ Answers(r, Shows(r))
    <3> DEFINE c == Body(r).customer
               patch == Body(r).patch
    <3>1. UNCHANGED <<adjustments, plans, subscriptions, apiKeys, posted>>
      BY DEF UpdatesCustomer
    <3>2. /\ customers' = [d \in CustomerIds |-> customers'[d]]
          /\ \A d \in CustomerIds \ {c} : customers'[d] = customers[d]
          /\ c \in CustomerIds => customers'[c] = [customers[c] EXCEPT ![patch] = Body(r).to]
      BY <2>2 DEF IInv, Shaped
    <3>3. c \in CustomerIds =>
            /\ {"status", "email", "externalId"} \subseteq DOMAIN customers'[c]
            /\ customers'[c].email = IF patch = "email" THEN Body(r).to ELSE customers[c].email
            /\ customers'[c].externalId =
                  IF patch = "externalId" THEN Body(r).to ELSE customers[c].externalId
      BY <3>2 DEF IInv, Shaped
    <3>4. \A d \in CustomerIds \ {c} : Is(d) =>
            /\ patch = "email" /\ Body(r).to # None => customers[d].email # Body(r).to
            /\ patch = "externalId" /\ Body(r).to # None
                 => customers[d].externalId # Body(r).to
      BY <2>2 DEF PatchClash, Clash
    <3>5. Is(c)
      BY <2>2
    <3> HIDE DEF c, patch
    <3>6. HandlesUnique'
      BY <3>2, <3>3, <3>4, <3>5 DEF IInv, Data, HandlesUnique, Clash, Is
    <3>7. Shaped'
      BY <2>2, <3>1, <3>2, <3>3, WriteStep DEF IInv, Shaped, OfRequests, Issued
    <3>8. Data'
      BY <3>1, <3>6 DEF IInv, Data, OneRow, WithKey, Rows, OneSubscription, StreamsDistinct,
           KeysOpen, Issued
    <3>9. QED
      BY <2>2, <3>7, <3>8, WriteStep
  <2>3. QED
    BY <1>2, <2>1, <2>2 DEF UpdatesCustomer, UpdateCustomer, At
<1>3. QED
  BY <1>1, <1>2 DEF UpdatesCustomer, UpdateCustomer

(* One field of a customer that no index looks at, or the status.          *)
LEMMA OtherField ==
  ASSUME IInv, NEW c, NEW field \in {"status", "balance"}, NEW value,
         field = "status" => Is(c),
         customers' = [customers EXCEPT ![c][field] = value]
  PROVE  /\ HandlesUnique'
         /\ customers' = [d \in CustomerIds |-> customers'[d]]
         /\ \A d \in CustomerIds :
                {"status", "email", "externalId"} \subseteq DOMAIN customers'[d]
<1>1. \A d \in CustomerIds :
        /\ DOMAIN customers'[d] = DOMAIN customers[d]
        /\ customers'[d].email = customers[d].email
        /\ customers'[d].externalId = customers[d].externalId
        /\ customers'[d].status = customers[d].status \/ (d = c /\ field = "status")
  <2> TAKE d \in CustomerIds
  <2>1. {"status", "email", "externalId"} \subseteq DOMAIN customers[d]
    BY DEF IInv, Shaped
  <2>2. customers'[d] = IF d = c THEN [customers[d] EXCEPT ![field] = value] ELSE customers[d]
    BY DEF IInv, Shaped
  <2>3. CASE d = c /\ field = "status"
    <3>1. customers'[d] = [customers[d] EXCEPT !["status"] = value]
      BY <2>2, <2>3
    <3>2. QED
      BY <2>1, <2>3, <3>1
  <2>4. CASE d = c /\ field = "balance"
    <3>1. customers'[d] = [customers[d] EXCEPT !["balance"] = value]
      BY <2>2, <2>4
    <3>2. QED
      BY <2>1, <2>4, <3>1
  <2>5. CASE d # c
    BY <2>2, <2>5
  <2>6. QED
    BY <2>3, <2>4, <2>5
<1>2. customers' = [d \in CustomerIds |-> customers'[d]]
  BY DEF IInv, Shaped
<1>3. QED
  BY <1>1, <1>2 DEF IInv, Shaped, Data, HandlesUnique, Clash, Is

LEMMA CloseStep ==
  ASSUME IInv, NEW r \in Requests, CloseCustomer(r)
  PROVE  StepOf(r) /\ Shaped' /\ Data'
<1>1. CASE Is(Body(r).customer)
  <2>1. /\ customers' = [customers EXCEPT ![Body(r).customer]["status"] = "closed"]
        /\ Answers(r, FALSE)
        /\ UNCHANGED <<adjustments, plans, subscriptions, apiKeys, posted>>
    BY <1>1 DEF CloseCustomer
  <2>2. Shaped'
    BY <1>1, <2>1, OtherField, WriteStep DEF IInv, Shaped, OfRequests, Issued
  <2>3. Data'
    BY <1>1, <2>1, OtherField DEF IInv, Data, OneRow, WithKey, Rows, OneSubscription,
         StreamsDistinct, KeysOpen, Issued
  <2>4. QED
    BY <2>1, <2>2, <2>3, WriteStep
<1>2. CASE ~Is(Body(r).customer)
  BY <1>2, RefusalStep DEF CloseCustomer, customerVars
<1>3. QED
  BY <1>1, <1>2

(* The row of a key that the index has is not written again.               *)
LEMMA AdjustStep ==
  ASSUME IInv, NEW r \in Requests, AdjustBalance(r)
  PROVE  StepOf(r) /\ Shaped' /\ Data'
<1>1. CASE Refuses(r) /\ UNCHANGED <<customers, adjustments>>
  BY <1>1, RefusalStep DEF AdjustBalance, customerVars
<1>2. CASE Reads(r, "existing", <<>>) /\ UNCHANGED <<customers, adjustments>>
  BY <1>2, PlainStep DEF AdjustBalance, customerVars, Fields, At, Running
<1>3. CASE /\ ~Duplicate(r) /\ InsertRow(r) /\ Answers(r, Shows(r))
           /\ customers' = [customers EXCEPT ![Body(r).customer]["balance"] =
                               @ + Body(r).amount]
  <2>1. UNCHANGED <<plans, subscriptions, apiKeys, posted>>
    BY DEF AdjustBalance
  <2>2. /\ adjustments'[r].key = Body(r).key /\ OfRequests(adjustments)'
        /\ \A s \in Requests \ {r} : adjustments'[s] = adjustments[s]
    BY <1>3 DEF InsertRow, IInv, Shaped, OfRequests
  <2>3. posted => WithKey(Body(r).key) = {}
    BY <1>3 DEF Duplicate
  <2>4. OneRow'
    BY <2>1, <2>2, <2>3 DEF IInv, Data, OneRow, WithKey, Rows
  <2>5. HandlesUnique' /\ customers' = [d \in CustomerIds |-> customers'[d]]
        /\ \A d \in CustomerIds :
              {"status", "email", "externalId"} \subseteq DOMAIN customers'[d]
    BY <1>3, OtherField
  <2>6. Shaped'
    BY <1>3, <2>1, <2>2, <2>5, WriteStep DEF IInv, Shaped, OfRequests, Issued
  <2>7. Data'
    BY <2>1, <2>4, <2>5 DEF IInv, Data, OneSubscription, StreamsDistinct, KeysOpen, Issued
  <2>8. QED
    BY <1>3, <2>6, <2>7, WriteStep
<1>4. QED
  BY <1>1, <1>2, <1>3 DEF AdjustBalance

LEMMA OrganizationStep ==
  ASSUME IInv, NEW r \in Requests, UpdateOrganization(r)
  PROVE  StepOf(r) /\ Shaped' /\ Data'
<1>1. /\ Answers(r, FALSE)
      /\ UNCHANGED <<customers, adjustments, plans, subscriptions, apiKeys, posted>>
  BY DEF UpdateOrganization
<1>2. QED
  BY <1>1, WriteStep, SameData

(* Plans: what is written was looked at.                                   *)
LEMMA PlanStep ==
  ASSUME IInv, NEW r \in Requests, ChangesPlan(r)
  PROVE  StepOf(r) /\ Shaped' /\ Data'
<1>1. UNCHANGED <<customers, adjustments, subscriptions, apiKeys, posted, currency>>
  BY DEF ChangesPlan
<1>2. ASSUME Answers(r, FALSE), StreamsDistinct', plans' = [p \in PlanIds |-> plans'[p]],
             \A p \in PlanIds : {"status", "rules"} \subseteq DOMAIN plans'[p]
      PROVE  StepOf(r) /\ Shaped' /\ Data'
  <2>1. Shaped'
    BY <1>1, <1>2, WriteStep DEF IInv, Shaped, OfRequests, Issued
  <2>2. Data'
    BY <1>1, <1>2 DEF IInv, Data, OneRow, WithKey, Rows, HandlesUnique, Clash, Is,
         OneSubscription, KeysOpen, Issued
  <2>3. QED
    BY <1>2, <2>1, <2>2, WriteStep
<1>3. CASE CreatePlan(r)
  <2>1. CASE At(r, "createPlan", "start") /\ UNCHANGED plans
    <3>1. CASE /\ ~FindDuplicateRateLimitStream(Body(r).rules)
               /\ Reads(r, "insert", [currency |-> currency])
      <4>1. /\ Moves(r) /\ Fields \subseteq DOMAIN req'[r]
            /\ req'[r].at = "insert" /\ req'[r].op = "createPlan"
            /\ req'[r].body = req[r].body /\ req'[r].raced = req[r].raced
        BY <2>1, <3>1, ReadsMoves DEF Fields, At, Running
      <4>2. req[r].raced \in BOOLEAN
        BY <2>1 DEF IInv, Ready, At, Running
      <4>3. Ready(r)'
        BY <3>1, <4>1, <4>2 DEF Ready, Running, At, Fields, Body
      <4>4. QED
        BY <1>1, <2>1, <4>1, <4>3, QuietStep DEF customerVars
    <3>2. QED
      BY <1>1, <1>3, <2>1, <3>1, RefusalStep DEF CreatePlan, At, customerVars
  <2>2. CASE /\ At(r, "createPlan", "insert") /\ Fresh(plans) # {} /\ Answers(r, FALSE)
             /\ plans' = [plans EXCEPT ![CHOOSE p \in Fresh(plans) : TRUE] =
                  [status |-> "active", currency |-> req[r].currency, rules |-> Body(r).rules]]
    <3> DEFINE p == CHOOSE p \in Fresh(plans) : TRUE
    <3> HIDE DEF p
    <3>1. plans' = [plans EXCEPT ![p] =
              [status |-> "active", currency |-> req[r].currency, rules |-> Body(r).rules]]
      BY <2>2 DEF p
    <3>2. ~FindDuplicateRateLimitStream(Body(r).rules)
      BY <2>2 DEF IInv, Ready
    <3>3. /\ plans' = [q \in PlanIds |-> plans'[q]]
          /\ \A q \in PlanIds : {"status", "rules"} \subseteq DOMAIN plans'[q]
          /\ \A q \in PlanIds : plans'[q].rules = plans[q].rules
                               \/ plans'[q].rules = Body(r).rules
      BY <3>1 DEF IInv, Shaped
    <3>4. StreamsDistinct'
      BY <3>2, <3>3 DEF IInv, Data, StreamsDistinct, FindDuplicateRateLimitStream
    <3>5. QED
      BY <1>2, <2>2, <3>3, <3>4
  <2>3. QED
    BY <1>3, <2>1, <2>2 DEF CreatePlan
<1>4. ASSUME NEW p, NEW next, Answers(r, FALSE), plans' = [plans EXCEPT ![p] = next],
             p \in PlanIds => /\ {"status", "rules"} \subseteq DOMAIN next
                              /\ ~FindDuplicateRateLimitStream(next.rules)
      PROVE  StepOf(r) /\ Shaped' /\ Data'
  <2>1. /\ plans' = [q \in PlanIds |-> plans'[q]]
        /\ \A q \in PlanIds : plans'[q] = IF q = p THEN next ELSE plans[q]
    BY <1>4 DEF IInv, Shaped
  <2>2. StreamsDistinct'
    BY <1>4, <2>1 DEF IInv, Data, StreamsDistinct
  <2>3. \A q \in PlanIds : {"status", "rules"} \subseteq DOMAIN plans'[q]
    BY <1>4, <2>1 DEF IInv, Shaped
  <2>4. QED
    BY <1>2, <1>4, <2>1, <2>2, <2>3
<1>5. \A p \in PlanIds : /\ {"status", "rules"} \subseteq DOMAIN plans[p]
                         /\ ~FindDuplicateRateLimitStream(plans[p].rules)
  BY DEF IInv, Shaped, Data, StreamsDistinct
<1>6. CASE UpdatePlan(r)
  <2>1. CASE At(r, "updatePlan", "start") /\ UNCHANGED plans
    <3>1. CASE MayPatchPlan(r) /\ Reads(r, "update", <<>>)
      <4>1. /\ Moves(r) /\ Fields \subseteq DOMAIN req'[r]
            /\ req'[r].at = "update" /\ req'[r].op = "updatePlan"
            /\ req'[r].body = req[r].body /\ req'[r].raced = req[r].raced
        BY <2>1, <3>1, ReadsMoves DEF Fields, At, Running
      <4>2. req[r].raced \in BOOLEAN
        BY <2>1 DEF IInv, Ready, At, Running
      <4>3. Ready(r)'
        BY <3>1, <4>1, <4>2 DEF Ready, Running, At, Fields, Body, MayPatchPlan
      <4>4. QED
        BY <1>1, <2>1, <4>1, <4>3, QuietStep DEF customerVars
    <3>2. QED
      BY <1>1, <1>6, <2>1, <3>1, RefusalStep DEF UpdatePlan, At, customerVars
  <2>2. CASE /\ At(r, "updatePlan", "update") /\ Answers(r, FALSE)
             /\ plans' = [plans EXCEPT ![Body(r).plan] =
                  IF Body(r).patch = "rateLimits" THEN [@ EXCEPT !.rules = Body(r).to]
                  ELSE [@ EXCEPT !.status = IF Body(r).to THEN "active" ELSE "inactive"]]
    <3> DEFINE p == Body(r).plan
               next == IF Body(r).patch = "rateLimits"
                       THEN [plans[p] EXCEPT !.rules = Body(r).to]
                       ELSE [plans[p] EXCEPT !.status =
                                IF Body(r).to THEN "active" ELSE "inactive"]
    <3>1. plans' = [plans EXCEPT ![p] = next]
      BY <2>2 DEF IInv, Shaped
    <3>2. MayPatchPlan(r)
      BY <2>2 DEF IInv, Ready
    <3>3. p \in PlanIds => /\ {"status", "rules"} \subseteq DOMAIN next
                           /\ ~FindDuplicateRateLimitStream(next.rules)
      <4>1. ASSUME p \in PlanIds, Body(r).patch = "rateLimits"
            PROVE  next.rules = Body(r).to /\ DOMAIN next = DOMAIN plans[p]
        BY <1>5, <4>1
      <4>2. ASSUME p \in PlanIds, Body(r).patch # "rateLimits"
            PROVE  next.rules = plans[p].rules /\ DOMAIN next = DOMAIN plans[p]
        BY <1>5, <4>2
      <4> HIDE DEF next, p
      <4>3. QED
        BY <1>5, <3>2, <4>1, <4>2 DEF MayPatchPlan
    <3> HIDE DEF next, p
    <3>4. QED
      BY <1>4, <2>2, <3>1, <3>3
  <2>3. QED
    BY <1>6, <2>1, <2>2 DEF UpdatePlan
<1>7. CASE DeactivatePlan(r)
  <2>1. CASE /\ Answers(r, FALSE)
             /\ plans' = [plans EXCEPT ![Body(r).plan].status = "inactive"]
    <3> DEFINE p == Body(r).plan
               next == [plans[p] EXCEPT !.status = "inactive"]
    <3>1. plans' = [plans EXCEPT ![p] = next]
      BY <2>1 DEF IInv, Shaped
    <3>2. p \in PlanIds => /\ DOMAIN next = DOMAIN plans[p]
                           /\ next.rules = plans[p].rules
      BY <1>5
    <3> HIDE DEF next, p
    <3>3. QED
      BY <1>4, <1>5, <2>1, <3>1, <3>2
  <2>2. QED
    BY <1>1, <1>7, <2>1, RefusalStep DEF DeactivatePlan, customerVars
<1>8. QED
  BY <1>3, <1>6, <1>7 DEF ChangesPlan

(* Subscriptions: the unique index has one active one of a customer.       *)
LEMMA SubscribeStep ==
  ASSUME IInv, NEW r \in Requests, Subscribes(r)
  PROVE  StepOf(r) /\ Shaped' /\ Data'
<1>1. UNCHANGED <<currency, customers, adjustments, plans, apiKeys, posted>>
  BY DEF Subscribes
<1>2. CASE Refuses(r) /\ UNCHANGED subscriptions
  BY <1>1, <1>2, RefusalStep DEF customerVars
<1>3. CASE /\ req[r].op = "subscribe" /\ Running(r) /\ UNCHANGED subscriptions
           /\ \E step : Reads(r, step, <<>>)
  BY <1>1, <1>3, PlainStep DEF Fields, customerVars
<1>4. CASE /\ ~ActiveSubscription(r) /\ Answers(r, FALSE)
           /\ subscriptions' = [subscriptions EXCEPT ![r] =
                    [customer |-> Body(r).customer, plan |-> Body(r).plan,
                     raced |-> req[r].raced]]
  <2>1. /\ OfRequests(subscriptions)' /\ subscriptions'[r].customer = Body(r).customer
        /\ \A s \in Requests \ {r} : subscriptions'[s] = subscriptions[s]
    BY <1>4 DEF IInv, Shaped, OfRequests
  <2>2. \A s \in Requests : subscriptions[s] # None =>
              subscriptions[s].customer # Body(r).customer
    BY <1>4 DEF ActiveSubscription, SubscribedTo
  <2>3. OneSubscription'
    BY <2>1, <2>2 DEF IInv, Data, OneSubscription
  <2>4. Shaped'
    BY <1>1, <1>4, <2>1, WriteStep DEF IInv, Shaped, OfRequests, Issued
  <2>5. Data'
    BY <1>1, <2>3 DEF IInv, Data, OneRow, WithKey, Rows, HandlesUnique, Clash, Is,
         StreamsDistinct, KeysOpen, Issued
  <2>6. QED
    BY <1>4, <2>4, <2>5, WriteStep
<1>5. QED
  BY <1>2, <1>3, <1>4 DEF Subscribes, Subscribe, At, Running

(* Keys: a prefix that some key has is drawn again.                        *)
LEMMA KeyStep ==
  ASSUME IInv, NEW r \in Requests, ChangesKeys(r)
  PROVE  StepOf(r) /\ Shaped' /\ Data'
<1>1. UNCHANGED <<currency, customers, adjustments, plans, subscriptions, posted>>
  BY DEF ChangesKeys
<1>2. CASE Refuses(r) /\ UNCHANGED apiKeys
  BY <1>1, <1>2, RefusalStep DEF customerVars
<1>3. CASE /\ req[r].op = "issueKey" /\ Running(r) /\ UNCHANGED apiKeys
           /\ \E left : Reads(r, "insert", [left |-> left])
  BY <1>1, <1>3, PlainStep DEF Fields, customerVars
<1>4. ASSUME Answers(r, FALSE), OfRequests(apiKeys)', KeysOpen',
             \A k \in Issued' : {"prefix", "status"} \subseteq DOMAIN apiKeys'[k]
      PROVE  StepOf(r) /\ Shaped' /\ Data'
  <2>1. Shaped'
    BY <1>1, <1>4, WriteStep DEF IInv, Shaped, OfRequests
  <2>2. Data'
    BY <1>1, <1>4 DEF IInv, Data, OneRow, WithKey, Rows, HandlesUnique, Clash, Is,
         StreamsDistinct, OneSubscription
  <2>3. QED
    BY <1>4, <2>1, <2>2, WriteStep
<1>5. CASE \E p \in KeyPrefixes :
              /\ PrefixUnused(p) /\ Answers(r, FALSE)
              /\ apiKeys' = [apiKeys EXCEPT ![r] =
                    [customer |-> Body(r).customer, prefix |-> p, status |-> "active"]]
  <2>1. PICK p \in KeyPrefixes :
              /\ PrefixUnused(p) /\ Answers(r, FALSE)
              /\ apiKeys' = [apiKeys EXCEPT ![r] =
                    [customer |-> Body(r).customer, prefix |-> p, status |-> "active"]]
    BY <1>5
  <2>2. /\ OfRequests(apiKeys)' /\ apiKeys'[r].prefix = p
        /\ {"prefix", "status"} \subseteq DOMAIN apiKeys'[r]
        /\ \A k \in Requests \ {r} : apiKeys'[k] = apiKeys[k]
    BY <2>1 DEF IInv, Shaped, OfRequests
  <2>3. KeysOpen'
    BY <2>1, <2>2 DEF IInv, Data, KeysOpen, Issued, PrefixUnused
  <2>4. QED
    BY <1>4, <2>1, <2>2, <2>3 DEF IInv, Shaped, Issued
<1>6. CASE /\ PatchKey(r) /\ Body(r).key \in Issued
  <2> DEFINE k == Body(r).key
             status == IF req[r].op = "revokeKey" THEN "revoked" ELSE Body(r).status
  <2>1. Answers(r, FALSE) /\ apiKeys' = [apiKeys EXCEPT ![k].status = status]
    BY <1>6 DEF PatchKey
  <2>2. k \in Requests /\ {"prefix", "status"} \subseteq DOMAIN apiKeys[k]
    BY <1>6 DEF IInv, Shaped, Issued
  <2> HIDE DEF k, status
  <2>3. /\ OfRequests(apiKeys)'
        /\ \A l \in Requests \ {k} : apiKeys'[l] = apiKeys[l]
        /\ apiKeys'[k] = [apiKeys[k] EXCEPT !.status = status]
    BY <2>1, <2>2 DEF IInv, Shaped, OfRequests
  <2>4. /\ DOMAIN apiKeys'[k] = DOMAIN apiKeys[k]
        /\ apiKeys'[k].prefix = apiKeys[k].prefix /\ k \in Issued
    BY <1>6, <2>2, <2>3 DEF k
  <2>5. KeysOpen'
    BY <2>2, <2>3, <2>4 DEF IInv, Data, KeysOpen, Issued
  <2>6. QED
    BY <1>4, <2>1, <2>2, <2>3, <2>4, <2>5 DEF IInv, Shaped, Issued
<1>7. QED
  <2>1. CASE IssueKey(r) /\ At(r, "issueKey", "start")
    BY <1>2, <1>3, <2>1 DEF IssueKey, At, Running
  <2>2. CASE IssueKey(r) /\ At(r, "issueKey", "insert")
    BY <1>2, <1>3, <1>5, <2>2 DEF IssueKey, At, Running
  <2>3. CASE PatchKey(r)
    BY <1>2, <1>6, <2>3 DEF PatchKey
  <2>4. QED
    BY <2>1, <2>2, <2>3 DEF ChangesKeys, IssueKey

(* Calls with a key: what was read of the key and of the customer is so,   *)
(* unless it was written since.                                            *)
LEMMA CallStep ==
  ASSUME IInv, NEW r \in Requests, UseKey(r)
  PROVE  StepOf(r) /\ Shaped' /\ Data'
<1>1. UNCHANGED customerVars /\ req[r].op = "useKey" /\ Running(r)
  BY DEF UseKey, At, Running
<1>2. CASE Refuses(r)
  BY <1>1, <1>2, RefusalStep
<1>3. CASE /\ At(r, "useKey", "start")
           /\ apiKeys[Body(r).key].status = "active"
           /\ Reads(r, "customer", [read |-> apiKeys[Body(r).key].status])
  <2>1. /\ Moves(r) /\ Fields \subseteq DOMAIN req'[r]
        /\ req'[r].at = "customer" /\ req'[r].body = req[r].body
        /\ req'[r].op = "useKey" /\ req'[r].raced = req[r].raced
    BY <1>1, <1>3, ReadsMoves DEF Fields
  <2>2. req[r].raced \in BOOLEAN
    BY <1>1 DEF IInv, Ready
  <2>3. Ready(r)'
    BY <1>1, <1>3, <2>1, <2>2 DEF Ready, Running, At, Body, Fields, customerVars
  <2>4. QED
    BY <1>1, <2>1, <2>3, QuietStep
<1>4. CASE /\ At(r, "useKey", "customer")
           /\ MayCall(apiKeys[Body(r).key].customer)
           /\ Reads(r, "serve", <<>>)
  <2>1. /\ Moves(r) /\ Fields \subseteq DOMAIN req'[r]
        /\ req'[r].at = "serve" /\ req'[r].body = req[r].body
        /\ req'[r].op = "useKey" /\ req'[r].raced = req[r].raced
    BY <1>1, <1>4, ReadsMoves DEF Fields
  <2>2. /\ req[r].raced \in BOOLEAN
        /\ req[r].raced \/ apiKeys[Body(r).key].status = "active"
    BY <1>1, <1>4 DEF IInv, Ready
  <2>3. Ready(r)'
    BY <1>1, <1>4, <2>1, <2>2 DEF Ready, Running, At, Body, Fields, customerVars, MayCall
  <2>4. QED
    BY <1>1, <2>1, <2>3, QuietStep
<1>5. QED
  BY <1>2, <1>3, <1>4 DEF UseKey

(* The index is built over rows of distinct keys.                          *)
LEMMA IndexStep == ASSUME IInv, BuildIndex PROVE IInv'
<1>1. \A key \in IdempotencyKeys : \A s, t \in WithKey(key) : s = t
  <2> TAKE key \in IdempotencyKeys
  <2> TAKE s, t \in WithKey(key)
  <2>1. IsFiniteSet(WithKey(key)) /\ Cardinality(WithKey(key)) <= 1
    BY FS_Subset, AdminRequestsAssumption DEF WithKey, Rows, BuildIndex
  <2>2. CASE Cardinality(WithKey(key)) = 0
    BY <2>1, <2>2, FS_EmptySet
  <2>3. CASE Cardinality(WithKey(key)) = 1
    BY <2>1, <2>3, FS_Singleton
  <2>4. QED
    BY <2>1, <2>2, <2>3, FS_CardinalityType
<1>2. UNCHANGED <<customers, adjustments, plans, subscriptions, apiKeys, req>>
  BY DEF BuildIndex
<1>3. OneRow'
  BY <1>1, <1>2 DEF OneRow, WithKey, Rows
<1>4. Data'
  BY <1>2, <1>3 DEF IInv, Data, HandlesUnique, Clash, Is, OneSubscription, StreamsDistinct,
       KeysOpen, Issued
<1>5. Shaped'
  BY <1>2 DEF IInv, Shaped, OfRequests, Issued
<1>6. \A r \in Requests : Ready(r)'
  BY <1>2 DEF IInv, Ready, Running, At, Body, MayPatchPlan
<1>7. QED
  BY <1>4, <1>5, <1>6 DEF IInv

-----------------------------------------------------------------------------
LEMMA InitIInv == Init => IInv
<1> SUFFICES ASSUME Init PROVE IInv
  OBVIOUS
<1>1. /\ req = [r \in Requests |-> Idle]
      /\ customers = [c \in CustomerIds |-> AbsentCustomer]
      /\ adjustments = [r \in Requests |-> None]
      /\ plans = [p \in PlanIds |-> AbsentPlan]
      /\ subscriptions = [r \in Requests |-> None]
      /\ apiKeys = [r \in Requests |-> None]
  BY DEF Init, InitRequests, InitCustomers
<1>2. Shaped
  BY <1>1 DEF Shaped, OfRequests, AbsentCustomer, AbsentPlan, Issued
<1>3. \A r \in Requests : Ready(r)
  BY <1>1 DEF Ready, Running, At, Idle
<1>4. OneRow /\ HandlesUnique /\ OneSubscription /\ KeysOpen
  BY <1>1 DEF OneRow, WithKey, Rows, HandlesUnique, Is, AbsentCustomer, OneSubscription,
       KeysOpen, Issued
<1>5. StreamsDistinct
  BY <1>1 DEF StreamsDistinct, FindDuplicateRateLimitStream, AbsentPlan
<1>6. QED
  BY <1>2, <1>3, <1>4, <1>5 DEF IInv, Data

LEMMA StepIInv == IInv /\ [Next]_vars => IInv'
<1> SUFFICES ASSUME IInv, [Next]_vars PROVE IInv'
  OBVIOUS
<1>1. ASSUME NEW r \in Requests, StepOf(r) /\ Shaped' /\ Data' PROVE IInv'
  BY <1>1, OthersReady DEF IInv
<1>2. CASE UNCHANGED vars
  <2> USE <1>2 DEF vars, customerVars, IInv, Data
  <2>1. Shaped'
    BY DEF Shaped, OfRequests, Issued
  <2>2. ASSUME NEW r \in Requests PROVE Ready(r)'
    BY DEF Ready, Running, At, Body, MayPatchPlan, Rows
  <2>3. OneRow' /\ HandlesUnique' /\ OneSubscription'
    BY DEF OneRow, WithKey, Rows, HandlesUnique, Clash, Is, OneSubscription
  <2>4. StreamsDistinct' /\ KeysOpen'
    BY DEF StreamsDistinct, KeysOpen, Issued
  <2>5. QED
    BY <2>1, <2>2, <2>3, <2>4
<1>3. CASE BuildIndex
  BY <1>3, IndexStep
<1>4. ASSUME NEW r \in Requests, CustomerStep(r) PROVE IInv'
  <2>1. CASE \/ CustomerArrive(r) \/ GetCustomer(r) \/ GetActiveSubscription(r)
             \/ CreateCustomer(r) \/ ReadCurrency(r) \/ AnswerExisting(r)
    BY <1>1, <2>1, CustomerReads
  <2>2. CASE InsertWithOpeningBalance(r) \/ UpdatesCustomer(r) \/ CloseCustomer(r)
    BY <1>1, <2>2, InsertCustomer, PatchCustomer, CloseStep
  <2>3. CASE AdjustBalance(r) \/ UpdateOrganization(r)
    BY <1>1, <2>3, AdjustStep, OrganizationStep
  <2>4. CASE ChangesPlan(r) \/ Subscribes(r) \/ ChangesKeys(r) \/ UseKey(r)
    BY <1>1, <2>4, PlanStep, SubscribeStep, KeyStep, CallStep
  <2>5. QED
    BY <1>4, <2>1, <2>2, <2>3, <2>4 DEF CustomerStep
<1>5. ASSUME NEW r \in Requests, CatalogStep(r), UNCHANGED customerVars PROVE IInv'
  BY <1>1, <1>5, CatalogReads, QuietStep
<1>6. ASSUME NEW r \in Requests, Stop(r), UNCHANGED customerVars PROVE IInv'
  BY <1>1, <1>6, AnswerMoves, QuietStep DEF Stop
<1>7. QED
  BY <1>2, <1>3, <1>4, <1>5, <1>6 DEF Next

THEOREM Inductive == Spec => []IInv
  BY InitIInv, StepIInv, PTL DEF Spec

(* Retries with one key adjust a balance once, however they interleave, as *)
(* long as there is the index that adjustCustomerBalance counts on.        *)
THEOREM KeyAdjustsOnce == Spec => []AdjustedOnce
<1>1. IInv => AdjustedOnce
  <2> SUFFICES ASSUME IInv, posted, NEW key \in IdempotencyKeys
               PROVE  Cardinality(WithKey(key)) <= 1
    BY DEF AdjustedOnce
  <2>1. \A s, t \in WithKey(key) : s = t
    BY DEF IInv, Data, OneRow
  <2>2. CASE WithKey(key) = {}
    BY <2>2, FS_EmptySet
  <2>3. CASE WithKey(key) # {}
    <3>1. PICK s \in WithKey(key) : TRUE
      BY <2>3
    <3>2. WithKey(key) = {s}
      BY <2>1, <3>1
    <3>3. Cardinality({s}) = 1
      BY FS_Singleton
    <3>4. QED
      BY <3>2, <3>3
  <2>4. QED
    BY <2>2, <2>3
<1>2. QED
  BY <1>1, Inductive, PTL

(* No two customers share an address or an external id, whatever insertion *)
(* and update found in between their check and their write.                *)
THEOREM HandlesAreUnique == Spec => []HandlesUnique
<1>1. IInv => HandlesUnique
  BY DEF IInv, Data
<1>2. QED
  BY <1>1, Inductive, PTL

(* A customer has one active subscription however many are asked for.      *)
THEOREM SubscribedOnce == Spec => []OneSubscription
<1>1. IInv => OneSubscription
  BY DEF IInv, Data
<1>2. QED
  BY <1>1, Inductive, PTL

(* Two active rules of a plan never share a stream, and so a counter: what *)
(* is written is what was looked at, some steps before.                    *)
THEOREM RulesCountApart == Spec => []StreamsDistinct
<1>1. IInv => StreamsDistinct
  BY DEF IInv, Data
<1>2. QED
  BY <1>1, Inductive, PTL

(* A prefix names one key, so the lookup by it finds the one presented.    *)
THEOREM PrefixNamesKey == Spec => []KeysOpen
<1>1. IInv => KeysOpen
  BY DEF IInv, Data
<1>2. QED
  BY <1>1, Inductive, PTL

(* A call is served for an active key of an active customer, or a write    *)
(* came between the reads of resolvePublicPrincipal.                       *)
THEOREM ServedWhileActive == Spec => []CallsAllowed
<1>1. IInv => CallsAllowed
  BY DEF IInv, Ready, CallsAllowed
<1>2. QED
  BY <1>1, Inductive, PTL

(* The four uniqueness results together.                                   *)
THEOREM NamesStayUnique == Spec => []NamesAreUnique
<1>1. HandlesUnique /\ OneSubscription /\ StreamsDistinct /\ KeysOpen => NamesAreUnique
  BY DEF NamesAreUnique
<1>2. QED
  BY <1>1, HandlesAreUnique, SubscribedOnce, RulesCountApart, PrefixNamesKey, PTL

-----------------------------------------------------------------------------
(* The ledger, and what its answers say. A request is looked at from its   *)
(* arrival: what its body holds, what the gate it passed asked for, and    *)
(* that it has not written its row yet.                                    *)
MaySee(r) ==
    req[r].op = "balanceHistory" \/ req[r].by.kind = "panel"
        => Permits(req[r].by, "balances:read")

Asks(r) ==
    /\ Running(r) /\ req[r].op = "adjustBalance"
         => req[r].at \in {"start", "transact", "existing"} /\ Body(r) \in BalanceAdjustBody
    /\ Running(r) /\ req[r].op = "createCustomer"
         => /\ req[r].at \in {"start", "conflict", "insert"} /\ Body(r) \in CustomerCreateInput
            /\ req[r].at # "start"
                 => "currency" \in DOMAIN req[r] /\ req[r].currency \in Currencies
    /\ Running(r) /\ req[r].op = "updateCustomer"
         => req[r].at \in {"start", "update"} /\ Body(r) \in CustomerUpdateInput
    /\ Running(r) /\ req[r].op = "updateOrg"
         => req[r].at = "start" /\ Body(r).currency \in Currencies
    /\ Running(r) /\ req[r].op \in {"balanceHistory", "adjustBalance"}
         => "by" \in DOMAIN req[r] /\ MaySee(r)
    /\ At(r, "adjustBalance", "transact") => Is(Body(r).customer)
    /\ req[r].at = "idle" \/ At(r, "adjustBalance", "start")
         \/ At(r, "adjustBalance", "transact") => adjustments[r] = None

CustomerDoc == [status : {"none", "active", "suspended", "closed"},
                email : Emails \cup {None}, externalId : ExternalIds \cup {None},
                currency : Currencies \cup {None}, balance : Int]

Accounts ==
    /\ currency \in Currencies
    /\ customers \in [CustomerIds -> CustomerDoc]
    /\ adjustments \in [Requests -> AdjustmentRow \cup {None}]
    /\ \A c \in CustomerIds : Is(c) => customers[c].currency \in Currencies
    /\ \A r \in Rows : Is(adjustments[r].customer)
    /\ BalanceIsLedger

(* Customers are never taken away, and a request writes no row but its own.*)
Kept(r) ==
    /\ \A c \in CustomerIds : Is(c) => Is(c)'
    /\ \A q \in Requests \ {r} : adjustments'[q] = adjustments[q]

LEMMA BodyCustomers ==
  /\ \A b \in BalanceAdjustBody : b.customer \in CustomerIds /\ b.amount \in Amounts
                                  /\ b.key \in IdempotencyKeys \cup {None}
  /\ \A b \in CustomerUpdateInput : b.customer \in CustomerIds
  BY DEF BalanceAdjustBody, CustomerUpdateInput

LEMMA OtherAsks ==
  ASSUME NEW q \in Requests, Asks(q), Ready(q), Same(q) \/ Hit(q),
         adjustments'[q] = adjustments[q], \A c \in CustomerIds : Is(c) => Is(c)'
  PROVE  Asks(q)'
<1>1. CASE Same(q)
  BY <1>1, BodyCustomers DEF Same, Asks, MaySee, Running, At, Body
<1>2. CASE Hit(q)
  <2>1. /\ Running(q) /\ Fields \subseteq DOMAIN req[q]
        /\ req'[q] = [req[q] EXCEPT !.raced = TRUE]
    BY <1>2 DEF Hit, Ready
  <2>2. /\ req'[q].at = req[q].at /\ req'[q].op = req[q].op /\ req'[q].body = req[q].body
        /\ DOMAIN req'[q] = DOMAIN req[q]
        /\ "currency" \in DOMAIN req[q] => req'[q].currency = req[q].currency
        /\ "by" \in DOMAIN req[q] => req'[q].by = req[q].by
    BY <2>1 DEF Fields
  <2>3. QED
    BY <2>1, <2>2, BodyCustomers DEF Asks, MaySee, Running, At, Body
<1>3. QED
  BY <1>1, <1>2

LEMMA DoneAsks ==
  ASSUME NEW r \in Requests, req'[r].at = "done" PROVE Asks(r)'
  BY DEF Asks, Running, At

LEMMA AnswersDone ==
  ASSUME NEW r \in Requests, NEW shown, Answers(r, shown)
  PROVE  /\ req'[r].at = "done" /\ Asks(r)'
         /\ \E answer \in {"ok", "lost"} : req'[r] = Answer(answer, shown /\ answer = "ok")
<1>1. PICK answer \in {"ok", "lost"} : Wrote(r, Answer(answer, shown /\ answer = "ok"))
  BY DEF Answers
<1>2. req'[r] = Answer(answer, shown /\ answer = "ok")
  BY <1>1, WroteMoves
<1>3. req'[r].at = "done"
  BY <1>2 DEF Answer
<1>4. QED
  BY <1>2, <1>3, DoneAsks

LEMMA AnswerDone ==
  ASSUME IInv, NEW r \in Requests, NEW answer, NEW shown,
         req' = [req EXCEPT ![r] = Answer(answer, shown)]
  PROVE  req'[r].at = "done" /\ Asks(r)' /\ req'[r] = Answer(answer, shown)
<1>1. req'[r] = Answer(answer, shown)
  BY DEF IInv, Shaped, OfRequests
<1>2. req'[r].at = "done"
  BY <1>1 DEF Answer
<1>3. QED
  BY <1>1, <1>2, DoneAsks

LEMMA RefusesDone ==
  ASSUME IInv, NEW r \in Requests, Refuses(r)
  PROVE  req'[r].at = "done" /\ Asks(r)' /\ req'[r] = Answer("refused", FALSE)
  BY AnswerDone DEF Refuses

(* A read keeps what was read before.                                      *)
LEMMA ReadsKeep ==
  ASSUME IInv, NEW r \in Requests, NEW step, NEW read, Reads(r, step, read),
         Running(r), DOMAIN read \cap Fields = {}
  PROVE  /\ \A f \in DOMAIN req[r] \ (DOMAIN read \cup {"at"}) :
                f \in DOMAIN req'[r] /\ req'[r][f] = req[r][f]
         /\ \A f \in DOMAIN read : f \in DOMAIN req'[r] /\ req'[r][f] = read[f]
<1>1. OfRequests(req) /\ Fields \subseteq DOMAIN req[r]
  BY DEF IInv, Shaped, Ready
<1> DEFINE stepped == [req[r] EXCEPT !.at = step]
           merged == [field \in DOMAIN read \cup DOMAIN stepped |->
                        IF field \in DOMAIN read THEN read[field] ELSE stepped[field]]
<1>2. req'[r] = merged
  BY <1>1 DEF Reads, OfRequests
<1>3. DOMAIN stepped = DOMAIN req[r] /\ \A f \in DOMAIN req[r] \ {"at"} : stepped[f] = req[r][f]
  OBVIOUS
<1> HIDE DEF stepped
<1>4. QED
  BY <1>2, <1>3

(* A request of an operation that writes nothing of the ledger reads on.   *)
Ledgers == {"adjustBalance", "createCustomer", "updateCustomer", "updateOrg"}

LEMMA PlainAsks ==
  ASSUME IInv, NEW r \in Requests, Asks(r), NEW step, NEW read, Reads(r, step, read),
         Running(r), DOMAIN read \cap Fields = {}, "by" \notin DOMAIN read,
         req[r].op \notin Ledgers, step # "idle"
  PROVE  req'[r].at = step /\ Asks(r)'
<1>1. /\ req'[r].at = step /\ req'[r].op = req[r].op /\ req'[r].body = req[r].body
  BY ReadsMoves
<1>2. "by" \in DOMAIN req[r] => "by" \in DOMAIN req'[r] /\ req'[r].by = req[r].by
  BY ReadsKeep DEF Fields
<1>3. QED
  BY <1>1, <1>2 DEF Asks, MaySee, Running, At, Ledgers

(* Who is told of an adjustment asked for what a row says, and who is      *)
(* shown a balance may see it.                                             *)
Own(r) ==
    \E s \in Requests :
        /\ adjustments'[s] # None
        /\ adjustments'[s].key = Body(r).key
        /\ adjustments'[s].customer = Body(r).customer
        /\ adjustments'[s].amount = Body(r).amount
        /\ Body(r).key = None => s = r

Told(r) ==
    Running(r) /\ req'[r].at = "done" =>
        /\ req'[r].shown => Shows(r)
        /\ req[r].op = "adjustBalance" /\ req'[r].answer = "ok" => Own(r)

LEMMA RefusesTold ==
  ASSUME IInv, NEW r \in Requests, Refuses(r) PROVE Asks(r)' /\ Told(r)
  BY RefusesDone DEF Told, Answer

LEMMA AnswersTold ==
  ASSUME NEW r \in Requests, NEW shown, Answers(r, shown), shown => Shows(r),
         req[r].op # "adjustBalance"
  PROVE  Asks(r)' /\ Told(r)
<1>1. PICK answer : req'[r] = Answer(answer, shown /\ answer = "ok")
  BY AnswersDone
<1>2. req'[r].shown = (shown /\ answer = "ok")
  BY <1>1 DEF Answer
<1>3. req'[r].shown => Shows(r)
  BY <1>2
<1>4. QED
  BY <1>3, AnswersDone DEF Told

LEMMA AnswerTold ==
  ASSUME IInv, NEW r \in Requests, NEW answer, NEW shown, shown => Shows(r),
         req' = [req EXCEPT ![r] = Answer(answer, shown)],
         req[r].op # "adjustBalance" \/ answer # "ok"
  PROVE  Asks(r)' /\ Told(r)
<1>1. req'[r] = Answer(answer, shown) /\ Asks(r)'
  BY AnswerDone
<1>2. req'[r].shown = shown /\ req'[r].answer = answer
  BY <1>1 DEF Answer
<1>3. req'[r].shown => Shows(r)
  BY <1>2
<1>4. QED
  BY <1>1, <1>2, <1>3 DEF Told

LEMMA PlainTold ==
  ASSUME IInv, NEW r \in Requests, Asks(r), NEW step, NEW read, Reads(r, step, read),
         Running(r), DOMAIN read \cap Fields = {}, "by" \notin DOMAIN read,
         req[r].op \notin Ledgers, step \notin {"idle", "done"}
  PROVE  Asks(r)' /\ Told(r)
  BY PlainAsks DEF Told

LEMMA BalanceGates ==
  ASSUME NEW kind \in {"panel", "management"}
  PROVE  /\ CustomerGates[kind]["adjustBalance"] = "balances:write"
         /\ CustomerGates[kind]["balanceHistory"] = "balances:read"
<1>1. /\ CustomerRoutes["adjustBalance"] = "balances:write"
      /\ CustomerRoutes["balanceHistory"] = "balances:read"
      /\ {"adjustBalance", "balanceHistory"} \subseteq DOMAIN CustomerRoutes
  BY DEF CustomerRoutes
<1>2. /\ PanelRoutes["adjustBalance"] = CustomerRoutes["adjustBalance"]
      /\ PanelRoutes["balanceHistory"] = CustomerRoutes["balanceHistory"]
  <2> DEFINE G(op) == CASE op \in DOMAIN CustomerRoutes -> CustomerRoutes[op]
                        [] op \in DOMAIN PlanRoutes -> PlanRoutes[op]
                        [] op \in DOMAIN ApiKeyRoutes -> ApiKeyRoutes[op]
                        [] op \in DOMAIN OrganizationRoute -> OrganizationRoute[op]
  <2>1. /\ "adjustBalance" \notin DOMAIN PlanRoutes \cup DOMAIN ApiKeyRoutes
                                   \cup DOMAIN OrganizationRoute
        /\ "balanceHistory" \notin DOMAIN PlanRoutes \cup DOMAIN ApiKeyRoutes
                                    \cup DOMAIN OrganizationRoute
    BY DEF PlanRoutes, ApiKeyRoutes, OrganizationRoute
  <2>2. /\ G("adjustBalance") = CustomerRoutes["adjustBalance"]
        /\ G("balanceHistory") = CustomerRoutes["balanceHistory"]
    BY <1>1, <2>1
  <2>3. PanelRoutes = [op \in CustomerOps |-> G(op)]
    BY DEF PanelRoutes
  <2>4. {"adjustBalance", "balanceHistory"} \subseteq CustomerOps
    BY DEF CustomerOps
  <2> HIDE DEF G
  <2>5. QED
    BY <2>2, <2>3, <2>4
<1>3. /\ ManagementRoutes["adjustBalance"] = "balances:write"
      /\ ManagementRoutes["balanceHistory"] = "balances:read"
  BY DEF ManagementRoutes, ManagementReads, ManagementWrites
<1>4. QED
  BY <1>1, <1>2, <1>3 DEF CustomerGates

LEMMA ArriveAsks ==
  ASSUME IInv, NEW r \in Requests, Asks(r), CustomerArrive(r)
  PROVE  Asks(r)' /\ Told(r)
<1>1. req[r].at = "idle" /\ adjustments' = adjustments /\ adjustments[r] = None
  BY DEF CustomerArrive, Arrive, ArriveWithKey, customerVars, Asks
<1>2. OfRequests(req)
  BY DEF IInv, Shaped
<1>3. CASE Arrive(r, CustomerGates, CustomerBodies)
  <2>1. PICK p \in Principals : \E op \in Operations \cap DOMAIN CustomerGates[p.kind] :
          /\ Permits(p, CustomerGates[p.kind][op])
          /\ \E body \in CustomerBodies[op] :
              req' = [req EXCEPT ![r] = [op |-> op, at |-> "start", by |-> p,
                                         body |-> body, raced |-> FALSE]]
    BY <1>3 DEF Arrive
  <2>2. PICK op \in Operations \cap DOMAIN CustomerGates[p.kind] :
          /\ Permits(p, CustomerGates[p.kind][op])
          /\ \E body \in CustomerBodies[op] :
              req' = [req EXCEPT ![r] = [op |-> op, at |-> "start", by |-> p,
                                         body |-> body, raced |-> FALSE]]
    BY <2>1
  <2>3. PICK body \in CustomerBodies[op] :
              req' = [req EXCEPT ![r] = [op |-> op, at |-> "start", by |-> p,
                                         body |-> body, raced |-> FALSE]]
    BY <2>2
  <2>4. /\ req'[r].at = "start" /\ req'[r].op = op /\ req'[r].body = body
        /\ req'[r].by = p /\ "by" \in DOMAIN req'[r]
    BY <1>2, <2>3 DEF OfRequests
  <2>5. /\ op = "adjustBalance" => body \in BalanceAdjustBody
        /\ op = "createCustomer" => body \in CustomerCreateInput
        /\ op = "updateCustomer" => body \in CustomerUpdateInput
        /\ op = "updateOrg" => body \in [currency : Currencies]
    BY <2>3 DEF CustomerBodies, CustomerOps
  <2>6. p.kind = "panel" \/ p.kind = "management"
    BY AdminRequestsAssumption
  <2>7. op = "adjustBalance" => CustomerGates[p.kind][op] = "balances:write"
    BY <2>6, BalanceGates
  <2>8. op = "balanceHistory" => CustomerGates[p.kind][op] = "balances:read"
    BY <2>6, BalanceGates
  <2>9. p.kind = "panel" /\ Permits(p, "balances:write") => Permits(p, "balances:read")
    BY CustomersAssumption DEF Permits, HasPanelPermission
  <2>10. op \in {"balanceHistory", "adjustBalance"} => MaySee(r)'
    BY <2>2, <2>4, <2>7, <2>8, <2>9 DEF MaySee
  <2>11. op = "updateOrg" => body.currency \in Currencies
    BY <2>5
  <2>12. QED
    BY <1>1, <2>4, <2>5, <2>10, <2>11 DEF Asks, Running, At, Body, Told
<1>4. CASE ArriveWithKey(r, "useKey", [key : Requests])
  <2>1. req'[r].at = "start" /\ req'[r].op = "useKey"
    BY <1>2, <1>4 DEF ArriveWithKey, OfRequests
  <2>2. QED
    BY <2>1 DEF Asks, Running, At, Told
<1>5. QED
  BY <1>3, <1>4 DEF CustomerArrive

LEMMA CatalogAsks ==
  ASSUME IInv, NEW r \in Requests, Asks(r), CatalogStep(r), UNCHANGED customerVars
  PROVE  Asks(r)' /\ Told(r)
<1>1. CASE CatalogArrive(r)
  <2>1. PICK p \in Principals, op \in Operations :
          /\ op \in DOMAIN CatalogGates[p.kind]
          /\ \E body \in CatalogBodies[op] :
              req' = [req EXCEPT ![r] = [op |-> op, at |-> "start", by |-> p,
                                         body |-> body, raced |-> FALSE]]
    BY <1>1 DEF CatalogArrive, Arrive
  <2>2. req'[r].at = "start" /\ req'[r].op = op
    BY <2>1 DEF IInv, Shaped, OfRequests
  <2>3. p.kind = "panel" \/ p.kind = "management"
    BY AdminRequestsAssumption
  <2>4. op \notin Ledgers \cup {"balanceHistory"}
    BY <2>1, <2>3 DEF CatalogGates, CatalogRoutes, ProviderRoutes, ModelWrites, ModelReads,
       Ledgers
  <2>5. QED
    BY <2>2, <2>4 DEF Asks, Running, At, Told, Ledgers
<1>2. CASE CreateProvider(r) \/ UpdateProvider(r)
  BY <1>2, AnswersTold, RefusesTold DEF CreateProvider, UpdateProvider, At
<1>3. CASE DeletesProvider(r)
  <2>0. req[r].op = "deleteProvider" /\ Running(r)
    BY <1>3 DEF DeletesProvider, DeleteProvider, At, Running
  <2>1. CASE Reads(r, "count", <<>>) \/ Reads(r, "rows", <<>>)
    BY <2>0, <2>1, PlainTold DEF Fields, Ledgers
  <2>2. CASE Wrote(r, [req[r] EXCEPT !.at = "delete"])
    <3>1. req'[r] = [req[r] EXCEPT !.at = "delete"]
      BY <2>2, WroteMoves
    <3>2. Fields \subseteq DOMAIN req[r]
      BY <2>0 DEF IInv, Ready
    <3>3. req'[r].at = "delete" /\ req'[r].op = "deleteProvider"
      BY <2>0, <3>1, <3>2 DEF Fields
    <3>4. QED
      BY <3>3 DEF Asks, Running, At, Told
  <2>3. CASE Answers(r, FALSE) \/ Refuses(r)
    BY <2>0, <2>3, AnswersTold, RefusesTold
  <2>4. QED
    BY <1>3, <2>1, <2>2, <2>3 DEF DeletesProvider, DeleteProvider
<1>4. CASE DiscoverModels(r)
  <2>1. CASE Reads(r, "upstream", <<>>) /\ Running(r) /\ req[r].op = "discoverModels"
    BY <2>1, PlainTold DEF Fields, Ledgers
  <2>2. QED
    BY <1>4, <2>1, AnswersTold, RefusesTold DEF DiscoverModels, At, Running
<1>5. CASE ListModels(r)
  BY <1>5, AnswerTold, RefusesTold DEF ListModels, At
<1>6. CASE FindModel(r)
  <2>1. CASE /\ Reads(r, "check", [existing |-> models[Input(r).model].entries])
             /\ Running(r) /\ req[r].op \notin Ledgers
    BY <2>1, PlainTold DEF Fields
  <2>2. QED
    BY <1>6, <2>1, RefusesTold DEF FindModel, Running, Ledgers
<1>7. CASE CheckEntries(r)
  <2>1. Running(r) /\ req[r].op \notin Ledgers
    BY <1>7 DEF CheckEntries, Running, Asks, Ledgers
  <2>2. CASE Reads(r, "write", <<>>)
    BY <2>1, <2>2, PlainTold DEF Fields
  <2>3. QED
    BY <1>7, <2>2, RefusesTold DEF CheckEntries
<1>8. CASE ChangesModel(r)
  <2>1. CASE Reads(r, "insert", <<>>) /\ At(r, "createModel", "start")
    BY <2>1, PlainTold DEF Fields, At, Running, Ledgers
  <2>2. req[r].op # "adjustBalance"
    BY <1>8 DEF ChangesModel, CreateModel, UpdateModel, DeleteModel, At, Asks, Running
  <2>3. CASE Answers(r, FALSE) \/ Refuses(r)
    BY <2>2, <2>3, AnswersTold, RefusesTold
  <2>4. QED
    BY <1>8, <2>1, <2>3 DEF ChangesModel, CreateModel, UpdateModel, DeleteModel
<1>9. QED
  BY <1>1, <1>2, <1>3, <1>4, <1>5, <1>6, <1>7, <1>8 DEF CatalogStep

LedgerStep(r) == Kept(r) /\ Asks(r)' /\ Told(r) /\ Accounts'

LEMMA QuietLedger ==
  ASSUME Accounts, NEW r \in Requests, Asks(r)', Told(r),
         UNCHANGED <<currency, customers, adjustments>>
  PROVE  LedgerStep(r)
<1>1. UNCHANGED <<Rows, AmountOf>> /\ \A c : UNCHANGED Ledger(c)
  BY DEF Rows, AmountOf, Ledger
<1>2. BalanceIsLedger'
  BY <1>1 DEF Accounts, BalanceIsLedger
<1>3. QED
  BY <1>1, <1>2 DEF Accounts, LedgerStep, Kept, Is

LEMMA ReadsLedger ==
  ASSUME IInv, Accounts, NEW r \in Requests, Asks(r),
         \/ CustomerArrive(r) \/ GetCustomer(r) \/ GetActiveSubscription(r)
         \/ CreateCustomer(r) \/ ReadCurrency(r) \/ AnswerExisting(r)
  PROVE  LedgerStep(r)
<1>1. UNCHANGED customerVars
  BY DEF CustomerArrive, GetCustomer, GetActiveSubscription, CreateCustomer, ReadCurrency,
         AnswerExisting
<1>2. SUFFICES Asks(r)' /\ Told(r)
  BY <1>1, QuietLedger DEF customerVars
<1>3. CASE CustomerArrive(r)
  BY <1>3, ArriveAsks
<1>4. CASE GetCustomer(r) \/ GetActiveSubscription(r)
  BY <1>4, AnswerTold, RefusesTold DEF GetCustomer, GetActiveSubscription, At
<1>5. CASE CreateCustomer(r)
  <2>1. req[r].op = "createCustomer" /\ Running(r) /\ Body(r) \in CustomerCreateInput
    BY <1>5 DEF CreateCustomer, At, Running, Asks
  <2>2. CASE Reads(r, "conflict", [currency |-> currency])
    <3>1. /\ req'[r].at = "conflict" /\ req'[r].op = req[r].op /\ req'[r].body = req[r].body
      BY <2>1, <2>2, ReadsMoves DEF Fields
    <3>2. "currency" \in DOMAIN req'[r] /\ req'[r].currency = currency
      BY <2>1, <2>2, ReadsKeep DEF Fields
    <3>3. QED
      BY <2>1, <3>1, <3>2 DEF Asks, Running, At, Body, Told, Accounts
  <2>3. CASE At(r, "createCustomer", "conflict") /\ Reads(r, "insert", <<>>)
    <3>1. /\ req'[r].at = "insert" /\ req'[r].op = req[r].op /\ req'[r].body = req[r].body
      BY <2>1, <2>3, ReadsMoves DEF Fields
    <3>2. "currency" \in DOMAIN req[r] /\ req[r].currency \in Currencies
      BY <2>1, <2>3 DEF Asks, At
    <3>3. "currency" \in DOMAIN req'[r] /\ req'[r].currency = req[r].currency
      BY <2>1, <2>3, <3>2, ReadsKeep DEF Fields
    <3>4. QED
      BY <2>1, <3>1, <3>2, <3>3 DEF Asks, Running, At, Body, Told
  <2>4. QED
    BY <1>5, <2>2, <2>3, RefusesTold DEF CreateCustomer
<1>6. CASE ReadCurrency(r)
  <2>1. CASE /\ At(r, "adjustBalance", "start") /\ Is(Body(r).customer)
             /\ Reads(r, "transact", [expected |-> customers[Body(r).customer].currency])
    <3>1. Running(r) /\ req[r].op = "adjustBalance"
      BY <2>1 DEF At, Running
    <3>2. req'[r].at = "transact" /\ req'[r].op = req[r].op /\ req'[r].body = req[r].body
      BY <2>1, <3>1, ReadsMoves DEF Fields
    <3>3. "by" \in DOMAIN req[r] /\ MaySee(r)
      BY <3>1 DEF Asks
    <3>4. "by" \in DOMAIN req'[r] /\ req'[r].by = req[r].by
      BY <2>1, <3>1, <3>3, ReadsKeep DEF Fields
    <3>5. Is(Body(r).customer)'
      BY <1>1, <2>1, <3>2 DEF Is, Body, customerVars
    <3>6. adjustments'[r] = None
      BY <1>1, <2>1 DEF Asks, customerVars
    <3>7. QED
      BY <2>1, <3>1, <3>2, <3>3, <3>4, <3>5, <3>6 DEF Asks, MaySee, Running, At, Body, Told
  <2>2. QED
    BY <1>6, <2>1, RefusesTold DEF ReadCurrency
<1>7. CASE AnswerExisting(r)
  <2>1. PICK s \in WithKey(Body(r).key) :
          IF SameRequest(r, adjustments[s])
          THEN req' = [req EXCEPT ![r] = Answer("ok", Shows(r))]
          ELSE Refuses(r)
    BY <1>7 DEF AnswerExisting
  <2>2. CASE SameRequest(r, adjustments[s])
    <3>1. req'[r] = Answer("ok", Shows(r)) /\ Asks(r)'
      BY <2>1, <2>2, AnswerDone
    <3>2. req'[r].shown = Shows(r)
      BY <3>1 DEF Answer
    <3>3. /\ s \in Requests /\ adjustments'[s] # None /\ Body(r).key # None
          /\ adjustments'[s].key = Body(r).key
          /\ adjustments'[s].customer = Body(r).customer
          /\ adjustments'[s].amount = Body(r).amount
      BY <1>1, <2>1, <2>2 DEF WithKey, Rows, SameRequest, customerVars
    <3>4. Own(r)
      BY <3>3 DEF Own
    <3>5. QED
      BY <3>1, <3>2, <3>4 DEF Told
  <2>3. QED
    BY <2>1, <2>2, RefusesTold
<1>8. QED
  BY <1>3, <1>4, <1>5, <1>6, <1>7

(* Operations that write nothing of the ledger.                            *)
LEMMA OthersLedger ==
  ASSUME IInv, Accounts, NEW r \in Requests, Asks(r),
         ChangesPlan(r) \/ Subscribes(r) \/ ChangesKeys(r) \/ UseKey(r)
  PROVE  LedgerStep(r)
<1>1. UNCHANGED <<currency, customers, adjustments>>
  BY DEF ChangesPlan, Subscribes, ChangesKeys, UseKey, customerVars
<1>2. Running(r) /\ req[r].op \notin Ledgers
  BY DEF ChangesPlan, CreatePlan, UpdatePlan, DeactivatePlan, Subscribes, Subscribe,
     ChangesKeys, IssueKey, PatchKey, UseKey, At, Running, Ledgers
<1>3. \/ Refuses(r) \/ Answers(r, FALSE)
      \/ \E step \in {"insert", "update", "plan", "current", "customer", "serve"} :
            \/ Reads(r, step, <<>>)
            \/ Reads(r, step, [currency |-> currency])
            \/ \E left : Reads(r, step, [left |-> left])
            \/ \E read : Reads(r, step, [read |-> read])
  BY DEF ChangesPlan, CreatePlan, UpdatePlan, DeactivatePlan, Subscribes, Subscribe,
     ChangesKeys, IssueKey, PatchKey, UseKey
<1>4. CASE Refuses(r) \/ Answers(r, FALSE)
  BY <1>1, <1>2, <1>4, RefusesTold, AnswersTold, QuietLedger DEF Ledgers
<1>5. ASSUME NEW step \in {"insert", "update", "plan", "current", "customer", "serve"},
             NEW read, DOMAIN read \cap Fields = {}, "by" \notin DOMAIN read,
             Reads(r, step, read)
      PROVE  LedgerStep(r)
  BY <1>1, <1>2, <1>5, PlainTold, QuietLedger
<1>6. ASSUME NEW step \in {"insert", "update", "plan", "current", "customer", "serve"},
             NEW value,
             \/ Reads(r, step, <<>>) \/ Reads(r, step, [currency |-> value])
             \/ Reads(r, step, [left |-> value]) \/ Reads(r, step, [read |-> value])
      PROVE  LedgerStep(r)
  <2>1. CASE Reads(r, step, <<>>)
    BY <1>5, <2>1 DEF Fields
  <2>2. CASE Reads(r, step, [currency |-> value])
    BY <1>5, <2>2 DEF Fields
  <2>3. CASE Reads(r, step, [left |-> value])
    BY <1>5, <2>3 DEF Fields
  <2>4. CASE Reads(r, step, [read |-> value])
    BY <1>5, <2>4 DEF Fields
  <2>5. QED
    BY <1>6, <2>1, <2>2, <2>3, <2>4
<1>7. QED
  BY <1>3, <1>4, <1>6

(* A write of one document that leaves its balance and its currency.       *)
LEMMA DocLedger ==
  ASSUME Accounts, NEW c \in CustomerIds, NEW doc \in CustomerDoc, Is(c),
         customers' = [customers EXCEPT ![c] = doc], doc.status # "none",
         doc.balance = customers[c].balance, doc.currency = customers[c].currency,
         UNCHANGED <<currency, adjustments>>
  PROVE  Accounts' /\ \A d \in CustomerIds : Is(d) => Is(d)'
<1>1. UNCHANGED <<Rows, AmountOf>> /\ \A d : UNCHANGED Ledger(d)
  BY DEF Rows, AmountOf, Ledger
<1>2. customers' \in [CustomerIds -> CustomerDoc]
  BY DEF Accounts
<1>3. \A d \in CustomerIds : /\ customers'[d].balance = customers[d].balance
                             /\ customers'[d].currency = customers[d].currency
                             /\ Is(d)' <=> Is(d)
  BY DEF Accounts, Is
<1>4. BalanceIsLedger'
  BY <1>1, <1>3 DEF Accounts, BalanceIsLedger
<1>5. \A q \in Rows : adjustments[q].customer \in CustomerIds
  BY DEF Accounts, Rows, AdjustmentRow
<1>6. QED
  BY <1>1, <1>2, <1>3, <1>4, <1>5 DEF Accounts

LEMMA ChangesLedger ==
  ASSUME IInv, Accounts, NEW r \in Requests, Asks(r), UpdatesCustomer(r) \/ CloseCustomer(r)
  PROVE  LedgerStep(r)
<1>1. UNCHANGED <<currency, adjustments>>
  BY DEF UpdatesCustomer, CloseCustomer
<1>2. CASE Refuses(r) /\ UNCHANGED customers
  BY <1>1, <1>2, RefusesTold, QuietLedger
<1>3. CASE At(r, "updateCustomer", "start") /\ Reads(r, "update", <<>>) /\ UNCHANGED customers
  <2>1. Running(r) /\ req[r].op = "updateCustomer" /\ Body(r) \in CustomerUpdateInput
    BY <1>3 DEF At, Running, Asks
  <2>2. req'[r].at = "update" /\ req'[r].op = req[r].op /\ req'[r].body = req[r].body
    BY <1>3, <2>1, ReadsMoves DEF Fields
  <2>3. Asks(r)' /\ Told(r)
    BY <2>1, <2>2 DEF Asks, Running, At, Body, Told
  <2>4. QED
    BY <1>1, <1>3, <2>3, QuietLedger
<1> DEFINE c == Body(r).customer
<1>4. CASE /\ At(r, "updateCustomer", "update") /\ Is(c) /\ Answers(r, Shows(r))
           /\ customers' = [customers EXCEPT ![c][Body(r).patch] = Body(r).to]
  <2>1. Body(r) \in CustomerUpdateInput /\ c \in CustomerIds
    BY <1>4, BodyCustomers DEF Asks, At, Running
  <2> DEFINE doc == [customers[c] EXCEPT ![Body(r).patch] = Body(r).to]
  <2>2. customers[c] \in CustomerDoc /\ customers[c].status # "none"
    BY <1>4, <2>1 DEF Accounts, Is
  <2>3. customers' = [customers EXCEPT ![c] = doc]
    BY <1>4, <2>1 DEF Accounts
  <2>4. /\ doc \in CustomerDoc /\ doc.status # "none"
        /\ doc.balance = customers[c].balance /\ doc.currency = customers[c].currency
    <3>1. CASE Body(r).patch = "email" /\ Body(r).to \in Emails \cup {None}
      <4>1. doc = [customers[c] EXCEPT !["email"] = Body(r).to]
        BY <3>1
      <4>2. QED
        BY <2>2, <3>1, <4>1 DEF CustomerDoc
    <3>2. CASE Body(r).patch = "externalId" /\ Body(r).to \in ExternalIds \cup {None}
      <4>1. doc = [customers[c] EXCEPT !["externalId"] = Body(r).to]
        BY <3>2
      <4>2. QED
        BY <2>2, <3>2, <4>1 DEF CustomerDoc
    <3>3. CASE Body(r).patch = "status" /\ Body(r).to \in {"active", "suspended", "closed"}
      <4>1. doc = [customers[c] EXCEPT !["status"] = Body(r).to]
        BY <3>3
      <4>2. QED
        BY <2>2, <3>3, <4>1 DEF CustomerDoc
    <3>4. QED
      BY <2>1, <3>1, <3>2, <3>3 DEF CustomerUpdateInput
  <2> HIDE DEF doc, c
  <2>5. Accounts' /\ \A d \in CustomerIds : Is(d) => Is(d)'
    BY <1>1, <1>4, <2>1, <2>3, <2>4, DocLedger
  <2>6. Asks(r)' /\ Told(r)
    BY <1>4, AnswersTold DEF At
  <2>7. QED
    BY <1>1, <2>5, <2>6 DEF LedgerStep, Kept
<1>5. CASE CloseCustomer(r) /\ Is(c)
  <2>1. /\ At(r, "closeCustomer", "start") /\ Answers(r, FALSE)
        /\ customers' = [customers EXCEPT ![c].status = "closed"]
    BY <1>5 DEF CloseCustomer
  <2>2. Asks(r)' /\ Told(r)
    BY <2>1, AnswersTold DEF At
  <2>3. CASE c \in CustomerIds
    <3> DEFINE doc == [customers[c] EXCEPT !.status = "closed"]
    <3>1. customers[c] \in CustomerDoc
      BY <2>3 DEF Accounts
    <3>2. customers' = [customers EXCEPT ![c] = doc]
      BY <2>1, <2>3 DEF Accounts
    <3>3. /\ doc \in CustomerDoc /\ doc.status # "none"
          /\ doc.balance = customers[c].balance /\ doc.currency = customers[c].currency
      BY <3>1 DEF CustomerDoc
    <3> HIDE DEF doc, c
    <3>4. Accounts' /\ \A d \in CustomerIds : Is(d) => Is(d)'
      BY <1>1, <1>5, <2>3, <3>2, <3>3, DocLedger
    <3>5. QED
      BY <1>1, <2>2, <3>4 DEF LedgerStep, Kept
  <2>4. CASE c \notin CustomerIds
    <3>1. UNCHANGED customers
      BY <2>1, <2>4 DEF Accounts
    <3>2. QED
      BY <1>1, <2>2, <3>1, QuietLedger
  <2>5. QED
    BY <2>3, <2>4
<1>6. QED
  BY <1>2, <1>3, <1>4, <1>5 DEF UpdatesCustomer, UpdateCustomer, CloseCustomer

(* A new customer starts with an empty ledger.                             *)
LEMMA InsertLedger ==
  ASSUME IInv, Accounts, NEW r \in Requests, Asks(r), InsertWithOpeningBalance(r)
  PROVE  LedgerStep(r)
<1>c. PICK c : c = CHOOSE d \in Fresh(customers) : TRUE
  OBVIOUS
<1>1. c \in CustomerIds /\ ~Is(c)
  <2>1. c \in Fresh(customers)
    BY <1>c DEF InsertWithOpeningBalance
  <2>2. QED
    BY <2>1 DEF Fresh, IInv, Shaped, Is
<1>2. CASE MayInsert(r, c)
  <2> DEFINE doc == [status |-> "active", email |-> Body(r).email,
                     externalId |-> Body(r).externalId,
                     currency |-> req[r].currency, balance |-> 0]
  <2>1. /\ customers' = [customers EXCEPT ![c] = doc]
        /\ Answers(r, Shows(r)) /\ UNCHANGED <<currency, adjustments>>
    BY <1>c, <1>2 DEF InsertWithOpeningBalance
  <2>2. /\ req[r].op = "createCustomer" /\ req[r].at = "insert"
        /\ Body(r) \in CustomerCreateInput /\ req[r].currency \in Currencies
    BY DEF InsertWithOpeningBalance, At, Asks, Running
  <2>3. /\ doc \in CustomerDoc /\ doc.status = "active" /\ doc.balance = 0
        /\ doc.currency \in Currencies
    BY <2>2 DEF CustomerDoc, CustomerCreateInput
  <2> HIDE DEF doc
  <2>4. /\ customers' \in [CustomerIds -> CustomerDoc] /\ customers'[c] = doc
        /\ \A d \in CustomerIds \ {c} : customers'[d] = customers[d]
    BY <1>1, <2>1, <2>3 DEF Accounts
  <2>5. \A d \in CustomerIds : Is(d) => Is(d)'
    BY <2>3, <2>4 DEF Is
  <2>6. UNCHANGED <<Rows, AmountOf>> /\ \A d : UNCHANGED Ledger(d)
    BY <2>1 DEF Rows, AmountOf, Ledger
  <2>7. Ledger(c) = {}
    BY <1>1 DEF Accounts, Ledger
  <2>8. Total(AmountOf, {}) = 0
    BY TotalEmpty
  <2>9. BalanceIsLedger'
    <3>1. \A d : Ledger(d)' = Ledger(d)
      BY <2>6
    <3>2. customers'[c].balance = Total(AmountOf', Ledger(c)')
      BY <2>3, <2>4, <2>6, <2>7, <2>8, <3>1
    <3>3. \A d \in CustomerIds \ {c} : customers'[d].balance = Total(AmountOf', Ledger(d)')
      BY <2>4, <2>6, <3>1 DEF Accounts, BalanceIsLedger
    <3>4. \A d \in CustomerIds : \A q \in Ledger(d)' :
              adjustments'[q].currency = customers'[d].currency
      BY <2>1, <2>4, <2>7, <3>1 DEF Accounts, BalanceIsLedger
    <3>5. QED
      BY <3>2, <3>3, <3>4 DEF BalanceIsLedger
  <2>10. \A q \in Rows : adjustments[q].customer \in CustomerIds
    BY DEF Accounts, Rows, AdjustmentRow
  <2>11. Accounts'
    BY <2>1, <2>3, <2>4, <2>5, <2>6, <2>9, <2>10 DEF Accounts, Is
  <2>12. Asks(r)' /\ Told(r)
    BY <2>1, <2>2, AnswersTold
  <2>13. QED
    BY <2>1, <2>5, <2>11, <2>12 DEF LedgerStep, Kept
<1>3. CASE ~MayInsert(r, c)
  <2>1. Refuses(r) /\ UNCHANGED <<currency, customers, adjustments>>
    BY <1>c, <1>3 DEF InsertWithOpeningBalance
  <2>2. QED
    BY <2>1, RefusesTold, QuietLedger
<1>4. QED
  BY <1>2, <1>3

(* The row and the balance move together: one more term on both sides.     *)
LEMMA AdjustLedger ==
  ASSUME IInv, Accounts, NEW r \in Requests, Asks(r), AdjustBalance(r)
  PROVE  LedgerStep(r)
<1>c. PICK c, amount : c = Body(r).customer /\ amount = Body(r).amount
  OBVIOUS
<1>1. UNCHANGED currency
  BY DEF AdjustBalance
<1>2. /\ Running(r) /\ req[r].op = "adjustBalance" /\ Body(r) \in BalanceAdjustBody
      /\ Is(c) /\ adjustments[r] = None
  BY <1>c DEF AdjustBalance, At, Running, Asks
<1>3. /\ c \in CustomerIds /\ amount \in Amounts /\ amount \in Int
      /\ Body(r).key \in IdempotencyKeys \cup {None}
  BY <1>c, <1>2, BodyCustomers, CustomersAssumption
<1>4. CASE Refuses(r) /\ UNCHANGED <<customers, adjustments>>
  BY <1>1, <1>4, RefusesTold, QuietLedger
<1>5. CASE Reads(r, "existing", <<>>) /\ UNCHANGED <<customers, adjustments>>
  <2>1. req'[r].at = "existing" /\ req'[r].op = req[r].op /\ req'[r].body = req[r].body
    BY <1>2, <1>5, ReadsMoves DEF Fields
  <2>2. "by" \in DOMAIN req[r] /\ MaySee(r)
    BY <1>2 DEF Asks
  <2>3. "by" \in DOMAIN req'[r] /\ req'[r].by = req[r].by
    BY <1>2, <1>5, <2>2, ReadsKeep DEF Fields
  <2>4. Asks(r)' /\ Told(r)
    BY <1>2, <2>1, <2>2, <2>3 DEF Asks, MaySee, Running, At, Body, Told
  <2>5. QED
    BY <1>1, <1>5, <2>4, QuietLedger
<1>6. CASE /\ customers[c].currency = req[r].expected /\ InsertRow(r)
           /\ customers' = [customers EXCEPT ![c].balance = @ + amount]
           /\ Answers(r, Shows(r))
  <2> DEFINE row == [key |-> Body(r).key, customer |-> c, amount |-> amount,
                     currency |-> req[r].expected]
  <2>1. adjustments' = [adjustments EXCEPT ![r] = row]
    BY <1>c, <1>6 DEF InsertRow
  <2>2. /\ row \in AdjustmentRow /\ row.key = Body(r).key /\ row.customer = c
        /\ row.amount = amount /\ row.currency = customers[c].currency
    BY <1>c, <1>2, <1>3, <1>6 DEF AdjustmentRow, Accounts
  <2>3. row # None
    BY <2>2, CustomersAssumption
  <2> HIDE DEF row
  <2>4. /\ adjustments' \in [Requests -> AdjustmentRow \cup {None}]
        /\ adjustments'[r] = row
        /\ \A q \in Requests \ {r} : adjustments'[q] = adjustments[q]
    BY <2>1, <2>2 DEF Accounts
  <2> DEFINE doc == [customers[c] EXCEPT !.balance = @ + amount]
  <2>5. customers[c] \in CustomerDoc /\ customers' = [customers EXCEPT ![c] = doc]
    BY <1>3, <1>6 DEF Accounts
  <2>6. /\ doc \in CustomerDoc /\ doc.balance = customers[c].balance + amount
        /\ doc.currency = customers[c].currency /\ doc.status = customers[c].status
    BY <1>3, <2>5 DEF CustomerDoc
  <2> HIDE DEF doc
  <2>7. /\ customers' \in [CustomerIds -> CustomerDoc] /\ customers'[c] = doc
        /\ \A d \in CustomerIds \ {c} : customers'[d] = customers[d]
    BY <1>3, <2>5, <2>6 DEF Accounts
  <2>8. \A d \in CustomerIds : (Is(d)' <=> Is(d)) /\ customers'[d].currency = customers[d].currency
    BY <2>6, <2>7 DEF Is
  <2>9. /\ r \notin Rows /\ Rows' = Rows \cup {r}
        /\ Ledger(c)' = Ledger(c) \cup {r}
        /\ \A d \in CustomerIds \ {c} : Ledger(d)' = Ledger(d)
    <3>1. r \notin Rows /\ Rows' = Rows \cup {r}
      BY <1>2, <2>3, <2>4 DEF Rows
    <3>2. \A d : Ledger(d)' = {q \in Rows' : adjustments'[q].customer = d}
      BY DEF Ledger
    <3>3. \A q \in Rows : adjustments'[q] = adjustments[q]
      BY <2>4, <3>1 DEF Rows
    <3>4. adjustments'[r].customer = c
      BY <2>2, <2>4
    <3>5. QED
      BY <3>1, <3>2, <3>3, <3>4 DEF Ledger
  <2>10. /\ AmountOf'[r] = amount
         /\ \A q \in Rows : AmountOf'[q] = AmountOf[q] /\ AmountOf[q] \in Int
    <3>1. \A q \in Rows : q \in Requests \ {r} /\ adjustments[q] \in AdjustmentRow
      BY <2>9 DEF Rows, Accounts
    <3>2. \A q \in Rows : adjustments[q].amount \in Int
      BY <3>1, CustomersAssumption DEF AdjustmentRow
    <3>3. r \in Rows' /\ \A q \in Rows : q \in Rows'
      BY <2>9
    <3>4. QED
      BY <2>2, <2>4, <3>1, <3>2, <3>3 DEF AmountOf
  <2>11. \A d : Ledger(d) \subseteq Rows /\ IsFiniteSet(Ledger(d))
    <3>1. \A d : Ledger(d) \subseteq Rows /\ Ledger(d) \subseteq Requests
      BY DEF Ledger, Rows
    <3>2. QED
      BY <3>1, FS_Subset, AdminRequestsAssumption
  <2>12. \A d : Total(AmountOf', Ledger(d)) = Total(AmountOf, Ledger(d))
    <3> TAKE d
    <3> DEFINE f == AmountOf'
               L == Ledger(d)
    <3>1. IsFiniteSet(L) /\ \A q \in L : f[q] = AmountOf[q]
      BY <2>10, <2>11
    <3> HIDE DEF f, L
    <3>2. Total(f, L) = Total(AmountOf, L)
      BY <3>1, TotalAgree
    <3>3. QED
      BY <3>2 DEF f, L
  <2>13. Total(AmountOf', Ledger(c) \cup {r}) = amount + Total(AmountOf', Ledger(c))
    <3> DEFINE f == AmountOf'
               L == Ledger(c)
    <3>1. /\ IsFiniteSet(L) /\ r \notin L /\ f[r] = amount
          /\ \A q \in L \cup {r} : f[q] \in Int
      BY <1>3, <2>9, <2>10, <2>11
    <3> HIDE DEF f, L
    <3>2. Total(f, L \cup {r}) = f[r] + Total(f, L)
      BY <3>1, TotalAdd
    <3>3. QED
      BY <3>1, <3>2 DEF f, L
  <2>14. customers'[c].balance = Total(AmountOf', Ledger(c)')
    <3>1. customers[c].balance = Total(AmountOf, Ledger(c)) /\ customers[c].balance \in Int
      BY <1>3, <2>5 DEF Accounts, BalanceIsLedger, CustomerDoc
    <3>2. amount \in Int
      BY <1>3
    <3>3. QED
      BY <2>6, <2>7, <2>9, <2>12, <2>13, <3>1, <3>2
  <2>15. \A d \in CustomerIds \ {c} : customers'[d].balance = Total(AmountOf', Ledger(d)')
    BY <2>7, <2>9, <2>12 DEF Accounts, BalanceIsLedger
  <2>16. \A d \in CustomerIds : \A q \in Ledger(d)' :
            adjustments'[q].currency = customers'[d].currency
    <3> TAKE d \in CustomerIds
    <3> TAKE q \in Ledger(d)'
    <3>1. CASE q = r
      <4>1. d = c
        BY <2>2, <2>4, <3>1 DEF Ledger
      <4>2. QED
        BY <2>2, <2>4, <2>8, <3>1, <4>1
    <3>2. CASE q # r
      <4>1. q \in Ledger(d) /\ adjustments'[q] = adjustments[q]
        BY <2>4, <3>2 DEF Ledger, Rows
      <4>2. QED
        BY <2>8, <4>1 DEF Accounts, BalanceIsLedger
    <3>3. QED
      BY <3>1, <3>2
  <2>17. BalanceIsLedger'
    BY <2>14, <2>15, <2>16 DEF BalanceIsLedger
  <2>18. \A q \in Rows' : customers'[adjustments'[q].customer].status # "none"
    <3> TAKE q \in Rows'
    <3>1. CASE q = r
      BY <1>2, <1>3, <2>2, <2>4, <2>8, <3>1 DEF Is
    <3>2. CASE q # r
      <4>1. q \in Rows /\ adjustments'[q] = adjustments[q]
        BY <2>4, <3>2 DEF Rows
      <4>2. adjustments[q].customer \in CustomerIds /\ Is(adjustments[q].customer)
        BY <4>1 DEF Accounts, Rows, AdjustmentRow
      <4>3. QED
        BY <2>8, <4>1, <4>2 DEF Is
    <3>3. QED
      BY <3>1, <3>2
  <2>19. Accounts'
    BY <1>1, <2>4, <2>7, <2>8, <2>17, <2>18 DEF Accounts, Is
  <2>20. Own(r)
    BY <1>c, <2>2, <2>3, <2>4 DEF Own
  <2>21. Asks(r)' /\ Told(r)
    <3>1. PICK answer \in {"ok", "lost"} : req'[r] = Answer(answer, Shows(r) /\ answer = "ok")
      BY <1>6, AnswersDone
    <3>2. req'[r].shown = (Shows(r) /\ answer = "ok")
      BY <3>1 DEF Answer
    <3>3. req'[r].shown => Shows(r)
      BY <3>2
    <3>4. QED
      BY <1>6, <2>20, <3>3, AnswersDone DEF Told
  <2>22. QED
    BY <2>4, <2>8, <2>19, <2>21 DEF LedgerStep, Kept
<1>7. QED
  BY <1>c, <1>4, <1>5, <1>6 DEF AdjustBalance

LEMMA OrganizationLedger ==
  ASSUME IInv, Accounts, NEW r \in Requests, Asks(r), UpdateOrganization(r)
  PROVE  LedgerStep(r)
<1>1. /\ UNCHANGED <<customers, adjustments>> /\ Answers(r, FALSE)
      /\ currency' = Body(r).currency /\ At(r, "updateOrg", "start")
  BY DEF UpdateOrganization
<1>2. currency' \in Currencies
  BY <1>1 DEF At, Asks, Running
<1>3. UNCHANGED <<Rows, AmountOf>> /\ \A c : UNCHANGED Ledger(c)
  BY <1>1 DEF Rows, AmountOf, Ledger
<1>4. BalanceIsLedger'
  BY <1>1, <1>3 DEF Accounts, BalanceIsLedger
<1>5. Accounts'
  BY <1>1, <1>2, <1>3, <1>4 DEF Accounts, Is
<1>6. Asks(r)' /\ Told(r)
  BY <1>1, AnswersTold DEF At
<1>7. QED
  BY <1>1, <1>5, <1>6 DEF LedgerStep, Kept, Is

(* What is answered without a write, and what is lost on the way.          *)
LEMMA StopLedger ==
  ASSUME IInv, Accounts, NEW r \in Requests, Asks(r), Stop(r),
         UNCHANGED <<currency, customers, adjustments>>
  PROVE  LedgerStep(r)
<1>1. Asks(r)' /\ Told(r)
  BY AnswerTold DEF Stop
<1>2. QED
  BY <1>1, QuietLedger

LEMMA RequestLedger ==
  ASSUME IInv, Accounts, NEW r \in Requests, Asks(r),
         \/ CustomerStep(r)
         \/ CatalogStep(r) /\ UNCHANGED customerVars
         \/ Stop(r) /\ UNCHANGED customerVars
  PROVE  StepOf(r) /\ LedgerStep(r)
<1>1. CASE CustomerStep(r)
  <2>1. CASE \/ CustomerArrive(r) \/ GetCustomer(r) \/ GetActiveSubscription(r)
             \/ CreateCustomer(r) \/ ReadCurrency(r) \/ AnswerExisting(r)
    BY <2>1, CustomerReads, ReadsLedger
  <2>2. CASE InsertWithOpeningBalance(r)
    BY <2>2, InsertCustomer, InsertLedger
  <2>3. CASE UpdatesCustomer(r) \/ CloseCustomer(r)
    BY <2>3, PatchCustomer, CloseStep, ChangesLedger
  <2>4. CASE AdjustBalance(r)
    BY <2>4, AdjustStep, AdjustLedger
  <2>5. CASE UpdateOrganization(r)
    BY <2>5, OrganizationStep, OrganizationLedger
  <2>6. CASE ChangesPlan(r) \/ Subscribes(r) \/ ChangesKeys(r) \/ UseKey(r)
    BY <2>6, PlanStep, SubscribeStep, KeyStep, CallStep, OthersLedger
  <2>7. QED
    BY <1>1, <2>1, <2>2, <2>3, <2>4, <2>5, <2>6 DEF CustomerStep
<1>2. CASE CatalogStep(r) /\ UNCHANGED customerVars
  <2>1. Asks(r)' /\ Told(r)
    BY <1>2, CatalogAsks
  <2>2. QED
    BY <1>2, <2>1, CatalogReads, QuietStep, QuietLedger DEF customerVars
<1>3. CASE Stop(r) /\ UNCHANGED customerVars
  BY <1>3, AnswerMoves, QuietStep, StopLedger DEF Stop, customerVars
<1>4. QED
  BY <1>1, <1>2, <1>3

(* The step of one request, as all of them see it.                         *)
AnswersStep == \A q \in Requests : Told(q)

LEMMA EachStep ==
  ASSUME IInv, Accounts, \A q \in Requests : Asks(q), NEW r \in Requests,
         StepOf(r), LedgerStep(r)
  PROVE  Accounts' /\ (\A q \in Requests : Asks(q)') /\ AnswersStep
<1>1. ASSUME NEW q \in Requests, q # r PROVE Asks(q)' /\ Told(q)
  <2>1. Same(q) \/ Hit(q)
    BY <1>1 DEF StepOf, Moves
  <2>2. Asks(q)'
    BY <1>1, <2>1, OtherAsks DEF IInv, LedgerStep, Kept
  <2>3. Running(q) => req'[q].at # "done"
    <3>1. CASE Same(q)
      BY <3>1 DEF Same, Running
    <3>2. CASE Hit(q)
      BY <3>2 DEF IInv, Ready, Hit, Running, Fields
    <3>3. QED
      BY <2>1, <3>1, <3>2
  <2>4. QED
    BY <2>2, <2>3 DEF Told
<1>2. QED
  BY <1>1 DEF LedgerStep, AnswersStep

LEMMA InitAccounts == Init => Accounts /\ \A r \in Requests : Asks(r)
<1> SUFFICES ASSUME Init PROVE Accounts /\ \A r \in Requests : Asks(r)
  OBVIOUS
<1>1. /\ req = [r \in Requests |-> Idle]
      /\ customers = [c \in CustomerIds |-> AbsentCustomer]
      /\ adjustments = [r \in Requests |-> None] /\ currency \in Currencies
  BY DEF Init, InitRequests, InitCustomers
<1>2. \A r \in Requests : Asks(r)
  BY <1>1 DEF Asks, Running, At, Idle
<1>3. Rows = {} /\ \A c : Ledger(c) = {}
  BY <1>1 DEF Rows, Ledger
<1>4. AbsentCustomer \in CustomerDoc
  BY DEF AbsentCustomer, CustomerDoc
<1>5. BalanceIsLedger
  BY <1>1, <1>3, TotalEmpty DEF BalanceIsLedger, AbsentCustomer
<1>6. \A c \in CustomerIds : ~Is(c)
  BY <1>1 DEF Is, AbsentCustomer
<1>7. Accounts
  BY <1>1, <1>3, <1>4, <1>5, <1>6 DEF Accounts
<1>8. QED
  BY <1>2, <1>7

Books == IInv /\ Accounts /\ \A r \in Requests : Asks(r)

LEMMA StepAccounts ==
  Books /\ [Next]_vars => Accounts' /\ (\A r \in Requests : Asks(r)') /\ AnswersStep
<1> SUFFICES ASSUME Books, [Next]_vars
             PROVE  Accounts' /\ (\A r \in Requests : Asks(r)') /\ AnswersStep
  OBVIOUS
<1>1. IInv /\ Accounts /\ \A r \in Requests : Asks(r)
  BY DEF Books
<1>2. CASE UNCHANGED <<currency, customers, adjustments, req>>
  <2>1. UNCHANGED <<Rows, AmountOf>> /\ \A c : UNCHANGED Ledger(c)
    BY <1>2 DEF Rows, AmountOf, Ledger
  <2>2. BalanceIsLedger'
    BY <1>1, <1>2, <2>1 DEF Accounts, BalanceIsLedger
  <2>3. Accounts'
    BY <1>1, <1>2, <2>1, <2>2 DEF Accounts, Is
  <2>4. \A r \in Requests : Asks(r)'
    BY <1>1, <1>2 DEF Asks, MaySee, Running, At, Body, Is
  <2>5. AnswersStep
    BY <1>2 DEF AnswersStep, Told, Running
  <2>6. QED
    BY <2>3, <2>4, <2>5
<1>3. ASSUME NEW r \in Requests,
             \/ CustomerStep(r)
             \/ CatalogStep(r) /\ UNCHANGED customerVars
             \/ Stop(r) /\ UNCHANGED customerVars
      PROVE  Accounts' /\ (\A q \in Requests : Asks(q)') /\ AnswersStep
  BY <1>1, <1>3, RequestLedger, EachStep
<1>4. CASE BuildIndex
  BY <1>2, <1>4 DEF BuildIndex
<1>5. CASE UNCHANGED vars
  BY <1>2, <1>5 DEF vars, customerVars
<1>6. QED
  BY <1>3, <1>4, <1>5 DEF Next

THEOREM BooksAreKept == Spec => []Books
<1>1. Init => Books
  BY InitIInv, InitAccounts DEF Books
<1>2. Books /\ [Next]_vars => Books'
  BY StepIInv, StepAccounts DEF Books
<1>3. QED
  BY <1>1, <1>2, PTL DEF Spec

(* A balance is what the rows of its ledger add up to, all of them in the  *)
(* customer's own currency: adjustCustomerBalance writes a row and the     *)
(* balance in one transaction, and no other write touches either.          *)
THEOREM BalancesAddUp == Spec => []BalanceIsLedger
<1>1. Books => BalanceIsLedger
  BY DEF Books, Accounts
<1>2. QED
  BY <1>1, BooksAreKept, PTL

(* The balances and the ledger agree, and a wish of its sender is in the    *)
(* ledger once.                                                             *)
THEOREM LedgerIsKept == Spec => []LedgerHolds
<1>1. BalanceIsLedger /\ AdjustedOnce => LedgerHolds
  BY DEF LedgerHolds
<1>2. QED
  BY <1>1, BalancesAddUp, KeyAdjustsOnce, PTL

(* Who may be shown a balance.                                             *)
LEMMA ShownMaySee ==
  ASSUME Books, NEW r \in Requests, Running(r), Shows(r)
  PROVE  Permits(req[r].by, "balances:read")
  BY DEF Books, Asks, MaySee, Shows

(* An adjustment is answered as done to those alone whose own words a row  *)
(* has, and a balance is shown to those alone who may read balances.       *)
THEOREM AnswersAreTrue == Spec => AnswersTrue
<1>1. Books /\ [Next]_vars =>
        [\A r \in Requests :
            /\ Running(r) /\ req[r].op = "adjustBalance"
            /\ req'[r].at = "done" /\ req'[r].answer = "ok"
            => \E s \in Requests :
                /\ adjustments'[s] # None
                /\ adjustments'[s].key = Body(r).key
                /\ adjustments'[s].customer = Body(r).customer
                /\ adjustments'[s].amount = Body(r).amount
                /\ Body(r).key = None => s = r]_<<adjustments, req>>
  BY StepAccounts DEF AnswersStep, Told, Own
<1>2. Books /\ [Next]_vars =>
        [\A r \in Requests :
            /\ Running(r) /\ req'[r].at = "done" /\ req'[r].shown
            => Permits(req[r].by, "balances:read")]_req
  BY StepAccounts, ShownMaySee DEF AnswersStep, Told
<1>3. Spec => AnsweredWithOwn
  BY <1>1, BooksAreKept, PTL DEF Spec, AnsweredWithOwn
<1>4. Spec => BalancesShown
  BY <1>2, BooksAreKept, PTL DEF Spec, BalancesShown
<1>5. QED
  BY <1>3, <1>4 DEF AnswersTrue

-----------------------------------------------------------------------------
(* The documents of the catalog, and what a request that works on them has *)
(* found: unless it is raced, what it has checked is still so, and what it *)
(* has read is what is stored.                                             *)
EntryDoc == [id : EntryIds, provider : ProviderIds, priority : Nat]
ProviderDoc == [status : {"none", "present", "deleted"}, active : BOOLEAN, raced : BOOLEAN]
ModelDoc == [status : {"none", "present", "deleted"}, alias : Aliases \cup {NoId},
             active : BOOLEAN, entries : Seq(EntryDoc), repeated : BOOLEAN, raced : BOOLEAN]
ProviderModelDoc == [provider : ProviderIds, upstream : Upstreams, raced : BOOLEAN]

Ascends(s) == \A i, j \in DOMAIN s : i <= j => s[i].priority <= s[j].priority

CatalogTyped ==
    /\ providers \in [ProviderIds -> ProviderDoc]
    /\ models \in [ModelIds -> ModelDoc]
    /\ modelCatalog \subseteq ProviderModelDoc

RepeatsNoted == \A m \in ModelIds : Repeats(models[m].entries) => models[m].repeated
InOrder == \A m \in ModelIds : Ascends(models[m].entries)

References ==
    /\ CatalogTyped /\ RepeatsNoted /\ InOrder
    /\ EntriesResolve /\ CatalogOwned /\ DistinctEntriesRemain

CatalogWork == DOMAIN CatalogRoutes
EntryWork == {"updateModel", "reorderFallbacks", "addModelEntry", "removeModelEntry"}

NoRows(p) == \A row \in modelCatalog : row.provider # p

HasRead(r) ==
    LET m == Input(r).model IN
    /\ "existing" \in DOMAIN req[r] /\ models[m].status # "none"
    /\ req[r].existing \in Seq(EntryDoc) /\ req[r].existing # <<>> /\ Ascends(req[r].existing)
    /\ Repeats(req[r].existing) => models[m].repeated
    /\ req[r].raced \/ req[r].existing = models[m].entries

HasChecked(r) ==
    /\ req[r].op = "updateModel" /\ Input(r).patch = "entries"
         => req[r].raced \/ ProvidersExist(Input(r).to)
    /\ req[r].op = "addModelEntry"
         => req[r].raced \/ ProvidersExist(Input(r).entries)
    /\ req[r].op = "removeModelEntry" => MayRemove(r)

Works(r) ==
    /\ Running(r) /\ req[r].op \in CatalogWork => Input(r) \in CatalogBodies[req[r].op]
    /\ At(r, "createModel", "insert") => req[r].raced \/ ProvidersExist(Input(r).entries)
    /\ At(r, "deleteProvider", "rows") => req[r].raced \/ ModelRefs(Input(r).provider) = {}
    /\ At(r, "deleteProvider", "delete")
         => req[r].raced \/ (ModelRefs(Input(r).provider) = {} /\ NoRows(Input(r).provider))
    /\ At(r, "discoverModels", "upstream") => req[r].raced \/ There(Input(r).provider)
    /\ Running(r) /\ req[r].op \in EntryWork /\ req[r].at # "start"
         => req[r].at \in {"check", "write"} /\ HasRead(r)
    /\ Running(r) /\ req[r].op \in EntryWork /\ req[r].at = "write" => HasChecked(r)
    /\ req[r].at \in {"check", "write"} => req[r].op \in EntryWork

(* What the other documents need to have the types of their schemas.       *)
Wares ==
    /\ posted \in BOOLEAN
    /\ \A k \in Issued : apiKeys[k].prefix \in KeyPrefixes
    /\ \A p \in PlanIds : /\ {"status", "currency"} \subseteq DOMAIN plans[p]
                          /\ plans[p].status # "none" => plans[p].currency \in Currencies

Drafts(r) ==
    /\ Running(r) /\ req[r].op = "updatePlan" => Body(r) \in PlanUpdateInput
    /\ At(r, "createPlan", "insert") => "currency" \in DOMAIN req[r] /\ req[r].currency \in Currencies
    /\ At(r, "updatePlan", "update") => plans[Body(r).plan].status # "none"

-----------------------------------------------------------------------------
(* Lists of entries. Sorting is by place: how many entries come before one,*)
(* itself among them.                                                      *)
Place(s, n) == Cardinality({m \in DOMAIN s : Before(s, m, n)})

LEMMA EntryDocs ==
  ASSUME NEW s \in Seq(EntryDoc)
  PROVE  /\ DOMAIN s = 1 .. Len(s) /\ Len(s) \in Nat /\ IsFiniteSet(DOMAIN s)
         /\ Cardinality(DOMAIN s) = Len(s)
         /\ \A n \in DOMAIN s : s[n] \in EntryDoc /\ s[n].priority \in Nat
<1>1. /\ DOMAIN s = 1 .. Len(s) /\ Len(s) \in Nat
      /\ \A n \in DOMAIN s : s[n] \in EntryDoc
  BY LenProperties, ElementOfSeq
<1>2. IsFiniteSet(1 .. Len(s)) /\ Cardinality(1 .. Len(s)) = Len(s)
  BY <1>1, FS_Interval
<1>3. QED
  BY <1>1, <1>2 DEF EntryDoc

LEMMA PlacesCount ==
  ASSUME NEW s \in Seq(EntryDoc), NEW n \in DOMAIN s
  PROVE  Place(s, n) \in 1 .. Len(s)
<1> DEFINE L == {m \in DOMAIN s : Before(s, m, n)}
<1>1. n \in DOMAIN s /\ n \in Nat /\ s[n].priority \in Nat
  BY EntryDocs
<1>2. L \in SUBSET DOMAIN s /\ n \in L
  BY <1>1 DEF Before
<1> HIDE DEF L
<1>3. IsFiniteSet(L) /\ Cardinality(L) <= Len(s)
  BY <1>2, EntryDocs, FS_Subset
<1>4. Cardinality(L) # 0
  BY <1>2, <1>3, FS_EmptySet
<1>5. Cardinality(L) \in Nat /\ Len(s) \in Nat
  BY <1>3, FS_CardinalityType, EntryDocs
<1>6. QED
  BY <1>3, <1>4, <1>5 DEF Place, L

LEMMA PlacesOrder ==
  ASSUME NEW s \in Seq(EntryDoc), NEW m \in DOMAIN s, NEW n \in DOMAIN s,
         m # n, Before(s, m, n)
  PROVE  Place(s, m) < Place(s, n)
<1> DEFINE L(k) == {i \in DOMAIN s : Before(s, i, k)}
<1>1. \A i \in DOMAIN s : i \in Nat /\ s[i].priority \in Nat
  BY EntryDocs
<1>2. L(m) \cup {n} \in SUBSET L(n) /\ n \notin L(m)
  <2>1. \A i \in DOMAIN s : Before(s, i, m) => Before(s, i, n)
    BY <1>1 DEF Before
  <2>2. Before(s, n, n) /\ ~Before(s, n, m)
    BY <1>1 DEF Before
  <2>3. QED
    BY <2>1, <2>2
<1>3. L(m) \in SUBSET DOMAIN s /\ L(n) \in SUBSET DOMAIN s
  OBVIOUS
<1> HIDE DEF L
<1>4. IsFiniteSet(L(m)) /\ IsFiniteSet(L(n))
  BY <1>3, EntryDocs, FS_Subset
<1>5. Cardinality(L(m) \cup {n}) = Cardinality(L(m)) + 1
  BY <1>2, <1>4, FS_AddElement
<1>6. Cardinality(L(m)) + 1 <= Cardinality(L(n))
  BY <1>2, <1>4, <1>5, FS_Subset
<1>7. Cardinality(L(m)) \in Nat /\ Cardinality(L(n)) \in Nat
  BY <1>4, FS_CardinalityType
<1>8. QED
  BY <1>6, <1>7 DEF Place, L

LEMMA PlacesDiffer ==
  ASSUME NEW s \in Seq(EntryDoc), NEW m \in DOMAIN s, NEW n \in DOMAIN s, m # n
  PROVE  Place(s, m) # Place(s, n)
<1>1. \A i \in DOMAIN s : i \in Nat /\ s[i].priority \in Nat
  BY EntryDocs
<1>2. Before(s, m, n) \/ Before(s, n, m)
  BY <1>1 DEF Before
<1>3. Place(s, m) < Place(s, n) \/ Place(s, n) < Place(s, m)
  BY <1>2, PlacesOrder
<1>4. Place(s, m) \in Nat /\ Place(s, n) \in Nat
  BY PlacesCount, EntryDocs
<1>5. QED
  BY <1>3, <1>4

LEMMA PlacesCover ==
  ASSUME NEW s \in Seq(EntryDoc)
  PROVE  \A k \in DOMAIN s : \E n \in DOMAIN s : Place(s, n) = k
<1> DEFINE D == DOMAIN s
           place == [n \in D |-> Place(s, n)]
<1>1. place \in [D -> D]
  BY PlacesCount, EntryDocs
<1>2. \A m, n \in D : place[m] = place[n] => m = n
  BY PlacesDiffer
<1>3. place \in Injection(D, D)
  BY <1>1, <1>2 DEF Injection, IsInjective
<1>4. IsFiniteSet(D)
  BY EntryDocs
<1>5. place \in Surjection(D, D)
  BY <1>3, <1>4, FS_Injection
<1>6. \A k \in D : \E n \in D : place[n] = k
  BY <1>5 DEF Surjection
<1>7. QED
  BY <1>6

(* What SortEntries leaves is every entry and nothing else, in order.      *)
LEMMA Sorted ==
  ASSUME NEW s \in Seq(EntryDoc)
  PROVE  /\ SortEntries(s) \in Seq(EntryDoc) /\ Len(SortEntries(s)) = Len(s)
         /\ DOMAIN SortEntries(s) = DOMAIN s
         /\ \A k \in DOMAIN s : \E n \in DOMAIN s : SortEntries(s)[k] = s[n]
         /\ \A n \in DOMAIN s : \E k \in DOMAIN s : SortEntries(s)[k] = s[n]
         /\ Ascends(SortEntries(s))
<1> DEFINE D == DOMAIN s
           sorted == SortEntries(s)
           At_(k) == CHOOSE n \in D : Place(s, n) = k
<1>1. D = 1 .. Len(s) /\ Len(s) \in Nat /\ \A n \in D : s[n] \in EntryDoc /\ s[n].priority \in Nat
  BY EntryDocs
<1>2. \A k \in D : At_(k) \in D /\ Place(s, At_(k)) = k
  BY PlacesCover
<1>3. sorted = [k \in D |-> s[At_(k)]]
  BY DEF SortEntries, Place
<1> HIDE DEF At_, sorted
<1>4. sorted \in [1 .. Len(s) -> EntryDoc]
  BY <1>1, <1>2, <1>3
<1>5. sorted \in Seq(EntryDoc) /\ Len(sorted) = Len(s)
  BY <1>1, <1>4, IsASeq, LenProperties
<1>6. DOMAIN sorted = D /\ \A k \in D : sorted[k] = s[At_(k)]
  BY <1>3
<1>7. \A n \in D : \E k \in D : sorted[k] = s[n]
  <2> SUFFICES ASSUME NEW n \in D PROVE \E k \in D : sorted[k] = s[n]
    OBVIOUS
  <2>1. Place(s, n) \in D
    BY <1>1, PlacesCount
  <2>2. At_(Place(s, n)) = n
    BY <1>2, <2>1, PlacesDiffer
  <2>3. QED
    BY <1>6, <2>1, <2>2
<1>8. Ascends(sorted)
  <2> SUFFICES ASSUME NEW k \in D, NEW l \in D, k <= l
               PROVE  sorted[k].priority <= sorted[l].priority
    BY <1>6 DEF Ascends
  <2>1. PICK m \in D, n \in D : m = At_(k) /\ n = At_(l)
    BY <1>2
  <2>2. Place(s, m) = k /\ Place(s, n) = l
    BY <1>2, <2>1
  <2>3. k \in Nat /\ l \in Nat /\ m \in Nat /\ n \in Nat
    BY <1>1
  <2>4. ~(Before(s, n, m) /\ n # m)
    BY <2>2, <2>3, PlacesOrder
  <2>5. s[m].priority <= s[n].priority
    BY <1>1, <2>3, <2>4 DEF Before
  <2>6. QED
    BY <1>6, <2>1, <2>5
<1>9. QED
  BY <1>2, <1>5, <1>6, <1>7, <1>8 DEF sorted

(* A list that another one is sorted into names what that one names.       *)
LEMMA SortedNames ==
  ASSUME NEW s \in Seq(EntryDoc)
  PROVE  /\ Named(SortEntries(s)) = Named(s) /\ (s # <<>> => SortEntries(s) # <<>>)
<1> DEFINE t == SortEntries(s)
<1>1. /\ DOMAIN t = DOMAIN s
      /\ \A k \in DOMAIN s : \E n \in DOMAIN s : t[k] = s[n]
      /\ \A n \in DOMAIN s : \E k \in DOMAIN s : t[k] = s[n]
  BY Sorted
<1> HIDE DEF t
<1>2. ASSUME NEW k \in DOMAIN s PROVE t[k].provider \in Named(s)
  <2>1. PICK n \in DOMAIN s : t[k] = s[n]
    BY <1>1
  <2>2. QED
    BY <2>1 DEF Named
<1>3. ASSUME NEW n \in DOMAIN s PROVE s[n].provider \in Named(t)
  <2>1. PICK k \in DOMAIN s : t[k] = s[n]
    BY <1>1
  <2>2. t[k].provider \in Named(t)
    BY <1>1 DEF Named
  <2>3. QED
    BY <2>1, <2>2
<1>4. Named(t) = {t[k].provider : k \in DOMAIN s} /\ Named(s) = {s[n].provider : n \in DOMAIN s}
  BY <1>1 DEF Named
<1>5. Named(t) \subseteq Named(s)
  BY <1>2, <1>4
<1>6. Named(s) \subseteq Named(t)
  BY <1>3, <1>4
<1>7. Named(SortEntries(s)) = Named(s)
  BY <1>5, <1>6 DEF t
<1>8. s # <<>> => SortEntries(s) # <<>>
  BY Sorted, EmptySeq, LenProperties
<1>9. QED
  BY <1>7, <1>8

LEMMA Inputs ==
  ASSUME NEW input \in EntryInputs
  PROVE  /\ DOMAIN input = 1 .. Len(input) /\ Len(input) \in Nat /\ input # <<>>
         /\ \A n \in DOMAIN input : /\ input[n].id \in EntryIds \cup {NoId}
                                    /\ input[n].provider \in ProviderIds
                                    /\ input[n].priority \in Nat \cup {NoPriority}
<1>1. input \in Seq(EntryInput) /\ input # <<>>
  BY CatalogAssumption
<1>2. /\ DOMAIN input = 1 .. Len(input) /\ Len(input) \in Nat
      /\ \A n \in DOMAIN input : input[n] \in EntryInput
  BY <1>1, LenProperties, ElementOfSeq
<1>3. \A e \in EntryInput : /\ e.id \in EntryIds \cup {NoId} /\ e.provider \in ProviderIds
                            /\ e.priority \in Nat \cup {NoPriority}
  BY CatalogAssumption DEF EntryInput
<1>4. QED
  BY <1>1, <1>2, <1>3

LEMMA Normalized ==
  ASSUME NEW input \in EntryInputs, NEW from \in Nat, Draws(input) # {}
  PROVE  /\ NormalizeEntries(input, from) \in Seq(EntryDoc)
         /\ NormalizeEntries(input, from) # <<>>
         /\ Ascends(NormalizeEntries(input, from))
         /\ Named(NormalizeEntries(input, from)) = Named(input)
<1> DEFINE drawn == CHOOSE draw \in Draws(input) : TRUE
           entry(n) == [id |-> IF input[n].id = NoId THEN drawn[n] ELSE input[n].id,
                        provider |-> input[n].provider,
                        priority |-> IF input[n].priority = NoPriority THEN from + n - 1
                                     ELSE input[n].priority]
           list == [n \in DOMAIN input |-> entry(n)]
<1>1. drawn \in Draws(input)
  OBVIOUS
<1>2. \A n \in DOMAIN input : drawn[n] \in EntryIds
  BY <1>1 DEF Draws
<1> HIDE DEF drawn
<1>3. /\ DOMAIN input = 1 .. Len(input) /\ Len(input) \in Nat /\ input # <<>>
      /\ \A n \in DOMAIN input : /\ input[n].id \in EntryIds \cup {NoId}
                                 /\ input[n].provider \in ProviderIds
                                 /\ input[n].priority \in Nat \cup {NoPriority}
  BY Inputs
<1>4. \A n \in DOMAIN input : from + n - 1 \in Nat
  BY <1>3
<1>5. \A n \in DOMAIN input : entry(n) \in EntryDoc /\ entry(n).provider = input[n].provider
  BY <1>2, <1>3, <1>4 DEF EntryDoc
<1>6. NormalizeEntries(input, from) = SortEntries(list)
  BY DEF NormalizeEntries, drawn
<1> HIDE DEF entry
<1>7. list \in [1 .. Len(input) -> EntryDoc]
  BY <1>3, <1>5
<1>8. list \in Seq(EntryDoc) /\ Len(list) = Len(input)
  BY <1>3, <1>7, IsASeq, LenProperties
<1>9. Named(list) = Named(input)
  BY <1>5 DEF Named
<1>10. list # <<>>
  <2>1. Len(input) # 0
    BY <1>3, Inputs, EmptySeq
  <2>2. QED
    BY <1>8, <2>1
<1> HIDE DEF list
<1>11. QED
  BY <1>6, <1>8, <1>9, <1>10, Sorted, SortedNames

LEMMA NextIsNatural ==
  ASSUME NEW s \in Seq(EntryDoc), Ascends(s) PROVE NextPriority(s) \in Nat
<1>1. CASE s = <<>>
  BY <1>1 DEF NextPriority
<1>2. CASE s # <<>>
  <2> DEFINE K == {s[n].priority : n \in DOMAIN s}
             last == s[Len(s)].priority
  <2>1. /\ DOMAIN s = 1 .. Len(s) /\ Len(s) \in Nat /\ Len(s) # 0
        /\ \A n \in DOMAIN s : s[n].priority \in Nat
    BY <1>2, EntryDocs, EmptySeq
  <2>2. Len(s) \in DOMAIN s /\ \A n \in DOMAIN s : n <= Len(s)
    BY <2>1
  <2>3. last \in K /\ \A n \in DOMAIN s : s[n].priority <= last
    BY <2>2 DEF Ascends
  <2>4. K \subseteq Nat
    BY <2>1
  <2> HIDE DEF last, K
  <2>5. PICK k \in K : k = CHOOSE l \in K : \A n \in DOMAIN s : s[n].priority <= l
    BY <2>3
  <2>6. NextPriority(s) = 1 + k
    BY <1>2, <2>5 DEF NextPriority, K
  <2>7. k \in Nat
    BY <2>4
  <2>8. QED
    BY <2>6, <2>7
<1>3. QED
  BY <1>1, <1>2

(* What the operations make of the list that they have read.               *)
Listed(s, t) == s \in Seq(EntryDoc) /\ Ascends(s) /\ Named(s) \subseteq t

LEMMA ReorderedList ==
  ASSUME NEW r \in Requests, HasRead(r), Input(r) \in FallbackReorderInput
  PROVE  Listed(Reordered(r), Named(req[r].existing)) /\ Reordered(r) # <<>>
<1> DEFINE s == req[r].existing
           to == Input(r).to
           entry(n) == IF s[n].id \in DOMAIN to
                       THEN [s[n] EXCEPT !.priority = to[s[n].id]] ELSE s[n]
           list == [n \in DOMAIN s |-> entry(n)]
<1>1. s \in Seq(EntryDoc) /\ s # <<>>
  BY DEF HasRead
<1>2. \A i \in DOMAIN to : to[i] \in Nat
  <2>1. to \in Reorders
    BY DEF FallbackReorderInput
  <2>2. to \in [DOMAIN to -> Priorities] /\ Priorities \subseteq Nat
    BY <2>1, CatalogAssumption
  <2> HIDE DEF to
  <2>3. QED
    BY <2>2
<1>3. DOMAIN s = 1 .. Len(s) /\ Len(s) \in Nat /\ \A n \in DOMAIN s : s[n] \in EntryDoc
  BY <1>1, EntryDocs
<1>4. Reordered(r) = SortEntries(list)
  BY DEF Reordered
<1> HIDE DEF s, to
<1>5. \A n \in DOMAIN s : entry(n) \in EntryDoc /\ entry(n).provider = s[n].provider
  BY <1>2, <1>3 DEF EntryDoc
<1> HIDE DEF entry
<1>6. list \in [1 .. Len(s) -> EntryDoc]
  BY <1>3, <1>5
<1>7. list \in Seq(EntryDoc) /\ Len(list) = Len(s)
  BY <1>3, <1>6, IsASeq, LenProperties
<1>8. Named(list) = Named(s)
  BY <1>5 DEF Named
<1>9. list # <<>>
  <2>1. Len(s) # 0
    BY <1>1, EmptySeq
  <2>2. QED
    BY <1>7, <2>1
<1> HIDE DEF list
<1>10. QED
  BY <1>4, <1>7, <1>8, <1>9, Sorted, SortedNames DEF Listed, s

LEMMA WithEntryList ==
  ASSUME NEW r \in Requests, HasRead(r), Input(r).entries \in EntryInputs,
         Draws(Input(r).entries) # {}
  PROVE  /\ Listed(WithEntry(r), Named(req[r].existing) \cup Named(Input(r).entries))
         /\ WithEntry(r) # <<>>
<1> DEFINE s == req[r].existing
           t == NormalizeEntries(Input(r).entries, NextPriority(s))
           list == s \o t
<1>1. s \in Seq(EntryDoc) /\ Ascends(s)
  BY DEF HasRead
<1>2. t \in Seq(EntryDoc) /\ t # <<>> /\ Named(t) = Named(Input(r).entries)
  BY <1>1, NextIsNatural, Normalized
<1>3. WithEntry(r) = SortEntries(list)
  BY DEF WithEntry
<1> HIDE DEF s, t
<1>4. list \in Seq(EntryDoc) /\ Len(list) = Len(s) + Len(t)
  BY <1>1, <1>2, ConcatProperties
<1>5. \A n \in 1 .. Len(s) + Len(t) :
        list[n] = IF n <= Len(s) THEN s[n] ELSE t[n - Len(s)]
  BY <1>1, <1>2, ConcatProperties
<1>6. /\ DOMAIN s = 1 .. Len(s) /\ DOMAIN t = 1 .. Len(t) /\ DOMAIN list = 1 .. Len(list)
      /\ Len(s) \in Nat /\ Len(t) \in Nat /\ Len(t) # 0
  BY <1>1, <1>2, <1>4, EntryDocs, EmptySeq
<1>7. list # <<>>
  BY <1>4, <1>6
<1> HIDE DEF list
<1>8. \A n \in DOMAIN list : (\E k \in DOMAIN s : list[n] = s[k])
                          \/ (\E k \in DOMAIN t : list[n] = t[k])
  <2> TAKE n \in DOMAIN list
  <2>1. CASE n <= Len(s)
    BY <1>4, <1>5, <1>6, <2>1
  <2>2. CASE ~(n <= Len(s))
    <3>1. n - Len(s) \in 1 .. Len(t) /\ list[n] = t[n - Len(s)]
      BY <1>4, <1>5, <1>6, <2>2
    <3>2. QED
      BY <1>6, <3>1
  <2>3. QED
    BY <2>1, <2>2
<1>9. Named(list) \subseteq Named(s) \cup Named(t)
  BY <1>8 DEF Named
<1>10. QED
  BY <1>2, <1>3, <1>4, <1>7, <1>9, Sorted, SortedNames DEF Listed, s

(* Of several entries that do not share their id, not all are taken out.   *)
LEMMA WithoutEntryList ==
  ASSUME NEW r \in Requests, HasRead(r), MayRemove(r)
  PROVE  /\ Listed(WithoutEntry(r), Named(req[r].existing))
         /\ WithoutEntry(r) # <<>> \/ Repeats(req[r].existing)
<1> DEFINE s == req[r].existing
           S == {n \in DOMAIN s : s[n].id # Input(r).id}
           kept == AtPlaces(s, S)
<1>1. s \in Seq(EntryDoc) /\ Ascends(s) /\ Len(s) > 1
  BY DEF HasRead, MayRemove
<1>2. WithoutEntry(r) = kept
  BY DEF WithoutEntry
<1> HIDE DEF s
<1>3. S \in SUBSET DOMAIN s
  OBVIOUS
<1>4. /\ kept \in Seq(EntryDoc)
      /\ \A k \in DOMAIN kept : \E n \in S : kept[k] = s[n]
      /\ \A n \in S : \E k \in DOMAIN kept : kept[k] = s[n]
      /\ \A k, l \in DOMAIN kept : k <= l =>
            \E m, n \in S : m <= n /\ kept[k] = s[m] /\ kept[l] = s[n]
  <2> HIDE DEF S
  <2>1. QED
    BY <1>1, <1>3, AtPlacesKeeps
<1>5. ASSUME kept = <<>> PROVE Repeats(s)
  <2>1. S = {}
    <3>1. DOMAIN kept = {}
      BY <1>5
    <3> HIDE DEF S, kept
    <3>2. QED
      BY <1>4, <3>1
  <2>2. \A n \in DOMAIN s : s[n].id = Input(r).id
    BY <2>1
  <2>3. 1 \in DOMAIN s /\ Len(s) \in Nat
    BY <1>1, EntryDocs
  <2>4. Ids(s) = {Input(r).id}
    BY <2>2, <2>3 DEF Ids
  <2>5. Cardinality(Ids(s)) = 1
    BY <2>4, FS_Singleton
  <2>6. QED
    BY <1>1, <2>3, <2>5 DEF Repeats
<1> HIDE DEF kept, S
<1>6. Ascends(kept)
  <2> SUFFICES ASSUME NEW k \in DOMAIN kept, NEW l \in DOMAIN kept, k <= l
               PROVE  kept[k].priority <= kept[l].priority
    BY DEF Ascends
  <2>1. PICK m \in S, n \in S : m <= n /\ kept[k] = s[m] /\ kept[l] = s[n]
    BY <1>4
  <2>2. QED
    BY <1>1, <1>3, <2>1 DEF Ascends
<1>7. Named(kept) \subseteq Named(s)
  BY <1>3, <1>4 DEF Named
<1>8. QED
  BY <1>2, <1>4, <1>5, <1>6, <1>7 DEF Listed, s

-----------------------------------------------------------------------------
(* What the bodies hold.                                                   *)
LEMMA CatalogOps ==
  CatalogWork = {"createProvider", "updateProvider", "deleteProvider", "discoverModels",
                 "createModel", "updateModel", "deleteModel", "reorderFallbacks",
                 "addModelEntry", "removeModelEntry", "listModels"}
  BY DEF CatalogWork, CatalogRoutes, ProviderRoutes, ModelWrites, ModelReads

LEMMA CatalogInputs ==
  /\ CatalogBodies["updateProvider"] = [provider : ProviderIds, active : BOOLEAN]
  /\ CatalogBodies["deleteProvider"] = [provider : ProviderIds]
  /\ CatalogBodies["discoverModels"] = [provider : ProviderIds]
  /\ CatalogBodies["createModel"] = [alias : Aliases, entries : EntryInputs]
  /\ CatalogBodies["updateModel"] = ModelUpdateInput
  /\ CatalogBodies["deleteModel"] = [model : ModelIds]
  /\ CatalogBodies["reorderFallbacks"] = FallbackReorderInput
  /\ CatalogBodies["addModelEntry"] = [model : ModelIds, entries : EntryInputs]
  /\ CatalogBodies["removeModelEntry"] = [model : ModelIds, id : EntryIds]
<1> DEFINE bodies(op) ==
        CASE op \in {"createProvider", "listModels"} -> {NoId}
          [] op = "updateProvider" -> [provider : ProviderIds, active : BOOLEAN]
          [] op \in {"deleteProvider", "discoverModels"} -> [provider : ProviderIds]
          [] op = "createModel" -> [alias : Aliases, entries : EntryInputs]
          [] op = "updateModel" -> ModelUpdateInput
          [] op = "deleteModel" -> [model : ModelIds]
          [] op = "reorderFallbacks" -> FallbackReorderInput
          [] op = "addModelEntry" -> [model : ModelIds, entries : EntryInputs]
          [] op = "removeModelEntry" -> [model : ModelIds, id : EntryIds]
<1>1. CatalogBodies = [op \in CatalogWork |-> bodies(op)]
  BY DEF CatalogBodies, CatalogWork
<1>2. \A op \in CatalogWork : CatalogBodies[op] = bodies(op)
  <2> HIDE DEF bodies
  <2>1. QED
    BY <1>1
<1>3. /\ bodies("updateProvider") = [provider : ProviderIds, active : BOOLEAN]
      /\ bodies("deleteProvider") = [provider : ProviderIds]
      /\ bodies("discoverModels") = [provider : ProviderIds]
      /\ bodies("createModel") = [alias : Aliases, entries : EntryInputs]
      /\ bodies("updateModel") = ModelUpdateInput
  OBVIOUS
<1>4. /\ bodies("deleteModel") = [model : ModelIds]
      /\ bodies("reorderFallbacks") = FallbackReorderInput
      /\ bodies("addModelEntry") = [model : ModelIds, entries : EntryInputs]
      /\ bodies("removeModelEntry") = [model : ModelIds, id : EntryIds]
  OBVIOUS
<1> HIDE DEF bodies
<1>5. QED
  BY <1>2, <1>3, <1>4, CatalogOps

Asked(r, op) == Running(r) /\ req[r].op = op

LEMMA Given ==
  ASSUME NEW r \in Requests, Works(r)
  PROVE  /\ Asked(r, "updateProvider") => Input(r) \in [provider : ProviderIds, active : BOOLEAN]
         /\ Asked(r, "deleteProvider") => Input(r) \in [provider : ProviderIds]
         /\ Asked(r, "discoverModels") => Input(r) \in [provider : ProviderIds]
         /\ Asked(r, "createModel") => Input(r) \in [alias : Aliases, entries : EntryInputs]
         /\ Asked(r, "updateModel") => Input(r) \in ModelUpdateInput
         /\ Asked(r, "deleteModel") => Input(r) \in [model : ModelIds]
         /\ Asked(r, "reorderFallbacks") => Input(r) \in FallbackReorderInput
         /\ Asked(r, "addModelEntry") => Input(r) \in [model : ModelIds, entries : EntryInputs]
         /\ Asked(r, "removeModelEntry") => Input(r) \in [model : ModelIds, id : EntryIds]
<1>1. Running(r) /\ req[r].op \in CatalogWork => Input(r) \in CatalogBodies[req[r].op]
  BY DEF Works
<1>2. QED
  BY <1>1, CatalogOps, CatalogInputs DEF Asked

LEMMA EntryModels ==
  ASSUME NEW r \in Requests, Works(r), Running(r), req[r].op \in EntryWork
  PROVE  Input(r).model \in ModelIds
<1>1. \A b \in ModelUpdateInput \cup FallbackReorderInput : b.model \in ModelIds
  BY DEF ModelUpdateInput, FallbackReorderInput
<1>2. CASE req[r].op \in {"updateModel", "reorderFallbacks"}
  BY <1>1, <1>2, Given DEF Asked
<1>3. CASE req[r].op \in {"addModelEntry", "removeModelEntry"}
  BY <1>3, Given DEF Asked
<1>4. QED
  BY <1>2, <1>3 DEF EntryWork

-----------------------------------------------------------------------------
(* What the step of a request does to those of others.                     *)
CatalogMark(r) ==
    UNCHANGED catalogVars \/ \A q \in Requests \ {r} : Running(q) => Hit(q)

Remembered ==
    \A m \in ModelIds : models[m].status # "none" =>
        models'[m].status # "none" /\ (models[m].repeated => models'[m].repeated)

Linked(r) == Works(r)' /\ References' /\ CatalogMark(r) /\ Remembered

LEMMA OtherWorks ==
  ASSUME NEW q \in Requests, Works(q), Ready(q), Same(q) \/ Hit(q), Remembered,
         UNCHANGED catalogVars \/ (Running(q) => Hit(q))
  PROVE  Works(q)'
<1>1. CASE ~Running(q)
  <2>1. req'[q] = req[q]
    BY <1>1 DEF Same, Hit
  <2>2. QED
    BY <1>1, <2>1 DEF Works, Running, At
<1>2. CASE Same(q) /\ UNCHANGED catalogVars
  BY <1>2 DEF Same, catalogVars, Works, Running, At, Input, HasRead, HasChecked, ProvidersExist,
     There, ModelRefs, Stored, NoRows, MayRemove
<1>3. CASE Running(q) /\ Hit(q)
  <2>1. /\ Running(q) /\ Fields \subseteq DOMAIN req[q]
        /\ req'[q] = [req[q] EXCEPT !.raced = TRUE]
    BY <1>3 DEF Hit, Ready
  <2>2. /\ req'[q].at = req[q].at /\ req'[q].op = req[q].op /\ req'[q].body = req[q].body
        /\ req'[q].raced = TRUE /\ DOMAIN req'[q] = DOMAIN req[q]
        /\ "existing" \in DOMAIN req[q] => req'[q].existing = req[q].existing
    BY <2>1 DEF Fields
  <2>3. Input(q)' = Input(q)
    BY <2>2 DEF Input
  <2>4. ASSUME req[q].op \in EntryWork, HasRead(q) PROVE HasRead(q)'
    <3>1. Input(q).model \in ModelIds
      BY <2>1, <2>4, EntryModels
    <3>2. QED
      BY <2>2, <2>3, <2>4, <3>1 DEF HasRead, Remembered
  <2>5. ASSUME "existing" \in DOMAIN req[q], HasChecked(q) PROVE HasChecked(q)'
    BY <2>2, <2>3, <2>5 DEF HasChecked, MayRemove
  <2>6. QED
    BY <2>2, <2>3, <2>4, <2>5 DEF Works, Running, At, HasRead
<1>4. QED
  BY <1>1, <1>2, <1>3

LEMMA EachWorks ==
  ASSUME IInv, \A q \in Requests : Works(q), NEW r \in Requests, Moves(r), Linked(r)
  PROVE  References' /\ \A q \in Requests : Works(q)'
<1>1. ASSUME NEW q \in Requests, q # r PROVE Works(q)'
  <2>1. Works(q) /\ Ready(q) /\ (Same(q) \/ Hit(q))
    BY <1>1 DEF IInv, Moves
  <2>2. UNCHANGED catalogVars \/ (Running(q) => Hit(q))
    BY <1>1 DEF Linked, CatalogMark
  <2>3. QED
    BY <2>1, <2>2, OtherWorks DEF Linked
<1>2. QED
  BY <1>1 DEF Linked

LEMMA QuietLinked ==
  ASSUME References, NEW r \in Requests, Works(r)', UNCHANGED catalogVars
  PROVE  Linked(r)
<1>1. References'
  BY DEF catalogVars, References, CatalogTyped, RepeatsNoted, InOrder, EntriesResolve,
     CatalogOwned, DistinctEntriesRemain, Stored, There, Readable
<1>2. QED
  BY <1>1 DEF Linked, CatalogMark, Remembered, catalogVars

LEMMA DoneWorks ==
  ASSUME NEW r \in Requests, req'[r].at = "done" PROVE Works(r)'
  BY DEF Works, Running, At

-----------------------------------------------------------------------------
(* How a request moves on, as the catalog sees it.                         *)
LEMMA AnswersLinked ==
  ASSUME NEW r \in Requests, NEW shown, Answers(r, shown), References', Remembered
  PROVE  Linked(r)
  BY AnswersMoves, AnswersDone, DoneWorks DEF Linked, CatalogMark

LEMMA RefusesLinked ==
  ASSUME IInv, References, NEW r \in Requests, Refuses(r), UNCHANGED catalogVars
  PROVE  Linked(r)
  BY RefusesDone, DoneWorks, QuietLinked

LEMMA CatalogArrives ==
  ASSUME IInv, References, NEW r \in Requests, CatalogArrive(r)
  PROVE  Linked(r)
<1>1. PICK p \in Principals, op \in Operations :
          /\ op \in DOMAIN CatalogGates[p.kind]
          /\ \E body \in CatalogBodies[op] :
              req' = [req EXCEPT ![r] = [op |-> op, at |-> "start", by |-> p,
                                         body |-> body, raced |-> FALSE]]
  BY DEF CatalogArrive, Arrive
<1>2. PICK body \in CatalogBodies[op] :
          req' = [req EXCEPT ![r] = [op |-> op, at |-> "start", by |-> p,
                                     body |-> body, raced |-> FALSE]]
  BY <1>1
<1>3. req'[r].at = "start" /\ req'[r].op = op /\ req'[r].body = body
  BY <1>2 DEF IInv, Shaped, OfRequests
<1>4. Works(r)'
  BY <1>3 DEF Works, Running, At, Input
<1>5. QED
  BY <1>4, QuietLinked DEF CatalogArrive

-----------------------------------------------------------------------------
(* Providers. One that goes is named by no entry and has no rows, unless   *)
(* the request that takes it away is raced.                                *)
LEMMA ProviderWrites ==
  ASSUME References, NEW p \in ProviderIds, NEW doc \in ProviderDoc,
         providers' = [providers EXCEPT ![p] = doc], UNCHANGED <<modelCatalog, models>>,
         doc.status = "present" \/ doc.raced \/ (ModelRefs(p) = {} /\ NoRows(p))
  PROVE  References'
<1>1. /\ providers' \in [ProviderIds -> ProviderDoc] /\ providers'[p] = doc
      /\ \A q \in ProviderIds \ {p} : providers'[q] = providers[q]
  BY DEF References, CatalogTyped
<1>2. \A m \in ModelIds : \A q \in Named(models[m].entries) : q \in ProviderIds
  <2> TAKE m \in ModelIds
  <2>1. models[m].entries \in Seq(EntryDoc)
    BY DEF References, CatalogTyped, ModelDoc
  <2>2. \A n \in DOMAIN models[m].entries : models[m].entries[n].provider \in ProviderIds
    BY <2>1, EntryDocs DEF EntryDoc
  <2>3. QED
    BY <2>2 DEF Named
<1>3. EntriesResolve'
  <2> SUFFICES ASSUME NEW m \in ModelIds, Stored(m), NEW q \in Named(models[m].entries)
               PROVE  providers'[q].status = "present" \/ providers'[q].raced \/ models[m].raced
    BY DEF EntriesResolve, Stored, There
  <2>1. CASE q # p
    BY <1>1, <1>2, <2>1 DEF References, EntriesResolve, There
  <2>2. CASE q = p
    <3>1. m \in ModelRefs(p)
      BY <2>2 DEF ModelRefs, Named
    <3>2. QED
      BY <1>1, <2>2, <3>1
  <2>3. QED
    BY <2>1, <2>2
<1>4. CatalogOwned'
  <2> SUFFICES ASSUME NEW row \in modelCatalog
               PROVE  \/ providers'[row.provider].status = "present" \/ row.raced
                      \/ providers'[row.provider].raced
    BY DEF CatalogOwned, There
  <2>1. row.provider \in ProviderIds
    BY DEF References, CatalogTyped, ProviderModelDoc
  <2>2. QED
    BY <1>1, <2>1 DEF References, CatalogOwned, There, NoRows
<1>5. QED
  BY <1>1, <1>3, <1>4 DEF References, CatalogTyped, RepeatsNoted, InOrder,
     DistinctEntriesRemain, Stored, Readable

LEMMA CreatesProvider ==
  ASSUME IInv, References, NEW r \in Requests, CreateProvider(r)
  PROVE  Linked(r)
<1>1. PICK p : p = Unused(providers)
  OBVIOUS
<1>2. p \in ProviderIds
  BY <1>1 DEF CreateProvider, Unused, References, CatalogTyped
<1> DEFINE doc == [status |-> "present", active |-> TRUE, raced |-> FALSE]
<1>3. providers' = [providers EXCEPT ![p] = doc] /\ UNCHANGED <<modelCatalog, models>>
  BY <1>1 DEF CreateProvider
<1>4. doc \in ProviderDoc /\ doc.status = "present"
  BY DEF ProviderDoc
<1> HIDE DEF doc
<1>5. References'
  BY <1>2, <1>3, <1>4, ProviderWrites
<1>6. QED
  BY <1>3, <1>5, AnswersLinked DEF CreateProvider, Remembered

LEMMA UpdatesProvider ==
  ASSUME IInv, References, NEW r \in Requests, Works(r), UpdateProvider(r)
  PROVE  Linked(r)
<1>1. CASE ~There(Input(r).provider)
  BY <1>1, RefusesLinked DEF UpdateProvider, catalogVars
<1>2. CASE There(Input(r).provider)
  <2> DEFINE p == Input(r).provider
             doc == [providers[p] EXCEPT !.active = Input(r).active]
  <2>1. Asked(r, "updateProvider")
    BY DEF UpdateProvider, At, Asked, Running
  <2>2. p \in ProviderIds /\ Input(r).active \in BOOLEAN
    BY <2>1, Given
  <2>3. providers[p] \in ProviderDoc /\ providers[p].status = "present"
    BY <1>2, <2>2 DEF References, CatalogTyped, There
  <2>4. providers' = [providers EXCEPT ![p] = doc] /\ UNCHANGED <<modelCatalog, models>>
    BY <1>2, <2>2 DEF UpdateProvider, References, CatalogTyped
  <2>5. doc \in ProviderDoc /\ doc.status = "present"
    BY <2>2, <2>3 DEF ProviderDoc
  <2> HIDE DEF p, doc
  <2>6. References'
    BY <2>2, <2>4, <2>5, ProviderWrites
  <2>7. QED
    BY <1>2, <2>4, <2>6, AnswersLinked DEF UpdateProvider, Remembered
<1>3. QED
  BY <1>1, <1>2

LEMMA DeletesProviderLinked ==
  ASSUME IInv, References, NEW r \in Requests, Works(r), DeletesProvider(r)
  PROVE  Linked(r)
<1> DEFINE p == Input(r).provider
<1>1. /\ Running(r) /\ req[r].op = "deleteProvider" /\ p \in ProviderIds
      /\ Input(r) \in CatalogBodies["deleteProvider"]
  <2>1. Asked(r, "deleteProvider")
    BY DEF DeletesProvider, DeleteProvider, At, Asked, Running
  <2>2. QED
    BY <2>1, Given, CatalogInputs DEF Asked
<1>2. CASE Refuses(r) /\ UNCHANGED <<providers, modelCatalog>>
  BY <1>2, RefusesLinked DEF DeletesProvider, catalogVars
<1>3. ASSUME NEW step, Reads(r, step, <<>>), UNCHANGED <<providers, modelCatalog>>,
             step \in {"count", "rows"}, step = "rows" => ModelRefs(p) = {}
      PROVE  Linked(r)
  <2>1. /\ req'[r].at = step /\ req'[r].op = "deleteProvider" /\ Input(r)' = Input(r)
    BY <1>1, <1>3, ReadsMoves DEF Fields, Input
  <2>2. UNCHANGED catalogVars
    BY <1>3 DEF DeletesProvider, catalogVars
  <2>3. ModelRefs(p)' = ModelRefs(p)
    BY <2>1, <2>2 DEF ModelRefs, Stored, catalogVars
  <2>4. Works(r)'
    BY <1>1, <1>3, <2>1, <2>3 DEF Works, Running, At, EntryWork
  <2>5. QED
    BY <2>2, <2>4, QuietLinked
<1>4. CASE /\ At(r, "deleteProvider", "rows") /\ DeleteRows(p) /\ UNCHANGED providers
           /\ Wrote(r, [req[r] EXCEPT !.at = "delete"])
  <2>1. /\ req'[r] = [req[r] EXCEPT !.at = "delete"]
        /\ \A q \in Requests \ {r} : Running(q) => Hit(q)
    BY <1>4, WroteMoves
  <2>2. Fields \subseteq DOMAIN req[r]
    BY <1>1 DEF IInv, Ready
  <2>3. /\ req'[r].at = "delete" /\ req'[r].op = "deleteProvider" /\ Input(r)' = Input(r)
        /\ req'[r].raced = req[r].raced
    BY <1>1, <2>1, <2>2 DEF Fields, Input
  <2>4. UNCHANGED <<providers, models>>
    BY <1>4 DEF DeletesProvider
  <2>5. modelCatalog' \subseteq modelCatalog /\ \A row \in modelCatalog' : row.provider # p
    BY <1>4 DEF DeleteRows
  <2>6. References'
    BY <2>4, <2>5 DEF References, CatalogTyped, RepeatsNoted, InOrder, EntriesResolve,
       CatalogOwned, DistinctEntriesRemain, Stored, There, Readable
  <2>7. ModelRefs(p)' = ModelRefs(p) /\ p' = p
    BY <2>3, <2>4 DEF ModelRefs, Stored
  <2>8. req[r].raced \/ ModelRefs(p) = {}
    BY <1>4 DEF Works
  <2> HIDE DEF p
  <2>9. Works(r)'
    <3>1. req'[r].raced \/ (ModelRefs(Input(r).provider) = {} /\ NoRows(Input(r).provider))'
      BY <2>3, <2>5, <2>7, <2>8 DEF NoRows, p
    <3>2. QED
      BY <1>1, <2>3, <3>1 DEF Works, Running, At, EntryWork
  <2>10. QED
    BY <2>1, <2>4, <2>6, <2>9 DEF Linked, CatalogMark, Remembered
<1>5. CASE /\ At(r, "deleteProvider", "delete") /\ UNCHANGED modelCatalog
           /\ providers' = [providers EXCEPT ![p] =
                    [status |-> "deleted", active |-> @.active, raced |-> req[r].raced]]
           /\ Answers(r, FALSE)
  <2> DEFINE doc == [status |-> "deleted", active |-> providers[p].active,
                     raced |-> req[r].raced]
  <2>1. providers' = [providers EXCEPT ![p] = doc] /\ UNCHANGED <<modelCatalog, models>>
    BY <1>1, <1>5 DEF DeletesProvider, References, CatalogTyped
  <2>2. req[r].raced \in BOOLEAN
    BY <1>1 DEF IInv, Ready
  <2>3. providers[p].active \in BOOLEAN
    BY <1>1 DEF References, CatalogTyped, ProviderDoc
  <2>4. doc \in ProviderDoc /\ doc.raced = req[r].raced
    BY <2>2, <2>3 DEF ProviderDoc
  <2>5. req[r].raced \/ (ModelRefs(p) = {} /\ NoRows(p))
    BY <1>5 DEF Works
  <2> HIDE DEF p, doc
  <2>6. References'
    BY <1>1, <2>1, <2>4, <2>5, ProviderWrites
  <2>7. QED
    BY <1>5, <2>1, <2>6, AnswersLinked DEF Remembered
<1>6. QED
  <2>1. CASE At(r, "deleteProvider", "start") /\ UNCHANGED <<providers, modelCatalog>>
    BY <1>2, <1>3, <2>1 DEF DeletesProvider, DeleteProvider, At
  <2>2. CASE At(r, "deleteProvider", "count") /\ UNCHANGED <<providers, modelCatalog>>
    BY <1>2, <1>3, <2>2 DEF DeletesProvider, DeleteProvider, At
  <2>3. CASE At(r, "deleteProvider", "rows")
    BY <1>4, <2>3 DEF DeletesProvider, DeleteProvider, At
  <2>4. CASE At(r, "deleteProvider", "delete")
    BY <1>2, <1>5, <2>4 DEF DeletesProvider, DeleteProvider, At
  <2>5. QED
    BY <2>1, <2>2, <2>3, <2>4 DEF DeletesProvider, DeleteProvider

(* What is discovered is of a provider that is there, unless it is raced.  *)
LEMMA DiscoversLinked ==
  ASSUME IInv, References, NEW r \in Requests, Works(r), DiscoverModels(r)
  PROVE  Linked(r)
<1> DEFINE p == Input(r).provider
<1>1. /\ Running(r) /\ req[r].op = "discoverModels" /\ p \in ProviderIds
      /\ Input(r) \in CatalogBodies["discoverModels"]
  <2>1. Asked(r, "discoverModels")
    BY DEF DiscoverModels, At, Asked, Running
  <2>2. QED
    BY <2>1, Given, CatalogInputs DEF Asked
<1>2. CASE Refuses(r) /\ UNCHANGED modelCatalog
  BY <1>2, RefusesLinked DEF DiscoverModels, catalogVars
<1>3. CASE There(p) /\ Reads(r, "upstream", <<>>) /\ UNCHANGED modelCatalog
  <2>1. /\ req'[r].at = "upstream" /\ req'[r].op = "discoverModels" /\ Input(r)' = Input(r)
    BY <1>1, <1>3, ReadsMoves DEF Fields, Input
  <2>2. UNCHANGED catalogVars
    BY <1>3 DEF DiscoverModels, catalogVars
  <2>3. There(p)'
    BY <1>3, <2>1, <2>2 DEF There, catalogVars
  <2>4. Works(r)'
    BY <1>1, <2>1, <2>3 DEF Works, Running, At, EntryWork
  <2>5. QED
    BY <2>2, <2>4, QuietLinked
<1>4. CASE /\ At(r, "discoverModels", "upstream") /\ Answers(r, FALSE)
           /\ \E found \in SUBSET Upstreams : UpsertCatalog(r, found)
  <2>1. PICK found \in SUBSET Upstreams : UpsertCatalog(r, found)
    BY <1>4
  <2>2. UNCHANGED <<providers, models>>
    BY DEF DiscoverModels
  <2>3. req[r].raced \in BOOLEAN /\ (req[r].raced \/ There(p))
    BY <1>1, <1>4 DEF IInv, Ready, Works
  <2>4. \A row \in modelCatalog' : row \in modelCatalog \/
          \E u \in Upstreams : row = [provider |-> p, upstream |-> u, raced |-> req[r].raced]
    BY <2>1 DEF UpsertCatalog
  <2>5. \A row \in modelCatalog' :
          /\ row \in ProviderModelDoc
          /\ There(row.provider) \/ row.raced \/ providers[row.provider].raced
    <3> TAKE row \in modelCatalog'
    <3>1. CASE row \in modelCatalog
      BY <3>1 DEF References, CatalogTyped, CatalogOwned
    <3>2. ASSUME NEW u \in Upstreams,
                 row = [provider |-> p, upstream |-> u, raced |-> req[r].raced]
          PROVE  row \in ProviderModelDoc /\ (There(row.provider) \/ row.raced)
      BY <1>1, <2>3, <3>2 DEF ProviderModelDoc
    <3>3. QED
      BY <2>4, <3>1, <3>2
  <2>6. References'
    BY <2>2, <2>5 DEF References, CatalogTyped, RepeatsNoted, InOrder, EntriesResolve,
       CatalogOwned, DistinctEntriesRemain, Stored, There, Readable
  <2>7. QED
    BY <1>4, <2>2, <2>6, AnswersLinked DEF Remembered
<1>5. QED
  BY <1>2, <1>3, <1>4 DEF DiscoverModels, At

-----------------------------------------------------------------------------
(* Models. What a request writes of one names what is there or what was    *)
(* named already, unless it is raced.                                      *)
LEMMA WritesModel ==
  ASSUME References, NEW m \in ModelIds, NEW doc \in ModelDoc,
         models' = [models EXCEPT ![m] = doc], UNCHANGED <<providers, modelCatalog>>,
         Ascends(doc.entries), Repeats(doc.entries) => doc.repeated,
         doc.status = "present" =>
            /\ doc.entries # <<>> \/ doc.repeated
            /\ \A p \in Named(doc.entries) : There(p) \/ providers[p].raced \/ doc.raced,
         models[m].status # "none" =>
            doc.status # "none" /\ (models[m].repeated => doc.repeated)
  PROVE  References' /\ Remembered
<1>1. /\ models' \in [ModelIds -> ModelDoc] /\ models'[m] = doc
      /\ \A n \in ModelIds \ {m} : models'[n] = models[n]
  BY DEF References, CatalogTyped
<1>2. CatalogOwned'
  BY DEF References, CatalogOwned, There
<1>3. EntriesResolve'
  BY <1>1 DEF References, EntriesResolve, Stored, There
<1>4. RepeatsNoted' /\ InOrder'
  BY <1>1 DEF References, RepeatsNoted, InOrder
<1>5. DistinctEntriesRemain'
  BY <1>1 DEF References, DistinctEntriesRemain, Stored, Readable
<1>6. Remembered
  BY <1>1 DEF Remembered
<1>7. QED
  BY <1>1, <1>2, <1>3, <1>4, <1>5, <1>6 DEF References, CatalogTyped

LEMMA FindsModel ==
  ASSUME IInv, References, NEW r \in Requests, Works(r), FindModel(r)
  PROVE  Linked(r)
<1> DEFINE m == Input(r).model
<1>1. Running(r) /\ req[r].op \in EntryWork /\ req[r].at = "start" /\ UNCHANGED catalogVars
  BY DEF FindModel, Running, EntryWork
<1>2. m \in ModelIds
  BY <1>1, EntryModels
<1>3. CASE Refuses(r)
  BY <1>1, <1>3, RefusesLinked
<1>4. CASE Readable(m) /\ Reads(r, "check", [existing |-> models[m].entries])
  <2> DEFINE read == [existing |-> models[m].entries]
  <2>1. /\ DOMAIN read \cap Fields = {} /\ "existing" \in DOMAIN read
        /\ read["existing"] = models[m].entries
    BY DEF Fields
  <2>2. Reads(r, "check", read)
    BY <1>4
  <2> HIDE DEF read
  <2>3. /\ req'[r].at = "check" /\ req'[r].op = req[r].op /\ req'[r].body = req[r].body
    BY <1>1, <2>1, <2>2, ReadsMoves
  <2>4. "existing" \in DOMAIN req'[r] /\ req'[r]["existing"] = models[m].entries
    BY <1>1, <2>1, <2>2, ReadsKeep
  <2>5. m' = m /\ Input(r)' = Input(r)
    BY <2>3 DEF Input
  <2>6. /\ models[m].entries \in Seq(EntryDoc) /\ models[m].entries # <<>>
        /\ Ascends(models[m].entries) /\ models[m].status # "none"
        /\ Repeats(models[m].entries) => models[m].repeated
    BY <1>2, <1>4 DEF References, CatalogTyped, ModelDoc, InOrder, RepeatsNoted, Readable, Stored
  <2> HIDE DEF m
  <2>7. HasRead(r)'
    BY <1>1, <2>4, <2>5, <2>6 DEF HasRead, m, catalogVars
  <2>8. Input(r) \in CatalogBodies[req[r].op]
    BY <1>1, CatalogOps DEF Works, EntryWork
  <2>9. Works(r)'
    BY <1>1, <2>3, <2>5, <2>7, <2>8 DEF Works, Running, At, EntryWork
  <2>10. QED
    BY <1>1, <2>9, QuietLinked
<1>5. QED
  BY <1>3, <1>4 DEF FindModel

LEMMA ChecksEntries ==
  ASSUME IInv, References, NEW r \in Requests, Works(r), CheckEntries(r)
  PROVE  Linked(r)
<1>1. Running(r) /\ req[r].op \in EntryWork /\ req[r].at = "check" /\ UNCHANGED catalogVars
  BY DEF CheckEntries, Running, Works
<1>2. CASE Refuses(r)
  BY <1>1, <1>2, RefusesLinked
<1>3. CASE Admissible(r) /\ Reads(r, "write", <<>>)
  <2>1. /\ req'[r].at = "write" /\ req'[r].op = req[r].op /\ Input(r)' = Input(r)
        /\ req'[r].raced = req[r].raced
    BY <1>1, <1>3, ReadsMoves DEF Fields, Input
  <2>2. HasRead(r)
    BY <1>1 DEF Works
  <2>3. "existing" \in DOMAIN req'[r] /\ req'[r].existing = req[r].existing
    BY <1>1, <1>3, <2>2, ReadsKeep DEF Fields, HasRead
  <2>4. HasRead(r)'
    BY <1>1, <2>1, <2>2, <2>3 DEF HasRead, catalogVars
  <2>5. HasChecked(r)
    BY <1>3 DEF Admissible, HasChecked
  <2>6. HasChecked(r)'
    BY <1>1, <2>1, <2>3, <2>5 DEF HasChecked, ProvidersExist, There, MayRemove, catalogVars
  <2>7. Input(r) \in CatalogBodies[req[r].op]
    BY <1>1, CatalogOps DEF Works, EntryWork
  <2>8. Works(r)'
    BY <1>1, <2>1, <2>4, <2>6, <2>7 DEF Works, Running, At, EntryWork
  <2>9. QED
    BY <1>1, <2>8, QuietLinked
<1>4. QED
  BY <1>2, <1>3 DEF CheckEntries

LEMMA NewList ==
  ASSUME References, NEW r \in Requests, Works(r), Running(r), req[r].at = "write", IdsLeft(r),
         req[r].op = "updateModel" => Input(r).patch = "entries"
  PROVE  /\ NewEntries(r) \in Seq(EntryDoc) /\ Ascends(NewEntries(r))
         /\ NewEntries(r) # <<>> \/ models[Input(r).model].repeated
         /\ \A p \in Named(NewEntries(r)) :
                req[r].raced \/ There(p) \/ p \in Named(models[Input(r).model].entries)
<1> DEFINE m == Input(r).model
           s == req[r].existing
<1>1. req[r].op \in EntryWork /\ HasRead(r) /\ HasChecked(r)
  BY DEF Works
<1>2. req[r].raced \/ s = models[m].entries
  BY <1>1 DEF HasRead
<1>3. CASE req[r].op = "updateModel"
  <2>1. Input(r) \in ModelUpdateInput
    BY <1>3, Given DEF Asked
  <2>2. Input(r).to \in EntryInputs /\ Draws(Input(r).to) # {}
    <3>1. Input(r).patch = "entries"
      BY <1>3
    <3>2. QED
      BY <1>3, <2>1, <3>1 DEF ModelUpdateInput, IdsLeft
  <2>3. NewEntries(r) = NormalizeEntries(Input(r).to, 0)
    BY <1>3 DEF NewEntries
  <2>4. req[r].raced \/ \A p \in Named(Input(r).to) : There(p)
    BY <1>1, <1>3 DEF HasChecked, ProvidersExist
  <2>5. QED
    BY <2>2, <2>3, <2>4, Normalized
<1>4. CASE req[r].op = "reorderFallbacks"
  <2>1. Input(r) \in FallbackReorderInput
    BY <1>4, Given DEF Asked
  <2>2. NewEntries(r) = Reordered(r)
    BY <1>4 DEF NewEntries
  <2>3. QED
    BY <1>1, <1>2, <2>1, <2>2, ReorderedList DEF Listed
<1>5. CASE req[r].op = "addModelEntry"
  <2>1. Input(r) \in [model : ModelIds, entries : EntryInputs]
    BY <1>5, Given DEF Asked
  <2>2. Input(r).entries \in EntryInputs /\ Draws(Input(r).entries) # {}
    BY <1>5, <2>1 DEF IdsLeft
  <2>3. NewEntries(r) = WithEntry(r)
    BY <1>5 DEF NewEntries
  <2>4. req[r].raced \/ \A p \in Named(Input(r).entries) : There(p)
    BY <1>1, <1>5 DEF HasChecked, ProvidersExist
  <2>5. QED
    BY <1>1, <1>2, <2>2, <2>3, <2>4, WithEntryList DEF Listed
<1>6. CASE req[r].op = "removeModelEntry"
  <2>1. NewEntries(r) = WithoutEntry(r)
    BY <1>6 DEF NewEntries
  <2>2. MayRemove(r)
    BY <1>1, <1>6 DEF HasChecked
  <2>3. Repeats(s) => models[m].repeated
    BY <1>1 DEF HasRead
  <2>4. QED
    BY <1>1, <1>2, <2>1, <2>2, <2>3, WithoutEntryList DEF Listed
<1>7. QED
  BY <1>1, <1>3, <1>4, <1>5, <1>6 DEF EntryWork

LEMMA InsertsModel ==
  ASSUME IInv, References, NEW r \in Requests, Works(r), CreateModel(r),
         UNCHANGED <<providers, modelCatalog>>
  PROVE  Linked(r)
<1>1. /\ Running(r) /\ req[r].op = "createModel"
      /\ Input(r) \in [alias : Aliases, entries : EntryInputs]
      /\ Input(r) \in CatalogBodies["createModel"]
  <2>1. Asked(r, "createModel")
    BY DEF CreateModel, At, Asked, Running
  <2>2. QED
    BY <2>1, Given, CatalogInputs DEF Asked
<1>2. CASE Refuses(r) /\ UNCHANGED models
  BY <1>2, RefusesLinked DEF catalogVars
<1>3. CASE ProvidersExist(Input(r).entries) /\ Reads(r, "insert", <<>>) /\ UNCHANGED models
  <2>1. /\ req'[r].at = "insert" /\ req'[r].op = "createModel" /\ Input(r)' = Input(r)
    BY <1>1, <1>3, ReadsMoves DEF Fields, Input
  <2>2. ProvidersExist(Input(r).entries)'
    BY <1>3, <2>1 DEF ProvidersExist, There
  <2>3. Works(r)'
    BY <1>1, <2>1, <2>2 DEF Works, Running, At, EntryWork
  <2>4. QED
    BY <1>3, <2>3, QuietLinked DEF catalogVars
<1>4. CASE /\ At(r, "createModel", "insert") /\ \E m \in ModelIds : models[m].status = "none"
           /\ Draws(Input(r).entries) # {} /\ Answers(r, FALSE)
           /\ LET entries == NormalizeEntries(Input(r).entries, 0) IN
                  models' = [models EXCEPT ![Unused(models)] =
                    [status |-> "present", alias |-> Input(r).alias, entries |-> entries,
                     active |-> TRUE, repeated |-> Repeats(entries), raced |-> req[r].raced]]
  <2>1. PICK m, entries : m = Unused(models) /\ entries = NormalizeEntries(Input(r).entries, 0)
    OBVIOUS
  <2>2. m \in ModelIds /\ models[m].status = "none"
    BY <1>4, <2>1 DEF Unused, References, CatalogTyped
  <2>3. /\ entries \in Seq(EntryDoc) /\ entries # <<>> /\ Ascends(entries)
        /\ Named(entries) = Named(Input(r).entries)
    BY <1>1, <1>4, <2>1, Normalized
  <2> DEFINE doc == [status |-> "present", alias |-> Input(r).alias, entries |-> entries,
                     active |-> TRUE, repeated |-> Repeats(entries), raced |-> req[r].raced]
  <2>4. models' = [models EXCEPT ![m] = doc]
    BY <1>4, <2>1
  <2>5. req[r].raced \in BOOLEAN /\ (req[r].raced \/ ProvidersExist(Input(r).entries))
    BY <1>1, <1>4 DEF IInv, Ready, Works
  <2>6. Repeats(entries) \in BOOLEAN
    BY DEF Repeats
  <2>7. doc \in ModelDoc
    BY <1>1, <2>3, <2>5, <2>6 DEF ModelDoc
  <2>8. /\ doc.status = "present" /\ doc.entries = entries /\ doc.raced = req[r].raced
        /\ doc.repeated = Repeats(entries)
    OBVIOUS
  <2>9. \A p \in Named(entries) : There(p) \/ req[r].raced
    BY <2>3, <2>5 DEF ProvidersExist
  <2> HIDE DEF doc
  <2>10. Repeats(doc.entries) => doc.repeated
    BY <2>8
  <2>11. References' /\ Remembered
    BY <2>2, <2>3, <2>4, <2>7, <2>8, <2>9, <2>10, WritesModel
  <2>12. QED
    BY <1>4, <2>11, AnswersLinked
<1>5. QED
  BY <1>2, <1>3, <1>4 DEF CreateModel

LEMMA PatchesModel ==
  ASSUME IInv, References, NEW r \in Requests, Works(r), UpdateModel(r),
         UNCHANGED <<providers, modelCatalog>>
  PROVE  Linked(r)
<1> DEFINE m == Input(r).model
<1>1. /\ Running(r) /\ req[r].op \in EntryWork /\ req[r].at = "write" /\ IdsLeft(r)
      /\ m \in ModelIds /\ req[r].raced \in BOOLEAN
  <2>1. Running(r) /\ req[r].op \in EntryWork /\ req[r].at = "write" /\ IdsLeft(r)
    BY DEF UpdateModel, Running, Works
  <2>2. QED
    BY <2>1, EntryModels DEF IInv, Ready
<1>2. models[m] \in ModelDoc /\ models' = [n \in ModelIds |-> models'[n]]
  <2>1. models[m] \in ModelDoc
    BY <1>1 DEF References, CatalogTyped
  <2>2. models = [n \in ModelIds |-> models[n]]
    BY DEF References, CatalogTyped
  <2>3. QED
    BY <2>1, <2>2 DEF UpdateModel, SetEntries
<1>3. Stored(m) => models[m].status = "present"
  BY DEF Stored
<1>4. CASE Refuses(r) /\ UNCHANGED models
  BY <1>4, RefusesLinked DEF catalogVars
<1>5. ASSUME NEW doc \in ModelDoc, Stored(m), Answers(r, FALSE),
             models' = [models EXCEPT ![m] = doc],
             doc.entries = models[m].entries, doc.status = models[m].status,
             doc.repeated = models[m].repeated, doc.raced = models[m].raced
      PROVE  Linked(r)
  <2>1. /\ Ascends(models[m].entries)
        /\ Repeats(models[m].entries) => models[m].repeated
        /\ models[m].entries # <<>> \/ models[m].repeated
        /\ \A p \in Named(models[m].entries) :
              There(p) \/ providers[p].raced \/ models[m].raced
    BY <1>1, <1>5 DEF References, RepeatsNoted, InOrder, DistinctEntriesRemain, Readable,
       EntriesResolve
  <2>2. Repeats(doc.entries) => doc.repeated
    BY <1>5, <2>1
  <2> HIDE DEF m
  <2>3. References' /\ Remembered
    BY <1>1, <1>5, <2>1, <2>2, WritesModel
  <2>4. QED
    BY <1>5, <2>3, AnswersLinked
<1>6. CASE /\ Stored(m) /\ req[r].op = "updateModel" /\ Input(r).patch = "alias"
           /\ models' = [models EXCEPT ![m].alias = Input(r).to] /\ Answers(r, FALSE)
  <2> DEFINE doc == [models[m] EXCEPT !.alias = Input(r).to]
  <2>1. Input(r).to \in Aliases
    BY <1>1, <1>6, Given DEF Asked, ModelUpdateInput
  <2>2. models' = [models EXCEPT ![m] = doc]
    BY <1>1, <1>6 DEF References, CatalogTyped
  <2>3. /\ doc \in ModelDoc /\ doc.entries = models[m].entries /\ doc.status = models[m].status
        /\ doc.repeated = models[m].repeated /\ doc.raced = models[m].raced
    BY <1>2, <2>1 DEF ModelDoc
  <2> HIDE DEF doc, m
  <2>4. QED
    BY <1>5, <1>6, <2>2, <2>3
<1>7. CASE /\ Stored(m) /\ req[r].op = "updateModel" /\ Input(r).patch = "active"
           /\ models' = [models EXCEPT ![m].active = Input(r).to] /\ Answers(r, FALSE)
  <2> DEFINE doc == [models[m] EXCEPT !.active = Input(r).to]
  <2>1. Input(r).to \in BOOLEAN
    BY <1>1, <1>7, Given DEF Asked, ModelUpdateInput
  <2>2. models' = [models EXCEPT ![m] = doc]
    BY <1>1, <1>7 DEF References, CatalogTyped
  <2>3. /\ doc \in ModelDoc /\ doc.entries = models[m].entries /\ doc.status = models[m].status
        /\ doc.repeated = models[m].repeated /\ doc.raced = models[m].raced
    BY <1>2, <2>1 DEF ModelDoc
  <2> HIDE DEF doc, m
  <2>4. QED
    BY <1>5, <1>7, <2>2, <2>3
<1>8. CASE /\ Stored(m) /\ (req[r].op = "updateModel" => Input(r).patch = "entries")
           /\ SetEntries(m, NewEntries(r), req[r].raced) /\ Answers(r, FALSE)
  <2>1. PICK entries : entries = NewEntries(r)
    OBVIOUS
  <2>2. /\ entries \in Seq(EntryDoc) /\ Ascends(entries)
        /\ entries # <<>> \/ models[m].repeated
        /\ \A p \in Named(entries) : req[r].raced \/ There(p) \/ p \in Named(models[m].entries)
    BY <1>1, <1>8, <2>1, NewList
  <2> DEFINE old == models[m]
             doc == [status |-> old.status, alias |-> old.alias, active |-> old.active,
                     entries |-> entries, repeated |-> old.repeated \/ Repeats(entries),
                     raced |-> old.raced \/ req[r].raced]
  <2>3. models' = [models EXCEPT ![m] = doc]
    BY <1>1, <1>8, <2>1 DEF SetEntries, References, CatalogTyped
  <2>4. doc \in ModelDoc
    <3>1. (old.repeated \/ Repeats(entries)) \in BOOLEAN
      OBVIOUS
    <3>2. (old.raced \/ req[r].raced) \in BOOLEAN
      OBVIOUS
    <3> HIDE DEF m
    <3>3. QED
      BY <1>2, <2>2, <3>1, <3>2 DEF ModelDoc
  <2>5. /\ doc.status = models[m].status /\ doc.entries = entries
        /\ doc.repeated = (models[m].repeated \/ Repeats(entries))
        /\ doc.raced = (models[m].raced \/ req[r].raced)
    OBVIOUS
  <2> HIDE DEF doc
  <2>6. /\ Repeats(doc.entries) => doc.repeated
        /\ models[m].repeated => doc.repeated
        /\ doc.entries # <<>> \/ doc.repeated
    BY <2>2, <2>5
  <2>7. \A p \in Named(doc.entries) : There(p) \/ providers[p].raced \/ doc.raced
    <3>1. \A p \in Named(models[m].entries) : There(p) \/ providers[p].raced \/ models[m].raced
      BY <1>1, <1>8 DEF References, EntriesResolve
    <3>2. QED
      BY <2>2, <2>5, <3>1
  <2>8. Ascends(doc.entries)
    BY <2>2, <2>5
  <2> HIDE DEF m
  <2>9. References' /\ Remembered
    BY <1>1, <2>3, <2>4, <2>5, <2>6, <2>7, <2>8, WritesModel
  <2>10. QED
    BY <1>8, <2>9, AnswersLinked
<1>9. req[r].op = "updateModel" => Input(r).patch \in {"entries", "alias", "active"}
  BY <1>1, Given DEF Asked, ModelUpdateInput
<1>10. QED
  BY <1>4, <1>6, <1>7, <1>8, <1>9 DEF UpdateModel

LEMMA DeletesModel ==
  ASSUME IInv, References, NEW r \in Requests, Works(r), DeleteModel(r),
         UNCHANGED <<providers, modelCatalog>>
  PROVE  Linked(r)
<1> DEFINE m == Input(r).model
<1>1. CASE ~Stored(m)
  BY <1>1, RefusesLinked DEF DeleteModel, catalogVars
<1>2. CASE Stored(m)
  <2> DEFINE doc == [models[m] EXCEPT !.status = "deleted"]
  <2>1. m \in ModelIds
    <3>1. Asked(r, "deleteModel")
      BY DEF DeleteModel, At, Asked, Running
    <3>2. QED
      BY <3>1, Given
  <2>2. models[m] \in ModelDoc /\ models' = [models EXCEPT ![m] = doc]
    BY <1>2, <2>1 DEF DeleteModel, References, CatalogTyped
  <2>3. /\ doc \in ModelDoc /\ doc.entries = models[m].entries /\ doc.status = "deleted"
        /\ doc.repeated = models[m].repeated
    BY <2>2 DEF ModelDoc
  <2>4. Ascends(models[m].entries) /\ (Repeats(models[m].entries) => models[m].repeated)
    BY <2>1 DEF References, RepeatsNoted, InOrder
  <2> HIDE DEF doc, m
  <2>5. Repeats(doc.entries) => doc.repeated
    BY <2>3, <2>4
  <2>6. References' /\ Remembered
    BY <2>1, <2>2, <2>3, <2>4, <2>5, WritesModel
  <2>7. QED
    BY <1>2, <2>6, AnswersLinked DEF DeleteModel, m
<1>3. QED
  BY <1>1, <1>2

LEMMA CatalogLinked ==
  ASSUME IInv, References, NEW r \in Requests, Works(r), CatalogStep(r)
  PROVE  Linked(r)
<1>1. CASE CatalogArrive(r)
  BY <1>1, CatalogArrives
<1>2. CASE CreateProvider(r) \/ UpdateProvider(r) \/ DeletesProvider(r) \/ DiscoverModels(r)
  BY <1>2, CreatesProvider, UpdatesProvider, DeletesProviderLinked, DiscoversLinked
<1>3. CASE ListModels(r)
  BY <1>3, AnswerDone, RefusesDone, DoneWorks, QuietLinked DEF ListModels
<1>4. CASE FindModel(r) \/ CheckEntries(r)
  BY <1>4, FindsModel, ChecksEntries
<1>5. CASE ChangesModel(r)
  BY <1>5, InsertsModel, PatchesModel, DeletesModel DEF ChangesModel
<1>6. QED
  BY <1>1, <1>2, <1>3, <1>4, <1>5 DEF CatalogStep

-----------------------------------------------------------------------------
(* Requests for customers and plans write nothing of the catalog, and      *)
(* those of the catalog nothing of the plans.                              *)
LEMMA PlainWorks ==
  ASSUME NEW r \in Requests, req'[r].op \notin CatalogWork, req'[r].at \notin {"check", "write"}
  PROVE  Works(r)'
  BY CatalogOps DEF Works, Running, At, EntryWork

LEMMA ReadsOn ==
  ASSUME IInv, NEW r \in Requests, Running(r), NEW value,
         NEW step \in {"count", "rows", "upstream", "check", "write", "conflict", "transact",
                       "existing", "insert", "update", "plan", "current", "customer", "serve"},
         \/ Reads(r, step, <<>>) \/ Reads(r, step, [currency |-> value])
         \/ Reads(r, step, [expected |-> value]) \/ Reads(r, step, [existing |-> value])
         \/ Reads(r, step, [left |-> value]) \/ Reads(r, step, [read |-> value])
  PROVE  req'[r].at = step /\ req'[r].op = req[r].op
<1>1. CASE Reads(r, step, <<>>)
  BY <1>1, ReadsMoves DEF Fields
<1>2. CASE Reads(r, step, [currency |-> value])
  BY <1>2, ReadsMoves DEF Fields
<1>3. CASE Reads(r, step, [expected |-> value])
  BY <1>3, ReadsMoves DEF Fields
<1>4. CASE Reads(r, step, [existing |-> value])
  BY <1>4, ReadsMoves DEF Fields
<1>5. CASE Reads(r, step, [left |-> value])
  BY <1>5, ReadsMoves DEF Fields
<1>6. CASE Reads(r, step, [read |-> value])
  BY <1>6, ReadsMoves DEF Fields
<1>7. QED
  BY <1>1, <1>2, <1>3, <1>4, <1>5, <1>6

Ends(r) ==
    \/ Refuses(r) \/ \E shown : Answers(r, shown)
    \/ \E answer, shown : req' = [req EXCEPT ![r] = Answer(answer, shown)]

LEMMA EndsDone ==
  ASSUME IInv, NEW r \in Requests, Ends(r) PROVE req'[r].at = "done"
<1>1. CASE Refuses(r)
  BY <1>1, RefusesDone
<1>2. CASE \E shown : Answers(r, shown)
  <2>1. PICK shown : Answers(r, shown)
    BY <1>2
  <2>2. QED
    BY <2>1, AnswersDone
<1>3. CASE \E answer, shown : req' = [req EXCEPT ![r] = Answer(answer, shown)]
  <2>1. PICK answer, shown : req' = [req EXCEPT ![r] = Answer(answer, shown)]
    BY <1>3
  <2>2. QED
    BY <2>1, AnswerDone
<1>4. QED
  BY <1>1, <1>2, <1>3 DEF Ends

CustomerSteps == {"conflict", "transact", "existing", "insert", "update", "plan", "current",
                  "customer", "serve"}

(* Where a request for customers and plans goes.                           *)
LEMMA CustomerGoes ==
  ASSUME IInv, NEW r \in Requests, CustomerStep(r)
  PROVE  \/ req'[r].at = "done"
         \/ CustomerArrive(r)
         \/ Running(r) /\ req'[r].at \in CustomerSteps /\ req'[r].op = req[r].op
            /\ req[r].op \in CustomerOps \cup {"useKey"}
<1>1. CASE Ends(r)
  BY <1>1, EndsDone
<1>2. CASE /\ Running(r) /\ req[r].op \in CustomerOps \cup {"useKey"}
           /\ \E step \in CustomerSteps : \E value :
                \/ Reads(r, step, <<>>) \/ Reads(r, step, [currency |-> value])
                \/ Reads(r, step, [expected |-> value]) \/ Reads(r, step, [existing |-> value])
                \/ Reads(r, step, [left |-> value]) \/ Reads(r, step, [read |-> value])
  BY <1>2, ReadsOn DEF CustomerSteps
<1>3. CASE GetCustomer(r) \/ GetActiveSubscription(r) \/ AnswerExisting(r)
  BY <1>1, <1>3 DEF Ends, GetCustomer, GetActiveSubscription, AnswerExisting
<1>4. CASE CreateCustomer(r) \/ InsertWithOpeningBalance(r)
  BY <1>1, <1>2, <1>4 DEF Ends, CreateCustomer, InsertWithOpeningBalance, At, Running, CustomerOps,
     CustomerSteps
<1>5. CASE UpdatesCustomer(r) \/ CloseCustomer(r)
  BY <1>1, <1>2, <1>5 DEF Ends, UpdatesCustomer, UpdateCustomer, CloseCustomer, At, Running,
     CustomerOps, CustomerSteps
<1>6. CASE ReadCurrency(r) \/ AdjustBalance(r) \/ UpdateOrganization(r)
  BY <1>1, <1>2, <1>6 DEF Ends, ReadCurrency, AdjustBalance, UpdateOrganization, At, Running,
     CustomerOps, CustomerSteps
<1>7. CASE ChangesPlan(r) \/ Subscribes(r)
  BY <1>1, <1>2, <1>7 DEF Ends, ChangesPlan, CreatePlan, UpdatePlan, DeactivatePlan, Subscribes,
     Subscribe, At, Running, CustomerOps, CustomerSteps
<1>8. CASE ChangesKeys(r) \/ UseKey(r)
  BY <1>1, <1>2, <1>8 DEF Ends, ChangesKeys, IssueKey, PatchKey, UseKey, At, Running, CustomerOps,
     CustomerSteps
<1>9. QED
  BY <1>3, <1>4, <1>5, <1>6, <1>7, <1>8 DEF CustomerStep

LEMMA CustomerArrived ==
  ASSUME IInv, NEW r \in Requests, CustomerArrive(r)
  PROVE  /\ req'[r].at = "start" /\ req'[r].op \in CustomerOps \cup {"useKey"}
         /\ req'[r].op = "updatePlan" => Body(r)' \in PlanUpdateInput
<1>1. OfRequests(req)
  BY DEF IInv, Shaped
<1>2. CASE Arrive(r, CustomerGates, CustomerBodies)
  <2>1. PICK p \in Principals : \E op \in Operations \cap DOMAIN CustomerGates[p.kind] :
          \E body \in CustomerBodies[op] :
              req' = [req EXCEPT ![r] = [op |-> op, at |-> "start", by |-> p,
                                         body |-> body, raced |-> FALSE]]
    BY <1>2 DEF Arrive
  <2>2. PICK op \in DOMAIN CustomerGates[p.kind] :
          \E body \in CustomerBodies[op] :
              req' = [req EXCEPT ![r] = [op |-> op, at |-> "start", by |-> p,
                                         body |-> body, raced |-> FALSE]]
    BY <2>1
  <2>3. PICK body \in CustomerBodies[op] :
              req' = [req EXCEPT ![r] = [op |-> op, at |-> "start", by |-> p,
                                         body |-> body, raced |-> FALSE]]
    BY <2>2
  <2>4. req'[r].at = "start" /\ req'[r].op = op /\ req'[r].body = body
    BY <1>1, <2>3 DEF OfRequests
  <2>5. p.kind = "panel" \/ p.kind = "management"
    BY AdminRequestsAssumption
  <2>6. DOMAIN PanelRoutes = CustomerOps /\ DOMAIN ManagementRoutes \subseteq CustomerOps
    BY DEF PanelRoutes, ManagementRoutes, ManagementReads, ManagementWrites, CustomerOps
  <2>7. op \in CustomerOps
    <3>1. DOMAIN CustomerGates["panel"] = CustomerOps
          /\ DOMAIN CustomerGates["management"] \subseteq CustomerOps
      BY <2>6 DEF CustomerGates
    <3>2. QED
      BY <2>5, <3>1
  <2>8. op = "updatePlan" => body \in PlanUpdateInput
    BY <2>3, <2>7 DEF CustomerBodies, CustomerOps
  <2>9. QED
    BY <2>4, <2>7, <2>8 DEF Body
<1>3. CASE ArriveWithKey(r, "useKey", [key : Requests])
  BY <1>1, <1>3 DEF Ends, ArriveWithKey, OfRequests
<1>4. QED
  BY <1>2, <1>3 DEF CustomerArrive

LEMMA CustomerLinked ==
  ASSUME IInv, References, NEW r \in Requests, CustomerStep(r), UNCHANGED catalogVars
  PROVE  Linked(r)
<1>1. (CustomerOps \cup {"useKey"}) \cap CatalogWork = {}
  BY CatalogOps DEF CustomerOps
<1>2. Works(r)'
  <2>1. CASE req'[r].at = "done"
    BY <2>1, DoneWorks
  <2>2. CASE CustomerArrive(r)
    BY <1>1, <2>2, CustomerArrived, PlainWorks
  <2>3. CASE /\ req'[r].at \in CustomerSteps /\ req'[r].op = req[r].op
             /\ req[r].op \in CustomerOps \cup {"useKey"}
    BY <1>1, <2>3, PlainWorks DEF CustomerSteps
  <2>4. QED
    BY <2>1, <2>2, <2>3, CustomerGoes
<1>3. QED
  BY <1>2, QuietLinked

(* Where a request of the catalog goes.                                    *)
LEMMA CatalogGoes ==
  ASSUME IInv, NEW r \in Requests, Works(r), CatalogStep(r)
  PROVE  req'[r].at = "done" \/ req'[r].op \in CatalogWork
<1>1. CASE Ends(r)
  BY <1>1, EndsDone
<1>2. CASE /\ Running(r) /\ req[r].op \in CatalogWork
           /\ \E step \in {"count", "rows", "upstream", "check", "write", "insert"} : \E value :
                Reads(r, step, <<>>) \/ Reads(r, step, [existing |-> value])
  BY <1>2, ReadsOn
<1>3. CASE CatalogArrive(r)
  <2>1. PICK p \in Principals, op \in Operations :
          /\ op \in DOMAIN CatalogGates[p.kind]
          /\ \E body \in CatalogBodies[op] :
              req' = [req EXCEPT ![r] = [op |-> op, at |-> "start", by |-> p,
                                         body |-> body, raced |-> FALSE]]
    BY <1>3 DEF CatalogArrive, Arrive
  <2>2. req'[r].op = op
    BY <2>1 DEF IInv, Shaped, OfRequests
  <2>3. p.kind = "panel" \/ p.kind = "management"
    BY AdminRequestsAssumption
  <2>4. op \in CatalogWork
    BY <2>1, <2>3 DEF CatalogGates, CatalogWork, CatalogRoutes, ModelReads
  <2>5. QED
    BY <2>2, <2>4
<1>4. CASE CreateProvider(r) \/ UpdateProvider(r) \/ ListModels(r)
  BY <1>1, <1>4 DEF Ends, CreateProvider, UpdateProvider, ListModels
<1>5. CASE DeletesProvider(r) \/ DiscoverModels(r)
  <2>1. Running(r) /\ req[r].op \in {"deleteProvider", "discoverModels"}
    BY <1>5 DEF DeletesProvider, DeleteProvider, DiscoverModels, At, Running
  <2>2. CASE Wrote(r, [req[r] EXCEPT !.at = "delete"])
    <3>1. req'[r] = [req[r] EXCEPT !.at = "delete"] /\ Fields \subseteq DOMAIN req[r]
      BY <2>1, <2>2, WroteMoves DEF IInv, Ready
    <3>2. QED
      BY <2>1, <3>1, CatalogOps DEF Fields
  <2>3. req[r].op \in CatalogWork
    BY <2>1, CatalogOps
  <2>4. QED
    BY <1>1, <1>2, <1>5, <2>1, <2>2, <2>3 DEF Ends, DeletesProvider,
       DeleteProvider, DiscoverModels
<1>6. CASE FindModel(r) \/ CheckEntries(r)
  <2>1. Running(r) /\ req[r].op \in EntryWork
    BY <1>6 DEF FindModel, CheckEntries, Running, Works, EntryWork
  <2>2. req[r].op \in CatalogWork
    BY <2>1, CatalogOps DEF EntryWork
  <2>3. QED
    BY <1>1, <1>2, <1>6, <2>1, <2>2 DEF Ends, FindModel, CheckEntries
<1>7. CASE ChangesModel(r)
  <2>1. At(r, "createModel", "start") => Running(r) /\ req[r].op \in CatalogWork
    BY CatalogOps DEF At, Running
  <2>2. QED
    BY <1>1, <1>2, <1>7, <2>1 DEF Ends, ChangesModel, CreateModel, UpdateModel, DeleteModel
<1>8. QED
  BY <1>3, <1>4, <1>5, <1>6, <1>7 DEF CatalogStep

-----------------------------------------------------------------------------
(* Plans and keys have the types of their schemas.                         *)
PlansStay ==
    \A p \in PlanIds : plans[p].status # "none" => plans'[p].status # "none"

Stocked(r) == Drafts(r)' /\ Wares' /\ PlansStay

LEMMA PatchedPlans == \A b \in PlanUpdateInput : b.plan \in PlanIds
  BY DEF PlanUpdateInput

LEMMA OtherDrafts ==
  ASSUME NEW q \in Requests, Drafts(q), Ready(q), Same(q) \/ Hit(q), PlansStay
  PROVE  Drafts(q)'
<1>0. At(q, "updatePlan", "update") => Body(q).plan \in PlanIds
  BY PatchedPlans DEF Drafts, At, Running
<1>1. CASE Same(q)
  BY <1>0, <1>1 DEF Same, Drafts, Running, At, Body, PlansStay
<1>2. CASE Hit(q)
  <2>1. /\ Running(q) /\ Fields \subseteq DOMAIN req[q]
        /\ req'[q] = [req[q] EXCEPT !.raced = TRUE]
    BY <1>2 DEF Hit, Ready
  <2>2. /\ req'[q].at = req[q].at /\ req'[q].op = req[q].op /\ req'[q].body = req[q].body
        /\ DOMAIN req'[q] = DOMAIN req[q]
        /\ "currency" \in DOMAIN req[q] => req'[q].currency = req[q].currency
    BY <2>1 DEF Fields
  <2>3. QED
    BY <1>0, <2>1, <2>2 DEF Drafts, Running, At, Body, PlansStay
<1>3. QED
  BY <1>1, <1>2

LEMMA PlainDrafts ==
  ASSUME NEW r \in Requests,
         req'[r].at = "done" \/ req'[r].op \notin {"createPlan", "updatePlan"}
  PROVE  Drafts(r)'
  BY DEF Drafts, Running, At

LEMMA SameWares ==
  ASSUME Wares, UNCHANGED <<posted, apiKeys, plans>> PROVE Wares' /\ PlansStay
  BY DEF Wares, Issued, PlansStay

LEMMA PlanWrites ==
  ASSUME IInv, Wares, NEW p, NEW next, plans' = [plans EXCEPT ![p] = next],
         UNCHANGED <<posted, apiKeys>>,
         p \in PlanIds => /\ {"status", "currency"} \subseteq DOMAIN next
                          /\ next.status # "none" /\ next.currency \in Currencies
  PROVE  Wares' /\ PlansStay
<1>1. \A q \in PlanIds : plans'[q] = IF q = p THEN next ELSE plans[q]
  BY DEF IInv, Shaped
<1>2. QED
  BY <1>1 DEF Wares, Issued, PlansStay

LEMMA PlansStocked ==
  ASSUME IInv, Accounts, Wares, NEW r \in Requests, Drafts(r), ChangesPlan(r)
  PROVE  Stocked(r)
<1>1. UNCHANGED <<apiKeys, posted>> /\ Running(r)
  BY DEF ChangesPlan, CreatePlan, UpdatePlan, DeactivatePlan, At, Running
<1>2. CASE Refuses(r) /\ UNCHANGED plans
  BY <1>1, <1>2, RefusesDone, PlainDrafts, SameWares DEF Stocked
<1>3. CASE /\ At(r, "createPlan", "start") /\ UNCHANGED plans
           /\ Reads(r, "insert", [currency |-> currency])
  <2> DEFINE read == [currency |-> currency]
  <2>1. /\ DOMAIN read \cap Fields = {} /\ "currency" \in DOMAIN read
        /\ read["currency"] = currency
    BY DEF Fields
  <2>2. Reads(r, "insert", read)
    BY <1>3
  <2> HIDE DEF read
  <2>3. req'[r].at = "insert" /\ req'[r].op = "createPlan"
    BY <1>1, <1>3, <2>1, <2>2, ReadsMoves DEF At
  <2>4. "currency" \in DOMAIN req'[r] /\ req'[r]["currency"] \in Currencies
    BY <1>1, <2>1, <2>2, ReadsKeep DEF Accounts
  <2>5. Drafts(r)'
    BY <2>3, <2>4 DEF Drafts, Running, At
  <2>6. QED
    BY <1>1, <1>3, <2>5, SameWares DEF Stocked
<1>4. CASE /\ At(r, "createPlan", "insert") /\ Answers(r, FALSE)
           /\ plans' = [plans EXCEPT ![CHOOSE p \in Fresh(plans) : TRUE] =
                [status |-> "active", currency |-> req[r].currency, rules |-> Body(r).rules]]
  <2>1. PICK new : new = CHOOSE p \in Fresh(plans) : TRUE
    OBVIOUS
  <2> DEFINE next == [status |-> "active", currency |-> req[r].currency, rules |-> Body(r).rules]
  <2>2. plans' = [plans EXCEPT ![new] = next]
    BY <1>4, <2>1
  <2>3. /\ {"status", "currency"} \subseteq DOMAIN next
        /\ next.status # "none" /\ next.currency \in Currencies
    BY <1>4 DEF Drafts
  <2> HIDE DEF next
  <2>4. Wares' /\ PlansStay
    BY <1>1, <2>2, <2>3, PlanWrites
  <2>5. QED
    BY <1>4, <2>4, AnswersDone, PlainDrafts DEF Stocked
<1>5. CASE /\ At(r, "updatePlan", "start") /\ UNCHANGED plans
           /\ plans[Body(r).plan].status # "none" /\ Reads(r, "update", <<>>)
  <2>1. /\ req'[r].at = "update" /\ req'[r].op = "updatePlan" /\ Body(r)' = Body(r)
    BY <1>1, <1>5, ReadsMoves DEF At, Fields, Body
  <2>2. Body(r) \in PlanUpdateInput
    BY <1>1, <1>5 DEF Drafts, At
  <2>3. Drafts(r)'
    BY <1>5, <2>1, <2>2 DEF Drafts, Running, At
  <2>4. QED
    BY <1>1, <1>5, <2>3, SameWares DEF Stocked
<1>6. CASE /\ At(r, "updatePlan", "update") /\ Answers(r, FALSE)
           /\ plans' = [plans EXCEPT ![Body(r).plan] =
                IF Body(r).patch = "rateLimits" THEN [@ EXCEPT !.rules = Body(r).to]
                ELSE [@ EXCEPT !.status = IF Body(r).to THEN "active" ELSE "inactive"]]
  <2> DEFINE p == Body(r).plan
             next == IF Body(r).patch = "rateLimits" THEN [plans[p] EXCEPT !.rules = Body(r).to]
                     ELSE [plans[p] EXCEPT !.status =
                                IF Body(r).to THEN "active" ELSE "inactive"]
  <2>1. p \in PlanIds /\ plans[p].status # "none"
    BY <1>1, <1>6, PatchedPlans DEF Drafts, At
  <2>2. plans' = [plans EXCEPT ![p] = next]
    BY <1>6, <2>1 DEF IInv, Shaped
  <2>3. {"status", "currency"} \subseteq DOMAIN plans[p] /\ plans[p].currency \in Currencies
    BY <2>1 DEF Wares
  <2>4. /\ {"status", "currency"} \subseteq DOMAIN next
        /\ next.status # "none" /\ next.currency \in Currencies
    BY <2>1, <2>3
  <2> HIDE DEF next, p
  <2>5. Wares' /\ PlansStay
    BY <1>1, <2>2, <2>4, PlanWrites
  <2>6. QED
    BY <1>6, <2>5, AnswersDone, PlainDrafts DEF Stocked
<1>7. CASE /\ At(r, "deactivatePlan", "start") /\ Answers(r, FALSE)
           /\ plans[Body(r).plan].status # "none"
           /\ plans' = [plans EXCEPT ![Body(r).plan].status = "inactive"]
  <2> DEFINE p == Body(r).plan
             next == [plans[p] EXCEPT !.status = "inactive"]
  <2>1. plans' = [plans EXCEPT ![p] = next]
    BY <1>7 DEF IInv, Shaped
  <2>2. p \in PlanIds => /\ {"status", "currency"} \subseteq DOMAIN plans[p]
                         /\ plans[p].currency \in Currencies
    BY <1>7 DEF Wares
  <2>3. p \in PlanIds => /\ {"status", "currency"} \subseteq DOMAIN next
                         /\ next.status # "none" /\ next.currency \in Currencies
    BY <2>2
  <2> HIDE DEF next, p
  <2>4. Wares' /\ PlansStay
    BY <1>1, <2>1, <2>3, PlanWrites
  <2>5. QED
    BY <1>7, <2>4, AnswersDone, PlainDrafts DEF Stocked
<1>8. QED
  <2>1. CASE CreatePlan(r)
    BY <1>2, <1>3, <1>4, <2>1 DEF CreatePlan
  <2>2. CASE UpdatePlan(r)
    BY <1>2, <1>5, <1>6, <2>2 DEF UpdatePlan
  <2>3. CASE DeactivatePlan(r)
    BY <1>2, <1>7, <2>3 DEF DeactivatePlan
  <2>4. QED
    BY <2>1, <2>2, <2>3 DEF ChangesPlan

LEMMA KeysStocked ==
  ASSUME IInv, Wares, NEW r \in Requests, ChangesKeys(r)
  PROVE  Wares' /\ PlansStay
<1>1. UNCHANGED <<plans, posted>>
  BY DEF ChangesKeys
<1>2. \A k \in Issued' : apiKeys'[k].prefix \in KeyPrefixes
  <2>1. CASE UNCHANGED apiKeys
    BY <2>1 DEF Wares, Issued
  <2>2. CASE \E p \in KeyPrefixes : apiKeys' = [apiKeys EXCEPT ![r] =
                    [customer |-> Body(r).customer, prefix |-> p, status |-> "active"]]
    <3>1. PICK p \in KeyPrefixes : apiKeys' = [apiKeys EXCEPT ![r] =
                    [customer |-> Body(r).customer, prefix |-> p, status |-> "active"]]
      BY <2>2
    <3>2. /\ apiKeys'[r].prefix = p
          /\ \A k \in Requests \ {r} : apiKeys'[k] = apiKeys[k]
      BY <3>1 DEF IInv, Shaped, OfRequests
    <3>3. QED
      BY <3>2 DEF Wares, Issued
  <2>3. CASE PatchKey(r) /\ Body(r).key \in Issued
    <3> DEFINE k == Body(r).key
               status == IF req[r].op = "revokeKey" THEN "revoked" ELSE Body(r).status
    <3>1. apiKeys' = [apiKeys EXCEPT ![k].status = status]
      BY <2>3 DEF PatchKey
    <3>2. k \in Requests /\ {"prefix", "status"} \subseteq DOMAIN apiKeys[k]
      BY <2>3 DEF IInv, Shaped, Issued
    <3> HIDE DEF k, status
    <3>3. /\ \A l \in Requests \ {k} : apiKeys'[l] = apiKeys[l]
          /\ apiKeys'[k] = [apiKeys[k] EXCEPT !.status = status]
      BY <3>1, <3>2 DEF IInv, Shaped, OfRequests
    <3>4. apiKeys'[k].prefix = apiKeys[k].prefix /\ k \in Issued
      BY <2>3, <3>2, <3>3 DEF k
    <3>5. QED
      BY <3>3, <3>4 DEF Wares, Issued
  <2>4. QED
    BY <2>1, <2>2, <2>3 DEF ChangesKeys, IssueKey, PatchKey
<1>3. QED
  BY <1>1, <1>2 DEF Wares, PlansStay

LEMMA CustomerStocked ==
  ASSUME IInv, Accounts, Wares, NEW r \in Requests, Drafts(r), CustomerStep(r)
  PROVE  Stocked(r)
<1>1. CASE ChangesPlan(r)
  BY <1>1, PlansStocked
<1>2. CASE CustomerArrive(r)
  <2>1. /\ req'[r].at = "start" /\ UNCHANGED <<posted, apiKeys, plans>>
        /\ req'[r].op = "updatePlan" => Body(r)' \in PlanUpdateInput
    BY <1>2, CustomerArrived DEF CustomerArrive, customerVars
  <2>2. Drafts(r)'
    BY <2>1 DEF Drafts, Running, At
  <2>3. QED
    BY <2>1, <2>2, SameWares DEF Stocked
<1>3. CASE ~ChangesPlan(r) /\ ~CustomerArrive(r)
  <2>1. req[r].op \notin {"createPlan", "updatePlan"}
    BY <1>3 DEF CustomerStep, GetCustomer, GetActiveSubscription, CreateCustomer,
       InsertWithOpeningBalance, UpdatesCustomer, UpdateCustomer, CloseCustomer, ReadCurrency,
       AdjustBalance, AnswerExisting, UpdateOrganization, Subscribes, Subscribe, ChangesKeys,
       IssueKey, PatchKey, UseKey, At
  <2>2. Drafts(r)'
    BY <1>3, <2>1, CustomerGoes, PlainDrafts
  <2>3. CASE ChangesKeys(r)
    BY <2>2, <2>3, KeysStocked DEF Stocked
  <2>4. CASE ~ChangesKeys(r)
    <3>1. UNCHANGED <<posted, apiKeys, plans>>
      BY <1>3, <2>4 DEF CustomerStep, GetCustomer, GetActiveSubscription, CreateCustomer,
         InsertWithOpeningBalance, UpdatesCustomer, CloseCustomer, ReadCurrency,
         AdjustBalance, AnswerExisting, UpdateOrganization, Subscribes, UseKey, customerVars
    <3>2. QED
      BY <2>2, <3>1, SameWares DEF Stocked
  <2>5. QED
    BY <2>3, <2>4
<1>4. QED
  BY <1>1, <1>2, <1>3

-----------------------------------------------------------------------------
(* All of it together.                                                     *)
Shelves ==
    /\ References /\ (\A r \in Requests : Works(r))
    /\ Wares /\ (\A r \in Requests : Drafts(r))

LEMMA InitShelves == Init => Shelves
<1> SUFFICES ASSUME Init PROVE Shelves
  OBVIOUS
<1>1. /\ req = [r \in Requests |-> Idle] /\ posted \in BOOLEAN
      /\ plans = [p \in PlanIds |-> AbsentPlan]
      /\ apiKeys = [r \in Requests |-> None]
      /\ providers = [p \in ProviderIds |-> AbsentProvider]
      /\ modelCatalog = {} /\ models = [m \in ModelIds |-> AbsentModel]
  BY DEF Init, InitRequests, InitCustomers, InitCatalog
<1>2. \A r \in Requests : Works(r) /\ Drafts(r)
  BY <1>1 DEF Works, Drafts, Running, At, Idle
<1>3. Wares
  BY <1>1 DEF Wares, Issued, AbsentPlan
<1>4. AbsentProvider \in ProviderDoc
  BY DEF AbsentProvider, ProviderDoc
<1>5. AbsentModel \in ModelDoc /\ AbsentModel.entries = <<>> /\ AbsentModel.status = "none"
  <2>1. <<>> \in Seq(EntryDoc)
    BY EmptySeq
  <2>2. QED
    BY <2>1 DEF AbsentModel, ModelDoc
<1>6. CatalogTyped
  BY <1>1, <1>4, <1>5 DEF CatalogTyped
<1>7. Ascends(<<>>) /\ ~Repeats(<<>>)
  <2>1. DOMAIN <<>> = {} /\ Len(<<>>) = 0
    OBVIOUS
  <2>2. Ids(<<>>) = {}
    BY <2>1 DEF Ids
  <2>3. QED
    BY <2>1, <2>2, FS_EmptySet DEF Ascends, Repeats
<1>8. \A m \in ModelIds : models[m].entries = <<>> /\ ~Stored(m)
  BY <1>1, <1>5 DEF Stored
<1>9. References
  BY <1>1, <1>6, <1>7, <1>8 DEF References, RepeatsNoted, InOrder, EntriesResolve, CatalogOwned,
     DistinctEntriesRemain
<1>10. QED
  BY <1>2, <1>3, <1>9 DEF Shelves

LEMMA StepShelves == Books /\ Shelves /\ [Next]_vars => Shelves'
<1> SUFFICES ASSUME Books, Shelves, [Next]_vars PROVE Shelves'
  OBVIOUS
<1>1. /\ IInv /\ Accounts /\ \A r \in Requests : Asks(r)
      /\ References /\ (\A r \in Requests : Works(r))
      /\ Wares /\ (\A r \in Requests : Drafts(r))
  BY DEF Books, Shelves
<1>2. ASSUME NEW r \in Requests, Moves(r), Linked(r), Stocked(r) PROVE Shelves'
  <2>1. References' /\ \A q \in Requests : Works(q)'
    BY <1>1, <1>2, EachWorks
  <2>2. ASSUME NEW q \in Requests, q # r PROVE Drafts(q)'
    BY <1>1, <1>2, <2>2, OtherDrafts DEF IInv, Moves, Stocked
  <2>3. QED
    BY <1>2, <2>1, <2>2 DEF Shelves, Stocked
<1>3. ASSUME NEW r \in Requests, CustomerStep(r), UNCHANGED catalogVars PROVE Shelves'
  <2>1. Moves(r)
    BY <1>1, <1>3, RequestLedger DEF StepOf
  <2>2. QED
    BY <1>1, <1>2, <1>3, <2>1, CustomerLinked, CustomerStocked
<1>4. ASSUME NEW r \in Requests, CatalogStep(r), UNCHANGED customerVars PROVE Shelves'
  <2>1. Moves(r) /\ Linked(r)
    BY <1>1, <1>4, CatalogReads, CatalogLinked
  <2>2. req'[r].at = "done" \/ req'[r].op \in CatalogWork
    BY <1>1, <1>4, CatalogGoes
  <2>3. Stocked(r)
    BY <1>1, <1>4, <2>2, CatalogOps, PlainDrafts, SameWares DEF Stocked, customerVars
  <2>4. QED
    BY <1>2, <2>1, <2>3
<1>5. ASSUME NEW r \in Requests, Stop(r), UNCHANGED <<customerVars, catalogVars>>
      PROVE  Shelves'
  <2>1. Moves(r) /\ req'[r].at = "done"
    BY <1>1, <1>5, AnswerMoves, AnswerDone DEF Stop
  <2>2. Linked(r)
    BY <1>1, <1>5, <2>1, DoneWorks, QuietLinked
  <2>3. Stocked(r)
    BY <1>1, <1>5, <2>1, PlainDrafts, SameWares DEF Stocked, customerVars
  <2>4. QED
    BY <1>2, <2>1, <2>2, <2>3
<1>6. ASSUME UNCHANGED <<req, plans, apiKeys>>, posted' \in BOOLEAN, UNCHANGED catalogVars
      PROVE  Shelves'
  <2>1. References'
    BY <1>1, <1>6 DEF catalogVars, References, CatalogTyped, RepeatsNoted, InOrder,
       EntriesResolve, CatalogOwned, DistinctEntriesRemain, Stored, There, Readable
  <2>2. \A r \in Requests : Works(r)'
    BY <1>1, <1>6 DEF catalogVars, Works, Running, At, Input, HasRead, HasChecked,
       ProvidersExist, There, ModelRefs, Stored, NoRows, MayRemove
  <2>3. Wares' /\ \A r \in Requests : Drafts(r)'
    BY <1>1, <1>6 DEF Wares, Issued, Drafts, Running, At, Body
  <2>4. QED
    BY <2>1, <2>2, <2>3 DEF Shelves
<1>7. CASE BuildIndex /\ UNCHANGED catalogVars
  BY <1>6, <1>7 DEF BuildIndex
<1>8. CASE UNCHANGED vars
  BY <1>1, <1>6, <1>8 DEF vars, customerVars, Wares
<1>9. QED
  BY <1>3, <1>4, <1>5, <1>7, <1>8 DEF Next

(* Every step of every request keeps the documents of the catalog as its   *)
(* operations rely on them, and what each request has checked and read.    *)
THEOREM ShelvesAreKept == Spec => []Shelves
<1>1. Init => Shelves
  BY InitShelves
<1>2. Books /\ Shelves /\ [Next]_vars => Shelves'
  BY StepShelves
<1>3. QED
  BY <1>1, <1>2, BooksAreKept, PTL DEF Spec

(* Documents have the types of their schemas and refer to what is there:   *)
(* an entry of a model to its provider, a row of the provider's catalog to *)
(* it too, unless a request that wrote or deleted was overtaken between    *)
(* its reads and its write. Fallbacks stay in the order of priorities and  *)
(* a model keeps an entry to try, however its entries are removed at once. *)
THEOREM DocumentsAreSound == Spec => []DocumentsSound
<1>1. ASSUME Books, Shelves PROVE DocumentsSound
  <2>1. Accounts /\ References /\ Wares
    BY <1>1 DEF Books, Shelves
  <2>2. CustomersTypeOK
    <3>1. \A c \in CustomerIds : Is(c) =>
            /\ customers[c].status \in {"active", "suspended", "closed"}
            /\ customers[c].currency \in Currencies /\ customers[c].balance \in Int
      BY <2>1 DEF Accounts, CustomerDoc, Is
    <3>2. \A r \in Rows : adjustments[r].customer \in CustomerIds
      BY <2>1 DEF Accounts, Rows, AdjustmentRow
    <3>3. QED
      BY <2>1, <3>1, <3>2 DEF CustomersTypeOK, Accounts, Wares
  <2>3. \A m \in ModelIds : models[m].entries \in Seq(EntryDoc) /\ Ascends(models[m].entries)
    BY <2>1 DEF References, CatalogTyped, ModelDoc, InOrder
  <2>4. CatalogTypeOK
    <3>1. \A m \in ModelIds : \A n \in DOMAIN models[m].entries :
            models[m].entries[n] \in EntryDoc
      BY <2>3, EntryDocs
    <3>2. QED
      BY <2>1, <3>1 DEF CatalogTypeOK, References, CatalogTyped, ProviderDoc, ProviderModelDoc,
         ModelDoc, EntryDoc
  <2>5. FallbacksInOrder
    <3> SUFFICES ASSUME NEW m \in ModelIds, NEW n \in 2 .. Len(models[m].entries)
                 PROVE  models[m].entries[n - 1].priority <= models[m].entries[n].priority
      BY DEF FallbacksInOrder
    <3>1. /\ DOMAIN models[m].entries = 1 .. Len(models[m].entries)
          /\ Len(models[m].entries) \in Nat
      BY <2>3, EntryDocs
    <3>2. n - 1 \in DOMAIN models[m].entries /\ n \in DOMAIN models[m].entries /\ n - 1 <= n
      BY <3>1
    <3>3. QED
      BY <2>3, <3>2 DEF Ascends
  <2>6. QED
    BY <2>1, <2>2, <2>4, <2>5 DEF DocumentsSound, TypeOK, References
<1>2. QED
  BY <1>1, BooksAreKept, ShelvesAreKept, PTL
=============================================================================
