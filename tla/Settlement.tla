----------------------------- MODULE Settlement -----------------------------
(***************************************************************************)
(* The money path of the API.  Every request holds part of its customer's  *)
(* balance and one unit of its rolling "requests" limit before the         *)
(* provider is called (preFlightWorkflow).  What the provider used is then *)
(* settled in one transaction (settleUsage) or, when usage is missing or   *)
(* the transaction fails, left in the settlement outbox, whose rows a      *)
(* reconcile worker of some API process claims under a lease and settles.  *)
(*                                                                         *)
(* All requests belong to one billed customer: balances, counters and rows *)
(* of different customers share nothing.  Prices are frozen when the       *)
(* provider answers, so a request has one Hold and one Price.              *)
(***************************************************************************)
EXTENDS Integers, FiniteSets, Sums

CONSTANTS
  Requests,        \* gateway request ids, one per API call
  Streams,         \* the calls that stream; the others are completions
  Workers,         \* reconcile fibers, one per API process
  Hold,            \* reservedMicros of a call, its preflight estimate
  Price,           \* priceMicros of a call, from the reported usage
  Opening,         \* the customer's balance at the start
  Deltas,          \* amounts of the manual balance adjustments
  UnitCap,         \* capValue of the "requests" rule
  BatchSize,       \* rows a worker claims per tick
  MaxAttempts,     \* OUTBOX_MAX_ATTEMPTS
  MaxAdjustments,  \* bound: manual adjustments in a behaviour
  Budget           \* bound: mishaps of each kind in a behaviour

\* What goes wrong around the code: a MongoDB call that reports an error, a
\* client that disconnects, a process that dies, a lease its worker outlives.
Mishaps == {"error", "disconnect", "crash", "expiry"}

ASSUME SettlementAssumption ==
  /\ Streams \subseteq Requests
  /\ Hold \in [Requests -> Nat]
  /\ Price \in [Requests -> Nat]
  /\ Opening \in Nat
  /\ Deltas \subseteq Int
  /\ UnitCap \in Nat
  /\ BatchSize \in Nat \ {0}
  /\ MaxAttempts \in Nat \ {0}
  /\ MaxAdjustments \in Nat
  /\ Budget \in [Mishaps -> Nat]

VARIABLES
  call,         \* where each API call stands
  reported,     \* calls whose provider reported usage
  customer,     \* the customer document: amount, reserved, open
  window,       \* the "requests" counter of the current bucket
  usage,        \* usage records, by gatewayRequestId (unique index)
  debits,       \* usage_debit adjustments written for each call
  row,          \* settlement outbox, by gatewayRequestId (unique index)
  pc,           \* where each worker stands
  claims,       \* claims of the worker's batch not yet processed
  job,          \* the claim the worker is processing
  \* The rest is history, read by the properties only, and the bounds.
  served,       \* calls whose provider answered
  held,         \* calls whose hold is part of customer.reserved
  counted,      \* calls whose unit is part of window
  adjusted,     \* sum of the manual adjustments
  uncovered,    \* micros taken from the balance outside any hold
  adjustments,  \* number of manual adjustments
  budget        \* mishaps left

api     == <<call, reported, served>>
money   == <<customer, usage, debits, held, uncovered>>
limits  == <<window, counted>>
worker  == <<pc, claims, job>>
manual  == <<adjusted, adjustments>>
vars    == <<api, money, limits, row, worker, manual, budget>>

-----------------------------------------------------------------------------
Claim == [id : Requests, attempts : Nat]
NoJob == [id |-> "none", attempts |-> 0]

CallStates ==
  {"new", "limited", "refused", "ready", "settle", "enqueue",
   "releaseHold", "releaseUnits",
   "rejected", "settled", "queued", "lost", "released", "crashed"}
CallEnds == {"rejected", "settled", "queued", "lost", "released", "crashed"}

WorkerStates ==
  {"claim", "take", "inspect", "renew", "settle", "commit",
   "retry", "reconcile", "abandon"}

RowStates == {"absent", "pending", "in_progress", "reconciled", "abandoned"}
Terminal  == {"reconciled", "abandoned"}

\* Calls, rows and workers are at states of the code, and no count of money,
\* units, debits or attempts is ever negative.
TypeOK ==
  /\ call \in [Requests -> CallStates]
  /\ reported \subseteq Requests
  /\ served \subseteq Requests
  /\ customer \in [amount : Int, reserved : Int, open : BOOLEAN]
  /\ window \in Nat
  /\ usage \subseteq Requests
  /\ debits \in [Requests -> Nat]
  /\ row \in [Requests -> [status : RowStates, attempts : Nat, due : BOOLEAN]]
  /\ pc \in [Workers -> WorkerStates]
  /\ claims \in [Workers -> SUBSET Claim]
  /\ job \in [Workers -> Claim \cup {NoJob}]
  /\ held \subseteq Requests
  /\ counted \subseteq Requests
  /\ adjusted \in Int
  /\ uncovered \in Nat
  /\ adjustments \in Nat
  /\ budget \in [Mishaps -> Nat]

Init ==
  /\ call = [r \in Requests |-> "new"]
  /\ reported = {} /\ served = {}
  /\ customer = [amount |-> Opening, reserved |-> 0, open |-> TRUE]
  /\ window = 0
  /\ usage = {} /\ debits = [r \in Requests |-> 0]
  /\ row = [r \in Requests |->
              [status |-> "absent", attempts |-> 0, due |-> FALSE]]
  /\ pc = [w \in Workers |-> "claim"]
  /\ claims = [w \in Workers |-> {}]
  /\ job = [w \in Workers |-> NoJob]
  /\ held = {} /\ counted = {}
  /\ adjusted = 0 /\ uncovered = 0 /\ adjustments = 0
  /\ budget = Budget

-----------------------------------------------------------------------------
(* Mishaps, and the moves of a call and of a worker. *)

Spend(kind) == /\ budget[kind] > 0
               /\ budget' = [budget EXCEPT ![kind] = @ - 1]

\* The answer of a MongoDB call never reaches the code: the driver reports an
\* error, or the client's disconnect interrupts the fiber awaiting it.
Unanswered == Spend("error") \/ Spend("disconnect")

Goes(r, from, to) == /\ call[r] = from
                     /\ call' = [call EXCEPT ![r] = to]

Moves(w, from, to) == /\ pc[w] = from
                      /\ pc' = [pc EXCEPT ![w] = to]

-----------------------------------------------------------------------------
(* The customer document and the "requests" counter. *)

\* Mutant: admission compares the need with the amount alone.
CanHoldIgnoringHolds(r) == customer.open /\ customer.amount >= Hold[r]

\* reserveBalance: available >= need, customer not closed.
CanHold(r) == customer.open /\ customer.amount - customer.reserved >= Hold[r]

TakeHold(r) == /\ customer' = [customer EXCEPT !.reserved = @ + Hold[r]]
               /\ held' = held \cup {r}
               /\ UNCHANGED <<usage, debits, uncovered>>

\* releaseReserved: matches only while at least the hold is reserved, and
\* asks neither for the status of the customer nor for whose hold it is.
ReturnHold(r) ==
  /\ IF customer.reserved >= Hold[r]
       THEN /\ customer' = [customer EXCEPT !.reserved = @ - Hold[r]]
            /\ held' = held \ {r}
       ELSE UNCHANGED <<customer, held>>
  /\ UNCHANGED <<usage, debits, uncovered>>

\* reserveLimits for one unit of a single rule, in its transaction.
CanCount == window + 1 <= UnitCap
TakeUnit(r) == window' = window + 1 /\ counted' = counted \cup {r}

\* releaseLimits: the counter is floored at zero.
ReturnUnit(r) == /\ window' = IF window > 0 THEN window - 1 ELSE 0
                 /\ counted' = counted \ {r}

-----------------------------------------------------------------------------
(* settleUsage. *)

\* Mutant: no idempotency lookup and no unique index.
NeverSettled(r) == FALSE

AlreadySettled(r) == r \in usage

\* Mutant: the debit does not ask for the price.
CanSettleUnfunded(r) ==
  Hold[r] > 0 \/ Price[r] > 0 => customer.open /\ customer.reserved >= Hold[r]

\* The filter of settleWithReservation, and of debitBalance without a hold.
CanSettle(r) ==
  Hold[r] > 0 \/ Price[r] > 0 =>
    /\ customer.open
    /\ Price[r] > 0 => customer.amount >= Price[r]
    /\ customer.reserved >= Hold[r]

Overrun(r) == IF Price[r] > Hold[r] THEN Price[r] - Hold[r] ELSE 0

\* Mutant: the debit leaves the hold reserved.
DebitKeepsHold(r) ==
  /\ usage' = usage \cup {r} /\ held' = held \ {r}
  /\ customer' = [customer EXCEPT !.amount = @ - Price[r]]
  /\ debits' = [debits EXCEPT ![r] = IF Price[r] > 0 THEN @ + 1 ELSE @]
  /\ uncovered' = uncovered + Overrun(r)

\* One transaction: usage record, debit with release of the hold, ledger
\* entry.  settleLimits moves the unit by actual - reserved = 0.
SettleTxn(r) ==
  /\ usage' = usage \cup {r}
  /\ customer' = [customer EXCEPT !.amount = @ - Price[r],
                                  !.reserved = @ - Hold[r]]
  /\ debits' = [debits EXCEPT ![r] = IF Price[r] > 0 THEN @ + 1 ELSE @]
  /\ held' = held \ {r}
  /\ uncovered' = uncovered + Overrun(r)

\* Mutant: a failed guard is not rethrown and reads as success.
SettleOkSwallowed(r) ==
  \/ AlreadySettled(r) /\ UNCHANGED money
  \/ ~AlreadySettled(r) /\ CanSettle(r) /\ SettleTxn(r)
  \/ ~AlreadySettled(r) /\ ~CanSettle(r) /\ UNCHANGED money

SettleOk(r) == \/ AlreadySettled(r) /\ UNCHANGED money
               \/ ~AlreadySettled(r) /\ CanSettle(r) /\ SettleTxn(r)

SettleRefused(r) == ~AlreadySettled(r) /\ ~CanSettle(r) /\ UNCHANGED money

-----------------------------------------------------------------------------
(* An API call: preflight. *)

AdmitLimits(r) == /\ Goes(r, "new", "limited")
                  /\ CanCount /\ TakeUnit(r)
                  /\ UNCHANGED <<reported, served, money, row, worker, manual, budget>>

RejectLimits(r) == /\ Goes(r, "new", "rejected")
                   /\ ~CanCount
                   /\ UNCHANGED <<reported, served, money, limits, row, worker, manual, budget>>

\* The reservation is never heard of: the call ends, whatever was written.
LimitsUnanswered(r) ==
  /\ Goes(r, "new", "rejected")
  /\ Unanswered
  /\ \/ CanCount /\ TakeUnit(r)
     \/ UNCHANGED limits
  /\ UNCHANGED <<reported, served, money, row, worker, manual>>

HoldBalance(r) == /\ Goes(r, "limited", "ready")
                  /\ IF Hold[r] > 0 THEN CanHold(r) /\ TakeHold(r)
                                    ELSE UNCHANGED money
                  /\ UNCHANGED <<reported, served, limits, row, worker, manual, budget>>

RefuseBalance(r) == /\ Goes(r, "limited", "refused")
                    /\ Hold[r] > 0 /\ ~CanHold(r)
                    /\ UNCHANGED <<reported, served, money, limits, row, worker, manual, budget>>

\* mapError ends the call without the releaseLimits of the refusal.
HoldUnanswered(r) ==
  /\ Goes(r, "limited", "rejected")
  /\ Hold[r] > 0
  /\ Unanswered
  /\ \/ CanHold(r) /\ TakeHold(r)
     \/ UNCHANGED money
  /\ UNCHANGED <<reported, served, limits, row, worker, manual>>

\* Best effort: an error of releaseLimits is swallowed.
ReleaseRefused(r) ==
  /\ Goes(r, "refused", "rejected")
  /\ \/ ReturnUnit(r) /\ UNCHANGED budget
     \/ UNCHANGED limits /\ Unanswered
  /\ UNCHANGED <<reported, served, money, row, worker, manual>>

-----------------------------------------------------------------------------
(* An API call: provider, settlement, release. *)

ProviderReports(r) ==
  /\ Goes(r, "ready", "settle")
  /\ reported' = reported \cup {r}
  /\ served' = served \cup {r}
  /\ UNCHANGED <<money, limits, row, worker, manual, budget>>

\* No usage in the answer, or a stream cut after its first chunk.
ProviderSilent(r) ==
  /\ Goes(r, "ready", "enqueue")
  /\ served' = served \cup {r}
  /\ UNCHANGED <<reported, money, limits, row, worker, manual, budget>>

\* Every entry failed, or the client left before the provider answered.
ProviderFails(r) ==
  /\ Goes(r, "ready", "releaseHold")
  /\ UNCHANGED <<reported, served, money, limits, row, worker, manual, budget>>

SettleCall(r) ==
  /\ \/ Goes(r, "settle", "settled") /\ SettleOk(r)
     \/ Goes(r, "settle", "enqueue") /\ SettleRefused(r)
  /\ UNCHANGED <<reported, served, limits, row, worker, manual, budget>>

SettleCallErrs(r) ==
  /\ Goes(r, "settle", "enqueue")
  /\ Spend("error")
  /\ SettleOk(r) \/ UNCHANGED money
  /\ UNCHANGED <<reported, served, limits, row, worker, manual>>

\* A completion runs under the request's abort signal; a stream does not.
InterruptSettle(r) ==
  /\ r \notin Streams
  /\ Goes(r, "settle", "releaseHold")
  /\ Spend("disconnect")
  /\ SettleOk(r) \/ UNCHANGED money
  /\ UNCHANGED <<reported, served, limits, row, worker, manual>>

NewRow == [status |-> "pending", attempts |-> 0, due |-> TRUE]

\* insertOrGetByGatewayRequestId.
InsertRow(r) ==
  row' = IF row[r].status = "absent" THEN [row EXCEPT ![r] = NewRow] ELSE row

EnqueueCall(r) ==
  /\ Goes(r, "enqueue", "queued")
  /\ InsertRow(r)
  /\ UNCHANGED <<reported, served, money, limits, worker, manual, budget>>

\* A completion releases its holds on the way out; a stream swallows the error.
EnqueueCallErrs(r) ==
  /\ \/ r \in Streams /\ Goes(r, "enqueue", "lost") /\ Spend("error")
     \/ r \notin Streams /\ Goes(r, "enqueue", "releaseHold") /\ Unanswered
  /\ InsertRow(r) \/ UNCHANGED row
  /\ UNCHANGED <<reported, served, money, limits, worker, manual>>

\* releaseAllPreflightHolds: balance, then limits, both best effort.
ReleaseHold(r) ==
  /\ Goes(r, "releaseHold", "releaseUnits")
  /\ \/ ReturnHold(r) /\ UNCHANGED budget
     \/ UNCHANGED money /\ Spend("error")
  /\ UNCHANGED <<reported, served, limits, row, worker, manual>>

ReleaseUnits(r) ==
  /\ Goes(r, "releaseUnits", "released")
  /\ \/ ReturnUnit(r) /\ UNCHANGED budget
     \/ UNCHANGED limits /\ Spend("error")
  /\ UNCHANGED <<reported, served, money, row, worker, manual>>

CrashCall(r) ==
  /\ call[r] \notin CallEnds
  /\ call' = [call EXCEPT ![r] = "crashed"]
  /\ Spend("crash")
  /\ UNCHANGED <<reported, served, money, limits, row, worker, manual>>

-----------------------------------------------------------------------------
(* The settlement outbox. *)

\* claimFilter: still in progress under this very claim.  The claim token is
\* fresh for every claim and so is the number of attempts, which stands for it.
Fenced(c) == row[c.id].status = "in_progress" /\ row[c.id].attempts = c.attempts

\* Mutant: only pending rows are claimed, expired leases are not.
ClaimablePending(r) == row[r].status = "pending" /\ row[r].due

Claimable(r) == row[r].status \in {"pending", "in_progress"} /\ row[r].due

\* Mutant: a claim does not count as an attempt.
SameAttempts(r) == row[r].attempts

NextAttempts(r) == row[r].attempts + 1

SetStatus(c, s) ==
  row' = IF Fenced(c) THEN [row EXCEPT ![c.id].status = s, ![c.id].due = FALSE]
                      ELSE row

\* releaseOutboxAfterFailure.
FailedTo(c) == IF c.attempts >= MaxAttempts THEN "abandoned" ELSE "pending"

(* A tick of a worker claims a batch, then processes it row by row. *)

ClaimRow(w, r) ==
  /\ pc[w] = "claim"
  /\ Claimable(r)
  /\ Cardinality(claims[w]) < BatchSize
  /\ \A c \in claims[w] : c.id # r
  /\ row' = [row EXCEPT ![r] = [status |-> "in_progress",
                                attempts |-> NextAttempts(r), due |-> FALSE]]
  /\ claims' = [claims EXCEPT
                  ![w] = @ \cup {[id |-> r, attempts |-> NextAttempts(r)]}]
  /\ UNCHANGED <<api, money, limits, pc, job, manual, budget>>

\* An error while claiming loses the rows claimed so far until their lease ends.
LoseBatch(w) ==
  /\ pc[w] = "claim" /\ claims[w] # {}
  /\ Spend("error")
  /\ claims' = [claims EXCEPT ![w] = {}]
  /\ UNCHANGED <<api, money, limits, row, pc, job, manual>>

TakeJob(w) ==
  /\ pc[w] \in {"claim", "take"}
  /\ \E c \in claims[w] :
       /\ job' = [job EXCEPT ![w] = c]
       /\ claims' = [claims EXCEPT ![w] = @ \ {c}]
  /\ pc' = [pc EXCEPT ![w] = "inspect"]
  /\ UNCHANGED <<api, money, limits, row, manual, budget>>

EndBatch(w) ==
  /\ Moves(w, "take", "claim") /\ claims[w] = {}
  /\ UNCHANGED <<api, money, limits, row, claims, job, manual, budget>>

\* reconcileOutboxRow decides by the frozen usage and the usage record.
Inspect(w) ==
  LET r == job[w].id IN
  /\ \/ Moves(w, "inspect", "abandon") /\ r \notin reported
     \/ Moves(w, "inspect", "reconcile") /\ r \in reported /\ AlreadySettled(r)
     \/ Moves(w, "inspect", "renew") /\ r \in reported /\ ~AlreadySettled(r)
  /\ UNCHANGED <<api, money, limits, row, claims, job, manual, budget>>

\* A failed lookup reads as "no usage record".
InspectErrs(w) ==
  /\ Moves(w, "inspect", "renew")
  /\ job[w].id \in reported
  /\ Spend("error")
  /\ UNCHANGED <<api, money, limits, row, claims, job, manual>>

ExtendLease(c) == row' = [row EXCEPT ![c.id].due = FALSE]

Renew(w) ==
  /\ \/ Moves(w, "renew", "settle") /\ Fenced(job[w]) /\ ExtendLease(job[w])
     \/ Moves(w, "renew", "take") /\ ~Fenced(job[w]) /\ UNCHANGED row
  /\ UNCHANGED <<api, money, limits, claims, job, manual, budget>>

RenewErrs(w) ==
  /\ Moves(w, "renew", "take")
  /\ Spend("error")
  /\ \/ Fenced(job[w]) /\ ExtendLease(job[w])
     \/ UNCHANGED row
  /\ UNCHANGED <<api, money, limits, claims, job, manual>>

\* settleUsage looks the usage record up before it opens its transaction.
SettleLookup(w) ==
  /\ \/ Moves(w, "settle", "reconcile") /\ AlreadySettled(job[w].id)
     \/ Moves(w, "settle", "commit") /\ ~AlreadySettled(job[w].id)
  /\ UNCHANGED <<api, money, limits, row, claims, job, manual, budget>>

\* The transaction looks the record up again.  A worker that lost the race for
\* the unique index under its own snapshot fails like a refusal.
SettleCommit(w) ==
  LET r == job[w].id IN
  /\ \/ Moves(w, "commit", "reconcile") /\ SettleOk(r)
     \/ Moves(w, "commit", "retry") /\ AlreadySettled(r) /\ UNCHANGED money
     \/ Moves(w, "commit", "retry") /\ SettleRefused(r)
  /\ UNCHANGED <<api, limits, row, claims, job, manual, budget>>

SettleErrs(w) ==
  /\ Spend("error")
  /\ \/ Moves(w, "settle", "retry") /\ UNCHANGED money
     \/ Moves(w, "commit", "retry") /\ (SettleOk(job[w].id) \/ UNCHANGED money)
  /\ UNCHANGED <<api, limits, row, claims, job, manual>>

\* markReconciled, markAbandoned, releaseAfterFailure; an error is a stale claim.
Mark(w) ==
  /\ \/ Moves(w, "reconcile", "take") /\ SetStatus(job[w], "reconciled")
     \/ Moves(w, "abandon", "take") /\ SetStatus(job[w], "abandoned")
     \/ Moves(w, "retry", "take") /\ SetStatus(job[w], FailedTo(job[w]))
  /\ UNCHANGED <<api, money, limits, claims, job, manual, budget>>

MarkErrs(w) ==
  /\ pc[w] \in {"reconcile", "abandon", "retry"}
  /\ pc' = [pc EXCEPT ![w] = "take"]
  /\ Spend("error")
  /\ UNCHANGED <<api, money, limits, row, claims, job, manual>>

CrashWorker(w) ==
  /\ pc[w] # "claim" \/ claims[w] # {}
  /\ pc' = [pc EXCEPT ![w] = "claim"]
  /\ claims' = [claims EXCEPT ![w] = {}]
  /\ job' = [job EXCEPT ![w] = NoJob]
  /\ Spend("crash")
  /\ UNCHANGED <<api, money, limits, row, manual>>

-----------------------------------------------------------------------------
(* Time, and the operator of the panel. *)

\* Some worker still means to act on the current claim of the row.
Attended(r) ==
  \E w \in Workers :
    \/ \E c \in claims[w] : c.id = r /\ Fenced(c)
    \/ pc[w] \notin {"claim", "take"} /\ job[w].id = r /\ Fenced(job[w])

\* nextAttemptAt passes: the backoff of a pending row, the lease of a row
\* whose worker is gone, or a lease its worker outlives.
BecomeDue(r) ==
  /\ row[r].status \in {"pending", "in_progress"} /\ ~row[r].due
  /\ row' = [row EXCEPT ![r].due = TRUE]
  /\ IF row[r].status = "in_progress" /\ Attended(r)
       THEN Spend("expiry") ELSE UNCHANGED budget
  /\ UNCHANGED <<api, money, limits, worker, manual>>

\* adjustBalance: a plain $inc, without regard to holds or status.
AdjustBalance(d) ==
  /\ adjustments < MaxAdjustments
  /\ customer' = [customer EXCEPT !.amount = @ + d]
  /\ adjusted' = adjusted + d
  /\ uncovered' = IF d < 0 THEN uncovered - d ELSE uncovered
  /\ adjustments' = adjustments + 1
  /\ UNCHANGED <<api, usage, debits, held, limits, row, worker, budget>>

\* closeCustomer, and updateCustomer setting the status back.
SetOpen(b) ==
  /\ customer' = [customer EXCEPT !.open = b]
  /\ UNCHANGED <<api, usage, debits, held, uncovered, limits, row, worker, manual, budget>>

-----------------------------------------------------------------------------
Call(r) ==
  \/ AdmitLimits(r) \/ RejectLimits(r) \/ LimitsUnanswered(r)
  \/ HoldBalance(r) \/ RefuseBalance(r) \/ HoldUnanswered(r) \/ ReleaseRefused(r)
  \/ ProviderReports(r) \/ ProviderSilent(r) \/ ProviderFails(r)
  \/ SettleCall(r) \/ SettleCallErrs(r) \/ InterruptSettle(r)
  \/ EnqueueCall(r) \/ EnqueueCallErrs(r)
  \/ ReleaseHold(r) \/ ReleaseUnits(r)

Work(w) ==
  \/ \E r \in Requests : ClaimRow(w, r)
  \/ LoseBatch(w) \/ TakeJob(w) \/ EndBatch(w)
  \/ Inspect(w) \/ InspectErrs(w) \/ Renew(w) \/ RenewErrs(w)
  \/ SettleLookup(w) \/ SettleCommit(w) \/ SettleErrs(w)
  \/ Mark(w) \/ MarkErrs(w)

Next ==
  \/ \E r \in Requests : Call(r) \/ CrashCall(r) \/ BecomeDue(r)
  \/ \E w \in Workers : Work(w) \/ CrashWorker(w)
  \/ \E d \in Deltas : AdjustBalance(d)
  \/ \E b \in BOOLEAN : SetOpen(b)

Spec == Init /\ [][Next]_vars

\* A call and a reconcile loop run on unless their process dies, and time
\* passes.  Nothing is assumed of the operator, of clients or of mishaps.
Fairness == /\ \A r \in Requests : WF_vars(Call(r)) /\ WF_vars(BecomeDue(r))
            /\ \A w \in Workers : WF_vars(Work(w))

FairSpec == Spec /\ Fairness

-----------------------------------------------------------------------------
(* Properties. *)

\* settleUsage is "exactly-once": however often API calls, workers with stale
\* claims and unanswered transactions settle a request, it is debited once if
\* a usage record exists, and not at all otherwise.
ExactlyOnce ==
  \A r \in Requests :
    debits[r] = IF r \in usage /\ Price[r] > 0 THEN 1 ELSE 0

\* reserveBalance admits by amount - reserved, settlement debits by amount
\* alone: the holds never exceed the balance by more than what manual debits
\* and prices above their hold took from it.
BalanceCovered ==
  /\ 0 <= customer.reserved
  /\ customer.reserved <= customer.amount + uncovered

\* A row the worker marks reconciled has a usage record.
ReconciledIsBilled ==
  \A r \in Requests : row[r].status = "reconciled" => r \in usage

MyClaims(w) ==
  claims[w] \cup (IF pc[w] \in {"claim", "take"} THEN {} ELSE {job[w]})

\* The fence: of all claims ever made of a row at most one is current, whether
\* its worker still has it in the batch or is working on it.
OneCurrentClaim ==
  \A v, w \in Workers : \A c \in MyClaims(v), d \in MyClaims(w) :
    v # w /\ c.id = d.id => c.attempts # d.attempts

\* A reconciled or abandoned row is never touched again, not even by a worker
\* whose lease ran out while it was settling.
TerminalRowsStay ==
  [][\A r \in Requests : row[r].status \in Terminal => row'[r] = row[r]]_row

Billing == INSTANCE BillOnce WITH balance <- customer.amount, billed <- usage

\* The balance and the records follow the abstract billing, step by step.
BillsOnce == Billing!Spec

\* Completions that end without their settlement being heard of, although the
\* provider answered: they return a hold that a settlement may take as well.
Interrupted ==
  {r \in served \ Streams :
     call[r] \in {"releaseHold", "releaseUnits", "released", "crashed"}}

\* reserved is the sum of the holds not yet settled or released and the counter
\* the number of units not released.  Nothing is ever held that no call accounts
\* for, and no hold is returned twice but by an interrupted completion.
HoldsAccounted == /\ customer.reserved <= Total(Hold, held)
                  /\ Interrupted = {} => customer.reserved = Total(Hold, held)
                  /\ window = Cardinality(counted)

\* Every outbox row is eventually reconciled or abandoned.
RowsResolve ==
  \A r \in Requests :
    row[r].status \in {"pending", "in_progress"} ~> row[r].status \in Terminal

\* "Provider finished: always settle (even if client later disconnects)."
ProviderFinishedSettles ==
  \A r \in served :
    call[r] = "released" => r \in usage \/ row[r].status # "absent"
=============================================================================
