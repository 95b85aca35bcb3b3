-------------------------- MODULE SettlementProofs --------------------------
(***************************************************************************)
(* Proofs about Settlement for every set of calls and workers, every price *)
(* and every bound: types, the books (ExactlyOnce, BalanceCovered) and the *)
(* abstract billing they implement (BillsOnce), the outbox rows with their *)
(* claims, and whose holds and units the counters are made of              *)
(* (HoldsAccounted).  After them the rolling counters that RateLimits      *)
(* takes out of a call: their books and their cap, for every set of calls, *)
(* estimate and usage, every cap and window and every number of attempts.  *)
(***************************************************************************)
EXTENDS Settlement, RateLimits, SumTheorems

USE SettlementAssumption

-----------------------------------------------------------------------------
(* Type correctness, by the groups of variables an action writes together. *)

MoneyTyped == /\ customer \in [amount : Int, reserved : Int, open : BOOLEAN]
              /\ usage \subseteq Requests
              /\ debits \in [Requests -> Nat]
              /\ held \subseteq Requests
              /\ uncovered \in Nat

LimitsTyped == window \in Nat /\ counted \subseteq Requests

RowTyped ==
  row \in [Requests -> [status : RowStates, attempts : Nat, due : BOOLEAN]]

WorkerTyped == /\ pc \in [Workers -> WorkerStates]
               /\ claims \in [Workers -> SUBSET Claim]
               /\ job \in [Workers -> Claim \cup {NoJob}]

BudgetTyped == budget \in [Mishaps -> Nat]

LEMMA TypeGroups ==
  TypeOK <=> /\ call \in [Requests -> CallStates]
             /\ reported \subseteq Requests /\ served \subseteq Requests
             /\ MoneyTyped /\ LimitsTyped /\ RowTyped /\ WorkerTyped
             /\ adjusted \in Int /\ adjustments \in Nat
             /\ BudgetTyped
  BY DEF TypeOK, MoneyTyped, LimitsTyped, RowTyped, WorkerTyped, BudgetTyped

LEMMA InitTyped == Init => TypeOK
  BY DEF Init, TypeOK, CallStates, WorkerStates, RowStates, NoJob, Claim

\* A mishap spends one of its kind.
LEMMA SpendTyped ==
  ASSUME BudgetTyped, NEW kind \in Mishaps, Spend(kind) PROVE BudgetTyped'
  BY DEF BudgetTyped, Spend

LEMMA UnansweredTyped == ASSUME BudgetTyped, Unanswered PROVE BudgetTyped'
  BY SpendTyped DEF Unanswered, Mishaps

LEMMA UnchangedTyped ==
  /\ MoneyTyped /\ UNCHANGED money => MoneyTyped'
  /\ LimitsTyped /\ UNCHANGED limits => LimitsTyped'
  /\ RowTyped /\ UNCHANGED row => RowTyped'
  /\ WorkerTyped /\ UNCHANGED worker => WorkerTyped'
  /\ BudgetTyped /\ UNCHANGED budget => BudgetTyped'
  BY DEF MoneyTyped, LimitsTyped, RowTyped, WorkerTyped, BudgetTyped,
         money, limits, worker

\* Taking and returning a hold, or settling it, keeps the books well typed.
LEMMA HoldTyped ==
  ASSUME MoneyTyped, NEW r \in Requests, TakeHold(r) \/ ReturnHold(r)
  PROVE  MoneyTyped'
<1>1. CASE TakeHold(r)
  BY <1>1 DEF MoneyTyped, TakeHold
<1>2. CASE ReturnHold(r)
  BY <1>2 DEF MoneyTyped, ReturnHold
<1>3. QED
  BY <1>1, <1>2

LEMMA OverrunTyped == ASSUME NEW r \in Requests PROVE Overrun(r) \in Nat
  BY DEF Overrun

LEMMA SettleTyped ==
  ASSUME MoneyTyped, NEW r \in Requests, SettleOk(r) PROVE MoneyTyped'
<1>1. CASE UNCHANGED money
  BY <1>1, UnchangedTyped
<1>2. CASE SettleTxn(r)
  <2>1. customer' \in [amount : Int, reserved : Int, open : BOOLEAN]
    <3>1. customer' = [customer EXCEPT !.amount = @ - Price[r],
                                       !.reserved = @ - Hold[r]]
      BY <1>2 DEF SettleTxn
    <3>2. /\ customer.amount - Price[r] \in Int
          /\ customer.reserved - Hold[r] \in Int
      BY DEF MoneyTyped
    <3>3. QED
      BY <3>1, <3>2 DEF MoneyTyped
  <2>2. usage' \subseteq Requests /\ held' \subseteq Requests
    BY <1>2 DEF MoneyTyped, SettleTxn
  <2>3. debits' \in [Requests -> Nat]
    BY <1>2 DEF MoneyTyped, SettleTxn
  <2>4. uncovered' \in Nat
    BY <1>2, OverrunTyped DEF MoneyTyped, SettleTxn
  <2>5. QED
    BY <2>1, <2>2, <2>3, <2>4 DEF MoneyTyped
<1>3. QED
  BY <1>1, <1>2 DEF SettleOk

LEMMA UnitTyped ==
  ASSUME LimitsTyped, NEW r \in Requests, TakeUnit(r) \/ ReturnUnit(r)
  PROVE  LimitsTyped'
  BY DEF LimitsTyped, TakeUnit, ReturnUnit

LEMMA InsertTyped ==
  ASSUME RowTyped, NEW r \in Requests, InsertRow(r) PROVE RowTyped'
  BY DEF RowTyped, InsertRow, NewRow, RowStates

\* A call's move leaves every call in one of its states.
LEMMA GoesTyped ==
  ASSUME call \in [Requests -> CallStates], NEW r \in Requests, NEW from,
         NEW to \in CallStates, Goes(r, from, to)
  PROVE  call' \in [Requests -> CallStates]
  BY DEF Goes

\* Every step of an API call keeps the types.
LEMMA CallTyped == ASSUME TypeOK, NEW r \in Requests, Call(r) PROVE TypeOK'
<1> USE DEF Call, AdmitLimits, RejectLimits, LimitsUnanswered,
            HoldBalance, RefuseBalance, HoldUnanswered, ReleaseRefused,
            ProviderReports, ProviderSilent, ProviderFails, SettleCall,
            SettleCallErrs, InterruptSettle, EnqueueCall, EnqueueCallErrs,
            ReleaseHold, ReleaseUnits
<1>1. /\ call \in [Requests -> CallStates]
      /\ reported \subseteq Requests /\ served \subseteq Requests
      /\ MoneyTyped /\ LimitsTyped /\ RowTyped /\ WorkerTyped
      /\ adjusted \in Int /\ adjustments \in Nat /\ BudgetTyped
  BY TypeGroups
<1>2. call' \in [Requests -> CallStates]
  <2>1. \A from, to : Goes(r, from, to) /\ to \in CallStates
                      => call' \in [Requests -> CallStates]
    BY <1>1, GoesTyped
  <2>2. QED
    BY <2>1 DEF CallStates
<1>3. reported' \subseteq Requests /\ served' \subseteq Requests
  BY <1>1
<1>4. MoneyTyped'
  BY <1>1, HoldTyped, SettleTyped, UnchangedTyped DEF SettleRefused
<1>5. LimitsTyped'
  BY <1>1, UnitTyped, UnchangedTyped
<1>6. RowTyped'
  BY <1>1, InsertTyped, UnchangedTyped
<1>7. BudgetTyped'
  BY <1>1, SpendTyped, UnansweredTyped, UnchangedTyped DEF Mishaps
<1>8. UNCHANGED <<pc, claims, job, adjusted, adjustments>>
  BY DEF worker, manual
<1>9. WorkerTyped' /\ adjusted' \in Int /\ adjustments' \in Nat
  BY <1>1, <1>8 DEF WorkerTyped
<1>10. QED
  BY <1>2, <1>3, <1>4, <1>5, <1>6, <1>7, <1>9 DEF
     TypeOK, MoneyTyped, LimitsTyped, RowTyped, WorkerTyped, BudgetTyped

-----------------------------------------------------------------------------
(* The outbox. *)

\* Claims and marks.
LEMMA StatusTyped ==
  ASSUME RowTyped, NEW c \in Claim, NEW s \in RowStates, SetStatus(c, s)
  PROVE  RowTyped'
<1>1. c.id \in Requests
  BY DEF Claim
<1>2. row[c.id] \in [status : RowStates, attempts : Nat, due : BOOLEAN]
  BY <1>1 DEF RowTyped
<1>3. CASE Fenced(c)
  <2>1. row' = [row EXCEPT ![c.id] = [row[c.id] EXCEPT !.status = s, !.due = FALSE]]
    BY <1>1, <1>2, <1>3 DEF SetStatus, RowTyped
  <2>2. QED
    BY <1>1, <1>2, <2>1 DEF RowTyped
<1>4. QED
  BY <1>3 DEF SetStatus, RowTyped

LEMMA ExtendTyped ==
  ASSUME RowTyped, NEW c \in Claim, ExtendLease(c) PROVE RowTyped'
  BY DEF RowTyped, ExtendLease, Claim

\* A worker past TakeJob has a claim in hand.
HasJob == \A w \in Workers : pc[w] \notin {"claim", "take"} => job[w] \in Claim

LEMMA ClaimRowTyped ==
  ASSUME TypeOK, NEW w \in Workers, NEW r \in Requests, ClaimRow(w, r),
         HasJob
  PROVE  TypeOK' /\ HasJob'
<1>1. RowTyped /\ WorkerTyped
  BY TypeGroups
<1>2. NextAttempts(r) \in Nat
  BY <1>1 DEF RowTyped, NextAttempts
<1>3. RowTyped'
  BY <1>1, <1>2 DEF ClaimRow, RowTyped, RowStates
<1>4. [id |-> r, attempts |-> NextAttempts(r)] \in Claim
  BY <1>2 DEF Claim
<1>5. claims' \in [Workers -> SUBSET Claim]
  BY <1>1, <1>4 DEF ClaimRow, WorkerTyped
<1>6. WorkerTyped'
  BY <1>1, <1>5 DEF ClaimRow, WorkerTyped
<1>7. MoneyTyped' /\ LimitsTyped' /\ BudgetTyped'
  BY TypeGroups, UnchangedTyped DEF ClaimRow
<1>8. UNCHANGED <<call, reported, served, adjusted, adjustments>>
  BY DEF ClaimRow, api, manual
<1>9. HasJob'
  BY DEF ClaimRow, HasJob
<1>10. QED
  BY <1>3, <1>6, <1>7, <1>8, <1>9 DEF
     TypeOK, MoneyTyped, LimitsTyped, RowTyped, WorkerTyped, BudgetTyped

\* A worker's move within its job leaves it its claim.
LEMMA MovesTyped ==
  ASSUME WorkerTyped, HasJob, NEW w \in Workers, NEW from,
         NEW to \in WorkerStates, Moves(w, from, to),
         to \in {"claim", "take"} \/ from \notin {"claim", "take"},
         UNCHANGED <<claims, job>>
  PROVE  WorkerTyped' /\ HasJob'
<1>1. pc' \in [Workers -> WorkerStates]
  BY DEF WorkerTyped, Moves
<1>2. WorkerTyped'
  BY <1>1 DEF WorkerTyped
<1>3. HasJob'
  BY DEF HasJob, WorkerTyped, Moves
<1>4. QED
  BY <1>2, <1>3

LEMMA TakeJobTyped ==
  ASSUME WorkerTyped, HasJob, NEW w \in Workers, TakeJob(w)
  PROVE  WorkerTyped' /\ HasJob'
<1>1. PICK c \in claims[w] : /\ job' = [job EXCEPT ![w] = c]
                             /\ claims' = [claims EXCEPT ![w] = @ \ {c}]
  BY DEF TakeJob
<1>2. c \in Claim
  BY <1>1 DEF WorkerTyped
<1>3. pc' \in [Workers -> WorkerStates]
  BY DEF TakeJob, WorkerTyped, WorkerStates
<1>4. WorkerTyped'
  BY <1>1, <1>2, <1>3 DEF WorkerTyped
<1>5. HasJob'
  BY <1>1, <1>2 DEF TakeJob, HasJob, WorkerTyped
<1>6. QED
  BY <1>4, <1>5

\* What a worker writes when it is past claiming.
LEMMA WorkTyped ==
  ASSUME TypeOK, HasJob, NEW w \in Workers, Work(w) PROVE TypeOK' /\ HasJob'
<1>1. CASE \E r \in Requests : ClaimRow(w, r)
  BY <1>1, ClaimRowTyped
<1>2. ASSUME \/ LoseBatch(w) \/ TakeJob(w) \/ EndBatch(w)
             \/ Inspect(w) \/ InspectErrs(w) \/ Renew(w) \/ RenewErrs(w)
             \/ SettleLookup(w) \/ SettleCommit(w) \/ SettleErrs(w)
             \/ Mark(w) \/ MarkErrs(w)
      PROVE  TypeOK' /\ HasJob'
  <2> USE <1>2 DEF EndBatch, Inspect, InspectErrs, Renew, RenewErrs, SettleLookup,
                   SettleCommit, SettleErrs, Mark
  <2>1. MoneyTyped /\ LimitsTyped /\ RowTyped /\ WorkerTyped /\ BudgetTyped
    BY TypeGroups
  <2>2. MoneyTyped'
    <3>1. CASE SettleCommit(w) \/ SettleErrs(w)
      <4>1. job[w].id \in Requests
        BY <3>1 DEF HasJob, Claim, Moves
      <4>2. QED
        BY <2>1, <3>1, <4>1, SettleTyped, UnchangedTyped DEF SettleRefused
    <3>2. CASE ~(SettleCommit(w) \/ SettleErrs(w))
      <4>1. UNCHANGED money
        BY <3>2 DEF LoseBatch, TakeJob, MarkErrs
      <4>2. QED
        BY <2>1, <4>1, UnchangedTyped
    <3>3. QED
      BY <3>1, <3>2
  <2>3. LimitsTyped'
    <3>1. UNCHANGED limits
      BY DEF LoseBatch, TakeJob, MarkErrs
    <3>2. QED
      BY <2>1, <3>1, UnchangedTyped
  <2>4. RowTyped'
    <3>1. CASE Renew(w) \/ RenewErrs(w)
      <4>1. job[w] \in Claim
        BY <3>1 DEF HasJob, Moves
      <4>2. QED
        BY <2>1, <3>1, <4>1, ExtendTyped, UnchangedTyped
    <3>2. CASE Mark(w)
      <4>1. job[w] \in Claim
        BY <3>2 DEF HasJob, Moves
      <4>2. FailedTo(job[w]) \in RowStates
        BY DEF FailedTo, RowStates
      <4>3. QED
        BY <2>1, <3>2, <4>1, <4>2, StatusTyped DEF RowStates
    <3>3. CASE ~(Renew(w) \/ RenewErrs(w) \/ Mark(w))
      <4>1. UNCHANGED row
        BY <3>3 DEF LoseBatch, TakeJob, MarkErrs
      <4>2. QED
        BY <2>1, <4>1, UnchangedTyped
    <3>4. QED
      BY <3>1, <3>2, <3>3
  <2>5. WorkerTyped' /\ HasJob'
    <3>1. CASE LoseBatch(w)
      BY <2>1, <3>1 DEF LoseBatch, WorkerTyped, HasJob
    <3>2. CASE TakeJob(w)
      BY <2>1, <3>2, TakeJobTyped
    <3>3. CASE MarkErrs(w)
      BY <2>1, <3>3 DEF MarkErrs, WorkerTyped, WorkerStates, HasJob, worker
    <3>4. CASE ~(LoseBatch(w) \/ TakeJob(w) \/ MarkErrs(w))
      <4>1. UNCHANGED <<claims, job>>
        BY <3>4
      <4>2. \E from : \E to \in WorkerStates :
              /\ Moves(w, from, to)
              /\ to \in {"claim", "take"} \/ from \notin {"claim", "take"}
        BY <3>4 DEF WorkerStates
      <4>3. QED
        BY <2>1, <4>1, <4>2, MovesTyped
    <3>5. QED
      BY <3>1, <3>2, <3>3, <3>4
  <2>6. BudgetTyped'
    <3>1. CASE UNCHANGED budget
      BY <2>1, <3>1, UnchangedTyped
    <3>2. CASE Spend("error")
      BY <2>1, <3>2, SpendTyped DEF Mishaps
    <3>3. QED
      BY <3>1, <3>2 DEF LoseBatch, TakeJob, MarkErrs
  <2>7. UNCHANGED <<call, reported, served, adjusted, adjustments>>
    BY DEF LoseBatch, TakeJob, MarkErrs, api, manual
  <2>8. QED
    BY <2>2, <2>3, <2>4, <2>5, <2>6, <2>7 DEF
       TypeOK, MoneyTyped, LimitsTyped, RowTyped, WorkerTyped, BudgetTyped
<1>3. QED
  BY <1>1, <1>2 DEF Work

-----------------------------------------------------------------------------
(* Crashes, time and the operator; the type invariant. *)

LEMMA CrashTyped ==
  /\ \A r \in Requests : TypeOK /\ HasJob /\ CrashCall(r) => TypeOK' /\ HasJob'
  /\ \A w \in Workers : TypeOK /\ HasJob /\ CrashWorker(w) => TypeOK' /\ HasJob'
<1>1. ASSUME NEW r \in Requests, TypeOK, HasJob, CrashCall(r)
      PROVE  TypeOK' /\ HasJob'
  <2>1. BudgetTyped'
    BY <1>1, TypeGroups, SpendTyped DEF CrashCall, Mishaps
  <2>2. call' \in [Requests -> CallStates]
    BY <1>1 DEF CrashCall, TypeOK, CallStates
  <2>3. QED
    BY <1>1, <2>1, <2>2 DEF CrashCall, TypeOK, HasJob, BudgetTyped,
       money, limits, worker, manual
<1>2. ASSUME NEW w \in Workers, TypeOK, HasJob, CrashWorker(w)
      PROVE  TypeOK' /\ HasJob'
  <2>1. BudgetTyped'
    BY <1>2, TypeGroups, SpendTyped DEF CrashWorker, Mishaps
  <2>2. WorkerTyped'
    BY <1>2 DEF CrashWorker, TypeOK, WorkerTyped, WorkerStates
  <2>3. HasJob'
    BY <1>2 DEF CrashWorker, TypeOK, HasJob
  <2>4. QED
    BY <1>2, <2>1, <2>2, <2>3 DEF CrashWorker, TypeOK, BudgetTyped,
       WorkerTyped, api, money, limits, manual
<1>3. QED
  BY <1>1, <1>2

LEMMA BecomeDueTyped ==
  ASSUME TypeOK, NEW r \in Requests, BecomeDue(r) PROVE TypeOK'
<1>1. RowTyped'
  <2>1. row[r] \in [status : RowStates, attempts : Nat, due : BOOLEAN]
    BY DEF TypeOK
  <2>2. [row[r] EXCEPT !.due = TRUE]
          \in [status : RowStates, attempts : Nat, due : BOOLEAN]
    BY <2>1
  <2>3. row' = [row EXCEPT ![r] = [row[r] EXCEPT !.due = TRUE]]
    BY DEF BecomeDue
  <2>4. QED
    BY <2>2, <2>3 DEF TypeOK, RowTyped
<1>2. BudgetTyped'
  BY TypeGroups, SpendTyped, UnchangedTyped DEF BecomeDue, Mishaps
<1>3. QED
  BY <1>1, <1>2 DEF BecomeDue, TypeOK, RowTyped, BudgetTyped,
     api, money, limits, worker, manual

LEMMA OperatorTyped ==
  /\ \A d \in Deltas : TypeOK /\ AdjustBalance(d) => TypeOK'
  /\ \A b \in BOOLEAN : TypeOK /\ SetOpen(b) => TypeOK'
<1>1. ASSUME NEW d \in Deltas, TypeOK, AdjustBalance(d) PROVE TypeOK'
  <2>1. d \in Int
    OBVIOUS
  <2>2. customer' \in [amount : Int, reserved : Int, open : BOOLEAN]
    BY <1>1, <2>1 DEF AdjustBalance, TypeOK
  <2>3. adjusted' \in Int /\ uncovered' \in Nat /\ adjustments' \in Nat
    BY <1>1, <2>1 DEF AdjustBalance, TypeOK
  <2>4. QED
    BY <1>1, <2>2, <2>3 DEF AdjustBalance, TypeOK, api, limits, worker
<1>2. ASSUME NEW b \in BOOLEAN, TypeOK, SetOpen(b) PROVE TypeOK'
  BY <1>2 DEF SetOpen, TypeOK, api, limits, worker, manual
<1>3. QED
  BY <1>1, <1>2

LEMMA NextTyped == TypeOK /\ HasJob /\ [Next]_vars => TypeOK' /\ HasJob'
<1> SUFFICES ASSUME TypeOK, HasJob, [Next]_vars PROVE TypeOK' /\ HasJob'
  OBVIOUS
<1>1. ASSUME NEW r \in Requests, Call(r) PROVE TypeOK' /\ HasJob'
  <2>1. UNCHANGED <<pc, job>>
    BY <1>1 DEF Call, AdmitLimits, RejectLimits, LimitsUnanswered,
       HoldBalance, RefuseBalance, HoldUnanswered, ReleaseRefused,
       ProviderReports, ProviderSilent, ProviderFails, SettleCall,
       SettleCallErrs, InterruptSettle, EnqueueCall, EnqueueCallErrs,
       ReleaseHold, ReleaseUnits, worker
  <2>2. QED
    BY <1>1, <2>1, CallTyped DEF HasJob
<1>2. ASSUME NEW r \in Requests, BecomeDue(r) PROVE TypeOK' /\ HasJob'
  BY <1>2, BecomeDueTyped DEF BecomeDue, worker, HasJob
<1>3. ASSUME NEW d \in Deltas, AdjustBalance(d) PROVE TypeOK' /\ HasJob'
  BY <1>3, OperatorTyped DEF AdjustBalance, worker, HasJob
<1>4. ASSUME NEW b \in BOOLEAN, SetOpen(b) PROVE TypeOK' /\ HasJob'
  BY <1>4, OperatorTyped DEF SetOpen, worker, HasJob
<1>5. CASE UNCHANGED vars
  BY <1>5 DEF vars, TypeOK, HasJob, api, money, limits, worker, manual
<1>6. QED
  BY <1>1, <1>2, <1>3, <1>4, <1>5, CrashTyped, WorkTyped DEF Next

LEMMA TypedAlways == Spec => [](TypeOK /\ HasJob)
<1>1. Init => TypeOK /\ HasJob
  BY InitTyped DEF Init, HasJob
<1>2. QED
  BY <1>1, NextTyped, PTL DEF Spec

\* The type invariant holds in every run, of any calls, workers and prices:
\* in particular counters and debits never become negative.
THEOREM TypeCorrect == Spec => []TypeOK
  BY TypedAlways, PTL

-----------------------------------------------------------------------------
(* The steps that write the books. *)

BooksStep ==
  \/ UNCHANGED <<money, adjusted>>
  \/ \E r \in Requests : CanHold(r) /\ TakeHold(r) /\ UNCHANGED adjusted
  \/ \E r \in Requests : ReturnHold(r) /\ UNCHANGED adjusted
  \/ \E r \in Requests : /\ ~AlreadySettled(r) /\ CanSettle(r) /\ SettleTxn(r)
                         /\ UNCHANGED adjusted
  \/ \E d \in Deltas : AdjustBalance(d)
  \/ \E b \in BOOLEAN : SetOpen(b)

LEMMA SettleOkBooks ==
  ASSUME NEW r \in Requests, SettleOk(r) \/ SettleRefused(r) \/ UNCHANGED money,
         UNCHANGED adjusted
  PROVE  BooksStep
  BY DEF SettleOk, SettleRefused, BooksStep

LEMMA NextBooks == HasJob /\ [Next]_vars => BooksStep
<1> SUFFICES ASSUME HasJob, [Next]_vars PROVE BooksStep
  OBVIOUS
<1>1. ASSUME NEW r \in Requests, Call(r) PROVE BooksStep
  <2> USE <1>1 DEF Call, AdmitLimits, RejectLimits, LimitsUnanswered,
       HoldBalance, RefuseBalance, HoldUnanswered, ReleaseRefused,
       ProviderReports, ProviderSilent, ProviderFails, SettleCall,
       SettleCallErrs, InterruptSettle, EnqueueCall, EnqueueCallErrs,
       ReleaseHold, ReleaseUnits
  <2>1. UNCHANGED adjusted
    BY DEF manual
  <2>2. \/ SettleOk(r) \/ SettleRefused(r) \/ UNCHANGED money
        \/ CanHold(r) /\ TakeHold(r)
        \/ ReturnHold(r)
    OBVIOUS
  <2>3. QED
    BY <2>1, <2>2, SettleOkBooks DEF BooksStep
<1>2. ASSUME NEW w \in Workers, Work(w) PROVE BooksStep
  <2>1. UNCHANGED adjusted
    BY <1>2 DEF Work, ClaimRow, LoseBatch, TakeJob, EndBatch, Inspect,
       InspectErrs, Renew, RenewErrs, SettleLookup, SettleCommit, SettleErrs,
       Mark, MarkErrs, manual
  <2>2. CASE SettleCommit(w) \/ SettleErrs(w)
    <3>1. \/ SettleOk(job[w].id) \/ SettleRefused(job[w].id)
          \/ UNCHANGED money
      BY <2>2 DEF SettleCommit, SettleErrs
    <3>2. job[w].id \in Requests
      BY <2>2 DEF SettleCommit, SettleErrs, Moves, HasJob, Claim
    <3>3. QED
      BY <2>1, <3>1, <3>2, SettleOkBooks
  <2>3. CASE ~(SettleCommit(w) \/ SettleErrs(w))
    <3>1. UNCHANGED money
      BY <1>2, <2>3 DEF Work, ClaimRow, LoseBatch, TakeJob, EndBatch, Inspect,
         InspectErrs, Renew, RenewErrs, SettleLookup, Mark, MarkErrs
    <3>2. QED
      BY <2>1, <3>1 DEF BooksStep
  <2>4. QED
    BY <2>2, <2>3
<1>3. ASSUME NEW r \in Requests, CrashCall(r) \/ BecomeDue(r) PROVE BooksStep
  BY <1>3 DEF CrashCall, BecomeDue, manual, BooksStep
<1>4. ASSUME NEW w \in Workers, CrashWorker(w) PROVE BooksStep
  BY <1>4 DEF CrashWorker, manual, BooksStep
<1>5. CASE UNCHANGED vars
  BY <1>5 DEF vars, manual, BooksStep
<1>6. QED
  BY <1>1, <1>2, <1>3, <1>4, <1>5 DEF Next, BooksStep

-----------------------------------------------------------------------------
(* The books. *)

\* However often a call and stale workers settle a request, it is debited once
\* if its usage record exists and not otherwise: settleUsage's exactly-once.
THEOREM DebitedOnce == Spec => []ExactlyOnce
<1>1. Init => ExactlyOnce
  BY DEF Init, ExactlyOnce
<1>2. TypeOK /\ HasJob /\ ExactlyOnce /\ [Next]_vars => ExactlyOnce'
  <2> SUFFICES ASSUME TypeOK, HasJob, ExactlyOnce, [Next]_vars
               PROVE  ExactlyOnce'
    OBVIOUS
  <2>1. CASE UNCHANGED <<usage, debits>>
    BY <2>1 DEF ExactlyOnce
  <2>2. ASSUME NEW r \in Requests, ~AlreadySettled(r), SettleTxn(r)
        PROVE  ExactlyOnce'
    BY <2>2 DEF ExactlyOnce, AlreadySettled, SettleTxn, TypeOK
  <2>3. QED
    BY <2>1, <2>2, NextBooks DEF BooksStep, TakeHold, ReturnHold,
       AdjustBalance, SetOpen, money
<1>3. QED
  BY <1>1, <1>2, TypedAlways, PTL DEF Spec

\* Admission by amount - reserved keeps the holds covered by the balance, up to
\* what manual debits and prices above their hold took from it.
THEOREM HoldsCovered == Spec => []BalanceCovered
<1>1. Init => BalanceCovered
  BY DEF Init, BalanceCovered
<1>2. TypeOK /\ HasJob /\ BalanceCovered /\ [Next]_vars => BalanceCovered'
  <2> SUFFICES ASSUME TypeOK, HasJob, BalanceCovered, [Next]_vars
               PROVE  BalanceCovered'
    OBVIOUS
  <2>1. /\ customer \in [amount : Int, reserved : Int, open : BOOLEAN]
        /\ uncovered \in Nat
    BY DEF TypeOK
  <2>2. CASE UNCHANGED money
    BY <2>2 DEF money, BalanceCovered
  <2>3. ASSUME NEW r \in Requests, CanHold(r), TakeHold(r)
        PROVE  BalanceCovered'
    BY <2>1, <2>3 DEF CanHold, TakeHold, BalanceCovered
  <2>4. ASSUME NEW r \in Requests, ReturnHold(r) PROVE BalanceCovered'
    BY <2>1, <2>4 DEF ReturnHold, BalanceCovered
  <2>5. ASSUME NEW r \in Requests, CanSettle(r), SettleTxn(r)
        PROVE  BalanceCovered'
    <3>1. Hold[r] \in Nat /\ Price[r] \in Nat
      OBVIOUS
    <3>2. /\ customer'.amount = customer.amount - Price[r]
          /\ customer'.reserved = customer.reserved - Hold[r]
          /\ uncovered' = uncovered + Overrun(r)
      BY <2>1, <2>5 DEF SettleTxn
    <3>3. customer.reserved >= Hold[r]
      BY <2>1, <2>5, <3>1 DEF CanSettle, BalanceCovered
    <3>4. Overrun(r) >= Price[r] - Hold[r] /\ Overrun(r) \in Nat
      BY <3>1 DEF Overrun
    <3>5. QED
      BY <2>1, <3>1, <3>2, <3>3, <3>4 DEF BalanceCovered
  <2>6. ASSUME NEW d \in Deltas, AdjustBalance(d) PROVE BalanceCovered'
    <3>1. d \in Int
      OBVIOUS
    <3>2. QED
      BY <2>1, <2>6, <3>1 DEF AdjustBalance, BalanceCovered
  <2>7. ASSUME NEW b \in BOOLEAN, SetOpen(b) PROVE BalanceCovered'
    BY <2>1, <2>7 DEF SetOpen, BalanceCovered
  <2>8. QED
    BY <2>2, <2>3, <2>4, <2>5, <2>6, <2>7, NextBooks DEF BooksStep
<1>3. QED
  BY <1>1, <1>2, TypedAlways, PTL DEF Spec

\* The money path implements the abstract billing of BillOnce: a request is
\* billed at most once, for its price, and nothing but bills and manual
\* adjustments moves the balance.
THEOREM ImplementsBilling == Spec => BillsOnce
<1>1. Init => Billing!Init
  BY DEF Init, Billing!Init
<1>2. TypeOK /\ HasJob /\ [Next]_vars => [Billing!Next]_(Billing!vars)
  <2> SUFFICES ASSUME TypeOK, HasJob, [Next]_vars
               PROVE  [Billing!Next]_(Billing!vars)
    OBVIOUS
  <2>1. customer \in [amount : Int, reserved : Int, open : BOOLEAN]
    BY DEF TypeOK
  <2>2. CASE UNCHANGED <<money, adjusted>>
    BY <2>2 DEF money, Billing!vars
  <2>3. ASSUME NEW r \in Requests, TakeHold(r) \/ ReturnHold(r),
               UNCHANGED adjusted
        PROVE  UNCHANGED Billing!vars
    BY <2>1, <2>3 DEF TakeHold, ReturnHold, Billing!vars
  <2>4. ASSUME NEW r \in Requests, ~AlreadySettled(r), CanSettle(r),
               SettleTxn(r), UNCHANGED adjusted
        PROVE  Billing!Bill(r)
    <3>1. customer'.amount = customer.amount - Price[r]
      BY <2>1, <2>4 DEF SettleTxn
    <3>2. Price[r] > 0 => customer.amount >= Price[r]
      BY <2>4 DEF CanSettle
    <3>3. QED
      BY <2>4, <3>1, <3>2 DEF SettleTxn, AlreadySettled, Billing!Bill
  <2>5. ASSUME NEW d \in Deltas, AdjustBalance(d) PROVE Billing!Adjust(d)
    BY <2>1, <2>5 DEF AdjustBalance, Billing!Adjust
  <2>6. ASSUME NEW b \in BOOLEAN, SetOpen(b) PROVE UNCHANGED Billing!vars
    BY <2>1, <2>6 DEF SetOpen, Billing!vars, manual
  <2>7. QED
    BY <2>2, <2>3, <2>4, <2>5, <2>6, NextBooks DEF BooksStep, Billing!Next
<1>3. QED
  BY <1>1, <1>2, TypedAlways, PTL DEF Spec, BillsOnce, Billing!Spec

-----------------------------------------------------------------------------
(* The outbox rows. *)

RowStep ==
  \/ UNCHANGED row
  \/ \E r \in Requests : InsertRow(r)
  \/ \E w \in Workers, r \in Requests : ClaimRow(w, r)
  \/ \E w \in Workers : job[w] \in Claim /\ Fenced(job[w]) /\ ExtendLease(job[w])
  \/ \E w \in Workers : job[w] \in Claim /\ Mark(w)
  \/ \E r \in Requests : BecomeDue(r)

LEMMA NextRow == HasJob /\ [Next]_vars => RowStep
<1> SUFFICES ASSUME HasJob, [Next]_vars PROVE RowStep
  OBVIOUS
<1>1. ASSUME NEW r \in Requests, Call(r) PROVE RowStep
  BY <1>1 DEF Call, AdmitLimits, RejectLimits, LimitsUnanswered,
     HoldBalance, RefuseBalance, HoldUnanswered, ReleaseRefused,
     ProviderReports, ProviderSilent, ProviderFails, SettleCall,
     SettleCallErrs, InterruptSettle, EnqueueCall, EnqueueCallErrs,
     ReleaseHold, ReleaseUnits, RowStep
<1>2. ASSUME NEW w \in Workers, Work(w) PROVE RowStep
  <2>1. CASE Renew(w) \/ RenewErrs(w) \/ Mark(w)
    <3>1. job[w] \in Claim
      BY <2>1 DEF Renew, RenewErrs, Mark, Moves, HasJob
    <3>2. QED
      BY <2>1, <3>1 DEF Renew, RenewErrs, RowStep
  <2>2. CASE ~(Renew(w) \/ RenewErrs(w) \/ Mark(w))
    BY <1>2, <2>2 DEF Work, LoseBatch, TakeJob, EndBatch, Inspect, InspectErrs,
       SettleLookup, SettleCommit, SettleErrs, MarkErrs, RowStep
  <2>3. QED
    BY <2>1, <2>2
<1>3. ASSUME NEW r \in Requests, CrashCall(r) \/ BecomeDue(r) PROVE RowStep
  BY <1>3 DEF CrashCall, RowStep
<1>4. ASSUME NEW w \in Workers, CrashWorker(w) PROVE RowStep
  BY <1>4 DEF CrashWorker, RowStep
<1>5. ASSUME NEW d \in Deltas, AdjustBalance(d) PROVE RowStep
  BY <1>5 DEF AdjustBalance, RowStep
<1>6. ASSUME NEW b \in BOOLEAN, SetOpen(b) PROVE RowStep
  BY <1>6 DEF SetOpen, RowStep
<1>7. CASE UNCHANGED vars
  BY <1>7 DEF vars, RowStep
<1>8. QED
  BY <1>1, <1>2, <1>3, <1>4, <1>5, <1>6, <1>7 DEF Next

\* A reconciled or abandoned row is never written again: every mark is fenced
\* by the claim, every claim takes a row that is still open.
THEOREM TerminalStays == Spec => TerminalRowsStay
<1>1. TypeOK /\ HasJob /\ [Next]_vars =>
        [\A r \in Requests : row[r].status \in Terminal => row'[r] = row[r]]_row
  <2> SUFFICES ASSUME TypeOK, HasJob, [Next]_vars, NEW r \in Requests,
                      row[r].status \in Terminal
               PROVE  row'[r] = row[r]
    OBVIOUS
  <2>1. row \in [Requests -> [status : RowStates, attempts : Nat, due : BOOLEAN]]
    BY DEF TypeOK
  <2>2. ASSUME NEW q \in Requests, InsertRow(q) PROVE row'[r] = row[r]
    BY <2>1, <2>2 DEF InsertRow, Terminal
  <2>3. ASSUME NEW w \in Workers, NEW q \in Requests, ClaimRow(w, q)
        PROVE  row'[r] = row[r]
    BY <2>1, <2>3 DEF ClaimRow, Claimable, Terminal
  <2>4. ASSUME NEW c \in Claim, Fenced(c) PROVE c.id # r
    BY <2>4 DEF Fenced, Terminal
  <2>5. ASSUME NEW c \in Claim, Fenced(c), ExtendLease(c)
        PROVE  row'[r] = row[r]
    BY <2>1, <2>4, <2>5 DEF ExtendLease
  <2>6. ASSUME NEW c \in Claim, NEW s, SetStatus(c, s) PROVE row'[r] = row[r]
    BY <2>1, <2>4, <2>6 DEF SetStatus
  <2>7. ASSUME NEW w \in Workers, job[w] \in Claim, Mark(w)
        PROVE  row'[r] = row[r]
    BY <2>6, <2>7 DEF Mark
  <2>8. ASSUME NEW q \in Requests, BecomeDue(q) PROVE row'[r] = row[r]
    BY <2>1, <2>8 DEF BecomeDue, Terminal
  <2>9. QED
    BY <2>2, <2>3, <2>5, <2>7, <2>8, NextRow DEF RowStep
<1>2. QED
  BY <1>1, TypedAlways, PTL DEF Spec, TerminalRowsStay

-----------------------------------------------------------------------------
(* A reconciled row has its usage record. *)

LEMMA UsageGrows == HasJob /\ [Next]_vars => usage \subseteq usage'
  BY NextBooks DEF BooksStep, money, TakeHold, ReturnHold, SettleTxn,
     AdjustBalance, SetOpen

\* A worker about to mark a row reconciled found its usage record or wrote it.
LEMMA ReconcileStep ==
  ASSUME TypeOK, [Next]_vars, NEW w \in Workers, pc'[w] = "reconcile"
  PROVE  /\ job'[w] = job[w]
         /\ pc[w] = "reconcile" \/ job[w].id \in usage'
<1>1. pc \in [Workers -> WorkerStates]
  BY DEF TypeOK
<1>2. CASE UNCHANGED <<pc, job>>
  BY <1>2
<1>3. ASSUME NEW v \in Workers, Work(v)
      PROVE  /\ job'[w] = job[w]
             /\ pc[w] = "reconcile" \/ job[w].id \in usage'
  <2>1. CASE UNCHANGED <<pc, job>>
    BY <2>1
  <2>2. CASE TakeJob(v)
    BY <1>1, <2>2 DEF TakeJob, TypeOK
  <2>3. CASE Inspect(v) \/ SettleLookup(v)
    BY <1>1, <2>3 DEF Inspect, SettleLookup, Moves, AlreadySettled, money
  <2>4. CASE SettleCommit(v)
    BY <1>1, <2>4 DEF SettleCommit, Moves, SettleOk, AlreadySettled, SettleTxn,
       money
  <2>5. CASE EndBatch(v) \/ InspectErrs(v) \/ Renew(v) \/ RenewErrs(v)
             \/ SettleErrs(v) \/ Mark(v) \/ MarkErrs(v)
    BY <1>1, <2>5 DEF EndBatch, InspectErrs, Renew, RenewErrs, SettleErrs,
       Mark, MarkErrs, Moves
  <2>6. QED
    BY <1>3, <2>1, <2>2, <2>3, <2>4, <2>5 DEF Work, ClaimRow, LoseBatch
<1>4. ASSUME NEW r \in Requests, Call(r) PROVE UNCHANGED <<pc, job>>
  BY <1>4 DEF Call, AdmitLimits, RejectLimits, LimitsUnanswered,
     HoldBalance, RefuseBalance, HoldUnanswered, ReleaseRefused,
     ProviderReports, ProviderSilent, ProviderFails, SettleCall,
     SettleCallErrs, InterruptSettle, EnqueueCall, EnqueueCallErrs,
     ReleaseHold, ReleaseUnits, worker
<1>5. ASSUME NEW v \in Workers, CrashWorker(v)
      PROVE  job'[w] = job[w] /\ pc[w] = "reconcile"
  BY <1>1, <1>5 DEF CrashWorker, TypeOK
<1>6. QED
  BY <1>2, <1>3, <1>4, <1>5 DEF Next, CrashCall, BecomeDue, AdjustBalance,
     SetOpen, vars, worker

Billable ==
  /\ ReconciledIsBilled
  /\ \A w \in Workers : pc[w] = "reconcile" => job[w].id \in usage

\* No row is marked reconciled before its request is billed, whatever a worker
\* that lost its lease, or an unanswered settlement, left behind.
THEOREM ReconciledBilled == Spec => []ReconciledIsBilled
<1>1. Init => Billable
  BY DEF Init, Billable, ReconciledIsBilled
<1>2. TypeOK /\ HasJob /\ Billable /\ [Next]_vars => Billable'
  <2> SUFFICES ASSUME TypeOK, HasJob, Billable, [Next]_vars PROVE Billable'
    OBVIOUS
  <2>1. usage \subseteq usage'
    BY UsageGrows
  <2>2. \A w \in Workers : pc'[w] = "reconcile" => job'[w].id \in usage'
    BY <2>1, ReconcileStep DEF Billable
  <2>3. row \in [Requests -> [status : RowStates, attempts : Nat, due : BOOLEAN]]
    BY DEF TypeOK
  <2>4. ASSUME NEW r \in Requests, row'[r].status = "reconciled"
        PROVE  row[r].status = "reconciled" \/ r \in usage
    <3>1. ASSUME NEW q \in Requests, InsertRow(q) \/ BecomeDue(q)
          PROVE  row[r].status = "reconciled"
      BY <2>3, <2>4, <3>1 DEF InsertRow, NewRow, BecomeDue
    <3>2. ASSUME NEW w \in Workers, NEW q \in Requests, ClaimRow(w, q)
          PROVE  row[r].status = "reconciled"
      BY <2>3, <2>4, <3>2 DEF ClaimRow
    <3>3. ASSUME NEW c \in Claim, ExtendLease(c)
          PROVE  row[r].status = "reconciled"
      BY <2>3, <2>4, <3>3 DEF ExtendLease, Claim
    <3>4. ASSUME NEW w \in Workers, job[w] \in Claim, Mark(w)
          PROVE  row[r].status = "reconciled" \/ r \in usage
      <4>1. ASSUME NEW s \in RowStates \ {"reconciled"}, SetStatus(job[w], s)
            PROVE  row[r].status = "reconciled"
        BY <2>3, <2>4, <3>4, <4>1 DEF SetStatus, Claim
      <4>2. FailedTo(job[w]) \in RowStates \ {"reconciled"}
        BY DEF FailedTo, RowStates
      <4>3. CASE pc[w] = "reconcile" /\ SetStatus(job[w], "reconciled")
        <5>1. job[w].id \in usage
          BY <4>3 DEF Billable
        <5>2. QED
          BY <2>3, <2>4, <3>4, <4>3, <5>1 DEF SetStatus, Claim
      <4>4. QED
        BY <3>4, <4>1, <4>2, <4>3 DEF Mark, Moves, RowStates
    <3>5. QED
      BY <2>4, <3>1, <3>2, <3>3, <3>4, NextRow DEF RowStep
  <2>5. ReconciledIsBilled'
    BY <2>1, <2>4 DEF Billable, ReconciledIsBilled
  <2>6. QED
    BY <2>2, <2>5 DEF Billable
<1>3. QED
  BY <1>1, <1>2, TypedAlways, PTL DEF Spec, Billable

-----------------------------------------------------------------------------
(* The fence. *)

\* Every claim a worker still has was stamped by an earlier or the current
\* claim of its row, so the next claim of the row differs from all of them.
Stamped ==
  /\ \A w \in Workers : \A c \in MyClaims(w) : c.attempts <= row[c.id].attempts
  /\ \A w \in Workers : \A c \in MyClaims(w) : row[c.id].status # "absent"

LEMMA MyClaimsTyped ==
  ASSUME TypeOK, HasJob, NEW w \in Workers PROVE MyClaims(w) \subseteq Claim
  BY DEF TypeOK, HasJob, MyClaims

\* Only ClaimRow gives a worker a claim it did not have.
LEMMA ClaimsStep ==
  ASSUME TypeOK, HasJob, [Next]_vars, NEW w \in Workers,
         ~ \E v \in Workers, r \in Requests : ClaimRow(v, r)
  PROVE  MyClaims(w)' \subseteq MyClaims(w)
<1>1. /\ pc \in [Workers -> WorkerStates]
      /\ claims \in [Workers -> SUBSET Claim]
      /\ job \in [Workers -> Claim \cup {NoJob}]
  BY DEF TypeOK
<1>2. CASE UNCHANGED worker
  BY <1>2 DEF worker, MyClaims
<1>3. ASSUME NEW v \in Workers, Work(v)
      PROVE  MyClaims(w)' \subseteq MyClaims(w)
  <2>1. CASE LoseBatch(v) \/ MarkErrs(v) \/ EndBatch(v)
    BY <1>1, <2>1 DEF LoseBatch, MarkErrs, EndBatch, Moves, MyClaims
  <2>2. CASE TakeJob(v)
    <3>1. PICK c \in claims[v] : /\ job' = [job EXCEPT ![v] = c]
                                 /\ claims' = [claims EXCEPT ![v] = @ \ {c}]
      BY <2>2 DEF TakeJob
    <3>2. QED
      BY <1>1, <2>2, <3>1 DEF TakeJob, MyClaims
  <2>3. CASE Inspect(v) \/ InspectErrs(v) \/ Renew(v) \/ RenewErrs(v)
    BY <1>1, <2>3 DEF Inspect, InspectErrs, Renew, RenewErrs, Moves, MyClaims
  <2>4. CASE SettleLookup(v) \/ SettleCommit(v) \/ SettleErrs(v) \/ Mark(v)
    BY <1>1, <2>4 DEF SettleLookup, SettleCommit, SettleErrs, Mark, Moves,
       MyClaims
  <2>5. QED
    BY <1>3, <2>1, <2>2, <2>3, <2>4 DEF Work
<1>4. ASSUME NEW r \in Requests, Call(r) PROVE UNCHANGED worker
  BY <1>4 DEF Call, AdmitLimits, RejectLimits, LimitsUnanswered,
     HoldBalance, RefuseBalance, HoldUnanswered, ReleaseRefused,
     ProviderReports, ProviderSilent, ProviderFails, SettleCall,
     SettleCallErrs, InterruptSettle, EnqueueCall, EnqueueCallErrs,
     ReleaseHold, ReleaseUnits
<1>5. ASSUME NEW v \in Workers, CrashWorker(v)
      PROVE  MyClaims(w)' \subseteq MyClaims(w)
  BY <1>1, <1>5 DEF CrashWorker, MyClaims
<1>6. QED
  BY <1>2, <1>3, <1>4, <1>5 DEF Next, CrashCall, BecomeDue, AdjustBalance,
     SetOpen, vars

\* No step takes an attempt back from a row, or the row itself away.
LEMMA AttemptsGrow ==
  ASSUME TypeOK, HasJob, [Next]_vars, NEW r \in Requests,
         row[r].status # "absent"
  PROVE  row'[r].attempts >= row[r].attempts /\ row'[r].status # "absent"
<1>1. row \in [Requests -> [status : RowStates, attempts : Nat, due : BOOLEAN]]
  BY DEF TypeOK
<1>2. row[r].attempts \in Nat
  BY <1>1
<1>3. ASSUME NEW q \in Requests, InsertRow(q) \/ BecomeDue(q)
      PROVE  row'[r].attempts = row[r].attempts /\ row'[r].status # "absent"
  BY <1>1, <1>3 DEF InsertRow, BecomeDue
<1>4. ASSUME NEW w \in Workers, NEW q \in Requests, ClaimRow(w, q)
      PROVE  row'[r].attempts >= row[r].attempts /\ row'[r].status # "absent"
  BY <1>1, <1>2, <1>4 DEF ClaimRow, NextAttempts
<1>5. ASSUME NEW c \in Claim, ExtendLease(c)
      PROVE  row'[r].attempts = row[r].attempts /\ row'[r].status # "absent"
  BY <1>1, <1>5 DEF ExtendLease, Claim
<1>6. ASSUME NEW w \in Workers, job[w] \in Claim, Mark(w)
      PROVE  row'[r].attempts = row[r].attempts /\ row'[r].status # "absent"
  <2>1. ASSUME NEW s, s # "absent", SetStatus(job[w], s)
        PROVE  row'[r].attempts = row[r].attempts /\ row'[r].status # "absent"
    BY <1>1, <1>6, <2>1 DEF SetStatus, Claim
  <2>2. FailedTo(job[w]) # "absent"
    BY DEF FailedTo
  <2>3. QED
    BY <1>6, <2>1, <2>2 DEF Mark
<1>7. QED
  BY <1>2, <1>3, <1>4, <1>5, <1>6, NextRow DEF RowStep

LEMMA StampedStep ==
  ASSUME TypeOK, HasJob, Stamped, OneCurrentClaim, [Next]_vars
  PROVE  Stamped' /\ OneCurrentClaim'
<1>1. row \in [Requests -> [status : RowStates, attempts : Nat, due : BOOLEAN]]
  BY DEF TypeOK
<1>2. ASSUME NEW w \in Workers, NEW c \in MyClaims(w)
      PROVE  /\ c.id \in Requests /\ c.attempts \in Nat
             /\ row[c.id].attempts \in Nat
             /\ c.attempts <= row[c.id].attempts
             /\ row'[c.id].attempts >= row[c.id].attempts
             /\ row'[c.id].status # "absent"
  <2>1. c.id \in Requests /\ c.attempts \in Nat
    BY <1>2, MyClaimsTyped DEF Claim
  <2>2. QED
    BY <1>1, <1>2, <2>1, AttemptsGrow DEF Stamped
<1>3. \A r \in Requests : row'[r].attempts \in Nat
  <2>1. TypeOK'
    BY NextTyped
  <2>2. QED
    BY <2>1 DEF TypeOK
<1>4. CASE \A w \in Workers : MyClaims(w)' \subseteq MyClaims(w)
  BY <1>2, <1>3, <1>4 DEF Stamped, OneCurrentClaim
<1>5. ASSUME NEW v \in Workers, NEW r \in Requests, ClaimRow(v, r)
      PROVE  Stamped' /\ OneCurrentClaim'
  <2> DEFINE new == [id |-> r, attempts |-> NextAttempts(r)]
  <2>1. /\ row'[r].attempts = new.attempts
        /\ row'[r].status = "in_progress"
        /\ row[r].attempts \in Nat /\ new.attempts = row[r].attempts + 1
    BY <1>1, <1>5 DEF ClaimRow, NextAttempts
  <2>2. \A w \in Workers :
          MyClaims(w)' \subseteq MyClaims(w) \cup (IF w = v THEN {new} ELSE {})
    BY <1>5 DEF ClaimRow, MyClaims, TypeOK
  <2>3. ASSUME NEW w \in Workers, NEW c \in MyClaims(w), c.id = r
        PROVE  c.attempts # new.attempts
    BY <1>2, <2>1, <2>3
  <2>4. Stamped'
    BY <1>2, <1>3, <2>1, <2>2 DEF Stamped
  <2>5. OneCurrentClaim'
    BY <2>2, <2>3 DEF OneCurrentClaim
  <2>6. QED
    BY <2>4, <2>5
<1>6. QED
  BY <1>4, <1>5, ClaimsStep

\* Of all claims of a row held by the workers of any number of processes, no
\* two carry the same stamp, so at most one of them passes the fence.
THEOREM ClaimsDistinct == Spec => []OneCurrentClaim
<1>1. Init => Stamped /\ OneCurrentClaim
  BY DEF Init, Stamped, OneCurrentClaim, MyClaims
<1>2. TypeOK /\ HasJob /\ Stamped /\ OneCurrentClaim /\ [Next]_vars
        => Stamped' /\ OneCurrentClaim'
  BY StampedStep
<1>3. QED
  BY <1>1, <1>2, TypedAlways, PTL DEF Spec

-----------------------------------------------------------------------------
(* Whose holds and units the counters are made of. *)

Counting  == {"limited", "refused", "ready", "settle", "enqueue",
              "releaseHold", "releaseUnits"}
Unserved  == {"new", "limited", "refused", "ready", "rejected"}
Served    == {"settle", "enqueue", "settled", "queued", "lost"}
Releasing == {"releaseHold", "releaseUnits", "released"}

\* What the place of a call in its handler says about its unit, about its
\* provider's answer, and about who may settle it.
CallStands(r) ==
  /\ call[r] = "new" => r \notin counted
  /\ call[r] \in Counting => r \in counted
  /\ call[r] \in Unserved => r \notin served
  /\ call[r] \in Served => r \in served
  /\ call[r] \in Releasing /\ r \in served => r \notin Streams
  /\ r \in usage => r \in served
  /\ row[r].status # "absent" => r \in served

\* What it says about its hold: no hold before the balance was asked, and the
\* hold is there to be taken by the one release or settlement that is due.
HoldStands(r) ==
  /\ call[r] \in {"new", "limited", "refused"} => r \notin held
  /\ call[r] \in {"ready", "releaseHold"} /\ r \notin served
       => r \in held \/ Hold[r] = 0
  /\ r \in served \ (usage \cup Interrupted) => r \in held \/ Hold[r] = 0

Stands == \A r \in Requests : CallStands(r) /\ HoldStands(r)

\* A step that changes nothing of any call but r.
Elsewhere(r) ==
  \A q \in Requests \ {r} :
    /\ call'[q] = call[q]
    /\ q \in served' <=> q \in served
    /\ q \in counted' <=> q \in counted
    /\ q \in held' <=> q \in held
    /\ q \in usage' <=> q \in usage
    /\ row'[q] = row[q]

LEMMA StandsElsewhere ==
  ASSUME NEW r \in Requests, Elsewhere(r), NEW q \in Requests \ {r},
         CallStands(q), HoldStands(q)
  PROVE  CallStands(q)' /\ HoldStands(q)'
<1>1. /\ call'[q] = call[q]
      /\ q \in served' <=> q \in served
      /\ q \in counted' <=> q \in counted
      /\ q \in held' <=> q \in held
      /\ q \in usage' <=> q \in usage
      /\ row'[q] = row[q]
  BY DEF Elsewhere
<1>2. q \in Interrupted' <=> q \in Interrupted
  BY <1>1 DEF Interrupted
<1>3. CallStands(q)'
  BY <1>1 DEF CallStands
<1>4. HoldStands(q)'
  BY <1>1, <1>2 DEF HoldStands
<1> QED BY <1>3, <1>4

LEMMA MoneyElsewhere ==
  ASSUME NEW r \in Requests,
         TakeHold(r) \/ ReturnHold(r) \/ SettleTxn(r) \/ UNCHANGED money
  PROVE  \A q \in Requests \ {r} : /\ q \in held' <=> q \in held
                                   /\ q \in usage' <=> q \in usage
  BY DEF TakeHold, ReturnHold, SettleTxn, money

LEMMA CallElsewhere ==
  ASSUME TypeOK, NEW r \in Requests, Call(r) \/ CrashCall(r)
  PROVE  Elsewhere(r)
<1>1. call \in [Requests -> CallStates] /\ RowTyped
  BY TypeGroups
<1>2. \A q \in Requests \ {r} : call'[q] = call[q]
  BY <1>1 DEF Call, AdmitLimits, RejectLimits, LimitsUnanswered, HoldBalance,
     RefuseBalance, HoldUnanswered, ReleaseRefused, ProviderReports,
     ProviderSilent, ProviderFails, SettleCall, SettleCallErrs,
     InterruptSettle, EnqueueCall, EnqueueCallErrs, ReleaseHold, ReleaseUnits,
     CrashCall, Goes
<1>3. \A q \in Requests \ {r} : q \in served' <=> q \in served
  BY DEF Call, AdmitLimits, RejectLimits, LimitsUnanswered, HoldBalance,
     RefuseBalance, HoldUnanswered, ReleaseRefused, ProviderReports,
     ProviderSilent, ProviderFails, SettleCall, SettleCallErrs,
     InterruptSettle, EnqueueCall, EnqueueCallErrs, ReleaseHold, ReleaseUnits,
     CrashCall
<1>4. TakeUnit(r) \/ ReturnUnit(r) \/ UNCHANGED limits
  BY DEF Call, AdmitLimits, RejectLimits, LimitsUnanswered, HoldBalance,
     RefuseBalance, HoldUnanswered, ReleaseRefused, ProviderReports,
     ProviderSilent, ProviderFails, SettleCall, SettleCallErrs,
     InterruptSettle, EnqueueCall, EnqueueCallErrs, ReleaseHold, ReleaseUnits,
     CrashCall
<1>5. \A q \in Requests \ {r} : q \in counted' <=> q \in counted
  BY <1>4 DEF TakeUnit, ReturnUnit, limits
<1>6. TakeHold(r) \/ ReturnHold(r) \/ SettleOk(r) \/ SettleRefused(r)
        \/ UNCHANGED money
  BY DEF Call, AdmitLimits, RejectLimits, LimitsUnanswered, HoldBalance,
     RefuseBalance, HoldUnanswered, ReleaseRefused, ProviderReports,
     ProviderSilent, ProviderFails, SettleCall, SettleCallErrs,
     InterruptSettle, EnqueueCall, EnqueueCallErrs, ReleaseHold, ReleaseUnits,
     CrashCall
<1>7. \A q \in Requests \ {r} : /\ q \in held' <=> q \in held
                                /\ q \in usage' <=> q \in usage
  BY <1>6, MoneyElsewhere DEF SettleOk, SettleRefused
<1>8. InsertRow(r) \/ UNCHANGED row
  BY DEF Call, AdmitLimits, RejectLimits, LimitsUnanswered, HoldBalance,
     RefuseBalance, HoldUnanswered, ReleaseRefused, ProviderReports,
     ProviderSilent, ProviderFails, SettleCall, SettleCallErrs,
     InterruptSettle, EnqueueCall, EnqueueCallErrs, ReleaseHold, ReleaseUnits,
     CrashCall
<1>9. \A q \in Requests \ {r} : row'[q] = row[q]
  BY <1>1, <1>8 DEF InsertRow, RowTyped
<1> QED BY <1>2, <1>3, <1>5, <1>7, <1>9 DEF Elsewhere

\* The books of a call while it settles, and the row it may leave behind.
LEMMA SettleBooks ==
  ASSUME NEW r \in Requests, SettleOk(r) \/ SettleRefused(r) \/ UNCHANGED money
  PROVE  \/ r \in usage' /\ held' \subseteq held
         \/ UNCHANGED money
  BY DEF SettleOk, SettleRefused, SettleTxn

LEMMA InsertedRow ==
  ASSUME RowTyped, NEW r \in Requests, InsertRow(r) \/ UNCHANGED row
  PROVE  row[r].status # "absent" => row'[r].status # "absent"
  BY DEF RowTyped, InsertRow

LEMMA CallStandsStep ==
  ASSUME TypeOK, NEW r \in Requests, CallStands(r), HoldStands(r),
         Call(r) \/ CrashCall(r)
  PROVE  CallStands(r)' /\ HoldStands(r)'
<1>1. call \in [Requests -> CallStates] /\ RowTyped
  BY TypeGroups
<1> USE <1>1 DEF CallStands, HoldStands, Interrupted, Counting, Unserved,
        Served, Releasing, Goes, limits, money
<1>2. CASE AdmitLimits(r) \/ RejectLimits(r) \/ LimitsUnanswered(r)
  BY <1>2 DEF AdmitLimits, RejectLimits, LimitsUnanswered, TakeUnit
<1>3. CASE HoldBalance(r) \/ RefuseBalance(r)
  BY <1>3, SettlementAssumption DEF HoldBalance, RefuseBalance, TakeHold
<1>4. CASE HoldUnanswered(r) \/ ReleaseRefused(r)
  BY <1>4 DEF HoldUnanswered, TakeHold, ReleaseRefused, ReturnUnit
<1>5. CASE ProviderReports(r) \/ ProviderSilent(r) \/ ProviderFails(r)
  BY <1>5 DEF ProviderReports, ProviderSilent, ProviderFails
<1>6. CASE SettleCall(r) \/ SettleCallErrs(r) \/ InterruptSettle(r)
  <2>1. SettleOk(r) \/ SettleRefused(r) \/ UNCHANGED money
    BY <1>6 DEF SettleCall, SettleCallErrs, InterruptSettle
  <2>2. \/ r \in usage' /\ held' \subseteq held
        \/ UNCHANGED money
    BY <2>1, SettleBooks
  <2> QED BY <1>6, <2>2 DEF SettleCall, SettleCallErrs, InterruptSettle
<1>7. CASE EnqueueCall(r) \/ EnqueueCallErrs(r)
  BY <1>7 DEF EnqueueCall, EnqueueCallErrs
<1>8. CASE ReleaseHold(r)
  BY <1>8 DEF ReleaseHold, ReturnHold
<1>9. CASE ReleaseUnits(r)
  BY <1>9 DEF ReleaseUnits, ReturnUnit
<1>10. CASE CrashCall(r)
  BY <1>10 DEF CrashCall
<1> QED BY <1>2, <1>3, <1>4, <1>5, <1>6, <1>7, <1>8, <1>9, <1>10 DEF Call

\* A worker settles only requests whose provider answered, and writes no row
\* that was not there.
LEMMA WorkStands ==
  ASSUME TypeOK, HasJob, Stamped, Stands, NEW w \in Workers,
         Work(w) \/ CrashWorker(w)
  PROVE  Stands'
<1>1. UNCHANGED <<call, served, counted>>
  BY DEF Work, ClaimRow, LoseBatch, TakeJob, EndBatch, Inspect, InspectErrs,
     Renew, RenewErrs, SettleLookup, SettleCommit, SettleErrs, Mark, MarkErrs,
     CrashWorker, api, limits
<1>2. UNCHANGED Interrupted
  BY <1>1 DEF Interrupted
<1>3. ASSUME NEW q \in Requests
      PROVE  /\ q \in held' => q \in held
             /\ q \in held /\ q \notin held' => q \in usage'
             /\ q \in usage => q \in usage'
             /\ q \in usage' => q \in served
  <2>0. q \in usage => q \in served
    BY DEF Stands, CallStands
  <2>1. CASE UNCHANGED money
    BY <2>0, <2>1 DEF money
  <2>2. CASE ~UNCHANGED money
    <3>1. SettleCommit(w) \/ SettleErrs(w)
      BY <2>2 DEF Work, ClaimRow, LoseBatch, TakeJob, EndBatch, Inspect,
         InspectErrs, Renew, RenewErrs, SettleLookup, Mark, MarkErrs,
         CrashWorker
    <3> DEFINE r == job[w].id
    <3>2. SettleTxn(r) /\ pc[w] \notin {"claim", "take"}
      BY <2>2, <3>1 DEF SettleCommit, SettleErrs, SettleOk, SettleRefused, Moves
    <3>3. r \in Requests /\ row[r].status # "absent"
      BY <3>2 DEF HasJob, Claim, Stamped, MyClaims
    <3>4. r \in served
      BY <3>3 DEF Stands, CallStands
    <3> QED BY <2>0, <3>2, <3>4 DEF SettleTxn
  <2> QED BY <2>1, <2>2
<1>4. ASSUME NEW q \in Requests, row'[q].status # "absent"
      PROVE  row[q].status # "absent"
  <2>1. row \in [Requests -> [status : RowStates, attempts : Nat, due : BOOLEAN]]
    BY DEF TypeOK
  <2>2. ASSUME NEW r \in Requests, ClaimRow(w, r)
        PROVE  row[q].status # "absent"
    BY <1>4, <2>1, <2>2 DEF ClaimRow, Claimable
  <2>3. CASE UNCHANGED row
    BY <1>4, <2>3
  <2>4. CASE job[w] \in Claim /\ Fenced(job[w]) /\ ExtendLease(job[w])
    BY <1>4, <2>1, <2>4 DEF Fenced, ExtendLease, Claim
  <2>5. CASE job[w] \in Claim /\ Mark(w)
    <3>1. ASSUME NEW s, SetStatus(job[w], s) PROVE row[q].status # "absent"
      BY <1>4, <2>1, <2>5, <3>1 DEF SetStatus, Fenced, Claim
    <3> QED BY <2>5, <3>1 DEF Mark
  <2>6. CASE Renew(w) \/ RenewErrs(w) \/ Mark(w)
    <3>1. job[w] \in Claim
      BY <2>6 DEF Renew, RenewErrs, Mark, Moves, HasJob
    <3> QED BY <2>3, <2>4, <2>5, <2>6, <3>1 DEF Renew, RenewErrs
  <2> QED BY <2>2, <2>3, <2>6 DEF Work, LoseBatch, TakeJob, EndBatch, Inspect,
          InspectErrs, SettleLookup, SettleCommit, SettleErrs, MarkErrs,
          CrashWorker
<1>5. ASSUME NEW q \in Requests PROVE CallStands(q)' /\ HoldStands(q)'
  <2>1. CallStands(q) /\ HoldStands(q)
    BY DEF Stands
  <2>2. CallStands(q)'
    BY <1>1, <1>3, <1>4, <2>1 DEF CallStands
  <2>3. HoldStands(q)'
    BY <1>1, <1>2, <1>3, <2>1 DEF HoldStands
  <2> QED BY <2>2, <2>3
<1> QED BY <1>5 DEF Stands

LEMMA NextStands ==
  ASSUME TypeOK, HasJob, Stamped, Stands, [Next]_vars
  PROVE  Stands'
<1>1. ASSUME NEW r \in Requests, Call(r) \/ CrashCall(r) PROVE Stands'
  <2>1. CallStands(r)' /\ HoldStands(r)'
    BY <1>1, CallStandsStep DEF Stands
  <2>2. \A q \in Requests \ {r} : CallStands(q)' /\ HoldStands(q)'
    BY <1>1, CallElsewhere, StandsElsewhere DEF Stands
  <2> QED BY <2>1, <2>2 DEF Stands
<1>2. CASE UNCHANGED <<call, served, counted, held, usage>>
           /\ \A r \in Requests : row'[r].status = row[r].status
  BY <1>2 DEF Stands, CallStands, HoldStands, Interrupted
<1>3. ASSUME NEW r \in Requests, BecomeDue(r) PROVE Stands'
  BY <1>2, <1>3 DEF BecomeDue, api, limits, money, TypeOK
<1>4. CASE UNCHANGED vars \/ (\E d \in Deltas : AdjustBalance(d))
           \/ (\E b \in BOOLEAN : SetOpen(b))
  BY <1>2, <1>4 DEF AdjustBalance, SetOpen, vars, api, limits, money
<1> QED BY <1>1, <1>3, <1>4, WorkStands DEF Next

\* An interrupted completion stays one.
LEMMA InterruptedStay ==
  ASSUME TypeOK, [Next]_vars PROVE Interrupted \subseteq Interrupted'
<1>1. call \in [Requests -> CallStates]
  BY DEF TypeOK
<1> SUFFICES ASSUME NEW q \in Interrupted PROVE q \in Interrupted'
  OBVIOUS
<1>2. /\ q \in served \ Streams /\ q \in Requests
      /\ call[q] \in {"releaseHold", "releaseUnits", "released", "crashed"}
  BY DEF Interrupted, TypeOK
<1>3. ASSUME NEW r \in Requests, Call(r) \/ CrashCall(r)
      PROVE  q \in Interrupted'
  <2>1. CASE q # r
    BY <1>2, <1>3, <2>1, CallElsewhere DEF Elsewhere, Interrupted
  <2>2. CASE q = r
    BY <1>1, <1>2, <1>3, <2>2 DEF Interrupted, Call, AdmitLimits, RejectLimits,
       LimitsUnanswered, HoldBalance, RefuseBalance, HoldUnanswered,
       ReleaseRefused, ProviderReports, ProviderSilent, ProviderFails,
       SettleCall, SettleCallErrs, InterruptSettle, EnqueueCall,
       EnqueueCallErrs, ReleaseHold, ReleaseUnits, CrashCall, Goes
  <2> QED BY <2>1, <2>2
<1>4. CASE UNCHANGED <<call, served>>
  BY <1>2, <1>4 DEF Interrupted
<1>5. ASSUME NEW w \in Workers, Work(w) \/ CrashWorker(w)
      PROVE  UNCHANGED <<call, served>>
  BY <1>5 DEF Work, ClaimRow, LoseBatch, TakeJob, EndBatch, Inspect,
     InspectErrs, Renew, RenewErrs, SettleLookup, SettleCommit, SettleErrs,
     Mark, MarkErrs, CrashWorker, api
<1>6. ASSUME NEW r \in Requests, BecomeDue(r) PROVE UNCHANGED <<call, served>>
  BY <1>6 DEF BecomeDue, api
<1> QED BY <1>3, <1>4, <1>5, <1>6 DEF Next, AdjustBalance, SetOpen, vars, api

-----------------------------------------------------------------------------
(* The steps that write the holds and the units, with what Stands adds.    *)

\* The hold of r is still there to be taken, unless an interrupted completion
\* may have taken it.
Holds(r) == Interrupted' = {} => r \in held \/ Hold[r] = 0

HoldStep ==
  \/ held' = held /\ customer'.reserved = customer.reserved
  \/ \E r \in Requests : r \notin held /\ TakeHold(r)
  \/ \E r \in Requests : Holds(r) /\ ReturnHold(r)
  \/ \E r \in Requests : Holds(r) /\ CanSettle(r) /\ SettleTxn(r)

LEMMA SettleHolds ==
  ASSUME Interrupted \subseteq Interrupted', NEW r \in Requests, HoldStands(r),
         r \in served, SettleOk(r) \/ SettleRefused(r) \/ UNCHANGED money
  PROVE  HoldStep
<1>1. CASE UNCHANGED money
  BY <1>1 DEF HoldStep, money
<1>2. CASE ~AlreadySettled(r) /\ CanSettle(r) /\ SettleTxn(r)
  <2>1. Holds(r)
    BY <1>2 DEF Holds, HoldStands, AlreadySettled
  <2> QED BY <1>2, <2>1 DEF HoldStep
<1> QED BY <1>1, <1>2 DEF SettleOk, SettleRefused

LEMMA NextHolds ==
  ASSUME TypeOK, HasJob, Stamped, Stands, [Next]_vars
  PROVE  HoldStep
<1>1. call \in [Requests -> CallStates]
      /\ customer \in [amount : Int, reserved : Int, open : BOOLEAN]
  BY DEF TypeOK
<1>2. Interrupted \subseteq Interrupted'
  BY InterruptedStay
<1>3. CASE UNCHANGED money
  BY <1>3 DEF HoldStep, money
<1>4. ASSUME NEW r \in Requests, Call(r), ~UNCHANGED money PROVE HoldStep
  <2>1. CallStands(r) /\ HoldStands(r)
    BY DEF Stands
  <2>2. CASE HoldBalance(r) \/ HoldUnanswered(r)
    <3>1. call[r] = "limited" /\ TakeHold(r)
      BY <1>4, <2>2 DEF HoldBalance, HoldUnanswered, Goes
    <3>2. r \notin held
      BY <2>1, <3>1 DEF HoldStands
    <3> QED BY <3>1, <3>2 DEF HoldStep
  <2>3. CASE SettleCall(r) \/ SettleCallErrs(r) \/ InterruptSettle(r)
    <3>1. /\ call[r] = "settle"
          /\ SettleOk(r) \/ SettleRefused(r) \/ UNCHANGED money
      BY <2>3 DEF SettleCall, SettleCallErrs, InterruptSettle, Goes
    <3>2. r \in served
      BY <2>1, <3>1 DEF CallStands, Served
    <3> QED BY <1>2, <2>1, <3>1, <3>2, SettleHolds
  <2>4. CASE ReleaseHold(r)
    <3>1. /\ call[r] = "releaseHold" /\ call'[r] = "releaseUnits"
          /\ served' = served /\ ReturnHold(r)
      BY <1>1, <1>4, <2>4 DEF ReleaseHold, Goes
    <3>2. CASE r \in served
      BY <2>1, <3>1, <3>2 DEF CallStands, Releasing, Interrupted, Holds, HoldStep
    <3>3. CASE r \notin served
      BY <2>1, <3>1, <3>3 DEF HoldStands, Holds, HoldStep
    <3> QED BY <3>2, <3>3
  <2> QED BY <1>4, <2>2, <2>3, <2>4 DEF Call, AdmitLimits, RejectLimits,
          LimitsUnanswered, RefuseBalance, ReleaseRefused, ProviderReports,
          ProviderSilent, ProviderFails, EnqueueCall, EnqueueCallErrs,
          ReleaseUnits
<1>5. ASSUME NEW w \in Workers, Work(w), ~UNCHANGED money PROVE HoldStep
  <2>1. SettleCommit(w) \/ SettleErrs(w)
    BY <1>5 DEF Work, ClaimRow, LoseBatch, TakeJob, EndBatch, Inspect,
       InspectErrs, Renew, RenewErrs, SettleLookup, Mark, MarkErrs
  <2> DEFINE r == job[w].id
  <2>2. /\ SettleOk(r) \/ SettleRefused(r) \/ UNCHANGED money
        /\ pc[w] \notin {"claim", "take"}
    BY <2>1 DEF SettleCommit, SettleErrs, Moves
  <2>3. r \in Requests /\ row[r].status # "absent"
    BY <2>2 DEF HasJob, Claim, Stamped, MyClaims
  <2>4. HoldStands(r) /\ r \in served
    BY <2>3 DEF Stands, CallStands
  <2> HIDE DEF r
  <2> QED BY <1>2, <2>2, <2>3, <2>4, SettleHolds
<1>6. CASE \/ \E d \in Deltas : AdjustBalance(d)
           \/ \E b \in BOOLEAN : SetOpen(b)
  BY <1>1, <1>6 DEF AdjustBalance, SetOpen, HoldStep
<1> QED BY <1>3, <1>4, <1>5, <1>6 DEF Next, CrashCall, BecomeDue, CrashWorker,
        vars

UnitStep ==
  \/ UNCHANGED limits
  \/ \E r \in Requests : r \notin counted /\ TakeUnit(r)
  \/ \E r \in Requests : r \in counted /\ ReturnUnit(r)

LEMMA NextUnits ==
  ASSUME Stands, [Next]_vars PROVE UnitStep
<1>1. ASSUME NEW r \in Requests, Call(r), ~UNCHANGED limits PROVE UnitStep
  <2>1. CallStands(r)
    BY DEF Stands
  <2>2. CASE AdmitLimits(r) \/ LimitsUnanswered(r)
    <3>1. call[r] = "new" /\ TakeUnit(r)
      BY <1>1, <2>2 DEF AdmitLimits, LimitsUnanswered, Goes
    <3> QED BY <2>1, <3>1 DEF CallStands, UnitStep
  <2>3. CASE ReleaseRefused(r) \/ ReleaseUnits(r)
    <3>1. call[r] \in {"refused", "releaseUnits"} /\ ReturnUnit(r)
      BY <1>1, <2>3 DEF ReleaseRefused, ReleaseUnits, Goes
    <3> QED BY <2>1, <3>1 DEF CallStands, Counting, UnitStep
  <2> QED BY <1>1, <2>2, <2>3 DEF Call, RejectLimits, HoldBalance,
          RefuseBalance, HoldUnanswered, ProviderReports, ProviderSilent,
          ProviderFails, SettleCall, SettleCallErrs, InterruptSettle,
          EnqueueCall, EnqueueCallErrs, ReleaseHold
<1>2. ASSUME NEW w \in Workers, Work(w) \/ CrashWorker(w)
      PROVE  UNCHANGED limits
  BY <1>2 DEF Work, ClaimRow, LoseBatch, TakeJob, EndBatch, Inspect,
     InspectErrs, Renew, RenewErrs, SettleLookup, SettleCommit, SettleErrs,
     Mark, MarkErrs, CrashWorker
<1>3. CASE UNCHANGED limits
  BY <1>3 DEF UnitStep
<1> QED BY <1>1, <1>2, <1>3 DEF Next, CrashCall, BecomeDue, AdjustBalance,
        SetOpen, vars

-----------------------------------------------------------------------------
(* The sums. *)

\* Only finitely many calls have been admitted, so the sums are defined.
Accounted == IsFiniteSet(held) /\ IsFiniteSet(counted) /\ HoldsAccounted

LEMMA HoldsTotal ==
  ASSUME NEW S \in SUBSET Requests, IsFiniteSet(S)
  PROVE  /\ Total(Hold, S) \in Int
         /\ \A r \in S : Total(Hold, S) = Hold[r] + Total(Hold, S \ {r})
         /\ \A r \in Requests \ S :
              Total(Hold, S \cup {r}) = Hold[r] + Total(Hold, S)
<1>1. \A r \in Requests : Hold[r] \in Int
  BY SettlementAssumption
<1>2. Total(Hold, S) \in Int
  BY <1>1, TotalType
<1>3. ASSUME NEW r \in S PROVE Total(Hold, S) = Hold[r] + Total(Hold, S \ {r})
  BY <1>1, TotalRemove
<1>4. ASSUME NEW r \in Requests \ S
      PROVE  Total(Hold, S \cup {r}) = Hold[r] + Total(Hold, S)
  BY <1>1, TotalAdd
<1> QED BY <1>2, <1>3, <1>4

\* Returning or settling a hold takes it off both sides, or, when it was taken
\* before, off the reserved amount alone.
LEMMA HoldsShrink ==
  ASSUME NEW S \in SUBSET Requests, IsFiniteSet(S), NEW r \in Requests,
         NEW k \in Int, k <= Total(Hold, S)
  PROVE  /\ k - Hold[r] <= Total(Hold, S \ {r})
         /\ k = Total(Hold, S) /\ (r \in S \/ Hold[r] = 0)
              => k - Hold[r] = Total(Hold, S \ {r})
<1>1. Hold[r] \in Nat
  BY SettlementAssumption
<1>2. CASE r \in S
  <2>1. Total(Hold, S) = Hold[r] + Total(Hold, S \ {r})
    BY <1>2, HoldsTotal
  <2>2. Total(Hold, S \ {r}) \in Int /\ Total(Hold, S) \in Int
    BY HoldsTotal, FS_Subset
  <2> QED BY <1>1, <1>2, <2>1, <2>2
<1>3. CASE r \notin S
  <2>1. S \ {r} = S /\ Total(Hold, S) \in Int
    BY <1>3, HoldsTotal
  <2> QED BY <1>1, <1>3, <2>1
<1> QED BY <1>2, <1>3

LEMMA HoldsStep ==
  ASSUME TypeOK, IsFiniteSet(held), customer.reserved <= Total(Hold, held),
         Interrupted = {} => customer.reserved = Total(Hold, held),
         Interrupted \subseteq Interrupted', HoldStep
  PROVE  /\ IsFiniteSet(held')
         /\ customer'.reserved <= Total(Hold, held')
         /\ Interrupted' = {} => customer'.reserved = Total(Hold, held')
<1>1. /\ customer \in [amount : Int, reserved : Int, open : BOOLEAN]
      /\ customer.reserved \in Int
      /\ held \in SUBSET Requests
  BY DEF TypeOK
<1>2. Interrupted' = {} => Interrupted = {}
  OBVIOUS
<1>3. CASE held' = held /\ customer'.reserved = customer.reserved
  BY <1>2, <1>3
<1>4. ASSUME NEW r \in Requests, r \notin held, TakeHold(r)
      PROVE  /\ IsFiniteSet(held')
             /\ customer'.reserved <= Total(Hold, held')
             /\ Interrupted' = {} => customer'.reserved = Total(Hold, held')
  <2>1. /\ customer'.reserved = customer.reserved + Hold[r]
        /\ held' = held \cup {r}
    BY <1>1, <1>4 DEF TakeHold
  <2>2. Total(Hold, held \cup {r}) = Hold[r] + Total(Hold, held)
        /\ Total(Hold, held) \in Int /\ Hold[r] \in Int
    BY <1>1, <1>4, HoldsTotal, SettlementAssumption
  <2>3. IsFiniteSet(held')
    BY <2>1, FS_AddElement
  <2> QED BY <1>1, <1>2, <2>1, <2>2, <2>3
<1>5. ASSUME NEW r \in Requests, Holds(r),
             customer'.reserved = customer.reserved - Hold[r],
             held' = held \ {r}
      PROVE  /\ IsFiniteSet(held')
             /\ customer'.reserved <= Total(Hold, held')
             /\ Interrupted' = {} => customer'.reserved = Total(Hold, held')
  <2>1. IsFiniteSet(held')
    BY <1>5, FS_Subset
  <2> DEFINE k == customer.reserved
  <2>2. k \in Int /\ k <= Total(Hold, held)
    BY <1>1
  <2> HIDE DEF k
  <2>3. /\ k - Hold[r] <= Total(Hold, held \ {r})
        /\ k = Total(Hold, held) /\ (r \in held \/ Hold[r] = 0)
             => k - Hold[r] = Total(Hold, held \ {r})
    BY <1>1, <2>2, HoldsShrink
  <2> QED BY <1>2, <1>5, <2>1, <2>3 DEF Holds, k
<1>6. ASSUME NEW r \in Requests, ReturnHold(r)
      PROVE  \/ held' = held /\ customer'.reserved = customer.reserved
             \/ /\ customer'.reserved = customer.reserved - Hold[r]
                /\ held' = held \ {r}
  BY <1>1, <1>6 DEF ReturnHold
<1>7. ASSUME NEW r \in Requests, SettleTxn(r)
      PROVE  /\ customer'.reserved = customer.reserved - Hold[r]
             /\ held' = held \ {r}
  BY <1>1, <1>7 DEF SettleTxn
<1> QED BY <1>3, <1>4, <1>5, <1>6, <1>7 DEF HoldStep

LEMMA UnitsStep ==
  ASSUME TypeOK, IsFiniteSet(counted), window = Cardinality(counted), UnitStep
  PROVE  IsFiniteSet(counted') /\ window' = Cardinality(counted')
<1>1. CASE UNCHANGED limits
  BY <1>1 DEF limits
<1>2. ASSUME NEW r \in Requests, r \notin counted, TakeUnit(r)
      PROVE  IsFiniteSet(counted') /\ window' = Cardinality(counted')
  BY <1>2, FS_AddElement DEF TakeUnit
<1>3. ASSUME NEW r \in Requests, r \in counted, ReturnUnit(r)
      PROVE  IsFiniteSet(counted') /\ window' = Cardinality(counted')
  <2>1. Cardinality(counted \ {r}) = Cardinality(counted) - 1
        /\ IsFiniteSet(counted \ {r})
    BY <1>3, FS_RemoveElement
  <2>2. Cardinality(counted) # 0
    BY <1>3, FS_EmptySet
  <2> QED BY <1>3, <2>1, <2>2 DEF ReturnUnit, TypeOK
<1> QED BY <1>1, <1>2, <1>3 DEF UnitStep

\* The reserved amount is what the calls hold: nothing stays reserved that no
\* call accounts for, however preflight, settlement, release, workers with
\* stale claims, crashes and unanswered calls interleave; and no hold is taken
\* twice but by a completion interrupted after its provider answered.  The
\* counter of the rolling limit is the number of units not given back.
THEOREM HoldsAccountedFor == Spec => []HoldsAccounted
<1>1. Init => Stamped /\ OneCurrentClaim
  BY DEF Init, Stamped, OneCurrentClaim, MyClaims
<1>2. Init => Stands
  BY DEF Init, Stands, CallStands, HoldStands, Counting, Served, Releasing
<1>3. Init => Accounted
  BY TotalEmpty, FS_EmptySet DEF Init, Accounted, HoldsAccounted
<1>4. /\ TypeOK /\ HasJob /\ Stamped /\ OneCurrentClaim /\ Stands /\ Accounted
      /\ [Next]_vars
      => Stamped' /\ OneCurrentClaim' /\ Stands' /\ Accounted'
  <2> SUFFICES ASSUME TypeOK, HasJob, Stamped, OneCurrentClaim, Stands,
                      Accounted, [Next]_vars
               PROVE  Stamped' /\ OneCurrentClaim' /\ Stands' /\ Accounted'
    OBVIOUS
  <2>1. Stamped' /\ OneCurrentClaim'
    BY StampedStep
  <2>2. Stands'
    BY NextStands
  <2>3. HoldStep /\ UnitStep /\ Interrupted \subseteq Interrupted'
    BY NextHolds, NextUnits, InterruptedStay
  <2>4. Accounted'
    BY <2>3, HoldsStep, UnitsStep DEF Accounted, HoldsAccounted
  <2> QED BY <2>1, <2>2, <2>4
<1>5. Accounted => HoldsAccounted
  BY DEF Accounted
<1> QED BY <1>1, <1>2, <1>3, <1>4, <1>5, TypedAlways, PTL DEF Spec


-----------------------------------------------------------------------------
(* The rolling counters of RateLimits: buckets and windows. *)
USE RateLimitsAssumption

LEMMA BucketFacts ==
  ASSUME NEW t \in 0..MaxTime
  PROVE  /\ BucketOf(t) \in Buckets
         /\ BucketOf(t) <= t /\ t <= BucketOf(t) + Bucket - 1
<1>1. t \in Nat /\ Bucket \in Nat \ {0}
  OBVIOUS
<1>2. BucketOf(t) \in Nat /\ BucketOf(t) <= t /\ t < BucketOf(t) + Bucket
  BY <1>1 DEF BucketOf
<1>3. BucketOf(t) % Bucket = 0
  BY <1>1 DEF BucketOf
<1>4. QED
  BY <1>2, <1>3 DEF Buckets

LEMMA WindowsFinite ==
  ASSUME NEW t
  PROVE  IsFiniteSet(Buckets) /\ IsFiniteSet(InWindow(t))
<1>1. IsFiniteSet(0..MaxTime)
  BY FS_Interval
<1>2. IsFiniteSet(Buckets)
  BY <1>1, FS_Subset DEF Buckets
<1>3. QED
  BY <1>2, FS_Subset DEF InWindow

LEMMA WindowTyped ==
  ASSUME counter \in [Buckets -> Nat], NEW t
  PROVE  WindowSum(t) \in Nat
<1>1. InWindow(t) \in SUBSET Buckets
  BY DEF InWindow
<1>2. \A b \in Buckets : counter[b] \in Nat
  OBVIOUS
<1>3. QED
  BY <1>1, <1>2, WindowsFinite, TotalNat DEF WindowSum

\* As time passes a window only loses buckets.
LEMMA WindowShrinks ==
  ASSUME counter \in [Buckets -> Nat], NEW t \in Nat, NEW u \in Nat, t <= u
  PROVE  InWindow(u) \subseteq InWindow(t) /\ WindowSum(u) <= WindowSum(t)
<1>1. InWindow(u) \in SUBSET InWindow(t)
  BY DEF InWindow, Buckets
<1>2. \A b \in InWindow(t) : counter[b] \in Nat
  BY DEF InWindow
<1>3. QED
  BY <1>1, <1>2, WindowsFinite, TotalMonotone DEF WindowSum

\* One bucket moves by d.
BucketMoves(b, d) == counter' = [counter EXCEPT ![b] = @ + d]

LEMMA WindowMoves ==
  ASSUME counter \in [Buckets -> Nat], counter' \in [Buckets -> Nat],
         NEW b \in Buckets, NEW d \in Int, BucketMoves(b, d), NEW t
  PROVE  Total(counter', InWindow(t)) =
           IF b \in InWindow(t) THEN WindowSum(t) + d ELSE WindowSum(t)
<1> DEFINE W == InWindow(t)
<1>1. IsFiniteSet(W) /\ W \in SUBSET Buckets
  BY WindowsFinite DEF InWindow
<1>2. /\ \A x \in W : counter[x] \in Int /\ counter'[x] \in Int
      /\ \A x \in W \ {b} : counter[x] = counter'[x]
      /\ counter'[b] = counter[b] + d /\ counter[b] \in Int
  BY <1>1 DEF BucketMoves
<1>3. WindowSum(t) = Total(counter, W) /\ WindowSum(t) \in Int
  BY WindowTyped DEF WindowSum
<1> HIDE DEF W
<1>4. CASE b \in W
  <2>1. Total(counter', W) = Total(counter, W) - counter[b] + counter'[b]
    BY <1>1, <1>2, <1>4, TotalChange
  <2>2. Total(counter', W) = WindowSum(t) + d
    BY <2>1, <1>2, <1>3
  <2>3. QED
    BY <2>2, <1>4 DEF W
<1>5. CASE b \notin W
  <2>1. \A x \in W : counter[x] = counter'[x]
    BY <1>2, <1>5
  <2>2. Total(counter', W) = Total(counter, W)
    BY <1>1, <2>1, TotalAgree
  <2>3. QED
    BY <2>2, <1>3, <1>5 DEF W
<1>6. QED
  BY <1>4, <1>5

-----------------------------------------------------------------------------
(* What each phase of a call implies. *)

CallOK(c) ==
  /\ phase[c] \in {"new", "reserve", "write"}
       => charge[c] = 0 /\ tries[c] < MaxReserveAttempts
  /\ phase[c] = "write" => delta[c] = Estimate[c]
  /\ phase[c] \in {"admitted", "running", "adjust"} => charge[c] = Estimate[c]
  /\ phase[c] = "adjust" => Estimate[c] + delta[c] >= 0
  /\ at[c] <= now /\ started[c] <= now

\* The bucket of c and its charge move together.
ChargeStep(c, d) ==
  /\ d \in Int /\ charge[c] + d \in Nat
  /\ Add(c, d)
  /\ charge' = [charge EXCEPT ![c] = charge[c] + d]
  /\ UNCHANGED times

Group(b) == {c \in Calls : HoldBucket(c) = b}

LEMMA HoldBucketFacts ==
  ASSUME LimitsTypeOK, NEW c \in Calls
  PROVE  /\ HoldBucket(c) \in Buckets
         /\ HoldBucket(c) <= at[c] /\ at[c] <= HoldBucket(c) + Bucket - 1
  BY BucketFacts DEF LimitsTypeOK, HoldBucket

LEMMA GroupFinite ==
  ASSUME NEW S \in SUBSET Calls
  PROVE  IsFiniteSet(S)
  BY FS_Subset

\* A bucket holds no less than what any of its calls is charged.
LEMMA BucketCovers ==
  ASSUME LimitsTypeOK, CountersAccount, NEW c \in Calls
  PROVE  charge[c] <= counter[HoldBucket(c)]
<1> DEFINE b == HoldBucket(c)
           G == Group(b)
<1>1. IsFiniteSet(G) /\ c \in G /\ \A x \in G : charge[x] \in Nat
  BY GroupFinite DEF Group, LimitsTypeOK
<1>2. counter[b] = Total(charge, G)
  BY HoldBucketFacts DEF CountersAccount, Group
<1>3. \A x \in G : charge[x] \in Int
  BY <1>1
<1>4. Total(charge, G) = charge[c] + Total(charge, G \ {c})
  <2> HIDE DEF G
  <2> QED BY <1>1, <1>3, TotalRemove
<1>5. Total(charge, G \ {c}) \in Nat
  <2>1. G \ {c} \in SUBSET G
    OBVIOUS
  <2> HIDE DEF G
  <2> QED BY <1>1, <2>1, TotalNat
<1>6. charge[c] \in Nat
  BY <1>1
<1>7. QED
  BY <1>2, <1>4, <1>5, <1>6

\* So the floor at zero never cuts anything off.
LEMMA ChargeMoves ==
  ASSUME LimitsTypeOK, CountersAccount, NEW c \in Calls, NEW d, ChargeStep(c, d)
  PROVE  /\ BucketMoves(HoldBucket(c), d)
         /\ counter' \in [Buckets -> Nat] /\ charge' \in [Calls -> Nat]
<1>1. HoldBucket(c) \in Buckets /\ charge[c] <= counter[HoldBucket(c)]
  BY HoldBucketFacts, BucketCovers
<1>2. /\ counter \in [Buckets -> Nat] /\ charge \in [Calls -> Nat]
      /\ d \in Int /\ charge[c] + d \in Nat
  BY DEF LimitsTypeOK, ChargeStep
<1>3. counter[HoldBucket(c)] + d \in Nat
  BY <1>1, <1>2
<1>4. Larger(0, counter[HoldBucket(c)] + d) = counter[HoldBucket(c)] + d
  BY <1>3 DEF Larger
<1>5. BucketMoves(HoldBucket(c), d)
  BY <1>4 DEF ChargeStep, Add, BucketMoves
<1>6. QED
  BY <1>1, <1>2, <1>3, <1>5 DEF BucketMoves, ChargeStep

-----------------------------------------------------------------------------
(* Each bucket is the sum of its calls' charges. *)

\* One call changes its charge or its bucket, and the buckets follow.
LEMMA AccountsFollow ==
  ASSUME LimitsTypeOK, charge' \in [Calls -> Nat], CountersAccount, NEW c \in Calls,
         \A o \in Calls \ {c} : charge'[o] = charge[o] /\ at'[o] = at[o],
         \A b \in Buckets :
           counter'[b] = counter[b]
                         - (IF HoldBucket(c) = b THEN charge[c] ELSE 0)
                         + (IF HoldBucket(c)' = b THEN charge'[c] ELSE 0)
  PROVE  CountersAccount'
<1> SUFFICES ASSUME NEW b \in Buckets
             PROVE  counter'[b] = Total(charge', Group(b)')
  BY DEF CountersAccount, Group, Buckets
<1> DEFINE G == Group(b)
           H == Group(b)'
           K == Group(b) \ {c}
<1>1. K \in SUBSET Calls /\ G \in SUBSET Calls /\ H \in SUBSET Calls
  BY DEF Group
<1>2. IsFiniteSet(K) /\ IsFiniteSet(G) /\ IsFiniteSet(H)
  BY <1>1, GroupFinite
<1>3. H \ {c} = K
  <2>1. \A o \in Calls \ {c} : HoldBucket(o)' = HoldBucket(o)
    BY DEF HoldBucket, BucketOf
  <2>2. QED
    BY <2>1 DEF Group
<1>4. \A x \in Calls : charge[x] \in Int /\ charge'[x] \in Int
  BY DEF LimitsTypeOK
<1>5. Total(charge, K) = Total(charge', K) /\ Total(charge, K) \in Int
  <2>1. \A x \in K : charge[x] = charge'[x]
    BY <1>1
  <2>2. \A x \in K : charge[x] \in Int
    BY <1>1, <1>4
  <2> HIDE DEF K
  <2>3. QED
    BY <1>2, <2>1, <2>2, TotalAgree, TotalType
<1>6. Total(charge, G) =
        Total(charge, K) + (IF HoldBucket(c) = b THEN charge[c] ELSE 0)
  <2>1. CASE HoldBucket(c) = b
    <3>1. c \in G
      BY <2>1 DEF Group
    <3>2. \A x \in G : charge[x] \in Int
      BY <1>1, <1>4
    <3>3. Total(charge, G) = charge[c] + Total(charge, G \ {c})
      <4> HIDE DEF G
      <4> QED BY <1>2, <3>1, <3>2, TotalRemove
    <3>4. charge[c] \in Int
      BY <1>4
    <3>5. QED
      BY <1>5, <2>1, <3>3, <3>4
  <2>2. CASE HoldBucket(c) # b
    <3>1. G = K
      BY <2>2 DEF Group
    <3>2. Total(charge, G) = Total(charge, K)
      BY <3>1
    <3>3. QED
      BY <1>5, <2>2, <3>2
  <2>3. QED
    BY <2>1, <2>2
<1>7. Total(charge', H) =
        Total(charge', K) + (IF HoldBucket(c)' = b THEN charge'[c] ELSE 0)
  <2>1. CASE HoldBucket(c)' = b
    <3>1. c \in H
      BY <2>1 DEF Group
    <3>2. \A x \in H : charge'[x] \in Int
      BY <1>1, <1>4
    <3>3. Total(charge', H) = charge'[c] + Total(charge', H \ {c})
      <4> HIDE DEF H
      <4> QED BY <1>2, <3>1, <3>2, TotalRemove
    <3>4. charge'[c] \in Int /\ Total(charge', H \ {c}) = Total(charge', K)
      BY <1>3, <1>4
    <3>5. QED
      BY <1>5, <2>1, <3>3, <3>4
  <2>2. CASE HoldBucket(c)' # b
    <3>1. c \notin H
      BY <2>2 DEF Group
    <3>2. H = K
      BY <1>3, <3>1
    <3>3. Total(charge', H) = Total(charge', K)
      BY <3>2
    <3>4. QED
      BY <1>5, <2>2, <3>3
  <2>3. QED
    BY <2>1, <2>2
<1>8. counter[b] = Total(charge, G)
  BY DEF CountersAccount, Group
<1> DEFINE was == IF HoldBucket(c) = b THEN charge[c] ELSE 0
           is  == IF HoldBucket(c)' = b THEN charge'[c] ELSE 0
           rest == Total(charge, K)
<1>9. was \in Int /\ is \in Int /\ rest \in Int
  BY <1>4, <1>5
<1>10. counter[b] = rest + was
  BY <1>6, <1>8
<1>11. counter'[b] = counter[b] - was + is
  OBVIOUS
<1>12. Total(charge', H) = rest + is
  BY <1>5, <1>7
<1> HIDE DEF was, is, rest, H
<1>13. counter'[b] = Total(charge', H)
  BY <1>9, <1>10, <1>11, <1>12
<1>14. QED
  BY <1>13 DEF H

LEMMA ChargeAccounts ==
  ASSUME LimitsTypeOK, CountersAccount, NEW c \in Calls, NEW d, ChargeStep(c, d)
  PROVE  CountersAccount'
<1> DEFINE h == HoldBucket(c)
<1>1. /\ BucketMoves(h, d) /\ charge' \in [Calls -> Nat]
      /\ h \in Buckets /\ HoldBucket(c)' = h
  BY ChargeMoves, HoldBucketFacts DEF ChargeStep, times, HoldBucket, BucketOf
<1>2. /\ charge'[c] = charge[c] + d /\ charge[c] \in Int /\ d \in Int
      /\ counter \in [Buckets -> Nat]
  BY DEF ChargeStep, LimitsTypeOK
<1>3. \A o \in Calls \ {c} : charge'[o] = charge[o] /\ at'[o] = at[o]
  BY DEF ChargeStep, LimitsTypeOK, times
<1> HIDE DEF h
<1>4. ASSUME NEW b \in Buckets
      PROVE  counter'[b] = counter[b] - (IF h = b THEN charge[c] ELSE 0)
                           + (IF h = b THEN charge'[c] ELSE 0)
  <2>1. counter'[b] = IF h = b THEN counter[b] + d ELSE counter[b]
    BY <1>1, <1>2 DEF BucketMoves
  <2>2. counter[b] \in Int
    BY <1>2
  <2>3. QED
    BY <1>2, <2>1, <2>2
<1>5. \A b \in Buckets :
        counter'[b] = counter[b]
                      - (IF HoldBucket(c) = b THEN charge[c] ELSE 0)
                      + (IF HoldBucket(c)' = b THEN charge'[c] ELSE 0)
  BY <1>1, <1>4 DEF h
<1>6. QED
  BY <1>1, <1>3, <1>5, AccountsFollow

LEMMA ArriveAccounts ==
  ASSUME LimitsTypeOK, CountersAccount, NEW c \in Calls, CallOK(c), Arrive(c)
  PROVE  CountersAccount'
<1>1. charge[c] = 0 /\ UNCHANGED <<charge, counter>>
  BY DEF CallOK, Arrive, Advances
<1>2. \A o \in Calls \ {c} : charge'[o] = charge[o] /\ at'[o] = at[o]
  BY <1>1 DEF Arrive, LimitsTypeOK
<1>3. ASSUME NEW b \in Buckets
      PROVE  counter'[b] = counter[b]
                           - (IF HoldBucket(c) = b THEN charge[c] ELSE 0)
                           + (IF HoldBucket(c)' = b THEN charge'[c] ELSE 0)
  <2>1. counter[b] \in Int
    BY DEF LimitsTypeOK
  <2>2. QED
    BY <1>1, <2>1
<1>4. charge' \in [Calls -> Nat]
  BY <1>1 DEF LimitsTypeOK
<1>5. QED
  BY <1>2, <1>3, <1>4, AccountsFollow

-----------------------------------------------------------------------------
(* The steps, by what they do to charges and buckets. *)

LEMMA ReservedCharges ==
  ASSUME LimitsTypeOK, NEW c \in Calls, CallOK(c), phase[c] = "write", Reserved(c),
         UNCHANGED times
  PROVE  ChargeStep(c, delta[c])
<1>1. charge[c] = 0 /\ delta[c] = Estimate[c] /\ Estimate[c] \in Nat
  BY DEF CallOK
<1>2. delta[c] \in Int /\ charge[c] + delta[c] \in Nat
  BY <1>1
<1>3. charge' = [charge EXCEPT ![c] = charge[c] + delta[c]]
  <2>1. charge[c] + delta[c] = delta[c]
    BY <1>1
  <2>2. charge' = [charge EXCEPT ![c] = delta[c]]
    BY DEF Reserved
  <2>3. QED
    BY <2>1, <2>2
<1>4. Add(c, delta[c])
  BY DEF Reserved
<1>5. QED
  BY <1>2, <1>3, <1>4 DEF ChargeStep

LEMMA ReleaseCharges ==
  ASSUME LimitsTypeOK, NEW c \in Calls, CallOK(c), Release(c)
  PROVE  ChargeStep(c, -Estimate[c])
<1>1. charge[c] = Estimate[c] /\ Estimate[c] \in Nat
  BY DEF CallOK, Release, Advances
<1>2. -Estimate[c] \in Int /\ charge[c] + (-Estimate[c]) = 0
  BY <1>1
<1>3. charge' = [charge EXCEPT ![c] = charge[c] + (-Estimate[c])]
  BY <1>2 DEF Release
<1>4. Add(c, -Estimate[c]) /\ UNCHANGED times
  BY DEF Release
<1>5. charge[c] + (-Estimate[c]) \in Nat
  BY <1>2
<1>6. QED
  BY <1>2, <1>3, <1>4, <1>5 DEF ChargeStep

LEMMA SettledCharges ==
  ASSUME LimitsTypeOK, NEW c \in Calls, CallOK(c), Settled(c)
  PROVE  ChargeStep(c, delta[c])
<1>1. /\ charge[c] = Estimate[c] /\ Estimate[c] \in Nat /\ Actual[c] \in Nat
      /\ Estimate[c] + delta[c] >= 0 /\ delta[c] \in Int
  BY DEF CallOK, Settled, Advances, LimitsTypeOK
<1>2. charge[c] + delta[c] \in Nat
  BY <1>1
<1>3. charge' = [charge EXCEPT ![c] = charge[c] + delta[c]]
  BY DEF Settled
<1>4. Add(c, delta[c]) /\ UNCHANGED times
  BY DEF Settled
<1>5. QED
  BY <1>1, <1>2, <1>3, <1>4 DEF ChargeStep

\* Every step leaves counters and charges as they are, moves one bucket and one
\* charge by the same amount, or gives a call that is charged nothing its time.
LEMMA NextCharges ==
  ASSUME LimitsTypeOK, \A c \in Calls : CallOK(c), [LimitsNext]_limitVars
  PROVE  \/ UNCHANGED <<counter, charge, at>>
         \/ \E c \in Calls : Arrive(c)
         \/ \E c \in Calls, d \in Int : ChargeStep(c, d)
<1>1. ASSUME NEW c \in Calls, Step(c)
      PROVE  \/ UNCHANGED <<counter, charge, at>>
             \/ \E d \in Int : ChargeStep(c, d)
  <2>1. delta[c] \in Int /\ -Estimate[c] \in Int
    BY DEF LimitsTypeOK
  <2>2. CASE Reserve(c) \/ Retry(c) \/ Generate(c) \/ Settle(c) \/ SettleConflicts(c)
    BY <2>2 DEF Reserve, Retry, Generate, Settle, SettleConflicts, times
  <2>3. CASE Admit(c)
    <3>1. phase[c] = "write" /\ Reserved(c) /\ UNCHANGED times
      BY <2>3 DEF Admit, Advances
    <3>2. QED
      BY <2>1, <3>1, ReservedCharges
  <2>4. CASE ReserveErrs(c)
    <3>1. phase[c] = "write" /\ UNCHANGED times
      BY <2>4 DEF ReserveErrs, Advances
    <3>2. CASE Reserved(c)
      BY <2>1, <3>1, <3>2, ReservedCharges
    <3>3. CASE UNCHANGED <<counter, charge, skewed>>
      BY <3>1, <3>3 DEF times
    <3>4. QED
      BY <2>4, <3>2, <3>3 DEF ReserveErrs
  <2>5. CASE Release(c)
    BY <2>1, <2>5, ReleaseCharges
  <2>6. CASE Settled(c)
    BY <2>1, <2>6, SettledCharges
  <2>7. QED
    BY <1>1, <2>2, <2>3, <2>4, <2>5, <2>6 DEF Step
<1>2. ASSUME NEW c \in Calls, Leave(c) PROVE UNCHANGED <<counter, charge, at>>
  BY <1>2 DEF Leave, times
<1>3. CASE Tick
  BY <1>3 DEF Tick, times
<1>4. CASE UNCHANGED limitVars
  BY <1>4 DEF limitVars, times
<1>5. QED
  BY <1>1, <1>2, <1>3, <1>4 DEF LimitsNext

LEMMA NextAccounts ==
  ASSUME LimitsTypeOK, \A c \in Calls : CallOK(c), CountersAccount, [LimitsNext]_limitVars
  PROVE  /\ counter' \in [Buckets -> Nat] /\ charge' \in [Calls -> Nat]
         /\ CountersAccount'
<1>1. CASE UNCHANGED <<counter, charge, at>>
  BY <1>1 DEF LimitsTypeOK, CountersAccount, HoldBucket, BucketOf, Buckets
<1>2. ASSUME NEW c \in Calls, Arrive(c)
      PROVE  /\ counter' \in [Buckets -> Nat] /\ charge' \in [Calls -> Nat]
             /\ CountersAccount'
  BY <1>2, ArriveAccounts DEF Arrive, LimitsTypeOK
<1>3. ASSUME NEW c \in Calls, NEW d \in Int, ChargeStep(c, d)
      PROVE  /\ counter' \in [Buckets -> Nat] /\ charge' \in [Calls -> Nat]
             /\ CountersAccount'
  BY <1>3, ChargeMoves, ChargeAccounts
<1>4. QED
  BY <1>1, <1>2, <1>3, NextCharges

-----------------------------------------------------------------------------
(* Types, and what the phases imply. *)

Docs == Buckets \cup {Customer}

\* What a step of c leaves of the transactions.
TxnTyped == delta \in [Calls -> Int] /\ missed \in [Calls -> SUBSET Docs]

LEMMA SnapshotTyped ==
  ASSUME LimitsTypeOK, NEW c \in Calls, NEW d \in Int, Snapshot(c, d)
  PROVE  TxnTyped' /\ delta' = [delta EXCEPT ![c] = d]
  BY DEF LimitsTypeOK, Snapshot, TxnTyped, Docs, Buckets

LEMMA CommitTyped ==
  ASSUME LimitsTypeOK, NEW c \in Calls, NEW docs \in SUBSET Docs, Commit(c, docs)
  PROVE  TxnTyped' /\ delta' = [delta EXCEPT ![c] = 0]
<1>1. delta' \in [Calls -> Int]
  BY DEF LimitsTypeOK, Commit
<1>2. missed \in [Calls -> SUBSET Docs]
  BY DEF LimitsTypeOK, Docs
<1>3. missed' \in [Calls -> SUBSET Docs]
  BY <1>2 DEF Commit
<1>4. QED
  BY <1>1, <1>3 DEF Commit, TxnTyped, Docs, Buckets

\* The other calls are not moved by a step of c.
LEMMA OthersOK ==
  ASSUME LimitsTypeOK, NEW c \in Calls, NEW o \in Calls, o # c, CallOK(o),
         NEW to, phase' = [phase EXCEPT ![c] = to],
         charge'[o] = charge[o], tries'[o] = tries[o], delta'[o] = delta[o],
         at'[o] = at[o], started'[o] = started[o], now' = now
  PROVE  CallOK(o)'
<1>1. phase'[o] = phase[o]
  BY DEF LimitsTypeOK
<1>2. QED
  BY <1>1 DEF CallOK

\* A step of c that is well typed in what it writes, and leaves c itself in
\* order, keeps types and calls.
LEMMA StepKeeps ==
  ASSUME LimitsTypeOK, \A o \in Calls : CallOK(o), NEW c \in Calls,
         NEW to \in Phases, phase' = [phase EXCEPT ![c] = to],
         UNCHANGED <<hard, now>>,
         counter' \in [Buckets -> Nat],
         charge' \in [Calls -> Nat],
         TxnTyped',
         at' \in [Calls -> 0..MaxTime], started' \in [Calls -> 0..MaxTime],
         tries' \in [Calls -> 0..MaxReserveAttempts],
         overshoot' \in Nat, skewed' \in BOOLEAN,
         \A o \in Calls \ {c} :
            /\ charge'[o] = charge[o] /\ tries'[o] = tries[o]
            /\ delta'[o] = delta[o]
            /\ at'[o] = at[o] /\ started'[o] = started[o],
         CallOK(c)'
  PROVE  LimitsTypeOK' /\ \A o \in Calls : CallOK(o)'
<1>1. phase' \in [Calls -> Phases]
  BY DEF LimitsTypeOK
<1>2. hard' \in BOOLEAN /\ now' \in 0..MaxTime
  BY DEF LimitsTypeOK
<1>3. LimitsTypeOK'
  BY <1>1, <1>2 DEF LimitsTypeOK, TxnTyped, Docs, Buckets
<1>4. ASSUME NEW o \in Calls, o # c PROVE CallOK(o)'
  BY <1>4, OthersOK
<1>5. QED
  BY <1>3, <1>4

Books == LimitsTypeOK /\ (\A c \in Calls : CallOK(c)) /\ CountersAccount

LEMMA StepTyped ==
  ASSUME Books, NEW c \in Calls, Arrive(c) \/ Step(c) \/ Leave(c)
  PROVE  LimitsTypeOK' /\ \A o \in Calls : CallOK(o)'
<1>0. LimitsTypeOK /\ (\A o \in Calls : CallOK(o)) /\ CountersAccount
  BY DEF Books
<1>1. counter' \in [Buckets -> Nat] /\ charge' \in [Calls -> Nat]
  BY <1>0, NextAccounts DEF LimitsNext
<1>2. /\ hard \in BOOLEAN /\ now \in 0..MaxTime /\ now \in Nat
      /\ phase \in [Calls -> Phases]
      /\ at \in [Calls -> 0..MaxTime] /\ started \in [Calls -> 0..MaxTime]
      /\ delta \in [Calls -> Int] /\ tries \in [Calls -> 0..MaxReserveAttempts]
      /\ charge \in [Calls -> Nat]
      /\ overshoot \in Nat /\ skewed \in BOOLEAN /\ TxnTyped
      /\ counter \in [Buckets -> Nat]
  BY <1>0 DEF LimitsTypeOK, TxnTyped, Docs, Buckets
<1>3. Estimate[c] \in Nat /\ Actual[c] \in Nat /\ Estimate[c] \in Int
  OBVIOUS
<1>4. /\ HoldBucket(c) \in Docs /\ {HoldBucket(c)} \in SUBSET Docs
      /\ {} \in SUBSET Docs /\ SettleDocs(c) \in SUBSET Docs
  BY <1>0, HoldBucketFacts DEF Docs, SettleDocs
<1>5. CASE Arrive(c)
  <2>1. phase[c] = "new" /\ phase' = [phase EXCEPT ![c] = "reserve"]
    BY <1>5 DEF Arrive, Advances
  <2>2. /\ at' = [at EXCEPT ![c] = now]
        /\ UNCHANGED <<hard, now, counter, started, delta, missed, tries,
                       charge, overshoot, skewed>>
    BY <1>5 DEF Arrive, txn
  <2>3. CallOK(c)'
    BY <1>0, <1>2, <2>1, <2>2 DEF CallOK
  <2>4. TxnTyped' /\ "reserve" \in Phases
    BY <1>2, <2>2 DEF TxnTyped, Phases, Docs, Buckets
  <2>5. QED
    BY <1>0, <1>1, <1>2, <2>1, <2>2, <2>3, <2>4, StepKeeps
<1>6. CASE Leave(c)
  <2>1. phase' = [phase EXCEPT ![c] = "left"] /\ Snapshot(c, 0)
    BY <1>6 DEF Leave, Abort
  <2>2. UNCHANGED <<hard, now, counter, at, started, tries, charge, overshoot,
                    skewed>>
    BY <1>6 DEF Leave, times
  <2>3. TxnTyped' /\ delta' = [delta EXCEPT ![c] = 0] /\ "left" \in Phases
    BY <1>0, <2>1, SnapshotTyped DEF Phases
  <2>4. CallOK(c)'
    BY <1>0, <1>2, <2>1, <2>2 DEF CallOK
  <2>5. QED
    BY <1>0, <1>1, <1>2, <2>1, <2>2, <2>3, <2>4, StepKeeps
<1>7. CASE Reserve(c)
  <2>1. UNCHANGED <<hard, now, counter, at, started, tries, charge, overshoot,
                    skewed>>
    BY <1>7 DEF Reserve, times
  <2>2. CASE Advances(c, "reserve", "write") /\ Snapshot(c, Estimate[c])
    <3>1. /\ phase[c] = "reserve" /\ phase' = [phase EXCEPT ![c] = "write"]
          /\ "write" \in Phases
      BY <2>2 DEF Advances, Phases
    <3>2. TxnTyped' /\ delta' = [delta EXCEPT ![c] = Estimate[c]]
      BY <1>0, <1>3, <2>2, SnapshotTyped
    <3>3. CallOK(c)'
      BY <1>0, <1>2, <2>1, <3>1, <3>2 DEF CallOK
    <3>4. QED
      BY <1>0, <1>1, <1>2, <2>1, <3>1, <3>2, <3>3, StepKeeps
  <2>3. CASE Advances(c, "reserve", "rejected") /\ UNCHANGED txn
    <3>1. /\ phase[c] = "reserve" /\ phase' = [phase EXCEPT ![c] = "rejected"]
          /\ "rejected" \in Phases
      BY <2>3 DEF Advances, Phases
    <3>2. TxnTyped' /\ delta' = delta
      BY <1>2, <2>3 DEF txn, TxnTyped, Docs, Buckets
    <3>3. CallOK(c)'
      BY <1>0, <1>2, <2>1, <3>1, <3>2 DEF CallOK
    <3>4. QED
      BY <1>0, <1>1, <1>2, <2>1, <3>1, <3>2, <3>3, StepKeeps
  <2>4. QED
    BY <1>7, <2>2, <2>3 DEF Reserve
<1>8. CASE Admit(c) \/ (ReserveErrs(c) /\ Reserved(c))
  <2>1. PICK to \in {"admitted", "failed"} :
          /\ phase[c] = "write" /\ phase' = [phase EXCEPT ![c] = to]
    BY <1>8 DEF Admit, ReserveErrs, Advances
  <2>2. Reserved(c) /\ UNCHANGED <<hard, now, at, started, tries, overshoot>>
    BY <1>8 DEF Admit, ReserveErrs, times
  <2>3. TxnTyped' /\ delta' = [delta EXCEPT ![c] = 0] /\ to \in Phases
    BY <1>0, <1>4, <2>2, CommitTyped DEF Reserved, Phases
  <2>4. charge' = [charge EXCEPT ![c] = delta[c]] /\ skewed' \in BOOLEAN
    BY <1>2, <2>2 DEF Reserved
  <2>5. CallOK(c)'
    BY <1>0, <1>2, <2>1, <2>2, <2>3, <2>4 DEF CallOK
  <2>6. \A o \in Calls \ {c} :
          /\ charge'[o] = charge[o] /\ tries'[o] = tries[o]
          /\ delta'[o] = delta[o]
          /\ at'[o] = at[o] /\ started'[o] = started[o]
    BY <1>2, <2>2, <2>3, <2>4
  <2>7. QED
    BY <1>0, <1>1, <1>2, <2>1, <2>2, <2>3, <2>4, <2>5, <2>6, StepKeeps
<1>9. CASE ReserveErrs(c) /\ Abort(c) /\ UNCHANGED <<counter, charge, skewed>>
  <2>1. /\ phase[c] = "write" /\ phase' = [phase EXCEPT ![c] = "failed"]
        /\ "failed" \in Phases
    BY <1>9 DEF ReserveErrs, Advances, Phases
  <2>2. UNCHANGED <<hard, now, counter, at, started, tries, charge, overshoot,
                    skewed>>
    BY <1>9 DEF ReserveErrs, times
  <2>3. TxnTyped' /\ delta' = [delta EXCEPT ![c] = 0]
    BY <1>0, <1>9, SnapshotTyped DEF Abort
  <2>4. CallOK(c)'
    BY <1>0, <1>2, <2>1, <2>2 DEF CallOK
  <2>5. QED
    BY <1>0, <1>1, <1>2, <2>1, <2>2, <2>3, <2>4, StepKeeps
<1>10. CASE Retry(c)
  <2>1. PICK to \in {"reserve", "failed"} :
          /\ phase[c] = "write" /\ phase' = [phase EXCEPT ![c] = to]
          /\ to = "reserve" => AttemptsLeft(c)
    BY <1>10 DEF Retry, Advances
  <2>2. /\ UNCHANGED <<hard, now, counter, at, started, charge, overshoot, skewed>>
        /\ tries' = [tries EXCEPT ![c] = @ + 1]
    BY <1>10 DEF Retry, times
  <2>3. TxnTyped' /\ delta' = [delta EXCEPT ![c] = 0] /\ to \in Phases
    BY <1>0, <1>10, SnapshotTyped DEF Retry, Abort, Phases
  <2>4. tries[c] < MaxReserveAttempts /\ tries[c] \in Nat /\ charge[c] = 0
    BY <1>0, <1>2, <2>1 DEF CallOK
  <2>5. tries' \in [Calls -> 0..MaxReserveAttempts]
    BY <1>2, <2>2, <2>4
  <2>6. CallOK(c)'
    BY <1>0, <1>2, <2>1, <2>2, <2>4 DEF CallOK, AttemptsLeft
  <2>7. \A o \in Calls \ {c} :
          /\ charge'[o] = charge[o] /\ tries'[o] = tries[o]
          /\ delta'[o] = delta[o]
          /\ at'[o] = at[o] /\ started'[o] = started[o]
    BY <1>2, <2>2, <2>3
  <2>8. QED
    BY <1>0, <1>1, <1>2, <2>1, <2>2, <2>3, <2>5, <2>6, <2>7, StepKeeps
<1>11. CASE Generate(c)
  <2>1. /\ phase[c] = "admitted" /\ phase' = [phase EXCEPT ![c] = "running"]
        /\ "running" \in Phases
    BY <1>11 DEF Generate, Advances, Phases
  <2>2. /\ started' = [started EXCEPT ![c] = now]
        /\ UNCHANGED <<hard, now, counter, at, delta, missed, tries, charge,
                       overshoot, skewed>>
    BY <1>11 DEF Generate, txn
  <2>3. TxnTyped'
    BY <1>2, <2>2 DEF TxnTyped, Docs, Buckets
  <2>4. CallOK(c)'
    BY <1>0, <1>2, <2>1, <2>2 DEF CallOK
  <2>5. QED
    BY <1>0, <1>1, <1>2, <2>1, <2>2, <2>3, <2>4, StepKeeps
<1>12. CASE Release(c)
  <2>1. /\ phase[c] = "running" /\ phase' = [phase EXCEPT ![c] = "released"]
        /\ "released" \in Phases
    BY <1>12 DEF Release, Advances, Phases
  <2>2. /\ charge' = [charge EXCEPT ![c] = 0]
        /\ UNCHANGED <<hard, now, at, started, tries, overshoot, skewed>>
    BY <1>12 DEF Release, times
  <2>3. TxnTyped' /\ delta' = [delta EXCEPT ![c] = 0]
    BY <1>0, <1>4, <1>12, CommitTyped DEF Release
  <2>4. CallOK(c)'
    BY <1>0, <1>2, <2>1, <2>2 DEF CallOK
  <2>5. \A o \in Calls \ {c} :
          /\ charge'[o] = charge[o] /\ tries'[o] = tries[o]
          /\ delta'[o] = delta[o]
          /\ at'[o] = at[o] /\ started'[o] = started[o]
    BY <1>2, <2>2, <2>3
  <2>6. QED
    BY <1>0, <1>1, <1>2, <2>1, <2>2, <2>3, <2>4, <2>5, StepKeeps
<1>13. CASE Settle(c)
  <2>1. /\ phase[c] = "running" /\ phase' = [phase EXCEPT ![c] = "adjust"]
        /\ "adjust" \in Phases
    BY <1>13 DEF Settle, Advances, Phases
  <2>2. UNCHANGED <<hard, now, counter, at, started, tries, charge, overshoot,
                    skewed>>
    BY <1>13 DEF Settle, times
  <2> DEFINE sum == WindowSum(started[c])
             add == Clamped(Actual[c] - Estimate[c], sum)
  <2>3. sum \in Nat
    BY <1>2, WindowTyped
  <2>4. add \in Int /\ Estimate[c] + add >= 0
    <3> HIDE DEF sum
    <3> QED BY <1>3, <2>3 DEF Clamped, Room, Larger, Smaller
  <2>5. Snapshot(c, add)
    BY <1>13 DEF Settle
  <2> HIDE DEF add
  <2>6. TxnTyped' /\ delta' = [delta EXCEPT ![c] = add]
    BY <1>0, <2>4, <2>5, SnapshotTyped
  <2>7. CallOK(c)'
    BY <1>0, <1>2, <1>3, <2>1, <2>2, <2>4, <2>6 DEF CallOK
  <2>8. QED
    BY <1>0, <1>1, <1>2, <2>1, <2>2, <2>6, <2>7, StepKeeps
<1>14. CASE Settled(c)
  <2>1. /\ phase[c] = "adjust" /\ phase' = [phase EXCEPT ![c] = "settled"]
        /\ "settled" \in Phases
    BY <1>14 DEF Settled, Advances, Phases
  <2>2. /\ charge' = [charge EXCEPT ![c] = @ + delta[c]]
        /\ UNCHANGED <<hard, now, at, started, tries>>
    BY <1>14 DEF Settled, times
  <2>3. TxnTyped' /\ delta' = [delta EXCEPT ![c] = 0]
    BY <1>0, <1>4, <1>14, CommitTyped DEF Settled
  <2>4. CallOK(c)'
    BY <1>0, <1>2, <2>1, <2>2 DEF CallOK
  <2>5. overshoot' \in Nat /\ skewed' \in BOOLEAN
    BY <1>2, <1>14 DEF Settled, Larger
  <2>6. \A o \in Calls \ {c} :
          /\ charge'[o] = charge[o] /\ tries'[o] = tries[o]
          /\ delta'[o] = delta[o]
          /\ at'[o] = at[o] /\ started'[o] = started[o]
    BY <1>2, <2>2, <2>3
  <2>7. QED
    BY <1>0, <1>1, <1>2, <2>1, <2>2, <2>3, <2>4, <2>5, <2>6, StepKeeps
<1>15. CASE SettleConflicts(c)
  <2>1. /\ phase[c] = "adjust" /\ phase' = [phase EXCEPT ![c] = "running"]
        /\ "running" \in Phases
    BY <1>15 DEF SettleConflicts, Advances, Phases
  <2>2. UNCHANGED <<hard, now, counter, at, started, tries, charge, overshoot,
                    skewed>>
    BY <1>15 DEF SettleConflicts, times
  <2>3. TxnTyped' /\ delta' = [delta EXCEPT ![c] = 0]
    BY <1>0, <1>15, SnapshotTyped DEF SettleConflicts, Abort
  <2>4. CallOK(c)'
    BY <1>0, <1>2, <2>1, <2>2 DEF CallOK
  <2>5. QED
    BY <1>0, <1>1, <1>2, <2>1, <2>2, <2>3, <2>4, StepKeeps
<1>16. ReserveErrs(c) => Reserved(c) \/ (Abort(c) /\ UNCHANGED <<counter, charge, skewed>>)
  BY DEF ReserveErrs
<1>17. QED
  BY <1>5, <1>6, <1>7, <1>8, <1>9, <1>10, <1>11, <1>12, <1>13, <1>14, <1>15,
     <1>16 DEF Step

LEMMA LimitBooksStep ==
  ASSUME Books, [LimitsNext]_limitVars
  PROVE  Books'
<1>0. LimitsTypeOK /\ (\A c \in Calls : CallOK(c)) /\ CountersAccount
  BY DEF Books
<1>1. CountersAccount'
  BY <1>0, NextAccounts
<1>2. ASSUME NEW c \in Calls, Arrive(c) \/ Step(c) \/ Leave(c)
      PROVE  Books'
  BY <1>1, <1>2, StepTyped DEF Books
<1>3. CASE Tick
  <2>1. /\ now' = now + 1 /\ now' \in 0..MaxTime
        /\ UNCHANGED <<hard, counter, phase, at, started, delta, missed, tries,
                       charge, overshoot, skewed>>
    BY <1>0, <1>3 DEF Tick, times, txn, LimitsTypeOK
  <2>2. LimitsTypeOK'
    BY <1>0, <2>1 DEF LimitsTypeOK, Buckets
  <2>3. \A c \in Calls : CallOK(c)'
    BY <1>0, <2>1 DEF CallOK, LimitsTypeOK
  <2>4. QED
    BY <1>1, <2>2, <2>3 DEF Books
<1>4. CASE UNCHANGED limitVars
  <2>1. UNCHANGED <<hard, now, counter, phase, at, started, delta, missed, tries,
                    charge, overshoot, skewed>>
    BY <1>4 DEF limitVars, times, txn
  <2>2. LimitsTypeOK' /\ \A c \in Calls : CallOK(c)'
    BY <1>0, <2>1 DEF LimitsTypeOK, Buckets, CallOK
  <2>3. QED
    BY <1>1, <2>2 DEF Books
<1>5. QED
  BY <1>2, <1>3, <1>4 DEF LimitsNext

LEMMA InitBooks == LimitsInit => Books
<1> SUFFICES ASSUME LimitsInit PROVE Books
  OBVIOUS
<1>1. LimitsTypeOK
  <2>1. /\ hard \in BOOLEAN /\ now \in 0..MaxTime /\ counter \in [Buckets -> Nat]
        /\ at \in [Calls -> 0..MaxTime] /\ started \in [Calls -> 0..MaxTime]
    BY DEF LimitsInit
  <2>2. /\ phase \in [Calls -> Phases] /\ delta \in [Calls -> Int]
        /\ missed \in [Calls -> SUBSET (Buckets \cup {Customer})]
        /\ tries \in [Calls -> 0..MaxReserveAttempts] /\ charge \in [Calls -> Nat]
    BY DEF LimitsInit, Phases
  <2>3. QED
    BY <2>1, <2>2 DEF LimitsInit, LimitsTypeOK
<1>2. \A c \in Calls : CallOK(c)
  BY DEF LimitsInit, CallOK
<1>3. ASSUME NEW b \in Buckets PROVE counter[b] = Total(charge, Group(b))
  <2> DEFINE G == Group(b)
             none == [c \in Calls |-> 0]
  <2>1. charge = none /\ counter[b] = 0
    BY DEF LimitsInit
  <2>2. G \in SUBSET Calls /\ IsFiniteSet(G)
    BY GroupFinite DEF Group
  <2>3. \A x \in G : none[x] = 0
    BY <2>2
  <2> HIDE DEF G, none
  <2>4. Total(none, G) = 0
    BY <2>2, <2>3, TotalZero
  <2>5. QED
    BY <2>1, <2>4 DEF G
<1>4. QED
  BY <1>1, <1>2, <1>3 DEF Books, CountersAccount, Group

LEMMA BooksAlways == LimitsSpec => []Books
  BY InitBooks, LimitBooksStep, PTL DEF LimitsSpec

-----------------------------------------------------------------------------
(* The theorems about buckets. *)

\* Conflicts, retries, releases and settlements of any number of calls leave
\* each bucket the sum of what its calls are charged, and nothing negative:
\* the floor at zero of bulkUpsertCounters never hides a lost unit.
THEOREM BucketsAccount == LimitsSpec => []Accounts
  BY BooksAlways, PTL DEF Books, Accounts

-----------------------------------------------------------------------------
(* The cap.  A transaction that still sees the window as it is fits in it. *)

\* The time whose window the open transaction of c has summed.
Base(c) == IF phase[c] = "write" THEN at[c] ELSE started[c]

\* c is about to add what it found room for.
Relies(c) == \/ phase[c] = "write"
             \/ phase[c] = "adjust" /\ hard /\ delta[c] > 0

\* As long as nobody wrote a bucket of the window c has summed, the window has
\* room for what c adds.
Fits(c) ==
  Relies(c) /\ missed[c] \cap InWindow(Base(c)) = {}
    => WindowSum(Base(c)) + delta[c] <= Cap

LEMMA BaseTyped ==
  ASSUME Books, NEW c \in Calls
  PROVE  /\ Base(c) \in Nat /\ now \in Nat /\ Base(c) <= now
         /\ delta[c] \in Int /\ overshoot \in Nat
         /\ counter \in [Buckets -> Nat]
  BY DEF Books, CallOK, Base, LimitsTypeOK

\* A call whose view, counter, phase and clock base are untouched still fits.
LEMMA FitsKept ==
  ASSUME Books, NEW o \in Calls, Fits(o), counter' = counter,
         phase'[o] = phase[o], delta'[o] = delta[o], missed'[o] = missed[o],
         at'[o] = at[o], started'[o] = started[o], hard' = hard
  PROVE  Fits(o)'
<1>1. Base(o)' = Base(o) /\ (Relies(o)' <=> Relies(o))
  BY DEF Base, Relies
<1>2. InWindow(Base(o))' = InWindow(Base(o))
  BY <1>1 DEF InWindow, Buckets
<1>3. WindowSum(Base(o))' = WindowSum(Base(o))
  BY <1>2 DEF WindowSum
<1>4. QED
  BY <1>1, <1>2, <1>3 DEF Fits

\* c commits docs, its bucket among them if it moves it.
CommitStep(c, d, docs) ==
  /\ ChargeStep(c, d)
  /\ Commit(c, docs)
  /\ d # 0 => HoldBucket(c) \in docs
  /\ \E to \in Phases \ {"write", "adjust"} : phase' = [phase EXCEPT ![c] = to]
  /\ UNCHANGED <<hard, now>>

LEMMA SumMoves ==
  ASSUME Books, NEW c \in Calls, NEW d, ChargeStep(c, d), NEW t
  PROVE  Total(counter', InWindow(t)) =
           IF HoldBucket(c) \in InWindow(t) THEN WindowSum(t) + d ELSE WindowSum(t)
<1>1. /\ BucketMoves(HoldBucket(c), d) /\ HoldBucket(c) \in Buckets
      /\ counter \in [Buckets -> Nat] /\ counter' \in [Buckets -> Nat]
  BY ChargeMoves, HoldBucketFacts DEF Books, LimitsTypeOK
<1>2. d \in Int
  BY DEF ChargeStep
<1>3. QED
  BY <1>1, <1>2, WindowMoves

\* Whoever else has summed the bucket c writes has missed that write.
LEMMA CommitFits ==
  ASSUME Books, \A o \in Calls : Fits(o), NEW c \in Calls, NEW d,
         NEW docs \in SUBSET Docs, CommitStep(c, d, docs)
  PROVE  \A o \in Calls : Fits(o)'
<1>1. PICK to \in Phases \ {"write", "adjust"} :
        phase' = [phase EXCEPT ![c] = to]
  BY DEF CommitStep
<1>2. phase'[c] = to /\ \A o \in Calls \ {c} : phase'[o] = phase[o]
  BY <1>1 DEF Books, LimitsTypeOK
<1>3. ~Relies(c)'
  BY <1>1, <1>2 DEF Relies
<1>4. ASSUME NEW o \in Calls, o # c, Relies(o)',
             missed'[o] \cap InWindow(Base(o))' = {}
      PROVE  WindowSum(Base(o))' + delta'[o] <= Cap
  <2>1. /\ phase'[o] = phase[o] /\ delta'[o] = delta[o] /\ hard' = hard
        /\ at'[o] = at[o] /\ started'[o] = started[o]
    BY <1>2, <1>4 DEF CommitStep, ChargeStep, Commit, Books, LimitsTypeOK, times
  <2>2. Base(o)' = Base(o) /\ Relies(o)
    BY <1>4, <2>1 DEF Base, Relies
  <2>3. InWindow(Base(o))' = InWindow(Base(o))
    BY <2>2 DEF InWindow, Buckets
  <2>4. Open(o)
    BY <2>2 DEF Relies, Open
  <2>5. missed'[o] = missed[o] \cup docs
    BY <1>4, <2>4 DEF CommitStep, Commit
  <2>6. missed[o] \cap InWindow(Base(o)) = {} /\ docs \cap InWindow(Base(o)) = {}
    BY <1>4, <2>3, <2>5
  <2>7. WindowSum(Base(o)) + delta[o] <= Cap
    BY <2>2, <2>6 DEF Fits
  <2>8. HoldBucket(c) \notin InWindow(Base(o)) \/ d = 0
    BY <2>6 DEF CommitStep
  <2>9. WindowSum(Base(o)) \in Nat
    BY BaseTyped, WindowTyped
  <2>10. Total(counter', InWindow(Base(o))) = WindowSum(Base(o))
    BY <2>8, <2>9, SumMoves DEF CommitStep
  <2>11. WindowSum(Base(o))' = WindowSum(Base(o))
    BY <2>3, <2>10 DEF WindowSum
  <2>12. QED
    BY <2>1, <2>7, <2>11
<1>5. QED
  BY <1>3, <1>4 DEF Fits

\* What fits in a window as it is now leaves the cap respected.
LEMMA FittingCommit ==
  ASSUME Books, NEW c \in Calls, NEW d, d = delta[c], Fits(c), Relies(c),
         ChargeStep(c, d), d >= 0, now' = now,
         WindowSum(now) <= Cap + overshoot,
         d > 0 => missed[c] \cap InWindow(Base(c)) = {}
  PROVE  Total(counter', InWindow(now)) <= Cap + overshoot
<1>1. /\ Base(c) \in Nat /\ now \in Nat /\ Base(c) <= now /\ d \in Int
      /\ overshoot \in Nat /\ counter \in [Buckets -> Nat] /\ Cap \in Nat
  BY BaseTyped
<1>2. WindowSum(now) <= WindowSum(Base(c))
  BY <1>1, WindowShrinks
<1>3. WindowSum(now) \in Nat /\ WindowSum(Base(c)) \in Nat
  BY <1>1, WindowTyped
<1>4. Total(counter', InWindow(now)) <= WindowSum(now) + d
  BY <1>1, <1>3, SumMoves
<1>5. Total(counter', InWindow(now)) \in Int
  BY <1>1, <1>3, SumMoves
<1>6. CASE d > 0
  <2>1. WindowSum(Base(c)) + d <= Cap
    BY <1>6 DEF Fits
  <2>2. QED
    BY <1>1, <1>2, <1>3, <1>4, <1>5, <2>1
<1>7. QED
  BY <1>1, <1>3, <1>4, <1>5, <1>6

Capped == (\A c \in Calls : Fits(c)) /\ CapUnlessSkewed

\* A step of c that writes no bucket.
LEMMA QuietStep ==
  ASSUME Books, Capped, NEW c \in Calls,
         UNCHANGED <<hard, now, counter, overshoot, skewed>>,
         \A o \in Calls \ {c} :
           /\ phase'[o] = phase[o] /\ delta'[o] = delta[o]
           /\ missed'[o] = missed[o]
           /\ at'[o] = at[o] /\ started'[o] = started[o],
         Fits(c)'
  PROVE  Capped'
<1>1. \A o \in Calls : Fits(o)'
  BY FitsKept DEF Capped
<1>2. InWindow(now)' = InWindow(now)
  BY DEF InWindow, Buckets
<1>3. WindowSum(now)' = WindowSum(now)
  BY <1>2 DEF WindowSum
<1>4. QED
  BY <1>1, <1>3 DEF Capped, CapUnlessSkewed

LEMMA RestingStep ==
  ASSUME Books, Capped, NEW c \in Calls, Arrive(c) \/ Leave(c) \/ Retry(c)
           \/ Generate(c) \/ SettleConflicts(c)
           \/ (ReserveErrs(c) /\ Abort(c) /\ UNCHANGED <<counter, charge, skewed>>)
  PROVE  Capped'
<1>1. PICK to \in Phases \ {"write", "adjust"} :
        phase' = [phase EXCEPT ![c] = to]
  BY DEF Arrive, Leave, Retry, Generate, SettleConflicts, ReserveErrs, Advances, Phases
<1>2. /\ phase \in [Calls -> Phases] /\ delta \in [Calls -> Int]
      /\ missed \in [Calls -> SUBSET (Buckets \cup {Customer})]
      /\ at \in [Calls -> 0..MaxTime] /\ started \in [Calls -> 0..MaxTime]
  BY DEF Books, LimitsTypeOK
<1>3. phase'[c] = to /\ \A o \in Calls \ {c} : phase'[o] = phase[o]
  BY <1>1, <1>2
<1>4. UNCHANGED <<hard, now, counter, overshoot, skewed>>
  BY DEF Arrive, Leave, Retry, Generate, SettleConflicts, ReserveErrs
<1>5. \A o \in Calls \ {c} :
        /\ delta'[o] = delta[o] /\ missed'[o] = missed[o]
        /\ at'[o] = at[o] /\ started'[o] = started[o]
  BY <1>2 DEF Arrive, Leave, Retry, Generate, SettleConflicts, ReserveErrs,
     Abort, Snapshot, times, txn
<1>6. Fits(c)'
  BY <1>3 DEF Fits, Relies
<1>7. QED
  BY <1>3, <1>4, <1>5, <1>6, QuietStep

LEMMA ReserveFits ==
  ASSUME Books, Capped, NEW c \in Calls, Reserve(c)
  PROVE  Capped'
<1>1. /\ phase \in [Calls -> Phases] /\ delta \in [Calls -> Int]
      /\ missed \in [Calls -> SUBSET (Buckets \cup {Customer})]
  BY DEF Books, LimitsTypeOK
<1>2. UNCHANGED <<hard, now, counter, overshoot, skewed, at, started>>
  BY DEF Reserve, times
<1>3. \A o \in Calls \ {c} :
        /\ phase'[o] = phase[o] /\ delta'[o] = delta[o]
        /\ missed'[o] = missed[o]
        /\ at'[o] = at[o] /\ started'[o] = started[o]
  BY <1>1, <1>2 DEF Reserve, Advances, Snapshot, txn
<1>4. CASE /\ WindowSum(at[c]) + Estimate[c] <= Cap
           /\ Advances(c, "reserve", "write") /\ Snapshot(c, Estimate[c])
  <2>1. phase'[c] = "write" /\ delta'[c] = Estimate[c]
    BY <1>1, <1>4 DEF Advances, Snapshot
  <2>2. Base(c)' = at[c]
    BY <1>2, <2>1 DEF Base
  <2>3. InWindow(Base(c))' = InWindow(at[c])
    BY <2>2 DEF InWindow, Buckets
  <2>4. WindowSum(Base(c))' = WindowSum(at[c])
    BY <1>2, <2>3 DEF WindowSum
  <2>5. Fits(c)'
    BY <1>4, <2>1, <2>4 DEF Fits
  <2>6. QED
    BY <1>2, <1>3, <2>5, QuietStep
<1>5. CASE Advances(c, "reserve", "rejected")
  <2>1. phase'[c] = "rejected"
    BY <1>1, <1>5 DEF Advances
  <2>2. Fits(c)'
    BY <2>1 DEF Fits, Relies
  <2>3. QED
    BY <1>2, <1>3, <2>2, QuietStep
<1>6. QED
  BY <1>4, <1>5 DEF Reserve

LEMMA SettleFits ==
  ASSUME Books, Capped, NEW c \in Calls, Settle(c)
  PROVE  Capped'
<1>1. /\ phase \in [Calls -> Phases] /\ delta \in [Calls -> Int]
      /\ missed \in [Calls -> SUBSET (Buckets \cup {Customer})]
      /\ counter \in [Buckets -> Nat]
  BY DEF Books, LimitsTypeOK
<1>2. UNCHANGED <<hard, now, counter, overshoot, skewed, at, started>>
  BY DEF Settle, times
<1>3. \A o \in Calls \ {c} :
        /\ phase'[o] = phase[o] /\ delta'[o] = delta[o]
        /\ missed'[o] = missed[o]
        /\ at'[o] = at[o] /\ started'[o] = started[o]
  BY <1>1, <1>2 DEF Settle, Advances, Snapshot
<1> DEFINE sum == WindowSum(started[c])
           d == Actual[c] - Estimate[c]
<1>4. phase'[c] = "adjust" /\ delta'[c] = Clamped(d, sum)
  BY <1>1 DEF Settle, Advances, Snapshot
<1>5. Base(c)' = started[c]
  BY <1>2, <1>4 DEF Base
<1>6. InWindow(Base(c))' = InWindow(started[c])
  BY <1>5 DEF InWindow, Buckets
<1>7. WindowSum(Base(c))' = sum
  BY <1>2, <1>6 DEF WindowSum
<1>8. sum \in Nat /\ d \in Int /\ Cap \in Nat
  BY <1>1, WindowTyped
<1>9. hard /\ Clamped(d, sum) > 0 => sum + Clamped(d, sum) <= Cap
  <2> HIDE DEF sum, d
  <2> QED BY <1>8 DEF Clamped, Room, Larger, Smaller
<1>10. Relies(c)' => hard /\ Clamped(d, sum) > 0
  BY <1>2, <1>4 DEF Relies
<1>11. Fits(c)'
  <2> HIDE DEF sum, d
  <2> QED BY <1>4, <1>7, <1>9, <1>10 DEF Fits
<1>12. QED
  BY <1>2, <1>3, <1>11, QuietStep

LEMMA WindowNow ==
  ASSUME now' = now
  PROVE  WindowSum(now)' = Total(counter', InWindow(now))
<1>1. InWindow(now)' = InWindow(now)
  BY DEF InWindow, Buckets
<1>2. QED
  BY <1>1 DEF WindowSum

LEMMA ReservedFits ==
  ASSUME Books, Capped, NEW c \in Calls,
         Admit(c) \/ (ReserveErrs(c) /\ Reserved(c))
  PROVE  Capped'
<1>1. /\ phase[c] = "write" /\ Reserved(c)
      /\ UNCHANGED <<hard, now, at, started, overshoot>> /\ UNCHANGED times
  BY DEF Admit, ReserveErrs, Advances, times
<1>2. LimitsTypeOK /\ CallOK(c)
  BY DEF Books
<1>3. ChargeStep(c, delta[c])
  BY <1>1, <1>2, ReservedCharges
<1>4. delta[c] = Estimate[c] /\ delta[c] \in Nat \ {0}
  BY <1>1, <1>2 DEF CallOK
<1>5. HoldBucket(c) \in Docs
  BY <1>2, HoldBucketFacts DEF Docs
<1>6. CommitStep(c, delta[c], {HoldBucket(c)})
  <2>1. \E to \in Phases \ {"write", "adjust"} :
          phase' = [phase EXCEPT ![c] = to]
    BY DEF Admit, ReserveErrs, Advances, Phases
  <2>2. QED
    BY <1>1, <1>3, <2>1 DEF CommitStep, Reserved
<1>7. \A o \in Calls : Fits(o)'
  BY <1>5, <1>6, CommitFits DEF Capped
<1>8. ASSUME ~skewed' PROVE WindowSum(now)' <= Cap + overshoot'
  <2>1. ~skewed /\ ~Stale(c, at[c]) /\ Base(c) = at[c]
    BY <1>1, <1>8 DEF Reserved, Base
  <2>2. missed[c] \cap InWindow(Base(c)) = {}
    BY <1>1, <1>4, <2>1 DEF Stale, Reserved, Conflict
  <2>3. WindowSum(now) <= Cap + overshoot
    BY <2>1 DEF Capped, CapUnlessSkewed
  <2>4. Total(counter', InWindow(now)) <= Cap + overshoot
    BY <1>1, <1>3, <1>4, <2>2, <2>3, FittingCommit DEF Capped, Relies
  <2>5. QED
    BY <1>1, <2>4, WindowNow
<1>9. QED
  BY <1>7, <1>8 DEF Capped, CapUnlessSkewed

LEMMA ReleaseFits ==
  ASSUME Books, Capped, NEW c \in Calls, Release(c)
  PROVE  Capped'
<1>1. LimitsTypeOK /\ CallOK(c)
  BY DEF Books
<1> DEFINE d == -Estimate[c]
<1>2. ChargeStep(c, d) /\ d \in Int /\ d <= 0
  BY <1>1, ReleaseCharges
<1>3. HoldBucket(c) \in Docs
  BY <1>1, HoldBucketFacts DEF Docs
<1>4. CommitStep(c, d, {HoldBucket(c)})
  <2>1. phase' = [phase EXCEPT ![c] = "released"]
        /\ "released" \in Phases \ {"write", "adjust"}
    BY DEF Release, Advances, Phases
  <2>2. UNCHANGED <<hard, now>> /\ Commit(c, {HoldBucket(c)})
    BY DEF Release
  <2> HIDE DEF d
  <2>3. QED
    BY <1>2, <2>1, <2>2 DEF CommitStep
<1> HIDE DEF d
<1>5. \A o \in Calls : Fits(o)'
  BY <1>3, <1>4, CommitFits DEF Capped
<1>6. ASSUME ~skewed' PROVE WindowSum(now)' <= Cap + overshoot'
  <2>1. UNCHANGED <<now, skewed, overshoot>>
    BY DEF Release
  <2>2. WindowSum(now) <= Cap + overshoot
    BY <1>6, <2>1 DEF Capped, CapUnlessSkewed
  <2>3. WindowSum(now) \in Nat /\ overshoot \in Nat /\ Cap \in Nat
    BY BaseTyped, WindowTyped
  <2>4. Total(counter', InWindow(now)) <= WindowSum(now)
    BY <1>2, <2>3, SumMoves
  <2>5. Total(counter', InWindow(now)) \in Int
    BY <1>2, <2>3, SumMoves
  <2>6. QED
    BY <2>1, <2>2, <2>3, <2>4, <2>5, WindowNow
<1>7. QED
  BY <1>5, <1>6 DEF Capped, CapUnlessSkewed

LEMMA SettledFits ==
  ASSUME Books, Capped, NEW c \in Calls, Settled(c)
  PROVE  Capped'
<1>1. LimitsTypeOK /\ CallOK(c) /\ phase[c] = "adjust"
  BY DEF Books, Settled, Advances
<1>2. ChargeStep(c, delta[c]) /\ delta[c] \in Int
  BY <1>1, SettledCharges DEF LimitsTypeOK
<1>3. SettleDocs(c) \in SUBSET Docs
  BY <1>1, HoldBucketFacts DEF Docs, SettleDocs
<1>4. UNCHANGED <<hard, now>> /\ Commit(c, SettleDocs(c))
  BY DEF Settled
<1>5. CommitStep(c, delta[c], SettleDocs(c))
  <2>1. phase' = [phase EXCEPT ![c] = "settled"]
        /\ "settled" \in Phases \ {"write", "adjust"}
    BY DEF Settled, Advances, Phases
  <2>2. delta[c] # 0 => HoldBucket(c) \in SettleDocs(c)
    BY DEF SettleDocs
  <2>3. QED
    BY <1>2, <1>4, <2>1, <2>2 DEF CommitStep
<1>6. \A o \in Calls : Fits(o)'
  BY <1>3, <1>5, CommitFits DEF Capped
<1>7. ASSUME ~skewed' PROVE WindowSum(now)' <= Cap + overshoot'
  <2>1. ~skewed /\ ~Stale(c, started[c]) /\ Base(c) = started[c]
    BY <1>1, <1>7 DEF Settled, Base
  <2>2. WindowSum(now) <= Cap + overshoot
    BY <2>1 DEF Capped, CapUnlessSkewed
  <2>3. WindowSum(now) \in Nat /\ overshoot \in Nat /\ Cap \in Nat
    BY BaseTyped, WindowTyped
  <2>4. /\ Total(counter', InWindow(now)) \in Int
        /\ \/ Total(counter', InWindow(now)) = WindowSum(now)
           \/ Total(counter', InWindow(now)) = WindowSum(now) + delta[c]
    BY <1>2, <2>3, SumMoves
  <2>5. WindowSum(now)' = Total(counter', InWindow(now))
    BY <1>4, WindowNow
  <2>6. CASE delta[c] <= 0
    <3>1. overshoot' \in Nat /\ overshoot' >= overshoot
      BY <1>2, <2>3 DEF Settled, Larger
    <3>2. QED
      BY <1>2, <2>2, <2>3, <2>4, <2>5, <2>6, <3>1
  <2>7. CASE delta[c] > 0 /\ ~hard
    <3>1. overshoot' = overshoot + delta[c]
      BY <1>2, <2>7 DEF Settled, Larger
    <3>2. QED
      BY <1>2, <2>2, <2>3, <2>4, <2>5, <2>7, <3>1
  <2>8. CASE delta[c] > 0 /\ hard
    <3>1. missed[c] \cap InWindow(Base(c)) = {}
      BY <1>2, <2>1, <2>8 DEF Stale, Settled, Conflict, SettleDocs
    <3>2. overshoot' = overshoot
      BY <2>8 DEF Settled
    <3>3. Relies(c) /\ Fits(c) /\ delta[c] >= 0
      BY <1>1, <1>2, <2>8 DEF Relies, Capped
    <3>4. QED
      BY <1>2, <1>4, <2>2, <2>5, <3>1, <3>2, <3>3, FittingCommit
  <2>9. QED
    BY <1>2, <2>6, <2>7, <2>8
<1>8. QED
  BY <1>6, <1>7 DEF Capped, CapUnlessSkewed

LEMMA TickFits ==
  ASSUME Books, Capped, Tick
  PROVE  Capped'
<1>1. /\ UNCHANGED <<hard, counter, phase, at, started, delta, missed,
                     overshoot, skewed>>
      /\ now' = now + 1
  BY DEF Tick, times, txn
<1>2. \A o \in Calls : Fits(o)'
  BY <1>1, FitsKept DEF Capped
<1>3. now \in Nat /\ counter \in [Buckets -> Nat]
      /\ overshoot \in Nat /\ Cap \in Nat
  BY DEF Books, LimitsTypeOK
<1>4. InWindow(now)' = InWindow(now + 1)
  BY <1>1 DEF InWindow, Buckets
<1>5. WindowSum(now)' = WindowSum(now + 1)
  BY <1>1, <1>4 DEF WindowSum
<1>6. WindowSum(now + 1) <= WindowSum(now)
  BY <1>3, WindowShrinks
<1>7. WindowSum(now) \in Nat /\ WindowSum(now + 1) \in Nat
  BY <1>3, WindowTyped
<1>8. ~skewed => WindowSum(now + 1) <= Cap + overshoot
  BY <1>3, <1>6, <1>7 DEF Capped, CapUnlessSkewed
<1>9. QED
  BY <1>1, <1>2, <1>5, <1>8 DEF Capped, CapUnlessSkewed

LEMMA CappedStep ==
  ASSUME Books, Capped, [LimitsNext]_limitVars
  PROVE  Capped'
<1>1. ASSUME NEW c \in Calls, Arrive(c) \/ Step(c) \/ Leave(c)
      PROVE  Capped'
  <2>1. ReserveErrs(c) => \/ Reserved(c)
                          \/ Abort(c) /\ UNCHANGED <<counter, charge, skewed>>
    BY DEF ReserveErrs
  <2>2. QED
    BY <1>1, <2>1, RestingStep, ReserveFits, SettleFits, ReservedFits,
       ReleaseFits, SettledFits DEF Step
<1>2. CASE UNCHANGED limitVars
  <2>1. UNCHANGED <<hard, now, counter, phase, at, started, delta, missed,
                    overshoot, skewed>>
    BY <1>2 DEF limitVars, times, txn
  <2>2. \A o \in Calls : Fits(o)'
    BY <2>1, FitsKept DEF Capped
  <2>3. WindowSum(now)' = WindowSum(now)
    BY <2>1, WindowNow DEF WindowSum
  <2>4. QED
    BY <2>1, <2>2, <2>3 DEF Capped, CapUnlessSkewed
<1>3. QED
  BY <1>1, <1>2, TickFits DEF LimitsNext

LEMMA InitCapped == LimitsInit => Capped
<1> SUFFICES ASSUME LimitsInit PROVE Capped
  OBVIOUS
<1>1. \A c \in Calls : Fits(c)
  BY DEF LimitsInit, Fits, Relies
<1>2. WindowSum(now) = 0
  <2> DEFINE W == InWindow(now)
  <2>1. IsFiniteSet(W) /\ \A b \in W : counter[b] = 0
    BY WindowsFinite DEF LimitsInit, InWindow
  <2> HIDE DEF W
  <2>2. Total(counter, W) = 0
    BY <2>1, TotalZero
  <2>3. QED
    BY <2>2 DEF W, WindowSum
<1>3. overshoot = 0 /\ Cap \in Nat
  BY DEF LimitsInit
<1>4. QED
  BY <1>1, <1>2, <1>3 DEF Capped, CapUnlessSkewed

LEMMA CappedAlways == LimitsSpec => [](Books /\ Capped)
<1>1. LimitsInit => Books /\ Capped
  BY InitBooks, InitCapped
<1>2. Books /\ Capped /\ [LimitsNext]_limitVars => (Books /\ Capped)'
  BY LimitBooksStep, CappedStep
<1>3. QED
  BY <1>1, <1>2, PTL DEF LimitsSpec

\* A call of the last Window - Bucket + 1 moments is in a bucket that the window
\* still counts.
LEMMA RecentInWindow ==
  ASSUME Books, NEW c \in Calls, at[c] >= now - Window + Bucket - 1
  PROVE  HoldBucket(c) \in InWindow(now)
<1>1. /\ HoldBucket(c) \in Buckets
      /\ at[c] <= HoldBucket(c) + Bucket - 1
  BY HoldBucketFacts DEF Books
<1>2. now \in Nat /\ at[c] \in Nat /\ HoldBucket(c) \in Nat
      /\ Window \in Nat /\ Bucket \in Nat
  BY <1>1 DEF Books, LimitsTypeOK, Buckets
<1>3. HoldBucket(c) >= now - Window
  BY <1>1, <1>2
<1>4. QED
  BY <1>1, <1>3 DEF InWindow

LEMMA RecentCapped ==
  ASSUME Books, CapUnlessSkewed
  PROVE  RollingCharge
<1> SUFFICES ASSUME ~skewed
             PROVE  Total(charge, {c \in Calls : at[c] >= now - Window + Bucket - 1})
                      <= Cap + overshoot
  BY DEF RollingCharge
<1> DEFINE Recent == {c \in Calls : at[c] >= now - Window + Bucket - 1}
           bucket == [c \in Calls |-> HoldBucket(c)]
           W == InWindow(now)
           Counted == KeyedIn(Calls, bucket, W)
<1>1. IsFiniteSet(Calls) /\ IsFiniteSet(Counted) /\ IsFiniteSet(Buckets)
      /\ W \in SUBSET Buckets
  BY GroupFinite, WindowsFinite DEF InWindow, KeyedIn
<1>2. Recent \in SUBSET Counted
  BY RecentInWindow DEF KeyedIn
<1>3. /\ \A c \in Calls : charge[c] \in Nat /\ charge[c] \in Int
      /\ \A c \in Counted : charge[c] \in Nat
      /\ counter \in [Buckets -> Nat]
  BY DEF Books, LimitsTypeOK, KeyedIn
<1>4. \A b \in Buckets : counter[b] = Total(charge, Keyed(Calls, bucket, b))
  <2> SUFFICES ASSUME NEW b \in Buckets
               PROVE  counter[b] = Total(charge, Keyed(Calls, bucket, b))
    OBVIOUS
  <2>1. Keyed(Calls, bucket, b) = {c \in Calls : HoldBucket(c) = b}
    BY DEF Keyed
  <2>2. QED
    BY <2>1 DEF Books, CountersAccount
<1> HIDE DEF bucket, W, Recent
<1>5. Total(counter, W) = Total(charge, Counted)
  <2>1. \A c \in Calls : charge[c] \in Int
    BY <1>3
  <2>2. \A B \in SUBSET Buckets :
          Total(counter, B) = Total(charge, KeyedIn(Calls, bucket, B))
    BY <1>1, <1>4, <2>1, TotalGroups
  <2>3. QED
    BY <1>1, <2>2
<1> HIDE DEF Counted
<1>6. Total(charge, Recent) <= Total(charge, Counted)
  BY <1>1, <1>2, <1>3, TotalMonotone
<1>7. Total(counter, W) = WindowSum(now) /\ WindowSum(now) <= Cap + overshoot
  BY DEF WindowSum, W, CapUnlessSkewed
<1>8. WindowSum(now) \in Nat /\ Cap \in Nat /\ overshoot \in Nat
  BY <1>3, WindowTyped DEF Books, LimitsTypeOK
<1>9. Total(charge, Recent) \in Nat
  <2>1. Recent \in SUBSET Calls
    BY DEF Recent
  <2>2. QED
    BY <1>1, <1>3, <2>1, TotalNat
<1>10. Total(charge, Recent) <= Cap + overshoot
  BY <1>5, <1>6, <1>7, <1>8, <1>9
<1>11. QED
  BY <1>10 DEF Recent

\* The cap holds in the window of the clock and over any stretch of a window
\* less one bucket, for every overlap of any number of reservations, retries,
\* settlements and releases in which no charge rests on a stale sum.
THEOREM CapHolds == LimitsSpec => []WindowCapped
<1>1. Books /\ Capped => WindowCapped
  BY RecentCapped DEF Capped, WindowCapped
<1>2. QED
  BY <1>1, CappedAlways, PTL
=============================================================================
