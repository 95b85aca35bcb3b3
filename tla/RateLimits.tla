----------------------------- MODULE RateLimits -----------------------------
(***************************************************************************)
(* The rolling counters of one rate-limit stream (customer, dimension,     *)
(* window, scope target), shared by all API processes.  A call reserves    *)
(* its estimate in the bucket of its arrival, in a transaction that first  *)
(* sums the window (reserveLimits).  After the provider answered, the      *)
(* settlement's transaction moves that bucket to the actual usage          *)
(* (settleLimits); a call that failed gives its estimate back              *)
(* (releaseLimits).                                                        *)
(*                                                                         *)
(* Transactions have MongoDB's snapshot isolation: a transaction reads     *)
(* what was committed before its first read, and conflicts with every      *)
(* later write of a document it writes itself.                             *)
(***************************************************************************)
EXTENDS Integers, FiniteSets, Sums

CONSTANTS
  Calls,        \* API calls that the rule of the stream applies to
  Priced,       \* calls whose settlement writes the customer document too
  Estimate,     \* estimatedRuleIncrement of a call
  Actual,       \* ruleIncrement of a call, from its usage
  Cap,          \* capValue of the rule
  Window,       \* windowSeconds
  Bucket,       \* bucketDurationSeconds(windowSeconds)
  MaxReserveAttempts, \* RESERVE_MAX_ATTEMPTS
  MaxTime       \* bound: the clock stops here

ASSUME RateLimitsAssumption ==
  /\ IsFiniteSet(Calls) /\ Priced \subseteq Calls
  /\ Estimate \in [Calls -> Nat \ {0}]
  /\ Actual \in [Calls -> Nat]
  /\ Cap \in Nat
  /\ Window \in Nat \ {0} /\ Bucket \in 1..Window
  /\ MaxReserveAttempts \in Nat \ {0}
  /\ MaxTime \in Nat

VARIABLES
  hard,      \* of the rule: TRUE for tokens and requests, FALSE for spend_units
  now,       \* the clock
  counter,   \* rateLimitCounters: count by bucketStart
  phase,     \* where each call stands
  at,        \* nowMs of the call's preflight
  started,   \* occurredAt of the call's settlement
  delta,     \* what the call's open transaction adds to its bucket
  missed,    \* documents others wrote since the open transaction's snapshot
  tries,     \* conflicts of the call's reservation
  \* The rest is history, read by the properties only.
  charge,    \* what the call has in its bucket
  overshoot, \* what settlements of a soft stream added to their estimates
  skewed     \* some call was charged on the strength of a stale window sum

times == <<at, started>>
txn   == <<delta, missed>>
limitVars == <<hard, now, counter, phase, times, txn, tries, charge, overshoot, skewed>>

-----------------------------------------------------------------------------
\* The customer document, beside the counters, which go by their bucketStart.
Customer == -1

Buckets == {t \in 0..MaxTime : t % Bucket = 0}

Phases == {"new", "reserve", "write", "admitted", "running", "adjust",
           "rejected", "failed", "released", "settled", "left"}
Ends   == {"rejected", "failed", "released", "settled", "left"}

\* Calls are at states of the code and no counter or charge is ever negative.
LimitsTypeOK ==
  /\ hard \in BOOLEAN
  /\ now \in 0..MaxTime
  /\ counter \in [Buckets -> Nat]
  /\ phase \in [Calls -> Phases]
  /\ at \in [Calls -> 0..MaxTime]
  /\ started \in [Calls -> 0..MaxTime]
  /\ delta \in [Calls -> Int]
  /\ missed \in [Calls -> SUBSET (Buckets \cup {Customer})]
  /\ tries \in [Calls -> 0..MaxReserveAttempts]
  /\ charge \in [Calls -> Nat]
  /\ overshoot \in Nat
  /\ skewed \in BOOLEAN

LimitsInit ==
  /\ hard \in BOOLEAN
  /\ now = 0
  /\ counter = [b \in Buckets |-> 0]
  /\ phase = [c \in Calls |-> "new"]
  /\ at = [c \in Calls |-> 0] /\ started = [c \in Calls |-> 0]
  /\ delta = [c \in Calls |-> 0]
  /\ missed = [c \in Calls |-> {}]
  /\ tries = [c \in Calls |-> 0]
  /\ charge = [c \in Calls |-> 0]
  /\ overshoot = 0
  /\ skewed = FALSE

-----------------------------------------------------------------------------
(* Buckets and windows. *)

\* bucketStartFor.
BucketOf(t) == (t \div Bucket) * Bucket

\* findWindowCounters: bounded below, not above.
InWindow(t) == {b \in Buckets : b >= t - Window}

WindowSum(t) == Total(counter, InWindow(t))

Larger(m, n) == IF m > n THEN m ELSE n
Smaller(m, n) == IF m < n THEN m ELSE n

\* Mutant: the room is what the cap leaves, whatever is in the window.
WholeCap(sum) == Cap

\* hardCapRoom.
Room(sum) == Larger(0, Cap - Larger(0, sum))

\* clampSettleDelta.
Clamped(d, sum) == IF d <= 0 \/ ~hard THEN d ELSE Smaller(d, Room(sum))

\* The bucket of a call's hold, whenever it is settled or released.
HoldBucket(c) == BucketOf(at[c])

\* Mutant: the bucket of the clock, not of the hold.
AddNow(c, d) ==
  counter' = [counter EXCEPT ![BucketOf(now)] = Larger(0, @ + d)]

\* bulkUpsertCounters: a count never goes below zero.
Add(c, d) ==
  counter' = [counter EXCEPT ![HoldBucket(c)] = Larger(0, @ + d)]

-----------------------------------------------------------------------------
(* Transactions. *)

Advances(c, from, to) == /\ phase[c] = from
                         /\ phase' = [phase EXCEPT ![c] = to]

Open(c) == phase[c] \in {"write", "adjust"}

\* The first read of a transaction: it knows what to add.
Snapshot(c, d) == /\ delta' = [delta EXCEPT ![c] = d]
                  /\ missed' = [missed EXCEPT ![c] = {}]

\* The transaction ends without a write.
Abort(c) == Snapshot(c, 0)

\* What c commits is missed by every other transaction now open.
Commit(c, docs) ==
  /\ delta' = [delta EXCEPT ![c] = 0]
  /\ missed' = [o \in Calls |-> IF o # c /\ Open(o) THEN missed[o] \cup docs
                                                    ELSE {}]

\* Mutant: the write is an insert, which finds the bucket already there.
InsertOnly(c, docs) == \E b \in docs \cap Buckets : counter[b] > 0

Conflict(c, docs) == missed[c] \cap docs # {}

\* A charge rests on a sum in which another bucket of the window is stale.
Stale(c, t) ==
  delta[c] > 0 /\ missed[c] \cap (InWindow(t) \ {HoldBucket(c)}) # {}

-----------------------------------------------------------------------------
(* Admission. *)

Arrive(c) ==
  /\ Advances(c, "new", "reserve")
  /\ at' = [at EXCEPT ![c] = now]
  /\ UNCHANGED <<hard, now, counter, started, txn, tries, charge, overshoot, skewed>>

Reserve(c) ==
  /\ LET fits == WindowSum(at[c]) + Estimate[c] <= Cap IN
       \/ fits /\ Advances(c, "reserve", "write") /\ Snapshot(c, Estimate[c])
       \/ ~fits /\ Advances(c, "reserve", "rejected") /\ UNCHANGED txn
  /\ UNCHANGED <<hard, now, counter, times, tries, charge, overshoot, skewed>>

\* The write of the reservation goes through.
Reserved(c) ==
  /\ ~Conflict(c, {HoldBucket(c)})
  /\ Add(c, delta[c])
  /\ Commit(c, {HoldBucket(c)})
  /\ charge' = [charge EXCEPT ![c] = delta[c]]
  /\ skewed' = (skewed \/ Stale(c, at[c]))

Admit(c) ==
  /\ Advances(c, "write", "admitted")
  /\ Reserved(c)
  /\ UNCHANGED <<hard, now, times, tries, overshoot>>

AttemptsLeft(c) == tries[c] + 1 < MaxReserveAttempts

Retry(c) ==
  /\ Conflict(c, {HoldBucket(c)})
  /\ tries' = [tries EXCEPT ![c] = @ + 1]
  /\ Advances(c, "write", IF AttemptsLeft(c) THEN "reserve" ELSE "failed")
  /\ Abort(c)
  /\ UNCHANGED <<hard, now, counter, times, charge, overshoot, skewed>>

\* Any other error ends the call, a commit without answer among them.
ReserveErrs(c) ==
  /\ Advances(c, "write", "failed")
  /\ \/ Reserved(c)
     \/ Abort(c) /\ UNCHANGED <<counter, charge, skewed>>
  /\ UNCHANGED <<hard, now, times, tries, overshoot>>

-----------------------------------------------------------------------------
(* Settlement and release. *)

Generate(c) ==
  /\ Advances(c, "admitted", "running")
  /\ started' = [started EXCEPT ![c] = now]
  /\ UNCHANGED <<hard, now, counter, at, txn, tries, charge, overshoot, skewed>>

\* releaseLimits, outside any transaction.
Release(c) ==
  /\ Advances(c, "running", "released")
  /\ Add(c, -Estimate[c])
  /\ Commit(c, {HoldBucket(c)})
  /\ charge' = [charge EXCEPT ![c] = 0]
  /\ UNCHANGED <<hard, now, times, tries, overshoot, skewed>>

\* settleLimits reads the window in the settlement's transaction.
Settle(c) ==
  /\ Advances(c, "running", "adjust")
  /\ Snapshot(c, Clamped(Actual[c] - Estimate[c], WindowSum(started[c])))
  /\ UNCHANGED <<hard, now, counter, times, tries, charge, overshoot, skewed>>

\* A delta of zero writes no counter; the debit writes the customer.
SettleDocs(c) == (IF delta[c] = 0 THEN {} ELSE {HoldBucket(c)})
                   \cup (IF c \in Priced THEN {Customer} ELSE {})

Settled(c) ==
  /\ Advances(c, "adjust", "settled")
  /\ ~Conflict(c, SettleDocs(c))
  /\ Add(c, delta[c])
  /\ Commit(c, SettleDocs(c))
  /\ charge' = [charge EXCEPT ![c] = @ + delta[c]]
  /\ overshoot' = IF ~hard THEN overshoot + Larger(0, delta[c]) ELSE overshoot
  /\ skewed' = (skewed \/ Stale(c, started[c]))
  /\ UNCHANGED <<hard, now, times, tries>>

\* A conflict fails the settlement, which the outbox tries again.
SettleConflicts(c) ==
  /\ Advances(c, "adjust", "running")
  /\ Conflict(c, SettleDocs(c))
  /\ Abort(c)
  /\ UNCHANGED <<hard, now, counter, times, tries, charge, overshoot, skewed>>

\* A process dies, or the outbox abandons the row: the estimate stays.
Leave(c) ==
  /\ phase[c] \notin Ends \cup {"new"}
  /\ phase' = [phase EXCEPT ![c] = "left"]
  /\ Abort(c)
  /\ UNCHANGED <<hard, now, counter, times, tries, charge, overshoot, skewed>>

Tick == /\ now < MaxTime
        /\ now' = now + 1
        /\ UNCHANGED <<hard, counter, phase, times, txn, tries, charge, overshoot, skewed>>

-----------------------------------------------------------------------------
Step(c) == \/ Reserve(c) \/ Admit(c) \/ Retry(c) \/ ReserveErrs(c)
           \/ Generate(c) \/ Release(c)
           \/ Settle(c) \/ Settled(c) \/ SettleConflicts(c)

LimitsNext == Tick \/ \E c \in Calls : Arrive(c) \/ Step(c) \/ Leave(c)

LimitsSpec == LimitsInit /\ [][LimitsNext]_limitVars

\* A call that arrived runs on unless its process dies; a row of the outbox is
\* tried again.  Conflicts leave no choice: MongoDB lets one side commit.
LimitsFairness == \A c \in Calls : WF_limitVars(Step(c))

LimitsFairSpec == LimitsSpec /\ LimitsFairness

-----------------------------------------------------------------------------
(* Properties. *)

\* Reservations and settlements of the same bucket conflict, those of different
\* buckets do not: as long as no charge missed a write of another bucket of its
\* window, the window stays within the cap plus what soft settlements added.
CapUnlessSkewed == ~skewed => WindowSum(now) <= Cap + overshoot

\* Conflicts, retries, releases and late settlements, on whatever bucket the
\* clock has reached, leave each bucket the sum of what its calls are charged.
CountersAccount ==
  \A b \in Buckets :
    counter[b] = Total(charge, {c \in Calls : HoldBucket(c) = b})

\* What a customer sees: in any stretch of a window less one bucket, calls are
\* charged no more than the cap, although old usage leaves by whole buckets.
RollingCharge ==
  ~skewed =>
    Total(charge, {c \in Calls : at[c] >= now - Window + Bucket - 1})
      <= Cap + overshoot

\* Conflicts never keep a call from its end.
CallsEnd == \A c \in Calls : phase[c] # "new" ~> phase[c] \in Ends

\* The cap holds now and over any such stretch, for every overlap of
\* reservations, settlements and releases (reserveRateLimits).
WindowCapped == CapUnlessSkewed /\ RollingCharge

\* Each bucket accounts for its calls, and nothing in it is negative.
Accounts == LimitsTypeOK /\ CountersAccount
=============================================================================
