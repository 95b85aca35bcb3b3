------------------------------ MODULE Migrator ------------------------------
(***************************************************************************)
(* The migration runner: a process takes the one lock document, reads      *)
(* which migrations are recorded, and applies its other files in order     *)
(* (runMigrations).  A heartbeat renews the lock's lease meanwhile; once a *)
(* renewal fails the handle is lost for good, and the runner stops before  *)
(* its next file.  It does not stop the file it is in.                     *)
(*                                                                         *)
(* Time is abstracted to "the lease has run out", which may be at any      *)
(* moment.  That a lease ran out while its holder still renews, 60 s       *)
(* against 300 s, is remembered as a late heartbeat.                       *)
(***************************************************************************)
EXTENDS Integers, Sequences

CONSTANTS
  Runners,       \* processes, named by their holder, `<hostname>-<pid>`
  NoHolder,      \* no lock document
  Migrations,    \* migration ids
  Transactional, \* ids whose file says transactional
  Legacy,        \* ids older than CHECKSUM_ENFORCEMENT_START_DATE
  Sums,          \* checksums
  NoSum,         \* not recorded
  Files,         \* the files of each runner's release, in name order
  Checksum,      \* the checksum of each of them
  MaxRuns        \* bound: runs started

ASSUME MigratorAssumption ==
  /\ NoHolder \notin Runners /\ NoSum \notin Sums
  /\ Transactional \subseteq Migrations
  /\ Files \in [Runners -> Seq(Migrations)]
  /\ \A r \in Runners : \A i, j \in DOMAIN Files[r] : Files[r][i] = Files[r][j] => i = j
  /\ Checksum \in [Runners -> [Migrations -> Sums]]
  /\ MaxRuns \in Nat

VARIABLES
  holder,    \* _migration_lock: its holder
  expired,   \* its expiresAt has passed
  records,   \* _migrations: checksum by id
  pc,        \* where each process stands
  at,        \* index of the file it is at
  applied,   \* appliedMap, as it read it
  lost,      \* lostError of its handle is set
  runs,      \* runs started
  \* The rest is history, read by the properties only.
  late,      \* its lease ran out although it renews, and is not renewed since
  effects    \* the checksums of the files whose up took effect, by id

lock     == <<holder, expired>>
database == <<lock, records, effects>>
handle   == <<lost, late>>
vars     == <<database, pc, at, applied, handle, runs>>

Ended   == {"idle", "reported", "failed"}
\* The handle is not released.
Live    == {"reading", "next", "up", "recording"}
Leaving == {"returning", "throwing"}

NoRecords == [m \in Migrations |-> NoSum]

Init ==
  /\ holder = NoHolder /\ expired = FALSE
  /\ records = NoRecords
  /\ effects = [m \in Migrations |-> <<>>]
  /\ pc = [r \in Runners |-> "idle"]
  /\ at = [r \in Runners |-> 1]
  /\ applied = [r \in Runners |-> NoRecords]
  /\ lost = [r \in Runners |-> FALSE]
  /\ late = [r \in Runners |-> FALSE]
  /\ runs = 0

Holding(r) == pc[r] \in Live
Recorded(m) == records[m] # NoSum

FilesLeft(r) == at[r] \in DOMAIN Files[r]
File(r) == Files[r][at[r]]

Sum(r) == Checksum[r][File(r)]

-----------------------------------------------------------------------------
(* What the database does with the requests of a run. *)

\* insertOne of the lock document: the duplicate key lets one in.
InsertLock(r) ==
  /\ holder = NoHolder
  /\ holder' = r /\ expired' = FALSE
  /\ UNCHANGED <<records, effects>>

\* Mutant: whatever lock is there is deleted.
DeleteAnyLock(r) ==
  /\ holder' = NoHolder /\ expired' = FALSE
  /\ UNCHANGED <<records, effects>>

\* deleteOne({_id, holder}): another's lock stays.
DeleteLock(r) ==
  /\ holder' = IF holder = r THEN NoHolder ELSE holder
  /\ expired' = (expired /\ holder # r)
  /\ UNCHANGED <<records, effects>>

\* updateOne({_id, holder}): a lease that ran out is renewed too while its
\* document is there.
RenewLock(r) ==
  /\ holder = r
  /\ expired' = FALSE
  /\ UNCHANGED <<holder, records, effects>>

\* Mutant: an upsert.
UpsertRecord(r) == records' = [records EXCEPT ![File(r)] = Sum(r)]

\* insertOne of the record: its _id is the id of the migration.
InsertRecord(r) ==
  /\ ~Recorded(File(r))
  /\ records' = [records EXCEPT ![File(r)] = Sum(r)]

ApplyUp(r) == effects' = [effects EXCEPT ![File(r)] = Append(@, Sum(r))]

\* A transaction carries up's writes and the record.
CommitUp(r) ==
  /\ ApplyUp(r)
  /\ IF File(r) \in Transactional THEN InsertRecord(r) ELSE UNCHANGED records
  /\ UNCHANGED lock

\* The request of a run that is under way takes effect.
Lands(r) ==
  \/ pc[r] = "acquiring" /\ InsertLock(r)
  \/ pc[r] = "up" /\ CommitUp(r)
  \/ pc[r] = "recording" /\ InsertRecord(r) /\ UNCHANGED <<lock, effects>>
  \/ pc[r] \in Leaving /\ DeleteLock(r)

-----------------------------------------------------------------------------
(* A run. *)

Goto(r, p) == pc' = [pc EXCEPT ![r] = p]
Advance(r) == at' = [at EXCEPT ![r] = @ + 1]

\* A process ends, and its memory with it.
Exit(r, p) ==
  /\ Goto(r, p)
  /\ at' = [at EXCEPT ![r] = 1]
  /\ applied' = [applied EXCEPT ![r] = NoRecords]
  /\ lost' = [lost EXCEPT ![r] = FALSE]
  /\ late' = [late EXCEPT ![r] = FALSE]
  /\ UNCHANGED runs

\* A process starts; it first removes a lock whose lease ran out.
Start(r) ==
  /\ pc[r] \in Ended /\ runs < MaxRuns
  /\ runs' = runs + 1
  /\ Goto(r, "acquiring")
  /\ holder' = IF expired THEN NoHolder ELSE holder
  /\ expired' = FALSE
  /\ UNCHANGED <<records, effects, at, applied, handle>>

Acquire(r) ==
  /\ pc[r] = "acquiring" /\ Lands(r)
  /\ Goto(r, "reading")
  /\ UNCHANGED <<at, applied, handle, runs>>

ReadApplied(r) ==
  /\ pc[r] = "reading"
  /\ applied' = [applied EXCEPT ![r] = records]
  /\ at' = [at EXCEPT ![r] = 1]
  /\ Goto(r, "next")
  /\ UNCHANGED <<database, handle, runs>>

\* The next file, if the handle is alive.
Turn(r) == pc[r] = "next" /\ ~lost[r] /\ FilesLeft(r)

Known(r) == applied[r][File(r)] # NoSum

\* Mutant: checksums are not compared.
MatchesAny(r) == TRUE

Matches(r) == applied[r][File(r)] = Sum(r) \/ File(r) \in Legacy

Skip(r) ==
  /\ Turn(r) /\ Known(r) /\ Matches(r)
  /\ Advance(r)
  /\ UNCHANGED <<database, pc, applied, handle, runs>>

Begin(r) ==
  /\ Turn(r) /\ ~Known(r)
  /\ Goto(r, "up")
  /\ UNCHANGED <<database, at, applied, handle, runs>>

\* up is done: with its record in a transaction, else the record is next.
FinishUp(r) ==
  /\ pc[r] = "up" /\ Lands(r)
  /\ IF File(r) \in Transactional
       THEN Goto(r, "next") /\ Advance(r)
       ELSE Goto(r, "recording") /\ UNCHANGED at
  /\ UNCHANGED <<applied, handle, runs>>

Record(r) ==
  /\ pc[r] = "recording" /\ Lands(r)
  /\ Goto(r, "next") /\ Advance(r)
  /\ UNCHANGED <<applied, handle, runs>>

Return(r) ==
  /\ pc[r] = "next" /\ ~lost[r] /\ ~FilesLeft(r)
  /\ Goto(r, "returning")
  /\ UNCHANGED <<database, at, applied, handle, runs>>

\* assertAlive throws, or a recorded file was edited.
Refuse(r) ==
  /\ pc[r] = "next"
  /\ lost[r] \/ (FilesLeft(r) /\ Known(r) /\ ~Matches(r))
  /\ Goto(r, "throwing")
  /\ UNCHANGED <<database, at, applied, handle, runs>>

\* A request fails: refused, or its answer is lost.  A run that has the lock
\* releases it.
Errs(r) ==
  /\ pc[r] \in {"acquiring", "reading", "up", "recording"}
  /\ Lands(r) \/ UNCHANGED database
  /\ Goto(r, IF Holding(r) THEN "throwing" ELSE "failed")
  /\ UNCHANGED <<at, applied, handle, runs>>

\* The lock is deleted, best-effort.
Release(r) ==
  /\ pc[r] \in Leaving
  /\ Lands(r) \/ UNCHANGED database
  /\ Exit(r, IF pc[r] = "returning" THEN "reported" ELSE "failed")

\* The process is killed.
Die(r) ==
  /\ pc[r] \notin Ended
  /\ Lands(r) \/ UNCHANGED database
  /\ Exit(r, "failed")

-----------------------------------------------------------------------------
(* The heartbeat, and the lease. *)

Renews(r) == Holding(r) /\ ~lost[r]

\* A renewal and its answer are one step: a miss that is answered later is a
\* later miss, and a renewal whose answer is lost later is one that matched
\* before one that failed.
Renew(r) ==
  /\ Renews(r) /\ RenewLock(r)
  /\ late' = [late EXCEPT ![r] = FALSE]
  /\ UNCHANGED <<pc, at, applied, lost, runs>>

\* The handle is lost, and for good.
Lose(r) ==
  /\ lost' = [lost EXCEPT ![r] = TRUE]
  /\ UNCHANGED <<database, pc, at, applied, late, runs>>

\* Mutant: matchedCount is not looked at.
RenewUnchecked(r) == Renews(r) /\ holder # r /\ UNCHANGED vars

RenewMisses(r) == Renews(r) /\ holder # r /\ Lose(r)

RenewErrs(r) == Renews(r) /\ Lose(r)

\* The lease runs out.
Expire ==
  /\ holder # NoHolder /\ ~expired
  /\ expired' = TRUE
  /\ late' = [late EXCEPT ![holder] = Renews(holder)]
  /\ UNCHANGED <<holder, records, effects, pc, at, applied, lost, runs>>

\* The TTL index deletes a lock whose lease ran out.
TtlDelete ==
  /\ expired
  /\ holder' = NoHolder /\ expired' = FALSE
  /\ UNCHANGED <<records, effects, pc, at, applied, handle, runs>>

-----------------------------------------------------------------------------
Step(r) ==
  \/ Acquire(r) \/ ReadApplied(r) \/ Skip(r) \/ Begin(r) \/ FinishUp(r)
  \/ Record(r) \/ Return(r) \/ Refuse(r) \/ Errs(r) \/ Release(r)

Heartbeat(r) == Renew(r) \/ RenewMisses(r)

Next ==
  \/ \E r \in Runners : Start(r) \/ Step(r) \/ Die(r) \/ Heartbeat(r) \/ RenewErrs(r)
  \/ Expire \/ TtlDelete

\* A run goes on, though a migration may take for ever; timers fire.
Fairness ==
  /\ \A r \in Runners : WF_vars(pc[r] # "up" /\ Step(r)) /\ WF_vars(Heartbeat(r))
  /\ WF_vars(Expire) /\ WF_vars(TtlDelete)

Spec == Init /\ [][Next]_vars /\ Fairness

-----------------------------------------------------------------------------
(* Properties. *)

\* Types of the variables.  The position of a run is at one of its files, or
\* past the last.
TypeOK ==
  /\ holder \in Runners \cup {NoHolder} /\ expired \in BOOLEAN
  /\ records \in [Migrations -> Sums \cup {NoSum}]
  /\ effects \in [Migrations -> Seq(Sums)]
  /\ pc \in [Runners -> Ended \cup Live \cup Leaving \cup {"acquiring"}]
  /\ at \in [Runners -> Nat]
  /\ \A r \in Runners : at[r] \in 1..Len(Files[r]) + 1
  /\ applied \in [Runners -> [Migrations -> Sums \cup {NoSum}]]
  /\ lost \in [Runners -> BOOLEAN]
  /\ late \in [Runners -> BOOLEAN]
  /\ runs \in 0..MaxRuns

\* _migrations tells what was done, whatever failed and whoever ran at the
\* same time: a transactional migration took effect once if it is recorded and
\* never otherwise, with the file whose checksum is recorded; another one took
\* effect at least once with that file before it was recorded
\* (executeMigration).
RecordsTruthful ==
  \A m \in Migrations :
    IF m \in Transactional
      THEN effects[m] = IF Recorded(m) THEN <<records[m]>> ELSE <<>>
      ELSE Recorded(m) => \E k \in DOMAIN effects[m] : effects[m][k] = records[m]

\* Migrations are recorded in the order of some release's files, also when
\* runs of several releases fail half-way, die and overlap (the loop of
\* runMigrations).
AppliedInOrder ==
  \A m \in Migrations : Recorded(m) =>
    \E r \in Runners : \E i \in DOMAIN Files[r] :
      Files[r][i] = m /\ \A j \in 1..i : Recorded(Files[r][j])

\* A run that reports success leaves every file of its release recorded, with
\* the checksum of its own file unless the migration is a legacy one.
SuccessMeansApplied ==
  \A r \in Runners : pc[r] \in {"returning", "reported"} =>
    \A i \in DOMAIN Files[r] :
      LET m == Files[r][i]
      IN  Recorded(m) /\ (records[m] = Checksum[r][m] \/ m \in Legacy)

\* A run that trusts its handle, and whose heartbeat is not late.
Trusting(r) == Renews(r) /\ ~late[r]

\* At most one run trusts its handle: what overlaps it knows that its lock is
\* lost, or its heartbeat is late (acquireLock, createLockHandle).
OneTrusts ==
  \A r, s \in Runners : Trusting(r) /\ Trusting(s) => r = s

\* A run whose lock is gone learns of it, however long its migration takes
\* (renew).
LossDetected ==
  \A r \in Runners : (Holding(r) /\ holder # r) ~> (lost[r] \/ ~Holding(r))

\* A lock left by a run that is over goes away (the TTL index), so that the
\* next run can start.
StaleLockGoes ==
  \A r \in Runners : (holder = r /\ pc[r] \in Ended) ~> (holder # r \/ pc[r] \notin Ended)

\* A run comes to its end, or into a migration that does not: no refusal,
\* error or loss of the lock leaves it waiting.
RunsEnd ==
  \A r \in Runners : pc[r] = "acquiring" ~> pc[r] \in Ended \cup {"up"}

\* Runs recover from a lock that is lost, left behind or taken: they learn of
\* the loss, the lock goes away, and a run gets on (renew, the TTL index).
RunsRecover == LossDetected /\ StaleLockGoes /\ RunsEnd
=============================================================================
