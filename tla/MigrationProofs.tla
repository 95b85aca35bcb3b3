--------------------------- MODULE MigrationProofs --------------------------
(***************************************************************************)
(* What holds of the migration runner for any number of processes,         *)
(* releases and migrations, and of the documents the data migrations of an *)
(* upgrade repair while the releases write to them.                        *)
(***************************************************************************)
EXTENDS Migrator, DataMigrations, SumTheorems, SequenceTheorems, TLAPS

-----------------------------------------------------------------------------
(* The migration runner.                                                   *)


(* The inductive invariants behind the safety properties. *)

\* A run past its reading knows of no record that is not there.
ViewTrue ==
  \A r \in Runners : pc[r] \in {"next", "up", "recording"} =>
    \A m \in Migrations : applied[r][m] # NoSum => records[m] = applied[r][m]

\* The record of a file of r is of that file, unless legacy.
FileDone(r, i) ==
  LET m == Files[r][i]
  IN  Recorded(m) /\ (records[m] = Checksum[r][m] \/ m \in Legacy)

\* The files that a run is past are recorded.
BehindDone ==
  \A r \in Runners : pc[r] \in {"next", "up", "recording"} =>
    \A i \in DOMAIN Files[r] : i < at[r] => FileDone(r, i)

\* A run is inside a migration at one of its files, and has applied what it
\* is about to record.
InsideFile ==
  \A r \in Runners :
    /\ pc[r] \in {"up", "recording"} => FilesLeft(r)
    /\ pc[r] = "recording" =>
         /\ File(r) \notin Transactional
         /\ \E k \in DOMAIN effects[File(r)] : effects[File(r)][k] = Sum(r)

\* A run that trusts its handle has the lock.
LiveHasLock ==
  \A r \in Runners :
    Trusting(r) => holder = r /\ ~expired

-----------------------------------------------------------------------------
(* Types. *)

\* A run's position is at a file of its release or just past the last.
LEMMA FilesTyped ==
  ASSUME NEW r \in Runners
  PROVE  /\ Files[r] \in Seq(Migrations) /\ Len(Files[r]) \in Nat
         /\ DOMAIN Files[r] = 1..Len(Files[r])
         /\ \A i \in DOMAIN Files[r] : Files[r][i] \in Migrations
BY MigratorAssumption

LEMMA TypeInit == Init => TypeOK
<1> SUFFICES ASSUME Init PROVE TypeOK
  OBVIOUS
<1>1. effects \in [Migrations -> Seq(Sums)]
  BY DEF Init
<1>2. \A r \in Runners : at[r] \in 1..Len(Files[r]) + 1
  <2> TAKE r \in Runners
  <2>1. at[r] = 1 /\ Len(Files[r]) \in Nat
    BY FilesTyped DEF Init
  <2> QED BY <2>1
<1>3. runs \in 0..MaxRuns /\ lost \in [Runners -> BOOLEAN] /\ late \in [Runners -> BOOLEAN]
  BY MigratorAssumption DEF Init
<1>4. pc \in [Runners -> Ended \cup Live \cup Leaving \cup {"acquiring"}]
  BY DEF Init, Ended
<1> QED BY <1>1, <1>2, <1>3, <1>4 DEF Init, NoRecords, TypeOK

\* What the database does keeps its types.
LEMMA LandsTyped ==
  ASSUME TypeOK, InsideFile, NEW r \in Runners, Lands(r)
  PROVE  /\ holder' \in Runners \cup {NoHolder} /\ expired' \in BOOLEAN
         /\ records' \in [Migrations -> Sums \cup {NoSum}]
         /\ effects' \in [Migrations -> Seq(Sums)]
<1>1. CASE pc[r] = "acquiring" /\ InsertLock(r)
  BY <1>1 DEF InsertLock, TypeOK
<1>2. CASE pc[r] = "up" /\ CommitUp(r)
  <2>1. File(r) \in Migrations /\ Sum(r) \in Sums
    BY <1>2, MigratorAssumption DEF InsideFile, FilesLeft, File, Sum, TypeOK
  <2>2. effects' \in [Migrations -> Seq(Sums)]
    BY <1>2, <2>1 DEF CommitUp, ApplyUp, TypeOK
  <2>3. records' \in [Migrations -> Sums \cup {NoSum}]
    BY <1>2, <2>1 DEF CommitUp, InsertRecord, TypeOK
  <2> QED BY <1>2, <2>2, <2>3 DEF CommitUp, lock, TypeOK
<1>3. CASE pc[r] = "recording" /\ InsertRecord(r) /\ UNCHANGED <<lock, effects>>
  <2>1. File(r) \in Migrations /\ Sum(r) \in Sums
    BY <1>3, MigratorAssumption DEF InsideFile, FilesLeft, File, Sum, TypeOK
  <2> QED BY <1>3, <2>1 DEF InsertRecord, lock, TypeOK
<1>4. CASE pc[r] \in Leaving /\ DeleteLock(r)
  BY <1>4 DEF DeleteLock, TypeOK
<1> QED BY <1>1, <1>2, <1>3, <1>4 DEF Lands

\* An action of one process leaves the position and the view of all others.
Same(r) == UNCHANGED <<pc[r], at[r], applied[r]>>

\* What is typed apart from the database.
ProcessTypes ==
  /\ pc \in [Runners -> Ended \cup Live \cup Leaving \cup {"acquiring"}]
  /\ at \in [Runners -> Nat]
  /\ \A r \in Runners : at[r] \in 1..Len(Files[r]) + 1
  /\ applied \in [Runners -> [Migrations -> Sums \cup {NoSum}]]
  /\ lost \in [Runners -> BOOLEAN]
  /\ late \in [Runners -> BOOLEAN]
  /\ runs \in 0..MaxRuns

DatabaseTypes ==
  /\ holder \in Runners \cup {NoHolder} /\ expired \in BOOLEAN
  /\ records \in [Migrations -> Sums \cup {NoSum}]
  /\ effects \in [Migrations -> Seq(Sums)]

\* Going to the next file from one that is there stays within bounds.
LEMMA AdvanceTyped ==
  ASSUME TypeOK, NEW r \in Runners, FilesLeft(r), Advance(r)
  PROVE  at' \in [Runners -> Nat] /\ \A s \in Runners : at'[s] \in 1..Len(Files[s]) + 1
BY FilesTyped DEF TypeOK, FilesLeft, Advance

\* Every action keeps the types of the processes.
LEMMA ProcessStep == TypeOK /\ InsideFile /\ [Next]_vars => ProcessTypes'
<1> SUFFICES ASSUME TypeOK, InsideFile, [Next]_vars PROVE ProcessTypes'
  OBVIOUS
<1> USE DEF Ended, Live, Leaving, handle
<1>1. ASSUME NEW r \in Runners, Start(r) PROVE ProcessTypes'
  BY <1>1, MigratorAssumption DEF TypeOK, Start, Goto, ProcessTypes
<1>2. ASSUME NEW r \in Runners, Acquire(r) PROVE ProcessTypes'
  BY <1>2 DEF TypeOK, Acquire, Goto, ProcessTypes
<1>3. ASSUME NEW r \in Runners, ReadApplied(r) PROVE ProcessTypes'
  <2>1. \A s \in Runners : at'[s] \in 1..Len(Files[s]) + 1
    BY <1>3, FilesTyped DEF TypeOK, ReadApplied
  <2> QED BY <1>3, <2>1 DEF TypeOK, ReadApplied, Goto, ProcessTypes
<1>4. ASSUME NEW r \in Runners, Skip(r) PROVE ProcessTypes'
  BY <1>4, AdvanceTyped DEF TypeOK, Skip, Turn, ProcessTypes
<1>5. ASSUME NEW r \in Runners, Begin(r) \/ Return(r) \/ Refuse(r) PROVE ProcessTypes'
  BY <1>5 DEF TypeOK, Begin, Return, Refuse, Goto, ProcessTypes
<1>6. ASSUME NEW r \in Runners, FinishUp(r) PROVE ProcessTypes'
  <2>1. FilesLeft(r)
    BY <1>6 DEF InsideFile, FinishUp
  <2> QED BY <1>6, <2>1, AdvanceTyped DEF TypeOK, FinishUp, Goto, ProcessTypes
<1>7. ASSUME NEW r \in Runners, Record(r) PROVE ProcessTypes'
  <2>1. FilesLeft(r)
    BY <1>7 DEF InsideFile, Record
  <2> QED BY <1>7, <2>1, AdvanceTyped DEF TypeOK, Record, Goto, ProcessTypes
<1>8. ASSUME NEW r \in Runners, Errs(r) PROVE ProcessTypes'
  BY <1>8 DEF TypeOK, Errs, Goto, Holding, ProcessTypes
<1>9. ASSUME NEW r \in Runners, Heartbeat(r) \/ RenewErrs(r) PROVE ProcessTypes'
  <2>1. CASE Renew(r)
    BY <2>1 DEF TypeOK, Renew, ProcessTypes
  <2>2. CASE RenewMisses(r) \/ RenewErrs(r)
    BY <2>2 DEF TypeOK, RenewMisses, RenewErrs, Lose, ProcessTypes
  <2> QED BY <1>9, <2>1, <2>2 DEF Heartbeat
<1>11. ASSUME NEW r \in Runners, Release(r) \/ Die(r) PROVE ProcessTypes'
  <2>1. PICK p \in {"reported", "failed"} : Exit(r, p)
    BY <1>11 DEF Release, Die
  <2>2. \A s \in Runners : at'[s] \in 1..Len(Files[s]) + 1
    BY <2>1, FilesTyped DEF TypeOK, Exit
  <2>3. NoRecords \in [Migrations -> Sums \cup {NoSum}]
    BY DEF NoRecords
  <2> QED BY <2>1, <2>2, <2>3 DEF TypeOK, Exit, Goto, ProcessTypes
<1>10. CASE Expire
  <2>1. Renews(holder) \in BOOLEAN
    BY DEF Renews
  <2>2. late' \in [Runners -> BOOLEAN]
    BY <1>10, <2>1 DEF Expire, TypeOK
  <2> QED BY <1>10, <2>2 DEF TypeOK, Expire, ProcessTypes
<1>12. CASE TtlDelete \/ UNCHANGED vars
  BY <1>12 DEF TypeOK, TtlDelete, vars, ProcessTypes
<1> QED BY <1>1, <1>2, <1>3, <1>4, <1>5, <1>6, <1>7, <1>8, <1>9, <1>10, <1>11, <1>12 DEF Next, Step

\* Every action keeps the types of the database.
LEMMA DatabaseStep == TypeOK /\ InsideFile /\ [Next]_vars => DatabaseTypes'
<1> SUFFICES ASSUME TypeOK, InsideFile, [Next]_vars PROVE DatabaseTypes'
  OBVIOUS
<1> USE DEF DatabaseTypes, database, lock
<1>1. CASE UNCHANGED database
  BY <1>1 DEF TypeOK
<1>2. ASSUME NEW r \in Runners, Lands(r) PROVE DatabaseTypes'
  BY <1>2, LandsTyped
<1>3. ASSUME NEW r \in Runners, Start(r) PROVE DatabaseTypes'
  BY <1>3 DEF TypeOK, Start
<1>4. ASSUME NEW r \in Runners, Step(r) \/ Die(r) PROVE DatabaseTypes'
  <2>1. Lands(r) \/ UNCHANGED database
    BY <1>4 DEF Step, Die, Acquire, ReadApplied, Skip, Begin, FinishUp, Record,
                Return, Refuse, Errs, Release
  <2> QED BY <1>1, <1>2, <2>1
<1>5. ASSUME NEW r \in Runners, Heartbeat(r) \/ RenewErrs(r) PROVE DatabaseTypes'
  BY <1>5 DEF TypeOK, Heartbeat, Renew, RenewMisses, RenewErrs, Lose, RenewLock
<1>6. CASE Expire \/ TtlDelete
  BY <1>6 DEF TypeOK, Expire, TtlDelete
<1>7. CASE UNCHANGED vars
  BY <1>7, <1>1 DEF vars
<1> QED BY <1>3, <1>4, <1>5, <1>6, <1>7 DEF Next

LEMMA TypeStep == TypeOK /\ InsideFile /\ [Next]_vars => TypeOK'
BY ProcessStep, DatabaseStep DEF TypeOK, ProcessTypes, DatabaseTypes

-----------------------------------------------------------------------------
(* What a step may do to records and effects, and to a run. *)

\* r inserts the record of the file it is at.
Inserts(r) == FilesLeft(r) /\ InsertRecord(r)

DataStep ==
  \/ UNCHANGED <<records, effects>>
  \/ \E r \in Runners :
       \/ pc[r] = "up" /\ File(r) \in Transactional /\ Inserts(r) /\ ApplyUp(r)
       \/ pc[r] = "up" /\ File(r) \notin Transactional /\ FilesLeft(r)
          /\ ApplyUp(r) /\ UNCHANGED records
       \/ pc[r] = "recording" /\ Inserts(r) /\ UNCHANGED effects

LEMMA LandsData ==
  ASSUME InsideFile, NEW r \in Runners, Lands(r)
  PROVE  DataStep
<1> USE DEF InsideFile, DataStep, Inserts
<1>1. CASE pc[r] = "acquiring" /\ InsertLock(r)
  BY <1>1 DEF InsertLock
<1>2. CASE pc[r] = "up" /\ CommitUp(r)
  BY <1>2 DEF CommitUp
<1>3. CASE pc[r] = "recording" /\ InsertRecord(r) /\ UNCHANGED <<lock, effects>>
  BY <1>3
<1>4. CASE pc[r] \in Leaving /\ DeleteLock(r)
  BY <1>4 DEF DeleteLock
<1> QED BY <1>1, <1>2, <1>3, <1>4 DEF Lands

LEMMA NextData == InsideFile /\ [Next]_vars => DataStep
<1> SUFFICES ASSUME InsideFile, [Next]_vars PROVE DataStep
  OBVIOUS
<1>1. CASE UNCHANGED <<records, effects>>
  BY <1>1 DEF DataStep
<1>2. ASSUME NEW r \in Runners, Start(r) PROVE DataStep
  BY <1>2, <1>1 DEF Start
<1>3. ASSUME NEW r \in Runners, Step(r) \/ Die(r) PROVE DataStep
  <2>1. Lands(r) \/ UNCHANGED database
    BY <1>3 DEF Step, Die, Acquire, ReadApplied, Skip, Begin, FinishUp, Record,
                Return, Refuse, Errs, Release
  <2> QED BY <1>1, LandsData, <2>1 DEF database
<1>4. ASSUME NEW r \in Runners, Heartbeat(r) \/ RenewErrs(r) PROVE DataStep
  BY <1>4, <1>1 DEF Heartbeat, Renew, RenewMisses, RenewErrs, Lose, RenewLock, database
<1>5. CASE Expire \/ TtlDelete \/ UNCHANGED vars
  BY <1>5, <1>1 DEF Expire, TtlDelete, vars, database
<1> QED BY <1>2, <1>3, <1>4, <1>5 DEF Next

\* A record that is there stays as it is.
LEMMA RecordsStay ==
  ASSUME TypeOK, DataStep, NEW m \in Migrations, Recorded(m)
  PROVE  records'[m] = records[m]
BY DEF TypeOK, DataStep, Inserts, InsertRecord, Recorded

\* So does what took effect.
LEMMA EffectsStay ==
  ASSUME TypeOK, DataStep, NEW m \in Migrations, NEW k \in DOMAIN effects[m]
  PROVE  k \in DOMAIN effects'[m] /\ effects'[m][k] = effects[m][k]
<1>1. CASE UNCHANGED effects
  BY <1>1
<1>2. ASSUME NEW r \in Runners, FilesLeft(r), ApplyUp(r)
      PROVE  k \in DOMAIN effects'[m] /\ effects'[m][k] = effects[m][k]
  <2>1. File(r) \in Migrations /\ Sum(r) \in Sums
    BY <1>2, MigratorAssumption DEF FilesLeft, File, Sum
  <2>2. CASE m # File(r)
    BY <1>2, <2>1, <2>2 DEF ApplyUp, TypeOK
  <2>3. CASE m = File(r)
    <3>1. effects[m] \in Seq(Sums) /\ effects'[m] = Append(effects[m], Sum(r))
      BY <1>2, <2>1, <2>3 DEF ApplyUp, TypeOK
    <3> QED BY <3>1, <2>1
  <2> QED BY <2>2, <2>3
<1> QED BY <1>1, <1>2 DEF DataStep, Inserts

\* A run moves by its own actions only.
LEMMA Moves ==
  ASSUME TypeOK, [Next]_vars, NEW s \in Runners
  PROVE  Same(s) \/ Start(s) \/ Step(s) \/ Die(s)
<1> USE DEF TypeOK, Same, Goto, Advance
<1>1. ASSUME NEW r \in Runners, r # s, Start(r) \/ Die(r) PROVE Same(s)
  BY <1>1 DEF Start, Die, Exit
<1>2. ASSUME NEW r \in Runners, r # s, Step(r) PROVE Same(s)
  <2>1. CASE Acquire(r) \/ ReadApplied(r) \/ Skip(r) \/ Begin(r) \/ FinishUp(r)
    BY <2>1, <1>2 DEF Acquire, ReadApplied, Skip, Begin, FinishUp
  <2>2. CASE Record(r) \/ Return(r) \/ Refuse(r) \/ Errs(r) \/ Release(r)
    BY <2>2, <1>2 DEF Record, Return, Refuse, Errs, Release, Exit
  <2> QED BY <2>1, <2>2, <1>2 DEF Step
<1>3. ASSUME NEW r \in Runners, Heartbeat(r) \/ RenewErrs(r) PROVE Same(s)
  BY <1>3 DEF Heartbeat, Renew, RenewMisses, RenewErrs, Lose
<1>4. CASE Expire \/ TtlDelete \/ UNCHANGED vars
  BY <1>4 DEF Expire, TtlDelete, vars
<1> QED BY <1>1, <1>2, <1>3, <1>4 DEF Next

-----------------------------------------------------------------------------
(* The inductive invariant of the runs, and what it keeps. *)

RunInv == TypeOK /\ InsideFile /\ ViewTrue /\ BehindDone

\* What is done stays done.
LEMMA DoneStays ==
  ASSUME TypeOK, DataStep, NEW r \in Runners, NEW i \in DOMAIN Files[r], FileDone(r, i)
  PROVE  FileDone(r, i)'
<1>1. Files[r][i] \in Migrations
  BY FilesTyped
<1> QED BY <1>1, RecordsStay DEF FileDone, Recorded

\* A run that is past nothing has nothing behind it.
LEMMA RunInit == Init => InsideFile /\ ViewTrue /\ BehindDone
BY DEF Init, InsideFile, ViewTrue, BehindDone

LEMMA InsideStep ==
  ASSUME RunInv, [Next]_vars
  PROVE  InsideFile'
<1> USE DEF RunInv, Goto, Advance
<1>1. TypeOK /\ DataStep /\ TypeOK'
  BY NextData, TypeStep
<1> SUFFICES ASSUME NEW r \in Runners
             PROVE  /\ (pc[r] \in {"up", "recording"} => FilesLeft(r))'
                    /\ (pc[r] = "recording" =>
                          /\ File(r) \notin Transactional
                          /\ \E k \in DOMAIN effects[File(r)] : effects[File(r)][k] = Sum(r))'
  BY DEF InsideFile
<1>2. CASE Same(r)
  <2>1. FilesLeft(r)' = FilesLeft(r) /\ File(r)' = File(r) /\ Sum(r)' = Sum(r)
    BY <1>2 DEF Same, FilesLeft, File, Sum
  <2>2. ASSUME pc[r] = "recording"
        PROVE  \E k \in DOMAIN effects'[File(r)] : effects'[File(r)][k] = Sum(r)
    <3>1. File(r) \in Migrations
      BY <2>2, FilesTyped DEF InsideFile, FilesLeft, File
    <3>2. PICK k \in DOMAIN effects[File(r)] : effects[File(r)][k] = Sum(r)
      BY <2>2 DEF InsideFile
    <3> QED BY <3>1, <3>2, <1>1, EffectsStay
  <2> QED BY <1>2, <2>1, <2>2 DEF Same, InsideFile
<1>3. CASE Begin(r)
  BY <1>3, <1>1 DEF Begin, Turn, FilesLeft, TypeOK
<1>4. CASE FinishUp(r)
  <2>1. CASE File(r) \in Transactional
    BY <1>4, <2>1, <1>1 DEF FinishUp, TypeOK
  <2>2. CASE File(r) \notin Transactional
    <3>1. /\ pc[r] = "up" /\ pc'[r] = "recording" /\ at' = at /\ FilesLeft(r)
          /\ ApplyUp(r)
      BY <1>4, <2>2, <1>1 DEF FinishUp, Lands, CommitUp, InsideFile, Leaving, TypeOK
    <3>2. FilesLeft(r)' = FilesLeft(r) /\ File(r)' = File(r) /\ Sum(r)' = Sum(r)
      BY <3>1 DEF FilesLeft, File, Sum
    <3>3. File(r) \in Migrations /\ Sum(r) \in Sums
      BY <3>1, FilesTyped, MigratorAssumption DEF FilesLeft, File, Sum
    <3>4. effects[File(r)] \in Seq(Sums) /\ effects'[File(r)] = Append(effects[File(r)], Sum(r))
      BY <3>1, <3>3 DEF ApplyUp, TypeOK
    <3>5. \E k \in DOMAIN effects'[File(r)] : effects'[File(r)][k] = Sum(r)
      <4>1. Len(effects[File(r)]) + 1 \in DOMAIN effects'[File(r)]
        BY <3>3, <3>4
      <4>2. effects'[File(r)][Len(effects[File(r)]) + 1] = Sum(r)
        BY <3>3, <3>4
      <4> QED BY <4>1, <4>2
    <3> QED BY <3>1, <3>2, <3>5, <2>2
  <2> QED BY <2>1, <2>2
<1>5. CASE Start(r) \/ Acquire(r) \/ ReadApplied(r) \/ Skip(r) \/ Record(r)
  BY <1>5, <1>1 DEF Start, Acquire, ReadApplied, Skip, Turn, Record, TypeOK
<1>6. CASE Return(r) \/ Refuse(r) \/ Errs(r) \/ Release(r) \/ Die(r)
  BY <1>6, <1>1 DEF Return, Refuse, Errs, Release, Die, Exit, TypeOK
<1> QED BY <1>1, <1>2, <1>3, <1>4, <1>5, <1>6, Moves DEF Step

LEMMA ViewStep ==
  ASSUME RunInv, [Next]_vars
  PROVE  ViewTrue'
<1> USE DEF RunInv, Goto
<1>1. TypeOK /\ DataStep /\ TypeOK'
  BY NextData, TypeStep
<1> SUFFICES ASSUME NEW r \in Runners, (pc[r] \in {"next", "up", "recording"})',
                    NEW m \in Migrations, applied'[r][m] # NoSum
             PROVE  records'[m] = applied'[r][m]
  BY DEF ViewTrue
<1>2. CASE ReadApplied(r)
  BY <1>2, <1>1 DEF ReadApplied, database, TypeOK
<1>3. ASSUME applied'[r] = applied[r], pc[r] \in {"next", "up", "recording"}
      PROVE  records'[m] = applied'[r][m]
  <2>1. records[m] = applied[r][m]
    BY <1>3 DEF ViewTrue
  <2> QED BY <2>1, <1>3, <1>1, RecordsStay DEF Recorded
<1>4. CASE Same(r)
  BY <1>4, <1>3 DEF Same
<1>5. CASE Skip(r) \/ Begin(r) \/ FinishUp(r) \/ Record(r)
  BY <1>5, <1>3 DEF Skip, Turn, Begin, FinishUp, Record
<1>6. CASE Start(r) \/ Acquire(r)
  BY <1>6, <1>1 DEF Start, Acquire, TypeOK
<1>7. CASE Return(r) \/ Refuse(r) \/ Errs(r) \/ Release(r) \/ Die(r)
  BY <1>7, <1>1 DEF Return, Refuse, Errs, Release, Die, Exit, TypeOK
<1> QED BY <1>1, <1>2, <1>4, <1>5, <1>6, <1>7, Moves DEF Step

LEMMA BehindStep ==
  ASSUME RunInv, [Next]_vars
  PROVE  BehindDone'
<1> USE DEF RunInv, Goto
<1>1. TypeOK /\ DataStep /\ TypeOK'
  BY NextData, TypeStep
<1> SUFFICES ASSUME NEW r \in Runners, (pc[r] \in {"next", "up", "recording"})',
                    NEW i \in DOMAIN Files[r], i < at'[r]
             PROVE  FileDone(r, i)'
  BY DEF BehindDone
<1>2. i \in Nat \ {0} /\ at[r] \in Nat /\ Files[r][i] \in Migrations
  <2>1. DOMAIN Files[r] = 1..Len(Files[r]) /\ Len(Files[r]) \in Nat
        /\ Files[r][i] \in Migrations
    BY FilesTyped
  <2>2. at[r] \in Nat
    BY <1>1 DEF TypeOK
  <2> QED BY <2>1, <2>2
<1>3. ASSUME at'[r] = at[r], pc[r] \in {"next", "up", "recording"} PROVE FileDone(r, i)'
  <2>1. FileDone(r, i)
    BY <1>3 DEF BehindDone
  <2> QED BY <2>1, <1>1, DoneStays
<1>4. ASSUME Advance(r), pc[r] \in {"next", "up", "recording"}, i = at[r] => FileDone(r, i)'
      PROVE  FileDone(r, i)'
  <2>1. i < at[r] \/ i = at[r]
    BY <1>4, <1>2, <1>1 DEF Advance, TypeOK
  <2>2. i < at[r] => FileDone(r, i)
    BY <1>4 DEF BehindDone
  <2> QED BY <1>4, <2>1, <2>2, <1>1, DoneStays
<1>5. CASE ReadApplied(r)
  BY <1>5, <1>1, <1>2 DEF ReadApplied, TypeOK
<1>6. CASE Same(r)
  BY <1>6, <1>3 DEF Same
<1>7. CASE Begin(r)
  BY <1>7, <1>3 DEF Begin, Turn
<1>8. CASE Skip(r)
  <2>1. FileDone(r, at[r])
    BY <1>8, FilesTyped DEF Skip, Turn, Known, Matches, FileDone, ViewTrue, Recorded, File,
                Sum, FilesLeft
  <2>2. i = at[r] => FileDone(r, i)'
    BY <2>1, <1>1, DoneStays
  <2> QED BY <1>8, <1>4, <2>2 DEF Skip, Turn
<1>9. ASSUME pc[r] \in {"up", "recording"}, InsertRecord(r), i = at[r]
      PROVE  FileDone(r, i)'
  <2>1. File(r) \in Migrations /\ Sum(r) \in Sums /\ FilesLeft(r)
    BY <1>9, FilesTyped, MigratorAssumption DEF InsideFile, FilesLeft, File, Sum
  <2>2. records'[File(r)] = Sum(r) /\ Sum(r) # NoSum
    BY <1>9, <2>1, MigratorAssumption DEF InsertRecord, TypeOK
  <2> QED BY <1>9, <2>2 DEF FileDone, File, Sum, Recorded
<1>10. CASE FinishUp(r)
  <2>1. pc[r] = "up" /\ CommitUp(r)
    BY <1>10, <1>1 DEF FinishUp, Lands, Leaving
  <2>2. CASE File(r) \in Transactional
    <3>1. InsertRecord(r) /\ Advance(r)
      BY <1>10, <2>1, <2>2 DEF CommitUp, FinishUp
    <3> QED BY <3>1, <2>1, <1>4, <1>9
  <2>3. CASE File(r) \notin Transactional
    BY <1>10, <2>1, <2>3, <1>3 DEF FinishUp
  <2> QED BY <2>2, <2>3
<1>11. CASE Record(r)
  <2>1. pc[r] = "recording" /\ InsertRecord(r) /\ Advance(r)
    BY <1>11 DEF Record, Lands, Leaving
  <2> QED BY <2>1, <1>4, <1>9
<1>12. CASE Start(r) \/ Acquire(r)
  BY <1>12, <1>1 DEF Start, Acquire, TypeOK
<1>13. CASE Return(r) \/ Refuse(r) \/ Errs(r) \/ Release(r) \/ Die(r)
  BY <1>13, <1>1 DEF Return, Refuse, Errs, Release, Die, Exit, TypeOK
<1> QED BY <1>1, <1>5, <1>6, <1>7, <1>8, <1>10, <1>11, <1>12, <1>13, Moves DEF Step

LEMMA RunStep == RunInv /\ [Next]_vars => RunInv'
BY TypeStep, InsideStep, ViewStep, BehindStep DEF RunInv

LEMMA RunAlways == Spec => []RunInv
<1>1. Init => RunInv
  BY TypeInit, RunInit DEF RunInv
<1> QED BY <1>1, RunStep, PTL DEF Spec

\* The runner's state and the database stay well typed, and no run goes past
\* the end of its files, for any releases and any number of processes
\* (runMigrations).
THEOREM MigratorTyped == Spec => []TypeOK
<1>1. RunInv => TypeOK
  BY DEF RunInv
<1> QED BY <1>1, RunAlways, PTL

-----------------------------------------------------------------------------
(* The safety properties. *)

\* A step keeps RecordsTruthful.
LEMMA TruthStep ==
  ASSUME RunInv, RecordsTruthful, [Next]_vars
  PROVE  RecordsTruthful'
<1>1. TypeOK /\ InsideFile /\ DataStep /\ TypeOK'
  BY NextData, TypeStep DEF RunInv
<1> SUFFICES ASSUME NEW m \in Migrations
             PROVE  IF m \in Transactional
                      THEN effects'[m] = IF Recorded(m)' THEN <<records'[m]>> ELSE <<>>
                      ELSE Recorded(m)' =>
                             \E k \in DOMAIN effects'[m] : effects'[m][k] = records'[m]
  BY DEF RecordsTruthful, Recorded
<1>2. CASE effects'[m] = effects[m] /\ records'[m] = records[m]
  BY <1>2 DEF RecordsTruthful, Recorded
<1>3. ASSUME NEW r \in Runners, FilesLeft(r)
      PROVE  File(r) \in Migrations /\ Sum(r) \in Sums /\ Sum(r) # NoSum
  BY <1>3, FilesTyped, MigratorAssumption DEF FilesLeft, File, Sum
<1>4. ASSUME NEW r \in Runners, File(r) \in Transactional, Inserts(r), ApplyUp(r), m = File(r)
      PROVE  effects'[m] = <<records'[m]>> /\ Recorded(m)'
  <2>1. effects[m] = <<>> /\ records'[m] = Sum(r) /\ effects'[m] = Append(effects[m], Sum(r))
    BY <1>4, <1>1, <1>3 DEF Inserts, InsertRecord, ApplyUp, RecordsTruthful, TypeOK
  <2> QED BY <2>1, <1>4, <1>3 DEF Inserts, Recorded
<1>5. ASSUME NEW r \in Runners, File(r) \notin Transactional, m = File(r), FilesLeft(r),
             ApplyUp(r), UNCHANGED records, Recorded(m)
      PROVE  \E k \in DOMAIN effects'[m] : effects'[m][k] = records'[m]
  <2>1. PICK k \in DOMAIN effects[m] : effects[m][k] = records[m]
    BY <1>5 DEF RecordsTruthful
  <2>2. k \in DOMAIN effects'[m] /\ effects'[m][k] = effects[m][k]
    BY <1>1, EffectsStay
  <2> QED BY <2>1, <2>2, <1>5
<1>6. ASSUME NEW r \in Runners, pc[r] = "recording", Inserts(r), UNCHANGED effects, m = File(r)
      PROVE  /\ m \notin Transactional
             /\ \E k \in DOMAIN effects'[m] : effects'[m][k] = records'[m]
  <2>1. records'[m] = Sum(r)
    BY <1>6, <1>1, <1>3 DEF Inserts, InsertRecord, TypeOK
  <2> QED BY <2>1, <1>6, <1>1 DEF InsideFile
<1>7. CASE UNCHANGED <<records, effects>>
  BY <1>7, <1>2
<1>8. ASSUME NEW r \in Runners, FilesLeft(r),
             \/ pc[r] = "up" /\ File(r) \in Transactional /\ Inserts(r) /\ ApplyUp(r)
             \/ pc[r] = "up" /\ File(r) \notin Transactional /\ ApplyUp(r) /\ UNCHANGED records
             \/ pc[r] = "recording" /\ Inserts(r) /\ UNCHANGED effects
      PROVE  IF m \in Transactional
               THEN effects'[m] = IF Recorded(m)' THEN <<records'[m]>> ELSE <<>>
               ELSE Recorded(m)' =>
                      \E k \in DOMAIN effects'[m] : effects'[m][k] = records'[m]
  <2>1. CASE m # File(r)
    <3>1. effects'[m] = effects[m] /\ records'[m] = records[m]
      BY <1>8, <2>1, <1>1, <1>3 DEF Inserts, InsertRecord, ApplyUp, TypeOK
    <3> QED BY <3>1, <1>2
  <2>2. CASE m = File(r) /\ pc[r] = "recording"
    BY <1>8, <2>2, <1>6
  <2>3. CASE m = File(r) /\ pc[r] = "up" /\ m \in Transactional
    BY <1>8, <2>3, <1>4
  <2>4. CASE m = File(r) /\ pc[r] = "up" /\ m \notin Transactional
    <3>1. ApplyUp(r) /\ UNCHANGED records
      BY <1>8, <2>4
    <3>2. Recorded(m)' <=> Recorded(m)
      BY <3>1 DEF Recorded
    <3> QED BY <3>1, <3>2, <2>4, <1>5, <1>8
  <2> QED BY <2>1, <2>2, <2>3, <2>4, <1>8
<1> QED BY <1>1, <1>7, <1>8 DEF DataStep, Inserts

\* A transactional migration takes effect once and exactly if it is recorded,
\* with the recorded file, and no other is recorded before it took effect: in
\* any overlap of any number of runs and with any failures (executeMigration).
THEOREM RecordsAreTruthful == Spec => []RecordsTruthful
<1>1. Init => RecordsTruthful
  BY DEF Init, NoRecords, RecordsTruthful, Recorded
<1>2. RunInv /\ RecordsTruthful /\ [Next]_vars => RecordsTruthful'
  BY TruthStep
<1> QED BY <1>1, <1>2, RunAlways, PTL DEF Spec

\* Migrations are recorded in the order of a release's files, for any mix of
\* releases (runMigrations).
THEOREM RecordedInOrder == Spec => []AppliedInOrder
<1>1. Init => AppliedInOrder
  BY DEF Init, NoRecords, AppliedInOrder, Recorded
<1>2. RunInv /\ AppliedInOrder /\ [Next]_vars => AppliedInOrder'
  <2> SUFFICES ASSUME RunInv, AppliedInOrder, [Next]_vars, NEW m \in Migrations, Recorded(m)'
               PROVE  \E r \in Runners : \E i \in DOMAIN Files[r] :
                        Files[r][i] = m /\ \A j \in 1..i : Recorded(Files[r][j])'
    BY DEF AppliedInOrder, Recorded
  <2>1. TypeOK /\ DataStep /\ BehindDone
    BY NextData DEF RunInv
  <2>2. ASSUME NEW r \in Runners, NEW i \in DOMAIN Files[r], NEW j \in 1..i
        PROVE  j \in DOMAIN Files[r] /\ Files[r][j] \in Migrations
    <3>1. DOMAIN Files[r] = 1..Len(Files[r]) /\ Len(Files[r]) \in Nat
      BY FilesTyped
    <3>2. j \in DOMAIN Files[r]
      BY <3>1
    <3> QED BY <3>2, FilesTyped
  <2>3. CASE Recorded(m)
    <3>1. PICK r \in Runners : \E i \in DOMAIN Files[r] :
            Files[r][i] = m /\ \A j \in 1..i : Recorded(Files[r][j])
      BY <2>3 DEF AppliedInOrder
    <3>2. PICK i \in DOMAIN Files[r] :
            Files[r][i] = m /\ \A j \in 1..i : Recorded(Files[r][j])
      BY <3>1
    <3>3. ASSUME NEW j \in 1..i PROVE Recorded(Files[r][j])'
      BY <3>2, <2>1, <2>2, RecordsStay DEF Recorded
    <3> QED BY <3>2, <3>3
  <2>4. CASE ~Recorded(m)
    <3>1. PICK r \in Runners : pc[r] \in {"up", "recording"} /\ Inserts(r) /\ m = File(r)
      BY <2>4, <2>1 DEF DataStep, Inserts, InsertRecord, Recorded, TypeOK
    <3>2. at[r] \in DOMAIN Files[r] /\ Files[r][at[r]] = m /\ at[r] \in Nat
      BY <3>1, <2>1 DEF Inserts, FilesLeft, File, TypeOK
    <3>3. ASSUME NEW j \in 1..at[r] PROVE Recorded(Files[r][j])'
      <4>1. CASE j = at[r]
        BY <4>1, <3>2
      <4>2. CASE j < at[r]
        <5>1. FileDone(r, j)
          BY <4>2, <3>1, <3>2, <2>1, <2>2 DEF BehindDone
        <5> QED BY <5>1, <3>2, <2>1, <2>2, RecordsStay DEF FileDone, Recorded
      <4> QED BY <4>1, <4>2, <3>2
    <3> QED BY <3>2, <3>3
  <2> QED BY <2>3, <2>4
<1> QED BY <1>1, <1>2, RunAlways, PTL DEF Spec

\* A run that reports success leaves all its files recorded with their own
\* checksums, legacy ones excepted (runMigrations).
THEOREM SuccessIsApplied == Spec => []SuccessMeansApplied
<1> DEFINE AllDone(r) == \A i \in DOMAIN Files[r] : FileDone(r, i)
<1>1. Init => SuccessMeansApplied
  BY DEF Init, SuccessMeansApplied
<1>2. RunInv /\ SuccessMeansApplied /\ [Next]_vars => SuccessMeansApplied'
  <2> SUFFICES ASSUME RunInv, SuccessMeansApplied, [Next]_vars,
                      NEW r \in Runners, pc'[r] \in {"returning", "reported"}
               PROVE  \A i \in DOMAIN Files[r] : FileDone(r, i)'
    BY DEF SuccessMeansApplied, FileDone, Recorded
  <2>1. TypeOK /\ DataStep /\ TypeOK'
    BY NextData, TypeStep DEF RunInv
  <2>2. ASSUME AllDone(r) PROVE \A i \in DOMAIN Files[r] : FileDone(r, i)'
    BY <2>2, <2>1, DoneStays
  <2>3. CASE pc[r] \in {"returning", "reported"}
    <3>1. AllDone(r)
      BY <2>3 DEF SuccessMeansApplied, FileDone
    <3> QED BY <3>1, <2>2
  <2>4. CASE Return(r)
    <3>1. DOMAIN Files[r] = 1..Len(Files[r]) /\ Len(Files[r]) \in Nat
      BY FilesTyped
    <3>2. at[r] \in 1..Len(Files[r]) + 1 /\ at[r] \notin DOMAIN Files[r]
      BY <2>4, <2>1 DEF Return, FilesLeft, TypeOK
    <3>3. \A i \in DOMAIN Files[r] : i < at[r]
      BY <3>1, <3>2
    <3>4. AllDone(r)
      BY <2>4, <3>3 DEF Return, RunInv, BehindDone
    <3> QED BY <3>4, <2>2
  <2>5. ASSUME Start(r) \/ Acquire(r) \/ ReadApplied(r) \/ Skip(r) \/ Begin(r) \/ FinishUp(r)
               \/ Record(r) \/ Refuse(r) \/ Errs(r) \/ Die(r)
        PROVE  pc[r] \in {"returning", "reported"}
    BY <2>5, <2>1 DEF Start, Acquire, ReadApplied, Skip, Turn, Begin, FinishUp, Record, Refuse,
                      Errs, Die, Exit, Goto, Holding, Live, TypeOK
  <2>6. CASE Release(r)
    BY <2>6, <2>1, <2>3 DEF Release, Exit, Leaving, Goto, TypeOK
  <2>7. CASE Same(r)
    BY <2>7, <2>3 DEF Same
  <2> QED BY <2>1, <2>3, <2>4, <2>5, <2>6, <2>7, Moves DEF RunInv, Step
<1> QED BY <1>1, <1>2, RunAlways, PTL DEF Spec

-----------------------------------------------------------------------------
(* The lease. *)

\* A run that trusts its handle did so before, or has just acquired or
\* renewed it.
LEMMA Trusts ==
  ASSUME TypeOK, [Next]_vars, NEW s \in Runners, Trusting(s)'
  PROVE  Trusting(s) \/ Acquire(s) \/ Renew(s)
<1> USE DEF TypeOK, Trusting, Renews, Holding, Live, Goto, handle
<1>1. ASSUME NEW r \in Runners, Start(r) PROVE Trusting(s)
  BY <1>1 DEF Start
<1>2. ASSUME NEW r \in Runners, NEW p \in {"reported", "failed"}, Exit(r, p) PROVE Trusting(s)
  BY <1>2 DEF Exit
<1>3. ASSUME NEW r \in Runners, Step(r) PROVE Trusting(s) \/ Acquire(s)
  <2>1. CASE Acquire(r)
    BY <2>1 DEF Acquire
  <2>2. CASE ReadApplied(r) \/ Skip(r) \/ Begin(r)
    BY <2>2 DEF ReadApplied, Skip, Turn, Begin
  <2>3. CASE FinishUp(r) \/ Record(r)
    BY <2>3 DEF FinishUp, Record
  <2>4. CASE Return(r) \/ Refuse(r) \/ Errs(r)
    BY <2>4 DEF Return, Refuse, Errs
  <2>5. CASE Release(r)
    BY <2>5, <1>2 DEF Release
  <2> QED BY <1>3, <2>1, <2>2, <2>3, <2>4, <2>5 DEF Step
<1>4. ASSUME NEW r \in Runners, Die(r) PROVE Trusting(s)
  BY <1>4, <1>2 DEF Die
<1>5. ASSUME NEW r \in Runners, Heartbeat(r) \/ RenewErrs(r) PROVE Trusting(s) \/ Renew(s)
  BY <1>5 DEF Heartbeat, Renew, RenewMisses, RenewErrs, Lose
<1>6. CASE Expire \/ TtlDelete \/ UNCHANGED vars
  BY <1>6, MigratorAssumption DEF Expire, TtlDelete, vars
<1> QED BY <1>1, <1>3, <1>4, <1>5, <1>6 DEF Next

\* While s goes on trusting its handle, its lock is not deleted and does not
\* run out.
LEMMA LockStays ==
  ASSUME TypeOK, LiveHasLock, [Next]_vars,
         NEW s \in Runners, Trusting(s), Trusting(s)'
  PROVE  holder' = s /\ ~expired'
<1>1. holder = s /\ ~expired /\ holder # NoHolder /\ pc[s] \in Live
  BY MigratorAssumption DEF LiveHasLock, Trusting, Renews, Holding
<1>2. CASE UNCHANGED lock
  BY <1>1, <1>2 DEF lock
<1>3. ASSUME NEW r \in Runners, Lands(r) PROVE holder' = s /\ ~expired'
  <2>1. CASE InsertLock(r)
    BY <1>1, <2>1 DEF InsertLock
  <2>2. CASE CommitUp(r) \/ UNCHANGED lock
    BY <1>2, <2>2 DEF CommitUp
  <2>3. CASE pc[r] \in Leaving /\ DeleteLock(r)
    BY <1>1, <2>3 DEF DeleteLock, Leaving, Live
  <2> QED BY <1>3, <2>1, <2>2, <2>3 DEF Lands
<1>4. ASSUME NEW r \in Runners, Step(r) \/ Die(r) PROVE holder' = s /\ ~expired'
  <2>1. Lands(r) \/ UNCHANGED database
    BY <1>4 DEF Step, Die, Acquire, ReadApplied, Skip, Begin, FinishUp, Record,
                Return, Refuse, Errs, Release
  <2> QED BY <2>1, <1>2, <1>3 DEF database
<1>5. ASSUME NEW r \in Runners, Start(r) PROVE holder' = s /\ ~expired'
  BY <1>1, <1>5 DEF Start
<1>6. ASSUME NEW r \in Runners, Heartbeat(r) \/ RenewErrs(r) PROVE holder' = s /\ ~expired'
  BY <1>1, <1>2, <1>6 DEF Heartbeat, Renew, RenewMisses, RenewErrs, Lose, RenewLock, database
<1>7. CASE Expire
  <2>1. late'[s] = Renews(s)
    BY <1>1, <1>7 DEF Expire, TypeOK
  <2> QED BY <2>1 DEF Trusting
<1>9. CASE TtlDelete
  BY <1>1, <1>9 DEF TtlDelete
<1>8. CASE UNCHANGED vars
  BY <1>8, <1>2 DEF vars, database
<1> QED BY <1>4, <1>5, <1>6, <1>7, <1>8, <1>9 DEF Next

\* At most one run trusts its handle and is in time with its heartbeat: whatever
\* overlaps it knows that its lock is lost, or is late (acquireLock,
\* createLockHandle).
THEOREM OneRunnerTrusts == Spec => []OneTrusts
<1>1. Init => LiveHasLock
  BY DEF Init, LiveHasLock, Trusting, Renews, Holding, Live
<1>2. TypeOK /\ LiveHasLock /\ [Next]_vars => LiveHasLock'
  <2> SUFFICES ASSUME TypeOK, LiveHasLock, [Next]_vars, NEW s \in Runners, Trusting(s)'
               PROVE  holder' = s /\ ~expired'
    BY DEF LiveHasLock
  <2>1. CASE Trusting(s)
    BY <2>1, LockStays
  <2>2. CASE Acquire(s)
    BY <2>2 DEF Acquire, Lands, InsertLock, Leaving
  <2>3. CASE Renew(s)
    BY <2>3 DEF Renew, RenewLock
  <2> QED BY <2>1, <2>2, <2>3, Trusts
<1>3. LiveHasLock => OneTrusts
  BY DEF LiveHasLock, OneTrusts
<1>4. RunInv => TypeOK
  BY DEF RunInv
<1> QED BY <1>1, <1>2, <1>3, <1>4, RunAlways, PTL DEF Spec

-----------------------------------------------------------------------------
(***************************************************************************)
(* The documents of an upgrade, each with what holds of it where the       *)
(* migrations stand.                                                       *)
(***************************************************************************)
Stops == {s \in (1..9) \X (1..5) : s[2] <= Len(Schedule[s[1]])} \cup {<<10, 1>>}

\* Step k of migration i has been made, and its migration not been begun anew.
Past(i, k) == place[1] > i \/ (place[1] = i /\ place[2] > k)

StandsWhere ==
  /\ old \in {"minor", "units"} /\ old \in OldReleases
  /\ serving \in {"old", "none", "new"} /\ blocked \in BOOLEAN
  /\ place \in Stops
  /\ IF serving = "old" THEN place[1] <= 4 ELSE place[1] >= 4
  /\ old = "units" => place[1] >= 2
  /\ writes \in 0..MaxWrites /\ crashes \in 0..MaxCrashes

\* A balance: its fields are updated one by one, so that copies fall behind.
BalanceFits ==
  /\ balance \in Amount /\ ledger \in Int /\ missed \in Int
  /\ Past(1, 1) => balance.units # Absent \/ serving # "old"
  /\ Past(2, 1) => balance.micros # Absent
  /\ serving = "old" =>
       /\ balance[old] # Absent
       /\ ledger = balance[old] * F
       /\ old = "units" => balance.minor = Absent
       /\ (IF old = "minor" THEN balance.units ELSE balance.micros) = Absent => missed = 0
       /\ old = "minor" /\ balance.units = Absent => balance.micros = Absent
       /\ old = "minor" /\ balance.units # Absent => balance.units + missed = balance.minor
       /\ old = "minor" /\ balance.micros # Absent => balance.micros = balance.units * F
  /\ OnlyLateWritesLost

\* An amount that is written whole: the fields it has are of one amount.
Agrees(d) ==
  /\ d \in Amount
  /\ d.minor # Absent /\ d.units # Absent => d.minor = d.units
  /\ d.units # Absent /\ d.micros # Absent => d.micros = d.units * F
  /\ d.minor # Absent /\ d.micros # Absent => d.micros = d.minor * F
  /\ d.minor # Absent \/ d.units # Absent \/ d.micros # Absent

AmountFits(d) ==
  /\ Agrees(d)
  /\ serving = "old" => d[old] # Absent /\ (old = "units" => d.minor = Absent)
  /\ Past(7, 1) /\ d.minor # Absent => d.units # Absent
  /\ Past(7, 2) => d.minor = Absent
  /\ Past(9, 1) => d.micros # Absent

RulesFit ==
  /\ rules \in [1..2 -> Rule] /\ capped \in Int /\ resaved \in BOOLEAN
  /\ rules[1].dim # "tokens"
  /\ rules[1].dim = "spend_micros" => ~rules[1].scaled
  /\ Past(7, 3) => rules[1].dim # "spend_minor"
  /\ Past(9, 3) => rules[1].dim = "spend_micros"
  /\ CapsScaledOnce

BucketFits ==
  /\ bucket \in Amount /\ spent \in Int
  /\ bucket.minor = Absent \/ (bucket.units = Absent /\ old = "minor")
  /\ serving = "old" /\ old = "minor" => bucket.units = Absent
  /\ Past(7, 3) => bucket.minor = Absent
  /\ Past(9, 4) => bucket.units = Absent
  /\ SpendConserved

Entry == [id : DOMAIN Catalog, price : Amount,
          cost : {Nobody, "units", "micros"} \cup {Catalog[e] : e \in DOMAIN Catalog}]

EntriesFit ==
  /\ entries \in [1..2 -> Entry]
  /\ \A i \in 1..2 : AmountFits(entries[i].price)
  /\ CostOfItsEntry

MetadataFit ==
  \A m \in DOMAIN metadata :
    /\ metadata[m] # Nobody => metadata[m] \subseteq ValueKinds
    /\ Past(6, 1) => metadata[m] \subseteq {"text"}

CustomersFit ==
  /\ indexed \in BOOLEAN
  /\ customers \in Seq(CustomerRow)
  /\ \A i \in DOMAIN customers : customers[i].age \in 1..Len(customers)
  /\ \A i, j \in DOMAIN customers : customers[i].age = customers[j].age => i = j
  /\ ~Past(4, 1) => \A i \in DOMAIN customers : customers[i].email \in Address
  /\ DisplacedHasOwner

\* The addresses of users are unique as they are stored, and whoever signed
\* up since the upgrade has one in lower case.
UsersFit ==
  /\ users \in Seq(Address) /\ Len(users) > 0
  /\ \A i, j \in DOMAIN users : users[i] = users[j] => i = j
  /\ \A i \in DOMAIN users : i # 1 \/ Past(8, 2) => users[i].lower
  /\ Past(8, 1) /\ ~Past(8, 2) => 1 \in DOMAIN seen

DataInv ==
  /\ StandsWhere /\ BalanceFits /\ AmountFits(price) /\ RulesFit /\ BucketFits
  /\ EntriesFit /\ MetadataFit /\ CustomersFit /\ UsersFit

-----------------------------------------------------------------------------
(* Where the migrations stand.                                             *)
LEMMA FactorPositive == F \in Nat /\ F > 0
BY FactorAssumption, CurrencyAssumption DEF F

LEMMA AbsentNoAmount == \A n \in Int : n # Absent
BY AbsentAssumption

LEMMA Ladder ==
  /\ Len(Schedule) = 9
  /\ Schedule[1] = <<"copy_units", "record">>
  /\ Schedule[2] = <<"copy_micros", "scale_caps", "record">>
  /\ Schedule[3] = <<"read_entries", "write_entries", "record">>
  /\ Schedule[4] = <<"customer_emails">>
  /\ Schedule[5] = <<"email_index", "record">>
  /\ Schedule[6] = <<"metadata">>
  /\ Schedule[7] = <<"resync_units", "drop_minor", "rename_minor", "record">>
  /\ Schedule[8] = <<"read_users", "write_users", "record">>
  /\ Schedule[9] = <<"promote_micros", "drop_units", "finalize_rules", "finalize_counters", "record">>
BY DEF Schedule, Pre, Post

Stop(i, k) == place[1] = i /\ place[2] = k

LEMMA Standing ==
  ASSUME StandsWhere
  PROVE  /\ place = <<place[1], place[2]>> /\ place[1] \in 1..10 /\ place[2] \in 1..5
         /\ place[1] # 10 => place[2] \in 1..Len(Schedule[place[1]])
         /\ place[1] = 10 => place[2] = 1
         /\ Done <=> place[1] = 10
         /\ PreApplied <=> place[1] > 3
<1>1. Len(Pre) = 3
  BY DEF Pre
<1>2. Done <=> place[1] > 9
  BY Ladder DEF Done
<1>3. CASE place = <<10, 1>>
  BY <1>1, <1>2, <1>3 DEF PreApplied
<1>4. CASE place # <<10, 1>>
  <2>1. place \in (1..9) \X (1..5) /\ place[2] <= Len(Schedule[place[1]])
    BY <1>4 DEF StandsWhere, Stops
  <2> QED BY <2>1, <1>1, <1>2 DEF PreApplied
<1> QED BY <1>3, <1>4

LEMMA Rungs ==
  /\ Len(Schedule[1]) = 2 /\ Schedule[1][1] = "copy_units" /\ Schedule[1][2] = "record"
  /\ Len(Schedule[2]) = 3 /\ Schedule[2][1] = "copy_micros" /\ Schedule[2][2] = "scale_caps"
                           /\ Schedule[2][3] = "record"
  /\ Len(Schedule[3]) = 3 /\ Schedule[3][1] = "read_entries" /\ Schedule[3][2] = "write_entries"
                           /\ Schedule[3][3] = "record"
  /\ Len(Schedule[4]) = 1 /\ Schedule[4][1] = "customer_emails"
  /\ Len(Schedule[5]) = 2 /\ Schedule[5][1] = "email_index" /\ Schedule[5][2] = "record"
  /\ Len(Schedule[6]) = 1 /\ Schedule[6][1] = "metadata"
  /\ Len(Schedule[7]) = 4 /\ Schedule[7][1] = "resync_units" /\ Schedule[7][2] = "drop_minor"
                           /\ Schedule[7][3] = "rename_minor" /\ Schedule[7][4] = "record"
  /\ Len(Schedule[8]) = 3 /\ Schedule[8][1] = "read_users" /\ Schedule[8][2] = "write_users"
                           /\ Schedule[8][3] = "record"
  /\ Len(Schedule[9]) = 5 /\ Schedule[9][1] = "promote_micros"
                           /\ Schedule[9][2] = "drop_units" /\ Schedule[9][3] = "finalize_rules"
                           /\ Schedule[9][4] = "finalize_counters" /\ Schedule[9][5] = "record"
BY Ladder

LEMMA Lengths ==
  /\ Len(Schedule[1]) = 2 /\ Len(Schedule[2]) = 3 /\ Len(Schedule[3]) = 3
  /\ Len(Schedule[4]) = 1 /\ Len(Schedule[5]) = 2 /\ Len(Schedule[6]) = 1
  /\ Len(Schedule[7]) = 4 /\ Len(Schedule[8]) = 3 /\ Len(Schedule[9]) = 5
  /\ \A i \in 1..9 : Len(Schedule[i]) \in 1..5
<1>1. /\ Len(Schedule[1]) = 2 /\ Len(Schedule[2]) = 3 /\ Len(Schedule[3]) = 3
      /\ Len(Schedule[4]) = 1 /\ Len(Schedule[5]) = 2 /\ Len(Schedule[6]) = 1
      /\ Len(Schedule[7]) = 4 /\ Len(Schedule[8]) = 3 /\ Len(Schedule[9]) = 5
  BY Rungs
<1>2. \A i \in 1..9 : i = 1 \/ i = 2 \/ i = 3 \/ i = 4 \/ i = 5 \/ i = 6 \/ i = 7 \/ i = 8 \/ i = 9
  OBVIOUS
<1> QED BY <1>1, <1>2

\* What is run next is one of these.
LEMMA AllStops ==
  ASSUME StandsWhere, ~Done
  PROVE  \/ Stop(1, 1) \/ Stop(1, 2)
         \/ Stop(2, 1) \/ Stop(2, 2) \/ Stop(2, 3)
         \/ Stop(3, 1) \/ Stop(3, 2) \/ Stop(3, 3)
         \/ Stop(4, 1)
         \/ Stop(5, 1) \/ Stop(5, 2)
         \/ Stop(6, 1)
         \/ Stop(7, 1) \/ Stop(7, 2) \/ Stop(7, 3) \/ Stop(7, 4)
         \/ Stop(8, 1) \/ Stop(8, 2) \/ Stop(8, 3)
         \/ Stop(9, 1) \/ Stop(9, 2) \/ Stop(9, 3) \/ Stop(9, 4) \/ Stop(9, 5)
<1>1. place[1] \in 1..9 /\ place[2] \in 1..Len(Schedule[place[1]])
  BY Standing
<1>2. \/ place[1] = 1 /\ place[2] \in 1..2
      \/ place[1] \in {2, 3, 8} /\ place[2] \in 1..3
      \/ place[1] \in {4, 6} /\ place[2] = 1
      \/ place[1] = 5 /\ place[2] \in 1..2
      \/ place[1] = 7 /\ place[2] \in 1..4
      \/ place[1] = 9 /\ place[2] \in 1..5
  <2>1. place[1] = 1 => place[2] \in 1..2
    <3> SUFFICES ASSUME place[1] = 1 PROVE place[2] \in 1..2
      OBVIOUS
    <3>1. Len(Schedule[place[1]]) = 2
      BY Rungs
    <3> QED BY <3>1, <1>1
  <2>2. place[1] = 2 => place[2] \in 1..3
    <3> SUFFICES ASSUME place[1] = 2 PROVE place[2] \in 1..3
      OBVIOUS
    <3>1. Len(Schedule[place[1]]) = 3
      BY Rungs
    <3> QED BY <3>1, <1>1
  <2>3. place[1] = 3 => place[2] \in 1..3
    <3> SUFFICES ASSUME place[1] = 3 PROVE place[2] \in 1..3
      OBVIOUS
    <3>1. Len(Schedule[place[1]]) = 3
      BY Rungs
    <3> QED BY <3>1, <1>1
  <2>4. place[1] = 4 => place[2] \in 1..1
    <3> SUFFICES ASSUME place[1] = 4 PROVE place[2] \in 1..1
      OBVIOUS
    <3>1. Len(Schedule[place[1]]) = 1
      BY Rungs
    <3> QED BY <3>1, <1>1
  <2>5. place[1] = 5 => place[2] \in 1..2
    <3> SUFFICES ASSUME place[1] = 5 PROVE place[2] \in 1..2
      OBVIOUS
    <3>1. Len(Schedule[place[1]]) = 2
      BY Rungs
    <3> QED BY <3>1, <1>1
  <2>6. place[1] = 6 => place[2] \in 1..1
    <3> SUFFICES ASSUME place[1] = 6 PROVE place[2] \in 1..1
      OBVIOUS
    <3>1. Len(Schedule[place[1]]) = 1
      BY Rungs
    <3> QED BY <3>1, <1>1
  <2>7. place[1] = 7 => place[2] \in 1..4
    <3> SUFFICES ASSUME place[1] = 7 PROVE place[2] \in 1..4
      OBVIOUS
    <3>1. Len(Schedule[place[1]]) = 4
      BY Rungs
    <3> QED BY <3>1, <1>1
  <2>8. place[1] = 8 => place[2] \in 1..3
    <3> SUFFICES ASSUME place[1] = 8 PROVE place[2] \in 1..3
      OBVIOUS
    <3>1. Len(Schedule[place[1]]) = 3
      BY Rungs
    <3> QED BY <3>1, <1>1
  <2>9. place[1] = 9 => place[2] \in 1..5
    <3> SUFFICES ASSUME place[1] = 9 PROVE place[2] \in 1..5
      OBVIOUS
    <3>1. Len(Schedule[place[1]]) = 5
      BY Rungs
    <3> QED BY <3>1, <1>1
  <2> QED BY <1>1, <2>1, <2>2, <2>3, <2>4, <2>5, <2>6, <2>7, <2>8, <2>9
<1> QED BY <1>2 DEF Stop

\* Each step has its place.
LEMMA Places ==
  ASSUME StandsWhere
  PROVE  /\ At("copy_units") => Stop(1, 1)
         /\ At("copy_micros") => Stop(2, 1)
         /\ At("scale_caps") => Stop(2, 2)
         /\ At("read_entries") => Stop(3, 1)
         /\ At("write_entries") => Stop(3, 2)
         /\ At("customer_emails") => Stop(4, 1)
         /\ At("email_index") => Stop(5, 1)
         /\ At("metadata") => Stop(6, 1)
         /\ At("resync_units") => Stop(7, 1)
         /\ At("drop_minor") => Stop(7, 2)
         /\ At("rename_minor") => Stop(7, 3)
         /\ At("read_users") => Stop(8, 1)
         /\ At("write_users") => Stop(8, 2)
         /\ At("promote_micros") => Stop(9, 1)
         /\ At("drop_units") => Stop(9, 2)
         /\ At("finalize_rules") => Stop(9, 3)
         /\ At("finalize_counters") => Stop(9, 4)
         /\ At("record") => \/ Stop(1, 2) \/ Stop(2, 3) \/ Stop(3, 3) \/ Stop(5, 2)
                           \/ Stop(7, 4) \/ Stop(8, 3) \/ Stop(9, 5)
BY AllStops, Rungs DEF Stop, At

\* The migrations stand where they stood, go on, or begin one anew; what
\* serves is stopped after the first part of them, and never started again.
Back == place' = <<place[1], 1>>
Onward == NextStep /\ ~Done

\* A step that is past is past already, or is the one just made.
LEMMA PastGrows ==
  ASSUME StandsWhere, Onward, NEW i \in 1..9, NEW k \in 1..Len(Schedule[i]), Past(i, k)'
  PROVE  Past(i, k) \/ Stop(i, k)
<1>1. place' = IF place[2] < Len(Schedule[place[1]]) THEN <<place[1], place[2] + 1>>
                                                    ELSE <<place[1] + 1, 1>>
  BY DEF Onward, NextStep
<1>2. place[1] \in 1..9 /\ place[2] \in 1..Len(Schedule[place[1]]) /\ Len(Schedule[i]) \in Nat
      /\ Len(Schedule[place[1]]) \in Nat
  BY Standing, Lengths DEF Onward
<1>3. CASE place[2] < Len(Schedule[place[1]])
  BY <1>1, <1>2, <1>3 DEF Past, Stop
<1>4. CASE ~(place[2] < Len(Schedule[place[1]])) /\ place[1] = i
  BY <1>1, <1>2, <1>4 DEF Past, Stop
<1>5. CASE ~(place[2] < Len(Schedule[place[1]])) /\ place[1] # i
  BY <1>1, <1>2, <1>5 DEF Past, Stop
<1> QED BY <1>3, <1>4, <1>5

LEMMA BackForgets ==
  ASSUME StandsWhere, Back, NEW i \in 1..9, NEW k \in 1..Len(Schedule[i]), Past(i, k)'
  PROVE  Past(i, k)
<1>1. place[2] \in 1..5 /\ place[1] \in 1..10 /\ Len(Schedule[i]) \in Nat
  BY Standing, Lengths
<1> QED BY <1>1 DEF Back, Past

LEMMA MigrationTurns ==
  ASSUME StandsWhere, MigrationStep
  PROVE  /\ Onward \/ Back
         /\ ~Done /\ UNCHANGED <<old, serving, writes, crashes>> /\ blocked' \in BOOLEAN
         /\ IF PreApplied THEN serving # "old" ELSE serving = "old"
<1> USE DEF StepEnds, At, Onward, Back, NextStep, Refused
<1>1. CASE RecordStep \/ CopyUnitsStep \/ CopyMicrosStep \/ ScaleCapsStep \/ ReadEntries
             \/ WriteEntries
  BY <1>1 DEF RecordStep, CopyUnitsStep, CopyMicrosStep, ScaleCapsStep, ReadEntries, WriteEntries
<1>2. CASE CustomerEmails \/ EmailIndex \/ MetadataStep \/ ResyncUnitsStep \/ DropMinorStep
             \/ RenameMinorStep
  BY <1>2 DEF CustomerEmails, EmailIndex, MetadataStep, ResyncUnitsStep, DropMinorStep,
     RenameMinorStep
<1>3. CASE ReadUsers \/ WriteUsers
  BY <1>3 DEF ReadUsers, WriteUsers
<1>4. CASE PromoteMicrosStep \/ DropUnitsStep \/ FinalizeRulesStep \/ FinalizeCounters
  BY <1>4 DEF PromoteMicrosStep, DropUnitsStep, FinalizeRulesStep, FinalizeCounters
<1> QED BY <1>1, <1>2, <1>3, <1>4 DEF MigrationStep

LEMMA WritesStay ==
  ASSUME OldWrite \/ NewWrite
  PROVE  /\ UNCHANGED <<old, serving, run, crashes>>
         /\ writes < MaxWrites /\ writes' = writes + 1
         /\ (OldWrite /\ serving = "old") \/ (NewWrite /\ serving = "new")
<1> USE DEF Write, run
<1>1. CASE OldWrite
  <2>1. OldBalanceInc => Write("old")
    BY DEF OldBalanceInc
  <2>2. OldPriceSet => Write("old")
    BY DEF OldPriceSet
  <2>3. OldRuleSet => Write("old")
    BY DEF OldRuleSet
  <2>4. OldSpend => Write("old")
    BY DEF OldSpend
  <2>5. OldEntriesSave => Write("old")
    BY DEF OldEntriesSave
  <2> QED BY <1>1, <2>1, <2>2, <2>3, <2>4, <2>5 DEF OldWrite
<1>2. CASE NewWrite
  <2>1. NewBalanceInc => Write("new")
    BY DEF NewBalanceInc
  <2>2. NewPriceSet => Write("new")
    BY DEF NewPriceSet
  <2>3. NewRuleSave => Write("new")
    BY DEF NewRuleSave
  <2>4. NewSpend => Write("new")
    BY DEF NewSpend
  <2>5. NewEntriesSave => Write("new")
    BY DEF NewEntriesSave
  <2>6. NewCustomer => Write("new")
    BY DEF NewCustomer
  <2>7. NewSignup => Write("new")
    BY DEF NewSignup
  <2> QED BY <1>2, <2>1, <2>2, <2>3, <2>4, <2>5, <2>6, <2>7 DEF NewWrite
<1> QED BY <1>1, <1>2

LEMMA Climb ==
  ASSUME NEW i \in 1..9, NEW k \in 1..5, k <= Len(Schedule[i])
  PROVE  /\ k < Len(Schedule[i]) => <<i, k + 1>> \in Stops
         /\ <<i + 1, 1>> \in Stops /\ <<i, 1>> \in Stops
<1>1. \A j \in 1..9 : \A m \in 1..5 : m <= Len(Schedule[j]) => <<j, m>> \in Stops
  BY DEF Stops
<1>2. PICK n \in 1..5 : n = Len(Schedule[i])
  BY Lengths
<1>3. ASSUME k < Len(Schedule[i]) PROVE <<i, k + 1>> \in Stops
  <2>1. k < n
    BY <1>2, <1>3
  <2>2. k + 1 \in 1..5 /\ k + 1 <= n
    BY <2>1
  <2> QED BY <1>1, <1>2, <2>2
<1>4. <<i, 1>> \in Stops
  <2>1. 1 \in 1..5 /\ 1 <= n
    BY <1>2
  <2> QED BY <1>1, <1>2, <2>1
<1>5. <<i + 1, 1>> \in Stops
  <2>1. CASE i = 9
    BY <2>1 DEF Stops
  <2>2. CASE i # 9
    <3>1. i + 1 \in 1..9
      BY <2>2
    <3>2. PICK m \in 1..5 : m = Len(Schedule[i + 1])
      BY <3>1, Lengths
    <3>3. 1 \in 1..5 /\ 1 <= m
      OBVIOUS
    <3> QED BY <1>1, <3>1, <3>2, <3>3
  <2> QED BY <2>1, <2>2
<1> QED BY <1>3, <1>4, <1>5

LEMMA PlaceMoves ==
  ASSUME StandsWhere, ~Done, Onward \/ Back
  PROVE  place' \in Stops /\ place'[1] \in {place[1], place[1] + 1}
<1>1. place[1] \in 1..9 /\ place[2] \in 1..5 /\ place[2] <= Len(Schedule[place[1]])
  BY Standing, Lengths
<1>2. /\ place[2] < Len(Schedule[place[1]]) => <<place[1], place[2] + 1>> \in Stops
      /\ <<place[1] + 1, 1>> \in Stops /\ <<place[1], 1>> \in Stops
  BY <1>1, Climb
<1>3. CASE Back
  BY <1>1, <1>2, <1>3 DEF Back
<1>4. CASE Onward /\ place[2] < Len(Schedule[place[1]])
  BY <1>1, <1>2, <1>4 DEF Onward, NextStep
<1>5. CASE Onward /\ ~(place[2] < Len(Schedule[place[1]]))
  BY <1>1, <1>2, <1>5 DEF Onward, NextStep
<1> QED BY <1>3, <1>4, <1>5

LEMMA StandsStep == StandsWhere /\ [UpgradeNext]_upgradeVars => StandsWhere'
<1> SUFFICES ASSUME StandsWhere, [UpgradeNext]_upgradeVars PROVE StandsWhere'
  OBVIOUS
<1>1. CASE MigrationStep
  <2>1. /\ ~Done /\ UNCHANGED <<old, serving, writes, crashes>> /\ blocked' \in BOOLEAN
        /\ IF place[1] > 3 THEN serving # "old" ELSE serving = "old"
        /\ place[1] \in 1..9
    BY <1>1, MigrationTurns, Standing
  <2>2. place' \in Stops /\ place'[1] \in {place[1], place[1] + 1}
    BY <1>1, <2>1, MigrationTurns, PlaceMoves
  <2> QED BY <2>1, <2>2 DEF StandsWhere
<1>2. CASE Crash
  <2>1. /\ ~Done /\ Back /\ blocked' = FALSE /\ UNCHANGED <<old, serving, writes>>
        /\ crashes < MaxCrashes /\ crashes' = crashes + 1
    BY <1>2 DEF Crash, Back
  <2>2. place' \in Stops /\ place'[1] = place[1]
    <3>1. place' \in Stops
      BY <2>1, PlaceMoves
    <3> QED BY <3>1, <2>1 DEF Back
  <2>3. crashes' \in 0..MaxCrashes
    BY <2>1, BoundAssumption DEF StandsWhere
  <2> QED BY <2>1, <2>2, <2>3 DEF StandsWhere
<1>3. CASE StopOld \/ StartNew
  BY <1>3, Standing DEF StandsWhere, StopOld, StartNew, run
<1>4. CASE OldWrite \/ NewWrite
  <2>1. writes' \in 0..MaxWrites
    BY <1>4, WritesStay, BoundAssumption DEF StandsWhere
  <2> QED BY <1>4, <2>1, WritesStay DEF StandsWhere, run
<1>5. CASE UNCHANGED upgradeVars
  BY <1>5 DEF StandsWhere, upgradeVars, run
<1> QED BY <1>1, <1>2, <1>3, <1>4, <1>5 DEF UpgradeNext

-----------------------------------------------------------------------------
(* What a step of the whole does to where things stand, and which documents *)
(* it leaves alone.                                                         *)
AmountStep == \/ CopyUnitsStep \/ CopyMicrosStep \/ ResyncUnitsStep \/ DropMinorStep
              \/ PromoteMicrosStep \/ DropUnitsStep

\* At its place only the step of that place is run.
LEMMA StopSteps ==
  ASSUME StandsWhere, MigrationStep
  PROVE  /\ Stop(1, 1) <=> CopyUnitsStep
         /\ Stop(2, 1) <=> CopyMicrosStep
         /\ Stop(2, 2) <=> ScaleCapsStep
         /\ Stop(3, 2) <=> WriteEntries
         /\ Stop(4, 1) <=> CustomerEmails
         /\ Stop(5, 1) <=> EmailIndex
         /\ Stop(6, 1) <=> MetadataStep
         /\ Stop(7, 1) <=> ResyncUnitsStep
         /\ Stop(7, 2) <=> DropMinorStep
         /\ Stop(7, 3) <=> RenameMinorStep
         /\ Stop(8, 1) <=> ReadUsers
         /\ Stop(8, 2) <=> WriteUsers
         /\ Stop(9, 1) <=> PromoteMicrosStep
         /\ Stop(9, 2) <=> DropUnitsStep
         /\ Stop(9, 3) <=> FinalizeRulesStep
         /\ Stop(9, 4) <=> FinalizeCounters
<1>1. /\ CopyUnitsStep => Stop(1, 1)
      /\ CopyMicrosStep => Stop(2, 1)
      /\ ScaleCapsStep => Stop(2, 2)
      /\ ReadEntries => Stop(3, 1)
      /\ WriteEntries => Stop(3, 2)
      /\ CustomerEmails => Stop(4, 1)
      /\ EmailIndex => Stop(5, 1)
      /\ MetadataStep => Stop(6, 1)
  BY Places DEF CopyUnitsStep, CopyMicrosStep, ScaleCapsStep, ReadEntries, WriteEntries,
     CustomerEmails, EmailIndex, MetadataStep
<1>2. /\ ResyncUnitsStep => Stop(7, 1)
      /\ DropMinorStep => Stop(7, 2)
      /\ RenameMinorStep => Stop(7, 3)
      /\ ReadUsers => Stop(8, 1)
      /\ WriteUsers => Stop(8, 2)
      /\ PromoteMicrosStep => Stop(9, 1)
      /\ DropUnitsStep => Stop(9, 2)
      /\ FinalizeRulesStep => Stop(9, 3)
      /\ FinalizeCounters => Stop(9, 4)
  BY Places DEF ResyncUnitsStep, DropMinorStep, RenameMinorStep, ReadUsers, WriteUsers,
     PromoteMicrosStep, DropUnitsStep, FinalizeRulesStep, FinalizeCounters
<1>3. RecordStep => \/ Stop(1, 2) \/ Stop(2, 3) \/ Stop(3, 3) \/ Stop(5, 2)
                    \/ Stop(7, 4) \/ Stop(8, 3) \/ Stop(9, 5)
  BY Places DEF RecordStep
<1> HIDE DEF Stop
<1>4. \A i, k, j, m \in Int : Stop(i, k) /\ Stop(j, m) => i = j /\ k = m
  BY DEF Stop
<1> QED
  <2>1. \/ RecordStep
        \/ CopyUnitsStep \/ CopyMicrosStep \/ ScaleCapsStep \/ ReadEntries \/ WriteEntries
        \/ CustomerEmails \/ EmailIndex \/ MetadataStep
        \/ ResyncUnitsStep \/ DropMinorStep \/ RenameMinorStep
        \/ ReadUsers \/ WriteUsers
        \/ PromoteMicrosStep \/ DropUnitsStep \/ FinalizeRulesStep \/ FinalizeCounters
    BY DEF MigrationStep
  <2> QED BY <1>1, <1>2, <1>3, <2>1 DEF Stop

\* What is past was past before, unless a migration just went on from there.
LEMMA PastStays ==
  ASSUME StandsWhere, [UpgradeNext]_upgradeVars, NEW i \in 1..9, NEW k \in 1..Len(Schedule[i]),
         Past(i, k)', ~Past(i, k)
  PROVE  MigrationStep /\ Stop(i, k) /\ NextStep
<1>1. CASE MigrationStep
  BY <1>1, MigrationTurns, PastGrows, BackForgets DEF Onward
<1>2. CASE Crash
  <2>1. Back
    BY <1>2 DEF Crash, Back
  <2> QED BY <2>1, BackForgets
<1>3. CASE StopOld \/ StartNew \/ UNCHANGED upgradeVars
  <2>1. place' = place
    BY <1>3 DEF StopOld, StartNew, upgradeVars, run
  <2> QED BY <2>1 DEF Past
<1>4. CASE OldWrite \/ NewWrite
  <2>1. place' = place
    BY <1>4, WritesStay DEF run
  <2> QED BY <2>1 DEF Past
<1> QED BY <1>1, <1>2, <1>3, <1>4 DEF UpgradeNext

\* No migration is undone, and the old release never serves again.
LEMMA NoReturn ==
  ASSUME StandsWhere, [UpgradeNext]_upgradeVars
  PROVE  /\ place'[1] \in {place[1], place[1] + 1} /\ old' = old
         /\ serving' = "old" => serving = "old"
<1>1. CASE MigrationStep
  BY <1>1, MigrationTurns, PlaceMoves
<1>2. CASE Crash
  <2>1. Back /\ ~Done /\ UNCHANGED <<old, serving>>
    BY <1>2 DEF Crash, Back
  <2> QED BY <2>1 DEF Back
<1>3. CASE StopOld \/ StartNew \/ UNCHANGED upgradeVars
  BY <1>3 DEF StopOld, StartNew, upgradeVars, run
<1>4. CASE OldWrite \/ NewWrite
  BY <1>4, WritesStay DEF run
<1> QED BY <1>1, <1>2, <1>3, <1>4 DEF UpgradeNext

LEMMA Untouched ==
  ASSUME [UpgradeNext]_upgradeVars
  PROVE  /\ AmountStep \/ OldBalanceInc \/ NewBalanceInc \/ UNCHANGED <<balance, ledger, missed>>
         /\ AmountStep \/ OldPriceSet \/ NewPriceSet \/ UNCHANGED price
         /\ AmountStep \/ WriteEntries \/ OldEntriesSave \/ NewEntriesSave \/ UNCHANGED entries
         /\ ScaleCapsStep \/ RenameMinorStep \/ FinalizeRulesStep \/ OldRuleSet \/ NewRuleSave
            \/ UNCHANGED <<rules, capped, resaved>>
         /\ RenameMinorStep \/ FinalizeCounters \/ OldSpend \/ NewSpend \/ UNCHANGED <<bucket, spent>>
         /\ MetadataStep \/ UNCHANGED metadata
         /\ CustomerEmails \/ EmailIndex \/ NewCustomer \/ UNCHANGED <<customers, indexed>>
         /\ WriteUsers \/ NewSignup \/ UNCHANGED users
<1> USE DEF money, repairs, ghosts
<1>1. CASE AmountStep
  <2>1. UNCHANGED <<rules, bucket, customers, users, metadata, indexed, ghosts>>
    BY <1>1 DEF AmountStep, StepEnds, CopyUnitsStep, CopyMicrosStep, ResyncUnitsStep,
       DropMinorStep, PromoteMicrosStep, DropUnitsStep
  <2> QED BY <1>1, <2>1
<1>2. CASE RecordStep \/ ReadEntries
  BY <1>2 DEF RecordStep, ReadEntries, StepEnds
<1>3. CASE ScaleCapsStep
  BY <1>3 DEF ScaleCapsStep, StepEnds
<1>4. CASE WriteEntries
  BY <1>4 DEF WriteEntries, StepEnds
<1>5. CASE CustomerEmails
  BY <1>5 DEF CustomerEmails, StepEnds
<1>6. CASE EmailIndex
  BY <1>6 DEF EmailIndex, StepEnds
<1>7. CASE MetadataStep
  BY <1>7 DEF MetadataStep, StepEnds
<1>8. CASE RenameMinorStep
  BY <1>8 DEF RenameMinorStep, StepEnds
<1>9. CASE ReadUsers
  BY <1>9 DEF ReadUsers
<1>10. CASE WriteUsers
  BY <1>10 DEF WriteUsers
<1>11. CASE FinalizeRulesStep
  BY <1>11 DEF FinalizeRulesStep, StepEnds
<1>12. CASE FinalizeCounters
  BY <1>12 DEF FinalizeCounters, StepEnds
<1>13. CASE Crash \/ StopOld \/ StartNew
  BY <1>13 DEF Crash, StopOld, StartNew
<1>14. CASE OldWrite
  BY <1>14 DEF OldWrite, OldBalanceInc, OldPriceSet, OldRuleSet, OldSpend, OldEntriesSave
<1>15. CASE NewBalanceInc \/ NewPriceSet \/ NewRuleSave \/ NewSpend \/ NewEntriesSave
  BY <1>15 DEF NewBalanceInc, NewPriceSet, NewRuleSave, NewSpend, NewEntriesSave
<1>16. CASE NewCustomer
  BY <1>16 DEF NewCustomer
<1>17. CASE NewSignup
  BY <1>17 DEF NewSignup
<1>18. CASE UNCHANGED upgradeVars
  BY <1>18 DEF upgradeVars
<1> QED BY <1>1, <1>2, <1>3, <1>4, <1>5, <1>6, <1>7, <1>8, <1>9, <1>10, <1>11, <1>12, <1>13,
           <1>14, <1>15, <1>16, <1>17, <1>18
        DEF UpgradeNext, MigrationStep, AmountStep, NewWrite

LEMMA NewlyPast ==
  ASSUME StandsWhere, [UpgradeNext]_upgradeVars
  PROVE  /\ Past(1, 1)' => Past(1, 1) \/ CopyUnitsStep
         /\ Past(2, 1)' => Past(2, 1) \/ CopyMicrosStep
         /\ Past(4, 1)' => Past(4, 1) \/ CustomerEmails
         /\ Past(6, 1)' => Past(6, 1) \/ (MetadataStep /\ NextStep)
         /\ Past(7, 1)' => Past(7, 1) \/ ResyncUnitsStep
         /\ Past(7, 2)' => Past(7, 2) \/ DropMinorStep
         /\ Past(7, 3)' => Past(7, 3) \/ RenameMinorStep
         /\ Past(8, 1)' => Past(8, 1) \/ (ReadUsers /\ NextStep)
         /\ Past(8, 2)' => Past(8, 2) \/ (WriteUsers /\ NextStep)
         /\ Past(9, 1)' => Past(9, 1) \/ PromoteMicrosStep
         /\ Past(9, 3)' => Past(9, 3) \/ FinalizeRulesStep
         /\ Past(9, 4)' => Past(9, 4) \/ (FinalizeCounters /\ NextStep)
<1>1. \A i \in 1..9 : \A k \in 1..Len(Schedule[i]) :
         Past(i, k)' => Past(i, k) \/ (MigrationStep /\ Stop(i, k) /\ NextStep)
  BY PastStays
<1>2. /\ 1 \in 1..9 /\ 1 \in 1..Len(Schedule[1])
      /\ 2 \in 1..9 /\ 1 \in 1..Len(Schedule[2])
      /\ 4 \in 1..9 /\ 1 \in 1..Len(Schedule[4])
      /\ 6 \in 1..9 /\ 1 \in 1..Len(Schedule[6])
      /\ 7 \in 1..9 /\ {1, 2, 3} \subseteq 1..Len(Schedule[7])
      /\ 8 \in 1..9 /\ {1, 2} \subseteq 1..Len(Schedule[8])
      /\ 9 \in 1..9 /\ {1, 3, 4} \subseteq 1..Len(Schedule[9])
  BY Lengths
<1>3. /\ Past(1, 1)' => Past(1, 1) \/ (MigrationStep /\ Stop(1, 1))
      /\ Past(2, 1)' => Past(2, 1) \/ (MigrationStep /\ Stop(2, 1))
      /\ Past(4, 1)' => Past(4, 1) \/ (MigrationStep /\ Stop(4, 1))
      /\ Past(6, 1)' => Past(6, 1) \/ (MigrationStep /\ Stop(6, 1) /\ NextStep)
  BY <1>1, <1>2
<1>4. /\ Past(7, 1)' => Past(7, 1) \/ (MigrationStep /\ Stop(7, 1))
      /\ Past(7, 2)' => Past(7, 2) \/ (MigrationStep /\ Stop(7, 2))
      /\ Past(7, 3)' => Past(7, 3) \/ (MigrationStep /\ Stop(7, 3))
  BY <1>1, <1>2
<1>5. /\ Past(8, 1)' => Past(8, 1) \/ (MigrationStep /\ Stop(8, 1) /\ NextStep)
      /\ Past(8, 2)' => Past(8, 2) \/ (MigrationStep /\ Stop(8, 2) /\ NextStep)
  BY <1>1, <1>2
<1>6. /\ Past(9, 1)' => Past(9, 1) \/ (MigrationStep /\ Stop(9, 1))
      /\ Past(9, 3)' => Past(9, 3) \/ (MigrationStep /\ Stop(9, 3))
      /\ Past(9, 4)' => Past(9, 4) \/ (MigrationStep /\ Stop(9, 4) /\ NextStep)
  BY <1>1, <1>2
<1> QED BY <1>3, <1>4, <1>5, <1>6, StopSteps

\* Who serves at each step, and what is past by then.
LEMMA Order ==
  ASSUME StandsWhere
  PROVE  /\ serving = "old" => ~Past(4, 1) /\ ~Past(6, 1) /\ ~Past(7, 1) /\ ~Past(7, 2) /\ ~Past(7, 3)
                               /\ ~Past(8, 1) /\ ~Past(8, 2)
                               /\ ~Past(9, 1) /\ ~Past(9, 3) /\ ~Past(9, 4)
         /\ serving # "old" => Past(1, 1) /\ Past(2, 1)
         /\ Past(2, 1) => Past(1, 1)
         /\ Past(7, 2) => Past(7, 1)
         /\ Past(7, 3) => Past(7, 2) /\ Past(4, 1) /\ Past(6, 1)
         /\ Past(8, 2) => Past(8, 1)
         /\ Past(8, 1) => Past(7, 3)
         /\ Past(9, 1) => Past(7, 3) /\ Past(8, 2)
         /\ Past(9, 3) => Past(9, 1)
         /\ Past(9, 4) => Past(9, 3)
<1>1. place[1] \in 1..10 /\ place[2] \in 1..5 /\ (place[1] = 4 => place[2] = 1)
  <2>1. CASE place[1] = 4
    <3>1. place[2] \in 1..Len(Schedule[4]) /\ Len(Schedule[4]) = 1
      BY <2>1, Standing, Lengths
    <3> QED BY <2>1, <3>1
  <2> QED BY <2>1, Standing
<1>2. IF serving = "old" THEN place[1] <= 4 ELSE place[1] >= 4
  BY DEF StandsWhere
<1> QED BY <1>1, <1>2 DEF Past

LEMMA StepOrder ==
  ASSUME StandsWhere, MigrationStep
  PROVE  /\ CopyUnitsStep => serving = "old" /\ old = "minor" /\ ~Past(2, 1)
         /\ CopyMicrosStep => serving = "old" /\ Past(1, 1)
         /\ ScaleCapsStep => serving = "old"
         /\ WriteEntries => serving = "old"
         /\ CustomerEmails => serving # "old" /\ ~Past(4, 1)
         /\ EmailIndex => serving # "old" /\ Past(4, 1)
         /\ MetadataStep => serving # "old" /\ ~Past(7, 1)
         /\ ResyncUnitsStep => serving # "old" /\ ~Past(7, 1)
         /\ DropMinorStep => serving # "old" /\ Past(7, 1)
         /\ RenameMinorStep => serving # "old" /\ Past(7, 2)
         /\ ReadUsers => serving # "old" /\ ~Past(8, 1)
         /\ WriteUsers => serving # "old" /\ Past(8, 1) /\ ~Past(8, 2)
         /\ PromoteMicrosStep => serving # "old" /\ Past(7, 3)
         /\ DropUnitsStep => serving # "old" /\ Past(9, 1)
         /\ FinalizeRulesStep => serving # "old" /\ Past(9, 1)
         /\ FinalizeCounters => serving # "old" /\ Past(9, 3)
<1>1. IF place[1] > 3 THEN serving # "old" ELSE serving = "old"
  BY MigrationTurns, Standing
<1>2. place[1] = 1 => old = "minor"
  BY DEF StandsWhere
<1> QED BY <1>1, <1>2, StopSteps DEF Stop, Past

-----------------------------------------------------------------------------
(* The operators on one amount.                                            *)
LEMMA AmountOps ==
  ASSUME NEW d, Agrees(d)
  PROVE  /\ Agrees(CopyUnits(d))
         /\ CopyUnits(d).minor = d.minor /\ CopyUnits(d).micros = d.micros
         /\ d.units # Absent => CopyUnits(d) = d
         /\ d.minor # Absent => CopyUnits(d).units # Absent
         /\ Agrees(CopyMicros(d, Currency))
         /\ CopyMicros(d, Currency).minor = d.minor /\ CopyMicros(d, Currency).units = d.units
         /\ Agrees(ResyncUnits(d))
         /\ ResyncUnits(d).minor = d.minor /\ ResyncUnits(d).micros = d.micros
         /\ d.minor # Absent => ResyncUnits(d).units # Absent
         /\ Agrees(PromoteStored(d, Currency))
         /\ PromoteStored(d, Currency).minor = d.minor
         /\ d.micros # Absent \/ d.minor = Absent => PromoteStored(d, Currency).micros # Absent
<1>1. F = Factor[Currency] /\ F \in Nat /\ \A n \in Int : n # Absent /\ n * F \in Int
        /\ n * F # Absent
  BY FactorPositive, AbsentNoAmount DEF F
<1>2. d = [minor |-> d.minor, units |-> d.units, micros |-> d.micros]
      /\ d.minor \in Stored /\ d.units \in Stored /\ d.micros \in Stored
  BY DEF Agrees, Amount
<1>3. /\ Agrees(CopyUnits(d))
      /\ CopyUnits(d).minor = d.minor /\ CopyUnits(d).micros = d.micros
      /\ d.units # Absent => CopyUnits(d) = d
      /\ d.minor # Absent => CopyUnits(d).units # Absent
  BY <1>1, <1>2 DEF Agrees, CopyUnits, Amount, Stored
<1>4. /\ Agrees(CopyMicros(d, Currency))
      /\ CopyMicros(d, Currency).minor = d.minor /\ CopyMicros(d, Currency).units = d.units
  BY <1>1, <1>2 DEF Agrees, CopyMicros, Scaled, Amount, Stored
<1>5. /\ Agrees(ResyncUnits(d))
      /\ ResyncUnits(d).minor = d.minor /\ ResyncUnits(d).micros = d.micros
      /\ d.minor # Absent => ResyncUnits(d).units # Absent
  BY <1>1, <1>2 DEF Agrees, ResyncUnits, Amount, Stored
<1>6. /\ Agrees(PromoteStored(d, Currency))
      /\ PromoteStored(d, Currency).minor = d.minor
      /\ d.micros # Absent \/ d.minor = Absent => PromoteStored(d, Currency).micros # Absent
  BY <1>1, <1>2 DEF Agrees, PromoteStored, Scaled, Amount, Stored
<1> QED BY <1>3, <1>4, <1>5, <1>6

LEMMA AmountDrops ==
  ASSUME NEW d, Agrees(d)
  PROVE  /\ d.minor # Absent /\ d.units # Absent => Agrees(DropMinor(d))
         /\ d.minor = Absent => DropMinor(d) = d
         /\ DropMinor(d).minor = Absent /\ DropMinor(d).units = d.units
              /\ DropMinor(d).micros = d.micros
         /\ d.micros # Absent => Agrees(DropUnits(d))
         /\ DropUnits(d).units = Absent /\ DropUnits(d).minor = d.minor
              /\ DropUnits(d).micros = d.micros
BY DEF Agrees, DropMinor, DropUnits, Amount, Stored

LEMMA AmountSet ==
  ASSUME NEW field \in {"minor", "units", "micros"}, NEW n \in Int
  PROVE  /\ Agrees(Only(field, n)) /\ Only(field, n)[field] = n
         /\ \A other \in {"minor", "units", "micros"} \ {field} : Only(field, n)[other] = Absent
BY AbsentNoAmount DEF Agrees, Only, None, Amount, Stored

LEMMA Normalized ==
  ASSUME NEW d \in Amount
  PROVE  /\ NormalizeMoney(d, Currency) =
              [minor |-> Absent, units |-> Absent,
               micros |-> IfNull(d.micros, Scaled(IfNull(d.units, d.minor), Currency))]
         /\ NormalizeBalance(d, Currency) =
              [minor |-> Absent, units |-> Absent,
               micros |-> IfNull(d.micros, Scaled(IfNull(d.minor, d.units), Currency))]
BY DEF NormalizeMoney, NormalizeBalance, PromoteMicros, PromoteMinor

LEMMA NormalizedAmount ==
  ASSUME NEW d, Agrees(d)
  PROVE  /\ Agrees(NormalizeMoney(d, Currency))
         /\ NormalizeMoney(d, Currency).minor = Absent
         /\ NormalizeMoney(d, Currency).micros # Absent
<1>1. F = Factor[Currency] /\ F \in Nat /\ \A n \in Int : n # Absent /\ n * F \in Int
        /\ n * F # Absent
  BY FactorPositive, AbsentNoAmount DEF F
<1>2. PICK a \in Stored, b \in Stored, m \in Stored : d = [minor |-> a, units |-> b, micros |-> m]
  BY DEF Agrees, Amount
<1>3. NormalizeMoney(d, Currency) =
        [minor |-> Absent, units |-> Absent, micros |-> IfNull(m, Scaled(IfNull(b, a), Currency))]
  <2>1. d \in Amount /\ d.minor = a /\ d.units = b /\ d.micros = m
    BY <1>2 DEF Agrees
  <2> QED BY <2>1, Normalized
<1> QED BY <1>1, <1>2, <1>3 DEF Agrees, IfNull, Scaled, Amount, Stored

-----------------------------------------------------------------------------
(* An amount that is written whole, over one step.                         *)
AmountBecomes(d, e) ==
  \/ CopyUnitsStep /\ e = CopyUnits(d)
  \/ CopyMicrosStep /\ e = CopyMicros(d, Currency)
  \/ ResyncUnitsStep /\ e = ResyncUnits(d)
  \/ DropMinorStep /\ e = DropMinor(d)
  \/ PromoteMicrosStep /\ e = PromoteStored(d, Currency)
  \/ DropUnitsStep /\ e = DropUnits(d)
  \/ ~AmountStep /\ serving = "old" /\ \E n \in Int : e = Only(old, n)
  \/ ~AmountStep /\ serving # "old" /\ \E n \in Int : e = Only("micros", n)
  \/ ~AmountStep /\ serving # "old" /\ e = NormalizeMoney(d, Currency)
  \/ ~AmountStep /\ e = d

LEMMA AmountTurns ==
  ASSUME StandsWhere, [UpgradeNext]_upgradeVars, NEW d, NEW e, AmountFits(d), AmountBecomes(d, e)
  PROVE  /\ Agrees(e)
         /\ serving' = "old" => e[old'] # Absent /\ (old' = "units" => e.minor = Absent)
         /\ Past(7, 1)' /\ e.minor # Absent => e.units # Absent
         /\ Past(7, 2)' => e.minor = Absent
         /\ Past(9, 1)' => e.micros # Absent
<1>1. /\ old' = old /\ (serving' = "old" => serving = "old") /\ old \in {"minor", "units"}
      /\ Past(7, 1)' => Past(7, 1) \/ ResyncUnitsStep
      /\ Past(7, 2)' => Past(7, 2) \/ DropMinorStep
      /\ Past(9, 1)' => Past(9, 1) \/ PromoteMicrosStep
  BY NoReturn, NewlyPast DEF StandsWhere
<1>2. /\ serving = "old" => ~Past(7, 1) /\ ~Past(7, 2) /\ ~Past(9, 1)
      /\ Past(9, 1) => Past(7, 2)
      /\ Past(7, 2) => Past(7, 1)
  BY Order
<1>3. /\ Agrees(d)
      /\ serving = "old" => d[old] # Absent /\ (old = "units" => d.minor = Absent)
      /\ Past(7, 1) /\ d.minor # Absent => d.units # Absent
      /\ Past(7, 2) => d.minor = Absent
      /\ Past(9, 1) => d.micros # Absent
  BY DEF AmountFits
<1>4. /\ CopyUnitsStep => serving = "old" /\ old = "minor"
      /\ CopyMicrosStep => serving = "old"
      /\ ResyncUnitsStep => serving # "old" /\ ~Past(7, 1)
      /\ DropMinorStep => serving # "old" /\ Past(7, 1)
      /\ PromoteMicrosStep => serving # "old" /\ Past(7, 2)
      /\ DropUnitsStep => serving # "old" /\ Past(9, 1)
  BY StepOrder, Order DEF MigrationStep
<1>5. /\ ~(CopyUnitsStep /\ ~(~ResyncUnitsStep /\ ~DropMinorStep /\ ~PromoteMicrosStep))
      /\ ~(CopyMicrosStep /\ ~(~ResyncUnitsStep /\ ~DropMinorStep /\ ~PromoteMicrosStep))
      /\ ~(ResyncUnitsStep /\ (DropMinorStep \/ PromoteMicrosStep))
      /\ ~(DropMinorStep /\ (ResyncUnitsStep \/ PromoteMicrosStep))
      /\ ~(PromoteMicrosStep /\ (ResyncUnitsStep \/ DropMinorStep))
      /\ ~(DropUnitsStep /\ (ResyncUnitsStep \/ DropMinorStep \/ PromoteMicrosStep))
  BY StopSteps DEF MigrationStep, Stop
<1>6. CASE CopyUnitsStep /\ e = CopyUnits(d)
  BY <1>1, <1>2, <1>3, <1>4, <1>5, <1>6, AmountOps
<1>7. CASE CopyMicrosStep /\ e = CopyMicros(d, Currency)
  BY <1>1, <1>2, <1>3, <1>4, <1>5, <1>7, AmountOps
<1>8. CASE ResyncUnitsStep /\ e = ResyncUnits(d)
  BY <1>1, <1>2, <1>3, <1>4, <1>5, <1>8, AmountOps
<1>9. CASE DropMinorStep /\ e = DropMinor(d)
  BY <1>1, <1>2, <1>3, <1>4, <1>5, <1>9, AmountDrops
<1>10. CASE PromoteMicrosStep /\ e = PromoteStored(d, Currency)
  BY <1>1, <1>2, <1>3, <1>4, <1>5, <1>10, AmountOps
<1>11. CASE DropUnitsStep /\ e = DropUnits(d)
  BY <1>1, <1>2, <1>3, <1>4, <1>5, <1>11, AmountDrops
<1>12. CASE ~AmountStep /\ serving = "old" /\ \E n \in Int : e = Only(old, n)
  BY <1>1, <1>2, <1>12, AmountSet, AbsentNoAmount DEF AmountStep
<1>13. CASE ~AmountStep /\ serving # "old" /\ \E n \in Int : e = Only("micros", n)
  BY <1>1, <1>2, <1>13, AmountSet, AbsentNoAmount DEF AmountStep
<1>14. CASE ~AmountStep /\ serving # "old" /\ e = NormalizeMoney(d, Currency)
  BY <1>1, <1>2, <1>14, <1>3, NormalizedAmount DEF AmountStep
<1>15. CASE ~AmountStep /\ e = d
  BY <1>1, <1>2, <1>3, <1>15 DEF AmountStep
<1> QED BY <1>6, <1>7, <1>8, <1>9, <1>10, <1>11, <1>12, <1>13, <1>14, <1>15 DEF AmountBecomes

(* The price of a model.                                                   *)
LEMMA PriceBecomes ==
  ASSUME StandsWhere, [UpgradeNext]_upgradeVars
  PROVE  AmountBecomes(price, price')
<1>1. CASE AmountStep
  BY <1>1 DEF AmountStep, AmountBecomes, OnAmounts, CopyUnitsStep, CopyMicrosStep, ResyncUnitsStep,
     DropMinorStep, PromoteMicrosStep, DropUnitsStep
<1>2. CASE ~AmountStep /\ OldPriceSet
  BY <1>2, AmountAssumption DEF OldPriceSet, Write, AmountBecomes
<1>3. CASE ~AmountStep /\ NewPriceSet
  BY <1>3, AmountAssumption DEF NewPriceSet, Write, AmountBecomes
<1>4. CASE ~AmountStep /\ price' = price
  BY <1>4 DEF AmountBecomes
<1> QED BY <1>1, <1>2, <1>3, <1>4, Untouched

LEMMA PriceStep ==
  ASSUME StandsWhere, AmountFits(price), [UpgradeNext]_upgradeVars
  PROVE  AmountFits(price)'
BY PriceBecomes, AmountTurns DEF AmountFits, Agrees

-----------------------------------------------------------------------------
(* The balance: an old release adds to its own field after the copy is made.*)
LEMMA Products ==
  /\ \A m, n \in Int : (m + n) * F = m * F + n * F
  /\ \A n \in Int : n * F \in Int /\ n * F # Absent /\ n # Absent
  /\ 0 * F = 0
BY FactorPositive, AbsentNoAmount

LEMMA BalanceCopied ==
  ASSUME StandsWhere, BalanceFits, MigrationStep, [UpgradeNext]_upgradeVars, CopyUnitsStep
           \/ CopyMicrosStep
  PROVE  BalanceFits'
<1>1. /\ old' = old /\ serving' = serving /\ serving = "old" /\ old \in {"minor", "units"}
      /\ UNCHANGED <<ledger, missed>>
  BY NoReturn, MigrationTurns, StepOrder DEF StandsWhere, CopyUnitsStep, CopyMicrosStep, StepEnds,
     ghosts
<1>2. PICK a \in Stored, b \in Stored, m \in Stored : balance = [minor |-> a, units |-> b,
                                                      micros |-> m]
  BY DEF BalanceFits, Amount
<1>3. balance.minor = a /\ balance.units = b /\ balance.micros = m
  BY <1>2
<1>4. CASE CopyUnitsStep
  <2>1. old = "minor" /\ ~Past(2, 1) /\ ~CopyMicrosStep
    BY <1>4, StepOrder, StopSteps DEF Stop
  <2>2. ~Past(2, 1)'
    BY <2>1, NewlyPast
  <2>3. balance' = IF b = Absent THEN [minor |-> a, units |-> a, micros |-> m] ELSE balance
    BY <1>1, <1>2, <1>4, <2>1, AbsentNoAmount DEF CopyUnitsStep, OnAmounts, CopyUnits, BalanceFits
  <2>4. CASE b = Absent
    <3>1. a \in Int /\ m = Absent /\ missed = 0 /\ ledger = a * F
      BY <1>1, <1>3, <2>1, <2>4, <1>2 DEF BalanceFits, Stored
    <3>2. balance' = [minor |-> a, units |-> a, micros |-> Absent]
      BY <2>3, <2>4, <3>1
    <3> QED BY <1>1, <2>1, <2>2, <3>1, <3>2, Products DEF BalanceFits, OnlyLateWritesLost, Amount,
        Stored
  <2>5. CASE b # Absent
    BY <1>1, <1>3, <2>1, <2>2, <2>3, <2>5 DEF BalanceFits, OnlyLateWritesLost
  <2> QED BY <2>4, <2>5
<1>5. CASE CopyMicrosStep
  <2>1. b \in Int
    BY <1>1, <1>2, <1>3, <1>5, StepOrder DEF BalanceFits, Stored
  <2>2. balance' = IF m = Absent THEN [minor |-> a, units |-> b, micros |-> b * F] ELSE balance
    <3>1. b # Absent /\ Factor[Currency] = F
      BY <2>1, AbsentNoAmount DEF F
    <3>2. balance' = IF m = Absent THEN [balance EXCEPT !.micros = b * F] ELSE balance
      BY <1>3, <1>5, <3>1 DEF CopyMicrosStep, CopyMicros, Scaled
    <3> QED BY <1>2, <3>2
  <2>3. CASE m = Absent
    <3>1. balance' = [minor |-> a, units |-> b, micros |-> b * F]
      BY <2>2, <2>3
    <3>2. /\ missed \in Int /\ ledger \in Int
          /\ old = "minor" => a \in Int /\ b + missed = a /\ ledger = a * F
          /\ old = "units" => a = Absent /\ missed = 0 /\ ledger = b * F
      BY <1>1, <1>3, <2>1, <2>3, <1>2, AbsentNoAmount DEF BalanceFits, Stored
    <3>3. b * F + missed * F = ledger
      <4>1. (b + missed) * F = b * F + missed * F /\ 0 * F = 0 /\ b * F \in Int
        BY <3>2, <2>1, Products
      <4> QED BY <1>1, <3>2, <2>1, <4>1
    <3> QED BY <1>1, <2>1, <3>1, <3>2, <3>3, Products DEF BalanceFits, OnlyLateWritesLost, Amount,
        Stored
  <2>4. CASE m # Absent
    BY <1>1, <1>3, <2>1, <2>2, <2>4, AbsentNoAmount DEF BalanceFits, OnlyLateWritesLost
  <2> QED BY <2>3, <2>4
<1> QED BY <1>4, <1>5

LEMMA BalanceTidied ==
  ASSUME StandsWhere, BalanceFits, MigrationStep, [UpgradeNext]_upgradeVars,
         ResyncUnitsStep \/ DropMinorStep \/ PromoteMicrosStep \/ DropUnitsStep
  PROVE  BalanceFits'
<1>1. /\ old' = old /\ serving' = serving /\ serving # "old" /\ UNCHANGED <<ledger, missed>>
  BY NoReturn, MigrationTurns, StepOrder DEF ResyncUnitsStep, DropMinorStep, PromoteMicrosStep,
     DropUnitsStep,
     StepEnds, ghosts
<1>2. balance.micros # Absent /\ balance \in Amount
  BY <1>1, Order DEF BalanceFits
<1>3. balance' \in Amount /\ balance'.micros = balance.micros
  BY <1>2 DEF ResyncUnitsStep, DropMinorStep, PromoteMicrosStep, DropUnitsStep, OnAmounts,
     ResyncUnits, DropMinor, PromoteStored, DropUnits, Amount, Stored
<1> QED BY <1>1, <1>2, <1>3 DEF BalanceFits, OnlyLateWritesLost

LEMMA BalanceAdded ==
  ASSUME StandsWhere, BalanceFits, [UpgradeNext]_upgradeVars, OldBalanceInc \/ NewBalanceInc
  PROVE  BalanceFits'
<1>1. /\ UNCHANGED <<old, serving, place>> /\ old \in {"minor", "units"}
  BY DEF OldBalanceInc, NewBalanceInc, Write, run, StandsWhere
<1>2. PICK a \in Stored, b \in Stored, m \in Stored : balance = [minor |-> a, units |-> b,
                                                      micros |-> m]
  BY DEF BalanceFits, Amount
<1>3. balance.minor = a /\ balance.units = b /\ balance.micros = m /\ missed \in Int /\ ledger \in Int
  BY <1>2 DEF BalanceFits
<1>4. CASE OldBalanceInc
  <2>1. PICK delta \in Int :
          /\ balance' = [balance EXCEPT ![old] = @ + delta]
          /\ ledger' = ledger + delta * F
          /\ missed' = missed + IF Copied THEN delta ELSE 0
    BY <1>4, AmountAssumption DEF OldBalanceInc
  <2>2. serving = "old"
    BY <1>4 DEF OldBalanceInc, Write
  <2>3. CASE old = "minor"
    <3>1. balance' = [minor |-> a + delta, units |-> b, micros |-> m]
      BY <1>2, <2>1, <2>3
    <3>2. /\ a \in Int /\ ledger = a * F
          /\ b = Absent => missed = 0 /\ m = Absent
          /\ b # Absent => b \in Int /\ b + missed = a
          /\ m # Absent => m = b * F
      BY <1>2, <1>3, <2>2, <2>3, AbsentNoAmount DEF BalanceFits, Stored
    <3>3. /\ ledger' = (a + delta) * F /\ ledger' \in Int /\ a + delta \in Int /\ a + delta # Absent
          /\ b = Absent => missed' = 0
          /\ b # Absent => missed' = missed + delta
          /\ missed' \in Int
      <4>1. (a + delta) * F = a * F + delta * F /\ (a + delta) * F \in Int
            /\ a + delta \in Int /\ a + delta # Absent
        <5>1. a \in Int /\ a + delta \in Int
          BY <3>2
        <5> QED BY <5>1, Products
      <4>2. missed' = missed + IF b = Absent THEN 0 ELSE delta
        BY <1>3, <2>1, <2>3 DEF Copied
      <4> QED BY <1>3, <2>1, <3>2, <4>1, <4>2
    <3>4. m # Absent => m + missed' * F = ledger'
      <4> SUFFICES ASSUME m # Absent PROVE m + missed' * F = ledger'
        OBVIOUS
      <4>1. b \in Int /\ b + missed' = a + delta /\ m = b * F
        <5>1. b # Absent
          BY <3>2
        <5> QED BY <3>2, <3>3, <1>3, <5>1
      <4>2. b * F + missed' * F = (b + missed') * F
        BY <3>3, <4>1, Products
      <4> QED BY <4>1, <4>2, <3>3
    <3>5. /\ balance'.minor = a + delta /\ balance'.units = b /\ balance'.micros = m
          /\ balance' \in Amount
      BY <3>1, <3>3 DEF Amount, Stored
    <3>6. b # Absent => b + missed' = a + delta
      BY <3>2, <3>3, <1>3
    <3>7. /\ Past(1, 1)' => b # Absent
          /\ Past(2, 1)' => m # Absent
      BY <1>1, <1>3, <2>2 DEF BalanceFits, Past
    <3> QED BY <1>1, <2>2, <2>3, <3>2, <3>3, <3>4, <3>5, <3>6, <3>7 DEF BalanceFits,
        OnlyLateWritesLost
  <2>4. CASE old = "units"
    <3>1. balance' = [minor |-> a, units |-> b + delta, micros |-> m]
      BY <1>2, <2>1, <2>4
    <3>2. /\ a = Absent /\ b \in Int /\ ledger = b * F
          /\ m = Absent => missed = 0
          /\ m # Absent => m \in Int /\ m + missed * F = ledger
      BY <1>2, <1>3, <2>2, <2>4, AbsentNoAmount DEF BalanceFits, Stored, OnlyLateWritesLost
    <3>3. /\ ledger' = (b + delta) * F /\ ledger' \in Int /\ b + delta \in Int /\ b + delta # Absent
          /\ m = Absent => missed' = 0
          /\ m # Absent => missed' = missed + delta
          /\ missed' \in Int
      <4>1. (b + delta) * F = b * F + delta * F /\ (b + delta) * F \in Int
            /\ b + delta \in Int /\ b + delta # Absent
        <5>1. b \in Int /\ b + delta \in Int
          BY <3>2
        <5> QED BY <5>1, Products
      <4>2. missed' = missed + IF m = Absent THEN 0 ELSE delta
        BY <1>3, <1>1, <2>1, <2>4 DEF Copied
      <4> QED BY <1>3, <2>1, <3>2, <4>1, <4>2
    <3>4. m # Absent => m + missed' * F = ledger'
      <4> SUFFICES ASSUME m # Absent PROVE m + missed' * F = ledger'
        OBVIOUS
      <4>1. missed' * F = missed * F + delta * F
        <5>1. (missed + delta) * F = missed * F + delta * F
          BY <1>3, Products
        <5> QED BY <3>3, <5>1
      <4> QED BY <4>1, <3>2, <3>3, <2>1, <1>3, Products
    <3>5. /\ balance'.minor = a /\ balance'.units = b + delta /\ balance'.micros = m
          /\ balance' \in Amount
      BY <3>1, <3>3 DEF Amount, Stored
    <3>6. Past(2, 1)' => m # Absent
      BY <1>1, <1>3, <2>2 DEF BalanceFits, Past
    <3> QED BY <1>1, <2>2, <2>4, <3>2, <3>3, <3>4, <3>5, <3>6 DEF BalanceFits, OnlyLateWritesLost
  <2> QED BY <1>1, <2>3, <2>4
<1>5. CASE NewBalanceInc
  <2>1. PICK delta \in Int :
          /\ balance' = BalanceInc(balance, Currency, delta)
          /\ ledger' = ledger + delta /\ missed' = missed
    BY <1>5, AmountAssumption DEF NewBalanceInc
  <2>2. serving # "old" /\ serving' # "old"
    BY <1>5, <1>1 DEF NewBalanceInc, Write
  <2>3. m \in Int /\ m + missed * F = ledger
    BY <1>3, <2>2, Order DEF BalanceFits, OnlyLateWritesLost, Stored
  <2>4. balance' = [minor |-> Absent, units |-> (m + delta) \div F, micros |-> m + delta]
    BY <1>3, <2>1, <2>3, AbsentNoAmount DEF BalanceInc, Effective, IfNull, F
  <2>5. m + delta \in Int /\ m + delta # Absent /\ (m + delta) \div F \in Int
    BY <2>3, FactorPositive, AbsentNoAmount
  <2>6. balance' \in Amount /\ balance'.units # Absent /\ balance'.micros = m + delta
    BY <2>4, <2>5, AbsentNoAmount DEF Amount, Stored
  <2>7. ledger' \in Int /\ (m + delta) + missed' * F = ledger'
    <3>1. missed * F \in Int
      BY <1>3, Products
    <3> QED BY <1>3, <2>1, <2>3, <3>1
  <2> QED BY <1>3, <2>1, <2>2, <2>5, <2>6, <2>7 DEF BalanceFits, OnlyLateWritesLost
<1> QED BY <1>4, <1>5

LEMMA BalanceStep ==
  ASSUME StandsWhere, BalanceFits, [UpgradeNext]_upgradeVars
  PROVE  BalanceFits'
<1>1. /\ old' = old /\ (serving' = "old" => serving = "old")
      /\ Past(1, 1)' => Past(1, 1) \/ CopyUnitsStep
      /\ Past(2, 1)' => Past(2, 1) \/ CopyMicrosStep
      /\ serving # "old" => Past(2, 1)
  BY NoReturn, NewlyPast, Order
<1>2. CASE ~AmountStep /\ UNCHANGED <<balance, ledger, missed>>
  <2>1. /\ Past(1, 1)' => Past(1, 1)
        /\ Past(2, 1)' => Past(2, 1)
    BY <1>1, <1>2 DEF AmountStep
  <2> QED BY <1>1, <1>2, <2>1 DEF BalanceFits, OnlyLateWritesLost
<1> QED BY <1>2, BalanceCopied, BalanceTidied, BalanceAdded, Untouched DEF AmountStep, MigrationStep

-----------------------------------------------------------------------------
(* The rules of a plan.                                                    *)
LEMMA RuleOps ==
  ASSUME NEW r \in Rule
  PROVE  /\ ScaleCap(r, Currency) \in Rule /\ ScaleCap(r, Currency).dim = r.dim
         /\ r.dim = "spend_micros" => ScaleCap(r, Currency) = r
         /\ r.dim = "tokens" => ScaleCap(r, Currency) = r
         /\ CapMicros(ScaleCap(r, Currency)) = CapMicros(r)
         /\ RenameMinor(r) \in Rule /\ RenameMinor(r).dim # "spend_minor"
         /\ r.dim # "spend_minor" => RenameMinor(r) = r
         /\ r.dim = "spend_minor" => RenameMinor(r).dim = "spend_units"
         /\ CapMicros(RenameMinor(r)) = CapMicros(r)
         /\ FinalizeRule(r, Currency) \in Rule
         /\ r.dim # "spend_units" => FinalizeRule(r, Currency) = r
         /\ r.dim = "spend_units" => /\ FinalizeRule(r, Currency).dim = "spend_micros"
                                     /\ ~FinalizeRule(r, Currency).scaled
         /\ CapMicros(FinalizeRule(r, Currency)) = CapMicros(r)
<1>1. F \in Nat /\ Factor[Currency] = F
  BY FactorPositive DEF F
<1>2. PICK d \in Dimensions, c \in Nat, s \in BOOLEAN : r = [dim |-> d, cap |-> c, scaled |-> s]
  BY DEF Rule
<1>3. c * F \in Nat
  BY <1>1
<1>4. /\ ScaleCap(r, Currency) \in Rule /\ ScaleCap(r, Currency).dim = r.dim
      /\ r.dim = "spend_micros" => ScaleCap(r, Currency) = r
      /\ r.dim = "tokens" => ScaleCap(r, Currency) = r
      /\ CapMicros(ScaleCap(r, Currency)) = CapMicros(r)
  <2>1. CASE d = "spend_units" /\ ~s
    <3>1. ScaleCap(r, Currency) = [dim |-> "spend_units", cap |-> c * F, scaled |-> TRUE]
      BY <1>1, <1>2, <2>1 DEF ScaleCap
    <3>2. CapMicros(ScaleCap(r, Currency)) = c * F /\ CapMicros(r) = c * F
      BY <1>2, <2>1, <3>1 DEF CapMicros
    <3>3. ScaleCap(r, Currency) \in Rule
      BY <1>3, <3>1 DEF Rule, Dimensions
    <3> QED BY <1>2, <2>1, <3>1, <3>2, <3>3
  <2>2. CASE ~(d = "spend_units" /\ ~s)
    BY <1>2, <2>2 DEF ScaleCap
  <2> QED BY <2>1, <2>2
<1>5. /\ RenameMinor(r) \in Rule /\ RenameMinor(r).dim # "spend_minor"
      /\ r.dim # "spend_minor" => RenameMinor(r) = r
      /\ r.dim = "spend_minor" => RenameMinor(r).dim = "spend_units"
      /\ CapMicros(RenameMinor(r)) = CapMicros(r)
  BY <1>2 DEF RenameMinor, Rule, CapMicros, Dimensions
<1>6. /\ FinalizeRule(r, Currency) \in Rule
      /\ r.dim # "spend_units" => FinalizeRule(r, Currency) = r
      /\ r.dim = "spend_units" => /\ FinalizeRule(r, Currency).dim = "spend_micros"
                                  /\ ~FinalizeRule(r, Currency).scaled
      /\ CapMicros(FinalizeRule(r, Currency)) = CapMicros(r)
  <2>1. CASE d = "spend_units"
    <3>1. FinalizeRule(r, Currency) =
            [dim |-> "spend_micros", scaled |-> FALSE, cap |-> IF s THEN c ELSE c * F]
      BY <1>1, <1>2, <2>1 DEF FinalizeRule
    <3>2. (IF s THEN c ELSE c * F) \in Nat
      BY <1>3
    <3>3. FinalizeRule(r, Currency) \in Rule
      BY <3>1, <3>2 DEF Rule, Dimensions
    <3>4. CapMicros(FinalizeRule(r, Currency)) = IF s THEN c ELSE c * F
      BY <3>1 DEF CapMicros
    <3>5. CapMicros(r) = IF s THEN c ELSE c * F
      BY <1>2, <2>1 DEF CapMicros
    <3>6. FinalizeRule(r, Currency).dim = "spend_micros" /\ FinalizeRule(r, Currency).scaled = FALSE
      BY <3>1
    <3>7. r.dim = "spend_units"
      BY <1>2, <2>1
    <3> QED BY <3>3, <3>4, <3>5, <3>6, <3>7
  <2>2. CASE d # "spend_units"
    BY <1>2, <2>2 DEF FinalizeRule
  <2> QED BY <2>1, <2>2
<1> QED BY <1>4, <1>5, <1>6

LEMMA RulesStep ==
  ASSUME StandsWhere, RulesFit, [UpgradeNext]_upgradeVars
  PROVE  RulesFit'
<1>1. /\ old' = old /\ (serving' = "old" => serving = "old") /\ old \in {"minor", "units"}
      /\ Past(7, 3)' => Past(7, 3) \/ RenameMinorStep
      /\ Past(9, 3)' => Past(9, 3) \/ FinalizeRulesStep
      /\ serving = "old" => ~Past(7, 3) /\ ~Past(9, 3)
      /\ Past(9, 3) => Past(7, 3)
      /\ FinalizeRulesStep => Past(7, 3)
  BY NoReturn, NewlyPast, Order, StepOrder DEF StandsWhere, MigrationStep
<1>2. rules[1] \in Rule /\ rules[2] \in Rule
  BY DEF RulesFit
<1>3. CASE ScaleCapsStep
  <2>1. /\ rules' \in [1..2 -> Rule] /\ rules'[1] = ScaleCap(rules[1], Currency)
             /\ rules'[2] = ScaleCap(rules[2], Currency)
        /\ UNCHANGED <<capped, resaved>>
        /\ ~RenameMinorStep /\ ~FinalizeRulesStep
    BY <1>2, <1>3, RuleOps, StopSteps DEF ScaleCapsStep, RulesFit, StepEnds, ghosts,
       MigrationStep, Stop
  <2> QED BY <1>1, <1>2, <2>1, RuleOps DEF RulesFit, CapsScaledOnce
<1>4. CASE RenameMinorStep
  <2>1. /\ rules' \in [1..2 -> Rule] /\ rules'[1] = RenameMinor(rules[1])
             /\ rules'[2] = RenameMinor(rules[2])
        /\ UNCHANGED <<capped, resaved>>
        /\ ~FinalizeRulesStep
    BY <1>2, <1>4, RuleOps, StopSteps DEF RenameMinorStep, RulesFit, StepEnds, ghosts,
       MigrationStep, Stop
  <2>2. /\ rules[1].dim # "spend_minor" => RenameMinor(rules[1]) = rules[1]
        /\ RenameMinor(rules[1]).dim # "spend_minor"
             /\ CapMicros(RenameMinor(rules[1])) = CapMicros(rules[1])
    BY <1>2, RuleOps
  <2>3. rules[1].dim = "spend_minor" => RenameMinor(rules[1]).dim = "spend_units"
    BY <1>2, RuleOps
  <2>4. rules'[2] = rules[2]
    BY <2>1, <1>2, RuleOps DEF RulesFit, CapsScaledOnce
  <2> HIDE DEF RenameMinor, CapMicros
  <2>5. /\ rules'[1].dim # "tokens" /\ rules'[1].dim # "spend_minor"
        /\ rules'[1].dim = "spend_micros" => ~rules'[1].scaled
        /\ rules[1].dim = "spend_micros" => rules'[1].dim = "spend_micros"
        /\ CapMicros(rules'[1]) = CapMicros(rules[1])
    BY <2>1, <2>2, <2>3 DEF RulesFit
  <2>6. Past(9, 3)' => rules'[1].dim = "spend_micros"
    BY <1>1, <2>1, <2>5 DEF RulesFit
  <2>7. ~resaved' => CapMicros(rules'[1]) = capped'
    BY <2>1, <2>5 DEF RulesFit, CapsScaledOnce
  <2>8. CapsScaledOnce'
    <3>1. rules'[2].cap = TokenCap /\ rules'[2].dim = "tokens"
      BY <2>4 DEF RulesFit, CapsScaledOnce
    <3> QED BY <2>7, <3>1 DEF CapsScaledOnce, CapMicros
  <2> QED BY <2>1, <2>5, <2>6, <2>8 DEF RulesFit
<1>5. CASE FinalizeRulesStep
  <2>1. /\ rules' \in [1..2 -> Rule] /\ rules'[1] = FinalizeRule(rules[1], Currency)
        /\ rules'[2] = FinalizeRule(rules[2], Currency)
        /\ UNCHANGED <<capped, resaved>>
    BY <1>2, <1>5, RuleOps DEF FinalizeRulesStep, RulesFit, StepEnds, ghosts
  <2>2. rules[1].dim \in {"spend_units", "spend_micros"}
    BY <1>1, <1>2, <1>5 DEF RulesFit, Rule, Dimensions
  <2>3. /\ rules'[1].dim = "spend_micros" /\ ~rules'[1].scaled
        /\ CapMicros(rules'[1]) = CapMicros(rules[1]) /\ rules'[2] = rules[2]
    BY <1>2, <2>1, <2>2, RuleOps DEF RulesFit, CapsScaledOnce
  <2> QED BY <1>1, <2>1, <2>3 DEF RulesFit, CapsScaledOnce, CapMicros
<1>6. CASE OldRuleSet
  <2>1. PICK cap \in Nat : /\ rules' = [rules EXCEPT ![1] = [dim |-> OldDim, cap |-> cap,
                              scaled |-> FALSE]]
                           /\ capped' = cap * F /\ resaved' = FALSE
    BY <1>6, AmountAssumption DEF OldRuleSet
  <2>2. serving = "old" /\ place' = place /\ cap * F \in Int
    BY <1>6, FactorPositive DEF OldRuleSet, Write, run
  <2>3. OldDim \in {"spend_minor", "spend_units"}
    BY DEF OldDim
  <2>4. rules' \in [1..2 -> Rule] /\ rules'[1] = [dim |-> OldDim, cap |-> cap, scaled |-> FALSE]
          /\ rules'[2] = rules[2]
    BY <2>1, <2>3 DEF RulesFit, Rule, Dimensions
  <2>5. ~Past(7, 3)' /\ ~Past(9, 3)'
    BY <1>1, <2>2 DEF Past
  <2>6. CapMicros(rules'[1]) = cap * F /\ rules'[1].dim \in {"spend_minor", "spend_units"}
    BY <2>3, <2>4 DEF CapMicros
  <2>7. CapsScaledOnce'
    BY <2>1, <2>4, <2>6 DEF RulesFit, CapsScaledOnce, CapMicros
  <2>8. capped' \in Int /\ resaved' \in BOOLEAN
    BY <2>1, <2>2
  <2> QED BY <2>4, <2>5, <2>6, <2>7, <2>8 DEF RulesFit
<1>7. CASE NewRuleSave
  <2> DEFINE dim == RenameMinor(rules[1]).dim
  <2>1. PICK cap \in Nat : /\ rules' = [rules EXCEPT ![1] = [dim |-> dim, cap |-> cap,
                              scaled |-> FALSE]]
                           /\ capped' = cap /\ resaved' = (resaved \/ dim = "spend_units")
    BY <1>7, AmountAssumption DEF NewRuleSave
  <2>2. place' = place
    BY <1>7 DEF NewRuleSave, Write, run
  <2>3. /\ dim \in {"spend_units", "spend_micros"}
        /\ rules[1].dim = "spend_micros" => dim = "spend_micros"
    BY <1>2, RuleOps DEF RulesFit, Rule, Dimensions
  <2>4. rules' \in [1..2 -> Rule] /\ rules'[1] = [dim |-> dim, cap |-> cap, scaled |-> FALSE]
          /\ rules'[2] = rules[2]
    BY <2>1, <2>3 DEF RulesFit, Rule, Dimensions
  <2>5. /\ Past(7, 3)' => Past(7, 3)
        /\ Past(9, 3)' => Past(9, 3)
    BY <2>2 DEF Past
  <2> HIDE DEF dim
  <2>6. resaved' \in BOOLEAN /\ (~resaved' => dim = "spend_micros")
    BY <2>1, <2>3 DEF RulesFit
  <2> QED BY <2>1, <2>3, <2>4, <2>5, <2>6 DEF RulesFit, CapsScaledOnce, CapMicros
<1>8. CASE /\ ~RenameMinorStep /\ ~FinalizeRulesStep
           /\ UNCHANGED <<rules, capped, resaved>>
  BY <1>1, <1>8 DEF RulesFit, CapsScaledOnce, CapMicros
<1> QED BY <1>3, <1>4, <1>5, <1>6, <1>7, <1>8, Untouched

-----------------------------------------------------------------------------
(* A spend bucket: one label at a time, or micros beside the older one.    *)
LEMMA SpendOf ==
  ASSUME NEW a \in Stored, NEW b \in Stored, NEW m \in Stored,
         NEW d, d = [minor |-> a, units |-> b, micros |-> m]
  PROVE  /\ BucketSpend(d, Currency) =
              (IF a = Absent THEN 0 ELSE a * F) + (IF b = Absent THEN 0 ELSE b * F)
                + (IF m = Absent THEN 0 ELSE m)
         /\ BucketSpend(d, Currency) \in Int
<1>1. Factor[Currency] = F /\ F \in Int
  BY FactorPositive DEF F
<1>2. IfNull(Scaled(a, Currency), 0) = IF a = Absent THEN 0 ELSE a * F
  BY <1>1, Products DEF IfNull, Scaled, Stored
<1>3. IfNull(Scaled(b, Currency), 0) = IF b = Absent THEN 0 ELSE b * F
  BY <1>1, Products DEF IfNull, Scaled, Stored
<1>4. d.minor = a /\ d.units = b /\ d.micros = m
  OBVIOUS
<1>5. BucketSpend(d, Currency) =
        (IF a = Absent THEN 0 ELSE a * F) + (IF b = Absent THEN 0 ELSE b * F)
          + (IF m = Absent THEN 0 ELSE m)
  BY <1>2, <1>3, <1>4 DEF BucketSpend, IfNull
<1>6. /\ (IF a = Absent THEN 0 ELSE a * F) \in Int
      /\ (IF b = Absent THEN 0 ELSE b * F) \in Int
      /\ (IF m = Absent THEN 0 ELSE m) \in Int
  BY <1>1 DEF Stored
<1> QED BY <1>5, <1>6

LEMMA BucketStep ==
  ASSUME StandsWhere, BucketFits, [UpgradeNext]_upgradeVars
  PROVE  BucketFits'
<1>1. /\ old' = old /\ (serving' = "old" => serving = "old") /\ old \in {"minor", "units"}
      /\ Past(7, 3)' => Past(7, 3) \/ RenameMinorStep
      /\ Past(9, 4)' => Past(9, 4) \/ (FinalizeCounters /\ NextStep)
      /\ serving = "old" => ~Past(7, 3) /\ ~Past(9, 4)
      /\ Past(9, 4) => Past(7, 3)
  BY NoReturn, NewlyPast, Order DEF StandsWhere
<1>2. PICK a \in Stored, b \in Stored, m \in Stored : bucket = [minor |-> a, units |-> b,
                                                      micros |-> m]
  BY DEF BucketFits, Amount
<1>3. /\ bucket.minor = a /\ bucket.units = b /\ bucket.micros = m
      /\ a = Absent \/ (b = Absent /\ old = "minor")
      /\ serving = "old" /\ old = "minor" => b = Absent
      /\ Past(7, 3) => a = Absent
      /\ Past(9, 4) => b = Absent
      /\ spent \in Int
      /\ spent = (IF a = Absent THEN 0 ELSE a * F) + (IF b = Absent THEN 0 ELSE b * F)
           + (IF m = Absent THEN 0 ELSE m)
  BY <1>2, SpendOf DEF BucketFits, SpendConserved
<1>4. CASE RenameMinorStep
  <2>1. /\ bucket' = RelabelMinor(bucket) /\ spent' = spent /\ serving # "old" /\ ~FinalizeCounters
    BY <1>4, StepOrder, StopSteps DEF RenameMinorStep, StepEnds, ghosts, MigrationStep, Stop
  <2>2. CASE a = Absent
    <3>1. bucket' = bucket
      BY <1>3, <2>1, <2>2 DEF RelabelMinor
    <3> QED BY <1>1, <1>3, <2>1, <2>2, <3>1 DEF BucketFits, SpendConserved
  <2>3. CASE a # Absent
    <3>1. bucket' = [minor |-> Absent, units |-> a, micros |-> m] /\ b = Absent
      BY <1>3, <2>1, <2>3 DEF RelabelMinor
    <3>2. Absent \in Stored /\ bucket' \in Amount
      BY <3>1 DEF Stored, Amount
    <3>3. BucketSpend(bucket', Currency) =
            0 + (IF a = Absent THEN 0 ELSE a * F) + (IF m = Absent THEN 0 ELSE m)
      BY <3>1, <3>2, SpendOf
    <3>4. a * F \in Int /\ (IF m = Absent THEN 0 ELSE m) \in Int
      BY <2>3, Products DEF Stored
    <3>5. BucketSpend(bucket', Currency) = spent
      BY <1>3, <2>3, <3>1, <3>3, <3>4
    <3>6. Past(9, 4)' => Past(9, 4)
      BY <1>1, <2>1
    <3>7. ~Past(9, 4)'
      BY <1>1, <1>3, <2>3, <3>6
    <3> QED BY <1>1, <1>3, <2>1, <3>1, <3>2, <3>5, <3>7 DEF BucketFits, SpendConserved
  <2> QED BY <2>2, <2>3
<1>5. CASE FinalizeCounters
  <2>1. /\ ~RenameMinorStep /\ spent' = spent /\ serving # "old" /\ Past(7, 3)
    BY <1>5, StepOrder, StopSteps, Order DEF FinalizeCounters, StepEnds, ghosts, MigrationStep, Stop
  <2>2. CASE RenameRefused(bucket)
    <3>1. bucket' = bucket /\ place' = <<place[1], 1>> /\ b # Absent
      BY <1>3, <1>5, <2>2 DEF FinalizeCounters, Refused, RenameRefused
    <3>2. ~Past(9, 4) /\ ~Past(9, 4)'
      BY <1>3, <3>1, Standing DEF Past
    <3> QED BY <1>1, <1>3, <2>1, <3>1, <3>2 DEF BucketFits, SpendConserved
  <2>3. CASE ~RenameRefused(bucket) /\ b = Absent
    <3>1. bucket' = bucket
      BY <1>3, <1>5, <2>3 DEF FinalizeCounters, FinalizeBucket
    <3> QED BY <1>1, <1>3, <2>1, <2>3, <3>1 DEF BucketFits, SpendConserved
  <2>4. CASE ~RenameRefused(bucket) /\ b # Absent
    <3>1. m = Absent /\ a = Absent /\ b \in Int
      BY <1>2, <1>3, <2>1, <2>4 DEF RenameRefused, Stored
    <3>2. Scaled(b, Currency) = b * F
      BY <2>4 DEF Scaled, F
    <3>3. bucket' = [minor |-> a, units |-> Absent, micros |-> b * F]
      BY <1>3, <1>5, <2>4, <3>2 DEF FinalizeCounters, FinalizeBucket
    <3>4. b * F \in Stored /\ b * F \in Int /\ b * F # Absent /\ Absent \in Stored
      BY <3>1, Products DEF Stored
    <3>5. BucketSpend(bucket', Currency) =
            (IF a = Absent THEN 0 ELSE a * F) + 0 + (IF b * F = Absent THEN 0 ELSE b * F)
      BY <3>3, <3>4, SpendOf
    <3>6. BucketSpend(bucket', Currency) = spent
      BY <1>3, <2>4, <3>1, <3>4, <3>5
    <3> QED BY <1>1, <1>3, <2>1, <3>1, <3>3, <3>4, <3>6 DEF BucketFits, SpendConserved, Amount
  <2> QED BY <2>2, <2>3, <2>4
<1>6. CASE OldSpend
  <2>1. /\ bucket' = [bucket EXCEPT ![old] = IfNull(@, 0) + 1] /\ spent' = spent + F
        /\ serving = "old" /\ place' = place
    BY <1>6 DEF OldSpend, Write, run
  <2>2. ~Past(7, 3)' /\ ~Past(9, 4)'
    BY <1>1, <2>1 DEF Past
  <2>3. CASE old = "minor"
    <3>1. PICK n \in Int : n = IfNull(a, 0)
      BY <1>2 DEF IfNull, Stored
    <3>2. bucket' = [minor |-> n + 1, units |-> b, micros |-> m] /\ b = Absent
      BY <1>2, <1>3, <2>1, <2>3, <3>1
    <3>3. n + 1 \in Int /\ n + 1 \in Stored /\ n + 1 # Absent /\ (n + 1) * F = n * F + F
            /\ n * F \in Int /\ F \in Int
      BY FactorPositive, AbsentNoAmount DEF Stored
    <3>4. n * F = IF a = Absent THEN 0 ELSE a * F
      BY <3>1, Products DEF IfNull
    <3>5. BucketSpend(bucket', Currency) =
            (IF n + 1 = Absent THEN 0 ELSE (n + 1) * F) + (IF b = Absent THEN 0 ELSE b * F)
              + (IF m = Absent THEN 0 ELSE m)
      BY <3>2, <3>3, SpendOf
    <3>6. (IF m = Absent THEN 0 ELSE m) \in Int
      BY <1>2 DEF Stored
    <3>7. BucketSpend(bucket', Currency) = spent' /\ spent' \in Int
      BY <1>3, <2>1, <3>2, <3>3, <3>4, <3>5, <3>6
    <3>8. bucket' \in Amount /\ bucket'.units = Absent
      BY <3>2, <3>3 DEF Amount
    <3> QED BY <1>1, <2>2, <2>3, <3>7, <3>8 DEF BucketFits, SpendConserved
  <2>4. CASE old = "units"
    <3>1. PICK n \in Int : n = IfNull(b, 0)
      BY <1>2 DEF IfNull, Stored
    <3>2. bucket' = [minor |-> a, units |-> n + 1, micros |-> m] /\ a = Absent
      BY <1>2, <1>3, <2>1, <2>4, <3>1
    <3>3. n + 1 \in Int /\ n + 1 \in Stored /\ n + 1 # Absent /\ (n + 1) * F = n * F + F
            /\ n * F \in Int /\ F \in Int
      BY FactorPositive, AbsentNoAmount DEF Stored
    <3>4. n * F = IF b = Absent THEN 0 ELSE b * F
      BY <3>1, Products DEF IfNull
    <3>5. BucketSpend(bucket', Currency) =
            (IF a = Absent THEN 0 ELSE a * F) + (IF n + 1 = Absent THEN 0 ELSE (n + 1) * F)
              + (IF m = Absent THEN 0 ELSE m)
      BY <3>2, <3>3, SpendOf
    <3>6. (IF m = Absent THEN 0 ELSE m) \in Int
      BY <1>2 DEF Stored
    <3>7. BucketSpend(bucket', Currency) = spent' /\ spent' \in Int
      BY <1>3, <2>1, <3>2, <3>3, <3>4, <3>5, <3>6
    <3>8. bucket' \in Amount /\ bucket'.minor = Absent
      BY <3>2, <3>3 DEF Amount
    <3> QED BY <1>1, <2>2, <2>4, <3>7, <3>8 DEF BucketFits, SpendConserved
  <2> QED BY <1>1, <2>3, <2>4
<1>7. CASE NewSpend
  <2>1. /\ bucket' = CountMicros(bucket, 1) /\ spent' = spent + 1 /\ place' = place
    BY <1>7 DEF NewSpend, Write, run
  <2>2. /\ Past(7, 3)' => Past(7, 3)
        /\ Past(9, 4)' => Past(9, 4)
    BY <2>1 DEF Past
  <2>3. PICK n \in Int : n = IfNull(m, 0)
    BY <1>2 DEF IfNull, Stored
  <2>4. bucket' = [minor |-> a, units |-> b, micros |-> n + 1]
    BY <1>2, <1>3, <2>1, <2>3 DEF CountMicros
  <2>5. n + 1 \in Int /\ n + 1 \in Stored /\ n + 1 # Absent
    BY AbsentNoAmount DEF Stored
  <2>6. BucketSpend(bucket', Currency) =
          (IF a = Absent THEN 0 ELSE a * F) + (IF b = Absent THEN 0 ELSE b * F)
            + (IF n + 1 = Absent THEN 0 ELSE n + 1)
    BY <2>4, <2>5, SpendOf
  <2>7. /\ (IF a = Absent THEN 0 ELSE a * F) \in Int
        /\ (IF b = Absent THEN 0 ELSE b * F) \in Int
        /\ n = IF m = Absent THEN 0 ELSE m
    BY <1>2, <2>3, Products DEF Stored, IfNull
  <2>8. BucketSpend(bucket', Currency) = spent' /\ spent' \in Int
    BY <1>3, <2>1, <2>5, <2>6, <2>7
  <2>9. bucket' \in Amount /\ bucket'.minor = a /\ bucket'.units = b
    BY <2>4, <2>5 DEF Amount
  <2> QED BY <1>1, <1>3, <2>2, <2>8, <2>9 DEF BucketFits, SpendConserved
<1>8. CASE ~RenameMinorStep /\ ~FinalizeCounters /\ UNCHANGED <<bucket, spent>>
  BY <1>1, <1>8 DEF BucketFits, SpendConserved
<1> QED BY <1>4, <1>5, <1>6, <1>7, <1>8, Untouched

-----------------------------------------------------------------------------
(* The entries of a model: each keeps its id, an amount that fits and a    *)
(* cost of its own.                                                        *)
Costs == {Nobody, "units", "micros"} \cup {Catalog[e] : e \in DOMAIN Catalog}
OwnCost(e) == e.cost \in {Nobody, "units", "micros", Catalog[e.id]}

LEMMA CleanupPromotes ==
  ASSUME NEW es, NEW i \in DOMAIN es, \A j \in DOMAIN es : Agrees(es[j])
  PROVE  CleanupEntries(es, Currency)[i] = PromoteStored(es[i], Currency)
<1>1. Factor[Currency] = F /\ es[i] \in Amount /\ Agrees(es[i])
  BY DEF F, Agrees
<1>2. PICK a \in Stored, b \in Stored, m \in Stored : es[i] = [minor |-> a, units |-> b, micros |-> m]
  BY <1>1 DEF Amount
<1>3. CASE b # Absent /\ m = Absent
  BY <1>1, <1>2, <1>3 DEF CleanupEntries, PromoteStored
<1>4. CASE b = Absent
  BY <1>1, <1>2, <1>4 DEF CleanupEntries, PromoteStored
<1>5. CASE b # Absent /\ m # Absent
  <2>1. m = b * F /\ Scaled(b, Currency) = b * F
    BY <1>1, <1>2, <1>5 DEF Agrees, Scaled
  <2>2. [es[i] EXCEPT !.micros = Scaled(b, Currency)] = es[i]
    BY <1>2, <2>1
  <2> QED BY <1>1, <1>2, <1>5, <2>2 DEF CleanupEntries, PromoteStored
<1> QED BY <1>3, <1>4, <1>5

\* Each entry over one step.
EntryTurns(i) ==
  /\ entries'[i] \in Entry
  /\ AmountBecomes(entries[i].price, entries'[i].price)
  /\ OwnCost(entries'[i])

LEMMA EntriesAmountStep ==
  ASSUME StandsWhere, EntriesFit, [UpgradeNext]_upgradeVars, AmountStep
  PROVE  DOMAIN entries' = 1..2 /\ \A i \in 1..2 : EntryTurns(i)
<1>0. /\ DOMAIN entries = 1..2 /\ \A i \in 1..2 : entries[i] \in Entry /\ Agrees(entries[i].price)
           /\ OwnCost(entries[i])
      /\ \A i \in 1..2 : entries[i].price \in Amount
  BY DEF EntriesFit, AmountFits, CostOfItsEntry, OwnCost, Agrees
<1>1. CASE CopyUnitsStep \/ ResyncUnitsStep \/ DropMinorStep \/ DropUnitsStep
  <2> SUFFICES ASSUME NEW i \in 1..2 PROVE DOMAIN entries' = 1..2 /\ EntryTurns(i)
    OBVIOUS
  <2>1. PICK p \in Amount : /\ DOMAIN entries' = 1..2
                            /\ entries'[i] = [entries[i] EXCEPT !.price = p]
                            /\ AmountBecomes(entries[i].price, p)
    <3>1. entries[i].price \in Amount
      BY <1>0
    <3>2. CASE CopyUnitsStep
      <4>1. CopyUnits(entries[i].price) \in Amount
        BY <3>1 DEF CopyUnits, Amount, Stored
      <4> QED BY <1>0, <3>2, <4>1 DEF CopyUnitsStep, OnAmounts, AmountBecomes
    <3>3. CASE ResyncUnitsStep
      <4>1. ResyncUnits(entries[i].price) \in Amount
        BY <3>1 DEF ResyncUnits, Amount, Stored
      <4> QED BY <1>0, <3>3, <4>1 DEF ResyncUnitsStep, OnAmounts, AmountBecomes
    <3>4. CASE DropMinorStep
      <4>1. DropMinor(entries[i].price) \in Amount
        BY <3>1 DEF DropMinor, Amount, Stored
      <4> QED BY <1>0, <3>4, <4>1 DEF DropMinorStep, OnAmounts, AmountBecomes
    <3>5. CASE DropUnitsStep
      <4>1. DropUnits(entries[i].price) \in Amount
        BY <3>1 DEF DropUnits, Amount, Stored
      <4> QED BY <1>0, <3>5, <4>1 DEF DropUnitsStep, OnAmounts, AmountBecomes
    <3> QED BY <1>1, <3>2, <3>3, <3>4, <3>5
  <2>2. entries'[i] \in Entry /\ entries'[i].price = p /\ entries'[i].id = entries[i].id
          /\ entries'[i].cost = entries[i].cost
    BY <1>0, <2>1 DEF Entry
  <2> QED BY <1>0, <2>1, <2>2 DEF EntryTurns, OwnCost
<1>2. CASE CopyMicrosStep
  <2> SUFFICES ASSUME NEW i \in 1..2 PROVE DOMAIN entries' = 1..2 /\ EntryTurns(i)
    OBVIOUS
  <2> DEFINE p == CopyMicros(entries[i].price, Currency)
             c == IF entries[i].cost = "units" THEN "micros" ELSE entries[i].cost
  <2>1. /\ DOMAIN entries' = 1..2
        /\ entries'[i] = [id |-> entries[i].id, price |-> p, cost |-> c]
    BY <1>0, <1>2 DEF CopyMicrosStep, CopyEntryMicros, EntryPrices
  <2>2. p \in Amount /\ c \in Costs
    <3>1. Agrees(p)
      BY <1>0, AmountOps
    <3>2. entries[i].cost \in Costs
      BY <1>0 DEF Entry, Costs
    <3> QED BY <3>1, <3>2 DEF Agrees, Costs
  <2>3. AmountBecomes(entries[i].price, p)
    BY <1>2 DEF AmountBecomes
  <2>4. c \in {Nobody, "units", "micros", Catalog[entries[i].id]}
    BY <1>0 DEF OwnCost
  <2> HIDE DEF p, c
  <2>5. entries'[i] \in Entry /\ entries'[i].price = p /\ entries'[i].id = entries[i].id
          /\ entries'[i].cost = c
    BY <1>0, <2>1, <2>2 DEF Entry, Costs
  <2> QED BY <2>1, <2>3, <2>4, <2>5 DEF EntryTurns, OwnCost
<1>3. CASE PromoteMicrosStep
  <2> SUFFICES ASSUME NEW i \in 1..2 PROVE DOMAIN entries' = 1..2 /\ EntryTurns(i)
    OBVIOUS
  <2> DEFINE p == PromoteStored(entries[i].price, Currency)
  <2>1. CleanupEntries(EntryPrices, Currency)[i] = p
    <3>1. DOMAIN EntryPrices = 1..2 /\ \A j \in DOMAIN EntryPrices : Agrees(EntryPrices[j])
      BY <1>0 DEF EntryPrices
    <3>2. CleanupEntries(EntryPrices, Currency)[i] = PromoteStored(EntryPrices[i], Currency)
      BY <3>1, CleanupPromotes
    <3> QED BY <1>0, <3>2 DEF EntryPrices
  <2>2. DOMAIN entries' = 1..2 /\ entries'[i] = [entries[i] EXCEPT !.price = p]
    BY <1>0, <1>3, <2>1 DEF PromoteMicrosStep
  <2>3. p \in Amount
    <3>1. Agrees(p)
      BY <1>0, AmountOps
    <3> QED BY <3>1 DEF Agrees
  <2>4. AmountBecomes(entries[i].price, p)
    BY <1>3 DEF AmountBecomes
  <2> HIDE DEF p
  <2>5. entries'[i] \in Entry /\ entries'[i].price = p /\ entries'[i].id = entries[i].id
          /\ entries'[i].cost = entries[i].cost
    BY <1>0, <2>2, <2>3 DEF Entry
  <2> QED BY <1>0, <2>2, <2>4, <2>5 DEF EntryTurns, OwnCost
<1> QED BY <1>1, <1>2, <1>3 DEF AmountStep

LEMMA EntriesSaved ==
  ASSUME StandsWhere, EntriesFit, [UpgradeNext]_upgradeVars, ~AmountStep,
         WriteEntries \/ OldEntriesSave \/ NewEntriesSave
  PROVE  DOMAIN entries' = 1..2 /\ \A i \in 1..2 : EntryTurns(i)
<1>0. /\ DOMAIN entries = 1..2 /\ \A i \in 1..2 : entries[i] \in Entry /\ OwnCost(entries[i])
      /\ \A i \in 1..2 : AmountFits(entries[i].price) /\ Agrees(entries[i].price)
                           /\ entries[i].price \in Amount
      /\ Len(entries) = 2
  <2>1. entries \in [1..2 -> Entry]
    BY DEF EntriesFit
  <2>2. entries \in Seq(Entry) /\ Len(entries) = 2
    <3>1. entries \in Seq(Entry)
      BY <2>1, SeqDef
    <3>2. Len(entries) \in Nat /\ 1..Len(entries) = 1..2
      BY <2>1, <3>1, LenProperties
    <3>3. Len(entries) \in Nat
      BY <3>1, LenProperties
    <3>4. 2 \in 1..Len(entries) /\ ~(3 \in 1..Len(entries))
      BY <3>2
    <3>5. \A n \in Nat : 2 \in 1..n /\ ~(3 \in 1..n) => n = 2
      OBVIOUS
    <3> QED BY <3>1, <3>3, <3>4, <3>5, Zenon
  <2> QED BY <2>1, <2>2 DEF EntriesFit, AmountFits, CostOfItsEntry, OwnCost, Agrees
<1> SUFFICES ASSUME NEW i \in 1..2 PROVE DOMAIN entries' = 1..2 /\ EntryTurns(i)
  OBVIOUS
<1>1. CASE WriteEntries
  <2>1. /\ DOMAIN entries' = 1..2
        /\ entries'[i] = entries[i]
             \/ entries'[i] = [entries[i] EXCEPT !.cost = Catalog[entries[i].id]]
    BY <1>0, <1>1 DEF WriteEntries, BackfillCosts
  <2>2. Catalog[entries[i].id] \in Costs
    BY <1>0 DEF Entry, Costs
  <2>3. /\ entries'[i] \in Entry /\ entries'[i].price = entries[i].price
             /\ entries'[i].id = entries[i].id
        /\ entries'[i].cost \in {entries[i].cost, Catalog[entries[i].id]}
    BY <1>0, <2>1, <2>2 DEF Entry, Costs
  <2>4. AmountBecomes(entries[i].price, entries'[i].price)
    BY <2>3 DEF AmountBecomes
  <2> QED BY <1>0, <2>1, <2>3, <2>4 DEF EntryTurns, OwnCost
<1>2. CASE OldEntriesSave
  <2>1. PICK costed \in {0, 1} :
          entries' = [j \in DOMAIN entries |->
              [id |-> entries[Len(entries) + 1 - j].id,
               price |-> Only(old, entries[Len(entries) + 1 - j].price[old]),
               cost |-> IF j = costed \/ entries[Len(entries) + 1 - j].cost = "micros" THEN "units"
                        ELSE entries[Len(entries) + 1 - j].cost]]
    BY <1>2 DEF OldEntriesSave
  <2>2. 2 + 1 - i \in 1..2 /\ serving = "old" /\ old \in {"minor", "units"}
    <3>1. i = 1 \/ i = 2
      OBVIOUS
    <3>2. 2 + 1 - i \in 1..2
      BY <3>1
    <3> QED BY <1>2, <3>2 DEF OldEntriesSave, Write, StandsWhere
  <2> DEFINE k == 2 + 1 - i
             p == Only(old, entries[k].price[old])
             c == IF i = costed \/ entries[k].cost = "micros" THEN "units" ELSE entries[k].cost
  <2>3. DOMAIN entries' = 1..2 /\ entries'[i] = [id |-> entries[k].id, price |-> p, cost |-> c]
    BY <1>0, <2>1
  <2>4. entries[k] \in Entry /\ OwnCost(entries[k]) /\ AmountFits(entries[k].price)
          /\ entries[k].price \in Amount
    BY <1>0, <2>2
  <2> HIDE DEF k
  <2>5. entries[k].price[old] \in Int
    BY <2>2, <2>4 DEF AmountFits, Amount, Stored
  <2>6. p \in Amount
    <3>1. Agrees(p)
      BY <2>2, <2>5, AmountSet
    <3> QED BY <3>1 DEF Agrees
  <2>7. AmountBecomes(entries[i].price, p)
    BY <2>2, <2>5 DEF AmountBecomes
  <2>8. c \in Costs /\ c \in {Nobody, "units", "micros", Catalog[entries[k].id]}
    BY <2>4 DEF OwnCost, Entry, Costs
  <2> HIDE DEF p, c
  <2>9. entries'[i] \in Entry /\ entries'[i].price = p /\ entries'[i].id = entries[k].id
          /\ entries'[i].cost = c
    BY <2>3, <2>4, <2>6, <2>8 DEF Entry, Costs
  <2> QED BY <2>3, <2>7, <2>8, <2>9 DEF EntryTurns, OwnCost
<1>3. CASE NewEntriesSave
  <2> DEFINE p == NormalizeMoney(entries[i].price, Currency)
  <2>1. DOMAIN entries' = 1..2 /\ entries'[i] = [entries[i] EXCEPT !.price = p] /\ serving # "old"
    BY <1>0, <1>3 DEF NewEntriesSave, Write
  <2>2. p \in Amount
    <3>1. Agrees(p)
      BY <1>0, NormalizedAmount
    <3> QED BY <3>1 DEF Agrees
  <2>3. AmountBecomes(entries[i].price, p)
    BY <2>1 DEF AmountBecomes
  <2> HIDE DEF p
  <2>4. entries'[i] \in Entry /\ entries'[i].price = p /\ entries'[i].id = entries[i].id
          /\ entries'[i].cost = entries[i].cost
    BY <1>0, <2>1, <2>2 DEF Entry
  <2> QED BY <1>0, <2>1, <2>3, <2>4 DEF EntryTurns, OwnCost
<1> QED BY <1>1, <1>2, <1>3

LEMMA EntriesStep ==
  ASSUME StandsWhere, EntriesFit, [UpgradeNext]_upgradeVars
  PROVE  EntriesFit'
<1>0. entries \in [1..2 -> Entry] /\ \A i \in 1..2 : OwnCost(entries[i])
        /\ AmountFits(entries[i].price)
  BY DEF EntriesFit, CostOfItsEntry, OwnCost
<1>1. DOMAIN entries' = 1..2 /\ \A i \in 1..2 : EntryTurns(i)
  <2>1. CASE ~AmountStep /\ entries' = entries
    BY <1>0, <2>1 DEF EntryTurns, AmountBecomes
  <2> QED BY <2>1, EntriesAmountStep, EntriesSaved, Untouched
<1>2. entries' \in [1..2 -> Entry]
  <2>1. entries' = [i \in 1..2 |-> entries'[i]]
    <3>1. CASE entries' = entries
      BY <1>0, <3>1
    <3>2. CASE AmountStep
      BY <1>0, <3>2 DEF AmountStep, CopyUnitsStep, CopyMicrosStep, ResyncUnitsStep, DropMinorStep,
         PromoteMicrosStep, DropUnitsStep, OnAmounts
    <3>3. CASE WriteEntries \/ OldEntriesSave \/ NewEntriesSave
      BY <1>0, <3>3 DEF WriteEntries, BackfillCosts, OldEntriesSave, NewEntriesSave
    <3> QED BY <3>1, <3>2, <3>3, Untouched
  <2> QED BY <1>1, <2>1 DEF EntryTurns
<1>3. \A i \in 1..2 : AmountFits(entries[i].price)'
  BY <1>0, <1>1, AmountTurns DEF EntryTurns, AmountFits, Agrees
<1>4. CostOfItsEntry'
  BY <1>1, <1>2 DEF EntryTurns, OwnCost, CostOfItsEntry
<1> QED BY <1>2, <1>3, <1>4 DEF EntriesFit, Entry

-----------------------------------------------------------------------------
(* The metadata of the models: one transaction.                            *)
LEMMA MetadataMoves ==
  ASSUME StandsWhere, MetadataFit, [UpgradeNext]_upgradeVars
  PROVE  MetadataFit'
<1>1. Past(6, 1)' => Past(6, 1) \/ (MetadataStep /\ NextStep)
  BY NewlyPast
<1>2. CASE MetadataStep
  <2>1. CASE \E m \in DOMAIN metadata : MetadataRefused(metadata[m])
    <3>1. metadata' = metadata /\ place' = <<6, 1>>
      <4>1. place[1] = 6
        BY <1>2, StopSteps DEF MigrationStep, Stop
      <4> QED BY <1>2, <2>1, <4>1 DEF MetadataStep, Refused
    <3>2. ~Past(6, 1)'
      BY <3>1 DEF Past
    <3> QED BY <3>1, <3>2 DEF MetadataFit
  <2>2. CASE \A m \in DOMAIN metadata : ~MetadataRefused(metadata[m])
    <3>1. metadata' = [m \in DOMAIN metadata |-> NormalizeMetadata(metadata[m])]
      BY <1>2, <2>2 DEF MetadataStep
    <3>2. ASSUME NEW m \in DOMAIN metadata PROVE NormalizeMetadata(metadata[m]) \subseteq {"text"}
      <4>1. CASE metadata[m] = Nobody
        BY <4>1 DEF NormalizeMetadata
      <4>2. CASE metadata[m] # Nobody
        <5>1. NormalizeMetadata(metadata[m]) = {ConvertValue(v) : v \in metadata[m]}
          BY <4>2 DEF NormalizeMetadata
        <5>2. ~("long" \in NormalizeMetadata(metadata[m])) /\ \A v \in metadata[m] : v # "host"
          BY <2>2, <4>2 DEF MetadataRefused, Inconvertible
        <5>3. \A v \in metadata[m] : v \in ValueKinds /\ v # "host" /\ ConvertValue(v) # "long"
          BY <4>2, <5>1, <5>2 DEF MetadataFit
        <5>4. \A v \in metadata[m] : ConvertValue(v) = "text"
          BY <5>3 DEF ConvertValue, ValueKinds
        <5> QED BY <5>1, <5>4
      <4> QED BY <4>1, <4>2
    <3> QED BY <3>1, <3>2 DEF MetadataFit, ValueKinds
  <2> QED BY <2>1, <2>2
<1>3. CASE ~MetadataStep
  <2>1. metadata' = metadata /\ (Past(6, 1)' => Past(6, 1))
    BY <1>1, <1>3, Untouched
  <2> QED BY <2>1 DEF MetadataFit
<1> QED BY <1>2, <1>3

-----------------------------------------------------------------------------
(* The addresses of customers: the oldest holder of a mailbox keeps it.    *)
LEMMA Emailed ==
  ASSUME StandsWhere
  PROVE  /\ Applied("customer_emails") <=> place[1] > 4
         /\ Past(4, 1) <=> place[1] > 4
         /\ Applied("write_users") <=> place[1] > 8
<1>1. place[1] \in 1..10 /\ DOMAIN Schedule = 1..9 /\ (place[1] = 4 => place[2] = 1)
  <2>1. DOMAIN Schedule = 1..9
    BY DEF Schedule, Pre, Post
  <2>2. CASE place[1] = 4
    <3>1. place[2] \in 1..Len(Schedule[4]) /\ Len(Schedule[4]) = 1
      BY <2>2, Standing, Lengths
    <3> QED BY <2>1, <2>2, <3>1
  <2> QED BY <2>1, <2>2, Standing
<1>2. \A i \in 1..9 : (\E k \in DOMAIN Schedule[i] : Schedule[i][k] = "customer_emails") <=> i = 4
  <2>1. \A i \in 1..9 : i = 1 \/ i = 2 \/ i = 3 \/ i = 4 \/ i = 5 \/ i = 6 \/ i = 7 \/ i = 8 \/ i = 9
    OBVIOUS
  <2> QED BY <2>1, Ladder
<1>3. \A i \in 1..9 : (\E k \in DOMAIN Schedule[i] : Schedule[i][k] = "write_users") <=> i = 8
  <2>1. \A i \in 1..9 : i = 1 \/ i = 2 \/ i = 3 \/ i = 4 \/ i = 5 \/ i = 6 \/ i = 7 \/ i = 8 \/ i = 9
    OBVIOUS
  <2> QED BY <2>1, Ladder
<1>4. Applied("customer_emails") <=> place[1] > 4
  <2>1. Applied("customer_emails") <=> \A i \in 1..9 : i = 4 => place[1] > i
    BY <1>1, <1>2 DEF Applied
  <2> QED BY <2>1
<1>5. Applied("write_users") <=> place[1] > 8
  <2>1. Applied("write_users") <=> \A i \in 1..9 : i = 8 => place[1] > i
    BY <1>1, <1>3 DEF Applied
  <2> QED BY <2>1
<1> QED BY <1>1, <1>4, <1>5 DEF Past

\* A mailbox that is held has an oldest holder.
LEMMA OldestHolder ==
  ASSUME NEW rows \in Seq(CustomerRow), NEW i \in DOMAIN rows, rows[i].email # Nobody
  PROVE  /\ Winner(rows, rows[i].email.box) \in Holders(rows, rows[i].email.box)
         /\ rows[Winner(rows, rows[i].email.box)].age <= rows[i].age
<1> DEFINE H == Holders(rows, rows[i].email.box)
<1>1. i \in H /\ \A j \in H : j \in DOMAIN rows /\ rows[j].age \in Nat
  <2>1. \A j \in DOMAIN rows : rows[j] \in CustomerRow
    BY ElementOfSeq, LenProperties
  <2> QED BY <2>1 DEF Holders, CustomerRow
<1> DEFINE Ages == {rows[j].age : j \in H}
<1>2. PICK n \in Ages : \A m \in Ages : n <= m
  <2>1. Ages \subseteq Nat /\ Ages # {}
    BY <1>1
  <2> HIDE DEF Ages
  <2> QED BY <2>1, Least
<1>3. PICK w \in H : \A j \in H : rows[w].age <= rows[j].age
  BY <1>2
<1> HIDE DEF H
<1>4. \E k \in H : \A j \in H : rows[k].age <= rows[j].age
  BY <1>3
<1>5. /\ Winner(rows, rows[i].email.box) \in H
      /\ \A j \in H : rows[Winner(rows, rows[i].email.box)].age <= rows[j].age
  BY <1>4 DEF Winner, H
<1> QED BY <1>1, <1>5 DEF H

LEMMA CustomersLowered ==
  ASSUME StandsWhere, CustomersFit, [UpgradeNext]_upgradeVars, CustomerEmails
  PROVE  CustomersFit'
<1>1. /\ customers' = [i \in DOMAIN customers |-> RepairCustomer(customers, i)] /\ indexed' = indexed
      /\ ~Past(4, 1)
  BY StepOrder DEF CustomerEmails, LowerCustomerEmails, MigrationStep
<1>2. /\ \A i \in DOMAIN customers : customers[i] \in CustomerRow /\ customers[i].email \in Address
      /\ DOMAIN customers = 1..Len(customers) /\ Len(customers) \in Nat
  BY <1>1, ElementOfSeq, LenProperties DEF CustomersFit
<1>3. \A i \in DOMAIN customers : customers[i].email # Nobody
  BY <1>2, NobodyAssumption
<1>4. ASSUME NEW i \in DOMAIN customers
      PROVE  /\ customers'[i] \in CustomerRow /\ customers'[i].age = customers[i].age
             /\ customers'[i].email = Nobody =>
                  /\ i # Winner(customers, customers[i].email.box)
                  /\ customers'[i].kept = customers[i].email
             /\ i = Winner(customers, customers[i].email.box)
                  => customers'[i].email = Lower(customers[i].email)
  <2>1. customers'[i] = RepairCustomer(customers, i)
    BY <1>1
  <2>2. Lower(customers[i].email) \in Address /\ Lower(customers[i].email) # Nobody
    BY <1>2, NobodyAssumption DEF Lower, Address
  <2>3. CASE i = Winner(customers, customers[i].email.box)
    <3>1. customers'[i] = [customers[i] EXCEPT !.email = Lower(customers[i].email)]
      BY <1>3, <2>1, <2>3 DEF RepairCustomer
    <3>2. \A r \in CustomerRow : \A a \in Address :
             /\ [r EXCEPT !.email = a] \in CustomerRow /\ [r EXCEPT !.email = a].age = r.age
             /\ [r EXCEPT !.email = a].email = a
      BY DEF CustomerRow
    <3>3. customers'[i] \in CustomerRow /\ customers'[i].age = customers[i].age
          /\ customers'[i].email = Lower(customers[i].email)
      BY <1>2, <2>2, <3>1, <3>2
    <3> QED BY <2>2, <2>3, <3>3
  <2>4. CASE i # Winner(customers, customers[i].email.box)
    <3>1. customers'[i] = [age |-> customers[i].age, email |-> Nobody, kept |-> customers[i].email]
      BY <1>3, <2>1, <2>4 DEF RepairCustomer
    <3> QED BY <1>2, <2>4, <3>1 DEF CustomerRow
  <2> QED BY <2>3, <2>4
<1>5. /\ customers' \in Seq(CustomerRow) /\ DOMAIN customers' = DOMAIN customers
      /\ Len(customers') = Len(customers)
  <2>1. customers' \in [1..Len(customers) -> CustomerRow]
    BY <1>1, <1>2, <1>4
  <2>2. customers' \in Seq(CustomerRow)
    BY <1>2, <2>1, SeqDef
  <2>3. Len(customers') = Len(customers)
    BY <1>2, <2>1, <2>2, LenProperties
  <2> QED BY <1>1, <2>2, <2>3
<1>6. ASSUME NEW i \in DOMAIN customers, customers'[i].email = Nobody
      PROVE  /\ customers'[i].kept # Nobody
             /\ \E j \in DOMAIN customers : /\ customers'[j].age < customers'[i].age
                                            /\ customers'[j].email = Lower(customers'[i].kept)
  <2>1. PICK w : w = Winner(customers, customers[i].email.box)
    OBVIOUS
  <2>2. /\ w \in DOMAIN customers /\ customers[w].email.box = customers[i].email.box
        /\ customers[w].age <= customers[i].age
    BY <1>3, <2>1, OldestHolder DEF Holders, CustomersFit
  <2>3. w # i /\ customers'[i].kept = customers[i].email
    BY <1>4, <1>6, <2>1
  <2>4. customers[w].age # customers[i].age /\ customers[w].age \in Nat /\ customers[i].age \in Nat
    BY <1>2, <2>2, <2>3 DEF CustomersFit, CustomerRow
  <2>5. customers'[w].age < customers'[i].age
    BY <1>4, <2>2, <2>4
  <2>6. customers'[w].email = Lower(customers[w].email)
    BY <1>4, <2>1, <2>2
  <2>7. Lower(customers[w].email) = Lower(customers[i].email)
    BY <1>2, <2>2 DEF Lower, Address
  <2> QED BY <1>3, <2>2, <2>3, <2>5, <2>6, <2>7
<1>7. DisplacedHasOwner'
  BY <1>5, <1>6 DEF DisplacedHasOwner
<1>8. /\ \A i \in DOMAIN customers' : customers'[i].age \in 1..Len(customers')
      /\ \A i, j \in DOMAIN customers' : customers'[i].age = customers'[j].age => i = j
  BY <1>4, <1>5 DEF CustomersFit
<1>9. Past(4, 1)'
  <2>1. place = <<4, 1>> /\ NextStep /\ Len(Schedule[4]) = 1
    <3>1. Stop(4, 1) /\ NextStep
      BY StopSteps DEF CustomerEmails, StepEnds, MigrationStep
    <3> QED BY <3>1, Standing, Lengths DEF Stop
  <2> QED BY <2>1 DEF NextStep, Past
<1> QED BY <1>1, <1>5, <1>7, <1>8, <1>9 DEF CustomersFit

LEMMA CustomersStep ==
  ASSUME StandsWhere, StandsWhere', CustomersFit, [UpgradeNext]_upgradeVars
  PROVE  CustomersFit'
<1>1. ASSUME ~CustomerEmails
      PROVE  /\ Past(4, 1) <=> Past(4, 1)'
             /\ Applied("customer_emails") <=> Applied("customer_emails")'
  <2>1. Past(4, 1) <=> Applied("customer_emails")
    BY Emailed
  <2>2. (Past(4, 1) <=> Applied("customer_emails"))' /\ (Past(4, 1) <=> place[1] > 4)'
    BY Emailed, PTL
  <2>3. Past(4, 1)' => Past(4, 1)
    BY <1>1, NewlyPast
  <2>4. Past(4, 1) => Past(4, 1)'
    BY Emailed, Standing, NoReturn DEF Past
  <2> QED BY <2>1, <2>2, <2>3, <2>4
<1>2. CASE ~CustomerEmails /\ customers' = customers /\ indexed' \in BOOLEAN
  BY <1>1, <1>2 DEF CustomersFit, DisplacedHasOwner
<1>3. CASE ~CustomerEmails /\ NewCustomer
  <2>0. PICK box \in Mailboxes :
          /\ customers' = Append(customers, [age |-> Len(customers) + 1,
                                             email |-> [box |-> box, lower |-> TRUE],
                                             kept |-> Nobody])
          /\ indexed' = indexed
    BY <1>3 DEF NewCustomer
  <2>1. PICK row :
          /\ row = [age |-> Len(customers) + 1, email |-> [box |-> box, lower |-> TRUE],
             kept |-> Nobody]
          /\ customers' = Append(customers, row) /\ indexed' = indexed
    BY <2>0
  <2>2. /\ Len(customers) \in Nat /\ DOMAIN customers = 1..Len(customers)
        /\ customers \in Seq(CustomerRow)
    BY LenProperties DEF CustomersFit
  <2>3. row \in CustomerRow /\ row.age = Len(customers) + 1 /\ row.email \in Address
          /\ row.email # Nobody
    <3>1. [box |-> box, lower |-> TRUE] \in Address
      BY DEF Address
    <3>2. PICK n \in Nat : n = Len(customers) + 1
      BY <2>2
    <3>3. row = [age |-> n, email |-> [box |-> box, lower |-> TRUE], kept |-> Nobody]
      BY <2>1, <3>2
    <3>4. row \in CustomerRow /\ row.age = n /\ row.email = [box |-> box, lower |-> TRUE]
      BY <3>1, <3>3 DEF CustomerRow
    <3> QED BY <3>1, <3>2, <3>4, NobodyAssumption
  <2>4. /\ customers' \in Seq(CustomerRow) /\ Len(customers') = Len(customers) + 1
        /\ DOMAIN customers' = 1..Len(customers')
        /\ \A i \in 1..Len(customers) : customers'[i] = customers[i]
        /\ customers'[Len(customers) + 1] = row
    BY <2>1, <2>2, <2>3, AppendProperties, LenProperties
  <2>5. \A i \in DOMAIN customers' : i \in DOMAIN customers \/ i = Len(customers) + 1
    BY <2>2, <2>4
  <2>6. \A i \in DOMAIN customers : customers[i].age \in 1..Len(customers)
    BY DEF CustomersFit
  <2>7. /\ \A i \in DOMAIN customers' : customers'[i].age \in 1..Len(customers')
        /\ \A i, j \in DOMAIN customers' : customers'[i].age = customers'[j].age => i = j
    <3>1. \A i \in DOMAIN customers : customers'[i].age = customers[i].age
                                        /\ customers[i].age # Len(customers) + 1
      BY <2>2, <2>4, <2>6
    <3>2. \A i \in DOMAIN customers : customers[i].age \in 1..(Len(customers) + 1)
      BY <2>2, <2>6
    <3>3. Len(customers) + 1 \in 1..(Len(customers) + 1)
      BY <2>2
    <3> QED BY <2>3, <2>4, <2>5, <3>1, <3>2, <3>3 DEF CustomersFit
  <2>8. ~Past(4, 1)' => \A i \in DOMAIN customers' : customers'[i].email \in Address
    BY <1>1, <1>3, <2>2, <2>3, <2>4, <2>5 DEF CustomersFit
  <2>9. DisplacedHasOwner'
    <3> SUFFICES ASSUME Applied("customer_emails")', NEW i \in DOMAIN customers',
                        customers'[i].email = Nobody
                 PROVE  /\ customers'[i].kept # Nobody
                        /\ \E j \in DOMAIN customers' : /\ customers'[j].age < customers'[i].age
                                                        /\ customers'[j].email = Lower(customers'[i].kept)
      BY DEF DisplacedHasOwner
    <3>1. i \in DOMAIN customers /\ customers'[i] = customers[i]
      BY <2>2, <2>3, <2>4, <2>5
    <3>2. /\ customers[i].kept # Nobody
          /\ \E j \in DOMAIN customers : /\ customers[j].age < customers[i].age
                                         /\ customers[j].email = Lower(customers[i].kept)
      BY <1>1, <1>3, <3>1 DEF CustomersFit, DisplacedHasOwner
    <3>3. \A j \in DOMAIN customers : j \in DOMAIN customers' /\ customers'[j] = customers[j]
      BY <2>2, <2>4
    <3> QED BY <3>1, <3>2, <3>3
  <2>10. indexed' \in BOOLEAN
    BY <2>1 DEF CustomersFit
  <2> QED BY <2>4, <2>7, <2>8, <2>9, <2>10 DEF CustomersFit
<1>4. EmailIndex => customers' = customers /\ indexed' \in BOOLEAN
  BY DEF EmailIndex, CustomersFit
<1>5. UNCHANGED <<customers, indexed>> => customers' = customers /\ indexed' \in BOOLEAN
  BY DEF CustomersFit
<1> QED BY <1>2, <1>3, <1>4, <1>5, CustomersLowered, Untouched

-----------------------------------------------------------------------------
(* The addresses of users.                                                 *)
LEMMA SeenStays ==
  ASSUME StandsWhere, [UpgradeNext]_upgradeVars, Past(8, 1)', ~Past(8, 2)'
  PROVE  (ReadUsers /\ NextStep) \/ (Past(8, 1) /\ ~Past(8, 2) /\ ~WriteUsers /\ seen' = seen)
<1> SUFFICES ASSUME ~(ReadUsers /\ NextStep)
             PROVE  Past(8, 1) /\ ~Past(8, 2) /\ ~WriteUsers /\ seen' = seen
  OBVIOUS
<1>1. Past(8, 1)
  BY NewlyPast
<1>2. place'[1] \in {place[1], place[1] + 1} /\ place[1] \in 1..10 /\ place[2] \in 1..5
  BY NoReturn, Standing
<1>3. place'[1] = 8 /\ place[1] = 8
  BY <1>1, <1>2 DEF Past
<1>4. place' # <<8, 1>>
  BY <1>3 DEF Past
<1>5. ~Crash /\ ~Back
  BY <1>3, <1>4 DEF Crash, Back
<1>6. CASE MigrationStep
  <2>1. NextStep /\ Len(Schedule[8]) = 3
    BY <1>5, <1>6, MigrationTurns, Lengths DEF Onward
  <2>2. ~Past(8, 2)
    BY <1>2, <1>3, <2>1 DEF NextStep, Past
  <2>3. Stop(8, 2)
    BY <1>1, <1>2, <1>3, <2>2 DEF Past, Stop
  <2>4. Past(8, 2)'
    BY <2>1, <2>3 DEF NextStep, Past, Stop
  <2> QED BY <2>4
<1>7. CASE ~MigrationStep
  <2>1. UNCHANGED <<place, seen>>
    <3>1. CASE StopOld \/ StartNew \/ UNCHANGED upgradeVars
      BY <3>1 DEF StopOld, StartNew, upgradeVars, run
    <3>2. CASE OldWrite \/ NewWrite
      BY <3>2, WritesStay DEF run
    <3> QED BY <1>5, <1>7, <3>1, <3>2 DEF UpgradeNext
  <2> QED BY <1>1, <1>7, <2>1 DEF Past, MigrationStep
<1> QED BY <1>6, <1>7

LEMMA Lowered ==
  ASSUME NEW a \in Address
  PROVE  /\ Lower(a) \in Address /\ Lower(a).lower = TRUE /\ Lower(a).box = a.box
         /\ a.lower => Lower(a) = a
BY DEF Lower, Address

LEMMA UsersStep ==
  ASSUME StandsWhere, UsersFit, [UpgradeNext]_upgradeVars
  PROVE  UsersFit'
<1>0. /\ users \in Seq(Address) /\ Len(users) \in Nat /\ Len(users) > 0
           /\ DOMAIN users = 1..Len(users)
      /\ \A i \in DOMAIN users : users[i] \in Address /\ users[i].lower \in BOOLEAN
      /\ \A i, j \in DOMAIN users : users[i] = users[j] => i = j
      /\ \A i \in DOMAIN users : i # 1 \/ Past(8, 2) => users[i].lower
      /\ Past(8, 1) /\ ~Past(8, 2) => 1 \in DOMAIN seen
      /\ 1 \in DOMAIN users
  <2>1. users \in Seq(Address) /\ Len(users) > 0
    BY DEF UsersFit
  <2>2. Len(users) \in Nat /\ DOMAIN users = 1..Len(users)
          /\ \A i \in DOMAIN users : users[i] \in Address
    BY <2>1, LenProperties, ElementOfSeq
  <2>3. 1 \in DOMAIN users
    BY <2>1, <2>2
  <2> QED BY <2>1, <2>2, <2>3 DEF UsersFit, Address
<1>1. /\ Past(8, 2)' => Past(8, 2) \/ (WriteUsers /\ NextStep)
      /\ Past(8, 1)' => Past(8, 1) \/ (ReadUsers /\ NextStep)
  BY NewlyPast
<1>2. ASSUME ~WriteUsers, users' = users \/ NewSignup, NEW n \in Nat, n = Len(users)
      PROVE  Past(8, 1)' /\ ~Past(8, 2)' => 1 \in DOMAIN seen'
  <2> SUFFICES ASSUME Past(8, 1)', ~Past(8, 2)' PROVE 1 \in DOMAIN seen'
    OBVIOUS
  <2>1. CASE ReadUsers /\ NextStep
    <3>1. seen' = users
      <4>1. CASE UsersCollide(users)
        <5>1. place' = <<8, 1>>
          <6>1. Stop(8, 1)
            BY <2>1, StopSteps DEF MigrationStep
          <6> QED BY <2>1, <4>1, <6>1 DEF ReadUsers, Refused, Stop
        <5> QED BY <5>1 DEF Past
      <4>2. CASE ~UsersCollide(users)
        BY <2>1, <4>2 DEF ReadUsers
      <4> QED BY <4>1, <4>2
    <3> QED BY <1>0, <3>1
  <2>2. CASE Past(8, 1) /\ ~Past(8, 2) /\ seen' = seen
    BY <1>0, <2>2
  <2> QED BY <2>1, <2>2, SeenStays
<1>3. CASE ~WriteUsers /\ users' = users
  <2>1. Past(8, 2)' => Past(8, 2)
    BY <1>1, <1>3
  <2>2. Past(8, 1)' /\ ~Past(8, 2)' => 1 \in DOMAIN seen'
    BY <1>0, <1>2, <1>3
  <2> QED BY <1>0, <1>3, <2>1, <2>2 DEF UsersFit
<1>4. CASE ~WriteUsers /\ NewSignup
  <2>1. PICK email \in Address :
          /\ email.lower = TRUE /\ users' = Append(users, email)
          /\ \A i \in DOMAIN users : users[i] # email
    <3>1. \A box \in Mailboxes : [box |-> box, lower |-> TRUE] \in Address
      BY DEF Address
    <3>2. PICK box \in Mailboxes :
            /\ \A i \in DOMAIN users : users[i] # [box |-> box, lower |-> TRUE]
            /\ users' = Append(users, [box |-> box, lower |-> TRUE])
      BY <1>4 DEF NewSignup
    <3> QED BY <3>1, <3>2
  <2>2. /\ users' \in Seq(Address) /\ Len(users') = Len(users) + 1
        /\ DOMAIN users' = 1..Len(users')
        /\ \A i \in DOMAIN users : users'[i] = users[i]
        /\ users'[Len(users) + 1] = email
    BY <1>0, <2>1, AppendProperties, LenProperties
  <2>3. \A i \in DOMAIN users' : i \in DOMAIN users \/ i = Len(users) + 1
    BY <1>0, <2>2
  <2>4. Len(users) + 1 # 1 /\ Len(users') > 0
    BY <1>0, <2>2
  <2>5. Past(8, 2)' => Past(8, 2)
    BY <1>1, <1>4
  <2>6. Past(8, 1)' /\ ~Past(8, 2)' => 1 \in DOMAIN seen'
    BY <1>0, <1>2, <1>4
  <2>7. \A i, j \in DOMAIN users' : users'[i] = users'[j] => i = j
    BY <1>0, <2>1, <2>2, <2>3
  <2>8. \A i \in DOMAIN users' : i # 1 \/ Past(8, 2)' => users'[i].lower
    <3> SUFFICES ASSUME NEW i \in DOMAIN users', i # 1 \/ Past(8, 2)' PROVE users'[i].lower
      OBVIOUS
    <3>1. CASE i \in DOMAIN users
      BY <1>0, <2>2, <2>5, <3>1
    <3>2. CASE i = Len(users) + 1
      BY <2>1, <2>2, <3>2
    <3> QED BY <2>3, <3>1, <3>2
  <2> QED BY <2>2, <2>4, <2>6, <2>7, <2>8 DEF UsersFit
<1>5. CASE WriteUsers
  <2>1. /\ Past(8, 1) /\ ~Past(8, 2) /\ place = <<8, 2>> /\ 1 \in DOMAIN seen
    BY <1>0, <1>5, StepOrder, StopSteps, Standing DEF MigrationStep, Stop
  <2>2. users' = [i \in DOMAIN users |->
                    IF i \in DOMAIN seen /\ Lowerable(i) THEN Lower(users[i]) ELSE users[i]]
    BY <1>5 DEF WriteUsers
  <2>3. /\ users' \in Seq(Address) /\ DOMAIN users' = DOMAIN users /\ Len(users') = Len(users)
        /\ \A i \in DOMAIN users : /\ i \in DOMAIN seen /\ Lowerable(i) => users'[i] = Lower(users[i])
                                   /\ ~(i \in DOMAIN seen /\ Lowerable(i)) => users'[i] = users[i]
    <3>1. \A i \in DOMAIN users : users'[i] \in Address
      BY <1>0, <2>2, Lowered
    <3>2. users' \in [1..Len(users) -> Address]
      BY <1>0, <2>2, <3>1
    <3>3. users' \in Seq(Address)
      BY <1>0, <3>2, SeqDef
    <3>4. Len(users') = Len(users)
      BY <1>0, <3>2, <3>3, LenProperties
    <3> QED BY <2>2, <3>3, <3>4
  <2>4. \A i \in DOMAIN users : i # 1 => users[i].lower /\ Lower(users[i]) = users[i]
    BY <1>0, Lowered
  <2>5. ASSUME NEW i \in DOMAIN users, NEW j \in DOMAIN users, i # j, users'[i] = users'[j], j # 1
        PROVE  FALSE
    <3>1. users'[j] = users[j]
      BY <2>3, <2>4, <2>5
    <3>2. users'[i] # users[i]
      BY <1>0, <2>5, <3>1
    <3>3. Lowerable(i) /\ users'[i] = Lower(users[i])
      BY <2>3, <3>2
    <3> QED BY <2>5, <3>1, <3>3 DEF Lowerable
  <2>6. \A i, j \in DOMAIN users' : users'[i] = users'[j] => i = j
    BY <2>3, <2>5
  <2>7. \A i \in DOMAIN users' : i # 1 => users'[i].lower
    BY <1>0, <2>3, <2>4
  <2>8. CASE \A i \in DOMAIN seen : Lowerable(i)
    <3>1. NextStep
      BY <1>5, <2>8 DEF WriteUsers
    <3>2. Past(8, 2)'
      <4>1. place' = <<8, 3>>
        <5>1. Len(Schedule[8]) = 3 /\ place = <<8, 2>>
          BY <2>1, Lengths
        <5>2. QED
          BY <3>1, <5>1 DEF NextStep
      <4>2. QED
        BY <4>1 DEF Past
    <3>3. users'[1].lower
      <4>1. 1 \in DOMAIN seen /\ Lowerable(1)
        BY <2>1, <2>8
      <4>2. 1 \in DOMAIN users /\ users[1] \in Address
        BY <1>0, <4>1
      <4>3. users'[1] = Lower(users[1])
        BY <2>2, <4>1, <4>2
      <4>4. QED
        BY <4>2, <4>3, Lowered
    <3> QED BY <1>0, <2>3, <2>6, <2>7, <3>2, <3>3 DEF UsersFit
  <2>9. CASE ~\A i \in DOMAIN seen : Lowerable(i)
    <3>1. place' = <<8, 1>>
      BY <1>5, <2>1, <2>9 DEF WriteUsers, Refused
    <3>2. ~Past(8, 1)' /\ ~Past(8, 2)'
      BY <3>1 DEF Past
    <3> QED BY <1>0, <2>3, <2>6, <2>7, <3>2 DEF UsersFit
  <2> QED BY <2>8, <2>9
<1> QED BY <1>3, <1>4, <1>5, Untouched

-----------------------------------------------------------------------------
(* The invariant.                                                          *)
LEMMA DataInit == UpgradeInit => DataInv
<1> SUFFICES ASSUME UpgradeInit PROVE DataInv
  OBVIOUS
<1>1. old \in {"minor", "units"} /\ old \in OldReleases /\ serving = "old"
  BY OldAssumption DEF UpgradeInit
<1>2. place = IF old = "minor" THEN <<1, 1>> ELSE <<2, 1>>
  BY DEF UpgradeInit
<1>3. /\ ~Past(2, 1) /\ ~Past(4, 1) /\ ~Past(6, 1) /\ ~Past(7, 1) /\ ~Past(7, 2) /\ ~Past(7, 3)
      /\ ~Past(8, 1) /\ ~Past(8, 2) /\ ~Past(9, 1) /\ ~Past(9, 3) /\ ~Past(9, 4)
      /\ old = "minor" => ~Past(1, 1)
  BY <1>1, <1>2 DEF Past
<1>4. StandsWhere
  <2>1. place \in Stops
    <3>1. 1 <= Len(Schedule[1]) /\ 1 <= Len(Schedule[2])
      BY Lengths
    <3>2. <<1, 1>> \in Stops /\ <<2, 1>> \in Stops
      BY <3>1 DEF Stops
    <3> QED BY <1>1, <1>2, <3>2
  <2>2. place[1] \in {1, 2} /\ (old = "units" => place[1] = 2)
    BY <1>1, <1>2
  <2>3. blocked = FALSE /\ writes = 0 /\ crashes = 0
    BY DEF UpgradeInit
  <2>4. 0 \in 0..MaxWrites /\ 0 \in 0..MaxCrashes
    BY BoundAssumption
  <2>5. writes \in 0..MaxWrites /\ crashes \in 0..MaxCrashes /\ blocked \in BOOLEAN
    BY <2>3, <2>4
  <2>6. place[1] <= 4 /\ (old = "units" => place[1] >= 2)
    BY <2>2
  <2> QED BY <1>1, <2>1, <2>5, <2>6 DEF StandsWhere
<1>5. PICK amount \in Int, ids \in [1..2 -> DOMAIN Catalog] :
        /\ balance = Only(old, amount) /\ ledger = amount * F
        /\ price = Only(old, amount)
        /\ entries = [i \in 1..2 |-> [id |-> ids[i], price |-> Only(old, amount), cost |-> Nobody]]
  BY AmountAssumption DEF UpgradeInit
<1>6. /\ Agrees(Only(old, amount)) /\ Only(old, amount)[old] = amount /\ amount # Absent
           /\ amount * F \in Int
      /\ Only(old, amount).micros = Absent
      /\ old = "minor" => Only(old, amount).units = Absent
      /\ old = "units" => Only(old, amount).minor = Absent
  <2>1. amount # Absent /\ amount * F \in Int
    BY Products
  <2>2. CASE old = "minor"
    <3>1. "minor" \in {"minor", "units", "micros"}
            /\ {"units", "micros"} \subseteq {"minor", "units", "micros"} \ {"minor"}
      OBVIOUS
    <3> QED BY <2>1, <2>2, <3>1, AmountSet
  <2>3. CASE old = "units"
    <3>1. "units" \in {"minor", "units", "micros"}
            /\ {"minor", "micros"} \subseteq {"minor", "units", "micros"} \ {"units"}
      OBVIOUS
    <3> QED BY <2>1, <2>3, <3>1, AmountSet
  <2> QED BY <1>1, <2>2, <2>3
<1>7. BalanceFits
  <2>1. missed = 0 /\ ledger \in Int /\ balance \in Amount
    BY <1>5, <1>6 DEF UpgradeInit, Agrees
  <2>2. balance[old] # Absent /\ ledger = balance[old] * F /\ balance.micros = Absent
        /\ (old = "minor" => balance.units = Absent) /\ (old = "units" => balance.minor = Absent)
        /\ (old = "units" => balance.units # Absent)
    BY <1>1, <1>5, <1>6
  <2> QED BY <1>1, <1>3, <2>1, <2>2 DEF BalanceFits, OnlyLateWritesLost
<1>8. AmountFits(Only(old, amount))
  BY <1>1, <1>3, <1>6 DEF AmountFits
<1>9. RulesFit
  <2>1. PICK cap \in Nat :
          /\ rules = << [dim |-> OldDim, cap |-> cap, scaled |-> FALSE],
                        [dim |-> "tokens", cap |-> TokenCap, scaled |-> FALSE] >>
          /\ capped = cap * F
    BY AmountAssumption DEF UpgradeInit
  <2>2. OldDim \in {"spend_minor", "spend_units"} /\ resaved = FALSE /\ cap * F \in Int
    BY FactorPositive DEF OldDim, UpgradeInit
  <2>3. rules[1] = [dim |-> OldDim, cap |-> cap, scaled |-> FALSE]
        /\ rules[2] = [dim |-> "tokens", cap |-> TokenCap, scaled |-> FALSE]
        /\ rules \in [1..2 -> Rule]
    <3>1. [dim |-> OldDim, cap |-> cap, scaled |-> FALSE] \in Rule
      BY <2>2 DEF Rule, Dimensions
    <3>2. [dim |-> "tokens", cap |-> TokenCap, scaled |-> FALSE] \in Rule
      BY AmountAssumption DEF Rule, Dimensions
    <3>3. \A r, s \in Rule : <<r, s>> \in [1..2 -> Rule] /\ <<r, s>>[1] = r /\ <<r, s>>[2] = s
      OBVIOUS
    <3> QED BY <2>1, <3>1, <3>2, <3>3
  <2>4. CapMicros(rules[1]) = cap * F
    BY <2>2, <2>3 DEF CapMicros
  <2> QED BY <1>3, <2>1, <2>2, <2>3, <2>4 DEF RulesFit, CapsScaledOnce
<1>10. BucketFits
  <2>1. bucket = [minor |-> Absent, units |-> Absent, micros |-> Absent] /\ spent = 0
          /\ Absent \in Stored
    BY DEF UpgradeInit, None, Stored
  <2>2. BucketSpend(bucket, Currency) = 0
    BY <2>1, SpendOf
  <2> QED BY <1>1, <1>3, <2>1, <2>2 DEF BucketFits, SpendConserved, Amount
<1>11. EntriesFit
  <2>1. \A i \in 1..2 : entries[i] = [id |-> ids[i], price |-> Only(old, amount), cost |-> Nobody]
    BY <1>5
  <2>2. entries \in [1..2 -> Entry]
    BY <1>5, <1>6 DEF Entry, Agrees
  <2> QED BY <1>8, <2>1, <2>2 DEF EntriesFit, CostOfItsEntry
<1>12. MetadataFit
  BY <1>3, MetadataAssumption DEF UpgradeInit, MetadataFit
<1>13. CustomersFit
  <2>1. customers \in CustomerSets /\ indexed = FALSE
    BY DEF UpgradeInit
  <2>2. DOMAIN customers = 1..Len(customers)
    BY <2>1, CustomerAssumption, LenProperties
  <2>3. ~Applied("customer_emails")
    BY <1>3, <1>4, Emailed
  <2> QED BY <1>3, <2>1, <2>2, <2>3, CustomerAssumption DEF CustomersFit, DisplacedHasOwner
<1>14. UsersFit
  <2>1. PICK email \in Address : users = <<email>>
    BY DEF UpgradeInit, Address
  <2> QED BY <1>3, <2>1 DEF UsersFit
<1> QED BY <1>4, <1>5, <1>7, <1>8, <1>9, <1>10, <1>11, <1>12, <1>13, <1>14 DEF DataInv

LEMMA DataInvStep == DataInv /\ [UpgradeNext]_upgradeVars => DataInv'
<1> SUFFICES ASSUME DataInv, [UpgradeNext]_upgradeVars PROVE DataInv'
  OBVIOUS
<1>1. StandsWhere'
  BY StandsStep DEF DataInv
<1>2. BalanceFits' /\ AmountFits(price)'
  BY BalanceStep, PriceStep DEF DataInv
<1>3. RulesFit' /\ BucketFits' /\ EntriesFit'
  BY RulesStep, BucketStep, EntriesStep DEF DataInv
<1>4. MetadataFit' /\ CustomersFit' /\ UsersFit'
  BY <1>1, MetadataMoves, CustomersStep, UsersStep DEF DataInv
<1> QED BY <1>1, <1>2, <1>3, <1>4 DEF DataInv

\* The documents of an upgrade fit where its migrations stand, whatever
\* crashes, reruns and writes of the serving release came before.
THEOREM DocumentsFit == UpgradeSpec => []DataInv
BY DataInit, DataInvStep, PTL DEF UpgradeSpec

\* Balances, caps and counted spend stand for what was written: only what
\* the old release adds after the copy is missing.
THEOREM MoneyIsConserved == UpgradeSpec => []MoneyConserved
<1>1. DataInv => MoneyConserved
  BY DEF DataInv, BalanceFits, RulesFit, BucketFits, MoneyConserved
<1> QED BY <1>1, DocumentsFit, PTL

\* Every document is typed and ends as the new schema wants it.
THEOREM DocumentsAreRepaired == UpgradeSpec => []DocumentsRepaired
<1>1. ASSUME DataInv PROVE DocumentsRepaired
  <2>1. StandsWhere
    BY <1>1 DEF DataInv
  <2>2. entries \in [1..2 -> Entry] /\ \A i \in 1..2 : AmountFits(entries[i].price)
          /\ entries[i].price \in Amount
    BY <1>1 DEF DataInv, EntriesFit, AmountFits, Agrees
  <2>3. DocumentsTyped
    BY <1>1, <2>2 DEF DataInv, DocumentsTyped, StandsWhere, BalanceFits, AmountFits, Agrees, RulesFit,
       BucketFits, CustomersFit
  <2>4. CostOfItsEntry /\ DisplacedHasOwner
    BY <1>1 DEF DataInv, EntriesFit, CustomersFit
  <2>5. SchemaDecodes
    <3> SUFFICES ASSUME Done PROVE SchemaDecodes
      BY DEF SchemaDecodes
    <3>1. /\ Past(2, 1) /\ Past(6, 1) /\ Past(7, 3) /\ Past(9, 1) /\ Past(9, 3) /\ Past(9, 4)
      BY <2>1, Standing DEF Past
    <3>2. balance.micros # Absent /\ price.micros # Absent
      BY <1>1, <3>1 DEF DataInv, BalanceFits, AmountFits
    <3>3. \A i \in DOMAIN entries : entries[i].price.micros # Absent
      BY <2>2, <3>1 DEF AmountFits
    <3>4. /\ bucket.minor = Absent /\ bucket.units = Absent
          /\ rules[1].dim = "spend_micros" /\ ~rules[1].scaled
      BY <1>1, <3>1 DEF DataInv, BucketFits, RulesFit
    <3>5. \A m \in DOMAIN metadata : metadata[m] \subseteq {"text"}
      BY <1>1, <3>1 DEF DataInv, MetadataFit
    <3> QED BY <3>2, <3>3, <3>4, <3>5 DEF SchemaDecodes
  <2>6. OneLoginPerMailbox
    <3> SUFFICES ASSUME Applied("write_users"), NEW i \in DOMAIN users, NEW j \in DOMAIN users
                 PROVE  users[i].lower /\ (i # j => users[i].box # users[j].box)
      BY DEF OneLoginPerMailbox
    <3>1. Past(8, 2)
      BY <2>1, Emailed, Standing DEF Past
    <3>2. users[i].lower /\ users[j].lower /\ (users[i] = users[j] => i = j)
      BY <1>1, <3>1 DEF DataInv, UsersFit
    <3>3. users[i] \in Address /\ users[j] \in Address
      BY <1>1, LenProperties, ElementOfSeq DEF DataInv, UsersFit
    <3>4. \A a, b \in Address : a.lower /\ b.lower /\ a.box = b.box => a = b
      BY DEF Address
    <3> QED BY <3>2, <3>3, <3>4
  <2> QED BY <2>3, <2>4, <2>5, <2>6 DEF DocumentsRepaired
<1> QED BY <1>1, DocumentsFit, PTL

-----------------------------------------------------------------------------
(* What the serving release reads.                                         *)
LEMMA AmountReadKept ==
  ASSUME StandsWhere, MigrationStep, AmountStep, NEW d, NEW e, AmountFits(d), AmountBecomes(d, e)
  PROVE  /\ serving = "old" => e[old] = d[old]
         /\ serving # "old" => NormalizeMoney(e, Currency).micros = NormalizeMoney(d, Currency).micros
<1>1. /\ Agrees(d) /\ d \in Amount /\ old \in {"minor", "units"}
      /\ Past(7, 1) /\ d.minor # Absent => d.units # Absent
      /\ Past(9, 1) => d.micros # Absent
      /\ Past(7, 2) => d.minor = Absent
  BY DEF AmountFits, Agrees, StandsWhere
<1>2. PICK a \in Stored, b \in Stored, m \in Stored : d = [minor |-> a, units |-> b, micros |-> m]
  BY <1>1 DEF Amount
<1>3. d.minor = a /\ d.units = b /\ d.micros = m
  BY <1>2
<1>4. CASE CopyUnitsStep /\ e = CopyUnits(d)
  BY <1>1, <1>4, AmountOps, StepOrder
<1>5. CASE CopyMicrosStep /\ e = CopyMicros(d, Currency)
  BY <1>1, <1>5, AmountOps, StepOrder
<1>6. CASE ResyncUnitsStep /\ e = ResyncUnits(d)
  <2>1. serving # "old"
    BY <1>6, StepOrder
  <2>2. e = [minor |-> a, units |-> IfNull(a, b), micros |-> m]
    BY <1>2, <1>6 DEF ResyncUnits, IfNull
  <2>3. e \in Amount /\ e.minor = a /\ e.units = IfNull(a, b) /\ e.micros = m
    BY <2>2 DEF Amount, IfNull
  <2>4. IfNull(IfNull(a, b), a) = IfNull(b, a)
    BY <1>1, <1>3 DEF Agrees, IfNull
  <2>5. /\ NormalizeMoney(e, Currency).micros = IfNull(m, Scaled(IfNull(IfNull(a, b), a), Currency))
        /\ NormalizeMoney(d, Currency).micros = IfNull(m, Scaled(IfNull(b, a), Currency))
    BY <1>1, <1>3, <2>3, Normalized
  <2> QED BY <2>1, <2>4, <2>5
<1>7. CASE DropMinorStep /\ e = DropMinor(d)
  <2>1. serving # "old" /\ Past(7, 1)
    BY <1>7, StepOrder
  <2>2. e \in Amount /\ e.minor = Absent /\ e.units = b /\ e.micros = m
    BY <1>2, <1>3, <1>7 DEF DropMinor, Amount, Stored
  <2>3. IfNull(b, Absent) = IfNull(b, a)
    BY <1>1, <1>3, <2>1 DEF IfNull
  <2>4. /\ NormalizeMoney(e, Currency).micros = IfNull(m, Scaled(IfNull(b, Absent), Currency))
        /\ NormalizeMoney(d, Currency).micros = IfNull(m, Scaled(IfNull(b, a), Currency))
    BY <1>1, <1>3, <2>2, Normalized
  <2> QED BY <2>1, <2>3, <2>4
<1>8. CASE PromoteMicrosStep /\ e = PromoteStored(d, Currency)
  <2>1. serving # "old" /\ a = Absent
    BY <1>1, <1>3, <1>8, StepOrder, Order
  <2>2. Agrees(e) /\ e.micros # Absent
    BY <1>1, <1>3, <1>8, <2>1, AmountOps
  <2>3. e \in Amount /\ e.micros = IfNull(m, Scaled(b, Currency))
    <3>1. m = Absent => b # Absent
      BY <1>1, <1>3, <2>1 DEF Agrees
    <3> QED BY <1>2, <1>3, <1>8, <2>2, <3>1 DEF PromoteStored, IfNull, Agrees
  <2>4. IfNull(b, a) = b
    BY <2>1 DEF IfNull
  <2>5. /\ NormalizeMoney(e, Currency).micros = IfNull(e.micros, Scaled(IfNull(e.units, e.minor),
           Currency))
        /\ NormalizeMoney(d, Currency).micros = IfNull(m, Scaled(IfNull(b, a), Currency))
    BY <1>1, <1>3, <2>3, Normalized
  <2>6. IfNull(e.micros, Scaled(IfNull(e.units, e.minor), Currency)) = e.micros
    BY <2>2 DEF IfNull
  <2> QED BY <2>1, <2>3, <2>4, <2>5, <2>6
<1>9. CASE DropUnitsStep /\ e = DropUnits(d)
  <2>1. serving # "old" /\ m # Absent
    BY <1>1, <1>3, <1>9, StepOrder
  <2>2. e \in Amount /\ e.micros = m
    BY <1>2, <1>3, <1>9 DEF DropUnits, Amount, Stored
  <2>3. NormalizeMoney(e, Currency).micros = m /\ NormalizeMoney(d, Currency).micros = m
    BY <1>1, <1>3, <2>1, <2>2, Normalized DEF IfNull
  <2> QED BY <2>1, <2>3
<1> QED BY <1>4, <1>5, <1>6, <1>7, <1>8, <1>9 DEF AmountBecomes

LEMMA BalanceReadKept ==
  ASSUME DataInv, MigrationStep, [UpgradeNext]_upgradeVars, AmountStep
  PROVE  /\ serving = "old" => balance'[old] = balance[old]
         /\ serving # "old" => NormalizeBalance(balance',
            Currency).micros = NormalizeBalance(balance, Currency).micros
<1>1. StandsWhere /\ balance \in Amount /\ old \in {"minor", "units"} /\ (serving # "old"
        => balance.micros # Absent)
  BY Order DEF DataInv, BalanceFits, StandsWhere
<1>2. CASE serving = "old"
  <2>1. CopyUnitsStep \/ CopyMicrosStep
    BY <1>1, <1>2, StepOrder DEF AmountStep
  <2>2. CASE CopyUnitsStep
    BY <1>1, <1>2, <2>2, StepOrder DEF CopyUnitsStep, OnAmounts, CopyUnits, Amount
  <2>3. CASE CopyMicrosStep
    BY <1>1, <1>2, <2>3 DEF CopyMicrosStep, CopyMicros, Amount
  <2> QED BY <1>2, <2>1, <2>2, <2>3
<1>3. CASE serving # "old"
  <2>1. ResyncUnitsStep \/ DropMinorStep \/ PromoteMicrosStep \/ DropUnitsStep
    BY <1>1, <1>3, StepOrder DEF AmountStep
  <2>2. balance' \in Amount /\ balance'.micros = balance.micros
    BY <1>1, <1>3, <2>1 DEF ResyncUnitsStep, DropMinorStep, PromoteMicrosStep, DropUnitsStep,
       OnAmounts,
       ResyncUnits, DropMinor, PromoteStored, DropUnits, Amount, Stored
  <2>3. NormalizeBalance(balance', Currency).micros = balance.micros
    BY <1>1, <1>3, <2>2, Normalized DEF IfNull
  <2>4. NormalizeBalance(balance, Currency).micros = balance.micros
    BY <1>1, <1>3, Normalized DEF IfNull
  <2> QED BY <1>3, <2>3, <2>4
<1> QED BY <1>2, <1>3

\* No step of a migration changes what the serving release reads.
THEOREM MigrationsKeepReading == UpgradeSpec => ReadingKept
<1> DEFINE Kept == (writes' = writes /\ serving' = serving) =>
                     /\ ReadBalance' = ReadBalance /\ ReadPrice' = ReadPrice
                     /\ \A i \in DOMAIN entries : ReadEntry(i)' = ReadEntry(i)
<1>1. ASSUME DataInv, [UpgradeNext]_upgradeVars PROVE Kept
  <2> SUFFICES ASSUME writes' = writes, serving' = serving
               PROVE  /\ ReadBalance' = ReadBalance /\ ReadPrice' = ReadPrice
                      /\ \A i \in DOMAIN entries : ReadEntry(i)' = ReadEntry(i)
    OBVIOUS
  <2>1. /\ StandsWhere /\ old' = old /\ DOMAIN entries = 1..2 /\ EntriesFit
        /\ AmountFits(price) /\ \A i \in 1..2 : AmountFits(entries[i].price)
        /\ writes \in Nat
    BY <1>1, NoReturn DEF DataInv, EntriesFit, StandsWhere
  <2>2. CASE AmountStep
    <3>1. MigrationStep
      BY <2>2 DEF AmountStep, MigrationStep
    <3>2. ReadBalance' = ReadBalance
      BY <1>1, <2>1, <2>2, <3>1, BalanceReadKept DEF ReadBalance
    <3>3. ReadPrice' = ReadPrice
      BY <1>1, <2>1, <2>2, <3>1, PriceBecomes, AmountReadKept DEF ReadPrice
    <3>4. ASSUME NEW i \in 1..2 PROVE ReadEntry(i)' = ReadEntry(i)
      <4>1. AmountBecomes(entries[i].price, entries'[i].price)
        BY <1>1, <2>1, <2>2, EntriesAmountStep DEF EntryTurns
      <4>2. /\ serving = "old" => entries'[i].price[old] = entries[i].price[old]
            /\ serving # "old" => NormalizeMoney(entries'[i].price, Currency).micros
                                    = NormalizeMoney(entries[i].price, Currency).micros
        BY <2>1, <2>2, <3>1, <4>1, AmountReadKept
      <4> QED BY <2>1, <4>2 DEF ReadEntry
    <3> QED BY <2>1, <3>2, <3>3, <3>4
  <2>3. CASE ~AmountStep
    <3>1. ~OldWrite /\ ~NewWrite
      BY <2>1, WritesStay
    <3>2. UNCHANGED <<balance, price>>
      BY <1>1, <2>3, <3>1, Untouched DEF OldWrite, NewWrite
    <3>3. \A i \in 1..2 : entries'[i].price = entries[i].price
      <4>1. CASE WriteEntries
        <5>1. \A i \in 1..2 : \/ entries'[i] = entries[i]
                              \/ entries'[i] = [entries[i] EXCEPT !.cost = Catalog[entries[i].id]]
          BY <2>1, <4>1 DEF WriteEntries, BackfillCosts
        <5>2. \A i \in 1..2 : entries[i] \in Entry
          BY <2>1 DEF EntriesFit
        <5> QED BY <5>1, <5>2 DEF Entry
      <4>2. CASE entries' = entries
        BY <4>2
      <4> QED BY <1>1, <2>3, <3>1, <4>1, <4>2, Untouched DEF OldWrite, NewWrite
    <3> QED BY <2>1, <3>2, <3>3 DEF ReadBalance, ReadPrice, ReadEntry
  <2> QED BY <2>2, <2>3
<1>2. DataInv /\ [UpgradeNext]_upgradeVars => [Kept]_upgradeVars
  BY <1>1
<1> QED BY <1>2, DocumentsFit, PTL DEF UpgradeSpec, ReadingKept

=============================================================================
