# TokenPanel: models, checks and proofs

TokenPanel is a gateway in front of language-model providers with a panel for
those who run it. It meters API calls, holds part of a customer's balance and
rate limits before the provider is called, settles what was used afterwards, and
is installed and upgraded by a shell program of its own. These modules model it
from the call that is billed to the tab in which an operator edits a price, check
the models with TLC on small instances, and prove with TLAPS, for all instances,
what must not go wrong.

## 1. The system

Paths below `apps/api/src` are given without it.

| Component | State | Operations | Works with |
|---|---|---|---|
| Preflight and completion of a call (`domains/billing/workflow.ts`, `domains/providers/generation.ts`) | one fiber per call | `preFlightWorkflow`, `completeGeneration`, `openStreamGeneration`, `finalizeStreamGeneration`, `releaseAllPreflightHolds` | limits, holds, settlement, outbox; the HTTP boundary interrupts it when the client leaves |
| Balance holds (`repositories/customers.ts`) | customer document: amount, reserved, status | `reserveBalance`, `releaseReserved`, `settleWithReservation`, `debitBalance` | every call of the customer |
| Rolling rate limits (`lib/rate-limits.ts`, `repositories/usage.ts`) | `rateLimitCounters`, one document per stream and bucket | `reserveLimits`, `settleLimits`, `recordUsage`, `releaseLimits` | every call of the stream, in all processes |
| Settlement (`domains/settlement/settle.ts`) | usage records, adjustments | `settleUsage`, `settleUsageOrOutbox` | customer, counters, outbox |
| Settlement outbox and workers (`services/settlement-*.ts`, `workers/`) | rows with status, attempts, lease | enqueue, `claimDue`, `renewClaim`, marks, `reconcileOutboxRow` | one loop per API process; MongoDB is the only link |
| Provider selection and stream lifecycle (`domains/providers/{selection,stream-lifecycle}.ts`) | per call | fallback over entries, first chunk, cancel, timeouts, finalization | adapters, the route, settlement |
| Adapters and their errors (`providers/`, `errors/`) | the reader of one body | reading of two wire protocols, classification | selection |
| Charges and estimates (`domains/billing/{charges,estimate}.ts`, `providers/provider-usage.ts`) | none | pure | preflight and settlement |
| Sessions, users, invites, management keys, organizations (`domains/{auth,organizations,keys}`) | a document each, no transactions | sign-up, login, refresh, switch, invites, keys, deletion with its cascade | the panel, management clients |
| Customers, plans, subscriptions, API keys (`domains/{customers,plans,keys}`) | documents of one organization | CRUD, adjustment, subscription, authentication of a call's key | panel, management API, preflight |
| Providers and models (`domains/{providers,models}`) | providers, discovered models, models with entries | CRUD, discovery, entry edits | panel; selection reads them |
| Failure throttle (`lib/throttle.ts`) | a map in one process | record, lock out, evict | login and keys |
| Migrator (`packages/db/src/migrator`) | lock document, applied-migration records | `acquire`, `renew`, `release`, `runMigrations` | every process that starts |
| Data migrations (`packages/db/migrations`) | every collection | `pre` beside the old release, `post` after it | migrator, the releases that serve |
| Manager (`manager/`) | tags, checkout, archives, configuration, a lock | install, start, stop, update, rollback, backup, restore, migrate | docker, mongodump, git, migrator |
| Admin panel (`apps/admin/src`) | a tab: session, page, forms, requests under way | sign-in, switch of organization, pages, playground | the HTTP API, other tabs through `localStorage` |
| Configuration, contracts, analytics, end-to-end tests | none | resolution, schemas, aggregation | all of the above |

What is hard here:

* calls of one customer interleave at every `await`, in one process and across
  processes; only single-document updates and transactions are atomic, and the
  administration uses no transactions at all;
* what a handler read (a session, a right, a reference, an open invite) may be
  gone when it writes;
* a MongoDB call may report an error although it was carried out, and a client
  that got no answer asks again;
* a client's disconnect interrupts a completion wherever it waits; a provider may
  fail before, in or after its headers, report usage twice, late or never;
* processes die, leases run out while their holder is still busy, the machine
  loses power between two commands of an upgrade;
* two releases serve one database during an upgrade;
* counters are many documents, so snapshot isolation lets sums go stale;
* a tab gets answers in any order, for an organization it has left.

What makes each component correct:

* holds and settlement: never more held than the balance covers; each call billed
  at most once, for its price; balance, usage record and debit agree;
* outbox: one claim of a row can act, a row marked reconciled was billed, every
  row is finished some day;
* limits: the window stays within the cap, a bucket is the sum of what its calls
  are charged, conflicts end;
* generation: one entry answers, a stream that a provider took goes to no other,
  the client is told of one end, the call is settled, queued or released once, and
  charged each token once;
* access: a session outlives no revocation that came first, an invite and the
  sign-up are used once, nobody grants more than he has, an organization ends
  with what belongs to it;
* administration: a balance is its ledger, a repeated adjustment counts once,
  handles, aliases and subscriptions are unique, references resolve;
* migrator and migrations: a migration takes effect once, in order; records are
  true; no step changes what the serving release reads; money keeps its amount;
* manager: an archive is one moment of the database, what a restore needs outlives
  retention, the cutover loses no write, a rollback returns to what was left,
  nothing starts on half a database;
* panel: nothing of one organization is shown in another, a quiet page shows the
  last state, a form is saved to the row it was opened for.

## 2. Modules

| Module | What it is |
|---|---|
| `BillOnce` | abstract: a balance, the set of billed requests, `Bill` and `Adjust` |
| `Settlement` | calls, customer document, outbox and workers, composed; implements `BillOnce` |
| `RateLimits` | the buckets of one rate-limit stream under snapshot isolation |
| `Charges` | usage reports, charge and estimate, as functions |
| `ProviderErrors` | failures of a provider and what may follow them, as functions |
| `Generation` | a call between client and provider, over `Charges` and `ProviderErrors` |
| `Permissions` | roles, panel permissions and key scopes, as functions |
| `Access` | users, sessions, organizations, invites, management keys |
| `AdminRequests` | what all administrative requests share: gates, steps, answers |
| `Customers`, `Catalog` | customers, plans and keys; providers and models; both over `AdminRequests` |
| `Commerce` | the two composed, over the same requests |
| `Migrator` | the migration lock with its lease and heartbeat, and the runs under it |
| `MoneyFields`, `Backfills` | what migrations do to one document, as functions |
| `DataMigrations` | the migrations of an upgrade beside the releases that serve |
| `Upgrade` | the manager, the container, the database and its archives |
| `PanelSession` | session and shell of a tab |
| `PanelPage` | the state every page has |
| `CatalogPages`, `PeoplePages`, `OperatorPages`, `Playground` | the pages' own operations |
| `Panel` | the tab composed |
| `MC*` | instances for TLC |
| `Places` | what `filter` and `$pull` keep of a list |
| `Sums`, `SumTheorems` | the sum of a function over a finite set; what proofs use of it |
| `*Proofs` | theorems and their proofs |

One action is what the code does between two awaits: a call to MongoDB, to a
provider, to docker, or one task of the browser. A transaction is one action
except for what the code reads before it.

### Settlement

One customer; customers share no document. A call `r` is a gateway request id.
`call[r]` is where its fiber stands: `new`, `limited` (units taken), `ready`
(balance held), `settle`, `enqueue`, `releaseHold`, `releaseUnits`, and the ends.
`customer` is the document's `amount`, `reserved` and whether it is open;
`window` is the counter of one "requests" rule; `usage` and `row` are keyed by
the request id, as the unique indexes are. A worker `w` has the claims of its
batch, the one in hand and a `pc`. `due` stands for `nextAttemptAt <= now`: the
action `BecomeDue` is time passing. `Hold` and `Price` are the frozen results of
estimate and charge.

* A filter of an update is a `Can...` operator; an update that finds no document
  is the other branch. `settleUsage` reads once before its transaction
  (`SettleLookup`).
* Mishaps are explicit and budgeted: `error` (the call may or may not have been
  carried out), `disconnect` (interrupts a completion; streams are settled by a
  finalizer that is not interrupted), `crash` (of a call's fiber or a worker),
  `expiry` (a lease ends while its worker is still at work). A row whose worker
  is gone becomes due without a mishap.
* The claim token is random and fresh; `attempts` grows with every claim and
  stands for it. That they agree is `OneCurrentClaim`.
* History variables (`served`, `held`, `counted`, `adjusted`, `uncovered`) are
  read by properties only.

### RateLimits

One stream: rules of different streams share no counter. A call takes the time
when it arrives, reads the window in a transaction (`Reserve`), and writes the
bucket of its arrival (`Admit`). The transaction conflicts if another committed
a write of that bucket after its snapshot (`missed`); then it is tried again, at
most `MaxAttempts` times. The settlement's transaction reads the window of
`occurredAt` and moves the bucket of the hold by the clamped difference;
settlements that write the customer document conflict on it as well.
`skewed` remembers that a call was charged although a bucket of the window it
summed had changed since.

### Charges, ProviderErrors, Generation

`Charges` reads a raw usage report (a field is `Absent`, `Malformed` or a
number), rejects what contradicts itself, prices each kind of token by rates per
`PerMillion`, and estimates a call from its prompt and its cap. Sums beyond
`MaxSafe` are refused as in the code. `ProviderErrors` turns statuses, timeouts
and broken bodies into failure records that say whether the next entry may be
tried.

`Generation` has a call `s` in a `pc` from `new` over the wait for headers and the
body to finalization. Provider and client are the environment: the provider may
answer with any event at any time or be silent, the client may cancel a stream
or abort the request. One event of a stream is handled by adapter, selection,
session and route without an await, so it is one action. `life` moves by
`transitionStream`. Finalization settles, queues or releases, and each of these
may fail; `Settlement` has the same call with the provider as one step, and its
finalization in detail.

### Access

Users, organizations, invites and keys are records by id; a session row is named
by the request that inserted it. A request takes one of sixteen operations and
is at one of its database calls; `Stop` ends it between any two. Passwords are
numbers that grow with each change, tokens name a session and an organization.

What no document keeps is `seen`: sessions revoked and rights granted, for the
properties. A property of a handler that reads first and writes later would be
false without more ado, as the code does not lock, so each request carries
whether it was overtaken: `clear` (nobody has written what it checked since) and
`raced` (a revocation or a deletion went past it). The properties say what holds
of requests that were not overtaken, and that only these exceptions exist.

### AdminRequests, Customers, Catalog, Commerce

A request arrives with a principal (a membership or a management key, whose
gates differ: for a member `write` implies `read`, for a key it does not), a body
from a small set and an operation, and takes its database calls in order. It may
be aborted between two of them; its last write's answer may be lost (`lost`), or
refused. `Customers` has balances with their adjustment rows and idempotency keys
(the unique index of which the post phase builds: `posted`), plans and their
rules, subscriptions, API keys with their drawn prefix, and what a call with such
a key finds. `Catalog` has the references of models' entries to providers, which
are checked by reads when they are written and when the provider is deleted, and
the normalisation of entry lists: an entry comes with a priority of the client's or
takes its place in the list as one, the list is stored sorted, and a reorder is a
set of new priorities by entry id. `Commerce` puts both over the same requests.

### Migrator

A runner `r` is a process, named by its holder string; each has the files of its
release in name order and their checksums, so runs of an older, a newer and an
edited release can meet. `pc[r]` is where `runMigrations` stands: `acquiring`
(`insertOne` of the lock), `reading` (`appliedMap`), `next` (top of the loop),
`up`, `recording` (a migration that is not transactional), then `returning` or
`throwing` (the `finally`), and an end. `holder` and `expired` are the lock
document, `records` is `_migrations`.

* `Lands(r)` is the effect of the request under way. A step that succeeds has it;
  `Errs`, `Release` and `Die` may have it or not, so an answer can be lost. A
  transaction's effect is up's writes and the record together, and fails if the
  record is there, after `withTransaction` has retried conflicts.
* The heartbeat is `Renew` or `RenewMisses`; `RenewErrs` is one that fails. The
  request and its answer are one step, which loses nothing: a miss answered later
  is a later miss. `lost` is `lostError`, and is never unset.
* There is no clock. A lease may run out whenever `Expire` likes; if its holder
  still renews, `late` remembers that five heartbeats in a row did not come (60 s
  against 300 s), until one does.
* When a process ends, its memory is reset (`Exit`), so that runs of one holder
  name have nothing in common but the database.
* `effects` is history: which files took effect, in order, for each migration.
  Partial effects of a migration that is not transactional are not told apart;
  the documentation demands that such files can be run again.

### MoneyFields, Backfills, DataMigrations

An amount is a record of the three names it is stored under (`minor`, `units`,
`micros`); `Factor` is the number of micros of the smallest unit. `MoneyFields`
has what readers, the balance writer and the four money migrations make of one;
`Backfills` the repairs of addresses, metadata, entry costs and permissions.
`DataMigrations` has one document of each kind, a program counter over migrations
and their steps (an `updateMany` or a read each) and the release that serves:
the old one through the pre phase, then none, then the new one, before or after
the post phase. The old release writes the fields that it knows. A crash or a
refused write starts the migration again from its first step.

### Upgrade

`cmd` is the manager command that has the lock, with the external call it is at
(`cmd.pc`), each of which may fail. Where the shell does not look at a failure
(`|| true`, or a function called where `set -e` is off) a branch goes on: the tags
of `:previous`, the stops before a recovery, the snapshot, tag and `up` of a
rollback, `ps` before a dump, `down` of a reset; a failing `up` may have replaced
the container (`UpLeaves`). `cmd.slips` remembers for the properties which of them
an update went on after, and `astray` what took the installation off its way. The
container (`api`) boots with the pre migrations of its image, serves and writes
between any two calls. `db` has the
migrations of both phases, the writes accepted, and whether it is a partial
restore; an archive has what `mongodump` has read so far, so that a dump beside
a writing container would be of two moments. An interrupt runs the shell's EXIT
trap; a power loss does not, and systemd's `tokenpanel start` comes after it.
An installation starts as the installer leaves it; run again (`setup`), it is one
command like the others here, although it takes no lock.

### Panel

`PanelSession` has the shared storage (the token), the tab's session as
`AuthContext` keeps it, the requests under way with the token they carry, and the
route guards. `PanelPage` has what pages have in common: lists with the organization
they were loaded for, the row a form or drawer was opened on, a secret shown once,
the error or the busy state. `made` has the filters of rows that a page puts among
the loaded ones itself, and `Loose` the models whose metadata is a map of other
values than strings. The modules of pages add loads and writes; keyed routes unmount
a page when the organization changes. Answers come in any order; one step of another
tab, or a failure, is a mishap. The tab stays on the page that the initial state
chooses; pages share no state but the session.

## 3. Runs

| Run | Instance | Distinct states | Properties |
|---|---|---|---|
| `settlement_calls` | 2 streams and a completion of one customer, 1 worker, holds of 3, 1, 1 on a balance of 4, a limit of 2, an error, a lost client, a debit by hand | 2 214 740 | `ExactlyOnce`, `BalanceCovered`, `HoldsAccounted`, `BillsOnce` |
| `settlement_outbox` | 1 completion, 2 workers, an error, a lost client, a crash, 2 outlived leases | 365 498 | `ReconciledIsBilled`, `OneCurrentClaim`, `RowsResolve` |
| `settlement_disconnect` | 1 completion, a disconnect | | *violated*: `ProviderFinishedSettles` |
| `rate_limits` | 2 calls, 3 buckets of 2 ticks, a window of 3, a cap of 3, hard or soft | 208 078 | `WindowCapped`, `Accounts`, `CallsEnd` |
| `generation` | 1 call of three kinds, 3 active entries and an inactive one, 7 reports | 692 576 | `OneAnswers`, `OneEnd`, `OutcomesAgree`, `ChargesBounded`, `AbortsEnd` |
| `access` | 2 requests, 3 users, 4 organizations, 3 invites, 3 keys; from a fresh and from a settled installation | 867 272 | `SessionsFresh`, `AdmittedOnce`, `OrgsEndWhole`, `RightsHeld` |
| `commerce` | 2 requests after a first one, 26 operations, 4 principals | 452 174 | `LedgerHolds`, `NamesAreUnique`, `DocumentsSound`, `AnswersTrue` |
| `migrator_runs` | 3 runs by a process of one release and one of the next, which has another file and two edited ones | 154 669 | `RecordsTruthful`, `SuccessMeansApplied`, `OneTrusts`, `RunsRecover` |
| `data_migrations` | 3 writes of whoever serves, 1 crash, an old release of `minor` or of `units`, 2 prices | 4 052 656 | `MoneyConserved`, `DocumentsRepaired`, `ReadingKept` |
| `money_window` | the same, 1 write | | *violated*: `UnitsWinIfNewer` |
| `upgrade` | 2 releases, 3 commands of 13 kinds, 1 write, 1 interrupt or power loss | 6 717 221 | `WayBackKept`, `CutoverQuiet`, `SchemaFits`, `RollbackReturns`, `GapsClose`, `NeverStartedOnPartial` |
| `panel` | one tab on each of 11 pages, 3 organizations, 2 requests under way, 3 of the operator's own, 1 mishap, a model of each kind of metadata | 502 414 | `NothingOutlivesItsOrg`, `QuietPageIsCurrent`, `PageBelongsTogether`, `SessionHolds` |

What the properties say:

* `ExactlyOnce`: a settled call has one usage record and one debit, of its price.
  `BalanceCovered`: what is reserved was covered when it was admitted.
  `HoldsAccounted`: the counter is the number of units not given back; reserved is
  never more than the holds outstanding, and exactly that unless a completion was
  interrupted after its provider answered (`Interrupted`: its release may follow
  a settlement that committed with a lost answer, and takes the hold twice).
  `BillsOnce`: every behaviour is one of `BillOnce`.
* `ReconciledIsBilled`, `OneCurrentClaim` (of the claims workers still hold for a
  row, one fits it), `RowsResolve` (a row is reconciled or abandoned some day).
* `WindowCapped`: unless a charge missed a write of a neighbouring bucket, the
  window stays within the cap plus what soft settlements added, now
  (`CapUnlessSkewed`) and over any stretch of a window less one bucket
  (`RollingCharge`). `Accounts`: a bucket is the sum of what its calls are charged
  (`CountersAccount`); types. `CallsEnd`: conflicts keep no call for ever.
* `OneAnswers`: what is shown and billed is of one entry (`AnswerOfOne`), and a
  stream is taken by one provider (`NoFallbackAfterAccept`; a completion whose body
  breaks may be tried again). `OneEnd`: the client is told of one end
  (`OneTerminal`), the call is finalized once (`FinalizedOnce`). `OutcomesAgree`: what
  was closed as complete is not given away and what was reported failed is not
  billed (`EndsAgree`), holds go back only for what nobody saw (`ReleasedUnseen`);
  types. `ChargesBounded`: the estimate covers the price of tokens within it, but
  for rounding (`EstimateCovers`), and each token is charged once
  (`EachTokenOnce`); only cached tokens that a provider counts beside its prompt are
  free where the schedule has no rate for them.
  `AbortsEnd`: an aborted call ends, unless it reads the body of an entry with a
  timeout.
* `SessionsFresh`: a session of an earlier password outlives its change only if
  the request that inserted it was under way. `AdmittedOnce`: an invite grants
  once, never when revoked or expired (`InviteOnce`), and there is one first
  administrator, unless its claim was given up or taken away (`FirstAdmins`).
  `RightsHeld`: nobody passes on, to a member (`GrantsHeld`) or key (`ScopesHeld`),
  what he does not hold; a patch without scopes, which is not checked, gives none.
  `OrgsEndWhole`: nobody is left pointed at a deleted organization, its keys die
  with it; types.
* `LedgerHolds`: a balance is the sum of its ledger (`BalanceIsLedger`), and an
  idempotency key has one row of it (`AdjustedOnce`). `NamesAreUnique`:
  `HandlesUnique`, `OneSubscription`, `StreamsDistinct`, `KeysOpen` (an issued key is
  the one its prefix finds). `DocumentsSound`: types, `EntriesResolve`,
  `CatalogOwned`, `FallbacksInOrder` (the list is stored in the order of its
  priorities, however the client gave them), `DistinctEntriesRemain`. `AnswersTrue`: who
  is told that it is done had his own body done (`AnsweredWithOwn`), and balances
  are shown to their readers only (`BalancesShown`).
* `RecordsTruthful` (a record's file took effect), `SuccessMeansApplied`,
  `OneTrusts` (one run trusts its lock, unless five heartbeats were late);
  `RunsRecover`: a loss is noticed, a stale lock goes, runs end.
* `MoneyConserved`: a balance is out by what the old release wrote after the copy
  and by nothing else, caps are scaled once, counted spend is kept.
  `DocumentsRepaired`: a cost goes to its entry, the new schema decodes all, a
  displaced address is on record, one login per mailbox; types. `ReadingKept`: no
  step changes the balances, prices and entries that the serving release reads.
  Caps are apart: the pre migration scales them in place while the old release
  still enforces them, which `MoneyConserved` counts as scaled once.
* `WayBackKept`: the archive that a restore reads and the one it made of what it
  drops outlive retention until it is over. `CutoverQuiet`: until the new container
  starts, the database holds the writes of the cutover archive and no others.
  `SchemaFits`: code older than the schema serves only after a command that ended
  with the container on another image than `current`, or after an update that went
  on although the image it replaces was not tagged `:previous`. What those states
  may lead to is not excused further. `GapsClose`: no start, restart,
  rebuild, installation or update takes the schema beyond the code that serves
  beside it (`NoPostUnderOldCode`; `migrate post` and the last step of a restore
  do), and one of the first four that ends well closes the gap (`StartCatchesUp`).
  `RollbackReturns`: an update that reports a rollback left the schema it found,
  and image and configuration unless the call that puts that one back failed
  unnoticed. `NeverStartedOnPartial`: a command that found the database whole does
  not start the API, by a step or by its trap, on what its own swap left partial.
* `NothingOutlivesItsOrg`: what a page shows was asked for or typed under the
  organization above it. `QuietPageIsCurrent`: a page at rest, whose requests never
  overlapped, shows what the server holds. `PageBelongsTogether`: a form is of its
  row (`FormOfItsRow`), metadata that is no map and a provider's headers and key
  survive the save of a form that cannot show them (`UnseenSurvives`; a map whose
  values are not strings is shown as strings and saved so), loaded rows are of the
  filter chosen, and so is a key just created unless requests of its page
  overlapped (`RowsOfSelection`), replies follow their prompt (`RepliesFollowPrompt`); types.
  `SessionHolds`: nobody is signed out but by himself, by another tab, by a failure
  or by a request that was under way when the session moved (`SessionKept`), and the
  loader goes away unless an answer is lost (`WaitEnds`).

The violated runs state sentences of the source, which PROJECT.json quotes:
a completion whose client leaves while it is settled is neither billed nor queued
(`settlement_disconnect`); what the old release writes to a balance between the
pre migration and its stop is dropped by the post migration (`money_window`).

Other behaviour that a reader may not expect is in the models as the code has it,
and the properties are worded around it. An update may report a rollback although
its configuration, tag or container did not go back: `rollback_to_previous` runs
where `set -e` is off (lib/rollback.sh:12-18), and the tag of `:previous` may fail
silently (lib/build.sh:170), in which case the way back is an older image
(`cmd.slips`, `astray`). A failing `docker compose ps` is read as no API running, and
a backup dumps beside it (lib/backup.sh:28). The trap of a backup is removed before
the API is started again (:190-192; :164 and :181 on its error paths), so a signal
in between leaves it stopped. A restore that fails before its swap starts the API
although the swap of an earlier restore may have left the database partial
(:448-451): `NeverStartedOnPartial` speaks of a command's own swap. A provider is
deleted although a model came to reference it after the models were counted
(providers/operations.ts:236), which `raced` marks in `EntriesResolve`. A created key
joins the rows of whichever customer is picked when its answer comes
(ApiKeysPage.tsx:165), which `crossed` marks in `RowsOfSelection`.

Bounds. Each step involves one actor and the documents, so two requests give
every race of a check and a write, and a third call (of a lower hold) makes
admission depend on the order of returns; two workers are enough for the fence,
as a third could only be another stale one. `r1` costs less than its hold, the
others more, so both signs of the difference occur, and the balance of 4 is less
than the holds together. Two calls with three buckets reach both neighbours of
a window; `MaxAttempts` of 2 is a first and a last attempt. In `generation` each
of first, middle and last entry can answer, fail or be passed over, and the
reports are one of each way to be read or refused; calls share no state, so one
is enough. `access` needs two of everything plus what is created on the way:
the settled installation has what takes long to reach, sign-up the fresh one.
In `commerce` two documents of each kind differ in what operations look at.
Three migrations, of which one is transactional and one a legacy one, give every
branch of the loop; three runs by two processes give a run beside its successor,
and a third that meets the release of the first. In `upgrade` two releases give
an update, a rollback and one refused; three commands are an update, what
interrupts it and what repairs it. In `data_migrations` three writes let each
money field be written before, between and after the two changes. In `panel` two
requests under way are enough for answers that cross, and three of the operator
for a form opened, changed and saved; of the two models one has metadata that is no
map and one a map of other values than strings. Symmetry is over request ids only, in runs
without liveness. Deadlock is not checked: systems whose calls, commands or
requests are over have stopped rightly.

Fairness. `Settlement`: `WF(Call(r))`, a fiber that can go on goes on; `WF(Work(w))`,
the reconcile loop repeats on a schedule and a restarted process starts it
again; `WF(BecomeDue(r))`, time passes; errors and crashes are finite and not
fair. `RateLimits`: `WF(Step(c))` without arrivals; conflicts are no exception
since MongoDB aborts one side only. `Migrator`: a run goes on except inside a
migration, which may take for ever; timers fire (`WF(Heartbeat(r))`, which a failed
renewal ends), time passes (`WF(Expire)`) and the TTL monitor runs
(`WF(TtlDelete)`); starts and deaths are not fair. `Generation`: `WF(Gateway(s))`,
which has the gateway's own steps and its timers, and neither the provider nor the
client. `Panel`: requests are served or fail, answers are read, effects of a mount
run (`Serve`, `Receive`, `MountPage`); the operator is not fair. The others claim
no liveness and have no fairness.

## 4. Proofs

The theorems rest on the named ASSUMEs of their modules, which are about the
types of constants; the sets of calls, workers, requests, users, documents and
releases, and the numbers of mishaps and retries, are any.

* `Settlement` (`SettlementProofs`). `TypeCorrect`: types are
  inductive only with `HasJob` (a worker past `TakeJob` has a claim in hand).
  `NextBooks` reduces `Next` to the six ways of writing the books (hold, return,
  settle, adjust, open or close, nothing). Over them: `DebitedOnce`
  (`ExactlyOnce`), since the lookup under the unique index makes a second
  `SettleTxn` impossible; `HoldsCovered` (`BalanceCovered`), since admission
  leaves `reserved <= amount + uncovered` and a settlement takes at most the hold
  plus its overrun; `ImplementsBilling` (`BillsOnce`), since each maps to `Bill`,
  `Adjust` or a stutter. `NextRow` does the same for the outbox: `TerminalStays`
  (marks are fenced, claims take open rows), `ReconciledBilled` (inductive with
  `Billable`: a worker about to reconcile has a usage record for its row),
  `ClaimsDistinct` (inductive with `Stamped`: a claim still held was stamped no
  later than its row). `HoldsAccountedFor` (`HoldsAccounted`) adds `Stands`, what
  the place of a call says of its unit and of its hold: a release or a settlement
  that is due finds its hold among those outstanding, or the hold is nothing.
* Sums (`SumTheorems`). `Total` is the community modules' fold. One induction, over
  a family of subsets given as a set, shows that it is a sum (`TotalEmpty`,
  `TotalAdd`); sums that agree, grow, split into parts or group by a bucket follow
  (`TotalAgree`, `TotalMonotone`, `TotalParts`, `TotalGroups`), and the proofs below
  cite these.
* `RateLimits` (after the settlement in `SettlementProofs`, with names of its own:
  `LimitsSpec` and so on). `Books`: types, what each phase of a call
  implies, and each bucket the sum of its calls' charges, carried by one lemma for a
  bucket and a charge that move together; hence `BucketsAccount` (`Accounts`).
  `CapHolds` (`WindowCapped`) is inductive with `Fits`: as long as nobody wrote
  a bucket of the window a call has summed, that window has room for what the call
  is about to add. The rest is arithmetic over the buckets that two windows share.
* `Migrator` (`MigrationProofs`). `RunInv`: a run inside a migration is at one of its
  files (`InsideFile`), what it read of the records is still so (`ViewTrue`), and
  the files behind it are recorded (`BehindDone`). `RecordsAreTruthful`,
  `RecordedInOrder` and `SuccessIsApplied` follow over `NextData`; none of them
  needs the lock: the unique `_id` of a record, inserted in the transaction,
  carries them. `OneRunnerTrusts` goes by `LiveHasLock`, as releases are filtered
  by the holder.
* `DataMigrations` (`MigrationProofs` too, which extends both). `DataInv`
  (`DocumentsFit`) says of each document which fields it has and what they stand for
  at the place of the migrations (`Past(i, k)`: step `k` of migration `i` was made).
  A balance, whose fields are updated one by one (`BalanceFits`), is told from amounts
  that are written whole and so agree in every field they have (`AmountFits`);
  `RulesFit` and `BucketFits` say when a label is gone for good, `CustomersFit` and
  `UsersFit` who may hold an address. `StandsWhere` puts the old release before the
  post migrations. A crash and a refusal go back to the first step of a migration,
  and `Past` of the earlier ones stays: that every step can be made twice is what
  carries them. Repairs of lists are shown for lists of any length: the oldest of the
  holders of an address exists (a minimum of naturals), and each of the others finds
  it (`DisplacedHasOwner`). `MoneyIsConserved`, `DocumentsAreRepaired` and
  `MigrationsKeepReading` follow, for any amounts, factors, catalogs and customers.
* `Generation` (`GenerationProofs`). Each call satisfies `Good`: an entry that took
  the call is the only one to have taken it (`OneTaker`), what was shown is its
  answer (`ShownOfTaker`), the end was told once and only in states after it
  (`ToldOnce`), and resolved once likewise (`ResolvedOnce`). Hence
  `AnsweredByOne` (`OneAnswers`) and `EndsOnce` (`OneEnd`), with their parts.
  `SelectedInOrder`: the number of active entries before an entry is its place, and
  no two share one, so that each place is taken (an injection of a finite set into
  as many places is onto). With it a second invariant, `Sound`, says that a call
  stands at an entry it has (`Placed`), what its adapter has read (`Reading`), that
  what is billed was metered (`Metered`), and how `life`, the client's view and the
  outcome go together (`Ended`): `EndsAndOutcomesAgree` (`OutcomesAgree`). The charges
  are arithmetic: a price is the exact product with each of its parts rounded up
  (`Rounded`), and the estimate takes the largest rate, which a finite set has
  (`WorstRateCovers`). `ChargesAreBounded` (`ChargesBounded`) is `PriceIsCovered` and
  `TokensChargedOnce`; the attempt to prove the latter showed that cache writes
  counted beside the prompt are not charged where they have no rate, which the
  property now says.
* `Commerce` (`CommerceProofs`). `Ready(r)`: what request `r` has checked is still
  so, unless whoever changed it marked `r` as raced; `Data`: the unique indexes
  hold, and a row is of the request it is named by. `KeyAdjustsOnce`
  (`AdjustedOnce`), `NamesStayUnique` (`NamesAreUnique`) with its four parts, and,
  beyond the run, `ServedWhileActive` (`CallsAllowed`: a call is served for an active
  key of an active customer, unless a write came between the two reads). `Books` adds `Accounts`, the balances with
  their rows, and `Asks(r)`, what `r` has read of its idempotency key: a balance
  moves with the insertion of a row of the same amount and with nothing else, so
  `BalancesAddUp` (`BalanceIsLedger`); with the one key, `LedgerIsKept`
  (`LedgerHolds`). `AnswersAreTrue` (`AnswersTrue`) is an action
  property: `Told(r)` for the step that `r` takes itself, while a step of another
  request never ends `r` as done. It rests on the catalog of permissions, by which
  the write permission `balances:write`, and no other, stands for `balances:read`
  (`CustomersAssumption`). The catalog has a second invariant beside `Books`,
  `Shelves` (`ShelvesAreKept`): `References`, the types of its documents with what
  `DocumentsSound` says of them; `Works(r)`, that what `r` has checked of providers
  and references still holds and the entries it has read are those stored
  (`HasRead`, `HasChecked`), unless `r` is raced, and that these are in order and not
  empty even then; `Wares` and `Drafts`, the types of the other documents and of
  bodies. A sorted list is a permutation of the given one in the order of
  priorities (`Sorted`), as the places by which `SortEntries` defines it are taken
  once each; from it `DocumentsAreSound` (`DocumentsSound`) for lists of any length.
* `Upgrade` (`UpgradeProofs`). `OfCommand` says for each place of the running command
  what it has done (`Made`, `Still`, `BothThere`), what it has not (`NotYet`, and
  `Resumed` of a backup), what it remembers of the state it found (`Remembered`,
  with what went on unnoticed), and that its pre migrations are in (`Additive`,
  `Caught`); `World` is what holds between commands. `WayBackOutlives`,
  `NothingLostAtCutover`, `RollbackPutsBack`, `GapsAreClosed`
  (`GapsClose`, by `PostOnlyUnderItsCode` and `EndsCaughtUp`), `NotOnPartial`
  (`NeverStartedOnPartial`); beyond the run, that archives are one moment
  (`OneMoment`), destructive migrations come last (`DestructiveComeLast`) and a
  stopped API is resumed after its backup (`ResumesAfterBackup`: not when docker
  refuses, nor after a signal between the removal of the trap and the start).
  `SchemaAndImageMatch` (`SchemaFits`) needs `Matched`: until the installation is
  `Off` its way (straddled or untagged), all is `Calm` (the container runs `current`,
  and neither database nor an archive is ahead of it) and what an update has
  checked still holds (`Prepared`), or an update past its promotion is `Promoted`
  (archives and, until the post migrations, the database are no newer than the
  image it came from, which is `:previous`), or a rebuild, an installation or a
  rollback is between its tag and its container (`Replacing`, `Refitted`).
* `Access` (`AccessProofs`). `Ready(r)`: a request that has read its user knows a
  password no older than the last revocation, or is raced (`Current`); one about to
  grant has a claimed invite that has granted nothing (`Claimed`); while it is
  `clear`, the inviter still holds what the invite offers and the key read is still
  the key (`Checked`). `Data`: password numbers grow (`HashesGrow`), live sessions
  were opened no earlier than the last revocation or by an overtaken request
  (`SessionsCurrent`), a grant is of a claimed invite (`GrantedOnce`, `OneGrant`),
  one request holds the claim of the sign-up unless it was taken from a slow one
  (`OneFounder`). Each action is shown once to keep its own request's part and, as a
  `StepOf(r)`, the parts of all others. `SessionsAreFresh`, `AdmittedOnceOnly`,
  `RightsAreHeld`, and `OrganizationsEndWhole` (`OrgsEndWhole`), by what a deletion
  has still to pull and repoint at each of its steps; from a fresh installation; the
  run starts from a settled one too.
* `Panel` (`PanelProofs`). `PanelInv` has three parts. `Tab`: what a page waits for
  was asked under the organization it is shown under and for the filter it has
  (`Awaited`), a page that is not mounted keeps nothing and one that is has seen no
  other organization (`Mounted`), its parts belong together (`Whole`), and a row's
  revisions with the writes on their way are no more than the operator's steps
  (`Revised`). `AtRest`: while nothing failed, crossed or came from another tab
  (`Clean`), a page that edits has at most one request under way, every write under
  way is one it waits for, and its rows are the server's but for the row of that
  write (`UnderWay`); a page that only reads is current since nothing writes.
  `Conversation`: the tasks of a round are of the last prompt. Handlers and answers
  are reduced to four shapes with a lemma each (`ShowsKeeps`, `AskedKeeps`,
  `TakenKeeps`, `ReloadKeeps`), the server's steps to `Served`, and those of the
  session to `SessionStep`, which `RemountsKeep` carries: a step that leaves the key
  of `Outlet` leaves the user of a mounted page, any other starts the page again.
  `PageIsWhole` takes one more, `Joined`: unless requests of the page overlapped, a
  key being created is for the customer picked (picking another sends a load beside
  it), and the keys that joined the rows are of that customer.
  Hence `NothingIsLeftOver` (`NothingOutlivesItsOrg`), `PageIsWhole`
  (`PageBelongsTogether`) and `QuietIsCurrent` (`QuietPageIsCurrent`).
  `SessionIsKept` (`SessionKept`) takes two invariants more, which hold only
  together with the first. `Kept`: while nothing excuses a loss (`Untroubled`), no
  request with a token runs beside one that moves or opens a session; a sign-in or
  the bootstrap has the tab to itself (`Entering`, `Booting`); the creation of an
  organization is still waited for, so that its grant is stored; and for whoever is
  signed in and is not leaving (`SignedInKept`) every unserved token is one the
  server takes, no answer is a 401, and the stored token is good unless a move was
  served whose grant is on its way, which then is. `Tended`: a stream of the
  playground that has not ended has a request of its own, so that stopping it takes
  away nobody else's. Pages only send with the stored token (`PageStep`), and only
  an answer of the session changes who is signed in (`UserStays`).

Model-checked only:

* liveness: `RowsResolve`, `CallsEnd`, `RunsRecover`, `AbortsEnd`, and `WaitEnds`,
  the part of `SessionHolds` that no theorem states. It needs ENABLED.

## 5. What is not modelled

Whole components:

* the failure throttle: a map in one process, whose operations have no await in
  between, so that nothing interleaves and a unit test reaches all of it;
* analytics (read only), configuration (pure), the end-to-end tests.

Parts of modelled ones:

* calls: charges are one `Price` in `Settlement`, with their arithmetic in
  `Charges`; the early return of `completeGeneration` for `signal.aborted` after
  the provider answered, which the boundary's interruption makes unreachable;
  `markFailed`, which nothing calls; the dry run of a preflight, and
  `checkLimits` alone, which write nothing;
* limits: which rule of a plan and its overrides applies, and scopes by model; the
  settlement of a call that holds no units (`settleLimits` without holds,
  `recordUsage`);
* generation: bodies of requests, texts and tool calls (one delta stands for them);
* administration: list views of limits and budgets, renaming of organizations,
  external catalog sources and price suggestions; request schemas, renderers;
* migrator: the conversion of an old TTL index, the phases (a run sees the files
  of one), `getMigrationStatus`; migrations that only add indexes appear where an
  operation depends on the index;
* manager: logs, status, shell completion, the building of images; a signal that
  ends a subshell and not the command; a signal just before a swap or just after it,
  where the trap of a restore starts the API on a whole database; the installer
  beside another command, although it takes no lock;
* panel: the two `refreshStatus` calls after a 401 of `/me` are one; of the two
  loads that a customer picked at a later page sends, the first of which is
  cancelled at once, only the second appears; dashboard, provider discovery, lists
  inside drawer cards, renaming and deleting of organizations; layout and
  formatting.

Behaviour that was met while modelling and is kept by the models, though no run
is about it: a hold whose usage never comes is not returned; an error of the
balance step leaves the limit unit; two neighbouring buckets pass a hard cap
(`CapUnlessSkewed` names it); a migration outside a transaction may be run by two
processes once a lock is lost; a silent body under a provider with a timeout is
left at the timeout only; removing an entry id that occurs twice empties the
model; a changed default currency converts nothing; a restore runs the post
migrations of the deployed image over a database of another.

## 6. What is left

1. Refinements: `Migrator` as "applied once, in order"; `Generation` as the
   provider step of `Settlement`; `Customers` as the adjustments of `BillOnce`.
2. Models: the resolution of limit rules and their scopes; dashboard and provider
   discovery of the panel; catalog sources.
