--------------------------- MODULE DataMigrations ---------------------------
(***************************************************************************)
(* The data migrations of an upgrade and the code that serves meanwhile.   *)
(* The pre-migrations run while the old release serves; the old release    *)
(* stops; the post-migrations run, with the new release already serving    *)
(* when an unfinished update was started again, and before it otherwise.   *)
(* The new release only starts on a database whose pre-migrations are      *)
(* applied.  A migration that is not transactional is a sequence of steps, *)
(* each of them an updateMany or a read, and a crash or a refused write    *)
(* makes the next attempt run the migration again from its first step.     *)
(*                                                                         *)
(* One document of each kind stands for its collection: a balance, whose   *)
(* fields are updated one by one; a price, replaced whole by whoever edits *)
(* it; a spend rule and a token rule; one spend bucket; the entries of one *)
(* model; the customers and the users; the metadata of some models.        *)
(***************************************************************************)
EXTENDS MoneyFields, Backfills

CONSTANTS OldReleases,  \* the amount field of the release upgraded from
          Currency,     \* currency of the documents
          Catalog,      \* catalog cost of each entry id, or Nobody
          Deltas,       \* what an adjustment adds to a balance
          Prices, Caps, \* amounts an admin enters
          TokenCap,     \* the cap of the token rule
          CustomerSets, MetadataSets, \* documents an installation may hold
          MaxWrites,    \* bound: writes of the serving code
          MaxCrashes    \* bound: interrupted migrations

ASSUME CurrencyAssumption == Currency \in Currencies
ASSUME OldAssumption == OldReleases \subseteq {"minor", "units"}
ASSUME AmountAssumption ==
  Deltas \subseteq Int /\ Prices \subseteq Int /\ Caps \subseteq Nat /\ TokenCap \in Nat
ASSUME BoundAssumption == MaxWrites \in Nat /\ MaxCrashes \in Nat

(* The customers that have an address, the only ones the repair reads, with *)
(* their rank by age.                                                       *)
ASSUME CustomerAssumption ==
  \A rows \in CustomerSets :
    /\ rows \in Seq(CustomerRow)
    /\ \A i \in DOMAIN rows : /\ rows[i].email \in Address /\ rows[i].kept = Nobody
                              /\ rows[i].age \in DOMAIN rows
    /\ \A i, j \in DOMAIN rows : rows[i].age = rows[j].age => i = j
ASSUME MetadataAssumption ==
  \A docs \in MetadataSets : \A m \in DOMAIN docs : docs[m] # Nobody => docs[m] \subseteq ValueKinds
ASSUME NobodyAssumption == Nobody \notin Address

VARIABLES old,        \* the release upgraded from
          serving,    \* "old", "none" or "new"
          place,      \* <<migration, step>> to run next
          seen,       \* what the running migration has read
          blocked,    \* the last attempt was refused, by an index or by data
          balance, price, rules, bucket, entries, margin,
          customers, users, metadata,
          indexed,    \* the unique index on customer addresses exists
          ledger,     \* ghost: micros the balance should hold
          missed,     \* ghost: what the old release added after the copy
          spent,      \* ghost: micros of spend counted
          capped,     \* ghost: the spend cap last set, in micros
          resaved,    \* ghost: the rule was saved without its marker
          writes, crashes

money   == <<balance, price, rules, bucket>>
repairs == <<entries, margin, customers, users, metadata, indexed>>
ghosts  == <<ledger, missed, spent, capped, resaved>>
run     == <<place, seen, blocked>>
upgradeVars == <<old, serving, run, money, repairs, ghosts, writes, crashes>>

F == Factor[Currency]
None == [minor |-> Absent, units |-> Absent, micros |-> Absent]
Only(field, v) == [None EXCEPT ![field] = v]

(* The migrations in the order of their ids, each as its steps: a          *)
(* migration outside a transaction is recorded in a step of its own.       *)
Pre  == << <<"copy_units", "record">>, <<"copy_micros", "scale_caps", "record">>,
           <<"read_entries", "write_entries", "record">> >>
Post == << <<"customer_emails">>, <<"email_index", "record">>, <<"metadata">>,
           <<"resync_units", "drop_minor", "rename_minor", "record">>,
           <<"read_users", "write_users", "record">>,
           <<"promote_micros", "drop_units", "finalize_rules", "finalize_counters", "record">> >>
Schedule == Pre \o Post

Done == place[1] > Len(Schedule)
PreApplied == place[1] > Len(Pre)
Applied(name) == \A i \in DOMAIN Schedule :
                    (\E k \in DOMAIN Schedule[i] : Schedule[i][k] = name) => place[1] > i

----------------------------------------------------------------------------
(* A step of the migrator: pre while the old release serves, post after it.*)
At(name) ==
  /\ ~Done
  /\ Schedule[place[1]][place[2]] = name
  /\ IF PreApplied THEN serving # "old" ELSE serving = "old"

NextStep ==
  /\ place' = IF place[2] < Len(Schedule[place[1]]) THEN <<place[1], place[2] + 1>>
                                                     ELSE <<place[1] + 1, 1>>
  /\ blocked' = FALSE

(* The runner records nothing: the next attempt starts the migration over. *)
Refused == place' = <<place[1], 1>> /\ blocked' = TRUE /\ seen' = Nobody

StepEnds == NextStep /\ UNCHANGED <<seen, old, serving, ghosts, writes, crashes>>

OnAmounts(Op(_)) ==
  /\ balance' = Op(balance)
  /\ price' = Op(price)
  /\ entries' = [i \in DOMAIN entries |-> [entries[i] EXCEPT !.price = Op(@)]]

EntryPrices == [i \in DOMAIN entries |-> entries[i].price]

RecordStep == At("record") /\ StepEnds /\ UNCHANGED <<money, repairs>>

CopyUnitsStep ==
  /\ At("copy_units") /\ StepEnds
  /\ OnAmounts(CopyUnits)
  /\ UNCHANGED <<rules, bucket, margin, customers, users, metadata, indexed>>

CopyMicrosStep ==
  /\ At("copy_micros") /\ StepEnds
  /\ balance' = CopyMicros(balance, Currency)
  /\ price' = CopyMicros(price, Currency)
  /\ LET prices == CopyEntryMicros(EntryPrices, Currency)
     IN  entries' = [i \in DOMAIN entries |->
                       [id |-> entries[i].id, price |-> prices[i],
                        cost |-> IF entries[i].cost = "units" THEN "micros" ELSE entries[i].cost]]
  /\ UNCHANGED <<rules, bucket, margin, customers, users, metadata, indexed>>

ScaleCapsStep ==
  /\ At("scale_caps") /\ StepEnds
  /\ rules' = [i \in DOMAIN rules |-> ScaleCap(rules[i], Currency)]
  /\ UNCHANGED <<balance, price, bucket, repairs>>

ReadEntries ==
  /\ At("read_entries") /\ NextStep
  /\ seen' = [entries |-> entries, price |-> price, margin |-> margin]
  /\ UNCHANGED <<old, serving, money, repairs, ghosts, writes, crashes>>

WriteEntries ==
  /\ At("write_entries") /\ NextStep
  /\ entries' = BackfillCosts(entries, seen.entries, Catalog)
  /\ margin' = BackfillMargin(margin, seen.margin, Patched(seen.entries, Catalog),
                              seen.price.micros # Absent)
  /\ seen' = Nobody
  /\ UNCHANGED <<old, serving, money, customers, users, metadata, indexed, ghosts, writes, crashes>>

CustomerEmails ==
  /\ At("customer_emails") /\ StepEnds
  /\ customers' = LowerCustomerEmails(customers)
  /\ UNCHANGED <<money, entries, margin, users, metadata, indexed>>

EmailIndex ==
  /\ At("email_index")
  /\ IF IndexBuilds(customers)
     THEN StepEnds /\ indexed' = TRUE
     ELSE Refused /\ UNCHANGED <<indexed, old, serving, ghosts, writes, crashes>>
  /\ UNCHANGED <<money, entries, margin, customers, users, metadata>>

(* One transaction: a value no string stands for leaves every model as it was. *)
MetadataStep ==
  /\ At("metadata")
  /\ IF \E m \in DOMAIN metadata : MetadataRefused(metadata[m])
     THEN Refused /\ UNCHANGED <<metadata, old, serving, ghosts, writes, crashes>>
     ELSE StepEnds /\ metadata' = [m \in DOMAIN metadata |-> NormalizeMetadata(metadata[m])]
  /\ UNCHANGED <<money, entries, margin, customers, users, indexed>>

ResyncUnitsStep ==
  /\ At("resync_units") /\ StepEnds
  /\ OnAmounts(ResyncUnits)
  /\ UNCHANGED <<rules, bucket, margin, customers, users, metadata, indexed>>

DropMinorStep ==
  /\ At("drop_minor") /\ StepEnds
  /\ OnAmounts(DropMinor)
  /\ UNCHANGED <<rules, bucket, margin, customers, users, metadata, indexed>>

RenameMinorStep ==
  /\ At("rename_minor") /\ StepEnds
  /\ rules' = [i \in DOMAIN rules |-> RenameMinor(rules[i])]
  /\ bucket' = RelabelMinor(bucket)
  /\ UNCHANGED <<balance, price, repairs>>

ReadUsers ==
  /\ At("read_users")
  /\ IF UsersCollide(users)
     THEN Refused /\ UNCHANGED <<old, serving, ghosts, writes, crashes>>
     ELSE NextStep /\ seen' = users /\ UNCHANGED <<old, serving, ghosts, writes, crashes>>
  /\ UNCHANGED <<money, repairs>>

(* An unordered bulk write by _id: each user that was read is lowered unless *)
(* the unique index on the stored address holds it back.                     *)
Lowerable(i) == \A j \in DOMAIN users : j # i => users[j] # Lower(users[i])
WriteUsers ==
  /\ At("write_users")
  /\ users' = [i \in DOMAIN users |->
                 IF i \in DOMAIN seen /\ Lowerable(i) THEN Lower(users[i]) ELSE users[i]]
  /\ IF \A i \in DOMAIN seen : Lowerable(i)
     THEN NextStep /\ seen' = Nobody
     ELSE Refused
  /\ UNCHANGED <<old, serving, money, entries, margin, customers, metadata, indexed, ghosts,
                 writes, crashes>>

PromoteMicrosStep ==
  /\ At("promote_micros") /\ StepEnds
  /\ balance' = PromoteStored(balance, Currency)
  /\ price' = PromoteStored(price, Currency)
  /\ LET es == CleanupEntries(EntryPrices, Currency)
     IN  entries' = [i \in DOMAIN entries |-> [entries[i] EXCEPT !.price = es[i]]]
  /\ UNCHANGED <<rules, bucket, margin, customers, users, metadata, indexed>>

DropUnitsStep ==
  /\ At("drop_units") /\ StepEnds
  /\ OnAmounts(DropUnits)
  /\ UNCHANGED <<rules, bucket, margin, customers, users, metadata, indexed>>

FinalizeRulesStep ==
  /\ At("finalize_rules") /\ StepEnds
  /\ rules' = [i \in DOMAIN rules |-> FinalizeRule(rules[i], Currency)]
  /\ UNCHANGED <<balance, price, bucket, repairs>>

(* The rename of a bucket the new release has begun is a duplicate key.  *)
FinalizeCounters ==
  /\ At("finalize_counters")
  /\ IF RenameRefused(bucket)
     THEN Refused /\ UNCHANGED <<bucket, old, serving, ghosts, writes, crashes>>
     ELSE StepEnds /\ bucket' = FinalizeBucket(bucket, Currency)
  /\ UNCHANGED <<balance, price, rules, repairs>>

MigrationStep ==
  \/ RecordStep \/ CopyUnitsStep \/ CopyMicrosStep \/ ScaleCapsStep \/ ReadEntries \/ WriteEntries
  \/ CustomerEmails \/ EmailIndex \/ MetadataStep
  \/ ResyncUnitsStep \/ DropMinorStep \/ RenameMinorStep
  \/ ReadUsers \/ WriteUsers
  \/ PromoteMicrosStep \/ DropUnitsStep \/ FinalizeRulesStep \/ FinalizeCounters

(* The process or its connection dies between two steps.  *)
Crash ==
  /\ crashes < MaxCrashes /\ ~Done /\ place[2] > 1
  /\ place' = <<place[1], 1>> /\ seen' = Nobody /\ blocked' = FALSE
  /\ crashes' = crashes + 1
  /\ UNCHANGED <<old, serving, money, repairs, ghosts, writes>>

StopOld ==
  /\ serving = "old" /\ PreApplied
  /\ serving' = "none"
  /\ UNCHANGED <<old, run, money, repairs, ghosts, writes, crashes>>

StartNew ==
  /\ serving = "none"
  /\ serving' = "new"
  /\ UNCHANGED <<old, run, money, repairs, ghosts, writes, crashes>>

----------------------------------------------------------------------------
(* Writes of the old release: it knows the field and the label of its time.*)

Write(release) ==
  /\ serving = release /\ writes < MaxWrites
  /\ writes' = writes + 1
  /\ UNCHANGED <<old, serving, run, crashes>>

(* A balance update touches its own field and no other: the copy the       *)
(* pre-migration made of that field stays as it was.                       *)
Copied == (IF old = "minor" THEN balance.units ELSE balance.micros) # Absent

OldBalanceInc ==
  /\ Write("old")
  /\ \E delta \in Deltas :
       /\ balance' = [balance EXCEPT ![old] = @ + delta]
       /\ ledger' = ledger + delta * F
       /\ missed' = missed + IF Copied THEN delta ELSE 0
  /\ UNCHANGED <<price, rules, bucket, repairs, spent, capped, resaved>>

(* An edit replaces the money object: newer fields vanish with it.  *)
OldPriceSet ==
  /\ Write("old")
  /\ \E amount \in Prices : price' = Only(old, amount)
  /\ UNCHANGED <<balance, rules, bucket, repairs, ghosts>>

OldDim == IF old = "minor" THEN "spend_minor" ELSE "spend_units"

OldRuleSet ==
  /\ Write("old")
  /\ \E cap \in Caps :
       /\ rules' = [rules EXCEPT ![1] = [dim |-> OldDim, cap |-> cap, scaled |-> FALSE]]
       /\ capped' = cap * F
  /\ resaved' = FALSE
  /\ UNCHANGED <<balance, price, bucket, repairs, ledger, missed, spent>>

OldSpend ==
  /\ Write("old")
  /\ bucket' = [bucket EXCEPT ![old] = IfNull(@, 0) + 1]
  /\ spent' = spent + F
  /\ UNCHANGED <<balance, price, rules, repairs, ledger, missed, capped, resaved>>

(* Entries are saved as one array: reordered, one of them given a cost.  *)
OldEntriesSave ==
  /\ Write("old")
  /\ \E costed \in {0, 1} :
       LET kept(i) == entries[Len(entries) + 1 - i]
       IN  entries' = [i \in DOMAIN entries |->
              [id |-> kept(i).id, price |-> Only(old, kept(i).price[old]),
               cost |-> IF i = costed \/ kept(i).cost = "micros" THEN "units" ELSE kept(i).cost]]
  /\ UNCHANGED <<money, margin, customers, users, metadata, indexed, ghosts>>

----------------------------------------------------------------------------
(* Writes of the new release.  *)

NewBalanceInc ==
  /\ Write("new")
  /\ \E delta \in Deltas :
       /\ balance' = BalanceInc(balance, Currency, delta)
       /\ ledger' = ledger + delta
  /\ UNCHANGED <<price, rules, bucket, repairs, missed, spent, capped, resaved>>

NewPriceSet ==
  /\ Write("new")
  /\ \E amount \in Prices : price' = Only("micros", amount)
  /\ UNCHANGED <<balance, rules, bucket, repairs, ghosts>>

(* The panel sends the rules of a plan back under the dimension it read,   *)
(* with the cap in micros and without the marker.                          *)
NewRuleSave ==
  /\ Write("new")
  /\ LET dim == RenameMinor(rules[1]).dim IN
     \E cap \in Caps :
       /\ rules' = [rules EXCEPT ![1] = [dim |-> dim, cap |-> cap, scaled |-> FALSE]]
       /\ resaved' = (resaved \/ dim = "spend_units")
       /\ capped' = cap
  /\ UNCHANGED <<balance, price, bucket, repairs, ledger, missed, spent>>

NewSpend ==
  /\ Write("new")
  /\ bucket' = CountMicros(bucket, 1)
  /\ spent' = spent + 1
  /\ UNCHANGED <<balance, price, rules, repairs, ledger, missed, capped, resaved>>

NewEntriesSave ==
  /\ Write("new")
  /\ entries' = [i \in DOMAIN entries |-> [entries[i] EXCEPT !.price = NormalizeMoney(@, Currency)]]
  /\ UNCHANGED <<money, margin, customers, users, metadata, indexed, ghosts>>

(* Addresses are lowered as they are parsed; only stored bytes are compared.*)
NewCustomer ==
  /\ Write("new")
  /\ \E box \in Mailboxes :
       LET row == [age |-> Len(customers) + 1, email |-> [box |-> box, lower |-> TRUE], kept |-> Nobody]
       IN  /\ indexed => \A i \in DOMAIN customers : customers[i].email # row.email
           /\ customers' = Append(customers, row)
  /\ UNCHANGED <<money, entries, margin, users, metadata, indexed, ghosts>>

NewSignup ==
  /\ Write("new")
  /\ \E box \in Mailboxes :
       LET email == [box |-> box, lower |-> TRUE]
       IN  /\ \A i \in DOMAIN users : users[i] # email
           /\ users' = Append(users, email)
  /\ UNCHANGED <<money, entries, margin, customers, metadata, indexed, ghosts>>

OldWrite == OldBalanceInc \/ OldPriceSet \/ OldRuleSet \/ OldSpend \/ OldEntriesSave
NewWrite == NewBalanceInc \/ NewPriceSet \/ NewRuleSave \/ NewSpend \/ NewEntriesSave
            \/ NewCustomer \/ NewSignup

UpgradeInit ==
  /\ old \in OldReleases
  /\ serving = "old" /\ seen = Nobody /\ blocked = FALSE
  /\ place = IF old = "minor" THEN <<1, 1>> ELSE <<2, 1>>
  /\ \E amount \in Prices, ids \in [1..2 -> DOMAIN Catalog] :
       /\ ids[1] # ids[2]
       /\ balance = Only(old, amount) /\ ledger = amount * F
       /\ price = Only(old, amount)
       /\ entries = [i \in 1..2 |-> [id |-> ids[i], price |-> Only(old, amount), cost |-> Nobody]]
  /\ \E cap \in Caps :
       /\ rules = << [dim |-> OldDim, cap |-> cap, scaled |-> FALSE],
                     [dim |-> "tokens", cap |-> TokenCap, scaled |-> FALSE] >>
       /\ capped = cap * F
  /\ bucket = None
  /\ margin = "default"
  /\ customers \in CustomerSets
  /\ \E box \in Mailboxes, lower \in BOOLEAN : users = << [box |-> box, lower |-> lower] >>
  /\ metadata \in MetadataSets
  /\ indexed = FALSE
  /\ missed = 0 /\ spent = 0 /\ resaved = FALSE
  /\ writes = 0 /\ crashes = 0

UpgradeNext == MigrationStep \/ Crash \/ StopOld \/ StartNew \/ OldWrite \/ NewWrite

UpgradeSpec == UpgradeInit /\ [][UpgradeNext]_upgradeVars

----------------------------------------------------------------------------
(* Type correctness.  *)
DocumentsTyped ==
  /\ old \in OldReleases /\ serving \in {"old", "none", "new"} /\ blocked \in BOOLEAN
  /\ balance \in Amount /\ price \in Amount /\ bucket \in Amount
  /\ rules \in [1..2 -> Rule]
  /\ \A i \in DOMAIN entries : entries[i].price \in Amount
  /\ indexed \in BOOLEAN /\ resaved \in BOOLEAN
  /\ {ledger, missed, spent, capped} \subseteq Int
  /\ writes \in 0..MaxWrites /\ crashes \in 0..MaxCrashes

(* What the serving release reads of an amount (the old one knows its own  *)
(* field only, and reads nothing for a document it does not know).         *)
ReadBalance == IF serving = "old" THEN balance[old] ELSE NormalizeBalance(balance, Currency).micros
ReadPrice   == IF serving = "old" THEN price[old] ELSE NormalizeMoney(price, Currency).micros
ReadEntry(i) == IF serving = "old" THEN entries[i].price[old]
                ELSE NormalizeMoney(entries[i].price, Currency).micros

(* No step of a migration, run once or again after a crash, changes what   *)
(* the serving release reads of a balance, of a price or of an entry.      *)
ReadingKept ==
  [][(writes' = writes /\ serving' = serving) =>
        /\ ReadBalance' = ReadBalance /\ ReadPrice' = ReadPrice
        /\ \A i \in DOMAIN entries : ReadEntry(i)' = ReadEntry(i)]_upgradeVars

(* The balance is out by exactly what the old release added after micros   *)
(* were copied, and by nothing else: no crash, no rerun and no update of   *)
(* the new release in the dual-field window costs a micro.                 *)
OnlyLateWritesLost ==
  balance.micros # Absent => balance.micros + missed * F = ledger

(* docs/micros-money-migration.md: "Promote *Units -> *Micros (units wins  *)
(* if newer)": after the migrations the balance holds every adjustment.    *)
UnitsWinIfNewer == Done => balance.micros = ledger

CapMicros(r) == IF r.dim = "spend_micros" \/ r.scaled THEN r.cap ELSE r.cap * F

(* A spend cap is scaled exactly once, however often the migrations are    *)
(* started, unless someone saves the rule without its marker; a token cap  *)
(* is never scaled.                                                        *)
CapsScaledOnce ==
  /\ ~resaved => CapMicros(rules[1]) = capped
  /\ rules[2].cap = TokenCap /\ rules[2].dim = "tokens"

(* The spend a bucket stands for is the spend that was counted: units and  *)
(* micros never end up under one label before the rescale.                 *)
SpendConserved == BucketSpend(bucket, Currency) = spent

(* A backfilled cost is the catalog's cost of that entry, whatever order   *)
(* an admin gave the entries between the read and the write.               *)
CostOfItsEntry ==
  \A i \in DOMAIN entries : entries[i].cost \in {Nobody, "units", "micros", Catalog[entries[i].id]}

(* When everything is applied the new schema decodes every document: all   *)
(* amounts have micros, no legacy label is left, metadata are strings.     *)
SchemaDecodes ==
  Done =>
    /\ {balance.micros, price.micros} \cap {Absent} = {}
    /\ \A i \in DOMAIN entries : entries[i].price.micros # Absent
    /\ bucket.minor = Absent /\ bucket.units = Absent
    /\ rules[1].dim = "spend_micros" /\ ~rules[1].scaled
    /\ \A m \in DOMAIN metadata : metadata[m] \subseteq {"text"}

(* A customer who lost an address to an older one still has it on record,  *)
(* and that older customer holds it: attribution by address finds someone. *)
DisplacedHasOwner ==
  Applied("customer_emails") =>
    \A i \in DOMAIN customers :
       customers[i].email = Nobody =>
         /\ customers[i].kept # Nobody
         /\ \E j \in DOMAIN customers : /\ customers[j].age < customers[i].age
                                        /\ customers[j].email = Lower(customers[i].kept)

(* Once user addresses are repaired one mailbox is one login, whoever      *)
(* signed up between the read and the write of the repair.                 *)
OneLoginPerMailbox ==
  Applied("write_users") =>
    \A i, j \in DOMAIN users : users[i].lower /\ (i # j => users[i].box # users[j].box)

(* No money is made or lost but by writes of an old release that is still  *)
(* up: balances, caps and counted spend stand for what was written.        *)
MoneyConserved == OnlyLateWritesLost /\ CapsScaledOnce /\ SpendConserved

(* Every document ends as the new schema wants it, with its own data.      *)
DocumentsRepaired ==
  DocumentsTyped /\ CostOfItsEntry /\ SchemaDecodes /\ DisplacedHasOwner /\ OneLoginPerMailbox
============================================================================
