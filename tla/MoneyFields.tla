---------------------------- MODULE MoneyFields ----------------------------
(***************************************************************************)
(* One stored amount of money while its representation changes twice:      *)
(* minor -> units (a rename) and units -> micros (a rescale by a factor of *)
(* the currency).  The operators are what the four money migrations, the   *)
(* read normaliser and the balance writer do to one amount, one rate-limit *)
(* rule and one spend counter; DataMigrations runs them in the order and   *)
(* with the interleavings of an upgrade.                                   *)
(***************************************************************************)
EXTENDS Integers, Sequences

CONSTANTS Currencies,   \* currencies of stored documents
          Factor,       \* micros per minor unit of each
          Absent        \* a field that is not in the document

ASSUME FactorAssumption == Factor \in [Currencies -> Nat \ {0}]
ASSUME AbsentAssumption == Absent \notin Int

Stored == Int \cup {Absent}

(* The three names an amount may be stored under.  *)
Amount == [minor : Stored, units : Stored, micros : Stored]

IfNull(a, b) == IF a # Absent THEN a ELSE b
Scaled(a, c) == IF a = Absent THEN Absent ELSE a * Factor[c]

----------------------------------------------------------------------------
(* Reading.  *)

(* The value a balance update starts from.  *)
Effective(d, c) ==
  IfNull(d.micros, IfNull(Scaled(d.units, c), IfNull(Scaled(d.minor, c), 0)))

PromoteMinor(d, preferMinor) ==
  [minor |-> Absent, micros |-> d.micros,
   units |-> IF preferMinor THEN IfNull(d.minor, d.units) ELSE IfNull(d.units, d.minor)]

PromoteMicros(d, c) ==
  [minor |-> d.minor, units |-> Absent, micros |-> IfNull(d.micros, Scaled(d.units, c))]

(* What the schema decoder is handed for a balance, and for other amounts.  *)
NormalizeBalance(d, c) == PromoteMicros(PromoteMinor(d, TRUE), c)
NormalizeMoney(d, c)   == PromoteMicros(PromoteMinor(d, FALSE), c)

----------------------------------------------------------------------------
(* Writing: a balance update keeps the floored units for an old reader.  *)

(* Mutant: the update starts from the floored units.  *)
M_IncFromUnits(d, c, delta) ==
  LET next == IfNull(Scaled(d.units, c), IfNull(d.micros, 0)) + delta
  IN  [minor |-> Absent, units |-> next \div Factor[c], micros |-> next]

BalanceInc(d, c, delta) ==
  LET next == Effective(d, c) + delta
  IN  [minor |-> Absent, units |-> next \div Factor[c], micros |-> next]

----------------------------------------------------------------------------
(* The migrations on one amount.  *)

CopyUnits(d) ==
  IF d.minor # Absent /\ d.units = Absent THEN [d EXCEPT !.units = d.minor] ELSE d

CopyMicros(d, c) ==
  IF d.units # Absent /\ d.micros = Absent THEN [d EXCEPT !.micros = Scaled(d.units, c)] ELSE d

(* The same of every entry of a model, on the document as it is at the write. *)
CopyEntryMicros(prices, c) == [i \in DOMAIN prices |-> CopyMicros(prices[i], c)]

ResyncUnits(d) == IF d.minor # Absent THEN [d EXCEPT !.units = d.minor] ELSE d
DropMinor(d)   == [d EXCEPT !.minor = Absent]

(* Mutant: the units, newer or not, win over the micros.  *)
M_UnitsWin(d, c) == [d EXCEPT !.micros = IfNull(Scaled(d.units, c), @)]

PromoteStored(d, c) ==
  IF d.units # Absent /\ d.micros = Absent THEN [d EXCEPT !.micros = Scaled(d.units, c)] ELSE d
DropUnits(d) == [d EXCEPT !.units = Absent]

(* The entry schedules of one model: the filter looks at the document, so  *)
(* one entry without micros rewrites every entry that still has units.     *)
CleanupEntries(es, c) ==
  IF \E i \in DOMAIN es : es[i].units # Absent /\ es[i].micros = Absent
  THEN [i \in DOMAIN es |->
          IF es[i].units = Absent THEN es[i]
          ELSE [es[i] EXCEPT !.micros = Scaled(es[i].units, c)]]
  ELSE es

----------------------------------------------------------------------------
(* Rate-limit rules.  `scaled` is the marker the pre-migration leaves.  *)

Dimensions == {"spend_minor", "spend_units", "spend_micros", "tokens"}
Rule == [dim : Dimensions, cap : Nat, scaled : BOOLEAN]

RenameMinor(r) == IF r.dim = "spend_minor" THEN [r EXCEPT !.dim = "spend_units"] ELSE r

ScaleCap(r, c) ==
  IF r.dim = "spend_units" /\ ~r.scaled
  THEN [dim |-> "spend_units", cap |-> r.cap * Factor[c], scaled |-> TRUE]
  ELSE r

FinalizeRule(r, c) ==
  IF r.dim = "spend_units"
  THEN [dim |-> "spend_micros", scaled |-> FALSE,
        cap |-> IF r.scaled THEN r.cap ELSE r.cap * Factor[c]]
  ELSE r

----------------------------------------------------------------------------
(* The labels of one spend bucket: minor or units where an older release   *)
(* counted, micros where the new one does.  The unique index allows one    *)
(* document per label.                                                     *)

CountMicros(b, spend) == [b EXCEPT !.micros = IfNull(@, 0) + spend]

RelabelMinor(b) ==
  IF b.minor = Absent THEN b ELSE [minor |-> Absent, units |-> b.minor, micros |-> b.micros]

(* Renaming needs the micros label to be free.  *)
RenameRefused(b) == b.units # Absent /\ b.micros # Absent

FinalizeBucket(b, c) ==
  IF b.units = Absent THEN b
  ELSE [minor |-> b.minor, units |-> Absent, micros |-> Scaled(b.units, c)]

(* Spend of a bucket in micros, whatever labels it is kept under.  *)
BucketSpend(b, c) ==
  IfNull(Scaled(b.minor, c), 0) + IfNull(Scaled(b.units, c), 0) + IfNull(b.micros, 0)
============================================================================
