CONSTANTS
  Absent = Absent
  Nobody = Nobody
  Currencies = {"USD"}
  Currency = "USD"
  Factor <- MCFactor
  Catalog <- MCCatalog
  Mailboxes = {"m1"}
  CustomerSets <- MCCustomerSets
  MetadataSets <- MCMetadataSets
  OldReleases = {"minor", "units"}
  Deltas <- MCDeltas
  Prices = {2, 7}
  Caps = {3}
  TokenCap = 3
  MaxWrites = 3
  MaxCrashes = 1
SPECIFICATION UpgradeSpec
CHECK_DEADLOCK FALSE
INVARIANTS MoneyConserved DocumentsRepaired
PROPERTIES ReadingKept
