CONSTANTS
    Orgs = {"a", "b", "c"}
    Home = "a"
    Unborn = {"c"}
    Rights <- Granted
    Sids = {"s1", "s2"}
    Slots = {1, 2}
    Items = {"i1", "i2", "i3"}
    Present = {"i1", "i2"}
    Loose = {"i2"}
    Sels = {"x", "y"}
    FirstSel = "x"
    Sites <- Pages
    MaxMishaps = 1
    MaxOwn = 3
SPECIFICATION Spec
CHECK_DEADLOCK FALSE
INVARIANTS NothingOutlivesItsOrg QuietPageIsCurrent PageBelongsTogether
PROPERTIES SessionHolds
