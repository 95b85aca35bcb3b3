SPECIFICATION MCSpec
CONSTANTS
    c1 = c1
    c2 = c2
    c3 = c3
    e1 = e1
    e2 = e2
    x1 = x1
    p1 = p1
    p2 = p2
    p3 = p3
    v1 = v1
    v2 = v2
    v3 = v3
    m1 = m1
    m2 = m2
    m3 = m3
    i1 = i1
    i2 = i2
    i3 = i3
    i4 = i4
    i5 = i5
    i6 = i6
    i7 = i7
    k1 = k1
    r0 = r0
    r1 = r1
    r2 = r2
    None = None
    NoId = NoId
    NoPriority = NoPriority
    Requests = {r0, r1, r2}
    CustomerIds = {c1, c2, c3}
    PlanIds = {p1, p2, p3}
    Emails = {e1, e2}
    ExternalIds = {x1}
    Currencies = {"USD", "EUR"}
    IdempotencyKeys = {k1}
    KeyPrefixes = {"a", "b"}
    Attempts = 2
    ProviderIds = {v1, v2, v3}
    ModelIds = {m1, m2, m3}
    Aliases = {"a1", "a2"}
    EntryIds = {i1, i2, i3, i4, i5, i6, i7}
    Upstreams = {"u1", "u2"}
    Priorities = {0, 2}
    Manage = "manage"
    PanelPermissions <- MCPanelPermissions
    Scopes <- MCScopes
    PermissionOf <- MCPermissionOf
    WriteOf <- MCWriteOf
    Principals <- MCPrincipals
    RuleSets <- MCRuleSets
    Amounts <- MCAmounts
    EntryInputs <- MCEntryInputs
    Reorders <- MCReorders
    Operations <- Everything
SYMMETRY Symmetry
CHECK_DEADLOCK FALSE
INVARIANTS LedgerHolds NamesAreUnique DocumentsSound
PROPERTIES AnswersTrue
