SPECIFICATION MCSpec
CONSTANTS
    Users = {u1, u2, u3}
    Emails = {e1, e2, e3}
    Orgs = {o1, o2, o3, o4}
    Invites = {i1, i2, i3}
    Keys = {k1, k2, k3}
    Requests = {r1, r2}
    u1 = u1
    u2 = u2
    u3 = u3
    e1 = e1
    e2 = e2
    e3 = e3
    o1 = o1
    o2 = o2
    o3 = o3
    o4 = o4
    i1 = i1
    i2 = i2
    i3 = i3
    k1 = k1
    k2 = k2
    k3 = k3
    NoUser = NoUser
    NoOrg = NoOrg
    NoEmail = NoEmail
    NoItem = NoItem
    PanelPermissions <- MCPanelPermissions
    Scopes <- MCScopes
    PermissionOf <- MCPermissionOf
    WriteOf <- MCWriteOf
    Manage = "manage"
    InviteOffers <- MCInviteOffers
    KeyScopes <- MCKeyScopes
    Operations <- Everything
SYMMETRY Symmetry
CHECK_DEADLOCK FALSE
INVARIANTS SessionsFresh AdmittedOnce OrgsEndWhole
PROPERTIES RightsHeld
