---------------------------- MODULE Permissions ----------------------------
(***************************************************************************)
(* What a membership of an organization and a management key allow:        *)
(*   packages/contracts/src/{panel-permissions,management-scopes}.ts.      *)
(* An administrator's membership stands for the whole catalog.             *)
(***************************************************************************)
CONSTANTS
    PanelPermissions,  \* PANEL_PERMISSIONS
    Scopes,            \* MANAGEMENT_SCOPES
    PermissionOf,      \* the panel permission that lets one grant a scope
    WriteOf,           \* x:write, by x:read where the catalog has both
    Manage             \* stands for the :write gates of keys and invites

ASSUME PermissionsAssumption ==
    /\ Manage \in PanelPermissions
    /\ DOMAIN PermissionOf = Scopes
    /\ \A s \in Scopes : PermissionOf[s] \in PanelPermissions
    /\ DOMAIN WriteOf \subseteq PanelPermissions
    /\ \A p \in DOMAIN WriteOf : WriteOf[p] \in PanelPermissions

(* Grants == what is stored of a membership: an admin's list is empty.     *)
Grants == [role : {"admin", "member"}, permissions : SUBSET PanelPermissions]
Admin == [role |-> "admin", permissions |-> {}]
Member(permissions) == [role |-> "member", permissions |-> permissions]

EffectivePanelPermissions(g) ==
    IF g.role = "admin" THEN PanelPermissions ELSE g.permissions

(* Write implies read, for the gates and for the scopes of keys ...        *)
HasPanelPermission(g, required) ==
    \/ g.role = "admin"
    \/ required \in g.permissions
    \/ required \in DOMAIN WriteOf /\ WriteOf[required] \in g.permissions

(* ... but not for what may be passed on in an invite.                     *)
CanGrantPanelAccess(g, granted) ==
    EffectivePanelPermissions(granted) \subseteq EffectivePanelPermissions(g)

CanGrantManagementScopes(g, scopes) ==
    \A s \in scopes : HasPanelPermission(g, PermissionOf[s])

(* updateManagementKey: scopes the actor could not grant stay as they are. *)
LockedScopes(g, existing) ==
    {s \in existing : ~CanGrantManagementScopes(g, {s})}

MayRescope(g, existing, submitted) ==
    CanGrantManagementScopes(g, submitted \ existing)

FinalScopes(g, existing, submitted) ==
    LockedScopes(g, existing)
        \cup {s \in submitted : CanGrantManagementScopes(g, {s})}
=============================================================================
