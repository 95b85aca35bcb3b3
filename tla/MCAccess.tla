----------------------------- MODULE MCAccess -----------------------------
(* Access on two organizations: u1 is an administrator of both and owns    *)
(* them, u2 a member who manages keys and invites in one; two invites are  *)
(* open, one to a newcomer from u2 and one that narrows what u2 may do.    *)
EXTENDS Access, TLC

CONSTANTS u1, u2, u3, e1, e2, e3, o1, o2, o3, o4, i1, i2, i3, k1, k2, k3

MCPanelPermissions == {"manage", "customers:read", "customers:write"}
MCScopes == {"read", "write"}
MCPermissionOf == [s \in MCScopes |-> IF s = "read" THEN "customers:read" ELSE "customers:write"]
MCWriteOf == "customers:read" :> "customers:write"

Keeper == Member({"manage", "customers:read"})
MCInviteOffers == {Admin, Member({"customers:read"})}
MCKeyScopes == {{"read"}, {"write"}}
Everything == {"login", "logout", "signup", "acceptInvite", "useKey", "revokeKey",
               "changePassword", "addData", "updateMe", "createOrg", "deleteOrg",
               "switchOrg", "createInvite", "revokeInvite", "issueKey", "updateKey"}

In(o, g) == [org |-> o, grants |-> g]
Doc(e, memberships) ==
    [status |-> "active", email |-> e, hash |-> 0, memberships |-> memberships,
     active |-> memberships[1].org]
Row(u, o) == [NoSession EXCEPT !.live = TRUE, !.user = u, !.org = o, !.tokens = {o}]

(* Reached by sign-up, more organizations, invites and two sign-ins; k2    *)
(* was issued while o3 was being deleted.                                  *)
InitSettled ==
    /\ users = [u \in Users |->
            CASE u = u1 -> Doc(e1, <<In(o1, Admin), In(o2, Admin)>>)
              [] u = u2 -> Doc(e2, <<In(o1, Keeper), In(o2, Keeper)>>)
              [] OTHER  -> AbsentUser]
    /\ orgs = [o \in Orgs |-> 
            CASE o \in {o1, o2} -> [status |-> "present", owner |-> u1, data |-> FALSE]
              [] o = o3 -> [status |-> "deleted", owner |-> u1, data |-> FALSE]
              [] OTHER -> AbsentOrg]
    /\ sessions = [s \in Users \cup Requests |->
            CASE s = u1 -> Row(u1, o1) [] s = u2 -> Row(u2, o1) [] OTHER -> NoSession]
    /\ invites = [i \in Invites |->
            CASE i = i1 -> [status |-> "pending", org |-> o1, by |-> u2, email |-> e3,
                            grants |-> Member({"customers:read"}), expired |-> FALSE]
              [] i = i2 -> [status |-> "pending", org |-> o1, by |-> u1, email |-> e2,
                            grants |-> Member({}), expired |-> FALSE]
              [] OTHER -> AbsentInvite]
    /\ keys = [k \in Keys |-> 
            CASE k = k1 -> [status |-> "active", org |-> o1, scopes |-> {"write"}]
              [] k = k2 -> [status |-> "active", org |-> o3, scopes |-> {"read"}]
              [] OTHER -> AbsentKey]
    /\ InitAccess

MCInit == InitFresh \/ InitSettled
MCSpec == MCInit /\ [][Next]_vars
Symmetry == Permutations(Requests)
=============================================================================
