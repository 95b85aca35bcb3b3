------------------------------- MODULE Access -------------------------------
(***************************************************************************)
(* Users, sessions, organizations, invites and management keys, as the     *)
(* requests of several browsers and clients change them at the same time.  *)
(*   domains/auth/{operations,session,authz}.ts, domains/organizations,    *)
(*   domains/keys, routes/{auth,signup,invites,organizations,              *)
(*   management-keys}.ts, infrastructure/mongo/repositories/live.ts        *)
(*                                                                         *)
(* Nothing here runs in a transaction: a request is a sequence of calls of *)
(* the database, one action each, and may die between any two of them.     *)
(***************************************************************************)
EXTENDS Permissions, Places, Naturals, Sequences, FiniteSets

CONSTANTS
    Users, Emails, Orgs, Invites, Keys,
    Requests,    \* each makes one request of the API
    Operations,  \* what the requests may ask for
    InviteOffers,\* the grants an invite may carry
    KeyScopes,   \* the sets of scopes a key may be given
    NoUser, NoOrg, NoEmail, NoItem

ASSUME AccessAssumption ==
    /\ InviteOffers \subseteq Grants
    /\ KeyScopes \subseteq SUBSET Scopes
    /\ NoUser \notin Users /\ NoOrg \notin Orgs /\ NoEmail \notin Emails

VARIABLES
    users,     \* users[u]: its document
    orgs,      \* orgs[o]: its document, and whether business data refers to it
    sessions,  \* sessions[r]: the session row that request r inserted
    invites,   \* invites[i]
    keys,      \* keys[k]: management keys
    lock,      \* the claim _locks.first_run_signup: free, fresh or stale
    req,       \* req[r]: where request r is and what it has read
    seen       \* what no document keeps (history)

vars == <<users, orgs, sessions, invites, keys, lock, req, seen>>

Present(u) == users[u].status # "none"
Exists(o) == orgs[o].status = "present"

AbsentUser == [status |-> "none", email |-> NoEmail, hash |-> 0,
               memberships |-> <<>>, active |-> NoOrg]
AbsentOrg == [status |-> "none", owner |-> NoUser, data |-> FALSE]
NoSession == [live |-> FALSE, user |-> NoUser, org |-> NoOrg, tokens |-> {},
              hash |-> 0, raced |-> FALSE]
AbsentInvite == [status |-> "none", org |-> NoOrg, by |-> NoUser,
                 email |-> NoEmail, grants |-> Member({}), expired |-> FALSE]
AbsentKey == [status |-> "none", org |-> NoOrg, scopes |-> {}]

Idle == [at |-> "idle"]
Done == [at |-> "done"]

-----------------------------------------------------------------------------
(* memberships.find: the first one, if two of one organization are there.  *)
Belongs(memberships, o) == \E n \in DOMAIN memberships : memberships[n].org = o
Find(memberships, o) ==
    CHOOSE n \in DOMAIN memberships :
        /\ memberships[n].org = o
        /\ \A k \in 1..(n - 1) : memberships[k].org # o
RoleForOrganization(memberships, o) == memberships[Find(memberships, o)].grants
Without(memberships, o) ==
    AtPlaces(memberships, {n \in DOMAIN memberships : memberships[n].org # o})

(* Of one user at a time, as every write of the users collection is.       *)
SetActiveOrganization(u, o) ==
    users' = [users EXCEPT ![u].active = IF Present(u) THEN o ELSE @]
AddMembership(u, o, grants) ==
    users' = [users EXCEPT ![u].memberships = Append(@, [org |-> o, grants |-> grants]),
                           ![u].active = o]
UpdateMembership(u, o, grants) ==
    LET memberships == users[u].memberships
    IN  users' = [users EXCEPT ![u].memberships =
            IF Belongs(memberships, o)
            THEN [memberships EXCEPT ![Find(memberships, o)].grants = grants]
            ELSE memberships]
PullMembershipAndRepoint(u, o, next) ==
    users' = [users EXCEPT ![u].memberships = Without(@, o),
                           ![u].active = next]

(* Unique indexes of username and email.                                   *)
EmailTaken(e, u) == \E v \in Users \ {u} : Present(v) /\ users[v].email = e
UpdateEmail(u, e) ==
    users' = IF EmailTaken(e, u) THEN users ELSE [users EXCEPT ![u].email = e]

InsertSession(r, u, o, hash) ==
    sessions' = [sessions EXCEPT ![r] =
        [live |-> TRUE, user |-> u, org |-> o, tokens |-> {o}, hash |-> hash,
         raced |-> req[r].raced]]
DeleteSessions(gone) ==
    sessions' = [s \in DOMAIN sessions |->
        IF s \in gone THEN [sessions[s] EXCEPT !.live = FALSE] ELSE sessions[s]]
SessionsOf(u) == {s \in DOMAIN sessions : sessions[s].live /\ sessions[s].user = u}

-----------------------------------------------------------------------------
(* How a request goes on. A write disturbs whoever else is under way.      *)
Running(r) == req[r].at \notin {"idle", "done"}

Goes(r, next) == req' = [req EXCEPT ![r] = next]
Reads(r, step) == Goes(r, [req[r] EXCEPT !.at = step])
Ends(r) == Goes(r, Done)

Disturbed(r, q) ==
    IF q # r /\ Running(q) THEN [req[q] EXCEPT !.clear = FALSE] ELSE req[q]
Wrote(r, next) ==
    req' = [q \in Requests |-> IF q = r THEN next ELSE Disturbed(r, q)]
Writes(r, step) == Wrote(r, [req[r] EXCEPT !.at = step])
Finishes(r) == Wrote(r, Done)

(* Sessions and organizations do not go away for those under way.          *)
Overtakes(r) ==
    req' = [q \in Requests |->
              IF q = r THEN Done
              ELSE IF Running(q) THEN [req[q] EXCEPT !.clear = FALSE, !.raced = TRUE]
              ELSE req[q]]

UserOf(r) == req[r].user
OrgOf(r) == req[r].org
ActorGrants(r) == RoleForOrganization(req[r].memberships, req[r].tenant)
(* The routes' requirePermission; the rest asks for no permission.         *)
InviteGate == {"createInvite", "revokeInvite"}
KeyGate == {"issueKey", "updateKey", "revokeKey"}
Gate(op, g) == op \in InviteGate \cup KeyGate => HasPanelPermission(g, Manage)

(* The bodies that may hold what `may' says of each field.                 *)
Nothing == [user |-> {NoUser}, org |-> {NoOrg}, item |-> {NoItem}, email |-> {NoEmail},
            grants |-> {Member({})}, scopes |-> {{}}, status |-> {"none"}]
Bodies(may) == [user : may.user, org : may.org, item : may.item, email : may.email,
                grants : may.grants, scopes : may.scopes, status : may.status]

Request(op, sid, tenant, body) ==
    [op |-> op, at |-> "start", sid |-> sid, tenant |-> tenant,
     user |-> body.user, org |-> body.org, item |-> body.item, email |-> body.email,
     grants |-> body.grants, scopes |-> body.scopes, status |-> body.status,
     by |-> NoUser, hash |-> 0, memberships |-> <<>>, existing |-> {}, left |-> {},
     clear |-> TRUE, raced |-> FALSE]

(* What the routes take from the path and the body of a request.           *)
AuthRoutes(op) ==
    CASE op = "login" -> [Nothing EXCEPT !.user = Users]
      [] op = "updateMe" -> [Nothing EXCEPT !.email = Emails]
      [] op \in {"logout", "changePassword"} -> Nothing

SignupRoute == [Nothing EXCEPT !.user = Users, !.org = Orgs]

InviteRoutes(op) ==
    CASE op = "createInvite" ->
            [Nothing EXCEPT !.item = Invites, !.email = Emails, !.grants = InviteOffers]
      [] op = "revokeInvite" -> [Nothing EXCEPT !.item = Invites]
      [] op = "acceptInvite" -> [Nothing EXCEPT !.item = Invites, !.user = Users]

OrganizationRoutes == [Nothing EXCEPT !.org = Orgs]

ManagementKeyRoutes(op) ==
    CASE op = "issueKey" -> [Nothing EXCEPT !.item = Keys, !.scopes = KeyScopes]
      [] op = "updateKey" -> [Nothing EXCEPT !.item = Keys, !.scopes = KeyScopes,
                                             !.status = {"none", "active", "revoked"}]
      [] op = "revokeKey" -> [Nothing EXCEPT !.item = Keys]

Elsewhere(op) == IF op = "useKey" THEN [Nothing EXCEPT !.item = Keys] ELSE Nothing

Routes(op) ==
    CASE op \in {"login", "updateMe", "logout", "changePassword"} -> AuthRoutes(op)
      [] op = "signup" -> SignupRoute
      [] op \in {"createInvite", "revokeInvite", "acceptInvite"} -> InviteRoutes(op)
      [] op \in {"createOrg", "deleteOrg", "switchOrg"} -> OrganizationRoutes
      [] op \in {"issueKey", "updateKey", "revokeKey"} -> ManagementKeyRoutes(op)
      [] op \in {"useKey", "addData"} -> Elsewhere(op)

Anonymous == {"login", "signup", "acceptInvite", "useKey"}

(* A token names its session and the organization it was issued for.       *)
Arrive(r) ==
    /\ req[r].at = "idle"
    /\ \E op \in Operations : \E body \in Bodies(Routes(op)) :
        \/ /\ op \in Anonymous
           /\ Goes(r, Request(op, NoItem, NoOrg, body))
        \/ /\ op \notin Anonymous
           /\ \E s \in DOMAIN sessions : \E o \in sessions[s].tokens :
                Goes(r, Request(op, s, o, body))
    /\ UNCHANGED <<users, orgs, sessions, invites, keys, lock, seen>>

At(r, op, step) == req[r].at = step /\ req[r].op = op

(* Refused, failed or killed: what was written stays.                      *)
Stop(r) ==
    /\ Running(r)
    /\ Ends(r)
    /\ UNCHANGED <<users, orgs, sessions, invites, keys, lock, seen>>

-----------------------------------------------------------------------------
(* resolveAdminSession: the row, then the user. The row says which         *)
(* organization is meant; a token of another one is stale.                 *)
ReadSession(r) ==
    /\ req[r].at = "start" /\ req[r].op \notin Anonymous
    /\ LET row == sessions[req[r].sid]
       IN  IF row.live /\ row.org = req[r].tenant
           THEN Goes(r, [req[r] EXCEPT !.at = "user", !.user = row.user])
           ELSE Ends(r)
    /\ UNCHANGED <<users, orgs, sessions, invites, keys, lock, seen>>

ReadUser(r) ==
    /\ req[r].at = "user"
    /\ LET doc == users[UserOf(r)]
           g == RoleForOrganization(doc.memberships, req[r].tenant)
       IN  IF /\ doc.status = "active"
              /\ Belongs(doc.memberships, req[r].tenant)
              /\ Gate(req[r].op, g)
           THEN Goes(r, [req[r] EXCEPT !.at = "run", !.hash = doc.hash,
                                       !.memberships = doc.memberships])
           ELSE Ends(r)
    /\ UNCHANGED <<users, orgs, sessions, invites, keys, lock, seen>>

(* issueAdminToken without a session: a row of its own for the request.    *)
MintsSession(r) ==
    /\ req[r].at = "mint"
    /\ InsertSession(r, UserOf(r), OrgOf(r), req[r].hash)
    /\ Finishes(r)
    /\ UNCHANGED <<users, orgs, invites, keys, lock, seen>>

(* ... and with one: the row is kept and moved, or replaced if it is gone. *)
TouchExpiry(r) ==
    /\ req[r].at = "touch"
    /\ IF sessions[req[r].sid].live
       THEN /\ sessions' = [sessions EXCEPT ![req[r].sid].org = OrgOf(r),
                                           ![req[r].sid].tokens = @ \cup {OrgOf(r)}]
            /\ Finishes(r)
       ELSE /\ Reads(r, "mint")
            /\ UNCHANGED sessions
    /\ UNCHANGED <<users, orgs, invites, keys, lock, seen>>

-----------------------------------------------------------------------------
(* login: the hash that was read is the hash that was verified.            *)
Login(r) ==
    /\ At(r, "login", "start")
    /\ LET doc == users[UserOf(r)]
       IN  IF doc.status = "active"
           THEN Goes(r, [req[r] EXCEPT !.at = "mint", !.org = doc.active,
                                       !.hash = doc.hash])
           ELSE Ends(r)
    /\ UNCHANGED <<users, orgs, sessions, invites, keys, lock, seen>>

Logout(r) ==
    /\ At(r, "logout", "run")
    /\ DeleteSessions({req[r].sid} \cap SessionsOf(UserOf(r)))
    /\ Finishes(r)
    /\ UNCHANGED <<users, orgs, invites, keys, lock, seen>>

(* updateMe: other devices are signed out before the address is written.   *)
UpdateMe(r) ==
    \/ /\ At(r, "updateMe", "run")
       /\ IF EmailTaken(req[r].email, UserOf(r)) \/ users[UserOf(r)].email = req[r].email
          THEN Ends(r)
          ELSE Reads(r, "others")
       /\ UNCHANGED <<users, sessions>>
    \/ /\ At(r, "updateMe", "others")
       /\ DeleteSessions(SessionsOf(UserOf(r)) \ {req[r].sid})
       /\ Writes(r, "email")
       /\ UNCHANGED users
    \/ /\ At(r, "updateMe", "email")
       /\ UpdateEmail(UserOf(r), req[r].email)
       /\ Finishes(r)
       /\ UNCHANGED sessions

UpdatesMe(r) == UpdateMe(r) /\ UNCHANGED <<orgs, invites, keys, lock, seen>>

\* Mutant: only the session of this browser is deleted.
DeleteCurrent(r) == DeleteSessions({req[r].sid} \cap SessionsOf(UserOf(r)))

(* changePassword: the new hash, then every session. Whoever of this user  *)
(* is under way at the second write may still insert a session after it.   *)
NewHash(r) ==
    /\ At(r, "changePassword", "run")
    /\ users' = [users EXCEPT ![UserOf(r)].hash = @ + 1]
    /\ Writes(r, "revoke")
    /\ UNCHANGED <<orgs, sessions, invites, keys, lock, seen>>

DeleteAllForUser(r) == DeleteSessions(SessionsOf(UserOf(r)))

RevokeSessions(r) ==
    /\ At(r, "changePassword", "revoke")
    /\ DeleteAllForUser(r)
    /\ Overtakes(r)
    /\ seen' = [seen EXCEPT !.revoked[UserOf(r)] = users[UserOf(r)].hash]
    /\ UNCHANGED <<users, orgs, invites, keys, lock>>

-----------------------------------------------------------------------------
(* Invites.                                                                *)
CreateInvite(r) ==
    /\ At(r, "createInvite", "run")
    /\ invites[req[r].item].status = "none"
    /\ IF CanGrantPanelAccess(ActorGrants(r), req[r].grants)
       THEN /\ invites' = [invites EXCEPT ![req[r].item] =
                 [status |-> "pending", org |-> req[r].tenant, by |-> UserOf(r),
                  email |-> req[r].email, grants |-> req[r].grants,
                  expired |-> FALSE]]
            /\ Finishes(r)
       ELSE Ends(r) /\ UNCHANGED invites
    /\ UNCHANGED <<users, orgs, sessions, keys, lock, seen>>

RevokePending(i, o) ==
    invites' = IF invites[i].status = "pending" /\ invites[i].org = o
               THEN [invites EXCEPT ![i].status = "revoked"] ELSE invites

RevokeInvite(r) ==
    /\ At(r, "revokeInvite", "run")
    /\ RevokePending(req[r].item, req[r].tenant)
    /\ Finishes(r)
    /\ UNCHANGED <<users, orgs, sessions, keys, lock, seen>>

InviteExpires(i) ==
    /\ invites[i].status = "pending"
    /\ ~invites[i].expired
    /\ invites' = [invites EXCEPT ![i].expired = TRUE]
    /\ UNCHANGED <<users, orgs, sessions, keys, lock, req, seen>>

(* acceptInvite: the invite, its inviter as of now, the account it is for; *)
(* then the claim, which one request gets, and what it grants.             *)
FindPending(r) ==
    /\ At(r, "acceptInvite", "start")
    /\ LET i == invites[req[r].item]
       IN  IF i.status = "pending" /\ ~i.expired
           THEN Goes(r, [req[r] EXCEPT !.at = "inviter", !.org = i.org, !.by = i.by,
                                       !.grants = i.grants, !.email = i.email])
           ELSE Ends(r)
    /\ UNCHANGED <<users, orgs, sessions, invites, keys, lock, seen>>

InviterHolds(r) ==
    LET inviter == users[req[r].by]
    IN  /\ inviter.status = "active"
        /\ Belongs(inviter.memberships, OrgOf(r))
        /\ CanGrantPanelAccess(RoleForOrganization(inviter.memberships, OrgOf(r)),
                               req[r].grants)

\* Mutant: the inviter must only still be a member.
CheckMember(r) ==
    /\ At(r, "acceptInvite", "inviter")
    /\ IF Belongs(users[req[r].by].memberships, OrgOf(r))
       THEN Reads(r, "account") /\ UNCHANGED invites
       ELSE RevokePending(req[r].item, OrgOf(r)) /\ Finishes(r)
    /\ UNCHANGED <<users, orgs, sessions, keys, lock, seen>>

CheckInviter(r) ==
    /\ At(r, "acceptInvite", "inviter")
    /\ IF InviterHolds(r)
       THEN Reads(r, "account") /\ UNCHANGED invites
       ELSE RevokePending(req[r].item, OrgOf(r)) /\ Finishes(r)
    /\ UNCHANGED <<users, orgs, sessions, keys, lock, seen>>

Account(e) == {u \in Users : Present(u) /\ users[u].email = e}

FindAccount(r) ==
    /\ At(r, "acceptInvite", "account")
    /\ \/ \E u \in Account(req[r].email) :
            IF users[u].status = "active"
            THEN Goes(r, [req[r] EXCEPT !.at = "claim", !.user = u, !.hash = users[u].hash,
                                        !.memberships = users[u].memberships])
            ELSE Ends(r)
       \/ /\ Account(req[r].email) = {}
          /\ IF Present(UserOf(r)) THEN Ends(r)
             ELSE Goes(r, [req[r] EXCEPT !.at = "claim", !.status = "new"])
    /\ UNCHANGED <<users, orgs, sessions, invites, keys, lock, seen>>

\* Mutant: the claim does not look at the status.
ClaimAnyway(i, taken) ==
    taken /\ invites' = [invites EXCEPT ![i].status = "accepted"]

ClaimPending(i, taken) ==
    IF invites[i].status = "pending" /\ ~invites[i].expired
    THEN taken /\ invites' = [invites EXCEPT ![i].status = "accepted"]
    ELSE ~taken /\ UNCHANGED invites

ClaimInvite(r) ==
    /\ At(r, "acceptInvite", "claim")
    /\ \/ ClaimPending(req[r].item, TRUE) /\ Writes(r, "grant")
       \/ ClaimPending(req[r].item, FALSE) /\ Ends(r)
    /\ UNCHANGED <<users, orgs, sessions, keys, lock, seen>>

(* What was read of the account decides between the three writes.          *)
Grant(r) ==
    /\ At(r, "acceptInvite", "grant")
    /\ \/ /\ req[r].status = "new"
          /\ IF Present(UserOf(r)) \/ EmailTaken(req[r].email, UserOf(r))
             THEN Ends(r) /\ UNCHANGED <<users, seen>>
             ELSE /\ users' = [users EXCEPT ![UserOf(r)] =
                        [status |-> "active", email |-> req[r].email, hash |-> 0,
                         memberships |-> <<[org |-> OrgOf(r), grants |-> req[r].grants]>>,
                         active |-> OrgOf(r)]]
                  /\ seen' = [seen EXCEPT !.granted[req[r].item] = @ + 1]
                  /\ Writes(r, "mint")
       \/ /\ req[r].status # "new"
          /\ IF Belongs(req[r].memberships, OrgOf(r))
             THEN UpdateMembership(UserOf(r), OrgOf(r), req[r].grants) /\ Writes(r, "active")
             ELSE AddMembership(UserOf(r), OrgOf(r), req[r].grants) /\ Writes(r, "mint")
          /\ seen' = [seen EXCEPT !.granted[req[r].item] = @ + 1]
    /\ UNCHANGED <<orgs, sessions, invites, keys, lock>>

(* setActiveOrganization of acceptInvite, after the membership is written. *)
GrantActive(r) ==
    /\ At(r, "acceptInvite", "active")
    /\ SetActiveOrganization(UserOf(r), OrgOf(r))
    /\ Writes(r, "mint")
    /\ UNCHANGED <<orgs, sessions, invites, keys, lock, seen>>

-----------------------------------------------------------------------------
(* Organizations. switchActiveOrganization goes by the memberships that    *)
(* resolveAdminSession read.                                               *)
SwitchOrg(r) ==
    \/ /\ At(r, "switchOrg", "run")
       /\ IF Belongs(req[r].memberships, OrgOf(r)) /\ Exists(OrgOf(r))
          THEN Reads(r, "active") ELSE Ends(r)
       /\ UNCHANGED users
    \/ /\ At(r, "switchOrg", "active")
       /\ SetActiveOrganization(UserOf(r), OrgOf(r))
       /\ Writes(r, "touch")

SwitchesOrg(r) == SwitchOrg(r) /\ UNCHANGED <<orgs, sessions, invites, keys, lock, seen>>

InsertOrg(o, owner) ==
    orgs' = [orgs EXCEPT ![o] = [status |-> "present", owner |-> owner, data |-> FALSE]]

CreateOrg(r) ==
    \/ /\ At(r, "createOrg", "run")
       /\ orgs[OrgOf(r)].status = "none"
       /\ InsertOrg(OrgOf(r), UserOf(r))
       /\ Writes(r, "member")
       /\ UNCHANGED users
    \/ /\ At(r, "createOrg", "member")
       /\ AddMembership(UserOf(r), OrgOf(r), Admin)
       /\ Writes(r, "touch")
       /\ UNCHANGED orgs

CreatesOrg(r) == CreateOrg(r) /\ UNCHANGED <<sessions, invites, keys, lock, seen>>

(* deleteOrganization: the owner, of another one too, and nothing in it ... *)
MayDelete(r) ==
    /\ Belongs(req[r].memberships, OrgOf(r))
    /\ Exists(OrgOf(r))
    /\ orgs[OrgOf(r)].owner = UserOf(r)
    /\ Len(req[r].memberships) > 1

Remaining(u, o) == Without(users[u].memberships, o)

NextActive(u, o) ==
    IF \E n \in DOMAIN Remaining(u, o) : Remaining(u, o)[n].org = users[u].active
    THEN users[u].active ELSE Remaining(u, o)[1].org

(* ... the members as they are read once, save those without another one;  *)
Leavers(o) ==
    {<<u, NextActive(u, o)>> : u \in {v \in Users : /\ Belongs(users[v].memberships, o)
                                                    /\ Remaining(v, o) # <<>>}}

(* ... pulled one by one; then keys, invites and the organization.         *)
CheckDelete(r) ==
    \/ /\ At(r, "deleteOrg", "run")
       /\ IF MayDelete(r) THEN Reads(r, "count") ELSE Ends(r)
    \/ /\ At(r, "deleteOrg", "count")
       /\ IF orgs[OrgOf(r)].data THEN Ends(r) ELSE Reads(r, "members")
    \/ /\ At(r, "deleteOrg", "members")
       /\ Goes(r, [req[r] EXCEPT !.at = "pull", !.left = Leavers(OrgOf(r))])

ChecksDelete(r) == CheckDelete(r) /\ UNCHANGED <<users, orgs, sessions, invites, keys, lock, seen>>

PullMember(r) ==
    /\ At(r, "deleteOrg", "pull")
    /\ \E m \in req[r].left :
        /\ PullMembershipAndRepoint(m[1], OrgOf(r), m[2])
        /\ Wrote(r, [req[r] EXCEPT !.left = @ \ {m}])
        /\ seen' = [seen EXCEPT !.crossed = @ \/ \E q \in Requests \ {r} : Running(q)]
    /\ UNCHANGED <<orgs, sessions, invites, keys, lock>>

DeleteKeysByOrg(o) == keys' = [k \in Keys |-> IF keys[k].org = o THEN AbsentKey ELSE keys[k]]
DeleteInvitesByOrg(o) ==
    invites' = [i \in Invites |-> IF invites[i].org = o
                                  THEN [AbsentInvite EXCEPT !.status = "deleted"]
                                  ELSE invites[i]]

DeleteOrg(r) ==
    \/ /\ At(r, "deleteOrg", "pull") /\ req[r].left = {}
       /\ DeleteKeysByOrg(OrgOf(r))
       /\ Writes(r, "invites")
       /\ UNCHANGED <<orgs, invites>>
    \/ /\ At(r, "deleteOrg", "invites")
       /\ DeleteInvitesByOrg(OrgOf(r))
       /\ Writes(r, "org")
       /\ UNCHANGED <<orgs, keys>>
    \/ /\ At(r, "deleteOrg", "org")
       /\ orgs' = [orgs EXCEPT ![OrgOf(r)].status = "deleted"]
       /\ Overtakes(r)
       /\ UNCHANGED <<invites, keys>>

DeletesOrg(r) == DeleteOrg(r) /\ UNCHANGED <<users, sessions, lock, seen>>

(* A provider, customer, model, plan or key of a customer is inserted.     *)
AddData(r) ==
    /\ At(r, "addData", "run")
    /\ orgs' = [orgs EXCEPT ![req[r].tenant].data = TRUE]
    /\ Finishes(r)
    /\ UNCHANGED <<users, sessions, invites, keys, lock, seen>>

-----------------------------------------------------------------------------
(* Management keys.                                                        *)
IssueKey(r) ==
    /\ At(r, "issueKey", "run")
    /\ keys[req[r].item].status = "none"
    /\ IF CanGrantManagementScopes(ActorGrants(r), req[r].scopes)
       THEN /\ keys' = [keys EXCEPT ![req[r].item] =
                 [status |-> "active", org |-> req[r].tenant, scopes |-> req[r].scopes]]
            /\ Finishes(r)
       ELSE Ends(r) /\ UNCHANGED keys
    /\ UNCHANGED <<users, orgs, sessions, invites, lock, seen>>

KeyOf(r) == keys[req[r].item]

(* The scopes are worked out from what was read and written as a whole.    *)
ReadKey(r) ==
    /\ At(r, "updateKey", "run")
    /\ IF /\ KeyOf(r).status # "none" /\ KeyOf(r).org = req[r].tenant
          /\ MayRescope(ActorGrants(r), KeyOf(r).scopes, req[r].scopes)
       THEN Goes(r, [req[r] EXCEPT !.at = "write", !.existing = KeyOf(r).scopes])
       ELSE Ends(r)
    /\ UNCHANGED <<users, orgs, sessions, invites, keys, lock, seen>>

UpdateManagementKey(k, o, doc) ==
    keys' = IF keys[k].status # "none" /\ keys[k].org = o
            THEN [keys EXCEPT ![k] = doc] ELSE keys

UpdateKey(r) ==
    /\ At(r, "updateKey", "write")
    /\ UpdateManagementKey(req[r].item, req[r].tenant,
         [KeyOf(r) EXCEPT
            !.scopes = FinalScopes(ActorGrants(r), req[r].existing, req[r].scopes),
            !.status = IF req[r].status = "none" THEN @ ELSE req[r].status])
    /\ Finishes(r)
    /\ UNCHANGED <<users, orgs, sessions, invites, lock, seen>>

(* A patch without scopes is not checked against those of the actor: its   *)
(* read only asks whether the key is there, and keys are not deleted.      *)
RestatusKey(r) ==
    /\ At(r, "updateKey", "run")
    /\ UpdateManagementKey(req[r].item, req[r].tenant,
         [KeyOf(r) EXCEPT !.status = IF req[r].status = "none" THEN @ ELSE req[r].status])
    /\ Finishes(r)
    /\ UNCHANGED <<users, orgs, sessions, invites, lock, seen>>

RevokeKey(r) ==
    /\ At(r, "revokeKey", "run")
    /\ UpdateManagementKey(req[r].item, req[r].tenant, [KeyOf(r) EXCEPT !.status = "revoked"])
    /\ Finishes(r)
    /\ UNCHANGED <<users, orgs, sessions, invites, lock, seen>>

(* resolvePublicPrincipal of a management key: the key, then its           *)
(* organization, which may have been deleted under it.                     *)
\* Mutant: the organization is not looked up.
UseDetached(r) ==
    \/ /\ At(r, "useKey", "start")
       /\ IF KeyOf(r).status = "active"
          THEN Goes(r, [req[r] EXCEPT !.at = "serve", !.org = KeyOf(r).org])
          ELSE Ends(r)

UseKey(r) ==
    \/ /\ At(r, "useKey", "start")
       /\ IF KeyOf(r).status = "active"
          THEN Goes(r, [req[r] EXCEPT !.at = "tenant", !.org = KeyOf(r).org])
          ELSE Ends(r)
    \/ /\ At(r, "useKey", "tenant")
       /\ IF Exists(OrgOf(r)) THEN Reads(r, "serve") ELSE Ends(r)

UsesKey(r) == UseKey(r) /\ UNCHANGED <<users, orgs, sessions, invites, keys, lock, seen>>

-----------------------------------------------------------------------------
(* signup: no users yet, then the claim.                                   *)
NoUsers == \A u \in Users : ~Present(u)

CountUsers(r) ==
    /\ At(r, "signup", "start")
    /\ IF NoUsers THEN Reads(r, "claim") ELSE Ends(r)
    /\ UNCHANGED <<users, orgs, sessions, invites, keys, lock, seen>>

(* claimBootstrap: a claim in the way is looked at if there is no user,    *)
(* and taken away when it is old. release takes away whichever is there.   *)
ClaimLock(r) ==
    \/ /\ At(r, "signup", "claim") \/ At(r, "signup", "again")
       /\ IF lock = "free"
          THEN lock' = "fresh" /\ Writes(r, "org")
          ELSE /\ IF req[r].at = "again" THEN Ends(r) ELSE Reads(r, "taken")
               /\ UNCHANGED lock
       /\ UNCHANGED seen
    \/ /\ At(r, "signup", "taken")
       /\ IF NoUsers THEN Reads(r, "look") ELSE Ends(r)
       /\ UNCHANGED <<lock, seen>>
    \/ /\ At(r, "signup", "look")
       /\ CASE lock = "free"  -> Reads(r, "again")
            [] lock = "fresh" -> Ends(r)
            [] lock = "stale" -> Reads(r, "clear")
       /\ UNCHANGED <<lock, seen>>
    \/ /\ At(r, "signup", "clear")
       /\ lock' = "free"
       /\ Writes(r, "again")
       /\ seen' = [seen EXCEPT !.doubted = TRUE]

ClaimsLock(r) == ClaimLock(r) /\ UNCHANGED <<users, orgs, sessions, invites, keys>>

LockAges ==
    /\ lock = "fresh"
    /\ lock' = "stale"
    /\ UNCHANGED <<users, orgs, sessions, invites, keys, req, seen>>

(* The organization, its administrator and a session; each may fail, which *)
(* undoes the organization but not the administrator, and then the claim.  *)
FreshEmail(u) == CHOOSE e \in Emails : ~EmailTaken(e, u)

Found(r) ==
    \/ /\ At(r, "signup", "org")
       /\ \/ /\ orgs[OrgOf(r)].status = "none"
             /\ InsertOrg(OrgOf(r), UserOf(r)) /\ Writes(r, "admin")
          \/ Reads(r, "release") /\ UNCHANGED orgs
       /\ UNCHANGED users
    \/ /\ At(r, "signup", "admin")
       /\ \/ /\ ~Present(UserOf(r))
             /\ \E e \in Emails : ~EmailTaken(e, UserOf(r))
             /\ users' = [users EXCEPT ![UserOf(r)] =
                    [status |-> "active", email |-> FreshEmail(UserOf(r)), hash |-> 0,
                     memberships |-> <<[org |-> OrgOf(r), grants |-> Admin]>>,
                     active |-> OrgOf(r)]]
             /\ Writes(r, "mint")
             /\ UNCHANGED orgs
          \/ /\ orgs' = [orgs EXCEPT ![OrgOf(r)].status = "deleted"]
             /\ Writes(r, "release")
             /\ UNCHANGED users

Founds(r) ==
    /\ Found(r)
    /\ seen' = [seen EXCEPT !.founders = @ \cup {u \in Users : ~Present(u) /\ users'[u].status # "none"}]
    /\ UNCHANGED <<sessions, invites, keys, lock>>

TokenFails(r) ==
    /\ At(r, "signup", "mint")
    /\ Reads(r, "release")
    /\ UNCHANGED <<users, orgs, sessions, invites, keys, lock, seen>>

ReleaseLock(r) ==
    /\ At(r, "signup", "release")
    /\ lock' = "free"
    /\ seen' = [seen EXCEPT !.doubted = @ \/ ~NoUsers]
    /\ Finishes(r)
    /\ UNCHANGED <<users, orgs, sessions, invites, keys>>

-----------------------------------------------------------------------------
InitAccess ==
    /\ lock = "free"
    /\ req = [r \in Requests |-> Idle]
    /\ seen = [revoked |-> [u \in Users |-> 0], granted |-> [i \in Invites |-> 0],
               founders |-> {}, crossed |-> FALSE, doubted |-> FALSE]

(* An installation before its first sign-up.                               *)
InitFresh ==
    /\ users = [u \in Users |-> AbsentUser]
    /\ orgs = [o \in Orgs |-> AbsentOrg]
    /\ sessions = [s \in Users \cup Requests |-> NoSession]
    /\ invites = [i \in Invites |-> AbsentInvite]
    /\ keys = [k \in Keys |-> AbsentKey]
    /\ InitAccess

Accepts(r) == \/ FindPending(r) \/ CheckInviter(r) \/ FindAccount(r)
              \/ ClaimInvite(r) \/ Grant(r) \/ GrantActive(r)
Signup(r) == \/ CountUsers(r) \/ ClaimsLock(r) \/ Founds(r) \/ TokenFails(r)
             \/ ReleaseLock(r)
Organizations(r) == \/ SwitchesOrg(r) \/ CreatesOrg(r) \/ ChecksDelete(r)
                    \/ PullMember(r) \/ DeletesOrg(r) \/ AddData(r)
ManagementKeys(r) == \/ IssueKey(r) \/ ReadKey(r) \/ UpdateKey(r) \/ RestatusKey(r)
                     \/ RevokeKey(r) \/ UsesKey(r)
Session(r) == \/ ReadSession(r) \/ ReadUser(r) \/ MintsSession(r) \/ TouchExpiry(r)
              \/ Login(r) \/ Logout(r) \/ UpdatesMe(r) \/ NewHash(r) \/ RevokeSessions(r)
InvitesNext(r) == CreateInvite(r) \/ RevokeInvite(r) \/ Accepts(r)

Next ==
    \/ \E r \in Requests : \/ Arrive(r) \/ Stop(r) \/ Session(r) \/ InvitesNext(r)
                           \/ Organizations(r) \/ ManagementKeys(r) \/ Signup(r)
    \/ \E i \in Invites : InviteExpires(i)
    \/ LockAges

Spec == InitFresh /\ [][Next]_vars

-----------------------------------------------------------------------------
Membership == [org : Orgs, grants : Grants]

(* What the handlers leave in every collection has the type of its schema. *)
TypeOK ==
    /\ \A u \in Users :
        /\ users[u].status \in {"none", "active"}
        /\ users[u].email \in Emails \cup {NoEmail}
        /\ users[u].hash \in Nat
        /\ users[u].memberships \in Seq(Membership)
        /\ users[u].active \in Orgs \cup {NoOrg}
    /\ orgs \in [Orgs -> [status : {"none", "present", "deleted"},
                          owner : Users \cup {NoUser}, data : BOOLEAN]]
    /\ \A s \in DOMAIN sessions :
        /\ sessions[s].live => sessions[s].user \in Users /\ sessions[s].org \in sessions[s].tokens
        /\ sessions[s].tokens \subseteq Orgs
    /\ \A i \in Invites :
        /\ invites[i].status \in {"none", "pending", "accepted", "revoked", "deleted"}
        /\ invites[i].grants \in Grants
    /\ keys \in [Keys -> [status : {"none", "active", "revoked"},
                          org : Orgs \cup {NoOrg}, scopes : SUBSET Scopes]]
    /\ lock \in {"free", "fresh", "stale"}

(* A session that was opened with an earlier password outlives a change of *)
(* it only if the request that inserted it was under way when the sessions *)
(* were deleted (operations.ts:473; login and switch may both do this).    *)
SessionsFresh ==
    \A s \in DOMAIN sessions :
        sessions[s].live /\ sessions[s].hash < seen.revoked[sessions[s].user]
            => sessions[s].raced

(* An invite grants once; one that was revoked, or has run out, never      *)
(* (the linearization point of acceptInvite).                              *)
InviteOnce ==
    \A i \in Invites :
        /\ seen.granted[i] <= 1
        /\ seen.granted[i] = 1 => invites[i].status \in {"accepted", "deleted"}

(* What an invite grants, its inviter held through the whole of the        *)
(* request that accepts it, unless another request got between.            *)
GrantsHeld ==
    [][\A r \in Requests :
        /\ At(r, "acceptInvite", "grant") /\ req[r].clear
        /\ seen'.granted # seen.granted
        /\ req'[r] # req[r]
        => InviterHolds(r)]_vars

(* A key never gets a scope from someone who could not grant it, and loses *)
(* none to them; a scope comes back to it only if it was there when the    *)
(* actor read the key.                                                     *)
ScopesHeld ==
    [][\A r \in Requests : \A k \in Keys :
        /\ Running(r) /\ req'[r] = Done
        /\ req[r].op \in {"issueKey", "updateKey"}
        /\ keys'[k].scopes # keys[k].scopes
        => /\ CanGrantManagementScopes(ActorGrants(r),
                keys'[k].scopes \ (keys[k].scopes \cup req[r].existing))
           /\ req[r].clear => CanGrantManagementScopes(ActorGrants(r),
                (keys'[k].scopes \ keys[k].scopes) \cup (keys[k].scopes \ keys'[k].scopes))]_vars

(* No key of a deleted organization is let in by a request that began      *)
(* after the deletion, although keys may be issued while it goes on.       *)
KeysDieWithOrg ==
    \A r \in Requests :
        At(r, "useKey", "serve") => Exists(OrgOf(r)) \/ req[r].raced

(* The organization a user is signed in to next is one of theirs, unless   *)
(* an organization was deleted while other requests were under way: then   *)
(* a switch, or a deletion of the other one, locks the user out for good.  *)
ActiveIsMember ==
    seen.crossed \/ \A u \in Users :
        Present(u) => Belongs(users[u].memberships, users[u].active)

(* There is one first administrator, unless a claim was given up after the *)
(* administrator was made or was taken away from a slow sign-up.           *)
FirstAdmins == seen.doubted \/ Cardinality(seen.founders) <= 1

(* What lets people in works once: an invite, and the first sign-up.       *)
AdmittedOnce == InviteOnce /\ FirstAdmins

(* No right is passed on, to a member or to a key, by someone without it.  *)
RightsHeld == GrantsHeld /\ ScopesHeld

(* A deletion of an organization leaves nobody pointed at it, lets no     *)
(* key of it in, and every document of the type of its schema.             *)
OrgsEndWhole == TypeOK /\ ActiveIsMember /\ KeysDieWithOrg
=============================================================================
