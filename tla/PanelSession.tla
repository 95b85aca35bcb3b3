---------------------------- MODULE PanelSession ----------------------------
(***************************************************************************)
(* The session of one tab of the admin panel: AuthContext, the API client,  *)
(* the guards of the routes and the organization switch of the layout.      *)
(*                                                                          *)
(* The token is in localStorage, which the tabs of a browser share: other   *)
(* tabs are here as what they do to it.  A token names a session and the    *)
(* organization it was issued for; the server takes it while the session    *)
(* lives and stands in that organization.  A request is sent with the token *)
(* stored at that moment, is served later or never, and its answer is read  *)
(* later still, in any order.  One step is one task of the browser: a       *)
(* handler up to its next await, with the state updates it makes.           *)
(***************************************************************************)
EXTENDS Naturals, FiniteSets, TLC

CONSTANTS Orgs,          \* organizations of the operator
          Home,          \* the one whose data the page shows and edits
          Unborn,        \* those that are created on the way
          Rights,        \* what the operator may do on the page, by organization
          Sids,          \* sessions the server can have
          Slots,         \* requests of the tab in flight at a time
          Items, Sels,   \* rows of the page, and its filters
          Present,       \* the rows there are at the start
          MaxMishaps,    \* requests that end in an error, and steps of other tabs
          MaxOwn         \* steps of the operator

NoOrg == "no-org"
NoItem == "none"

ASSUME PanelAssumption ==
    /\ Unborn \subseteq Orgs /\ Home \in Orgs \ Unborn /\ NoOrg \notin Orgs
    /\ Rights \in [Orgs -> {"none", "read", "write"}]
    /\ IsFiniteSet(Slots) /\ Slots \subseteq Nat
    /\ Sids # {} /\ Items # {} /\ Present \subseteq Items /\ NoItem \notin Items
    /\ MaxMishaps \in Nat /\ MaxOwn \in Nat

NoToken == [sid |-> "none", org |-> NoOrg]

VARIABLES
    sessions,     \* the server's sessions
    setup,        \* the installation has its first administrator
    stored,       \* the token in localStorage
    user,         \* the active organization of the signed-in user, or none
    loading,      \* the provider has not finished its bootstrap
    needsSetup,   \* what the tab knows of setup: "unknown", "yes" or "no"
    net,          \* the tab's requests
    doc,          \* the rows of Home, on the server
    spent,        \* steps taken of each bounded kind
    excused       \* the session may be lost for a reason outside the tab's own steps

session == <<sessions, setup, stored, user, loading, needsSetup, spent, excused>>
vars0 == <<session, net, doc>>

-----------------------------------------------------------------------------
(* Requests.                                                                *)
Doc == [here : BOOLEAN, rev : 0..MaxOwn, hidden : {"stored", "loose", "typed", "lost"}]
Empty == [i \in Items |-> [here |-> FALSE, rev |-> 0, hidden |-> "stored"]]

Idle == [kind |-> "idle", token |-> NoToken, to |-> NoOrg, item |-> NoItem,
         from |-> NoItem, hidden |-> "omit", sel |-> NoItem, shown |-> NoOrg, code |-> "sent",
         grant |-> NoToken, val |-> Empty]

AuthKinds == {"me", "status", "bootStatus", "login", "signup", "switch", "logout", "password"}
Anonymous == {"status", "bootStatus", "login", "signup"}
Writes == {"save", "create", "remove", "patch", "close"}
PageKinds == Writes \cup {"load", "stream", "createOrg"}

Free(n) == {s \in Slots : n[s].kind = "idle"}
NextSlot(n) == CHOOSE s \in Free(n) : \A x \in Free(n) : s <= x
Busy(kinds) == \E s \in Slots : net[s].kind \in kinds

\* apiFetch: a request leaves with the token that is stored now.
Request(kind, token) == [Idle EXCEPT !.kind = kind, !.token = token, !.shown = user]
Put(n, q) == [n EXCEPT ![NextSlot(n)] = q]
Drop(s) == [net EXCEPT ![s] = Idle]

\* Requests of the tab that run while its session moves, or another begins, may be refused,
\* and a refusal clears the token that is stored by then.
Moves == {"switch", "createOrg"}
Races(n) == \E s, t \in Slots : /\ s # t /\ n[s].kind \in Moves \cup {"login", "signup"}
                               /\ n[t].token # NoToken

Mishap == spent.failures + spent.foreign < MaxMishaps
Spends(what) == spent' = [spent EXCEPT ![what] = @ + 1]
Sends(q) ==
    /\ Free(net) # {}
    /\ net' = Put(net, q)
    /\ excused' = (excused \/ Races(net'))

-----------------------------------------------------------------------------
(* The server, as far as the session goes (external to the panel).          *)
Valid(token) ==
    /\ token.sid \in Sids
    /\ sessions[token.sid] = token.org

Unused == {sid \in Sids : /\ sessions[sid] = NoOrg
                          /\ stored.sid # sid
                          /\ \A s \in Slots : sid \notin {net[s].token.sid, net[s].grant.sid}}

Answers(s, code, grant) ==
    net' = [net EXCEPT ![s] = [@ EXCEPT !.code = code, !.grant = grant]]

\* A new session; a wrong password is a 401 like any other.
ServeLogin(s) ==
    /\ net[s].kind \in {"login", "signup"}
    /\ \/ \E sid \in Unused, o \in Orgs \ Unborn :
            /\ net[s].kind = "login" <=> setup
            /\ sessions' = [sessions EXCEPT ![sid] = o]
            /\ setup' = TRUE
            /\ Answers(s, "ok", [sid |-> sid, org |-> o])
       \/ /\ net[s].kind = "login"
          /\ Answers(s, "unauthorized", NoToken)
          /\ UNCHANGED <<sessions, setup>>

ServeStatus(s) ==
    /\ net[s].kind \in {"status", "bootStatus"}
    /\ Answers(s, IF setup THEN "ok" ELSE "setup", NoToken)
    /\ UNCHANGED <<sessions, setup>>

\* A request whose token is not, or no longer, taken.
ServeStranger(s) ==
    /\ net[s].kind \notin Anonymous \cup {"idle"}
    /\ ~Valid(net[s].token)
    /\ Answers(s, "unauthorized", NoToken)
    /\ UNCHANGED <<sessions, setup>>

\* switch and the creation of an organization move the session to it.
ServeMove(s) ==
    LET q == net[s] IN
    /\ q.kind \in Moves
    /\ Valid(q.token)
    /\ sessions' = [sessions EXCEPT ![q.token.sid] = q.to]
    /\ Answers(s, "ok", [q.token EXCEPT !.org = q.to])
    /\ UNCHANGED setup

ServeAccount(s) ==
    LET q == net[s] IN
    /\ q.kind \in {"me", "logout", "password"}
    /\ Valid(q.token)
    /\ sessions' = CASE q.kind = "me" -> sessions
                     [] q.kind = "logout" -> [sessions EXCEPT ![q.token.sid] = NoOrg]
                     [] q.kind = "password" -> [sid \in Sids |-> NoOrg]
    /\ Answers(s, "ok", NoToken)
    /\ UNCHANGED setup

ServeSession(s) ==
    /\ net[s].code = "sent"
    /\ ServeLogin(s) \/ ServeStatus(s) \/ ServeStranger(s) \/ ServeMove(s) \/ ServeAccount(s)
    /\ UNCHANGED <<stored, user, loading, needsSetup, doc, spent, excused>>

\* The answer of a request, served or not, is lost on the way, or is an error.
Fails(s) ==
    /\ net[s].kind # "idle" /\ net[s].code # "failed"
    /\ Mishap
    /\ net' = [net EXCEPT ![s].code = "failed"]
    /\ Spends("failures")
    /\ excused' = TRUE
    /\ UNCHANGED <<sessions, setup, stored, user, loading, needsSetup, doc>>

-----------------------------------------------------------------------------
(* What the routes show.                                                    *)
\* RequireAuth and RootRedirect; the login and signup pages send a user on.
Guarded(page) ==
    CASE loading \/ needsSetup = "unknown" -> "wait"
      [] ~loading /\ needsSetup # "unknown" /\ user = NoOrg ->
             IF needsSetup = "yes" THEN "signup" ELSE "login"
      [] OTHER -> page

\* RequirePermission.
Permitted == user # NoOrg /\ Rights[user] # "none"
View == Guarded(IF Permitted THEN "page" ELSE "denied")

\* Mutant: the page is not mounted again.
AnyOrg == IF View = "page" THEN Home ELSE NoOrg

\* Outlet is keyed by the active organization: another key, another page.
OutletKey == IF View = "page" THEN user ELSE NoOrg
CanWrite == View = "page" /\ Rights[user] = "write"

-----------------------------------------------------------------------------
(* AuthProvider.                                                            *)
\* bootstrap, when the tab opens.
InitSession ==
    /\ setup \in BOOLEAN
    /\ \E sid \in {CHOOSE sid \in Sids : TRUE}, o \in Orgs \ Unborn :
         /\ sessions \in {[x \in Sids |-> NoOrg], [x \in Sids |-> IF x = sid THEN o ELSE NoOrg]}
         /\ stored \in {NoToken, [sid |-> sid, org |-> o]}
    /\ (\E sid \in Sids : sessions[sid] # NoOrg) => setup
    /\ user = NoOrg
    /\ loading = TRUE
    /\ needsSetup = "unknown"
    /\ net = Put([s \in Slots |-> Idle],
                 Request(IF stored = NoToken THEN "bootStatus" ELSE "me", stored))
    /\ doc = [i \in Items |-> [here |-> i \in Present, rev |-> 0, hidden |-> "stored"]]
    /\ spent = [failures |-> 0, foreign |-> 0, own |-> 0]
    /\ excused = FALSE

Reads(s, kind) == /\ net[s].kind = kind
                  /\ net[s].code # "sent"
Keeps == UNCHANGED <<sessions, setup, doc, spent>>

\* refreshStatus asks; a second one still unserved gives the same answer.
Refreshes(n, kind) ==
    IF \E s \in Slots : n[s].kind = kind /\ n[s].code = "sent" THEN n
    ELSE Put(n, Request(kind, NoToken))

\* clearToken, setUser(null), refreshStatus.
SignsOut(s) ==
    /\ stored' = NoToken
    /\ user' = NoOrg
    /\ net' = Refreshes(Drop(s), "status")
    /\ UNCHANGED <<loading, needsSetup, excused>>

\* A 401 of any request but the bootstrap's: AUTH_INVALIDATED_EVENT.
Invalidated(s) ==
    /\ net[s].kind # "me" /\ net[s].code = "unauthorized"
    /\ SignsOut(s)
    /\ Keeps

\* tokenValidatedState.
TokenValidated == needsSetup' = "no"

Bootstrapped(s) ==
    /\ Reads(s, "me")
    /\ \/ /\ net[s].code = "ok"
          /\ user' = net[s].token.org
          /\ TokenValidated
          /\ loading' = FALSE
          /\ net' = Drop(s)
          /\ UNCHANGED <<stored, excused>>
       \/ /\ net[s].code # "ok"
          /\ stored' = IF net[s].code = "unauthorized" THEN NoToken ELSE stored
          /\ user' = IF net[s].code = "unauthorized" THEN NoOrg ELSE user
          /\ net' = Refreshes(Drop(s), "bootStatus")
          /\ UNCHANGED <<loading, needsSetup, excused>>
    /\ Keeps

\* refreshStatus: a failure leaves needsSetup unknown.
StatusKnown(s) ==
    /\ Reads(s, "status") \/ Reads(s, "bootStatus")
    /\ needsSetup' = CASE net[s].code = "ok" -> "no"
                       [] net[s].code = "setup" -> "yes"
                       [] OTHER -> "unknown"
    /\ loading' = (loading /\ net[s].kind # "bootStatus")
    /\ net' = Drop(s)
    /\ UNCHANGED <<stored, user, excused>>
    /\ Keeps

\* Mutant: the tab takes a token only if it has none.
KeepsToken(grant) == stored' = IF stored = NoToken THEN grant ELSE stored

\* setToken.
SetToken(grant) == stored' = grant

\* login, signup and acceptInvite, the last two steps of which are the same.
SignedIn(s) ==
    /\ Reads(s, "login") \/ Reads(s, "signup")
    /\ net[s].code \in {"ok", "failed"}
    /\ IF net[s].code = "ok"
       THEN SetToken(net[s].grant) /\ user' = net[s].grant.org /\ needsSetup' = "no"
       ELSE UNCHANGED <<stored, user, needsSetup>>
    /\ net' = Drop(s)
    /\ UNCHANGED <<loading, excused>>
    /\ Keeps

\* switchOrganization, after the answer; the caller's catch does nothing.  After the
\* creation of an organization the caller goes on to load the page that was there.
Switched(s) ==
    /\ Reads(s, "switch")
    /\ net[s].code \in {"ok", "failed"}
    /\ IF net[s].code = "ok"
       THEN /\ SetToken(net[s].grant)
            /\ user' = IF user = NoOrg THEN NoOrg ELSE net[s].grant.org
       ELSE UNCHANGED <<stored, user>>
    /\ net' = IF net[s].code = "ok" /\ net[s].from = "createOrg"
              THEN Put(Drop(s), [Request("load", stored') EXCEPT !.shown = user'])
              ELSE Drop(s)
    /\ UNCHANGED <<loading, needsSetup, excused>>
    /\ Keeps

\* logout signs out whatever the answer; changePassword only if it is taken.
LoggedOut(s) ==
    /\ Reads(s, "logout")
    /\ net[s].code # "unauthorized"
    /\ SignsOut(s)
    /\ Keeps

PasswordChanged(s) ==
    /\ Reads(s, "password")
    /\ \/ net[s].code = "ok" /\ SignsOut(s)
       \/ net[s].code = "failed" /\ net' = Drop(s)
          /\ UNCHANGED <<stored, user, loading, needsSetup, excused>>
    /\ Keeps

ReadsSession(s) == \/ Bootstrapped(s) \/ StatusKnown(s) \/ SignedIn(s) \/ Switched(s)
                   \/ LoggedOut(s) \/ PasswordChanged(s)

-----------------------------------------------------------------------------
(* The operator.                                                            *)
Own == spent.own < MaxOwn /\ Spends("own")
Asks(q) == /\ Own
           /\ Sends(q)
           /\ UNCHANGED <<sessions, setup, stored, user, loading, needsSetup, doc>>

\* The login page, and the two forms of the signup page.
SubmitLogin ==
    /\ View = "login" \/ (View = "signup" /\ needsSetup = "yes")
    /\ ~Busy({"login", "signup"})
    /\ Asks(Request(IF View = "login" THEN "login" ELSE "signup", stored))

\* OrgSwitcher.onSwitch; the switcher is shown on every page.
SwitchOrganization ==
    /\ View \in {"page", "denied"}
    /\ \E o \in Orgs \ (Unborn \cup {user}) :
         /\ ~\E s \in Slots : net[s].kind = "switch" /\ net[s].to = o
         /\ Asks([Request("switch", stored) EXCEPT !.to = o])

SignOut == /\ View \in {"page", "denied"}
           /\ Asks(Request("logout", stored))

ChangePassword == /\ View \in {"page", "denied"}
                  /\ ~Busy({"password"})
                  /\ Asks(Request("password", stored))

OperatorSession == SubmitLogin \/ SwitchOrganization \/ SignOut \/ ChangePassword

\* Another tab switches, signs out, or signs in again.
OtherTab ==
    /\ Mishap
    /\ Spends("foreign")
    /\ excused' = TRUE
    /\ \/ \E o \in Orgs \ Unborn :
            /\ Valid(stored) /\ o # stored.org
            /\ sessions' = [sessions EXCEPT ![stored.sid] = o]
            /\ stored' = [stored EXCEPT !.org = o]
       \/ /\ Valid(stored)
          /\ sessions' = [sessions EXCEPT ![stored.sid] = NoOrg]
          /\ stored' = NoToken
       \/ \E sid \in Unused, o \in Orgs \ Unborn :
            /\ setup /\ stored = NoToken
            /\ sessions' = [sessions EXCEPT ![sid] = o]
            /\ stored' = [sid |-> sid, org |-> o]
    /\ UNCHANGED <<setup, user, loading, needsSetup, net, doc>>
=============================================================================
