----------------------------- MODULE PanelPage -----------------------------
(***************************************************************************)
(* What the pages of the admin panel have in common: the state a page keeps *)
(* while it is mounted, how its handlers send requests and how it takes the *)
(* answers, and the part of the server that keeps the rows.                 *)
(*                                                                          *)
(* A page is a component under the keyed Outlet: when the key changes all   *)
(* its state starts again, and an answer still on the way finds nobody.  A  *)
(* handler closes over the state of the render it belongs to; what it needs *)
(* of it after an await travels with the request.                           *)
(***************************************************************************)
EXTENDS PanelSession

CONSTANTS Sites,        \* the pages
          Loose,        \* models whose metadata is a map, but not one of strings
          FirstSel      \* the filter a page starts with

ASSUME PageAssumption == FirstSel \in Sels /\ NoItem \notin Sels /\ Loose \subseteq Present

VARIABLES site,         \* the page the tab is on
          ui            \* what it keeps

vars == <<session, net, doc, site, ui>>

\* The pages that learn their filter from a first answer, or start with none.
StartSel == IF site \in {"keys", "catalog"} THEN NoItem ELSE FirstSel

FreshUi ==
    [mounted |-> FALSE, loading |-> FALSE, saving |-> FALSE,
     locked |-> {},           \* requests that lock a part of the page
     rows |-> Empty,          \* the rows shown
     for |-> {},              \* the filters they were asked for
     sel |-> StartSel,        \* the filter chosen
     made |-> {},             \* the filters of rows put among them since (ApiKeysPage)
     later |-> FALSE,         \* the list stands at a later page (ApiKeysPage)
     chosen |-> NoItem,       \* the entry picked of what was asked for
     view |-> "list",         \* "list", or "edit": a form is open; more on CustomersPage
     by |-> {},               \* the request the open form waits for (CustomersPage)
     open |-> NoItem,         \* the row being edited, none when it is new
     of |-> NoItem,           \* the row the fields of the form were read from
     hidden |-> "typed",      \* the part of it the form cannot show
     edit |-> Empty[CHOOSE i \in Items : TRUE],  \* the copy of the row being edited
     tags |-> {},             \* the organizations it was shown under
     waits |-> {},            \* requests whose answer it will take
     crossed |-> FALSE]       \* requests of the page were under way together

At(page) == site = page /\ OutletKey # NoOrg /\ ui.mounted
Keeping(u) == /\ ui' = u
              /\ UNCHANGED <<sessions, setup, stored, user, loading, needsSetup, doc, site>>

-----------------------------------------------------------------------------
(* Handlers.                                                                *)
PageBusy(n) == {s \in Slots : n[s].kind \in PageKinds}
Crosses(u, n, q) == \E s \in PageBusy(n) : s \in u.waits \/ n[s].kind \in Writes

Waiting(u, n, q) == [u EXCEPT !.waits = @ \cup {NextSlot(n)},
                              !.crossed = @ \/ Crosses(u, n, q)]

\* A handler that changes what is shown; what is typed belongs to the organization shown.
Shows(u) ==
    /\ Own
    /\ Keeping([u EXCEPT !.tags = @ \cup {user}])
    /\ UNCHANGED <<net, excused>>

\* A handler up to the request it sends.
Asking(q, u) ==
    /\ Own
    /\ Sends(q)
    /\ Keeping(Waiting([u EXCEPT !.tags = @ \cup {user}], net, q))

Load == [Request("load", stored) EXCEPT !.sel = ui.sel]
Write(kind, item) == [Request(kind, stored) EXCEPT !.item = item]

Loads == {s \in ui.waits : net[s].kind = "load"}

\* The cleanup of an effect that runs again: its last request is cancelled.
Cancelled(u) == [u EXCEPT !.waits = @ \ Loads]

\* The first effects of a page, which ask for its rows if it has any.
Mounts(loads) ==
    /\ OutletKey # NoOrg /\ ~ui.mounted
    /\ \/ /\ loads
          /\ Sends(Load)
          /\ Keeping(Waiting([ui EXCEPT !.mounted = TRUE, !.loading = TRUE], net, Load))
       \/ /\ ~loads
          /\ Keeping([ui EXCEPT !.mounted = TRUE])
          /\ UNCHANGED <<net, excused>>
    /\ UNCHANGED spent

\* Answers.  One of a page that is gone, or of an effect that ran again, is dropped.
Orphaned(s) ==
    /\ net[s].kind \in PageKinds /\ net[s].code \in {"ok", "failed"}
    /\ s \notin ui.waits
    /\ net' = Drop(s)
    /\ Keeping(ui)
    /\ UNCHANGED <<spent, excused>>

Answered(s, kinds) == /\ s \in ui.waits
                      /\ net[s].kind \in kinds
                      /\ net[s].code \in {"ok", "failed"}
Ok(s) == net[s].code = "ok"

Takes(s, u) ==
    /\ net' = Drop(s)
    /\ Keeping([u EXCEPT !.waits = @ \ {s}, !.tags = @ \cup {net[s].shown}])
    /\ UNCHANGED <<spent, excused>>

\* The answer makes the page load its rows again, in the same task.
TakesAndLoads(s, u) ==
    LET q == [Load EXCEPT !.sel = u.sel, !.from = net[s].kind] IN
    /\ net' = Put(Drop(s), q)
    /\ Keeping(Waiting([u EXCEPT !.waits = @ \ {s}, !.tags = @ \cup {net[s].shown},
                                 !.loading = TRUE], Drop(s), q))
    /\ excused' = (excused \/ Races(net'))
    /\ UNCHANGED spent

\* The rows of an answer, and a failed load that leaves them.
Loaded(s, u) == IF Ok(s) THEN [u EXCEPT !.rows = net[s].val, !.for = {net[s].sel},
                                        !.loading = FALSE]
                         ELSE [u EXCEPT !.loading = FALSE]

\* setRows(prev => prev.map(...)), [created, ...prev] and prev.filter(...).
Replaced(rows, s) ==
    [i \in Items |-> IF rows[i].here /\ i = net[s].item THEN net[s].val[i] ELSE rows[i]]
Added(rows, s) == [rows EXCEPT ![net[s].item] = net[s].val[net[s].item]]
Without(rows, i) == [rows EXCEPT ![i].here = FALSE]

-----------------------------------------------------------------------------
(* The rows of the server (the API, as the pages use it).                   *)
May(q, right) == IF right = "read" THEN Rights[q.token.org] # "none"
                                   ELSE Rights[q.token.org] = "write"

\* hidden: a field that is left out of the request keeps what is stored.
Written(d, q) == [here |-> TRUE, rev |-> d.rev + 1,
                  hidden |-> IF q.hidden = "omit" THEN d.hidden ELSE q.hidden]

\* The id of a removed row is not used again.
Removed(d) == [d EXCEPT !.here = FALSE, !.rev = @ + 1]

ServeRead(s) ==
    /\ net[s].kind \in {"load", "stream"}
    /\ net' = [net EXCEPT ![s].code = IF May(net[s], "read") THEN "ok" ELSE "failed",
                          ![s].val = IF net[s].token.org = Home /\ May(net[s], "read")
                                     THEN doc ELSE Empty]
    /\ UNCHANGED doc

\* A row is found only in its own organization.
ServeWrite(s) ==
    LET q == net[s]
        done == /\ q.token.org = Home /\ May(q, "write")
                /\ doc[q.item].here
    IN
    /\ q.kind \in Writes \ {"create"}
    /\ doc' = IF ~done THEN doc
              ELSE [doc EXCEPT ![q.item] = IF q.kind = "remove" THEN Removed(@)
                                                                ELSE Written(@, q)]
    /\ net' = [net EXCEPT ![s].code = IF done THEN "ok" ELSE "failed",
                          ![s].val = IF done THEN doc' ELSE Empty]

ServeCreate(s) ==
    LET q == net[s] IN
    /\ q.kind = "create"
    /\ \/ \E i \in Items :
            /\ May(q, "write")
            /\ ~doc[i].here /\ doc[i].rev = 0
            /\ doc' = IF q.token.org = Home THEN [doc EXCEPT ![i] = Written(@, q)] ELSE doc
            /\ net' = [net EXCEPT ![s].code = "ok", ![s].item = i,
                                  ![s].val = [Empty EXCEPT ![i] = Written(@, q)]]
       \/ /\ ~May(q, "write") \/ \A i \in Items : doc[i].here \/ doc[i].rev > 0
          /\ net' = [net EXCEPT ![s].code = "failed"]
          /\ UNCHANGED doc

ServePage(s) ==
    /\ net[s].code = "sent"
    /\ Valid(net[s].token)
    /\ ServeRead(s) \/ ServeWrite(s) \/ ServeCreate(s)
    /\ UNCHANGED <<session, site, ui>>
=============================================================================
