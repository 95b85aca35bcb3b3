---------------------------- MODULE PeoplePages ----------------------------
(***************************************************************************)
(* The pages about those who use the gateway: customers, their API keys,    *)
(* and the plans they subscribe to.                                         *)
(***************************************************************************)
EXTENDS CatalogPages

-----------------------------------------------------------------------------
(* CustomersPage.  view is "drawer" when the drawer is open, "edit" and     *)
(* "balance" when one of its forms is too, and "create" with the form of a  *)
(* new customer.  open is `selected`, locked what the drawer waits for: a   *)
(* request in it belongs to the drawer on the screen.                       *)
InDrawer(u) == u.view \in {"drawer", "edit", "balance"}
DrawerClosed(u) == [u EXCEPT !.view = "list", !.open = NoItem, !.locked = {}, !.by = {}]

\* The list effect: its answer replaces the rows, its failure empties them.
CustomersLoaded(s) ==
    /\ At("customers") /\ Answered(s, {"load"})
    /\ Takes(s, IF Ok(s) THEN Loaded(s, ui)
                ELSE [ui EXCEPT !.rows = Empty, !.for = {net[s].sel}, !.loading = FALSE])

\* Another status, search or page runs the effect again.
FilterCustomers ==
    /\ At("customers") /\ ui.view = "list"
    /\ \E x \in Sels \ {ui.sel} :
         Asking([Load EXCEPT !.sel = x], Cancelled([ui EXCEPT !.sel = x, !.loading = TRUE]))

\* openDetail and closeDrawer; Escape closes the drawer and the form above it.
OpenDetail ==
    /\ At("customers") /\ ui.view = "list"
    /\ \E i \in Items : /\ ui.rows[i].here
                        /\ Shows([ui EXCEPT !.view = "drawer", !.open = i])

CloseDrawer == /\ At("customers") /\ InDrawer(ui)
               /\ Shows(DrawerClosed(ui))

\* The forms read the customer once, when they open.
OpenForm ==
    /\ At("customers") /\ ui.view = "drawer" /\ CanWrite
    /\ \E v \in {"edit", "balance"} :
         Shows([ui EXCEPT !.view = v, !.of = ui.open, !.by = {}])

OpenCreate == /\ At("customers") /\ ui.view = "list" /\ CanWrite
              /\ Shows([ui EXCEPT !.view = "create", !.of = NoItem, !.by = {}])

\* Cancel, the cross, and a click outside, which closes a form that waits.
CloseForm ==
    /\ At("customers") /\ ui.view \in {"edit", "balance", "create"}
    /\ Shows([ui EXCEPT !.view = IF @ = "create" THEN "list" ELSE "drawer", !.by = {}])

\* onSubmit of CustomerFormModal and of BalanceForm: to the customer shown now.
SubmitCustomer ==
    /\ At("customers") /\ ui.view \in {"edit", "balance"} /\ ui.by = {}
    /\ Asking(Write(IF ui.view = "edit" THEN "save" ELSE "patch", ui.open),
              [ui EXCEPT !.by = {NextSlot(net)}, !.locked = @ \cup {NextSlot(net)}])

SubmitNewCustomer ==
    /\ At("customers") /\ ui.view = "create" /\ ui.by = {}
    /\ Asking(Write("create", NoItem), [ui EXCEPT !.by = {NextSlot(net)}])

\* onUpdated: what the drawer shows, and its row.
Updated(u, s) == [u EXCEPT !.open = net[s].item, !.rows = Replaced(@, s)]

CustomerSaved(s) ==
    LET form == IF net[s].kind = "save" THEN "edit" ELSE "balance"
        u == [ui EXCEPT !.by = @ \ {s}, !.locked = @ \ {s}]
    IN
    /\ At("customers") /\ Answered(s, {"save", "patch"})
    /\ Takes(s, IF ~Ok(s) THEN u
                ELSE IF s \in ui.locked /\ ui.view = form
                THEN [Updated(u, s) EXCEPT !.view = "drawer", !.by = {}]
                ELSE Updated(u, s))

\* A new customer is opened, and the list loaded again.
CustomerCreated(s) ==
    /\ At("customers") /\ Answered(s, {"create"})
    /\ LET u == [ui EXCEPT !.by = @ \ {s}] IN
       IF ~Ok(s) THEN Takes(s, u)
       ELSE TakesAndLoads(s, Cancelled([u EXCEPT !.open = net[s].item,
                !.view = IF @ \in {"edit", "balance"} THEN @ ELSE "drawer"]))

\* handleDelete, after the confirmation: the account is closed, and its row leaves the
\* list until the next load.
CloseAccount ==
    /\ At("customers") /\ ui.view = "drawer" /\ CanWrite
    /\ ~\E s \in ui.locked : net[s].kind = "close"
    /\ Asking(Write("close", ui.open), [ui EXCEPT !.locked = @ \cup {NextSlot(net)}])

AccountClosed(s) ==
    /\ At("customers") /\ Answered(s, {"close"})
    /\ Takes(s, IF Ok(s) THEN [DrawerClosed(ui) EXCEPT !.rows = Without(@, net[s].item)]
                ELSE [ui EXCEPT !.locked = @ \ {s}])

CustomersPage == \/ FilterCustomers \/ OpenDetail \/ CloseDrawer \/ OpenForm \/ OpenCreate
                 \/ CloseForm \/ SubmitCustomer \/ SubmitNewCustomer \/ CloseAccount
CustomersAnswers(s) == \/ CustomersLoaded(s) \/ CustomerSaved(s) \/ CustomerCreated(s)
                       \/ AccountClosed(s)

-----------------------------------------------------------------------------
(* ApiKeysPage, of an operator who may list customers.  The filter is the   *)
(* customer; the first one is chosen when the customers are known.          *)
KeyCustomersLoaded(s) ==
    /\ At("keys") /\ Answered(s, {"load"}) /\ net[s].sel = NoItem
    /\ IF Ok(s) THEN TakesAndLoads(s, [ui EXCEPT !.sel = FirstSel])
                ELSE Takes(s, [ui EXCEPT !.loading = FALSE])

\* The cleanup of the effect of the keys.
KeysCancelled(u) == Cancelled(u)

\* Another customer, at the first page.  (At a later one the effect runs twice; of its two
\* requests the one that is cancelled at once is left out.)
PickCustomer ==
    /\ At("keys") /\ ui.sel # NoItem
    /\ \E x \in Sels \ {ui.sel} :
         Asking([Load EXCEPT !.sel = x],
                KeysCancelled([ui EXCEPT !.sel = x, !.loading = TRUE, !.later = FALSE]))

\* Next and Previous.
TurnKeys ==
    /\ At("keys") /\ ui.sel # NoItem /\ ~ui.loading
    /\ Asking(Load, KeysCancelled([ui EXCEPT !.loading = TRUE, !.later = ~@]))

KeysLoaded(s) ==
    /\ At("keys") /\ Answered(s, {"load"}) /\ net[s].sel # NoItem
    /\ Takes(s, IF Ok(s) THEN [Loaded(s, ui) EXCEPT !.made = {}]
                ELSE [ui EXCEPT !.rows = Empty, !.for = {net[s].sel}, !.made = {},
                                !.loading = FALSE])

\* The form is part of the page, and stays when another customer is chosen.
ToggleKeyForm ==
    /\ At("keys") /\ CanWrite /\ ui.sel # NoItem
    /\ Shows([ui EXCEPT !.view = IF @ = "list" THEN "edit" ELSE "list"])

CreateKey ==
    /\ At("keys") /\ ui.view = "edit" /\ CanWrite /\ ~ui.saving /\ ui.sel # NoItem
    /\ Asking([Write("create", NoItem) EXCEPT !.sel = ui.sel], [ui EXCEPT !.saving = TRUE])

\* The new key, and its secret, go to the rows whatever customer they are of now; the list
\* goes to its first page, which loads it again unless it was there.
KeyCreated(s) ==
    /\ At("keys") /\ Answered(s, {"create"})
    /\ LET u == [ui EXCEPT !.saving = FALSE]
           w == [u EXCEPT !.view = "list", !.rows = Added(@, s), !.later = FALSE,
                          !.made = @ \cup {net[s].sel}]
       IN  IF ~Ok(s) THEN Takes(s, u)
           ELSE IF ui.later THEN TakesAndLoads(s, KeysCancelled(w)) ELSE Takes(s, w)

RevokeKey ==
    /\ At("keys") /\ CanWrite
    /\ \E i \in Items :
         /\ ui.rows[i].here
         /\ ~\E s \in ui.waits : net[s].kind = "patch" /\ net[s].item = i
         /\ Asking(Write("patch", i), ui)

KeyRevoked(s) ==
    /\ At("keys") /\ Answered(s, {"patch"})
    /\ Takes(s, IF Ok(s) THEN [ui EXCEPT !.rows = Replaced(@, s)] ELSE ui)

ApiKeysPage == PickCustomer \/ TurnKeys \/ ToggleKeyForm \/ CreateKey \/ RevokeKey
ApiKeysAnswers(s) == KeyCustomersLoaded(s) \/ KeysLoaded(s) \/ KeyCreated(s) \/ KeyRevoked(s)

-----------------------------------------------------------------------------
(* PlansPage.  The form stands above the list, whose buttons keep working.  *)
\* loadPlans; the load after a save ends the saving.
PlansLoaded(s) ==
    /\ At("plans") /\ Answered(s, {"load"})
    /\ Takes(s, [Loaded(s, ui) EXCEPT !.saving = @ /\ net[s].from \notin {"create", "save"}])

AddPlan == /\ At("plans") /\ ui.view = "list" /\ CanWrite
           /\ Shows(Blank(ui))

EditPlan ==
    /\ At("plans") /\ CanWrite
    /\ \E i \in Items : /\ ui.rows[i].here
                        /\ Shows([FormOf(ui, i, ui.rows[i]) EXCEPT !.view = "edit", !.open = i])

CancelPlan == /\ At("plans") /\ ui.view = "edit" /\ ~ui.saving
              /\ Shows([Closed(ui) EXCEPT !.of = NoItem])

SubmitPlan ==
    /\ At("plans") /\ ui.view = "edit" /\ CanWrite /\ ~ui.saving
    /\ Asking(Write(NewOrSave(ui), ui.open), [ui EXCEPT !.saving = TRUE])

PlanSaved(s) ==
    /\ At("plans") /\ Answered(s, {"create", "save"})
    /\ IF Ok(s) THEN TakesAndLoads(s, [Closed(ui) EXCEPT !.of = NoItem])
                ELSE Takes(s, [ui EXCEPT !.saving = FALSE])

\* onDelete deactivates the plan, and loads the list again.
DeactivatePlan ==
    /\ At("plans") /\ CanWrite
    /\ \E i \in Items : ui.rows[i].here /\ Asking(Write("patch", i), ui)

PlanDeactivated(s) ==
    /\ At("plans") /\ Answered(s, {"patch"})
    /\ IF Ok(s) THEN TakesAndLoads(s, ui) ELSE Takes(s, ui)

PlansPage == AddPlan \/ EditPlan \/ CancelPlan \/ SubmitPlan \/ DeactivatePlan
PlansAnswers(s) == PlansLoaded(s) \/ PlanSaved(s) \/ PlanDeactivated(s)
=============================================================================
