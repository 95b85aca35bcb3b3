--------------------------- MODULE OperatorPages ---------------------------
(***************************************************************************)
(* The pages about the operators themselves: management keys, invites,      *)
(* organizations, and the figures of a range of days.                       *)
(***************************************************************************)
EXTENDS PeoplePages

-----------------------------------------------------------------------------
(* ManagementKeysPage.  hidden is the scopes of a key that this operator    *)
(* cannot grant.                                                            *)
\* The effect of the active organization.
MgmtKeysLoaded(s) == /\ At("mgmt") /\ Answered(s, {"load"})
                     /\ Takes(s, Loaded(s, ui))

AddMgmtKey == /\ At("mgmt") /\ ui.view = "list" /\ CanWrite
              /\ Shows(Blank(ui))

\* openEdit, which the rows offer while nothing is saved.
EditMgmtKey ==
    /\ At("mgmt") /\ CanWrite /\ ~ui.saving
    /\ \E i \in Items : /\ ui.rows[i].here
                        /\ Shows([FormOf(ui, i, ui.rows[i]) EXCEPT !.view = "edit", !.open = i])

\* resetForm; Cancel is there while the form is saving.
FormReset(u) == [Closed(u) EXCEPT !.of = NoItem, !.hidden = "typed"]
CancelMgmtKey == At("mgmt") /\ ui.view = "edit" /\ Shows(FormReset(ui))

\* onSubmit: locked scopes are put back from the row.
SubmitMgmtKey ==
    /\ At("mgmt") /\ ui.view = "edit" /\ ~ui.saving
    /\ Asking([Write(NewOrSave(ui), ui.open) EXCEPT
                  !.hidden = IF ui.open = NoItem THEN "typed" ELSE ui.rows[ui.open].hidden],
              [ui EXCEPT !.saving = TRUE])

MgmtKeySaved(s) ==
    /\ At("mgmt") /\ Answered(s, {"create", "save"})
    /\ LET u == [ui EXCEPT !.saving = FALSE] IN
       Takes(s, IF ~Ok(s) THEN u
                ELSE FormReset([u EXCEPT !.rows = IF net[s].kind = "create"
                                                  THEN Added(@, s) ELSE Replaced(@, s)]))

RevokeMgmtKey ==
    /\ At("mgmt") /\ CanWrite
    /\ \E i \in Items :
         /\ ui.rows[i].here
         /\ ~\E s \in ui.waits : net[s].kind = "patch" /\ net[s].item = i
         /\ Asking(Write("patch", i), ui)

MgmtKeyRevoked(s) ==
    /\ At("mgmt") /\ Answered(s, {"patch"})
    /\ Takes(s, IF Ok(s) THEN [ui EXCEPT !.rows = Replaced(@, s)] ELSE ui)

ManagementKeysPage == \/ AddMgmtKey \/ EditMgmtKey \/ CancelMgmtKey \/ SubmitMgmtKey
                      \/ RevokeMgmtKey
ManagementKeysAnswers(s) == MgmtKeysLoaded(s) \/ MgmtKeySaved(s) \/ MgmtKeyRevoked(s)

-----------------------------------------------------------------------------
(* SettingsPage: the invites.                                               *)
InvitesLoaded(s) == /\ At("settings") /\ Answered(s, {"load"})
                    /\ Takes(s, Loaded(s, ui))

Invite == /\ At("settings") /\ CanWrite /\ ~ui.saving
          /\ Asking(Write("create", NoItem), [ui EXCEPT !.saving = TRUE])

\* onInvite, which shows the token of the invite once.
Invited(s) ==
    /\ At("settings") /\ Answered(s, {"create"})
    /\ LET u == [ui EXCEPT !.saving = FALSE] IN
       Takes(s, IF Ok(s) THEN [u EXCEPT !.rows = Added(@, s)] ELSE u)

RevokeInvite ==
    /\ At("settings") /\ CanWrite
    /\ \E i \in Items :
         /\ ui.rows[i].here
         /\ ~\E s \in ui.waits : net[s].kind = "remove" /\ net[s].item = i
         /\ Asking(Write("remove", i), ui)

InviteRevoked(s) ==
    /\ At("settings") /\ Answered(s, {"remove"})
    /\ Takes(s, IF Ok(s) THEN [ui EXCEPT !.rows = Without(@, net[s].item)] ELSE ui)

SettingsPage == Invite \/ RevokeInvite
SettingsAnswers(s) == InvitesLoaded(s) \/ Invited(s) \/ InviteRevoked(s)

-----------------------------------------------------------------------------
(* OrganizationsPage, as far as the session goes.                           *)
OrganizationsLoaded(s) == /\ At("organizations") /\ Answered(s, {"load"})
                          /\ Takes(s, Loaded(s, ui))

\* onCreate up to its first await; the organization is a new one.
CreateOrganization ==
    /\ At("organizations") /\ ~ui.saving
    /\ \E o \in Unborn : Asking([Request("createOrg", stored) EXCEPT !.to = o],
                                [ui EXCEPT !.saving = TRUE])

\* setToken, then switchOrganization: no other request leaves in between.
OrganizationCreated(s) ==
    /\ At("organizations") /\ Answered(s, {"createOrg"})
    /\ LET switch == [Request("switch", stored') EXCEPT !.to = net[s].to, !.from = "createOrg"]
           done == [ui EXCEPT !.waits = @ \ {s}, !.tags = @ \cup {net[s].shown}]
       IN
       /\ IF Ok(s)
          THEN /\ SetToken(net[s].grant)
               /\ net' = Put(Drop(s), switch)
               /\ ui' = Waiting(done, Drop(s), switch)
               /\ excused' = (excused \/ Races(net'))
          ELSE /\ net' = Drop(s)
               /\ ui' = [done EXCEPT !.saving = FALSE]
               /\ UNCHANGED <<stored, excused>>
    /\ UNCHANGED <<sessions, setup, user, loading, needsSetup, doc, spent, site>>

-----------------------------------------------------------------------------
(* AnalyticsPage.                                                           *)
\* The load of a range is not cancelled by the next one.
PickRange ==
    /\ At("analytics")
    /\ \E x \in Sels \ {ui.sel} :
         Asking([Load EXCEPT !.sel = x], [ui EXCEPT !.sel = x, !.loading = TRUE])

SummaryLoaded(s) ==
    /\ At("analytics") /\ Answered(s, {"load"})
    /\ Takes(s, IF Ok(s) THEN Loaded(s, ui)
                ELSE [ui EXCEPT !.rows = Empty, !.for = {}, !.loading = FALSE])
=============================================================================
