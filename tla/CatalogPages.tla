---------------------------- MODULE CatalogPages ----------------------------
(***************************************************************************)
(* The pages of the catalog: the models with the routing of each, the       *)
(* dialog that fills a model from the public catalog, and the providers.    *)
(*                                                                          *)
(* hidden is the part of a row that a form may not show.  "stored": the     *)
(* metadata of a model that is no map (null, a list, a bare value), or the  *)
(* headers and the key of a provider; "loose": metadata that is a map but   *)
(* not one of strings, of which the form shows every value as a string;     *)
(* "typed": what the form shows as it is.                                   *)
(***************************************************************************)
EXTENDS PanelPage

\* The form is read from a row.  What is loose is typed with the first save.
FormOf(u, i, d) == [u EXCEPT !.of = i, !.hidden = d.hidden]

Closed(u) == [u EXCEPT !.view = "list", !.open = NoItem]
Blank(u) == [u EXCEPT !.view = "edit", !.open = NoItem, !.of = NoItem, !.hidden = "typed"]
NewOrSave(u) == IF u.open = NoItem THEN "create" ELSE "save"

-----------------------------------------------------------------------------
(* ModelsPage.                                                              *)
\* Mutant: the load sets the list, and not the model being edited.
ListOnly(u, s) == u

\* setEditing(prev => the same model among the items), so that its routing is fresh.
EditingToo(u, s) ==
    IF Ok(s) /\ u.open # NoItem /\ net[s].val[u.open].here
    THEN [u EXCEPT !.edit = net[s].val[u.open]] ELSE u

\* The load of a refreshKey.
ModelsLoaded(s) == /\ At("models") /\ Answered(s, {"load"})
                   /\ Takes(s, EditingToo(Loaded(s, ui), s))

\* startAdd.
AddModel == /\ At("models") /\ ui.view = "list" /\ CanWrite
            /\ Shows(Blank(ui))

\* startEdit, of a row of the list.
EditModel ==
    /\ At("models") /\ ui.view = "list" /\ ~ui.loading
    /\ \E i \in Items :
         /\ ui.rows[i].here
         /\ Shows([FormOf(ui, i, ui.rows[i]) EXCEPT !.view = "edit", !.open = i,
                                                    !.edit = ui.rows[i]])

\* backToList; the link above the form is there while the form is saving.
BackToModels == /\ At("models") /\ ui.view = "edit"
                /\ Shows([Closed(ui) EXCEPT !.locked = {}])

\* touchMetadata.
TouchMetadata == /\ At("models") /\ ui.view = "edit" /\ CanWrite /\ ~ui.saving
                 /\ ui.hidden = "stored"
                 /\ Shows([ui EXCEPT !.hidden = "typed"])

\* Mutant: metadata is sent with every save.
MetadataAlways(u) == IF u.hidden = "stored" THEN "lost" ELSE "typed"

\* buildModelPayload: metadata that is no map and was not touched is left out.  Any other is
\* sent as the form has it, its values coerced to strings.
MetadataSent(u) == IF u.hidden = "stored" THEN "omit" ELSE "typed"

SubmitModel ==
    /\ At("models") /\ ui.view = "edit" /\ CanWrite /\ ~ui.saving
    /\ Asking([Write(NewOrSave(ui), ui.open) EXCEPT !.hidden = MetadataSent(ui)],
              [ui EXCEPT !.saving = TRUE])

\* What the answer of a save sets: the model being edited and the form.
Saved(u, s) == LET i == net[s].item IN
    [FormOf(u, i, net[s].val[i]) EXCEPT !.open = i, !.edit = net[s].val[i]]

ModelSaved(s) ==
    /\ At("models") /\ Answered(s, {"create", "save"})
    /\ LET u == [ui EXCEPT !.saving = FALSE] IN
       Takes(s, IF ~Ok(s) THEN u
                ELSE IF net[s].kind = "create"
                THEN [Saved(u, s) EXCEPT !.rows = Added(@, s), !.view = "edit"]
                ELSE [Saved(u, s) EXCEPT !.rows = Replaced(@, s)])

\* deleteModel, after the confirmation.
DeleteModel ==
    /\ At("models") /\ CanWrite
    /\ \E i \in Items :
         /\ \/ ui.view = "list" /\ ~ui.loading /\ ui.rows[i].here
            \/ ui.view = "edit" /\ ui.open = i /\ ~ui.saving
         /\ Asking([Write("remove", i) EXCEPT !.from = ui.open], ui)

ModelDeleted(s) ==
    /\ At("models") /\ Answered(s, {"remove"})
    /\ LET u == [ui EXCEPT !.rows = Without(@, net[s].item)] IN
       Takes(s, IF ~Ok(s) THEN ui ELSE IF net[s].from = net[s].item THEN Closed(u) ELSE u)

-----------------------------------------------------------------------------
(* The routing of the model being edited.                                   *)
Routing == /\ At("models") /\ ui.view = "edit" /\ ui.open # NoItem /\ CanWrite

\* onDrop and onDropTop: what they wait for locks the rows of the routing.
ReorderEntries ==
    /\ Routing
    /\ Asking(Write("patch", ui.open), [ui EXCEPT !.locked = @ \cup {NextSlot(net)}])

\* onActiveToggle and onRemoveEntry.
ChangeEntry == /\ Routing /\ ui.locked = {}
               /\ Asking(Write("patch", ui.open), ui)

\* AddEntryForm is below the rows.
AddEntry == Routing /\ Asking(Write("patch", ui.open), ui)

\* EditEntryForm stays open under the lock.
EditEntry == Routing /\ Asking(Write("patch", ui.open), ui)

\* reload: another refreshKey.
EntryChanged(s) ==
    /\ At("models") /\ Answered(s, {"patch"})
    /\ LET u == [ui EXCEPT !.locked = IF s \in @ THEN {} ELSE @] IN
       IF Ok(s) THEN TakesAndLoads(s, Cancelled(u)) ELSE Takes(s, u)

ModelsPage ==
    \/ AddModel \/ EditModel \/ BackToModels \/ TouchMetadata \/ SubmitModel \/ DeleteModel
    \/ ReorderEntries \/ ChangeEntry \/ AddEntry \/ EditEntry
ModelsAnswers(s) == ModelsLoaded(s) \/ ModelSaved(s) \/ ModelDeleted(s) \/ EntryChanged(s)

-----------------------------------------------------------------------------
(* FetchModelDialog.  Its list of sources is taken as loaded.               *)
\* The effect of the source: nothing of another one stays in sight.
AsksSource(source) ==
    LET u == Cancelled([ui EXCEPT !.view = "edit", !.sel = source, !.chosen = NoItem,
                                  !.for = {}, !.loading = TRUE])
    IN  Asking([Load EXCEPT !.sel = source], u)

OpenFetch == /\ At("catalog") /\ ui.view = "list" /\ CanWrite
             /\ IF ui.sel = NoItem THEN Shows([ui EXCEPT !.view = "edit"])
                                   ELSE AsksSource(ui.sel)

PickSource == /\ At("catalog") /\ ui.view = "edit" /\ ~ui.loading
              /\ \E source \in Sels \ {ui.sel} : AsksSource(source)

SourceLoaded(s) ==
    /\ At("catalog") /\ Answered(s, {"load"})
    /\ Takes(s, [ui EXCEPT !.loading = FALSE, !.for = IF Ok(s) THEN {net[s].sel} ELSE @])

PickModel == /\ At("catalog") /\ ui.view = "edit" /\ ~ui.loading
             /\ \E source \in ui.for : Shows([ui EXCEPT !.chosen = source])

\* Cancel and handleApply close the dialog as it is, Escape by way of resetOnClose.
CloseFetch == /\ At("catalog") /\ ui.view = "edit"
              /\ Shows(Cancelled([ui EXCEPT !.view = "list"]))

ResetFetch == /\ At("catalog") /\ ui.view = "edit"
              /\ Shows(Cancelled([ui EXCEPT !.view = "list", !.sel = NoItem, !.for = {},
                                            !.chosen = NoItem]))

FetchDialog == OpenFetch \/ PickSource \/ PickModel \/ CloseFetch \/ ResetFetch

-----------------------------------------------------------------------------
(* ProvidersPage.  While the form is open the page behind it is inert.      *)
\* loadProviders is not cancelled.
ProvidersLoaded(s) == /\ At("providers") /\ Answered(s, {"load"})
                      /\ Takes(s, Loaded(s, ui))

RefreshProviders == /\ At("providers") /\ ui.view = "list" /\ ~ui.loading
                    /\ Asking(Load, [ui EXCEPT !.loading = TRUE])

AddProvider == /\ At("providers") /\ ui.view = "list" /\ CanWrite
               /\ Shows(Blank(ui))

\* fromProvider leaves headers and key blank.
EditProvider ==
    /\ At("providers") /\ ui.view = "list" /\ CanWrite
    /\ \E i \in Items : /\ ui.rows[i].here
                        /\ Shows([ui EXCEPT !.view = "edit", !.open = i, !.of = i,
                                            !.hidden = "stored"])

TypeSecret == /\ At("providers") /\ ui.view = "edit" /\ ~ui.saving /\ ui.hidden = "stored"
              /\ Shows([ui EXCEPT !.hidden = "typed"])

\* closeModal.
ModalClosed(u) == [Closed(u) EXCEPT !.of = NoItem, !.hidden = "typed"]
CloseProvider == /\ At("providers") /\ ui.view = "edit" /\ ~ui.saving
                 /\ Shows(ModalClosed(ui))

\* onSubmit: blank headers and a blank key are left out, so that none is wiped.
SubmitProvider ==
    /\ At("providers") /\ ui.view = "edit" /\ CanWrite /\ ~ui.saving
    /\ Asking([Write(NewOrSave(ui), ui.open) EXCEPT
                  !.hidden = IF ui.hidden = "stored" THEN "omit" ELSE "typed"],
              [ui EXCEPT !.saving = TRUE])

ProviderSaved(s) ==
    /\ At("providers") /\ Answered(s, {"create", "save"})
    /\ LET u == [ui EXCEPT !.saving = FALSE] IN
       Takes(s, IF ~Ok(s) THEN u
                ELSE ModalClosed([u EXCEPT !.rows = IF net[s].kind = "create"
                                                    THEN Added(@, s) ELSE Replaced(@, s)]))

\* onToggleActive and onDelete.
ToggleProvider ==
    /\ At("providers") /\ ui.view = "list" /\ CanWrite
    /\ \E i \in Items : ui.rows[i].here /\ Asking(Write("patch", i), ui)

ProviderToggled(s) ==
    /\ At("providers") /\ Answered(s, {"patch"})
    /\ Takes(s, IF Ok(s) THEN [ui EXCEPT !.rows = Replaced(@, s)] ELSE ui)

DeleteProvider ==
    /\ At("providers") /\ ui.view = "list" /\ CanWrite
    /\ \E i \in Items : ui.rows[i].here /\ Asking(Write("remove", i), ui)

ProviderDeleted(s) ==
    /\ At("providers") /\ Answered(s, {"remove"})
    /\ Takes(s, IF Ok(s) THEN [ui EXCEPT !.rows = Without(@, net[s].item)] ELSE ui)

ProvidersPage == \/ RefreshProviders \/ AddProvider \/ EditProvider \/ TypeSecret
                 \/ CloseProvider \/ SubmitProvider \/ ToggleProvider \/ DeleteProvider
ProvidersAnswers(s) == \/ ProvidersLoaded(s) \/ ProviderSaved(s) \/ ProviderToggled(s)
                       \/ ProviderDeleted(s)
=============================================================================
