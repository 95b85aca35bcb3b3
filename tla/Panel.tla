------------------------------- MODULE Panel -------------------------------
(***************************************************************************)
(* One tab of the admin panel: its session and the page it shows, with the  *)
(* requests of both in flight, a server, and other tabs.                    *)
(*                                                                          *)
(* The tab stays on one page (named bound).  On the page of organizations   *)
(* everything that moves the session happens, from the opening of the tab   *)
(* on; on the others the operator is signed in and may switch to another    *)
(* organization, which is what remounts a page (named bound).               *)
(***************************************************************************)
EXTENDS Playground

vars1 == <<vars, chat>>
Account == site = "organizations"

SignedInAlready ==
    /\ setup = TRUE
    /\ LET sid == CHOOSE sid \in Sids : TRUE IN
       /\ sessions = [x \in Sids |-> IF x = sid THEN Home ELSE NoOrg]
       /\ stored = [sid |-> sid, org |-> Home]
    /\ user = Home
    /\ loading = FALSE
    /\ needsSetup = "no"
    /\ net = [s \in Slots |-> Idle]
    /\ doc = [i \in Items |-> [here |-> i \in Present, rev |-> 0, hidden |->
                                IF site = "models" /\ i \in Loose THEN "loose" ELSE "stored"]]
    /\ spent = [failures |-> 0, foreign |-> 0, own |-> 0]
    /\ excused = FALSE

Init ==
    /\ site \in Sites
    /\ IF Account THEN InitSession ELSE SignedInAlready
    /\ ui = FreshUi
    /\ chat = FreshChat

\* A step of the session mounts the page again if the key of Outlet changes.  The catch
\* of the creation of an organization ends its wait.
Remounts ==
    LET gone == {s \in ui.waits : net'[s].kind = "idle"} IN
    /\ site' = site
    /\ IF OutletKey' # OutletKey
       THEN ui' = FreshUi /\ chat' = FreshChat
       ELSE /\ ui' = [ui EXCEPT !.waits = @ \ gone,
                                !.saving = @ /\ \A s \in gone : net[s].kind # "switch"]
            /\ UNCHANGED chat

\* The playground aborts its requests when it goes; their answers are not even read.
Aborted(s) == net[s].kind = "stream" /\ s \notin ui.waits
StreamDropped(s) == /\ Aborted(s) /\ net[s].code # "sent"
                    /\ net' = Drop(s)
                    /\ Keeping(ui)
                    /\ UNCHANGED <<spent, excused>>

Serve(s) == /\ \/ ServeSession(s) /\ UNCHANGED <<site, ui>>
               \/ ServePage(s)
            /\ UNCHANGED chat

ReadsSessionAnswer(s) == /\ ReadsSession(s) \/ (Invalidated(s) /\ ~Aborted(s))
                         /\ Remounts

TakesAnswer(s) ==
    \/ /\ \/ Orphaned(s) \/ StreamDropped(s)
          \/ ModelsAnswers(s) \/ SourceLoaded(s) \/ ProvidersAnswers(s)
          \/ CustomersAnswers(s) \/ ApiKeysAnswers(s) \/ PlansAnswers(s)
          \/ ManagementKeysAnswers(s) \/ SettingsAnswers(s)
          \/ OrganizationsLoaded(s) \/ OrganizationCreated(s) \/ SummaryLoaded(s)
       /\ UNCHANGED chat
    \/ PlaygroundAnswers(s)

Receive(s) == ReadsSessionAnswer(s) \/ TakesAnswer(s)

MountPage == Mounts(site # "catalog") /\ UNCHANGED chat

Operator ==
    \/ /\ \/ ModelsPage \/ FetchDialog \/ ProvidersPage
          \/ CustomersPage \/ ApiKeysPage \/ PlansPage
          \/ ManagementKeysPage \/ SettingsPage \/ CreateOrganization \/ PickRange
       /\ UNCHANGED chat
    \/ PlaygroundPage
    \/ (IF Account THEN OperatorSession ELSE SwitchOrganization) /\ Remounts

Elsewhere == /\ \/ Account /\ OtherTab
                \/ \E s \in Slots : Fails(s)
             /\ Remounts

Next ==
    \/ \E s \in Slots : Serve(s) \/ Receive(s)
    \/ MountPage \/ Operator \/ Elsewhere

\* Every request is answered in time, and the browser runs its tasks.
Spec ==
    /\ Init /\ [][Next]_vars1
    /\ \A s \in Slots : WF_vars1(Serve(s)) /\ WF_vars1(Receive(s))
    /\ WF_vars1(MountPage)

-----------------------------------------------------------------------------
(* Properties.                                                              *)
\* Every field of the tab's state is of its kind, and no answer waits for a page that
\* did not ask.
TypeOK ==
    /\ sessions \in [Sids -> Orgs \cup {NoOrg}] /\ setup \in BOOLEAN
    /\ user \in Orgs \cup {NoOrg} /\ loading \in BOOLEAN
    /\ needsSetup \in {"unknown", "yes", "no"} /\ excused \in BOOLEAN
    /\ doc \in [Items -> Doc] /\ ui.rows \in [Items -> Doc]
    /\ stored = NoToken \/ (stored.sid \in Sids /\ stored.org \in Orgs)
    /\ \A s \in Slots : net[s].kind \in {"idle"} \cup AuthKinds \cup PageKinds
    /\ \A s \in ui.waits : net[s].kind \in PageKinds \cup {"switch"}

\* What is on the page, rows, forms and secrets alike, was asked for or typed under the
\* organization the operator is in: nothing is left of another one after a switch (Layout:
\* "Remount page tree on org switch so lists + one-time secrets cannot leak across
\* organizations via stale local state.").
NothingOutlivesItsOrg == View = "page" => ui.tags \subseteq {user}

\* Whoever is signed in stays so unless they are signing out, a request fails, another tab acts,
\* or the tab had a request of its own under way when its session moved or began: switching
\* and creating organizations leave a token the server takes (setToken before the next call).
SessionKept ==
    [][ (user # NoOrg /\ user' = NoOrg) => excused \/ Busy({"logout", "password"}) ]_vars1

\* The full-page loader goes away, whatever the tab found in localStorage, unless an
\* answer is lost (RequireAuth shows it while loading or while setup is unknown).
WaitEnds == (View = "wait") ~> (View # "wait" \/ spent.failures > 0)

\* A form that names a row was filled from that row: a save of one never carries the
\* fields of another (setEditing and setForm go together in ModelsPage, and so on).
FormOfItsRow == (ui.view = "edit" /\ site \in {"models", "providers", "plans", "mgmt"})
                    => ui.of = ui.open

\* What a form cannot show is never replaced by a blank: metadata that is no map (null, a
\* list, a bare value), and headers and keys that are not sent to the browser, survive every
\* save of an operator who did not type into them (buildModelPayload; onSubmit of
\* providers).  Nothing is said of a map with other values than strings: the form shows
\* them as strings, and every save stores those.
UnseenSurvives == \A i \in Items : doc[i].hidden # "lost"

\* Once a page with a filter is not loading, the rows it loaded are those of that filter,
\* whatever order the answers came in, and the fetch dialog offers the models of its own
\* source.  The keys that were created since are the filter's too, unless requests of the
\* page were under way together: the row of a creation joins the rows of whatever customer
\* was picked before its answer came (setKeys of onCreate), and nothing else brings it there.
RowsOfSelection ==
    /\ site \in {"customers", "keys"} /\ ui.mounted /\ ~ui.loading => ui.for \subseteq {ui.sel}
    /\ site = "keys" /\ ui.mounted /\ ~ui.loading /\ ~ui.crossed => ui.made \subseteq {ui.sel}
    /\ site = "catalog" => ui.for \subseteq {ui.sel} /\ ui.chosen \in ui.for \cup {NoItem}

\* Requests of the page that are not answered.
Quiet == /\ View = "page" /\ user = Home /\ ui.mounted /\ PageBusy(net) = {}
         /\ ~ui.crossed /\ spent.failures = 0 /\ spent.foreign = 0

\* A page at rest whose own requests never overlapped shows what the server holds: its
\* rows, and the routing of the model being edited, as long as there is that model.
QuietPageIsCurrent ==
    Quiet => /\ \A i \in Items : ui.rows[i].here => ui.rows[i] = doc[i]
             /\ (/\ site = "models" /\ ui.view = "edit" /\ ui.open # NoItem
                 /\ doc[ui.open].here)
                  => ui.edit = doc[ui.open]

\* The conversation is what was said in that order: no reply stands under a prompt it
\* does not answer, and no prompt has two rounds of replies (send).
RepliesFollowPrompt ==
    \A i \in DOMAIN chat.messages :
        LET upTo == {j \in Prompts(chat.messages) : j <= i} IN
        /\ chat.messages[i].turn = Cardinality(upTo)
        /\ chat.messages[i].by # {} => i - 1 \in upTo

\* What is on the page belongs together: a form with its row, the rows that were loaded with
\* their filter, replies with their prompt; and saving it wipes nothing that it cannot show.
PageBelongsTogether ==
    TypeOK /\ FormOfItsRow /\ UnseenSurvives /\ RowsOfSelection /\ RepliesFollowPrompt

\* The tab comes to a page, and whoever signed in is not thrown out of it.
SessionHolds == SessionKept /\ WaitEnds
=============================================================================
