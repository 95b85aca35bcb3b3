---------------------------- MODULE PanelProofs ----------------------------
(***************************************************************************)
(* Proofs about Panel for any organizations, rights, rows, filters, number *)
(* of requests in flight and number of steps.                              *)
(*                                                                         *)
(* The invariant has three parts.  Tab: every request the tab waits for    *)
(* was asked under the organization shown, and with the filter shown; a    *)
(* page that is not mounted keeps nothing.  AtRest: while the requests of  *)
(* a page never overlapped, failed or met another tab, at most one is      *)
(* under way, and what is shown is what is stored but for the row that one *)
(* writes.  Conversation: the playground's turns are numbered by prompt.   *)
(* Every handler and every answer of the eleven pages keeps the first two  *)
(* by one of four lemmas (it shows, asks, takes, or takes and asks again); *)
(* a step of the session keeps them because the key of Outlet changes with *)
(* the organization.                                                       *)
(*                                                                         *)
(* That nobody is thrown out takes two more.  Kept: while there is no      *)
(* reason for it, every token under way is one that the server takes, or   *)
(* is the only one under way, and a granted one is stored before anything  *)
(* else leaves.  Tended: a stream that has not ended has a request of its  *)
(* own.  That a page is whole takes one more, Joined: unless requests of   *)
(* the page overlapped, a key just created is of the customer picked.      *)
(***************************************************************************)
EXTENDS Panel, SumTheorems

USE PanelAssumption, PageAssumption

-----------------------------------------------------------------------------
(* What the tab's variables hold.  Records are described field by field.   *)
Live == [here : BOOLEAN, rev : 0..MaxOwn, hidden : {"stored", "loose", "typed"}]
Table == [Items -> Live]

IsToken(t) == /\ {"sid", "org"} \subseteq DOMAIN t
              /\ t = NoToken \/ (t.sid \in Sids /\ t.org \in Orgs)

RequestFields == {"kind", "token", "to", "item", "from", "hidden", "sel", "shown", "code",
                  "grant", "val"}
Codes == {"sent", "ok", "failed", "unauthorized", "setup"}

IsRequest(q) ==
    /\ RequestFields \subseteq DOMAIN q
    /\ q.kind \in {"idle"} \cup AuthKinds \cup PageKinds /\ q.code \in Codes
    /\ IsToken(q.token) /\ IsToken(q.grant)
    /\ q.kind \in Moves => q.to \in Orgs
    /\ q.item \in Items \cup {NoItem}
    /\ q.kind \in Writes /\ (q.kind = "create" => q.code = "ok") => q.item \in Items
    /\ q.hidden \in {"omit", "typed", "loose", "stored"}
    /\ q.val \in Table

TabFields == {"mounted", "loading", "saving", "locked", "rows", "for", "sel", "chosen", "view",
              "by", "open", "of", "hidden", "edit", "tags", "waits", "crossed"}

(* A page whose parts belong together.                                     *)
Whole(u) ==
    /\ TabFields \subseteq DOMAIN u
    /\ u.mounted \in BOOLEAN /\ u.loading \in BOOLEAN /\ u.saving \in BOOLEAN
    /\ u.crossed \in BOOLEAN
    /\ u.rows \in Table /\ u.edit \in Live /\ u.hidden \in {"stored", "loose", "typed"}
    /\ u.open \in Items \cup {NoItem}
    /\ site = "customers" /\ InDrawer(u) => u.open \in Items
    /\ u.view = "edit" /\ site \in {"models", "providers", "plans", "mgmt"} => u.of = u.open
    /\ site \in {"customers", "keys"} /\ u.mounted /\ ~u.loading => u.for \subseteq {u.sel}
    /\ site = "keys" /\ u.sel = NoItem => u.for = {}
    /\ site = "catalog" => u.for \subseteq {u.sel} /\ u.chosen \in u.for \cup {NoItem}

Stores ==
    /\ sessions \in [Sids -> Orgs \cup {NoOrg}] /\ setup \in BOOLEAN
    /\ IsToken(stored) /\ user \in Orgs \cup {NoOrg}
    /\ loading \in BOOLEAN /\ needsSetup \in {"unknown", "yes", "no"} /\ excused \in BOOLEAN
    /\ doc \in Table
    /\ {"failures", "foreign", "own"} \subseteq DOMAIN spent
    /\ spent.failures \in Nat /\ spent.foreign \in Nat /\ spent.own \in 0..MaxOwn

OfRequests(n) ==
    /\ n = [s \in Slots |-> n[s]]
    /\ \A s \in Slots : IsRequest(n[s])

Requests == OfRequests(net)

(* What a page waits for was asked under the organization it is shown      *)
(* under, and for the filter it has.                                       *)
Filtered == site \in {"customers", "keys", "catalog"}

Awaited(q, sel) ==
    /\ q.kind \in PageKinds \/ (q.kind = "switch" /\ site = "organizations")
    /\ q.shown = user
    /\ Filtered /\ q.kind = "load" => q.sel = sel

Alone(u, n) ==
    site = "keys" => \A s, t \in u.waits : n[s].kind = "load" /\ n[t].kind = "load" => s = t

Waits ==
    /\ ui.waits \subseteq Slots
    /\ \A s \in ui.waits : Awaited(net[s], ui.sel)
    /\ Alone(ui, net)

Mounted ==
    IF ui.mounted THEN OutletKey # NoOrg /\ ui.tags \subseteq {user}
    ELSE /\ ui.waits = {} /\ ui.tags = {} /\ ui.rows = Empty /\ ui.crossed = FALSE
         /\ ui.view = "list"

(* Every write that was served, or will be, is a step of the operator.     *)
Pending == {s \in Slots : net[s].kind \in Writes /\ net[s].code = "sent"}
Revised == \A i \in Items : doc[i].rev + Cardinality(Pending) <= spent.own

Tab == Stores /\ Requests /\ Whole(ui) /\ Waits /\ Mounted /\ Revised

-----------------------------------------------------------------------------
(* A page at rest: what it shows is what is stored.                        *)
Editors == site \notin {"catalog", "organizations", "analytics", "playground"}

Current(rows) == \A i \in Items : rows[i].here => rows[i] = doc[i]
Routed(u) ==
    site = "models" /\ u.view = "edit" /\ u.open # NoItem /\ doc[u.open].here
        => u.edit = doc[u.open]
Settled(u) == Current(u.rows) /\ Routed(u)

CurrentBut(u, i) ==
    /\ \A j \in Items \ {i} : u.rows[j].here => u.rows[j] = doc[j]
    /\ u.open # i => Routed(u)

Clean == /\ ui.mounted /\ user = Home /\ ~ui.crossed
         /\ spent.failures = 0 /\ spent.foreign = 0

(* The only request under way, and what its answer will find.              *)
UnderWay(q) ==
    /\ q.token.org = Home
    /\ q.kind = "load" => /\ q.code \in {"sent", "ok", "unauthorized"}
                          /\ q.code = "ok" => q.val = doc
    /\ q.kind \in Writes /\ q.code # "ok" => Settled(ui)
    /\ q.kind \in Writes /\ q.code = "ok" =>
        /\ CurrentBut(ui, q.item)
        /\ IF q.kind = "remove" THEN ~doc[q.item].here ELSE q.val[q.item] = doc[q.item]

(* The kinds of requests that each page sends.                             *)
Kinds ==
    \A s \in Slots :
        /\ net[s].kind \in {"me", "bootStatus", "login", "signup", "createOrg"}
             => site = "organizations"
        /\ net[s].kind = "switch" /\ net[s].from = "createOrg" => site = "organizations"
        /\ net[s].kind = "stream" => site = "playground"
        /\ net[s].kind \in Writes => Editors

Tokens ==
    spent.foreign = 0 /\ site # "organizations" /\ user # NoOrg => stored.org = user

Never == \A i \in Items : ~doc[i].here /\ doc[i].rev = 0 => doc[i].hidden = "stored"

Rest ==
    /\ Clean /\ Editors =>
        /\ \A s \in Slots : net[s].kind \in Writes => s \in ui.waits
        /\ \A s, t \in ui.waits : s = t
        /\ \A s \in ui.waits : UnderWay(net[s])
        /\ ui.waits = {} => Settled(ui)
    /\ ~Editors =>
        /\ Current(ui.rows)
        /\ \A s \in Slots : net[s].kind = "load" /\ net[s].code = "ok" => Current(net[s].val)

AtRest == Kinds /\ Tokens /\ Never /\ Rest

-----------------------------------------------------------------------------
(* The conversation of the playground.                                     *)
Message == [turn : Nat, by : SUBSET Sels]
Task == [turn : Nat, alias : Sels, slot : Slots, end : {"open", "reply", "error"}]
ChatFields == {"messages", "picked", "tasks", "abort", "streaming"}

Conversation ==
    /\ ChatFields \subseteq DOMAIN chat
    /\ chat.messages \in Seq(Message) /\ chat.picked \subseteq Sels /\ chat.tasks \subseteq Task
    /\ chat.streaming \in BOOLEAN
    /\ ~chat.streaming => chat.tasks = {}
    /\ chat.streaming =>
        /\ chat.messages # <<>> /\ Len(chat.messages) \in Prompts(chat.messages)
        /\ chat.abort = Cardinality(Prompts(chat.messages))
        /\ \A t \in chat.tasks : t.turn = chat.abort
    /\ RepliesFollowPrompt

PanelInv == Tab /\ AtRest /\ Conversation

-----------------------------------------------------------------------------
(* Slots.                                                                  *)
LEMMA NextFree == ASSUME NEW n, Free(n) # {} PROVE NextSlot(n) \in Free(n)
<1>1. Free(n) \subseteq Nat
  BY DEF Free
<1>2. PICK s \in Free(n) : \A x \in Free(n) : s <= x
  BY <1>1, Least
<1>3. QED
  BY <1>2 DEF NextSlot

LEMMA EmptyIsTable == Empty \in Table /\ Empty[CHOOSE i \in Items : TRUE] \in Live
<1>1. [here |-> FALSE, rev |-> 0, hidden |-> "stored"] \in Live
  BY DEF Live
<1>2. (CHOOSE i \in Items : TRUE) \in Items
  OBVIOUS
<1>3. QED
  BY <1>1, <1>2 DEF Empty, Table

LEMMA TokenNone == IsToken(NoToken)
  BY DEF IsToken, NoToken

(* A new request, and the fields that its sender fills in.                 *)
LEMMA NewRequest ==
  ASSUME NEW kind \in AuthKinds \cup PageKinds, NEW token, IsToken(token),
         kind \notin Moves, kind \notin Writes \ {"create"}
  PROVE  LET q == Request(kind, token) IN
         /\ IsRequest(q)
         /\ q.kind = kind /\ q.token = token /\ q.shown = user /\ q.code = "sent"
         /\ q.from = NoItem
  BY EmptyIsTable, TokenNone DEF Request, Idle, IsRequest, RequestFields, Codes

LEMMA IdleIsRequest ==
  /\ IsRequest(Idle) /\ Idle.kind = "idle"
  /\ Idle.code = "sent"
  BY EmptyIsTable, TokenNone DEF Idle, IsRequest, RequestFields, Codes, Moves, Writes

LEMMA FreshIsWhole == Whole(FreshUi) /\ ~FreshUi.mounted
  BY EmptyIsTable DEF FreshUi, Whole, TabFields, InDrawer, StartSel

LEMMA PutSlots ==
  ASSUME NEW n, OfRequests(n), Free(n) # {}, NEW q, IsRequest(q)
  PROVE  /\ NextSlot(n) \in Slots /\ n[NextSlot(n)].kind = "idle"
         /\ Put(n, q)[NextSlot(n)] = q
         /\ \A s \in Slots : s # NextSlot(n) => Put(n, q)[s] = n[s]
         /\ OfRequests(Put(n, q))
<1>1. NextSlot(n) \in Slots /\ n[NextSlot(n)].kind = "idle"
  BY NextFree DEF Free
<1>2. QED
  BY <1>1 DEF Put, OfRequests

LEMMA DropSlots ==
  ASSUME Requests, NEW s \in Slots
  PROVE  /\ Drop(s)[s] = Idle
         /\ \A t \in Slots : t # s => Drop(s)[t] = net[t]
         /\ OfRequests(Drop(s))
         /\ s \in Free(Drop(s))
  BY IdleIsRequest DEF Requests, OfRequests, Drop, Free

-----------------------------------------------------------------------------
(* What the handlers and the answers of a page do to it.                   *)
SamePage(u) ==
    /\ Whole(u) /\ u.mounted /\ u.tags = ui.tags /\ u.crossed = ui.crossed
    /\ u.waits \subseteq ui.waits

SameFilter(u, waits) == Filtered => \A s \in waits : net[s].kind = "load" => net[s].sel = u.sel

Edits(u) ==
    site = "models" /\ u.view = "edit" /\ u.open # NoItem =>
        \/ ui.view = "edit" /\ u.open = ui.open /\ u.edit = ui.edit
        \/ ui.rows[u.open].here /\ u.edit = ui.rows[u.open]

Shown(u) ==
    /\ SamePage(u) /\ SameFilter(u, u.waits) /\ u.rows = ui.rows /\ Edits(u)
    /\ Editors => u.waits = ui.waits

Sent(q) ==
    /\ IsRequest(q) /\ q.kind \in PageKinds \ {"stream"} /\ q.code = "sent"
    /\ q.shown = user /\ q.token = stored
    /\ q.kind = "createOrg" => site = "organizations"
    /\ q.kind \in Writes => Editors

Asked(q, u) ==
    /\ SamePage(u) /\ SameFilter(u, u.waits) /\ u.rows = ui.rows /\ Edits(u)
    /\ Sent(q)
    /\ Editors => q.kind = "load" \/ u.waits = ui.waits
    /\ Filtered /\ q.kind = "load" => q.sel = u.sel
    /\ site = "keys" /\ q.kind = "load" => \A s \in u.waits : net[s].kind # "load"

Taken(s, u) ==
    /\ SamePage(u) /\ SameFilter(u, u.waits) /\ u.waits = ui.waits
    /\ IF Editors THEN Clean => Settled(u) ELSE Current(u.rows)

TakenLoading(s, u) ==
    /\ Whole([u EXCEPT !.loading = TRUE])
    /\ u.mounted /\ u.tags = ui.tags /\ u.crossed = ui.crossed /\ u.waits \subseteq ui.waits
    /\ SameFilter(u, u.waits \ {s})
    /\ Editors
    /\ site = "keys" => \A t \in u.waits \ {s} : net[t].kind # "load"

-----------------------------------------------------------------------------
LEMMA SameKey == ASSUME NEW u, Keeping(u) PROVE OutletKey' = OutletKey
  BY DEF Keeping, OutletKey, View, Guarded, Permitted

(* What a page step leaves to the invariants of the stores.                *)
LEMMA KeepingStores ==
  ASSUME Tab, NEW u, Keeping(u), doc \in Table,
         UNCHANGED excused \/ excused' = (excused \/ Races(net')),
         UNCHANGED spent \/ Own
  PROVE  Stores'
<1>1. excused' \in BOOLEAN
  BY DEF Tab, Stores, Races
<1>2. /\ {"failures", "foreign", "own"} \subseteq DOMAIN spent'
      /\ spent'.failures \in Nat /\ spent'.foreign \in Nat /\ spent'.own \in 0..MaxOwn
  BY DEF Tab, Stores, Own, Spends
<1>3. QED
  BY <1>1, <1>2 DEF Tab, Stores, Keeping

LEMMA PendingFinite ==
  ASSUME NEW S \in SUBSET Slots
  PROVE  IsFiniteSet(S) /\ Cardinality(S) \in Nat
  BY FS_Subset, FS_CardinalityType

LEMMA RevisedKept ==
  ASSUME Tab, doc' = doc, Pending' \subseteq Pending, UNCHANGED spent \/ Own
  PROVE  Revised'
<1>1. /\ Pending \in SUBSET Slots /\ Pending' \in SUBSET Slots
  BY DEF Pending
<1>2. /\ Cardinality(Pending) \in Nat /\ Cardinality(Pending') \in Nat
      /\ Cardinality(Pending') <= Cardinality(Pending)
  BY <1>1, PendingFinite, FS_Subset
<1>3. spent.own \in Nat /\ spent'.own \in Nat /\ spent.own <= spent'.own
  BY DEF Tab, Stores, Own, Spends
<1>4. \A i \in Items : doc[i].rev \in Nat /\ doc[i].rev + Cardinality(Pending) <= spent.own
  BY DEF Tab, Stores, Table, Live, Revised
<1>5. QED
  BY <1>2, <1>3, <1>4 DEF Revised

LEMMA RevisedAsked ==
  ASSUME Tab, doc' = doc, NEW s \in Slots, Pending' \subseteq Pending \cup {s}, Own
  PROVE  Revised'
<1>1. /\ Pending \in SUBSET Slots /\ Pending' \in SUBSET Slots
      /\ Pending \cup {s} \in SUBSET Slots
  BY DEF Pending
<1>2. /\ IsFiniteSet(Pending) /\ IsFiniteSet(Pending \cup {s})
      /\ Cardinality(Pending) \in Nat /\ Cardinality(Pending') \in Nat
      /\ Cardinality(Pending \cup {s}) \in Nat
  BY <1>1, PendingFinite
<1>5. Cardinality(Pending') <= Cardinality(Pending \cup {s})
  BY <1>2, FS_Subset
<1>6. Cardinality(Pending \cup {s}) <= Cardinality(Pending) + 1
  BY <1>2, FS_AddElement
<1>3. spent.own \in Nat /\ spent'.own = spent.own + 1
  BY DEF Tab, Stores, Own, Spends
<1>4. \A i \in Items : doc[i].rev \in Nat /\ doc[i].rev + Cardinality(Pending) <= spent.own
  BY DEF Tab, Stores, Table, Live, Revised
<1>7. QED
  BY <1>2, <1>3, <1>4, <1>5, <1>6 DEF Revised

-----------------------------------------------------------------------------
(* Each kind of step keeps the invariant of the tab.                       *)
LEMMA TaggedWhole ==
  ASSUME NEW u, Whole(u), NEW tags, NEW waits, NEW crossed \in BOOLEAN, u.mounted
  PROVE  /\ Whole([u EXCEPT !.tags = tags])
         /\ Whole([u EXCEPT !.waits = waits, !.tags = tags])
         /\ Whole([[u EXCEPT !.tags = tags] EXCEPT !.waits = waits, !.crossed = crossed])
<1>1. ASSUME NEW v, Whole(v), NEW t
      PROVE  Whole([v EXCEPT !.tags = t])
  BY <1>1 DEF Whole, TabFields, InDrawer
<1>2. ASSUME NEW v, Whole(v), NEW t
      PROVE  Whole([v EXCEPT !.waits = t])
  BY <1>2 DEF Whole, TabFields, InDrawer
<1>3. [u EXCEPT !.waits = waits, !.tags = tags] = [[u EXCEPT !.waits = waits] EXCEPT !.tags = tags]
  BY DEF Whole, TabFields
<1>4. Whole([u EXCEPT !.waits = waits, !.tags = tags])
  BY <1>1, <1>2, <1>3
<1>5. ASSUME NEW v, Whole(v)
      PROVE  Whole([v EXCEPT !.waits = waits, !.crossed = crossed])
  BY <1>5 DEF Whole, TabFields, InDrawer
<1>6. QED
  BY <1>1, <1>4, <1>5

LEMMA ShowsTab ==
  ASSUME Tab, ui.mounted, NEW u, Shows(u), Shown(u)
  PROVE  Tab'
<1> USE DEF Shows
<1>1. /\ ui' = [u EXCEPT !.tags = @ \cup {user}]
      /\ net' = net /\ doc' = doc /\ user' = user /\ site' = site
      /\ TabFields \subseteq DOMAIN u
  BY DEF Keeping, Shown, SamePage, Whole
<1>2. Stores'
  BY KeepingStores DEF Tab, Stores
<1>3. Requests'
  BY <1>1 DEF Tab, Requests, OfRequests
<1>4. Whole(ui')
  BY <1>1, TaggedWhole DEF Shown, SamePage
<1>5. Whole(ui)'
  BY <1>1, <1>4 DEF Whole, InDrawer
<1>6. /\ ui'.waits = u.waits /\ ui'.sel = u.sel /\ ui'.mounted = u.mounted
      /\ ui'.tags = u.tags \cup {user}
  BY <1>1 DEF TabFields
<1>7. Waits'
  BY <1>1, <1>6 DEF Tab, Waits, Shown, SamePage, SameFilter, Awaited, Filtered, Alone
<1>8. Mounted'
  BY <1>1, <1>6, SameKey DEF Tab, Mounted, Shown, SamePage
<1>9. Revised'
  BY <1>1, RevisedKept DEF Pending
<1>10. QED
  BY <1>2, <1>3, <1>5, <1>7, <1>8, <1>9 DEF Tab

LEMMA SentIsPut ==
  ASSUME NEW n, OfRequests(n), Free(n) # {}, NEW q, Sent(q), net' = Put(n, q)
  PROVE  /\ NextSlot(n) \in Slots /\ n[NextSlot(n)].kind = "idle"
         /\ net'[NextSlot(n)] = q
         /\ \A s \in Slots : s # NextSlot(n) => net'[s] = n[s]
         /\ Requests'
<1>1. IsRequest(q)
  BY DEF Sent
<1>2. OfRequests(net')
  BY <1>1, PutSlots
<1>3. Requests'
  BY <1>2 DEF Requests, OfRequests
<1>4. /\ NextSlot(n) \in Slots /\ n[NextSlot(n)].kind = "idle"
      /\ Put(n, q)[NextSlot(n)] = q
      /\ \A s \in Slots : s # NextSlot(n) => Put(n, q)[s] = n[s]
  BY <1>1, PutSlots
<1>5. QED
  BY <1>3, <1>4

LEMMA WaitingFields ==
  ASSUME NEW u, TabFields \subseteq DOMAIN u, NEW n, NEW q
  PROVE  LET w == Waiting(u, n, q) IN
         /\ TabFields \subseteq DOMAIN w
         /\ w.waits = u.waits \cup {NextSlot(n)} /\ w.crossed = (u.crossed \/ Crosses(u, n, q))
         /\ w.mounted = u.mounted /\ w.sel = u.sel /\ w.tags = u.tags /\ w.rows = u.rows
         /\ w.view = u.view /\ w.open = u.open /\ w.edit = u.edit
         /\ w.loading = u.loading /\ w.saving = u.saving
  BY DEF Waiting, TabFields

LEMMA WaitingWhole ==
  ASSUME NEW u, Whole(u), u.mounted, NEW n, NEW q
  PROVE  Whole(Waiting(u, n, q))
  BY DEF Waiting, Whole, TabFields, InDrawer, Crosses

LEMMA AskedTab ==
  ASSUME Tab, ui.mounted, NEW q, NEW u, Asking(q, u), Asked(q, u)
  PROVE  Tab'
<1> DEFINE v == [u EXCEPT !.tags = @ \cup {user}]
           slot == NextSlot(net)
<1>1. /\ ui' = Waiting(v, net, q) /\ Free(net) # {} /\ net' = Put(net, q)
      /\ excused' = (excused \/ Races(net')) /\ Own
      /\ doc' = doc /\ user' = user /\ site' = site
  BY DEF Asking, Sends, Keeping
<1>2. /\ TabFields \subseteq DOMAIN u /\ Whole(u) /\ Whole(v)
      /\ TabFields \subseteq DOMAIN v
      /\ v.waits = u.waits /\ v.sel = u.sel /\ v.mounted = u.mounted
      /\ v.tags = u.tags \cup {user} /\ v.mounted
  <2>1. TabFields \subseteq DOMAIN u /\ Whole(u) /\ u.mounted
    BY DEF Asked, SamePage, Whole
  <2>2. Whole(v)
    BY <2>1, TaggedWhole
  <2>3. QED
    BY <2>1, <2>2 DEF TabFields
<1>3. /\ slot \in Slots /\ net[slot].kind = "idle" /\ net'[slot] = q
      /\ \A s \in Slots : s # slot => net'[s] = net[s]
      /\ Requests'
  BY <1>1, SentIsPut DEF Asked, Tab, Requests
<1> HIDE DEF v, slot
<1>4. /\ ui'.waits = u.waits \cup {slot} /\ ui'.sel = u.sel /\ ui'.mounted = u.mounted
      /\ ui'.tags = u.tags \cup {user}
  BY <1>1, <1>2, WaitingFields DEF slot
<1>5. Stores'
  BY <1>1, KeepingStores DEF Asking, Tab, Stores
<1>6. Whole(ui')
  BY <1>1, <1>2, WaitingWhole
<1>7. Whole(ui)'
  BY <1>1, <1>6 DEF Whole, InDrawer
<1>8. \A s \in u.waits : s \in Slots /\ net[s].kind # "idle" /\ s # slot /\ net'[s] = net[s]
  BY <1>3 DEF Tab, Waits, Awaited, Asked, SamePage, PageKinds, Writes
<1>9. Waits'
  <2>1. /\ u.waits \subseteq ui.waits /\ SameFilter(u, u.waits) /\ Sent(q)
        /\ Filtered /\ q.kind = "load" => q.sel = u.sel
        /\ site = "keys" /\ q.kind = "load" => \A s \in u.waits : net[s].kind # "load"
    BY DEF Asked, SamePage
  <2>2. \A s \in ui'.waits : Awaited(net[s], ui.sel)'
    <3> SUFFICES ASSUME NEW s \in ui'.waits PROVE Awaited(net[s], ui.sel)'
      OBVIOUS
    <3>1. CASE s = slot
      BY <1>1, <1>3, <1>4, <2>1, <3>1 DEF Awaited, Filtered, Sent
    <3>2. CASE s \in u.waits
      BY <1>1, <1>4, <1>8, <2>1, <3>2 DEF Tab, Waits, Awaited, Filtered, SameFilter
    <3>3. QED
      BY <1>4, <3>1, <3>2
  <2>3. Alone(ui, net)'
    BY <1>1, <1>3, <1>4, <1>8, <2>1 DEF Tab, Waits, Alone
  <2>4. QED
    BY <1>3, <1>4, <1>8, <2>2, <2>3 DEF Waits
<1>10. Mounted'
  <2>1. OutletKey' = OutletKey
    BY SameKey DEF Asking
  <2>2. u.tags = ui.tags /\ u.mounted
    BY DEF Asked, SamePage
  <2>3. QED
    BY <1>1, <1>4, <2>1, <2>2 DEF Tab, Mounted
<1>11. Revised'
  <2>1. ASSUME NEW t \in Pending', t # slot PROVE t \in Pending
    <3>1. t \in Slots /\ net'[t] = net[t]
      BY <1>3, <2>1 DEF Pending
    <3>2. QED
      BY <2>1, <3>1 DEF Pending
  <2>2. Pending' \subseteq Pending \cup {slot}
    BY <2>1
  <2>3. QED
    BY <1>1, <1>3, <2>2, RevisedAsked
<1>12. QED
  BY <1>3, <1>5, <1>7, <1>9, <1>10, <1>11 DEF Tab

LEMMA TakenTab ==
  ASSUME Tab, ui.mounted, NEW s \in ui.waits, NEW u, Takes(s, u), Taken(s, u)
  PROVE  Tab'
<1>1. /\ ui' = [u EXCEPT !.waits = u.waits \ {s}, !.tags = u.tags \cup {net[s].shown}]
      /\ net' = Drop(s) /\ doc' = doc /\ user' = user /\ site' = site /\ UNCHANGED spent
      /\ UNCHANGED excused
  BY DEF Takes, Keeping
<1>2. s \in Slots /\ net[s].shown = user
  BY DEF Tab, Waits, Awaited
<1>3. /\ Whole(u) /\ u.mounted /\ TabFields \subseteq DOMAIN u
      /\ u.waits = ui.waits /\ u.tags = ui.tags /\ SameFilter(u, u.waits)
  BY DEF Taken, SamePage, Whole
<1>4. /\ ui'.waits = ui.waits \ {s} /\ ui'.sel = u.sel /\ ui'.mounted
      /\ ui'.tags = ui.tags \cup {user}
  BY <1>1, <1>2, <1>3 DEF TabFields
<1>5. /\ \A t \in Slots : t # s => net'[t] = net[t]
      /\ net'[s] = Idle /\ OfRequests(net')
  BY <1>1, <1>2, DropSlots DEF Tab
<1>6. Stores'
  BY <1>1, KeepingStores DEF Takes, Tab, Stores
<1>7. Whole(ui')
  BY <1>1, <1>3, TaggedWhole
<1>8. Whole(ui)'
  BY <1>1, <1>7 DEF Whole, InDrawer
<1>9. Waits'
  <2>1. ui'.waits \subseteq Slots
    BY <1>4 DEF Tab, Waits
  <2>2. \A t \in ui'.waits : Awaited(net[t], ui.sel)'
    BY <1>1, <1>3, <1>4, <1>5 DEF Tab, Waits, Awaited, Filtered, SameFilter
  <2>3. Alone(ui, net)'
    BY <1>1, <1>4, <1>5, <2>1 DEF Tab, Waits, Alone
  <2>4. QED
    BY <2>1, <2>2, <2>3 DEF Waits
<1>10. Mounted'
  BY <1>1, <1>4, SameKey DEF Tab, Mounted, Takes
<1>11. Pending' \subseteq Pending
  BY <1>5, IdleIsRequest DEF Pending, Writes
<1>12. Revised'
  BY <1>1, <1>11, RevisedKept
<1>13. QED
  BY <1>5, <1>6, <1>8, <1>9, <1>10, <1>12 DEF Tab, Requests

LEMMA Reloads ==
  ASSUME Tab, NEW sel, NEW from
  PROVE  LET q == [Load EXCEPT !.sel = sel, !.from = from] IN
         Sent(q) /\ q.kind = "load" /\ q.sel = sel
<1>1. /\ IsRequest(Request("load", stored)) /\ Request("load", stored).kind = "load"
      /\ Request("load", stored).token = stored /\ Request("load", stored).shown = user
      /\ Request("load", stored).code = "sent"
  BY NewRequest DEF Tab, Stores, PageKinds, Moves, Writes
<1>2. QED
  BY <1>1 DEF Load, Sent, IsRequest, RequestFields, PageKinds, Writes, Moves

LEMMA LoadSent ==
  ASSUME Tab, NEW sel
  PROVE  LET q == [Load EXCEPT !.sel = sel] IN
         Sent(q) /\ q.kind = "load" /\ q.sel = sel
<1>1. /\ IsRequest(Request("load", stored)) /\ Request("load", stored).kind = "load"
      /\ Request("load", stored).token = stored /\ Request("load", stored).shown = user
      /\ Request("load", stored).code = "sent"
  BY NewRequest DEF Tab, Stores, PageKinds, Moves, Writes
<1>2. QED
  BY <1>1 DEF Load, Sent, IsRequest, RequestFields, PageKinds, Writes, Moves

LEMMA TakenLoadingTab ==
  ASSUME Tab, ui.mounted, NEW s \in ui.waits, NEW u, TakesAndLoads(s, u), TakenLoading(s, u)
  PROVE  Tab'
<1> DEFINE q == [Load EXCEPT !.sel = u.sel, !.from = net[s].kind]
           v == [u EXCEPT !.waits = u.waits \ {s}, !.tags = u.tags \cup {net[s].shown},
                          !.loading = TRUE]
           n == Drop(s)
           slot == NextSlot(n)
<1>1. /\ ui' = Waiting(v, n, q) /\ net' = Put(n, q)
      /\ excused' = (excused \/ Races(net')) /\ UNCHANGED spent
      /\ doc' = doc /\ user' = user /\ site' = site
  BY DEF TakesAndLoads, Keeping
<1>2. s \in Slots /\ net[s].shown = user
  BY DEF Tab, Waits, Awaited
<1>3. /\ Whole(v) /\ v.waits = u.waits \ {s} /\ v.tags = ui.tags \cup {user} /\ v.sel = u.sel
      /\ v.mounted /\ TabFields \subseteq DOMAIN v
  <2>1. Whole([u EXCEPT !.loading = TRUE]) /\ u.mounted /\ u.tags = ui.tags
    BY DEF TakenLoading
  <2>3. /\ v.waits = u.waits \ {s} /\ v.tags = u.tags \cup {net[s].shown}
        /\ v.sel = u.sel /\ v.mounted /\ Whole(v)
    BY <2>1 DEF Whole, TabFields, InDrawer
  <2>4. QED
    BY <1>2, <2>1, <2>3 DEF Whole
<1>4. /\ \A t \in Slots : t # s => n[t] = net[t]
      /\ n[s] = Idle /\ OfRequests(n) /\ s \in Free(n)
  BY <1>2, DropSlots DEF Tab
<1>5. Sent(q) /\ q.kind = "load" /\ q.sel = u.sel
  BY Reloads
<1> HIDE DEF v, n, q
<1>6. /\ slot \in Slots /\ n[slot].kind = "idle" /\ net'[slot] = q
      /\ \A t \in Slots : t # slot => net'[t] = n[t]
      /\ Requests'
  BY <1>1, <1>4, <1>5, SentIsPut
<1> HIDE DEF slot
<1>7. /\ ui'.waits = (u.waits \ {s}) \cup {slot} /\ ui'.sel = u.sel /\ ui'.mounted
      /\ ui'.tags = ui.tags \cup {user}
  BY <1>1, <1>3, WaitingFields DEF slot
<1>8. Stores'
  <2>1. \E w : Keeping(w)
    BY DEF TakesAndLoads
  <2>2. QED
    BY <1>1, <2>1, KeepingStores DEF Tab, Stores
<1>9. Whole(ui')
  BY <1>1, <1>3, WaitingWhole
<1>10. Whole(ui)'
  BY <1>1, <1>9 DEF Whole, InDrawer
<1>11. \A t \in u.waits \ {s} : t \in Slots /\ t # slot /\ net'[t] = net[t]
  BY <1>4, <1>6 DEF Tab, Waits, Awaited, TakenLoading, PageKinds, Writes
<1>12. Waits'
  <2>1. /\ u.waits \subseteq ui.waits /\ SameFilter(u, u.waits \ {s})
        /\ site = "keys" => \A t \in u.waits \ {s} : net[t].kind # "load"
    BY DEF TakenLoading
  <2>2. \A t \in ui'.waits : Awaited(net[t], ui.sel)'
    <3> SUFFICES ASSUME NEW t \in ui'.waits PROVE Awaited(net[t], ui.sel)'
      OBVIOUS
    <3>1. CASE t = slot
      BY <1>1, <1>5, <1>6, <1>7, <3>1 DEF Awaited, Filtered, Sent
    <3>2. CASE t \in u.waits \ {s}
      BY <1>1, <1>7, <1>11, <2>1, <3>2 DEF Tab, Waits, Awaited, Filtered, SameFilter
    <3>3. QED
      BY <1>7, <3>1, <3>2
  <2>3. Alone(ui, net)'
    BY <1>1, <1>6, <1>7, <1>11, <2>1 DEF Tab, Waits, Alone
  <2>4. QED
    BY <1>6, <1>7, <1>11, <2>2, <2>3 DEF Waits
<1>13. Mounted'
  <2>1. OutletKey' = OutletKey
    BY SameKey DEF TakesAndLoads
  <2>2. QED
    BY <1>1, <1>7, <2>1 DEF Tab, Mounted
<1>14. "idle" \notin Writes /\ "load" \notin Writes /\ Idle.kind = "idle"
  BY IdleIsRequest DEF Writes
<1>15. Pending' \subseteq Pending
  <2>1. \A t \in Slots : t # slot /\ t # s => net'[t] = net[t]
    BY <1>4, <1>6
  <2>2. net'[slot].kind \notin Writes /\ (s # slot => net'[s].kind \notin Writes)
    <3>1. net'[slot] = q /\ q.kind = "load"
      BY <1>5, <1>6
    <3>2. s \in Slots /\ n[s] = Idle
      BY <1>2, <1>4
    <3>3. s # slot => net'[s] = Idle
      BY <1>6, <3>2
    <3>4. QED
      BY <1>14, <3>1, <3>3
  <2>3. ASSUME NEW t \in Pending' PROVE t \in Pending
    <3>1. t \in Slots /\ net'[t].kind \in Writes
      BY <2>3 DEF Pending
    <3>2. t # slot /\ t # s
      BY <2>2, <3>1
    <3>3. net'[t] = net[t]
      BY <2>1, <3>1, <3>2
    <3>4. QED
      BY <2>3, <3>1, <3>3 DEF Pending
  <2>4. QED
    BY <2>3
<1>16. Revised'
  BY <1>1, <1>15, RevisedKept
<1>17. QED
  BY <1>6, <1>8, <1>10, <1>12, <1>13, <1>16 DEF Tab

-----------------------------------------------------------------------------
(* Each kind of step keeps a page at rest true to what is stored.          *)
LEMMA SettledKept ==
  ASSUME Whole(ui), NEW v, v.rows = ui.rows, Edits(v), v.open \in Items \cup {NoItem}
  PROVE  /\ Settled(ui) => Settled(v)
         /\ \A i \in Items : CurrentBut(ui, i) => CurrentBut(v, i)
<1>1. Settled(ui) => Settled(v)
  BY DEF Settled, Current, Routed, Edits
<1>2. ASSUME NEW i \in Items, CurrentBut(ui, i) PROVE CurrentBut(v, i)
  BY <1>2 DEF CurrentBut, Routed, Edits
<1>3. QED
  BY <1>1, <1>2

LEMMA EditorWaits ==
  ASSUME Tab, Editors
  PROVE  \A s \in ui.waits : s \in Slots /\ net[s].kind \in PageKinds /\ s \in PageBusy(net)
  BY DEF Tab, Waits, Awaited, Editors, PageBusy

LEMMA ShowsRest ==
  ASSUME Tab, AtRest, ui.mounted, NEW u, Shows(u), Shown(u)
  PROVE  AtRest'
<1> USE DEF Shows
<1>1. /\ ui' = [u EXCEPT !.tags = @ \cup {user}]
      /\ net' = net /\ doc' = doc /\ user' = user /\ site' = site /\ stored' = stored
      /\ spent'.failures = spent.failures /\ spent'.foreign = spent.foreign
      /\ TabFields \subseteq DOMAIN u
  BY DEF Keeping, Shown, SamePage, Whole, Own, Spends, Tab, Stores
<1>2. /\ ui'.waits = u.waits /\ ui'.rows = ui.rows /\ ui'.view = u.view /\ ui'.open = u.open
      /\ ui'.edit = u.edit /\ ui'.mounted = u.mounted /\ ui'.crossed = ui.crossed
      /\ u.open \in Items \cup {NoItem} /\ Edits(u)
  BY <1>1 DEF TabFields, Shown, SamePage, Whole
<1>3. Kinds' /\ Never' /\ Tokens'
  BY <1>1 DEF AtRest, Kinds, Never, Tokens, Editors
<1>4. Edits(ui')
  BY <1>2 DEF Edits
<1>5. /\ Settled(ui) => Settled(ui')
      /\ \A i \in Items : CurrentBut(ui, i) => CurrentBut(ui', i)
  BY <1>2, <1>4, SettledKept DEF Tab
<1>6. /\ Settled(ui) => Settled(ui)'
      /\ \A i \in Items : CurrentBut(ui, i) => CurrentBut(ui, i)'
      /\ Current(ui.rows) => Current(ui.rows)'
  BY <1>1, <1>2, <1>5 DEF Settled, CurrentBut, Current, Routed
<1>7. ASSUME Clean' PROVE Clean
  BY <1>1, <1>2, <1>7 DEF Clean
<1>8. ASSUME Clean', Editors PROVE Rest'
  <2>1. /\ ui.waits = u.waits
        /\ \A s \in Slots : net[s].kind \in Writes => s \in ui.waits
        /\ \A s, t \in ui.waits : s = t
        /\ \A s \in ui.waits : UnderWay(net[s])
        /\ ui.waits = {} => Settled(ui)
    BY <1>7, <1>8 DEF AtRest, Rest, Shown
  <2>2. ASSUME NEW s \in ui.waits PROVE UnderWay(net[s])'
    <3>1. UnderWay(net[s]) /\ IsRequest(net[s])
      BY <2>1, <2>2 DEF Tab, Waits, Requests, OfRequests
    <3>2. net[s].kind \in Writes /\ net[s].code = "ok" => net[s].item \in Items
      BY <3>1 DEF IsRequest
    <3>3. QED
      BY <1>1, <1>6, <3>1, <3>2 DEF UnderWay
  <2>3. QED
    BY <1>1, <1>2, <1>6, <1>8, <2>1, <2>2 DEF Rest, Editors
<1>9. ASSUME ~Editors PROVE Rest'
  BY <1>1, <1>6, <1>9 DEF AtRest, Rest, Editors, Current
<1>10. QED
  BY <1>1, <1>3, <1>8, <1>9 DEF AtRest, Rest, Editors

LEMMA AskedRest ==
  ASSUME Tab, AtRest, ui.mounted, NEW q, NEW u, Asking(q, u), Asked(q, u)
  PROVE  AtRest'
<1> DEFINE v == [u EXCEPT !.tags = @ \cup {user}]
           slot == NextSlot(net)
<1>1. /\ ui' = Waiting(v, net, q) /\ Free(net) # {} /\ net' = Put(net, q)
      /\ doc' = doc /\ user' = user /\ site' = site /\ stored' = stored
      /\ spent'.failures = spent.failures /\ spent'.foreign = spent.foreign
  BY DEF Asking, Sends, Keeping, Own, Spends, Tab, Stores
<1>2. /\ TabFields \subseteq DOMAIN u /\ TabFields \subseteq DOMAIN v
      /\ v.waits = u.waits /\ v.rows = ui.rows /\ v.mounted /\ v.crossed = ui.crossed
      /\ v.view = u.view /\ v.open = u.open /\ v.edit = u.edit
      /\ u.open \in Items \cup {NoItem} /\ Edits(u) /\ u.waits \subseteq ui.waits
  BY DEF Asked, SamePage, Whole, TabFields
<1>3. Sent(q)
  BY DEF Asked
<1>4. /\ slot \in Slots /\ net[slot].kind = "idle" /\ net'[slot] = q
      /\ \A s \in Slots : s # slot => net'[s] = net[s]
  BY <1>1, <1>3, SentIsPut DEF Tab, Requests
<1> HIDE DEF v, slot
<1>5. /\ ui'.waits = u.waits \cup {slot} /\ ui'.mounted /\ ui'.rows = ui.rows
      /\ ui'.crossed = (ui.crossed \/ Crosses(v, net, q))
      /\ ui'.view = u.view /\ ui'.open = u.open /\ ui'.edit = u.edit
  BY <1>1, <1>2, WaitingFields DEF slot
<1>6. Kinds' /\ Never' /\ Tokens'
  BY <1>1, <1>3, <1>4 DEF AtRest, Kinds, Never, Tokens, Editors, Sent, PageKinds, Writes
<1>7. Edits(ui')
  BY <1>2, <1>5 DEF Edits
<1>8. Settled(ui) => Settled(ui')
  BY <1>2, <1>5, <1>7, SettledKept DEF Tab
<1>9. /\ Settled(ui) => Settled(ui)'
      /\ Current(ui.rows) => Current(ui.rows)'
  BY <1>1, <1>5, <1>8 DEF Settled, Current, Routed
<1>10. ASSUME Clean' PROVE Clean /\ ~Crosses(v, net, q)
  BY <1>1, <1>5, <1>10 DEF Clean, Tab, Whole
<1>11. ASSUME Clean', Editors PROVE Rest'
  <2>1. u.waits = {} /\ \A s \in Slots : net[s].kind \notin Writes
    <3>1. \A s \in PageBusy(net) : s \notin u.waits /\ net[s].kind \notin Writes
      BY <1>2, <1>10, <1>11 DEF Crosses
    <3>2. \A s \in u.waits : s \in PageBusy(net)
      BY <1>2, <1>11, EditorWaits
    <3>3. QED
      BY <3>1, <3>2 DEF PageBusy, PageKinds
  <2>2. q.kind # "load" => Settled(ui)
    BY <1>10, <1>11, <2>1 DEF AtRest, Rest, Asked
  <2>3. UnderWay(q)'
    <3>1. q.token.org = Home
      BY <1>3, <1>10, <1>11 DEF Sent, AtRest, Tokens, Clean, Editors
    <3>2. q.code = "sent" /\ (q.kind \in Writes => q.kind # "load")
      BY <1>3 DEF Sent, Writes
    <3>3. q.kind \in Writes => Settled(ui)'
      BY <1>9, <2>2, <3>2
    <3>4. QED
      BY <3>1, <3>2, <3>3 DEF UnderWay
  <2>4. QED
    BY <1>1, <1>4, <1>5, <1>11, <2>1, <2>3 DEF Rest, Editors
<1>12. ASSUME ~Editors PROVE Rest'
  <2>1. /\ Current(ui.rows)
        /\ \A s \in Slots : net[s].kind = "load" /\ net[s].code = "ok" => Current(net[s].val)
    BY <1>12 DEF AtRest, Rest
  <2>2. \A s \in Slots : net'[s].kind = "load" /\ net'[s].code = "ok" => Current(net'[s].val)
    BY <1>3, <1>4, <2>1 DEF Sent
  <2>3. \A s \in Slots : (net[s].kind = "load" /\ net[s].code = "ok" => Current(net[s].val))'
    BY <1>1, <2>2 DEF Current
  <2>4. QED
    BY <1>1, <1>9, <1>12, <2>1, <2>3 DEF Rest, Editors
<1>13. QED
  BY <1>1, <1>6, <1>11, <1>12 DEF AtRest, Rest, Editors

LEMMA TakenRest ==
  ASSUME Tab, AtRest, ui.mounted, NEW s \in ui.waits, NEW u, Takes(s, u), Taken(s, u)
  PROVE  AtRest'
<1>1. /\ ui' = [u EXCEPT !.waits = u.waits \ {s}, !.tags = u.tags \cup {net[s].shown}]
      /\ net' = Drop(s) /\ doc' = doc /\ user' = user /\ site' = site /\ UNCHANGED spent
      /\ stored' = stored
  BY DEF Takes, Keeping
<1>2. /\ s \in Slots /\ TabFields \subseteq DOMAIN u /\ u.mounted
      /\ u.waits = ui.waits /\ u.crossed = ui.crossed
  BY DEF Tab, Waits, Taken, SamePage, Whole
<1>3. /\ ui'.waits = ui.waits \ {s} /\ ui'.mounted /\ ui'.crossed = ui.crossed
      /\ ui'.rows = u.rows /\ ui'.view = u.view /\ ui'.open = u.open /\ ui'.edit = u.edit
  BY <1>1, <1>2 DEF TabFields
<1>4. /\ \A t \in Slots : t # s => net'[t] = net[t]
      /\ net'[s] = Idle
  BY <1>1, <1>2, DropSlots DEF Tab
<1>5. Kinds' /\ Never' /\ Tokens'
  BY <1>1, <1>4, IdleIsRequest DEF AtRest, Kinds, Never, Tokens, Editors, Writes
<1>6. ASSUME Clean' PROVE Clean
  BY <1>1, <1>3, <1>6 DEF Clean, Tab, Whole
<1>7. ASSUME Clean', Editors PROVE Rest'
  <2>1. ui'.waits = {} /\ \A t \in Slots : net[t].kind \in Writes => t = s
    BY <1>3, <1>6, <1>7 DEF AtRest, Rest
  <2>2. \A t \in Slots : net'[t].kind \notin Writes
    BY <1>4, <2>1, IdleIsRequest DEF Writes
  <2>3. Settled(u)
    BY <1>6, <1>7 DEF Taken
  <2>4. Settled(ui)'
    BY <1>1, <1>3, <2>3 DEF Settled, Current, Routed
  <2>5. QED
    BY <1>1, <1>7, <2>1, <2>2, <2>4 DEF Rest, Editors
<1>8. ASSUME ~Editors PROVE Rest'
  <2>1. /\ Current(u.rows)
        /\ \A t \in Slots : net[t].kind = "load" /\ net[t].code = "ok" => Current(net[t].val)
    BY <1>8 DEF AtRest, Rest, Taken
  <2>2. \A t \in Slots : net'[t].kind = "load" /\ net'[t].code = "ok" => Current(net'[t].val)
    BY <1>4, <2>1, IdleIsRequest
  <2>3. (\A t \in Slots : net[t].kind = "load" /\ net[t].code = "ok" => Current(net[t].val))'
    BY <1>1, <2>2 DEF Current
  <2>4. Current(ui.rows)'
    BY <1>1, <1>3, <2>1 DEF Current
  <2>5. QED
    BY <1>1, <1>8, <2>3, <2>4 DEF Rest, Editors
<1>9. QED
  BY <1>1, <1>5, <1>7, <1>8 DEF AtRest, Rest, Editors

LEMMA TakenLoadingRest ==
  ASSUME Tab, AtRest, ui.mounted, NEW s \in ui.waits, NEW u, TakesAndLoads(s, u),
         TakenLoading(s, u)
  PROVE  AtRest'
<1> DEFINE q == [Load EXCEPT !.sel = u.sel, !.from = net[s].kind]
           v == [u EXCEPT !.waits = u.waits \ {s}, !.tags = u.tags \cup {net[s].shown},
                          !.loading = TRUE]
           n == Drop(s)
           slot == NextSlot(n)
<1>1. /\ ui' = Waiting(v, n, q) /\ net' = Put(n, q) /\ UNCHANGED spent
      /\ doc' = doc /\ user' = user /\ site' = site /\ stored' = stored
  BY DEF TakesAndLoads, Keeping
<1>2. s \in Slots /\ Editors
  BY DEF Tab, Waits, TakenLoading
<1>3. /\ v.waits = u.waits \ {s} /\ v.mounted /\ v.crossed = ui.crossed
      /\ TabFields \subseteq DOMAIN v
  <2>1. Whole([u EXCEPT !.loading = TRUE]) /\ u.mounted /\ u.crossed = ui.crossed
    BY DEF TakenLoading
  <2>2. QED
    BY <2>1 DEF Whole, TabFields
<1>4. /\ \A t \in Slots : t # s => n[t] = net[t]
      /\ n[s] = Idle /\ OfRequests(n) /\ s \in Free(n)
  BY <1>2, DropSlots DEF Tab
<1>5. Sent(q) /\ q.kind = "load" /\ q.sel = u.sel
  BY Reloads
<1> HIDE DEF v, n, q
<1>6. /\ slot \in Slots /\ n[slot].kind = "idle" /\ net'[slot] = q
      /\ \A t \in Slots : t # slot => net'[t] = n[t]
  BY <1>1, <1>4, <1>5, SentIsPut
<1> HIDE DEF slot
<1>7. /\ ui'.waits = (u.waits \ {s}) \cup {slot} /\ ui'.mounted
      /\ ui'.crossed = (ui.crossed \/ Crosses(v, n, q))
  BY <1>1, <1>3, WaitingFields DEF slot
<1>8. Kinds' /\ Never' /\ Tokens'
  BY <1>1, <1>4, <1>5, <1>6, IdleIsRequest
     DEF AtRest, Kinds, Never, Tokens, Editors, Sent, PageKinds, Writes
<1>9. ASSUME Clean' PROVE Rest'
  <2>1. Clean
    BY <1>1, <1>7, <1>9 DEF Clean, Tab, Whole
  <2>2. /\ u.waits \ {s} = {}
        /\ \A t \in Slots : net[t].kind \in Writes => t = s
    BY <1>2, <2>1 DEF AtRest, Rest, TakenLoading
  <2>3. ASSUME NEW t \in ui'.waits PROVE t = slot /\ UnderWay(net[t])'
    <3>1. q.token.org = Home
      BY <1>2, <1>5, <2>1 DEF Sent, AtRest, Tokens, Clean, Editors
    <3>2. t = slot /\ net'[t] = q
      BY <1>6, <1>7, <2>2, <2>3
    <3>3. q.code = "sent" /\ q.kind = "load" /\ "load" \notin Writes /\ "sent" # "ok"
      BY <1>5 DEF Sent, Writes
    <3>4. QED
      BY <3>1, <3>2, <3>3 DEF UnderWay
  <2>4. \A t \in Slots : net'[t].kind \in Writes => t = slot
    BY <1>4, <1>6, <2>2, IdleIsRequest DEF Writes
  <2>5. QED
    BY <1>1, <1>2, <1>6, <1>7, <2>2, <2>3, <2>4 DEF Rest, Editors
<1>10. QED
  BY <1>1, <1>2, <1>8, <1>9 DEF AtRest, Rest, Editors


-----------------------------------------------------------------------------
(* A page that is mounted.                                                 *)
LEMMA MountedWhole ==
  ASSUME Whole(ui)
  PROVE  LET v == [ui EXCEPT !.mounted = TRUE, !.loading = TRUE] IN
         /\ Whole(v) /\ v.waits = ui.waits /\ v.sel = ui.sel /\ v.mounted
         /\ v.tags = ui.tags /\ v.crossed = ui.crossed /\ v.rows = ui.rows /\ v.view = ui.view
         /\ TabFields \subseteq DOMAIN v
  BY DEF Whole, TabFields, InDrawer

LEMMA EmptyIsSettled ==
  ASSUME NEW u, u.rows = Empty, u.view = "list"
  PROVE  Settled(u) /\ Current(u.rows) /\ Current(Empty)
  BY DEF Settled, Current, Routed, Empty

LEMMA FirstLoad ==
  ASSUME Tab
  PROVE  Sent(Load) /\ Load.kind = "load" /\ Load.sel = ui.sel
<1>1. /\ IsRequest(Request("load", stored)) /\ Request("load", stored).kind = "load"
      /\ Request("load", stored).token = stored /\ Request("load", stored).shown = user
      /\ Request("load", stored).code = "sent"
  BY NewRequest DEF Tab, Stores, PageKinds, Moves, Writes
<1>2. QED
  BY <1>1 DEF Load, Sent, IsRequest, RequestFields, PageKinds, Writes, Moves

(* The mounting of a page that has rows, and of the one that has none.     *)
LEMMA MountedLoading ==
  ASSUME Tab, AtRest, OutletKey # NoOrg, ~ui.mounted, Sends(Load),
         Keeping(Waiting([ui EXCEPT !.mounted = TRUE, !.loading = TRUE], net, Load)),
         UNCHANGED spent
  PROVE  Tab' /\ AtRest'
<1> DEFINE v == [ui EXCEPT !.mounted = TRUE, !.loading = TRUE]
           slot == NextSlot(net)
           q == Load
<1>1. /\ ui' = Waiting(v, net, q) /\ Free(net) # {} /\ net' = Put(net, q)
      /\ excused' = (excused \/ Races(net'))
      /\ doc' = doc /\ user' = user /\ site' = site /\ stored' = stored
  BY DEF Sends, Keeping
<1>2. /\ Whole(v) /\ v.waits = {} /\ v.sel = ui.sel /\ v.mounted /\ v.tags = {}
      /\ v.crossed = FALSE /\ v.rows = Empty /\ v.view = "list"
      /\ TabFields \subseteq DOMAIN v
  BY MountedWhole DEF Tab, Mounted
<1>3. Sent(q) /\ q.kind = "load" /\ q.sel = ui.sel
  BY FirstLoad
<1>4. /\ slot \in Slots /\ net[slot].kind = "idle" /\ net'[slot] = q
      /\ \A s \in Slots : s # slot => net'[s] = net[s]
      /\ Requests'
  BY <1>1, <1>3, SentIsPut DEF Tab, Requests
<1> HIDE DEF v, slot, q
<1>5. /\ ui'.waits = {slot} /\ ui'.mounted /\ ui'.rows = Empty /\ ui'.tags = {}
      /\ ui'.crossed = (v.crossed \/ Crosses(v, net, q)) /\ ui'.view = "list" /\ ui'.sel = ui.sel
  BY <1>1, <1>2, WaitingFields DEF slot
<1>6. Stores'
  <2>1. \E w : Keeping(w)
    OBVIOUS
  <2>2. QED
    BY <1>1, <2>1, KeepingStores DEF Tab, Stores
<1>7. Whole(ui')
  BY <1>1, <1>2, WaitingWhole
<1>8. Whole(ui)'
  BY <1>1, <1>7 DEF Whole, InDrawer
<1>9. Waits'
  <2>1. \A t \in ui'.waits : Awaited(net[t], ui.sel)'
    BY <1>1, <1>3, <1>4, <1>5 DEF Awaited, Filtered, Sent
  <2>2. QED
    BY <1>4, <1>5, <2>1 DEF Waits, Alone
<1>10. Mounted'
  <2>1. OutletKey' = OutletKey
    BY SameKey
  <2>2. QED
    BY <1>1, <1>5, <2>1 DEF Mounted
<1>11. Pending' \subseteq Pending
  BY <1>3, <1>4 DEF Pending, Writes
<1>12. Revised'
  BY <1>1, <1>11, RevisedKept
<1>13. Kinds' /\ Never' /\ Tokens'
  BY <1>1, <1>3, <1>4 DEF AtRest, Kinds, Never, Tokens, Editors, Sent, PageKinds, Writes
<1>14. ASSUME Clean', Editors PROVE Rest'
  <2>1. \A t \in Slots : net[t].kind \notin Writes
    BY <1>2, <1>5, <1>14 DEF Clean, Crosses, PageBusy, PageKinds
  <2>2. \A t \in Slots : net'[t].kind \notin Writes
    BY <1>3, <1>4, <2>1 DEF Writes
  <2>3. q.token.org = Home
    BY <1>1, <1>3, <1>14 DEF Sent, AtRest, Tokens, Clean, Editors
  <2>4. ASSUME NEW t \in ui'.waits PROVE t = slot /\ UnderWay(net[t])'
    <3>1. t = slot /\ net'[t] = q
      BY <1>4, <1>5, <2>4
    <3>2. q.code = "sent" /\ q.kind = "load" /\ "load" \notin Writes /\ "sent" # "ok"
      BY <1>3 DEF Sent, Writes
    <3>3. QED
      BY <2>3, <3>1, <3>2 DEF UnderWay
  <2>5. QED
    BY <1>1, <1>5, <1>14, <2>2, <2>4 DEF Rest, Editors
<1>15. ASSUME ~Editors PROVE Rest'
  <2>1. \A t \in Slots : net[t].kind = "load" /\ net[t].code = "ok" => Current(net[t].val)
    BY <1>15 DEF AtRest, Rest
  <2>2. \A t \in Slots : net'[t].kind = "load" /\ net'[t].code = "ok" => Current(net'[t].val)
    BY <1>3, <1>4, <2>1 DEF Sent
  <2>3. \A t \in Slots : (net[t].kind = "load" /\ net[t].code = "ok" => Current(net[t].val))'
    BY <1>1, <2>2 DEF Current
  <2>4. Current(ui.rows)'
    BY <1>1, <1>5 DEF Current, Empty
  <2>5. QED
    BY <1>1, <1>15, <2>3, <2>4 DEF Rest, Editors
<1>16. QED
  BY <1>1, <1>4, <1>6, <1>8, <1>9, <1>10, <1>12, <1>13, <1>14, <1>15
     DEF Tab, AtRest, Rest, Editors

LEMMA MountedAlone ==
  ASSUME Tab, AtRest, OutletKey # NoOrg, ~ui.mounted, site = "catalog",
         Keeping([ui EXCEPT !.mounted = TRUE]), UNCHANGED <<net, excused, spent>>
  PROVE  Tab' /\ AtRest'
<1>1. /\ ui' = [ui EXCEPT !.mounted = TRUE] /\ net' = net /\ spent' = spent
      /\ doc' = doc /\ user' = user /\ site' = site /\ stored' = stored
      /\ TabFields \subseteq DOMAIN ui
  BY DEF Keeping, Tab, Whole
<1>2. /\ ui'.waits = {} /\ ui'.tags = {} /\ ui'.mounted /\ ui'.rows = Empty
      /\ ui'.view = "list"
  BY <1>1 DEF TabFields, Tab, Mounted
<1>3. Stores'
  BY KeepingStores DEF Tab, Stores
<1>4. Whole(ui')
  BY <1>1 DEF Tab, Whole, TabFields, InDrawer
<1>5. Whole(ui)'
  BY <1>1, <1>4 DEF Whole, InDrawer
<1>6. Waits' /\ Requests'
  BY <1>1, <1>2 DEF Tab, Requests, OfRequests, Waits, Alone
<1>7. Mounted'
  <2>1. OutletKey' = OutletKey
    BY SameKey
  <2>2. QED
    BY <1>1, <1>2, <2>1 DEF Mounted
<1>8. Revised'
  BY <1>1, RevisedKept DEF Pending
<1>9. Kinds' /\ Never' /\ Tokens'
  BY <1>1 DEF AtRest, Kinds, Never, Tokens, Editors
<1>10. Current(ui.rows)'
  BY <1>1, <1>2 DEF Current, Empty
<1>11. Rest'
  BY <1>1, <1>10 DEF AtRest, Rest, Editors, Current
<1>12. QED
  BY <1>3, <1>5, <1>6, <1>7, <1>8, <1>9, <1>11 DEF Tab, AtRest

LEMMA MountsKeep ==
  ASSUME Tab, AtRest, Mounts(site # "catalog")
  PROVE  Tab' /\ AtRest'
<1>1. CASE site # "catalog"
  BY <1>1, MountedLoading DEF Mounts
<1>2. CASE site = "catalog"
  BY <1>2, MountedAlone DEF Mounts
<1>3. QED
  BY <1>1, <1>2

-----------------------------------------------------------------------------
(* The steps of a page, by kind.                                           *)
LEMMA ShowsKeeps ==
  ASSUME Tab, AtRest, ui.mounted, NEW u, Shows(u), Shown(u)
  PROVE  Tab' /\ AtRest'
  BY ShowsTab, ShowsRest

LEMMA AskedKeeps ==
  ASSUME Tab, AtRest, ui.mounted, NEW q, NEW u, Asking(q, u), Asked(q, u)
  PROVE  Tab' /\ AtRest'
  BY AskedTab, AskedRest

LEMMA TakenKeeps ==
  ASSUME Tab, AtRest, ui.mounted, NEW s \in ui.waits, NEW u, Takes(s, u), Taken(s, u)
  PROVE  Tab' /\ AtRest'
  BY TakenTab, TakenRest

LEMMA ReloadKeeps ==
  ASSUME Tab, AtRest, ui.mounted, NEW s \in ui.waits, NEW u, TakesAndLoads(s, u),
         TakenLoading(s, u)
  PROVE  Tab' /\ AtRest'
  BY TakenLoadingTab, TakenLoadingRest

LEMMA DroppedKeeps ==
  ASSUME Tab, AtRest, NEW s \in Slots, s \notin ui.waits, net' = Drop(s), Keeping(ui),
         UNCHANGED <<spent, excused>>
  PROVE  Tab' /\ AtRest'
<1>1. /\ ui' = ui /\ doc' = doc /\ user' = user /\ site' = site /\ UNCHANGED spent
      /\ stored' = stored /\ UNCHANGED excused
  BY DEF Keeping
<1>2. /\ \A t \in Slots : t # s => net'[t] = net[t]
      /\ net'[s] = Idle /\ OfRequests(net')
  BY DropSlots DEF Tab
<1>3. Stores'
  BY KeepingStores DEF Tab, Stores
<1>4. Whole(ui)'
  BY <1>1 DEF Tab, Whole, InDrawer
<1>5. \A t \in ui.waits : t \in Slots /\ net'[t] = net[t]
  BY <1>2 DEF Tab, Waits
<1>6. Waits'
  BY <1>1, <1>5 DEF Tab, Waits, Awaited, Filtered, Alone
<1>7. Mounted'
  BY <1>1, SameKey DEF Tab, Mounted
<1>8. Revised'
  <2>1. Pending' \subseteq Pending
    BY <1>2, IdleIsRequest DEF Pending, Writes
  <2>2. QED
    BY <1>1, <2>1, RevisedKept
<1>9. Kinds' /\ Never' /\ Tokens'
  BY <1>1, <1>2, IdleIsRequest DEF AtRest, Kinds, Never, Tokens, Editors, Writes
<1>10. ASSUME Clean', Editors PROVE Rest'
  <2>1. /\ \A t \in Slots : net[t].kind \in Writes => t \in ui.waits
        /\ \A t, x \in ui.waits : t = x
        /\ \A t \in ui.waits : UnderWay(net[t])
        /\ ui.waits = {} => Settled(ui)
    BY <1>1, <1>10 DEF AtRest, Rest, Clean
  <2>2. \A t \in Slots : net'[t].kind \in Writes => t \in ui.waits
    BY <1>2, <2>1, IdleIsRequest DEF Writes
  <2>3. ASSUME NEW t \in ui.waits PROVE UnderWay(net[t])'
    BY <1>1, <1>5, <2>1, <2>3 DEF UnderWay, Settled, Current, Routed, CurrentBut
  <2>4. Settled(ui) => Settled(ui)'
    BY <1>1 DEF Settled, Current, Routed
  <2>5. QED
    BY <1>1, <1>10, <2>1, <2>2, <2>3, <2>4 DEF Rest, Editors
<1>11. ASSUME ~Editors PROVE Rest'
  <2>1. \A t \in Slots : net'[t].kind = "load" /\ net'[t].code = "ok" => Current(net'[t].val)
    BY <1>2, <1>11, IdleIsRequest DEF AtRest, Rest
  <2>2. \A t \in Slots : (net[t].kind = "load" /\ net[t].code = "ok" => Current(net[t].val))'
    BY <1>1, <2>1 DEF Current
  <2>3. Current(ui.rows)'
    BY <1>1, <1>11 DEF AtRest, Rest, Current
  <2>4. QED
    BY <1>1, <1>11, <2>2, <2>3 DEF Rest, Editors
<1>12. QED
  BY <1>1, <1>2, <1>3, <1>4, <1>6, <1>7, <1>8, <1>9, <1>10, <1>11
     DEF Tab, Requests, AtRest, Rest, Editors

(* What a handler writes.                                                  *)
LEMMA Writing ==
  ASSUME Tab, Editors, NEW kind \in Writes, NEW item \in Items \cup {NoItem},
         kind # "create" => item \in Items
  PROVE  Sent(Write(kind, item)) /\ Write(kind, item).kind = kind
<1>1. /\ IsRequest(Idle) /\ IsToken(stored)
      /\ RequestFields \subseteq DOMAIN Idle /\ Idle.code = "sent"
  BY IdleIsRequest DEF Tab, Stores, IsRequest
<1>2. kind \notin Moves /\ kind \in PageKinds \ {"stream"} /\ kind # "createOrg"
  BY DEF Writes, Moves, PageKinds
<1>3. /\ Write(kind, item).kind = kind /\ Write(kind, item).item = item
      /\ Write(kind, item).token = stored /\ Write(kind, item).shown = user
      /\ Write(kind, item).code = "sent"
      /\ Write(kind, item).grant = Idle.grant /\ Write(kind, item).val = Idle.val
      /\ Write(kind, item).hidden = Idle.hidden
      /\ RequestFields \subseteq DOMAIN Write(kind, item)
  BY <1>1 DEF Write, Request, RequestFields
<1>4. IsRequest(Write(kind, item))
  BY <1>1, <1>2, <1>3 DEF IsRequest
<1>5. QED
  BY <1>2, <1>3, <1>4 DEF Sent

LEMMA HiddenSent ==
  ASSUME NEW q, Sent(q), NEW hidden \in {"omit", "typed", "loose", "stored"}
  PROVE  Sent([q EXCEPT !.hidden = hidden]) /\ [q EXCEPT !.hidden = hidden].kind = q.kind
  BY DEF Sent, IsRequest, RequestFields

LEMMA FilterSent ==
  ASSUME NEW q, Sent(q), NEW sel
  PROVE  /\ Sent([q EXCEPT !.sel = sel]) /\ [q EXCEPT !.sel = sel].kind = q.kind
         /\ [q EXCEPT !.sel = sel].sel = sel
  BY DEF Sent, IsRequest, RequestFields

LEMMA OriginSent ==
  ASSUME NEW q, Sent(q), NEW from
  PROVE  Sent([q EXCEPT !.from = from]) /\ [q EXCEPT !.from = from].kind = q.kind
  BY DEF Sent, IsRequest, RequestFields

-----------------------------------------------------------------------------
(* The rows after an answer.                                               *)
LEMMA HiddenRow == ASSUME NEW d \in Live PROVE [d EXCEPT !.here = FALSE] \in Live
  BY DEF Live

LEMMA RowsOfAnswer ==
  ASSUME Tab, NEW s \in ui.waits
  PROVE  /\ net[s].val \in Table /\ Replaced(ui.rows, s) \in Table
         /\ net[s].item \in Items =>
                /\ Added(ui.rows, s) \in Table /\ Without(ui.rows, net[s].item) \in Table
                /\ net[s].val[net[s].item] \in Live
         /\ net[s].kind \in Writes /\ net[s].code = "ok" => net[s].item \in Items
<1>1. IsRequest(net[s])
  BY DEF Tab, Waits, Requests, OfRequests
<1>2. net[s].val \in Table /\ ui.rows \in Table
  BY <1>1 DEF IsRequest, Tab, Whole
<1>3. Replaced(ui.rows, s) \in Table
  BY <1>2 DEF Replaced, Table
<1>4. ASSUME NEW i \in Items PROVE Without(ui.rows, i) \in Table
  <2>1. ui.rows[i] \in Live
    BY <1>2 DEF Table
  <2>2. [ui.rows[i] EXCEPT !.here = FALSE] \in Live
    BY <2>1, HiddenRow
  <2>3. QED
    BY <1>2, <2>2 DEF Without, Table
<1>5. QED
  BY <1>1, <1>2, <1>3, <1>4 DEF Added, Table, IsRequest

LEMMA CurrentRows ==
  ASSUME Tab, AtRest, Clean, Editors, NEW s \in ui.waits, net[s].code \in {"ok", "failed"}
  PROVE  /\ net[s].kind = "load" => net[s].code = "ok" /\ net[s].val = doc
         /\ net[s].kind \in Writes /\ ~Ok(s) => Settled(ui)
         /\ net[s].kind \in Writes /\ Ok(s) =>
              /\ CurrentBut(ui, net[s].item)
              /\ Current(Without(ui.rows, net[s].item))
              /\ net[s].kind # "remove" =>
                   /\ net[s].val[net[s].item] = doc[net[s].item]
                   /\ Current(Replaced(ui.rows, s)) /\ Current(Added(ui.rows, s))
              /\ net[s].kind = "remove" => ~doc[net[s].item].here
<1>1. UnderWay(net[s])
  BY DEF AtRest, Rest
<1>2. net[s].kind \in Writes /\ Ok(s) => net[s].item \in Items
  BY RowsOfAnswer DEF Ok
<1>3. ui.rows \in Table
  BY DEF Tab, Whole
<1>4. ASSUME net[s].kind \in Writes, Ok(s) PROVE Current(Without(ui.rows, net[s].item))
  <2>1. \A j \in Items \ {net[s].item} : ui.rows[j].here => ui.rows[j] = doc[j]
    BY <1>1, <1>4 DEF UnderWay, CurrentBut, Ok
  <2>2. /\ \A j \in Items \ {net[s].item} : Without(ui.rows, net[s].item)[j] = ui.rows[j]
        /\ ~Without(ui.rows, net[s].item)[net[s].item].here
    BY <1>2, <1>3, <1>4 DEF Without, Table, Live
  <2>3. QED
    BY <2>1, <2>2 DEF Current
<1>5. ASSUME net[s].kind \in Writes, Ok(s), net[s].kind # "remove"
      PROVE  Current(Replaced(ui.rows, s)) /\ Current(Added(ui.rows, s))
  <2>1. /\ \A j \in Items \ {net[s].item} : ui.rows[j].here => ui.rows[j] = doc[j]
        /\ net[s].val[net[s].item] = doc[net[s].item]
    BY <1>1, <1>5 DEF UnderWay, CurrentBut, Ok
  <2>2. Current(Replaced(ui.rows, s))
    BY <2>1 DEF Current, Replaced
  <2>3. Current(Added(ui.rows, s))
    BY <1>2, <1>3, <1>5, <2>1 DEF Current, Added, Table
  <2>4. QED
    BY <2>2, <2>3
<1>6. "load" \notin Writes
  BY DEF Writes
<1>7. QED
  BY <1>1, <1>4, <1>5, <1>6 DEF UnderWay, Ok

-----------------------------------------------------------------------------
(* The models.                                                             *)
LEMMA ModelsPageKeeps ==
  ASSUME Tab, AtRest, ModelsPage
  PROVE  Tab' /\ AtRest'
<1>1. CASE AddModel
  <2>1. Shown(Blank(ui))
    BY <1>1 DEF AddModel, At, Blank, Shown, SamePage, SameFilter, Edits, Whole, TabFields,
                InDrawer, Filtered, Tab
  <2>2. QED
    BY <1>1, <2>1, ShowsKeeps DEF AddModel, At
<1>2. CASE EditModel
  <2> DEFINE u(i) == [FormOf(ui, i, ui.rows[i]) EXCEPT !.view = "edit", !.open = i,
                                                       !.edit = ui.rows[i]]
  <2>1. PICK i \in Items : ui.rows[i].here /\ Shows(u(i))
    BY <1>2 DEF EditModel
  <2>2. ui.rows[i] \in Live /\ ui.rows[i].hidden \in {"stored", "loose", "typed"}
    BY DEF Tab, Whole, Table, Live
  <2>3. Shown(u(i))
    BY <1>2, <2>1, <2>2 DEF EditModel, At, FormOf, Shown, SamePage, SameFilter, Edits, Whole,
                            TabFields, InDrawer, Filtered, Tab
  <2> HIDE DEF u
  <2>4. QED
    BY <1>2, <2>1, <2>3, ShowsKeeps DEF EditModel, At
<1>3. CASE BackToModels
  <2>1. Shown([Closed(ui) EXCEPT !.locked = {}])
    BY <1>3 DEF BackToModels, At, Closed, Shown, SamePage, SameFilter, Edits, Whole, TabFields,
                InDrawer, Filtered, Tab
  <2>2. QED
    BY <1>3, <2>1, ShowsKeeps DEF BackToModels, At
<1>4. CASE TouchMetadata
  <2>1. Shown([ui EXCEPT !.hidden = "typed"])
    BY <1>4 DEF TouchMetadata, At, Shown, SamePage, SameFilter, Edits, Whole, TabFields,
                InDrawer, Filtered, Tab
  <2>2. QED
    BY <1>4, <2>1, ShowsKeeps DEF TouchMetadata, At
<1>5. CASE SubmitModel
  <2> DEFINE q == [Write(NewOrSave(ui), ui.open) EXCEPT !.hidden = MetadataSent(ui)]
             u == [ui EXCEPT !.saving = TRUE]
  <2>1. Sent(q) /\ q.kind \in Writes
    <3>1. /\ NewOrSave(ui) \in Writes /\ ui.open \in Items \cup {NoItem} /\ Editors
          /\ NewOrSave(ui) # "create" => ui.open \in Items
          /\ MetadataSent(ui) \in {"omit", "typed", "loose", "stored"}
      BY <1>5 DEF SubmitModel, At, NewOrSave, Writes, Tab, Whole, MetadataSent, Editors
    <3>2. Sent(Write(NewOrSave(ui), ui.open)) /\ Write(NewOrSave(ui), ui.open).kind \in Writes
      BY <3>1, Writing
    <3>3. QED
      BY <3>1, <3>2, HiddenSent
  <2>2. u.waits = ui.waits /\ SamePage(u) /\ u.rows = ui.rows /\ Edits(u)
    BY <1>5 DEF SubmitModel, At, SamePage, Edits, Whole, TabFields, InDrawer, Tab
  <2>3. Asking(q, u)
    BY <1>5 DEF SubmitModel
  <2> HIDE DEF q, u
  <2>4. Asked(q, u)
    BY <1>5, <2>1, <2>2 DEF SubmitModel, At, Asked, SameFilter, Filtered, Writes
  <2>5. QED
    BY <1>5, <2>3, <2>4, AskedKeeps DEF SubmitModel, At
<1>6. CASE DeleteModel
  <2>1. PICK i \in Items : Asking([Write("remove", i) EXCEPT !.from = ui.open], ui)
    BY <1>6 DEF DeleteModel
  <2> DEFINE q == [Write("remove", i) EXCEPT !.from = ui.open]
  <2>2. Sent(q) /\ q.kind = "remove"
    <3>1. Sent(Write("remove", i)) /\ Write("remove", i).kind = "remove"
      BY <1>6, Writing DEF DeleteModel, At, Writes, Editors
    <3>2. QED
      BY <3>1, OriginSent
  <2> HIDE DEF q
  <2>3. Asked(q, ui)
    BY <1>6, <2>2 DEF DeleteModel, At, Asked, SamePage, SameFilter, Edits, Filtered, Tab
  <2>4. QED
    BY <1>6, <2>1, <2>3, AskedKeeps DEF DeleteModel, At, q
<1>7. CASE ReorderEntries \/ ChangeEntry \/ AddEntry \/ EditEntry
  <2> DEFINE q == Write("patch", ui.open)
  <2>1. PICK u \in {ui, [ui EXCEPT !.locked = @ \cup {NextSlot(net)}]} : Asking(q, u)
    BY <1>7 DEF ReorderEntries, ChangeEntry, AddEntry, EditEntry
  <2>2. At("models") /\ ui.open \in Items
    BY <1>7 DEF ReorderEntries, ChangeEntry, AddEntry, EditEntry, Routing, Tab, Whole
  <2>3. Sent(q) /\ q.kind = "patch"
    BY <2>2, Writing DEF At, Writes, Editors
  <2>4. u.waits = ui.waits /\ SamePage(u) /\ u.rows = ui.rows /\ Edits(u)
    BY <2>1, <2>2 DEF At, SamePage, Edits, Whole, TabFields, InDrawer, Tab
  <2> HIDE DEF q
  <2>5. Asked(q, u)
    BY <2>2, <2>3, <2>4 DEF At, Asked, SameFilter, Filtered
  <2>6. QED
    BY <2>1, <2>2, <2>5, AskedKeeps DEF At
<1>8. QED
  BY <1>1, <1>2, <1>3, <1>4, <1>5, <1>6, <1>7 DEF ModelsPage

LEMMA ModelsLoadedKeeps ==
  ASSUME Tab, AtRest, NEW s \in Slots, ModelsLoaded(s)
  PROVE  Tab' /\ AtRest'
<1> DEFINE w == Loaded(s, ui)
           u == EditingToo(w, s)
<1>1. At("models") /\ s \in ui.waits /\ net[s].kind = "load" /\ net[s].code \in {"ok", "failed"}
      /\ Takes(s, u)
  BY DEF ModelsLoaded, Answered
<1>2. net[s].val \in Table
  BY <1>1, RowsOfAnswer
<1>3. /\ SamePage(w) /\ w.waits = ui.waits /\ w.view = ui.view /\ w.open = ui.open
      /\ w.edit = ui.edit /\ w.rows = IF Ok(s) THEN net[s].val ELSE ui.rows
  BY <1>1, <1>2 DEF At, Loaded, SamePage, Whole, TabFields, InDrawer, Tab
<1> HIDE DEF w
<1>4. ASSUME Ok(s), w.open # NoItem, net[s].val[w.open].here
      PROVE  /\ SamePage(u) /\ u.waits = ui.waits /\ u.view = ui.view /\ u.open = ui.open
             /\ u.edit = net[s].val[ui.open] /\ u.rows = net[s].val
  <2>1. net[s].val[w.open] \in Live /\ u = [w EXCEPT !.edit = net[s].val[w.open]]
    BY <1>2, <1>3, <1>4 DEF SamePage, Whole, Table, EditingToo
  <2> DEFINE edit == net[s].val[w.open]
  <2>2. edit \in Live /\ edit = net[s].val[ui.open]
    BY <1>3, <2>1
  <2>3. site = "models"
    BY <1>1 DEF At
  <2> HIDE DEF u, edit
  <2>4. ASSUME NEW x, x = [w EXCEPT !.edit = edit]
        PROVE  /\ SamePage(x) /\ x.waits = w.waits /\ x.view = w.view /\ x.open = w.open
               /\ x.edit = edit /\ x.rows = w.rows
    <3>1. SamePage(w)
      BY <1>3
    <3>2. QED
      BY <2>2, <2>4, <3>1 DEF SamePage, Whole, TabFields, InDrawer
  <2>5. u = [w EXCEPT !.edit = edit]
    BY <2>1 DEF edit
  <2>6. QED
    BY <1>3, <1>4, <2>2, <2>4, <2>5
<1>5. ASSUME ~(Ok(s) /\ w.open # NoItem /\ net[s].val[w.open].here) PROVE u = w
  BY <1>5 DEF EditingToo
<1> HIDE DEF u
<1>6. SamePage(u) /\ u.waits = ui.waits
  BY <1>3, <1>4, <1>5
<1>7. ASSUME Clean PROVE Settled(u)
  <2>1. Ok(s) /\ net[s].val = doc
    BY <1>1, <1>7, CurrentRows DEF At, Editors, Ok
  <2>2. Current(u.rows)
    BY <1>3, <1>4, <1>5, <2>1 DEF Current
  <2>3. Routed(u)
    BY <1>3, <1>4, <1>5, <2>1 DEF Routed
  <2>4. QED
    BY <2>2, <2>3 DEF Settled
<1>8. Taken(s, u)
  BY <1>1, <1>6, <1>7 DEF At, Taken, SameFilter, Filtered, Editors
<1>9. QED
  BY <1>1, <1>8, TakenKeeps DEF At

LEMMA ModelSavedKeeps ==
  ASSUME Tab, AtRest, NEW s \in Slots, ModelSaved(s)
  PROVE  Tab' /\ AtRest'
<1> DEFINE w == [ui EXCEPT !.saving = FALSE]
           v == Saved(w, s)
<1>1. At("models") /\ s \in ui.waits /\ net[s].kind \in {"create", "save"}
      /\ net[s].code \in {"ok", "failed"} /\ net[s].kind \in Writes
  BY DEF ModelSaved, Answered, Writes
<1>2. /\ SamePage(w) /\ w.waits = ui.waits /\ w.rows = ui.rows /\ Edits(w)
  BY <1>1 DEF At, SamePage, Whole, TabFields, InDrawer, Tab, Edits
<1>3. CASE ~Ok(s)
  <2>1. Takes(s, w)
    BY <1>3 DEF ModelSaved
  <2> HIDE DEF w
  <2>2. ASSUME Clean PROVE Settled(w)
    <3>1. Settled(ui) /\ w.open \in Items \cup {NoItem}
      BY <1>1, <1>2, <1>3, <2>2, CurrentRows DEF At, Editors, SamePage, Whole
    <3>2. QED
      BY <1>2, <3>1, SettledKept DEF Tab
  <2>3. Taken(s, w)
    BY <1>1, <1>2, <2>2 DEF At, Taken, SameFilter, Filtered, Editors
  <2>4. QED
    BY <1>1, <2>1, <2>3, TakenKeeps DEF At
<1>4. CASE Ok(s)
  <2>1. /\ net[s].item \in Items /\ net[s].val[net[s].item] \in Live
        /\ Added(ui.rows, s) \in Table /\ Replaced(ui.rows, s) \in Table
        /\ net[s].val[net[s].item].hidden \in {"stored", "loose", "typed"}
    BY <1>1, <1>4, RowsOfAnswer DEF Ok, Live
  <2>2. PICK u : /\ Takes(s, u)
                 /\ u \in {[v EXCEPT !.rows = Added(@, s), !.view = "edit"],
                           [v EXCEPT !.rows = Replaced(@, s)]}
    BY <1>4 DEF ModelSaved
  <2>3. /\ SamePage(u) /\ u.waits = ui.waits /\ u.edit = net[s].val[net[s].item]
        /\ u.open = net[s].item /\ u.rows \in {Added(ui.rows, s), Replaced(ui.rows, s)}
    <3>1. /\ SamePage(v) /\ v.waits = ui.waits /\ v.edit = net[s].val[net[s].item]
          /\ v.open = net[s].item /\ v.of = net[s].item /\ v.rows = ui.rows
      BY <1>1, <1>2, <2>1 DEF At, Saved, FormOf, SamePage, Whole, TabFields, InDrawer
    <3> HIDE DEF v
    <3>2. CASE u = [v EXCEPT !.rows = Added(@, s), !.view = "edit"]
      BY <1>1, <2>1, <3>1, <3>2 DEF At, SamePage, Whole, TabFields, InDrawer
    <3>3. CASE u = [v EXCEPT !.rows = Replaced(@, s)]
      BY <1>1, <2>1, <3>1, <3>3 DEF At, SamePage, Whole, TabFields, InDrawer
    <3>4. QED
      BY <2>2, <3>2, <3>3
  <2>4. ASSUME Clean PROVE Settled(u)
    <3>1. /\ net[s].val[net[s].item] = doc[net[s].item]
          /\ Current(Replaced(ui.rows, s)) /\ Current(Added(ui.rows, s))
      BY <1>1, <1>4, <2>4, CurrentRows DEF At, Editors
    <3>2. QED
      BY <2>3, <3>1 DEF Settled, Routed
  <2>5. Taken(s, u)
    BY <1>1, <2>3, <2>4 DEF At, Taken, SameFilter, Filtered, Editors
  <2>6. QED
    BY <1>1, <2>2, <2>5, TakenKeeps DEF At
<1>5. QED
  BY <1>3, <1>4

LEMMA ModelDeletedKeeps ==
  ASSUME Tab, AtRest, NEW s \in Slots, ModelDeleted(s)
  PROVE  Tab' /\ AtRest'
<1> DEFINE w == [ui EXCEPT !.rows = Without(@, net[s].item)]
<1>1. At("models") /\ s \in ui.waits /\ net[s].kind = "remove"
      /\ net[s].code \in {"ok", "failed"} /\ net[s].kind \in Writes
  BY DEF ModelDeleted, Answered, Writes
<1>3. CASE ~Ok(s)
  <2>1. Takes(s, ui)
    BY <1>3 DEF ModelDeleted
  <2>2. Clean => Settled(ui)
    BY <1>1, <1>3, CurrentRows DEF At, Editors
  <2>3. Taken(s, ui)
    BY <1>1, <2>2 DEF At, Taken, SamePage, SameFilter, Filtered, Editors, Tab
  <2>4. QED
    BY <1>1, <2>1, <2>3, TakenKeeps DEF At
<1>4. CASE Ok(s)
  <2>1. net[s].item \in Items /\ Without(ui.rows, net[s].item) \in Table
    BY <1>1, <1>4, RowsOfAnswer DEF Ok
  <2>2. PICK u \in {w, Closed(w)} : Takes(s, u)
    BY <1>4 DEF ModelDeleted
  <2>3. /\ SamePage(u) /\ u.waits = ui.waits /\ u.edit = ui.edit
        /\ u.rows = Without(ui.rows, net[s].item)
        /\ u.view = "list" \/ (u.view = ui.view /\ u.open = ui.open)
    <3>1. /\ SamePage(w) /\ w.waits = ui.waits /\ w.edit = ui.edit
          /\ w.rows = Without(ui.rows, net[s].item)
          /\ w.view = ui.view /\ w.open = ui.open
      BY <1>1, <2>1 DEF At, SamePage, Whole, TabFields, InDrawer, Tab
    <3> HIDE DEF w
    <3>2. CASE u = w
      BY <3>1, <3>2
    <3>3. CASE u = Closed(w)
      <4>1. SamePage(w) /\ site = "models"
        BY <1>1, <3>1 DEF At
      <4>2. /\ SamePage(u) /\ u.waits = w.waits /\ u.edit = w.edit /\ u.rows = w.rows
            /\ u.view = "list"
        BY <3>3, <4>1 DEF Closed, SamePage, Whole, TabFields, InDrawer
      <4>3. QED
        BY <3>1, <4>2
    <3>4. QED
      BY <2>2, <3>2, <3>3
  <2>4. ASSUME Clean PROVE Settled(u)
    <3>1. /\ Current(Without(ui.rows, net[s].item)) /\ CurrentBut(ui, net[s].item)
          /\ ~doc[net[s].item].here
      BY <1>1, <1>4, <2>4, CurrentRows DEF At, Editors
    <3>2. QED
      BY <2>3, <3>1 DEF Settled, Routed, CurrentBut
  <2>5. Taken(s, u)
    BY <1>1, <2>3, <2>4 DEF At, Taken, SameFilter, Filtered, Editors
  <2>6. QED
    BY <1>1, <2>2, <2>5, TakenKeeps DEF At
<1>5. QED
  BY <1>3, <1>4

LEMMA EntryChangedKeeps ==
  ASSUME Tab, AtRest, NEW s \in Slots, EntryChanged(s)
  PROVE  Tab' /\ AtRest'
<1> DEFINE w == [ui EXCEPT !.locked = IF s \in @ THEN {} ELSE @]
<1>1. At("models") /\ s \in ui.waits /\ net[s].kind = "patch"
      /\ net[s].code \in {"ok", "failed"} /\ net[s].kind \in Writes
  BY DEF EntryChanged, Answered, Writes
<1>2. /\ SamePage(w) /\ w.waits = ui.waits /\ w.rows = ui.rows /\ Edits(w)
  BY <1>1 DEF At, SamePage, Whole, TabFields, InDrawer, Tab, Edits
<1>3. CASE ~Ok(s)
  <2>1. Takes(s, w)
    BY <1>3 DEF EntryChanged
  <2> HIDE DEF w
  <2>2. ASSUME Clean PROVE Settled(w)
    <3>1. Settled(ui) /\ w.open \in Items \cup {NoItem}
      BY <1>1, <1>2, <1>3, <2>2, CurrentRows DEF At, Editors, SamePage, Whole
    <3>2. QED
      BY <1>2, <3>1, SettledKept DEF Tab
  <2>3. Taken(s, w)
    BY <1>1, <1>2, <2>2 DEF At, Taken, SameFilter, Filtered, Editors
  <2>4. QED
    BY <1>1, <2>1, <2>3, TakenKeeps DEF At
<1>4. CASE Ok(s)
  <2>1. TakesAndLoads(s, Cancelled(w))
    BY <1>4 DEF EntryChanged
  <2> HIDE DEF w
  <2>2. TakenLoading(s, Cancelled(w))
    BY <1>1, <1>2 DEF At, SamePage, TakenLoading, Cancelled, SameFilter, Filtered, Editors,
                      Whole, TabFields, InDrawer
  <2>3. QED
    BY <1>1, <2>1, <2>2, ReloadKeeps DEF At
<1>5. QED
  BY <1>3, <1>4

LEMMA ModelsAnswersKeep ==
  ASSUME Tab, AtRest, NEW s \in Slots, ModelsAnswers(s)
  PROVE  Tab' /\ AtRest'
  BY ModelsLoadedKeeps, ModelSavedKeeps, ModelDeletedKeeps, EntryChangedKeeps DEF ModelsAnswers

-----------------------------------------------------------------------------
(* The dialog of the public catalog.                                       *)
LEMMA FilterKept ==
  ASSUME Tab, NEW u, u.sel = ui.sel
  PROVE  SameFilter(u, ui.waits)
  BY DEF Tab, Waits, Awaited, SameFilter

LEMMA AsksSourceKeeps ==
  ASSUME Tab, AtRest, At("catalog"), NEW source, AsksSource(source)
  PROVE  Tab' /\ AtRest'
<1> DEFINE w == [ui EXCEPT !.view = "edit", !.sel = source, !.chosen = NoItem, !.for = {},
                           !.loading = TRUE]
           u == Cancelled(w)
           q == [Load EXCEPT !.sel = source]
<1>1. Asking(q, u)
  BY DEF AsksSource
<1>2. Sent(q) /\ q.kind = "load" /\ q.sel = source
  BY FirstLoad, FilterSent
<1> HIDE DEF q
<1>3. /\ SamePage(u) /\ u.waits = ui.waits \ Loads /\ u.rows = ui.rows /\ u.sel = source
  BY DEF At, Cancelled, SamePage, Whole, TabFields, InDrawer, Tab
<1> HIDE DEF u
<1>4. SameFilter(u, u.waits)
  BY <1>3 DEF SameFilter, Loads
<1>5. Asked(q, u)
  BY <1>2, <1>3, <1>4 DEF At, Asked, Edits, Editors
<1>6. QED
  BY <1>1, <1>5, AskedKeeps DEF At

LEMMA FetchDialogKeeps ==
  ASSUME Tab, AtRest, FetchDialog
  PROVE  Tab' /\ AtRest'
<1>1. At("catalog")
  BY DEF FetchDialog, OpenFetch, PickSource, PickModel, CloseFetch, ResetFetch
<1>2. CASE OpenFetch
  <2>1. CASE ui.sel # NoItem
    BY <1>1, <1>2, <2>1, AsksSourceKeeps DEF OpenFetch
  <2>2. CASE ui.sel = NoItem
    <3> DEFINE u == [ui EXCEPT !.view = "edit"]
    <3>1. SamePage(u) /\ u.waits = ui.waits /\ u.rows = ui.rows /\ u.sel = ui.sel
      BY <1>1 DEF At, SamePage, Whole, TabFields, InDrawer, Tab
    <3>2. Shows(u)
      BY <1>2, <2>2 DEF OpenFetch
    <3> HIDE DEF u
    <3>3. Shown(u)
      BY <1>1, <3>1, FilterKept DEF At, Shown, Edits
    <3>4. QED
      BY <1>1, <3>2, <3>3, ShowsKeeps DEF At
  <2>3. QED
    BY <2>1, <2>2
<1>3. CASE PickSource
  BY <1>1, <1>3, AsksSourceKeeps DEF PickSource
<1>4. CASE PickModel
  <2>1. PICK source \in ui.for : Shows([ui EXCEPT !.chosen = source])
    BY <1>4 DEF PickModel
  <2> DEFINE u == [ui EXCEPT !.chosen = source]
  <2>2. SamePage(u) /\ u.waits = ui.waits /\ u.rows = ui.rows /\ u.sel = ui.sel
    BY <1>1, <2>1 DEF At, SamePage, Whole, TabFields, InDrawer, Tab
  <2> HIDE DEF u
  <2>3. Shown(u)
    BY <1>1, <2>2, FilterKept DEF At, Shown, Edits
  <2>4. QED
    BY <1>1, <2>1, <2>3, ShowsKeeps DEF At, u
<1>5. CASE CloseFetch \/ ResetFetch
  <2>1. PICK w \in {[ui EXCEPT !.view = "list"],
                    [ui EXCEPT !.view = "list", !.sel = NoItem, !.for = {}, !.chosen = NoItem]} :
            Shows(Cancelled(w))
    BY <1>5 DEF CloseFetch, ResetFetch
  <2> DEFINE u == Cancelled(w)
  <2>2. SamePage(u) /\ u.waits = ui.waits \ Loads /\ u.rows = ui.rows
    <3>1. CASE w = [ui EXCEPT !.view = "list"]
      BY <1>1, <3>1 DEF At, Cancelled, SamePage, Whole, TabFields, InDrawer, Tab
    <3>2. CASE w = [ui EXCEPT !.view = "list", !.sel = NoItem, !.for = {}, !.chosen = NoItem]
      BY <1>1, <3>2 DEF At, Cancelled, SamePage, Whole, TabFields, InDrawer, Tab
    <3>3. QED
      BY <2>1, <3>1, <3>2
  <2> HIDE DEF u
  <2>3. Shown(u)
    BY <1>1, <2>2 DEF At, Shown, Edits, SameFilter, Loads, Editors
  <2>4. QED
    BY <1>1, <2>1, <2>3, ShowsKeeps DEF At, u
<1>6. QED
  BY <1>2, <1>3, <1>4, <1>5 DEF FetchDialog

LEMMA SourceLoadedKeeps ==
  ASSUME Tab, AtRest, NEW s \in Slots, SourceLoaded(s)
  PROVE  Tab' /\ AtRest'
<1> DEFINE u == [ui EXCEPT !.loading = FALSE, !.for = IF Ok(s) THEN {net[s].sel} ELSE @]
<1>1. At("catalog") /\ s \in ui.waits /\ net[s].kind = "load" /\ Takes(s, u)
  BY DEF SourceLoaded, Answered
<1>2. net[s].sel = ui.sel
  BY <1>1 DEF Tab, Waits, Awaited, Filtered, At
<1>3. SamePage(u) /\ u.waits = ui.waits /\ u.rows = ui.rows /\ u.sel = ui.sel
  BY <1>1, <1>2 DEF At, SamePage, Whole, TabFields, InDrawer, Tab
<1> HIDE DEF u
<1>4. Taken(s, u)
  BY <1>1, <1>3, FilterKept DEF At, Taken, Editors, AtRest, Rest
<1>5. QED
  BY <1>1, <1>4, TakenKeeps DEF At

-----------------------------------------------------------------------------
(* The pages whose form is not a copy of its row.                          *)
Plain == Editors /\ site # "models" /\ ui.mounted
Like(u) == SamePage(u) /\ u.waits = ui.waits /\ u.sel = ui.sel

LEMMA PlainShows ==
  ASSUME Tab, AtRest, Plain, NEW u, Like(u), u.rows = ui.rows, Shows(u)
  PROVE  Tab' /\ AtRest'
<1>1. Shown(u)
  BY FilterKept DEF Plain, Like, Shown, Edits
<1>2. QED
  BY <1>1, ShowsKeeps DEF Plain

LEMMA PlainAsks ==
  ASSUME Tab, AtRest, Plain, NEW u, Like(u), u.rows = ui.rows,
         NEW q, Sent(q), q.kind \in Writes, Asking(q, u)
  PROVE  Tab' /\ AtRest'
<1>1. q.kind # "load"
  BY DEF Writes
<1>2. Asked(q, u)
  BY <1>1, FilterKept DEF Plain, Like, Asked, Edits
<1>3. QED
  BY <1>2, AskedKeeps DEF Plain

(* What an answer makes of the rows.                                       *)
RowsNow(s, rows) ==
    /\ net[s].kind \in Writes \cup {"load"}
    /\ net[s].code \in {"ok", "failed"}
    /\ net[s].kind = "load" /\ Ok(s) => rows = net[s].val
    /\ net[s].kind \in Writes =>
         IF Ok(s) THEN \/ rows = Without(ui.rows, net[s].item)
                       \/ /\ net[s].kind # "remove"
                          /\ rows \in {Replaced(ui.rows, s), Added(ui.rows, s)}
                  ELSE rows = ui.rows

LEMMA PlainTakes ==
  ASSUME Tab, AtRest, Plain, NEW s \in ui.waits, NEW u, Like(u), RowsNow(s, u.rows), Takes(s, u)
  PROVE  Tab' /\ AtRest'
<1>1. ASSUME Clean PROVE Settled(u)
  <2>1. Current(u.rows)
    BY <1>1, CurrentRows DEF Plain, RowsNow, Ok, Settled, Current
  <2>2. QED
    BY <2>1 DEF Settled, Routed, Plain
<1>2. Taken(s, u)
  BY <1>1, FilterKept DEF Plain, Like, Taken
<1>3. QED
  BY <1>2, TakenKeeps DEF Plain

LEMMA ClosedLike ==
  ASSUME NEW w, Like(w)
  PROVE  /\ Like(Closed(w)) /\ Closed(w).rows = w.rows
         /\ Like([Closed(w) EXCEPT !.of = NoItem]) /\ [Closed(w) EXCEPT !.of = NoItem].rows = w.rows
         /\ Like(ModalClosed(w)) /\ ModalClosed(w).rows = w.rows
         /\ Like(FormReset(w)) /\ FormReset(w).rows = w.rows
<1> DEFINE c == Closed(w)
<1>1. Like(c) /\ c.rows = w.rows /\ c.view = "list"
  BY DEF Closed, Like, SamePage, Whole, TabFields, InDrawer
<1>2. /\ ModalClosed(w) = [c EXCEPT !.of = NoItem, !.hidden = "typed"]
      /\ FormReset(w) = [c EXCEPT !.of = NoItem, !.hidden = "typed"]
  BY DEF ModalClosed, FormReset
<1> HIDE DEF c
<1>3. Like([c EXCEPT !.of = NoItem]) /\ [c EXCEPT !.of = NoItem].rows = c.rows
  BY <1>1 DEF Like, SamePage, Whole, TabFields, InDrawer
<1>4. /\ Like([c EXCEPT !.of = NoItem, !.hidden = "typed"])
      /\ [c EXCEPT !.of = NoItem, !.hidden = "typed"].rows = c.rows
  BY <1>1 DEF Like, SamePage, Whole, TabFields, InDrawer
<1>5. QED
  BY <1>1, <1>2, <1>3, <1>4 DEF c

LEMMA BlankLike ==
  ASSUME Like(ui), site # "customers"
  PROVE  Like(Blank(ui)) /\ Blank(ui).rows = ui.rows
  BY DEF Blank, Like, SamePage, Whole, TabFields, InDrawer

LEMMA SavingLike ==
  ASSUME Like(ui), NEW saving \in BOOLEAN
  PROVE  /\ Like([ui EXCEPT !.saving = saving])
         /\ [ui EXCEPT !.saving = saving].rows = ui.rows
         /\ [ui EXCEPT !.saving = saving].open = ui.open
  BY DEF Like, SamePage, Whole, TabFields, InDrawer

-----------------------------------------------------------------------------
(* The providers.                                                          *)
LEMMA ProvidersPageKeeps ==
  ASSUME Tab, AtRest, ProvidersPage
  PROVE  Tab' /\ AtRest'
<1>1. At("providers") /\ Plain
  BY DEF ProvidersPage, RefreshProviders, AddProvider, EditProvider, TypeSecret, CloseProvider,
         SubmitProvider, ToggleProvider, DeleteProvider, Plain, Editors, At
<1>2. CASE RefreshProviders
  <2> DEFINE u == [ui EXCEPT !.loading = TRUE]
  <2>1. Asking(Load, u) /\ Sent(Load) /\ Load.kind = "load"
    BY <1>2, FirstLoad DEF RefreshProviders
  <2>2. SamePage(u) /\ u.waits = ui.waits /\ u.rows = ui.rows
    BY <1>1 DEF At, SamePage, Whole, TabFields, InDrawer, Tab
  <2> HIDE DEF u
  <2>3. Asked(Load, u)
    BY <1>1, <2>1, <2>2 DEF At, Asked, SameFilter, Filtered, Edits
  <2>4. QED
    BY <1>1, <2>1, <2>3, AskedKeeps DEF At
<1>3. CASE AddProvider \/ TypeSecret \/ CloseProvider
  <2>1. PICK u \in {Blank(ui), [ui EXCEPT !.hidden = "typed"], ModalClosed(ui)} : Shows(u)
    BY <1>3 DEF AddProvider, TypeSecret, CloseProvider
  <2>2. Like(u) /\ u.rows = ui.rows
    <3>1. Like(ui)
      BY <1>1 DEF At, Like, SamePage, Tab
    <3>2. Like([ui EXCEPT !.hidden = "typed"]) /\ [ui EXCEPT !.hidden = "typed"].rows = ui.rows
      BY <3>1 DEF Like, SamePage, Whole, TabFields, InDrawer
    <3>3. QED
      BY <1>1, <2>1, <3>1, <3>2, BlankLike, ClosedLike DEF At
  <2>3. QED
    BY <1>1, <2>1, <2>2, PlainShows
<1>4. CASE EditProvider
  <2> DEFINE u(i) == [ui EXCEPT !.view = "edit", !.open = i, !.of = i, !.hidden = "stored"]
  <2>1. PICK i \in Items : Shows(u(i))
    BY <1>4 DEF EditProvider
  <2>2. Like(u(i)) /\ u(i).rows = ui.rows
    BY <1>1, <2>1 DEF At, Like, SamePage, Whole, TabFields, InDrawer, Tab
  <2> HIDE DEF u
  <2>3. QED
    BY <1>1, <2>1, <2>2, PlainShows
<1>5. CASE SubmitProvider
  <2> DEFINE hidden == IF ui.hidden = "stored" THEN "omit" ELSE "typed"
             q == [Write(NewOrSave(ui), ui.open) EXCEPT !.hidden = hidden]
             u == [ui EXCEPT !.saving = TRUE]
  <2>1. Sent(q) /\ q.kind \in Writes
    <3>1. /\ NewOrSave(ui) \in Writes /\ ui.open \in Items \cup {NoItem} /\ Editors
          /\ NewOrSave(ui) # "create" => ui.open \in Items
          /\ hidden \in {"omit", "typed", "loose", "stored"}
      BY <1>1 DEF NewOrSave, Writes, Tab, Whole, Plain
    <3>2. Sent(Write(NewOrSave(ui), ui.open)) /\ Write(NewOrSave(ui), ui.open).kind \in Writes
      BY <3>1, Writing
    <3>3. QED
      BY <3>1, <3>2, HiddenSent
  <2>2. Like(u) /\ u.rows = ui.rows
    BY <1>1 DEF At, Like, SamePage, Whole, TabFields, InDrawer, Tab
  <2>3. Asking(q, u)
    BY <1>5 DEF SubmitProvider
  <2> HIDE DEF q, u
  <2>4. QED
    BY <1>1, <2>1, <2>2, <2>3, PlainAsks
<1>6. CASE ToggleProvider \/ DeleteProvider
  <2>1. PICK i \in Items : Asking(Write("patch", i), ui) \/ Asking(Write("remove", i), ui)
    BY <1>6 DEF ToggleProvider, DeleteProvider
  <2>2. PICK kind \in {"patch", "remove"} : Asking(Write(kind, i), ui)
    BY <2>1
  <2>3. Sent(Write(kind, i)) /\ Write(kind, i).kind \in Writes
    BY <1>1, Writing DEF Plain, Writes
  <2>4. Like(ui)
    BY <1>1 DEF At, Like, SamePage, Tab
  <2>5. QED
    BY <1>1, <2>2, <2>3, <2>4, PlainAsks
<1>7. QED
  BY <1>2, <1>3, <1>4, <1>5, <1>6 DEF ProvidersPage

LEMMA ProvidersAnswersKeep ==
  ASSUME Tab, AtRest, NEW s \in Slots, ProvidersAnswers(s)
  PROVE  Tab' /\ AtRest'
<1>1. /\ At("providers") /\ Plain /\ s \in ui.waits /\ net[s].code \in {"ok", "failed"}
      /\ net[s].kind \in Writes \cup {"load"}
  BY DEF ProvidersAnswers, ProvidersLoaded, ProviderSaved, ProviderToggled, ProviderDeleted,
         Answered, Plain, Editors, At, Writes
<1>2. /\ net[s].val \in Table /\ Replaced(ui.rows, s) \in Table
      /\ net[s].kind \in Writes /\ Ok(s) =>
           /\ Added(ui.rows, s) \in Table /\ Without(ui.rows, net[s].item) \in Table
  BY <1>1, RowsOfAnswer DEF Ok
<1>3. CASE ProvidersLoaded(s)
  <2> DEFINE u == Loaded(s, ui)
  <2>1. Takes(s, u) /\ net[s].kind = "load" /\ "load" \notin Writes
    BY <1>3 DEF ProvidersLoaded, Answered, Writes
  <2>2. Like(u) /\ (Ok(s) => u.rows = net[s].val)
    BY <1>1, <1>2 DEF At, Loaded, Like, SamePage, Whole, TabFields, InDrawer, Tab
  <2> HIDE DEF u
  <2>3. QED
    BY <1>1, <2>1, <2>2, PlainTakes DEF RowsNow
<1>4. CASE ProviderSaved(s)
  <2> DEFINE w == [ui EXCEPT !.saving = FALSE]
  <2>1. PICK u : /\ Takes(s, u)
                 /\ IF Ok(s) THEN \/ u = ModalClosed([w EXCEPT !.rows = Added(@, s)])
                                  \/ u = ModalClosed([w EXCEPT !.rows = Replaced(@, s)])
                             ELSE u = w
    BY <1>4 DEF ProviderSaved
  <2>2. net[s].kind \in Writes /\ net[s].kind # "remove" /\ net[s].kind # "load"
    BY <1>4 DEF ProviderSaved, Answered, Writes
  <2>3. /\ Like(u)
        /\ IF Ok(s) THEN u.rows \in {Added(ui.rows, s), Replaced(ui.rows, s)}
                    ELSE u.rows = ui.rows
    <3>1. Like(w) /\ w.rows = ui.rows
      BY <1>1, SavingLike DEF At, Like, SamePage, Tab
    <3> HIDE DEF w
    <3>2. CASE ~Ok(s)
      BY <2>1, <3>1, <3>2
    <3>3. CASE Ok(s) /\ u = ModalClosed([w EXCEPT !.rows = Added(@, s)])
      <4> DEFINE x == [w EXCEPT !.rows = Added(@, s)]
      <4>1. Like(x) /\ x.rows = Added(ui.rows, s)
        BY <1>2, <2>2, <3>1, <3>3 DEF Like, SamePage, Whole, TabFields, InDrawer
      <4> HIDE DEF x
      <4>2. QED
        BY <3>3, <4>1, ClosedLike DEF x
    <3>4. CASE Ok(s) /\ u = ModalClosed([w EXCEPT !.rows = Replaced(@, s)])
      <4> DEFINE x == [w EXCEPT !.rows = Replaced(@, s)]
      <4>1. Like(x) /\ x.rows = Replaced(ui.rows, s)
        BY <1>2, <3>1 DEF Like, SamePage, Whole, TabFields, InDrawer
      <4> HIDE DEF x
      <4>2. QED
        BY <3>4, <4>1, ClosedLike DEF x
    <3>5. QED
      BY <2>1, <3>2, <3>3, <3>4
  <2>4. QED
    BY <1>1, <2>1, <2>2, <2>3, PlainTakes DEF RowsNow
<1>5. CASE ProviderToggled(s)
  <2>1. PICK u : /\ Takes(s, u)
                 /\ u = IF Ok(s) THEN [ui EXCEPT !.rows = Replaced(@, s)] ELSE ui
    BY <1>5 DEF ProviderToggled
  <2>2. net[s].kind \in Writes /\ net[s].kind # "remove" /\ net[s].kind # "load"
    BY <1>5 DEF ProviderToggled, Answered, Writes
  <2>3. /\ Like(u)
        /\ IF Ok(s) THEN u.rows = Replaced(ui.rows, s) ELSE u.rows = ui.rows
    BY <1>1, <1>2, <2>1, <2>2 DEF At, Like, SamePage, Whole, TabFields, InDrawer, Tab
  <2>4. QED
    BY <1>1, <2>1, <2>2, <2>3, PlainTakes DEF RowsNow
<1>6. CASE ProviderDeleted(s)
  <2>1. PICK u : /\ Takes(s, u)
                 /\ u = IF Ok(s) THEN [ui EXCEPT !.rows = Without(@, net[s].item)] ELSE ui
    BY <1>6 DEF ProviderDeleted
  <2>2. net[s].kind \in Writes /\ net[s].kind # "load"
    BY <1>6 DEF ProviderDeleted, Answered, Writes
  <2>3. /\ Like(u)
        /\ IF Ok(s) THEN u.rows = Without(ui.rows, net[s].item) ELSE u.rows = ui.rows
    BY <1>1, <1>2, <2>1, <2>2 DEF At, Like, SamePage, Whole, TabFields, InDrawer, Tab
  <2>4. QED
    BY <1>1, <2>1, <2>2, <2>3, PlainTakes DEF RowsNow
<1>7. QED
  BY <1>3, <1>4, <1>5, <1>6 DEF ProvidersAnswers

-----------------------------------------------------------------------------
(* The customers.                                                          *)
LEMMA FilteredLike ==
  ASSUME Like(ui), site # "catalog", site = "keys" => ui.sel # NoItem, NEW rows \in Table
  PROVE  LET u == [ui EXCEPT !.rows = rows, !.for = {ui.sel}, !.loading = FALSE] IN
         Like(u) /\ u.rows = rows
<1> DEFINE u == [ui EXCEPT !.rows = rows, !.for = {ui.sel}, !.loading = FALSE]
<1>1. /\ TabFields \subseteq DOMAIN u /\ u.mounted = ui.mounted /\ u.loading = FALSE
      /\ u.saving = ui.saving /\ u.crossed = ui.crossed /\ u.rows = rows /\ u.edit = ui.edit
      /\ u.hidden = ui.hidden /\ u.open = ui.open /\ u.view = ui.view /\ u.of = ui.of
      /\ u.for = {ui.sel} /\ u.sel = ui.sel /\ u.chosen = ui.chosen
      /\ u.waits = ui.waits /\ u.tags = ui.tags
  BY DEF Like, SamePage, Whole, TabFields
<1> HIDE DEF u
<1>2. Like(u) /\ u.rows = rows
  BY <1>1 DEF Like, SamePage, Whole, InDrawer
<1>3. QED
  BY <1>2 DEF u

LEMMA CustomersPageKeeps ==
  ASSUME Tab, AtRest, CustomersPage
  PROVE  Tab' /\ AtRest'
<1>1. At("customers") /\ Plain
  BY DEF CustomersPage, FilterCustomers, OpenDetail, CloseDrawer, OpenForm, OpenCreate, CloseForm,
         SubmitCustomer, SubmitNewCustomer, CloseAccount, Plain, Editors, At
<1>2. CASE FilterCustomers
  <2> DEFINE w(x) == [ui EXCEPT !.sel = x, !.loading = TRUE]
             q(x) == [Load EXCEPT !.sel = x]
  <2>1. PICK x \in Sels : Asking(q(x), Cancelled(w(x)))
    BY <1>2 DEF FilterCustomers
  <2>2. Sent(q(x)) /\ q(x).kind = "load" /\ q(x).sel = x
    BY FirstLoad, FilterSent
  <2> HIDE DEF q
  <2> DEFINE u == Cancelled(w(x))
  <2>3. SamePage(u) /\ u.waits = ui.waits \ Loads /\ u.rows = ui.rows /\ u.sel = x
    BY <1>1 DEF At, Cancelled, SamePage, Whole, TabFields, InDrawer, Tab
  <2> HIDE DEF u
  <2>4. Asked(q(x), u)
    BY <1>1, <2>2, <2>3 DEF At, Asked, Edits, SameFilter, Loads
  <2>5. QED
    BY <1>1, <2>1, <2>4, AskedKeeps DEF At, u
<1>3. CASE OpenDetail \/ CloseDrawer
  <2>1. PICK i, u : /\ Shows(u)
                    /\ \/ i \in Items /\ u = [ui EXCEPT !.view = "drawer", !.open = i]
                       \/ u = DrawerClosed(ui)
    BY <1>3 DEF OpenDetail, CloseDrawer
  <2>2. Like(u) /\ u.rows = ui.rows
    <3>1. CASE u = [ui EXCEPT !.view = "drawer", !.open = i] /\ i \in Items
      BY <1>1, <3>1 DEF At, Like, SamePage, Whole, TabFields, InDrawer, Tab
    <3>2. CASE u = DrawerClosed(ui)
      BY <1>1, <3>2 DEF At, DrawerClosed, Like, SamePage, Whole, TabFields, InDrawer, Tab
    <3>3. QED
      BY <2>1, <3>1, <3>2
  <2>3. QED
    BY <1>1, <2>1, <2>2, PlainShows
<1>4. CASE OpenForm
  <2>1. PICK v \in {"edit", "balance"} : Shows([ui EXCEPT !.view = v, !.of = ui.open, !.by = {}])
    BY <1>4 DEF OpenForm
  <2> DEFINE u == [ui EXCEPT !.view = v, !.of = ui.open, !.by = {}]
  <2>2. ui.open \in Items
    BY <1>1, <1>4 DEF OpenForm, At, InDrawer, Tab, Whole
  <2>3. Like(u) /\ u.rows = ui.rows
    BY <1>1, <2>2 DEF At, Like, SamePage, Whole, TabFields, InDrawer, Tab
  <2> HIDE DEF u
  <2>4. QED
    BY <1>1, <2>1, <2>3, PlainShows DEF u
<1>5. CASE OpenCreate
  <2> DEFINE u == [ui EXCEPT !.view = "create", !.of = NoItem, !.by = {}]
  <2>1. Shows(u)
    BY <1>5 DEF OpenCreate
  <2>2. Like(u) /\ u.rows = ui.rows
    BY <1>1 DEF At, Like, SamePage, Whole, TabFields, InDrawer, Tab
  <2> HIDE DEF u
  <2>3. QED
    BY <1>1, <2>1, <2>2, PlainShows
<1>6. CASE CloseForm
  <2> DEFINE u == [ui EXCEPT !.view = IF @ = "create" THEN "list" ELSE "drawer", !.by = {}]
  <2>1. Shows(u) /\ ui.view \in {"edit", "balance", "create"}
    BY <1>6 DEF CloseForm
  <2>2. Like(u) /\ u.rows = ui.rows
    BY <1>1, <2>1 DEF At, Like, SamePage, Whole, TabFields, InDrawer, Tab
  <2> HIDE DEF u
  <2>3. QED
    BY <1>1, <2>1, <2>2, PlainShows
<1>7. CASE SubmitCustomer \/ CloseAccount
  <2> DEFINE slot == NextSlot(net)
  <2>1. PICK kind, u :
            /\ kind \in {"save", "patch", "close"}
            /\ Asking(Write(kind, ui.open), u)
            /\ \/ u = [ui EXCEPT !.by = {slot}, !.locked = @ \cup {slot}]
               \/ u = [ui EXCEPT !.locked = @ \cup {slot}]
    BY <1>7 DEF SubmitCustomer, CloseAccount
  <2>2. ui.open \in Items
    BY <1>1, <1>7 DEF SubmitCustomer, CloseAccount, At, InDrawer, Tab, Whole
  <2>3. Sent(Write(kind, ui.open)) /\ Write(kind, ui.open).kind \in Writes
    BY <1>1, <2>1, <2>2, Writing DEF Plain, Writes
  <2> HIDE DEF slot
  <2>4. Like(u) /\ u.rows = ui.rows
    BY <1>1, <2>1 DEF At, Like, SamePage, Whole, TabFields, InDrawer, Tab
  <2>5. QED
    BY <1>1, <2>1, <2>3, <2>4, PlainAsks
<1>8. CASE SubmitNewCustomer
  <2> DEFINE u == [ui EXCEPT !.by = {NextSlot(net)}]
  <2>1. Asking(Write("create", NoItem), u)
    BY <1>8 DEF SubmitNewCustomer
  <2>2. Sent(Write("create", NoItem)) /\ Write("create", NoItem).kind \in Writes
    BY <1>1, Writing DEF Plain, Writes
  <2>3. Like(u) /\ u.rows = ui.rows
    BY <1>1 DEF At, Like, SamePage, Whole, TabFields, InDrawer, Tab
  <2> HIDE DEF u
  <2>4. QED
    BY <1>1, <2>1, <2>2, <2>3, PlainAsks
<1>9. QED
  BY <1>2, <1>3, <1>4, <1>5, <1>6, <1>7, <1>8 DEF CustomersPage

LEMMA CustomersAnswersKeep ==
  ASSUME Tab, AtRest, NEW s \in Slots, CustomersAnswers(s)
  PROVE  Tab' /\ AtRest'
<1>1. /\ At("customers") /\ Plain /\ s \in ui.waits /\ net[s].code \in {"ok", "failed"}
      /\ net[s].kind \in Writes \cup {"load"}
  BY DEF CustomersAnswers, CustomersLoaded, CustomerSaved, CustomerCreated, AccountClosed,
         Answered, Plain, Editors, At, Writes
<1>2. /\ net[s].val \in Table /\ Replaced(ui.rows, s) \in Table
      /\ net[s].kind \in Writes /\ Ok(s) =>
           /\ net[s].item \in Items
           /\ Added(ui.rows, s) \in Table /\ Without(ui.rows, net[s].item) \in Table
  BY <1>1, RowsOfAnswer DEF Ok
<1>3. CASE CustomersLoaded(s)
  <2>1. net[s].kind = "load" /\ "load" \notin Writes /\ net[s].sel = ui.sel
    BY <1>1, <1>3 DEF CustomersLoaded, Answered, Writes, Tab, Waits, Awaited, Filtered, At
  <2>2. PICK u : /\ Takes(s, u)
                 /\ IF Ok(s) THEN u = [ui EXCEPT !.rows = net[s].val, !.for = {net[s].sel},
                                                 !.loading = FALSE]
                    ELSE u = [ui EXCEPT !.rows = Empty, !.for = {net[s].sel}, !.loading = FALSE]
    BY <1>3 DEF CustomersLoaded, Loaded
  <2>3. Like(u) /\ (Ok(s) => u.rows = net[s].val)
    <3>1. Like(ui) /\ site \notin {"catalog", "keys"} /\ Empty \in Table
      BY <1>1, EmptyIsTable DEF At, Like, SamePage, Tab
    <3>2. CASE Ok(s)
      <4>1. /\ Like([ui EXCEPT !.rows = net[s].val, !.for = {ui.sel}, !.loading = FALSE])
            /\ [ui EXCEPT !.rows = net[s].val, !.for = {ui.sel}, !.loading = FALSE].rows = net[s].val
        BY <1>2, <3>1, FilteredLike
      <4>2. u = [ui EXCEPT !.rows = net[s].val, !.for = {ui.sel}, !.loading = FALSE]
        BY <2>1, <2>2, <3>2
      <4>3. QED
        BY <4>1, <4>2
    <3>3. CASE ~Ok(s)
      <4>1. Like([ui EXCEPT !.rows = Empty, !.for = {ui.sel}, !.loading = FALSE])
        BY <3>1, FilteredLike
      <4>2. u = [ui EXCEPT !.rows = Empty, !.for = {ui.sel}, !.loading = FALSE]
        BY <2>1, <2>2, <3>3
      <4>3. QED
        BY <3>3, <4>1, <4>2
    <3>4. QED
      BY <3>2, <3>3
  <2>4. QED
    BY <1>1, <2>1, <2>2, <2>3, PlainTakes DEF RowsNow
<1>4. CASE CustomerSaved(s)
  <2> DEFINE w == [ui EXCEPT !.by = @ \ {s}, !.locked = @ \ {s}]
  <2>1. PICK u : /\ Takes(s, u)
                 /\ IF Ok(s) THEN \/ u = Updated(w, s)
                                  \/ u = [Updated(w, s) EXCEPT !.view = "drawer", !.by = {}]
                             ELSE u = w
    BY <1>4 DEF CustomerSaved
  <2>2. net[s].kind \in Writes /\ net[s].kind # "remove" /\ net[s].kind # "load"
    BY <1>4 DEF CustomerSaved, Answered, Writes
  <2>3. Like(w) /\ w.rows = ui.rows /\ w.view = ui.view
    BY <1>1 DEF At, Like, SamePage, Whole, TabFields, InDrawer, Tab
  <2> HIDE DEF w
  <2>4. ASSUME Ok(s)
        PROVE  /\ Like(Updated(w, s)) /\ Updated(w, s).rows = Replaced(ui.rows, s)
               /\ Updated(w, s).open \in Items
    BY <1>1, <1>2, <2>2, <2>3, <2>4
       DEF At, Updated, Like, SamePage, Whole, TabFields, InDrawer
  <2>5. /\ Like(u)
        /\ IF Ok(s) THEN u.rows = Replaced(ui.rows, s) ELSE u.rows = ui.rows
    <3>1. CASE Ok(s) /\ u = [Updated(w, s) EXCEPT !.view = "drawer", !.by = {}]
      BY <1>1, <2>4, <3>1 DEF At, Like, SamePage, Whole, TabFields, InDrawer
    <3>2. QED
      BY <2>1, <2>3, <2>4, <3>1
  <2>6. QED
    BY <1>1, <2>1, <2>2, <2>5, PlainTakes DEF RowsNow
<1>5. CASE CustomerCreated(s)
  <2> DEFINE w == [ui EXCEPT !.by = @ \ {s}]
             view == IF ui.view \in {"edit", "balance"} THEN ui.view ELSE "drawer"
             u == Cancelled([w EXCEPT !.open = net[s].item, !.view = view])
  <2>1. net[s].kind \in Writes /\ net[s].kind # "remove" /\ net[s].kind # "load"
    BY <1>5 DEF CustomerCreated, Answered, Writes
  <2>2. CASE ~Ok(s)
    <3>1. Takes(s, w)
      BY <1>5, <2>2 DEF CustomerCreated
    <3>2. Like(w) /\ w.rows = ui.rows
      BY <1>1 DEF At, Like, SamePage, Whole, TabFields, InDrawer, Tab
    <3> HIDE DEF w
    <3>3. QED
      BY <1>1, <2>1, <2>2, <3>1, <3>2, PlainTakes DEF RowsNow
  <2>3. CASE Ok(s)
    <3>1. TakesAndLoads(s, u)
      BY <1>1, <1>5, <2>3 DEF CustomerCreated, At, Tab, Whole, TabFields
    <3>2. SamePage(u) /\ u.waits = ui.waits \ Loads
      BY <1>1, <1>2, <2>1, <2>3
         DEF At, Cancelled, SamePage, Whole, TabFields, InDrawer, Tab
    <3> HIDE DEF u
    <3>3. TakenLoading(s, u)
      BY <1>1, <3>2 DEF At, Plain, SamePage, TakenLoading, SameFilter, Loads, Whole, TabFields,
                        InDrawer
    <3>4. QED
      BY <1>1, <3>1, <3>3, ReloadKeeps DEF At
  <2>4. QED
    BY <2>2, <2>3
<1>6. CASE AccountClosed(s)
  <2> DEFINE removed == [DrawerClosed(ui) EXCEPT !.rows = Without(@, net[s].item)]
             locked == [ui EXCEPT !.locked = @ \ {s}]
  <2>1. PICK u : Takes(s, u) /\ IF Ok(s) THEN u = removed ELSE u = locked
    BY <1>6 DEF AccountClosed
  <2> HIDE DEF removed, locked
  <2>2. net[s].kind \in Writes /\ net[s].kind # "load"
    BY <1>6 DEF AccountClosed, Answered, Writes
  <2>3. /\ Like(u)
        /\ IF Ok(s) THEN u.rows = Without(ui.rows, net[s].item) ELSE u.rows = ui.rows
    <3> DEFINE x == DrawerClosed(ui)
    <3>1. Like(x) /\ x.rows = ui.rows
      BY <1>1 DEF At, DrawerClosed, Like, SamePage, Whole, TabFields, InDrawer, Tab
    <3>2. CASE Ok(s)
      <4>1. u = [x EXCEPT !.rows = Without(@, net[s].item)]
        BY <2>1, <3>2 DEF removed
      <4> HIDE DEF x
      <4>2. Without(ui.rows, net[s].item) \in Table
        BY <1>2, <2>2, <3>2
      <4>3. u = [x EXCEPT !.rows = Without(ui.rows, net[s].item)]
        BY <3>1, <4>1
      <4>4. /\ Like(u) /\ u.rows = Without(ui.rows, net[s].item)
        BY <3>1, <4>2, <4>3 DEF Like, SamePage, Whole, TabFields, InDrawer
      <4>5. QED
        BY <3>2, <4>4
    <3>3. CASE ~Ok(s)
      <4>1. u = [ui EXCEPT !.locked = @ \ {s}]
        BY <2>1, <3>3 DEF locked
      <4>2. Whole(ui) /\ ui.mounted
        BY <1>1 DEF At, Tab
      <4>3. Like(u) /\ u.rows = ui.rows
        BY <4>1, <4>2 DEF Like, SamePage, Whole, TabFields, InDrawer
      <4>4. QED
        BY <3>3, <4>3
    <3>4. QED
      BY <3>2, <3>3
  <2>4. QED
    BY <1>1, <2>1, <2>2, <2>3, PlainTakes DEF RowsNow
<1>7. QED
  BY <1>3, <1>4, <1>5, <1>6 DEF CustomersAnswers

-----------------------------------------------------------------------------
(* The API keys.                                                           *)
LEMMA ApiKeysPageKeeps ==
  ASSUME Tab, AtRest, ApiKeysPage
  PROVE  Tab' /\ AtRest'
<1>1. At("keys") /\ Plain /\ Like(ui)
  BY DEF ApiKeysPage, PickCustomer, TurnKeys, ToggleKeyForm, CreateKey, RevokeKey, Plain, Editors, At,
         Like, SamePage, Tab
<1>2. CASE PickCustomer
  <2> DEFINE w(x) == [ui EXCEPT !.sel = x, !.loading = TRUE, !.later = FALSE]
             q(x) == [Load EXCEPT !.sel = x]
  <2>1. PICK x \in Sels : Asking(q(x), Cancelled(w(x)))
    BY <1>2 DEF PickCustomer, KeysCancelled
  <2>2. Sent(q(x)) /\ q(x).kind = "load" /\ q(x).sel = x /\ x # NoItem
    BY FirstLoad, FilterSent
  <2> HIDE DEF q
  <2> DEFINE u == Cancelled(w(x))
  <2>3. SamePage(u) /\ u.waits = ui.waits \ Loads /\ u.rows = ui.rows /\ u.sel = x
    BY <1>1, <2>2 DEF At, Cancelled, SamePage, Whole, TabFields, InDrawer, Tab
  <2> HIDE DEF u
  <2>4. Asked(q(x), u)
    BY <1>1, <2>2, <2>3 DEF At, Asked, Edits, SameFilter, Loads
  <2>5. QED
    BY <1>1, <2>1, <2>4, AskedKeeps DEF At, u
<1>3. CASE ToggleKeyForm
  <2> DEFINE u == [ui EXCEPT !.view = IF @ = "list" THEN "edit" ELSE "list"]
  <2>1. Shows(u)
    BY <1>3 DEF ToggleKeyForm
  <2>2. Like(u) /\ u.rows = ui.rows
    BY <1>1 DEF At, Like, SamePage, Whole, TabFields, InDrawer
  <2> HIDE DEF u
  <2>3. QED
    BY <1>1, <2>1, <2>2, PlainShows
<1>4. CASE CreateKey
  <2> DEFINE q == [Write("create", NoItem) EXCEPT !.sel = ui.sel]
             u == [ui EXCEPT !.saving = TRUE]
  <2>1. Sent(Write("create", NoItem)) /\ Write("create", NoItem).kind \in Writes
    BY <1>1, Writing DEF Plain, Writes
  <2>2. Sent(q) /\ q.kind \in Writes
    BY <2>1, FilterSent
  <2>3. Asking(q, u) /\ Like(u) /\ u.rows = ui.rows
    BY <1>1, <1>4, SavingLike DEF CreateKey
  <2> HIDE DEF q, u
  <2>4. QED
    BY <1>1, <2>2, <2>3, PlainAsks
<1>5. CASE RevokeKey
  <2>1. PICK i \in Items : Asking(Write("patch", i), ui)
    BY <1>5 DEF RevokeKey
  <2>2. Sent(Write("patch", i)) /\ Write("patch", i).kind \in Writes
    BY <1>1, Writing DEF Plain, Writes
  <2>3. QED
    BY <1>1, <2>1, <2>2, PlainAsks
<1>6. CASE TurnKeys
  <2> DEFINE u == Cancelled([ui EXCEPT !.loading = TRUE, !.later = ~@])
  <2>1. Asking(Load, u)
    BY <1>6 DEF TurnKeys, KeysCancelled
  <2>2. Sent(Load) /\ Load.kind = "load" /\ Load.sel = ui.sel
    BY FirstLoad
  <2>3. SamePage(u) /\ u.waits = ui.waits \ Loads /\ u.rows = ui.rows /\ u.sel = ui.sel
    BY <1>1 DEF At, Cancelled, Like, SamePage, Whole, TabFields, InDrawer, Tab
  <2> HIDE DEF u
  <2>4. Asked(Load, u)
    BY <1>1, <2>2, <2>3 DEF At, Asked, Edits, SameFilter, Loads
  <2>5. QED
    BY <1>1, <2>1, <2>4, AskedKeeps DEF At
<1>7. QED
  BY <1>2, <1>3, <1>4, <1>5, <1>6 DEF ApiKeysPage

LEMMA KeyCustomersLoadedKeeps ==
  ASSUME Tab, AtRest, NEW s \in Slots, KeyCustomersLoaded(s)
  PROVE  Tab' /\ AtRest'
<1>1. /\ At("keys") /\ Plain /\ Like(ui) /\ s \in ui.waits /\ net[s].kind = "load"
      /\ net[s].sel = NoItem /\ net[s].code \in {"ok", "failed"}
  BY DEF KeyCustomersLoaded, Answered, Plain, Editors, At, Like, SamePage, Tab
<1>2. ui.sel = NoItem /\ ui.for = {}
  BY <1>1 DEF At, Tab, Waits, Awaited, Filtered, Whole
<1>3. CASE Ok(s)
  <2> DEFINE u == [ui EXCEPT !.sel = FirstSel]
  <2>1. TakesAndLoads(s, u)
    BY <1>3 DEF KeyCustomersLoaded
  <2>2. /\ Whole([u EXCEPT !.loading = TRUE])
        /\ u.mounted /\ u.tags = ui.tags /\ u.crossed = ui.crossed /\ u.waits = ui.waits
    BY <1>1 DEF At, Like, SamePage, Whole, TabFields, InDrawer
  <2>3. \A t \in ui.waits \ {s} : net[t].kind # "load"
    BY <1>1 DEF At, Tab, Waits, Alone
  <2> HIDE DEF u
  <2>4. TakenLoading(s, u)
    BY <1>1, <2>2, <2>3 DEF TakenLoading, SameFilter, Plain
  <2>5. QED
    BY <1>1, <2>1, <2>4, ReloadKeeps DEF At
<1>4. CASE ~Ok(s)
  <2> DEFINE u == [ui EXCEPT !.loading = FALSE]
  <2>1. Takes(s, u)
    BY <1>4 DEF KeyCustomersLoaded
  <2>2. Like(u)
    BY <1>1, <1>2 DEF At, Like, SamePage, Whole, TabFields, InDrawer
  <2> HIDE DEF u
  <2>3. RowsNow(s, u.rows)
    BY <1>1, <1>4 DEF RowsNow, Writes
  <2>4. QED
    BY <1>1, <2>1, <2>2, <2>3, PlainTakes
<1>5. QED
  BY <1>3, <1>4

LEMMA ApiKeysAnswersKeep ==
  ASSUME Tab, AtRest, NEW s \in Slots, ApiKeysAnswers(s)
  PROVE  Tab' /\ AtRest'
<1>1. /\ At("keys") /\ Plain /\ Like(ui) /\ s \in ui.waits /\ net[s].code \in {"ok", "failed"}
      /\ net[s].kind \in Writes \cup {"load"}
  BY DEF ApiKeysAnswers, KeyCustomersLoaded, KeysLoaded, KeyCreated, KeyRevoked, Answered, Plain,
         Editors, At, Writes, Like, SamePage, Tab
<1>2. /\ net[s].val \in Table /\ Replaced(ui.rows, s) \in Table
      /\ net[s].kind \in Writes /\ Ok(s) => Added(ui.rows, s) \in Table
  BY <1>1, RowsOfAnswer DEF Ok
<1>3. CASE KeysLoaded(s)
  <2>1. /\ net[s].kind = "load" /\ "load" \notin Writes /\ net[s].sel = ui.sel
        /\ net[s].sel # NoItem
    BY <1>1, <1>3 DEF KeysLoaded, Answered, Writes, Tab, Waits, Awaited, Filtered, At
  <2> DEFINE x(rows) == [ui EXCEPT !.rows = rows, !.for = {ui.sel}, !.loading = FALSE]
  <2>2. PICK y \in {x(net[s].val), x(Empty)} : /\ Takes(s, [y EXCEPT !.made = {}])
                                               /\ Ok(s) => y = x(net[s].val)
    <3>1. CASE Ok(s)
      BY <1>3, <2>1, <3>1 DEF KeysLoaded, Loaded
    <3>2. CASE ~Ok(s)
      <4>1. Takes(s, [ui EXCEPT !.rows = Empty, !.for = {ui.sel}, !.made = {}, !.loading = FALSE])
        BY <1>3, <2>1, <3>2 DEF KeysLoaded
      <4>2. [ui EXCEPT !.rows = Empty, !.for = {ui.sel}, !.made = {}, !.loading = FALSE]
              = [x(Empty) EXCEPT !.made = {}]
        OBVIOUS
      <4>3. QED
        BY <3>2, <4>1, <4>2
    <3>3. QED
      BY <3>1, <3>2
  <2>3. \A rows \in Table : Like(x(rows)) /\ x(rows).rows = rows
    BY <1>1, <2>1, FilteredLike DEF At
  <2> HIDE DEF x
  <2>4. Like(y) /\ (Ok(s) => y.rows = net[s].val)
    BY <1>2, <2>2, <2>3, EmptyIsTable
  <2>5. PICK u : u = [y EXCEPT !.made = {}]
    OBVIOUS
  <2>6. Like(u) /\ (Ok(s) => u.rows = net[s].val)
    BY <2>4, <2>5 DEF Like, SamePage, Whole, TabFields, InDrawer
  <2>7. Takes(s, u)
    BY <2>2, <2>5
  <2>8. QED
    BY <1>1, <2>1, <2>6, <2>7, PlainTakes DEF RowsNow
<1>4. CASE KeyCreated(s)
  <2> DEFINE w == [ui EXCEPT !.saving = FALSE]
             u == [w EXCEPT !.view = "list", !.rows = Added(@, s), !.later = FALSE,
                            !.made = @ \cup {net[s].sel}]
  <2>1. net[s].kind \in Writes /\ net[s].kind # "remove" /\ net[s].kind # "load"
    BY <1>4 DEF KeyCreated, Answered, Writes
  <2>2. Like(w) /\ w.rows = ui.rows
    BY <1>1, SavingLike
  <2>3. IF ~Ok(s) THEN Takes(s, w)
        ELSE Takes(s, u) \/ TakesAndLoads(s, Cancelled(u))
    BY <1>4 DEF KeyCreated, KeysCancelled
  <2> HIDE DEF w
  <2>4. ASSUME Ok(s) PROVE Like(u) /\ u.rows = Added(ui.rows, s)
    BY <1>1, <1>2, <2>1, <2>2, <2>4 DEF At, Like, SamePage, Whole, TabFields, InDrawer
  <2> HIDE DEF u
  <2>5. CASE ~Ok(s)
    BY <1>1, <2>1, <2>2, <2>3, <2>5, PlainTakes DEF RowsNow
  <2>6. CASE Ok(s) /\ Takes(s, u)
    BY <1>1, <2>1, <2>4, <2>6, PlainTakes DEF RowsNow
  <2>7. CASE Ok(s) /\ TakesAndLoads(s, Cancelled(u))
    <3> DEFINE v == Cancelled(u)
    <3>1. /\ Whole([v EXCEPT !.loading = TRUE])
          /\ v.mounted /\ v.tags = ui.tags /\ v.crossed = ui.crossed
          /\ v.waits = ui.waits \ Loads
      BY <2>4, <2>7 DEF Cancelled, Like, SamePage, Whole, TabFields, InDrawer
    <3> HIDE DEF v
    <3>2. TakenLoading(s, v)
      BY <1>1, <3>1 DEF Plain, TakenLoading, SameFilter, Loads
    <3>3. QED
      BY <1>1, <2>7, <3>2, ReloadKeeps DEF At, v
  <2>8. QED
    BY <2>3, <2>5, <2>6, <2>7
<1>5. CASE KeyRevoked(s)
  <2>1. PICK u : /\ Takes(s, u)
                 /\ u = IF Ok(s) THEN [ui EXCEPT !.rows = Replaced(@, s)] ELSE ui
    BY <1>5 DEF KeyRevoked
  <2>2. net[s].kind \in Writes /\ net[s].kind # "remove" /\ net[s].kind # "load"
    BY <1>5 DEF KeyRevoked, Answered, Writes
  <2>3. /\ Like(u)
        /\ IF Ok(s) THEN u.rows = Replaced(ui.rows, s) ELSE u.rows = ui.rows
    BY <1>1, <1>2, <2>1, <2>2 DEF At, Like, SamePage, Whole, TabFields, InDrawer
  <2>4. QED
    BY <1>1, <2>1, <2>2, <2>3, PlainTakes DEF RowsNow
<1>6. QED
  BY <1>3, <1>4, <1>5, KeyCustomersLoadedKeeps DEF ApiKeysAnswers

-----------------------------------------------------------------------------
(* The plans.                                                              *)
LEMMA PlansPageKeeps ==
  ASSUME Tab, AtRest, PlansPage
  PROVE  Tab' /\ AtRest'
<1>1. At("plans") /\ Plain /\ Like(ui)
  BY DEF PlansPage, AddPlan, EditPlan, CancelPlan, SubmitPlan, DeactivatePlan, Plain, Editors, At,
         Like, SamePage, Tab
<1>2. CASE AddPlan \/ CancelPlan
  <2>1. PICK u \in {Blank(ui), [Closed(ui) EXCEPT !.of = NoItem]} : Shows(u)
    BY <1>2 DEF AddPlan, CancelPlan
  <2>2. Like(u) /\ u.rows = ui.rows
    <3>1. CASE u = Blank(ui)
      BY <1>1, <3>1, BlankLike DEF At
    <3>2. CASE u = [Closed(ui) EXCEPT !.of = NoItem]
      BY <1>1, <3>2, ClosedLike
    <3>3. QED
      BY <2>1, <3>1, <3>2
  <2>3. QED
    BY <1>1, <2>1, <2>2, PlainShows
<1>3. CASE EditPlan
  <2> DEFINE u(i) == [FormOf(ui, i, ui.rows[i]) EXCEPT !.view = "edit", !.open = i]
  <2>1. PICK i \in Items : Shows(u(i))
    BY <1>3 DEF EditPlan
  <2>2. ui.rows[i].hidden \in {"stored", "loose", "typed"}
    BY DEF Tab, Whole, Table, Live
  <2>3. Like(u(i)) /\ u(i).rows = ui.rows
    BY <1>1, <2>1, <2>2 DEF At, FormOf, Like, SamePage, Whole, TabFields, InDrawer
  <2> HIDE DEF u
  <2>4. QED
    BY <1>1, <2>1, <2>3, PlainShows
<1>4. CASE SubmitPlan
  <2> DEFINE q == Write(NewOrSave(ui), ui.open)
             u == [ui EXCEPT !.saving = TRUE]
  <2>1. Sent(q) /\ q.kind \in Writes
    <3>1. /\ NewOrSave(ui) \in Writes /\ ui.open \in Items \cup {NoItem} /\ Editors
          /\ NewOrSave(ui) # "create" => ui.open \in Items
      BY <1>1 DEF NewOrSave, Writes, Tab, Whole, Plain
    <3>2. QED
      BY <3>1, Writing
  <2>2. Asking(q, u) /\ Like(u) /\ u.rows = ui.rows
    BY <1>1, <1>4, SavingLike DEF SubmitPlan
  <2> HIDE DEF q, u
  <2>3. QED
    BY <1>1, <2>1, <2>2, PlainAsks
<1>5. CASE DeactivatePlan
  <2>1. PICK i \in Items : Asking(Write("patch", i), ui)
    BY <1>5 DEF DeactivatePlan
  <2>2. Sent(Write("patch", i)) /\ Write("patch", i).kind \in Writes
    BY <1>1, Writing DEF Plain, Writes
  <2>3. QED
    BY <1>1, <2>1, <2>2, PlainAsks
<1>6. QED
  BY <1>2, <1>3, <1>4, <1>5 DEF PlansPage

(* The load that follows an answer, of a page without filter.              *)
LEMMA LikeReloads ==
  ASSUME Plain, ~Filtered, NEW s \in Slots, NEW u, Like(u)
  PROVE  TakenLoading(s, u)
<1>1. Whole([u EXCEPT !.loading = TRUE])
  BY DEF Filtered, Like, SamePage, Whole, TabFields, InDrawer
<1>2. QED
  BY <1>1 DEF Plain, Like, SamePage, TakenLoading, SameFilter, Filtered

LEMMA PlansAnswersKeep ==
  ASSUME Tab, AtRest, NEW s \in Slots, PlansAnswers(s)
  PROVE  Tab' /\ AtRest'
<1>1. /\ At("plans") /\ Plain /\ Like(ui) /\ s \in ui.waits /\ net[s].code \in {"ok", "failed"}
      /\ net[s].kind \in Writes \cup {"load"} /\ ~Filtered
  BY DEF PlansAnswers, PlansLoaded, PlanSaved, PlanDeactivated, Answered, Plain, Editors, At,
         Writes, Like, SamePage, Tab, Filtered
<1>2. net[s].val \in Table
  BY <1>1, RowsOfAnswer
<1>3. CASE PlansLoaded(s)
  <2> DEFINE saving == ui.saving /\ net[s].from \notin {"create", "save"}
             w == Loaded(s, ui)
             u == [w EXCEPT !.saving = @ /\ net[s].from \notin {"create", "save"}]
  <2>1. Takes(s, u) /\ net[s].kind = "load" /\ "load" \notin Writes
    BY <1>3 DEF PlansLoaded, Answered, Writes
  <2>2. Like(w) /\ (Ok(s) => w.rows = net[s].val)
    BY <1>1, <1>2 DEF At, Loaded, Like, SamePage, Whole, TabFields, InDrawer
  <2> HIDE DEF w
  <2>3. Like(u) /\ (Ok(s) => u.rows = net[s].val)
    BY <1>1, <2>2 DEF At, Like, SamePage, Whole, TabFields, InDrawer
  <2> HIDE DEF u
  <2>4. QED
    BY <1>1, <2>1, <2>3, PlainTakes DEF RowsNow
<1>4. CASE PlanSaved(s)
  <2>1. CASE Ok(s)
    <3>1. TakesAndLoads(s, [Closed(ui) EXCEPT !.of = NoItem])
      BY <1>4, <2>1 DEF PlanSaved
    <3>2. TakenLoading(s, [Closed(ui) EXCEPT !.of = NoItem])
      BY <1>1, ClosedLike, LikeReloads
    <3>3. QED
      BY <1>1, <3>1, <3>2, ReloadKeeps DEF At
  <2>2. CASE ~Ok(s)
    <3> DEFINE u == [ui EXCEPT !.saving = FALSE]
    <3>1. Takes(s, u) /\ net[s].kind # "load" /\ Like(u) /\ u.rows = ui.rows
      BY <1>1, <1>4, <2>2, SavingLike DEF PlanSaved, Answered
    <3> HIDE DEF u
    <3>2. QED
      BY <1>1, <2>2, <3>1, PlainTakes DEF RowsNow
  <2>3. QED
    BY <2>1, <2>2
<1>5. CASE PlanDeactivated(s)
  <2>1. CASE Ok(s)
    BY <1>1, <1>5, <2>1, LikeReloads, ReloadKeeps DEF PlanDeactivated, At
  <2>2. CASE ~Ok(s)
    BY <1>1, <1>5, <2>2, PlainTakes DEF PlanDeactivated, Answered, RowsNow
  <2>3. QED
    BY <2>1, <2>2
<1>6. QED
  BY <1>3, <1>4, <1>5 DEF PlansAnswers

-----------------------------------------------------------------------------
(* The management keys.                                                    *)
LEMMA ManagementKeysPageKeeps ==
  ASSUME Tab, AtRest, ManagementKeysPage
  PROVE  Tab' /\ AtRest'
<1>1. At("mgmt") /\ Plain /\ Like(ui)
  BY DEF ManagementKeysPage, AddMgmtKey, EditMgmtKey, CancelMgmtKey, SubmitMgmtKey, RevokeMgmtKey,
         Plain, Editors, At, Like, SamePage, Tab
<1>2. CASE AddMgmtKey \/ CancelMgmtKey
  <2>1. PICK u \in {Blank(ui), FormReset(ui)} : Shows(u)
    BY <1>2 DEF AddMgmtKey, CancelMgmtKey
  <2>2. Like(u) /\ u.rows = ui.rows
    BY <1>1, <2>1, BlankLike, ClosedLike DEF At
  <2>3. QED
    BY <1>1, <2>1, <2>2, PlainShows
<1>3. CASE EditMgmtKey
  <2> DEFINE u(i) == [FormOf(ui, i, ui.rows[i]) EXCEPT !.view = "edit", !.open = i]
  <2>1. PICK i \in Items : Shows(u(i))
    BY <1>3 DEF EditMgmtKey
  <2>2. ui.rows[i].hidden \in {"stored", "loose", "typed"}
    BY DEF Tab, Whole, Table, Live
  <2>3. Like(u(i)) /\ u(i).rows = ui.rows
    BY <1>1, <2>1, <2>2 DEF At, FormOf, Like, SamePage, Whole, TabFields, InDrawer
  <2> HIDE DEF u
  <2>4. QED
    BY <1>1, <2>1, <2>3, PlainShows
<1>4. CASE SubmitMgmtKey
  <2> DEFINE hidden == IF ui.open = NoItem THEN "typed" ELSE ui.rows[ui.open].hidden
             q == [Write(NewOrSave(ui), ui.open) EXCEPT !.hidden = hidden]
             u == [ui EXCEPT !.saving = TRUE]
  <2>1. Sent(q) /\ q.kind \in Writes
    <3>1. /\ NewOrSave(ui) \in Writes /\ ui.open \in Items \cup {NoItem} /\ Editors
          /\ NewOrSave(ui) # "create" => ui.open \in Items
      BY <1>1 DEF NewOrSave, Writes, Tab, Whole, Plain
    <3>2. hidden \in {"omit", "typed", "loose", "stored"}
      BY <3>1 DEF Tab, Whole, Table, Live
    <3>3. Sent(Write(NewOrSave(ui), ui.open)) /\ Write(NewOrSave(ui), ui.open).kind \in Writes
      BY <3>1, Writing
    <3> HIDE DEF hidden
    <3>4. QED
      BY <3>2, <3>3, HiddenSent
  <2>2. Asking(q, u) /\ Like(u) /\ u.rows = ui.rows
    BY <1>1, <1>4, SavingLike DEF SubmitMgmtKey
  <2> HIDE DEF q, u
  <2>3. QED
    BY <1>1, <2>1, <2>2, PlainAsks
<1>5. CASE RevokeMgmtKey
  <2>1. PICK i \in Items : Asking(Write("patch", i), ui)
    BY <1>5 DEF RevokeMgmtKey
  <2>2. Sent(Write("patch", i)) /\ Write("patch", i).kind \in Writes
    BY <1>1, Writing DEF Plain, Writes
  <2>3. QED
    BY <1>1, <2>1, <2>2, PlainAsks
<1>6. QED
  BY <1>2, <1>3, <1>4, <1>5 DEF ManagementKeysPage

LEMMA ManagementKeysAnswersKeep ==
  ASSUME Tab, AtRest, NEW s \in Slots, ManagementKeysAnswers(s)
  PROVE  Tab' /\ AtRest'
<1>1. /\ At("mgmt") /\ Plain /\ Like(ui) /\ s \in ui.waits /\ net[s].code \in {"ok", "failed"}
      /\ net[s].kind \in Writes \cup {"load"}
  BY DEF ManagementKeysAnswers, MgmtKeysLoaded, MgmtKeySaved, MgmtKeyRevoked, Answered, Plain,
         Editors, At, Writes, Like, SamePage, Tab
<1>2. /\ net[s].val \in Table /\ Replaced(ui.rows, s) \in Table
      /\ net[s].kind \in Writes /\ Ok(s) => Added(ui.rows, s) \in Table
  BY <1>1, RowsOfAnswer DEF Ok
<1>3. CASE MgmtKeysLoaded(s)
  <2> DEFINE u == Loaded(s, ui)
  <2>1. Takes(s, u) /\ net[s].kind = "load" /\ "load" \notin Writes
    BY <1>3 DEF MgmtKeysLoaded, Answered, Writes
  <2>2. Like(u) /\ (Ok(s) => u.rows = net[s].val)
    BY <1>1, <1>2 DEF At, Loaded, Like, SamePage, Whole, TabFields, InDrawer
  <2> HIDE DEF u
  <2>3. QED
    BY <1>1, <2>1, <2>2, PlainTakes DEF RowsNow
<1>4. CASE MgmtKeySaved(s)
  <2> DEFINE w == [ui EXCEPT !.saving = FALSE]
             x == [w EXCEPT !.rows = IF net[s].kind = "create"
                                     THEN Added(@, s) ELSE Replaced(@, s)]
  <2>1. PICK u : /\ Takes(s, u)
                 /\ u = IF Ok(s) THEN FormReset(x) ELSE w
    BY <1>4 DEF MgmtKeySaved
  <2>2. net[s].kind \in Writes /\ net[s].kind # "remove" /\ net[s].kind # "load"
    BY <1>4 DEF MgmtKeySaved, Answered, Writes
  <2>3. Like(w) /\ w.rows = ui.rows
    BY <1>1, SavingLike
  <2> HIDE DEF w
  <2>4. Ok(s) => Like(x) /\ x.rows \in {Added(ui.rows, s), Replaced(ui.rows, s)}
    BY <1>1, <1>2, <2>2, <2>3 DEF At, Like, SamePage, Whole, TabFields, InDrawer
  <2> HIDE DEF x
  <2>5. /\ Like(u)
        /\ IF Ok(s) THEN u.rows \in {Added(ui.rows, s), Replaced(ui.rows, s)}
                    ELSE u.rows = ui.rows
    BY <2>1, <2>3, <2>4, ClosedLike
  <2>6. QED
    BY <1>1, <2>1, <2>2, <2>5, PlainTakes DEF RowsNow
<1>5. CASE MgmtKeyRevoked(s)
  <2>1. PICK u : /\ Takes(s, u)
                 /\ u = IF Ok(s) THEN [ui EXCEPT !.rows = Replaced(@, s)] ELSE ui
    BY <1>5 DEF MgmtKeyRevoked
  <2>2. net[s].kind \in Writes /\ net[s].kind # "remove" /\ net[s].kind # "load"
    BY <1>5 DEF MgmtKeyRevoked, Answered, Writes
  <2>3. /\ Like(u)
        /\ IF Ok(s) THEN u.rows = Replaced(ui.rows, s) ELSE u.rows = ui.rows
    BY <1>1, <1>2, <2>1, <2>2 DEF At, Like, SamePage, Whole, TabFields, InDrawer
  <2>4. QED
    BY <1>1, <2>1, <2>2, <2>3, PlainTakes DEF RowsNow
<1>6. QED
  BY <1>3, <1>4, <1>5 DEF ManagementKeysAnswers

-----------------------------------------------------------------------------
(* The invites.                                                            *)
LEMMA SettingsPageKeeps ==
  ASSUME Tab, AtRest, SettingsPage
  PROVE  Tab' /\ AtRest'
<1>1. At("settings") /\ Plain /\ Like(ui)
  BY DEF SettingsPage, Invite, RevokeInvite, Plain, Editors, At, Like, SamePage, Tab
<1>2. CASE Invite
  <2> DEFINE u == [ui EXCEPT !.saving = TRUE]
  <2>1. Sent(Write("create", NoItem)) /\ Write("create", NoItem).kind \in Writes
    BY <1>1, Writing DEF Plain, Writes
  <2>2. Asking(Write("create", NoItem), u) /\ Like(u) /\ u.rows = ui.rows
    BY <1>1, <1>2, SavingLike DEF Invite
  <2> HIDE DEF u
  <2>3. QED
    BY <1>1, <2>1, <2>2, PlainAsks
<1>3. CASE RevokeInvite
  <2>1. PICK i \in Items : Asking(Write("remove", i), ui)
    BY <1>3 DEF RevokeInvite
  <2>2. Sent(Write("remove", i)) /\ Write("remove", i).kind \in Writes
    BY <1>1, Writing DEF Plain, Writes
  <2>3. QED
    BY <1>1, <2>1, <2>2, PlainAsks
<1>4. QED
  BY <1>2, <1>3 DEF SettingsPage

LEMMA SettingsAnswersKeep ==
  ASSUME Tab, AtRest, NEW s \in Slots, SettingsAnswers(s)
  PROVE  Tab' /\ AtRest'
<1>1. /\ At("settings") /\ Plain /\ Like(ui) /\ s \in ui.waits
      /\ net[s].code \in {"ok", "failed"} /\ net[s].kind \in Writes \cup {"load"}
  BY DEF SettingsAnswers, InvitesLoaded, Invited, InviteRevoked, Answered, Plain, Editors, At,
         Writes, Like, SamePage, Tab
<1>2. /\ net[s].val \in Table
      /\ net[s].kind \in Writes /\ Ok(s) =>
           Added(ui.rows, s) \in Table /\ Without(ui.rows, net[s].item) \in Table
  BY <1>1, RowsOfAnswer DEF Ok
<1>3. CASE InvitesLoaded(s)
  <2> DEFINE u == Loaded(s, ui)
  <2>1. Takes(s, u) /\ net[s].kind = "load" /\ "load" \notin Writes
    BY <1>3 DEF InvitesLoaded, Answered, Writes
  <2>2. Like(u) /\ (Ok(s) => u.rows = net[s].val)
    BY <1>1, <1>2 DEF At, Loaded, Like, SamePage, Whole, TabFields, InDrawer
  <2> HIDE DEF u
  <2>3. QED
    BY <1>1, <2>1, <2>2, PlainTakes DEF RowsNow
<1>4. CASE Invited(s)
  <2> DEFINE w == [ui EXCEPT !.saving = FALSE]
  <2>1. PICK u : Takes(s, u) /\ u = IF Ok(s) THEN [w EXCEPT !.rows = Added(@, s)] ELSE w
    BY <1>4 DEF Invited
  <2>2. net[s].kind \in Writes /\ net[s].kind # "remove" /\ net[s].kind # "load"
    BY <1>4 DEF Invited, Answered, Writes
  <2>3. Like(w) /\ w.rows = ui.rows
    BY <1>1, SavingLike
  <2> HIDE DEF w
  <2>4. /\ Like(u)
        /\ IF Ok(s) THEN u.rows = Added(ui.rows, s) ELSE u.rows = ui.rows
    BY <1>1, <1>2, <2>1, <2>2, <2>3 DEF At, Like, SamePage, Whole, TabFields, InDrawer
  <2>5. QED
    BY <1>1, <2>1, <2>2, <2>4, PlainTakes DEF RowsNow
<1>5. CASE InviteRevoked(s)
  <2>1. PICK u : /\ Takes(s, u)
                 /\ u = IF Ok(s) THEN [ui EXCEPT !.rows = Without(@, net[s].item)] ELSE ui
    BY <1>5 DEF InviteRevoked
  <2>2. net[s].kind \in Writes /\ net[s].kind # "load"
    BY <1>5 DEF InviteRevoked, Answered, Writes
  <2>3. /\ Like(u)
        /\ IF Ok(s) THEN u.rows = Without(ui.rows, net[s].item) ELSE u.rows = ui.rows
    BY <1>1, <1>2, <2>1, <2>2 DEF At, Like, SamePage, Whole, TabFields, InDrawer
  <2>4. QED
    BY <1>1, <2>1, <2>2, <2>3, PlainTakes DEF RowsNow
<1>6. QED
  BY <1>3, <1>4, <1>5 DEF SettingsAnswers

-----------------------------------------------------------------------------
(* The organizations and the figures, which edit no rows.                  *)
Viewer == ~Editors /\ ~Filtered /\ ui.mounted

LEMMA ViewerAsks ==
  ASSUME Tab, AtRest, Viewer, NEW u, SamePage(u), u.waits = ui.waits, u.rows = ui.rows,
         NEW q, Sent(q), Asking(q, u)
  PROVE  Tab' /\ AtRest'
<1>1. Asked(q, u)
  BY DEF Viewer, Asked, Edits, SameFilter, Editors, Filtered
<1>2. QED
  BY <1>1, AskedKeeps DEF Viewer

LEMMA ViewerTakes ==
  ASSUME Tab, AtRest, Viewer, NEW s \in ui.waits, NEW u, SamePage(u), u.waits = ui.waits,
         \/ u.rows \in {ui.rows, Empty}
         \/ net[s].kind = "load" /\ net[s].code = "ok" /\ u.rows = net[s].val,
         Takes(s, u)
  PROVE  Tab' /\ AtRest'
<1>1. s \in Slots
  BY DEF Tab, Waits
<1>2. Current(u.rows)
  BY <1>1 DEF Viewer, AtRest, Rest, Current, Empty
<1>3. Taken(s, u)
  BY <1>2 DEF Viewer, Taken, SameFilter
<1>4. QED
  BY <1>3, TakenKeeps DEF Viewer

(* A request as it leaves, whatever it asks for.                           *)
Leaves(q, kind, token) ==
    /\ RequestFields \subseteq DOMAIN q
    /\ q.kind = kind /\ q.token = token /\ q.shown = user /\ q.code = "sent"
    /\ q.item = NoItem /\ IsToken(q.grant) /\ q.hidden = "omit" /\ q.val \in Table

LEMMA RequestLeaves ==
  ASSUME NEW kind, NEW token
  PROVE  Leaves(Request(kind, token), kind, token) /\ Request(kind, token).from = NoItem
  BY EmptyIsTable, TokenNone DEF Leaves, Request, Idle, RequestFields

LEMMA MoveLeaves ==
  ASSUME NEW q, NEW kind \in Moves, NEW token, IsToken(token), Leaves(q, kind, token),
         NEW to \in Orgs
  PROVE  /\ Leaves([q EXCEPT !.to = to], kind, token) /\ [q EXCEPT !.to = to].from = q.from
         /\ IsRequest([q EXCEPT !.to = to])
  BY DEF Leaves, IsRequest, RequestFields, Codes, Moves, AuthKinds, PageKinds, Writes

LEMMA FromLeaves ==
  ASSUME NEW q, NEW kind \in Moves, NEW token, Leaves(q, kind, token), IsRequest(q), NEW from
  PROVE  Leaves([q EXCEPT !.from = from], kind, token) /\ IsRequest([q EXCEPT !.from = from])
  BY DEF Leaves, IsRequest, RequestFields

LEMMA CreateOrganizationKeeps ==
  ASSUME Tab, AtRest, CreateOrganization
  PROVE  Tab' /\ AtRest'
<1> DEFINE u == [ui EXCEPT !.saving = TRUE]
           q(o) == [Request("createOrg", stored) EXCEPT !.to = o]
<1>1. At("organizations") /\ Viewer
  BY DEF CreateOrganization, At, Viewer, Editors, Filtered
<1>2. PICK o \in Unborn : Asking(q(o), u)
  BY DEF CreateOrganization
<1>3. o \in Orgs
  OBVIOUS
<1>4. Sent(q(o))
  <2>0. "createOrg" \in Moves /\ IsToken(stored)
    BY DEF Tab, Stores, Moves
  <2>1. /\ IsRequest(q(o)) /\ q(o).kind = "createOrg" /\ q(o).shown = user
        /\ q(o).token = stored /\ q(o).code = "sent"
    <3>1. Leaves(q(o), "createOrg", stored) /\ IsRequest(q(o))
      BY <1>3, <2>0, RequestLeaves, MoveLeaves
    <3>2. QED
      BY <3>1 DEF Leaves
  <2> HIDE DEF q
  <2>2. QED
    BY <1>1, <2>1 DEF Sent, PageKinds, Writes, At
<1>5. SamePage(u) /\ u.waits = ui.waits /\ u.rows = ui.rows
  BY <1>1 DEF At, SamePage, Whole, TabFields, InDrawer, Tab
<1> HIDE DEF u, q
<1>6. QED
  BY <1>1, <1>2, <1>4, <1>5, ViewerAsks

LEMMA PickRangeKeeps ==
  ASSUME Tab, AtRest, PickRange
  PROVE  Tab' /\ AtRest'
<1> DEFINE u(x) == [ui EXCEPT !.sel = x, !.loading = TRUE]
           q(x) == [Load EXCEPT !.sel = x]
<1>1. At("analytics") /\ Viewer
  BY DEF PickRange, At, Viewer, Editors, Filtered
<1>2. PICK x \in Sels : Asking(q(x), u(x))
  BY DEF PickRange
<1>3. Sent(q(x))
  BY FirstLoad, FilterSent
<1>4. SamePage(u(x)) /\ u(x).waits = ui.waits /\ u(x).rows = ui.rows
  BY <1>1 DEF At, SamePage, Whole, TabFields, InDrawer, Tab
<1> HIDE DEF u, q
<1>5. QED
  BY <1>1, <1>2, <1>3, <1>4, ViewerAsks

LEMMA ViewerLoadedKeeps ==
  ASSUME Tab, AtRest, NEW s \in Slots, OrganizationsLoaded(s) \/ SummaryLoaded(s)
  PROVE  Tab' /\ AtRest'
<1>1. /\ At("organizations") \/ At("analytics")
      /\ Viewer /\ s \in ui.waits /\ net[s].kind = "load"
  BY DEF OrganizationsLoaded, SummaryLoaded, Answered, At, Viewer, Editors, Filtered
<1>2. net[s].val \in Table /\ Empty \in Table
  BY <1>1, RowsOfAnswer, EmptyIsTable
<1>3. PICK u : /\ Takes(s, u)
               /\ \/ u = Loaded(s, ui)
                  \/ u = [ui EXCEPT !.rows = Empty, !.for = {}, !.loading = FALSE]
  BY DEF OrganizationsLoaded, SummaryLoaded
<1>4. /\ SamePage(u) /\ u.waits = ui.waits
      /\ u.rows \in {ui.rows, Empty} \/ (net[s].code = "ok" /\ u.rows = net[s].val)
  <2>1. CASE u = Loaded(s, ui)
    BY <1>1, <1>2, <2>1
       DEF At, Loaded, Ok, SamePage, Whole, TabFields, InDrawer, Tab
  <2>2. CASE u = [ui EXCEPT !.rows = Empty, !.for = {}, !.loading = FALSE]
    BY <1>1, <1>2, <2>2 DEF At, SamePage, Whole, TabFields, InDrawer, Tab
  <2>3. QED
    BY <1>3, <2>1, <2>2
<1>5. QED
  BY <1>1, <1>3, <1>4, ViewerTakes

LEMMA OrganizationCreatedKeeps ==
  ASSUME Tab, AtRest, NEW s \in Slots, OrganizationCreated(s)
  PROVE  Tab' /\ AtRest'
<1> DEFINE done == [ui EXCEPT !.waits = @ \ {s}, !.tags = @ \cup {net[s].shown}]
           to == net[s].to
           switch == [Request("switch", net[s].grant) EXCEPT !.to = to, !.from = "createOrg"]
           n == Drop(s)
           slot == NextSlot(n)
<1>1. /\ At("organizations") /\ Viewer /\ s \in ui.waits /\ net[s].kind = "createOrg"
      /\ UNCHANGED <<sessions, setup, user, loading, needsSetup, doc, spent, site>>
  BY DEF OrganizationCreated, Answered, At, Viewer, Editors, Filtered
<1>2. /\ net[s].shown = user /\ IsToken(net[s].grant) /\ to \in Orgs
      /\ ui.tags \subseteq {user} /\ OutletKey # NoOrg /\ ui.mounted
  BY <1>1 DEF Tab, Waits, Awaited, Requests, OfRequests, IsRequest, Moves, Mounted, At
<1>3. /\ done.waits = ui.waits \ {s} /\ done.sel = ui.sel /\ done.mounted /\ done.rows = ui.rows
      /\ done.tags = ui.tags \cup {user} /\ TabFields \subseteq DOMAIN done /\ Whole(done)
  BY <1>1, <1>2 DEF At, Whole, TabFields, InDrawer, Tab
<1>4. /\ \A t \in Slots : t # s => n[t] = net[t]
      /\ n[s] = Idle /\ OfRequests(n) /\ s \in Free(n)
  BY DropSlots DEF Tab
<1>5. /\ IsRequest(switch) /\ switch.kind = "switch" /\ switch.shown = user
  <2>1. "switch" \in Moves
    BY DEF Moves
  <2>2. QED
    <3> DEFINE r == Request("switch", net[s].grant)
               m == [r EXCEPT !.to = to]
    <3>1. Leaves(m, "switch", net[s].grant) /\ IsRequest(m)
      BY <1>2, <2>1, RequestLeaves, MoveLeaves
    <3>2. switch = [m EXCEPT !.from = "createOrg"]
      OBVIOUS
    <3> HIDE DEF m, switch
    <3>3. Leaves(switch, "switch", net[s].grant) /\ IsRequest(switch)
      BY <2>1, <3>1, <3>2, FromLeaves
    <3>4. QED
      BY <3>3 DEF Leaves
<1>6. /\ slot \in Slots /\ n[slot].kind = "idle" /\ Put(n, switch)[slot] = switch
      /\ \A t \in Slots : t # slot => Put(n, switch)[t] = n[t]
      /\ OfRequests(Put(n, switch))
  BY <1>4, <1>5, PutSlots
<1>7. \/ /\ stored' = net[s].grant /\ net' = Put(n, switch) /\ ui' = Waiting(done, n, switch)
         /\ excused' = (excused \/ Races(net'))
      \/ /\ net' = n /\ ui' = [done EXCEPT !.saving = FALSE] /\ UNCHANGED <<stored, excused>>
  BY DEF OrganizationCreated, SetToken
<1> HIDE DEF done, switch, n
<1>8. /\ Whole(ui') /\ ui'.rows = ui.rows /\ ui'.sel = ui.sel /\ ui'.mounted
      /\ ui'.tags = ui.tags \cup {user}
      /\ ui'.waits \subseteq (ui.waits \ {s}) \cup {slot}
      /\ slot \in ui'.waits => slot \in ui.waits \ {s} \/ net' = Put(n, switch)
  <2>1. CASE ui' = Waiting(done, n, switch) /\ net' = Put(n, switch)
    BY <1>3, <2>1, WaitingFields, WaitingWhole
  <2>2. CASE ui' = [done EXCEPT !.saving = FALSE]
    BY <1>3, <2>2 DEF Whole, TabFields, InDrawer
  <2>3. QED
    BY <1>7, <2>1, <2>2
<1> HIDE DEF slot
<1>9. /\ \A t \in Slots : t # s /\ t # slot => net'[t] = net[t]
      /\ net'[s] \in {Idle, switch} /\ net'[slot] \in {n[slot], switch}
      /\ OfRequests(net')
  BY <1>4, <1>6, <1>7
<1>10. n[slot] \in {net[slot], Idle}
  BY <1>4, <1>6
<1>11. \A t \in Slots : net'[t] \in {net[t], Idle, switch}
  BY <1>9, <1>10
<1>12. \A t \in ui.waits \ {s} : t \in Slots /\ t # slot /\ net'[t] = net[t]
  BY <1>4, <1>6, <1>9 DEF Tab, Waits, Awaited, PageKinds, Writes
<1>13. Stores'
  <2>1. excused' \in BOOLEAN /\ IsToken(stored')
    BY <1>2, <1>7 DEF Tab, Stores, Races
  <2>2. IsToken(stored)'
    BY <2>1 DEF IsToken
  <2>3. QED
    BY <1>1, <2>1, <2>2 DEF Tab, Stores
<1>14. Whole(ui)'
  BY <1>1, <1>8 DEF Whole, InDrawer
<1>15. Waits'
  <2>1. \A t \in ui'.waits : t \in Slots /\ Awaited(net[t], ui.sel)'
    <3> SUFFICES ASSUME NEW t \in ui'.waits PROVE t \in Slots /\ Awaited(net[t], ui.sel)'
      OBVIOUS
    <3>1. CASE t \in ui.waits \ {s}
      BY <1>1, <1>8, <1>12, <3>1 DEF Tab, Waits, Awaited, Filtered, At
    <3>2. CASE t \notin ui.waits \ {s}
      <4>1. t = slot /\ net'[t] = switch
        BY <1>6, <1>8, <3>2
      <4>2. QED
        BY <1>1, <1>5, <1>6, <4>1 DEF Awaited, Filtered, At
    <3>3. QED
      BY <3>1, <3>2
  <2>2. Alone(ui, net)'
    BY <1>1 DEF Alone, At
  <2>3. QED
    BY <2>1, <2>2 DEF Waits
<1>16. Mounted'
  <2>1. OutletKey' = OutletKey
    BY <1>1 DEF OutletKey, View, Guarded, Permitted
  <2>2. QED
    BY <1>1, <1>2, <1>8, <2>1 DEF Mounted
<1>17. Revised'
  <2>1. Pending' \subseteq Pending
    BY <1>5, <1>11, IdleIsRequest DEF Pending, Writes
  <2>2. QED
    BY <1>1, <2>1, RevisedKept
<1>18. Kinds' /\ Never' /\ Tokens'
  BY <1>1, <1>5, <1>11, IdleIsRequest DEF AtRest, Kinds, Never, Tokens, Editors, Writes, At
<1>19. Rest'
  <2>1. \A t \in Slots : net'[t].kind = "load" /\ net'[t].code = "ok" => Current(net'[t].val)
    BY <1>1, <1>5, <1>11, IdleIsRequest DEF AtRest, Rest, Viewer
  <2>2. \A t \in Slots : (net[t].kind = "load" /\ net[t].code = "ok" => Current(net[t].val))'
    BY <1>1, <2>1 DEF Current
  <2>3. Current(ui.rows)'
    BY <1>1, <1>8 DEF AtRest, Rest, Viewer, Current
  <2>4. QED
    BY <1>1, <2>2, <2>3 DEF Rest, Editors, At
<1>20. QED
  BY <1>9, <1>13, <1>14, <1>15, <1>16, <1>17, <1>18, <1>19 DEF Tab, Requests, AtRest

-----------------------------------------------------------------------------
(* The requests of the playground.                                         *)
LEMMA StreamIsRequest ==
  ASSUME Tab
  PROVE  LET q == Request("stream", stored) IN
         IsRequest(q) /\ q.kind = "stream" /\ q.shown = user
  BY NewRequest DEF Tab, Stores, PageKinds, Moves, Writes

(* A step that sends streams or ends them.                                 *)
Streams(waits, tags) ==
    /\ At("playground")
    /\ ui' = [ui EXCEPT !.waits = waits, !.tags = tags]
    /\ tags \subseteq {user} /\ waits \subseteq Slots
    /\ UNCHANGED <<sessions, setup, stored, user, loading, needsSetup, doc, site>>
    /\ UNCHANGED excused \/ excused' = (excused \/ Races(net'))
    /\ Own
    /\ OfRequests(net')
    /\ \A s \in Slots : \/ net'[s] = net[s] \/ net'[s] = Idle
                        \/ net'[s].kind = "stream" /\ net'[s].shown = user
    /\ \A s \in waits : \/ s \in ui.waits /\ net'[s] = net[s]
                        \/ net'[s].kind = "stream" /\ net'[s].shown = user

LEMMA StreamsKeep ==
  ASSUME Tab, AtRest, NEW waits, NEW tags, Streams(waits, tags)
  PROVE  Tab' /\ AtRest'
<1> USE DEF Streams
<1>1. /\ ui'.waits = waits /\ ui'.tags = tags /\ ui'.mounted /\ ui'.rows = ui.rows
      /\ ui'.sel = ui.sel
  BY DEF At, Tab, Whole, TabFields
<1>2. Stores'
  <2>1. excused' \in BOOLEAN
    BY DEF Tab, Stores, Races
  <2>2. /\ {"failures", "foreign", "own"} \subseteq DOMAIN spent'
        /\ spent'.failures \in Nat /\ spent'.foreign \in Nat /\ spent'.own \in 0..MaxOwn
    BY DEF Tab, Stores, Own, Spends
  <2>3. QED
    BY <2>1, <2>2 DEF Tab, Stores
<1>3. Whole(ui')
  BY DEF At, Tab, Whole, TabFields, InDrawer
<1>4. Whole(ui)'
  BY <1>3 DEF Whole, InDrawer
<1>5. Waits'
  <2>1. \A s \in waits : Awaited(net[s], ui.sel)'
    BY <1>1 DEF At, Tab, Waits, Awaited, Filtered, PageKinds
  <2>2. QED
    BY <1>1, <2>1 DEF Waits, Alone, At
<1>6. Mounted'
  <2>1. OutletKey' = OutletKey
    BY DEF OutletKey, View, Guarded, Permitted
  <2>2. QED
    BY <1>1, <2>1 DEF Mounted, At
<1>7. Revised'
  <2>1. Pending' \subseteq Pending
    BY IdleIsRequest DEF Pending, Writes
  <2>2. QED
    BY <2>1, RevisedKept
<1>8. Kinds' /\ Never' /\ Tokens'
  BY IdleIsRequest DEF AtRest, Kinds, Never, Tokens, Editors, Writes, Own, Spends, At
<1>9. Rest'
  <2>1. ~Editors
    BY DEF At, Editors
  <2>2. \A t \in Slots : net'[t].kind = "load" /\ net'[t].code = "ok" => Current(net'[t].val)
    BY <2>1, IdleIsRequest DEF AtRest, Rest
  <2>3. \A t \in Slots : (net[t].kind = "load" /\ net[t].code = "ok" => Current(net[t].val))'
    BY <2>2 DEF Current
  <2>4. Current(ui.rows)'
    BY <1>1, <2>1 DEF AtRest, Rest, Current
  <2>5. QED
    BY <2>1, <2>3, <2>4 DEF Rest, Editors
<1>10. QED
  BY <1>2, <1>4, <1>5, <1>6, <1>7, <1>8, <1>9 DEF Tab, Requests, OfRequests, AtRest

LEMMA SendKeeps ==
  ASSUME Tab, AtRest, Send
  PROVE  Tab' /\ AtRest'
<1> DEFINE places == {f \in [chat.picked -> Free(net)] :
                         \A a, b \in chat.picked : f[a] = f[b] => a = b}
           slot == CHOOSE f \in places : TRUE
           asks == {slot[a] : a \in chat.picked}
           q == Request("stream", stored)
<1>1. places # {} /\ At("playground") /\ Own
      /\ net' = [s \in Slots |-> IF s \in asks THEN q ELSE net[s]]
      /\ excused' = (excused \/ Races(net'))
      /\ Keeping([ui EXCEPT !.waits = @ \cup asks, !.tags = @ \cup {user}])
  BY DEF Send, Conversing
<1>2. slot \in places
  BY <1>1
<1>3. asks \subseteq Free(net)
  BY <1>2
<1> HIDE DEF places, slot, asks
<1>4. IsRequest(q) /\ q.kind = "stream" /\ q.shown = user
  BY StreamIsRequest
<1> HIDE DEF q
<1>5. /\ OfRequests(net')
      /\ \A s \in Slots : net'[s] = IF s \in asks THEN q ELSE net[s]
  <2>1. \A s \in Slots : net'[s] = IF s \in asks THEN q ELSE net[s]
    BY <1>1
  <2>2. \A s \in Slots : IsRequest(net'[s])
    BY <1>4, <2>1 DEF Tab, Requests, OfRequests
  <2>3. net' = [s \in Slots |-> net'[s]]
    BY <1>1
  <2>4. QED
    BY <2>1, <2>2, <2>3 DEF OfRequests
<1>6. asks \subseteq Slots /\ \A s \in ui.waits : s \notin asks /\ s \in Slots
  BY <1>3 DEF Free, Tab, Waits, Awaited, PageKinds, Writes
<1>7. ui.tags \subseteq {user}
  BY <1>1 DEF At, Tab, Mounted
<1>8. Streams(ui.waits \cup asks, ui.tags \cup {user})
  BY <1>1, <1>4, <1>5, <1>6, <1>7 DEF Streams, Keeping
<1>9. QED
  BY <1>8, StreamsKeep

LEMMA StopStreamKeeps ==
  ASSUME Tab, AtRest, StopStream
  PROVE  Tab' /\ AtRest'
<1> DEFINE open == Open(chat, chat.abort)
           slots == {t.slot : t \in open}
<1>1. /\ At("playground") /\ Own /\ UNCHANGED excused
      /\ net' = [s \in Slots |-> IF s \in slots THEN Idle ELSE net[s]]
      /\ Keeping([ui EXCEPT !.waits = @ \ slots])
  BY DEF StopStream, Conversing
<1> HIDE DEF open, slots
<1>2. /\ OfRequests(net')
      /\ \A s \in Slots : net'[s] = IF s \in slots THEN Idle ELSE net[s]
  <2>1. \A s \in Slots : net'[s] = IF s \in slots THEN Idle ELSE net[s]
    BY <1>1
  <2>2. \A s \in Slots : IsRequest(net'[s])
    BY <2>1, IdleIsRequest DEF Tab, Requests, OfRequests
  <2>3. net' = [s \in Slots |-> net'[s]]
    BY <1>1
  <2>4. QED
    BY <2>1, <2>2, <2>3 DEF OfRequests
<1>3. ui.waits \subseteq Slots /\ ui.tags \subseteq {user} /\ TabFields \subseteq DOMAIN ui
  BY <1>1 DEF At, Tab, Mounted, Waits, Whole
<1>4. ui' = [ui EXCEPT !.waits = ui.waits \ slots, !.tags = ui.tags]
  BY <1>1, <1>3 DEF Keeping, TabFields
<1>5. Streams(ui.waits \ slots, ui.tags)
  BY <1>1, <1>2, <1>3, <1>4 DEF Streams, Keeping
<1>6. QED
  BY <1>5, StreamsKeep

LEMMA PlaygroundPageKeeps ==
  ASSUME Tab, AtRest, PlaygroundPage
  PROVE  Tab' /\ AtRest'
<1>1. CASE PickModels \/ ClearConversation
  <2>1. At("playground") /\ Shows(ui)
    BY <1>1 DEF PickModels, ClearConversation, Conversing
  <2>2. Shown(ui)
    BY <2>1 DEF At, Shown, SamePage, SameFilter, Edits, Filtered, Tab
  <2>3. QED
    BY <2>1, <2>2, ShowsKeeps DEF At
<1>2. QED
  BY <1>1, SendKeeps, StopStreamKeeps DEF PlaygroundPage

LEMMA PlaygroundAnswersKeep ==
  ASSUME Tab, AtRest, NEW s \in Slots, PlaygroundAnswers(s)
  PROVE  Tab' /\ AtRest'
<1>1. At("playground") /\ Viewer /\ s \in ui.waits
  BY DEF PlaygroundAnswers, PlaygroundLoaded, StreamEnded, Answered, Conversing, At, Viewer,
         Editors, Filtered
<1>2. CASE PlaygroundLoaded(s)
  <2> DEFINE u == Loaded(s, ui)
  <2>1. Takes(s, u) /\ net[s].kind = "load" /\ net[s].val \in Table
    BY <1>1, <1>2, RowsOfAnswer DEF PlaygroundLoaded, Answered
  <2>2. /\ SamePage(u) /\ u.waits = ui.waits
        /\ u.rows = ui.rows \/ (net[s].code = "ok" /\ u.rows = net[s].val)
    BY <1>1, <2>1 DEF At, Loaded, Ok, SamePage, Whole, TabFields, InDrawer, Tab
  <2> HIDE DEF u
  <2>3. QED
    BY <1>1, <2>1, <2>2, ViewerTakes
<1>3. CASE StreamEnded(s)
  <2>1. Takes(s, ui) /\ SamePage(ui)
    BY <1>1, <1>3 DEF StreamEnded, At, SamePage, Tab
  <2>2. QED
    BY <1>1, <2>1, ViewerTakes
<1>4. QED
  BY <1>2, <1>3 DEF PlaygroundAnswers

-----------------------------------------------------------------------------
(* The conversation.                                                       *)
Told(m) ==
    \A i \in DOMAIN m :
        LET upTo == {j \in Prompts(m) : j <= i} IN
        /\ m[i].turn = Cardinality(upTo)
        /\ m[i].by # {} => i - 1 \in upTo

LEMMA PromptsFinite ==
  ASSUME NEW m \in Seq(Message)
  PROVE  /\ IsFiniteSet(Prompts(m)) /\ Cardinality(Prompts(m)) \in Nat
         /\ Prompts(m) \subseteq 1..Len(m) /\ Len(m) \in Nat
<1>1. Prompts(m) \subseteq 1..Len(m) /\ Len(m) \in Nat
  BY DEF Prompts
<1>2. IsFiniteSet(1..Len(m))
  BY <1>1, FS_Interval
<1>3. QED
  BY <1>1, <1>2, FS_Subset, FS_CardinalityType

LEMMA Prompted ==
  ASSUME NEW m \in Seq(Message), Told(m)
  PROVE  LET turn == 1 + Cardinality(Prompts(m))
             said == Append(m, [turn |-> turn, by |-> {}])
         IN  /\ said \in Seq(Message) /\ Told(said) /\ said # <<>>
             /\ Len(said) \in Prompts(said) /\ Cardinality(Prompts(said)) = turn
<1> DEFINE turn == 1 + Cardinality(Prompts(m))
           new == [turn |-> turn, by |-> {}]
           said == Append(m, new)
<1>1. /\ IsFiniteSet(Prompts(m)) /\ Cardinality(Prompts(m)) \in Nat
      /\ Prompts(m) \subseteq 1..Len(m) /\ Len(m) \in Nat
  BY PromptsFinite
<1>2. new \in Message /\ new.by = {} /\ new.turn = turn
  BY <1>1 DEF Message
<1> HIDE DEF new
<1>3. /\ said \in Seq(Message) /\ Len(said) = Len(m) + 1 /\ said # <<>>
      /\ \A i \in 1..Len(m) : said[i] = m[i]
      /\ said[Len(m) + 1] = new
      /\ DOMAIN said = 1..(Len(m) + 1) /\ DOMAIN m = 1..Len(m)
  BY <1>1, <1>2
<1> HIDE DEF said
<1>4. Prompts(said) = Prompts(m) \cup {Len(m) + 1}
  BY <1>1, <1>2, <1>3 DEF Prompts
<1>5. Cardinality(Prompts(said)) = turn
  <2>1. Len(m) + 1 \notin Prompts(m)
    BY <1>1
  <2>2. Cardinality(Prompts(m) \cup {Len(m) + 1}) = Cardinality(Prompts(m)) + 1
    BY <1>1, <2>1, FS_AddElement
  <2>3. QED
    BY <1>1, <1>4, <2>2
<1>6. Told(said)
  <2> SUFFICES ASSUME NEW i \in 1..(Len(m) + 1)
               PROVE  /\ said[i].turn = Cardinality({j \in Prompts(said) : j <= i})
                      /\ said[i].by # {} => i - 1 \in {j \in Prompts(said) : j <= i}
    BY <1>3 DEF Told
  <2>1. CASE i \in 1..Len(m)
    <3>1. {j \in Prompts(said) : j <= i} = {j \in Prompts(m) : j <= i}
      BY <1>1, <1>4, <2>1
    <3>2. QED
      BY <1>3, <2>1, <3>1 DEF Told
  <2>2. CASE i = Len(m) + 1
    <3>1. {j \in Prompts(said) : j <= i} = Prompts(said)
      BY <1>1, <1>4, <2>2
    <3>2. QED
      BY <1>2, <1>3, <1>5, <2>2, <3>1
  <2>3. QED
    BY <1>1, <2>1, <2>2
<1>7. QED
  BY <1>3, <1>4, <1>5, <1>6 DEF said, new

LEMMA Replied ==
  ASSUME NEW m \in Seq(Message), Told(m), Len(m) \in Prompts(m), NEW by \in SUBSET Sels,
         by # {}
  PROVE  LET said == Append(m, [turn |-> Cardinality(Prompts(m)), by |-> by]) IN
         said \in Seq(Message) /\ Told(said)
<1> DEFINE turn == Cardinality(Prompts(m))
           new == [turn |-> turn, by |-> by]
           said == Append(m, new)
<1>1. /\ IsFiniteSet(Prompts(m)) /\ Cardinality(Prompts(m)) \in Nat
      /\ Prompts(m) \subseteq 1..Len(m) /\ Len(m) \in Nat
  BY PromptsFinite
<1>2. new \in Message /\ new.by = by /\ new.turn = turn
  BY <1>1 DEF Message
<1> HIDE DEF new
<1>3. /\ said \in Seq(Message) /\ Len(said) = Len(m) + 1
      /\ \A i \in 1..Len(m) : said[i] = m[i]
      /\ said[Len(m) + 1] = new
      /\ DOMAIN said = 1..(Len(m) + 1) /\ DOMAIN m = 1..Len(m)
  BY <1>1, <1>2
<1> HIDE DEF said
<1>4. Prompts(said) = Prompts(m)
  BY <1>1, <1>2, <1>3 DEF Prompts
<1>5. Told(said)
  <2> SUFFICES ASSUME NEW i \in 1..(Len(m) + 1)
               PROVE  /\ said[i].turn = Cardinality({j \in Prompts(said) : j <= i})
                      /\ said[i].by # {} => i - 1 \in {j \in Prompts(said) : j <= i}
    BY <1>3 DEF Told
  <2>1. CASE i \in 1..Len(m)
    BY <1>3, <1>4, <2>1 DEF Told
  <2>2. CASE i = Len(m) + 1
    <3>1. {j \in Prompts(said) : j <= i} = Prompts(m)
      BY <1>1, <1>4, <2>2
    <3>2. i - 1 = Len(m)
      BY <1>1, <2>2
    <3>3. QED
      BY <1>2, <1>3, <2>2, <3>1, <3>2
  <2>3. QED
    BY <1>1, <2>1, <2>2
<1>6. QED
  BY <1>3, <1>5 DEF said, new

(* The chat of a page, and its conversation in terms of it.                *)
Chat(c) ==
    /\ ChatFields \subseteq DOMAIN c
    /\ c.messages \in Seq(Message) /\ c.picked \subseteq Sels /\ c.tasks \subseteq Task
    /\ c.streaming \in BOOLEAN
    /\ ~c.streaming => c.tasks = {}
    /\ c.streaming =>
        /\ c.messages # <<>> /\ Len(c.messages) \in Prompts(c.messages)
        /\ c.abort = Cardinality(Prompts(c.messages))
        /\ \A t \in c.tasks : t.turn = c.abort
    /\ Told(c.messages)

LEMMA ChatIsConversation ==
  /\ Conversation <=> Chat(chat)
  /\ Conversation' <=> Chat(chat')
  BY DEF Conversation, Chat, Told, RepliesFollowPrompt

LEMMA FreshChats == Chat(FreshChat)
  BY DEF Chat, FreshChat, ChatFields, Told

(* The rest of send, when every request has ended.                         *)
LEMMA FoldedChats ==
  ASSUME NEW c, ChatFields \subseteq DOMAIN c, c.messages \in Seq(Message),
         c.picked \subseteq Sels, c.tasks \subseteq Task, Told(c.messages),
         Len(c.messages) \in Prompts(c.messages),
         NEW turn, turn = Cardinality(Prompts(c.messages)),
         \A t \in c.tasks : t.turn = turn, Open(c, turn) = {}
  PROVE  Chat(Folded(c, turn))
<1> DEFINE mine == {t \in c.tasks : t.turn = turn}
           replies == {t.alias : t \in {t \in mine : t.end = "reply"}}
           said == IF replies = {} THEN c.messages
                   ELSE Append(c.messages, [turn |-> turn, by |-> replies])
           f == Folded(c, turn)
<1>1. replies \in SUBSET Sels /\ c.tasks \ mine = {}
  BY DEF Task
<1>2. said \in Seq(Message) /\ Told(said)
  <2> HIDE DEF replies
  <2>1. CASE replies = {}
    BY <2>1
  <2>2. CASE replies # {}
    BY <1>1, <2>2, Replied
  <2>3. QED
    BY <2>1, <2>2
<1>3. f = [c EXCEPT !.messages = said, !.tasks = c.tasks \ mine, !.abort = 0, !.streaming = FALSE]
  BY DEF Folded
<1> HIDE DEF said, mine
<1>4. /\ ChatFields \subseteq DOMAIN f /\ f.messages = said /\ f.tasks = {}
      /\ f.picked = c.picked /\ f.streaming = FALSE
  BY <1>1, <1>3 DEF ChatFields
<1> HIDE DEF f
<1>5. Chat(f)
  BY <1>2, <1>4 DEF Chat
<1>6. QED
  BY <1>5 DEF f

LEMMA EndedTask ==
  ASSUME NEW t \in Task, NEW end \in {"open", "reply", "error"}
  PROVE  /\ [t EXCEPT !.end = end] \in Task /\ [t EXCEPT !.end = end].turn = t.turn
         /\ [t EXCEPT !.end = end].end = end
  BY DEF Task

LEMMA SendConverses ==
  ASSUME Tab, Conversation, Send
  PROVE  Conversation'
<1> DEFINE turn == 1 + Cardinality(Prompts(chat.messages))
           places == {f \in [chat.picked -> Free(net)] :
                         \A a, b \in chat.picked : f[a] = f[b] => a = b}
           slot == CHOOSE f \in places : TRUE
           said == Append(chat.messages, [turn |-> turn, by |-> {}])
           sent == {[turn |-> turn, alias |-> a, slot |-> slot[a], end |-> "open"] :
                        a \in chat.picked}
<1>1. /\ places # {} /\ ~chat.streaming
      /\ chat' = [chat EXCEPT !.messages = said, !.tasks = @ \cup sent, !.abort = turn,
                              !.streaming = TRUE]
  BY DEF Send, MaySend, Conversing
<1>2. /\ Chat(chat) /\ chat.tasks = {}
  BY <1>1, ChatIsConversation DEF Chat
<1>3. slot \in places
  BY <1>1
<1>4. \A a \in chat.picked : slot[a] \in Slots /\ a \in Sels
  BY <1>2, <1>3 DEF Free, Chat
<1> HIDE DEF places, slot
<1>5. turn \in Nat
  BY <1>2, PromptsFinite DEF Chat
<1>6. /\ said \in Seq(Message) /\ Told(said) /\ said # <<>>
      /\ Len(said) \in Prompts(said) /\ Cardinality(Prompts(said)) = turn
  BY <1>2, Prompted DEF Chat
<1> HIDE DEF turn, said
<1>7. sent \subseteq Task /\ \A t \in sent : t.turn = turn
  BY <1>4, <1>5 DEF Task
<1> HIDE DEF sent
<1>8. /\ ChatFields \subseteq DOMAIN chat' /\ chat'.messages = said /\ chat'.tasks = sent
      /\ chat'.abort = turn /\ chat'.streaming = TRUE /\ chat'.picked = chat.picked
  BY <1>1, <1>2 DEF Chat, ChatFields
<1>9. Chat(chat')
  BY <1>2, <1>6, <1>7, <1>8 DEF Chat
<1>10. QED
  BY <1>9, ChatIsConversation

LEMMA StopStreamConverses ==
  ASSUME Conversation, StopStream
  PROVE  Conversation'
<1> DEFINE open == Open(chat, chat.abort)
           ended == {[t EXCEPT !.end = "error"] : t \in open}
           tasks == (chat.tasks \ open) \cup ended
           c == [chat EXCEPT !.streaming = FALSE, !.tasks = tasks]
<1>1. /\ chat.streaming /\ chat' = Folded(c, chat.abort)
  BY DEF StopStream, Conversing
<1>2. Chat(chat)
  BY ChatIsConversation
<1>3. open \subseteq chat.tasks
  BY DEF Open
<1>4. /\ ended \subseteq Task /\ \A t \in ended : t.turn = chat.abort /\ t.end = "error"
  <2>1. ASSUME NEW t \in open
        PROVE  /\ [t EXCEPT !.end = "error"] \in Task
               /\ [t EXCEPT !.end = "error"].turn = chat.abort
               /\ [t EXCEPT !.end = "error"].end = "error"
    <3>1. t \in Task /\ t.turn = chat.abort
      BY <1>1, <1>2, <1>3, <2>1 DEF Chat
    <3>2. QED
      BY <3>1, EndedTask
  <2> HIDE DEF open
  <2>2. QED
    BY <2>1
<1>5. /\ tasks \subseteq Task /\ \A t \in tasks : t.turn = chat.abort /\ t.end # "open"
  <2>1. \A t \in chat.tasks \ open : t \in Task /\ t.turn = chat.abort /\ t.end # "open"
    BY <1>1, <1>2 DEF Chat, Open
  <2> HIDE DEF open, ended
  <2>2. QED
    BY <1>4, <2>1
<1> HIDE DEF tasks
<1>6. /\ ChatFields \subseteq DOMAIN c /\ c.messages = chat.messages /\ c.tasks = tasks
      /\ c.picked = chat.picked
  BY <1>2 DEF Chat, ChatFields
<1> HIDE DEF c
<1>7. Open(c, chat.abort) = {}
  BY <1>5, <1>6 DEF Open
<1>8. Chat(Folded(c, chat.abort))
  BY <1>1, <1>2, <1>5, <1>6, <1>7, FoldedChats DEF Chat
<1>9. QED
  BY <1>1, <1>8, ChatIsConversation

LEMMA StreamEndedConverses ==
  ASSUME Conversation, NEW s \in Slots, StreamEnded(s)
  PROVE  Conversation'
<1>1. PICK t \in chat.tasks, end \in {"reply", "error"} :
          chat' = Folded(Ended(chat, t, end), t.turn)
  BY DEF StreamEnded, Conversing
<1> DEFINE last == [t EXCEPT !.end = end]
           tasks == (chat.tasks \ {t}) \cup {last}
           c == Ended(chat, t, end)
<1>2. Chat(chat) /\ chat.streaming
  <2>1. Chat(chat)
    BY ChatIsConversation
  <2>2. chat.tasks # {} /\ chat.streaming \in BOOLEAN /\ (~chat.streaming => chat.tasks = {})
    BY <1>1, <2>1 DEF Chat
  <2>3. QED
    BY <2>1, <2>2
<1>3. last \in Task /\ last.turn = t.turn
  <2>1. t \in Task
    BY <1>2 DEF Chat
  <2>2. QED
    BY <2>1, EndedTask
<1> HIDE DEF last
<1>4. t.turn = chat.abort
  BY <1>2 DEF Chat
<1>5. tasks \subseteq Task /\ \A x \in tasks : x.turn = chat.abort
  BY <1>2, <1>3, <1>4 DEF Chat
<1>6. c = [chat EXCEPT !.tasks = tasks]
  BY DEF Ended, last
<1> HIDE DEF tasks
<1>7. /\ ChatFields \subseteq DOMAIN c /\ c.messages = chat.messages /\ c.tasks = tasks
      /\ c.picked = chat.picked /\ c.streaming = chat.streaming /\ c.abort = chat.abort
  BY <1>2, <1>6 DEF Chat, ChatFields
<1> HIDE DEF c
<1>8. CASE Open(c, t.turn) = {}
  <2>1. Chat(Folded(c, t.turn))
    BY <1>2, <1>4, <1>5, <1>7, <1>8, FoldedChats DEF Chat
  <2>2. QED
    BY <1>1, <2>1, ChatIsConversation DEF c
<1>9. CASE Open(c, t.turn) # {}
  <2>1. chat' = c
    BY <1>1, <1>9 DEF Folded, c
  <2>2. Chat(c)
    BY <1>2, <1>5, <1>7 DEF Chat
  <2>3. QED
    BY <2>1, <2>2, ChatIsConversation
<1>10. QED
  BY <1>8, <1>9

LEMMA PlaygroundConverses ==
  ASSUME Tab, Conversation, PlaygroundPage \/ \E s \in Slots : PlaygroundAnswers(s)
  PROVE  Conversation'
<1>1. Chat(chat)
  BY ChatIsConversation
<1>2. CASE PickModels
  <2>1. PICK picked \in SUBSET Sels : chat' = [chat EXCEPT !.picked = picked]
    BY <1>1, <1>2 DEF PickModels, Conversing, Chat, ChatFields
  <2>2. Chat(chat')
    BY <1>1, <2>1 DEF Chat, ChatFields
  <2>3. QED
    BY <2>2, ChatIsConversation
<1>3. CASE ClearConversation
  <2>1. chat' = [chat EXCEPT !.messages = <<>>] /\ ~chat.streaming
    BY <1>3 DEF ClearConversation, Conversing
  <2>2. <<>> \in Seq(Message) /\ Told(<<>>)
    BY DEF Told
  <2>3. Chat(chat')
    BY <1>1, <2>1, <2>2 DEF Chat, ChatFields
  <2>4. QED
    BY <2>3, ChatIsConversation
<1>4. CASE \E s \in Slots : PlaygroundLoaded(s)
  <2>1. chat' = [chat EXCEPT !.picked = {FirstSel}] \/ chat' = chat
    BY <1>4 DEF PlaygroundLoaded, Conversing
  <2>2. Chat(chat')
    BY <1>1, <2>1 DEF Chat, ChatFields
  <2>3. QED
    BY <2>2, ChatIsConversation
<1>5. QED
  BY <1>2, <1>3, <1>4, SendConverses, StopStreamConverses, StreamEndedConverses
     DEF PlaygroundPage, PlaygroundAnswers

-----------------------------------------------------------------------------
(* The server.                                                             *)
Served(s) ==
    /\ net[s].code = "sent" /\ net'[s].code # "sent"
    /\ OfRequests(net')
    /\ \A t \in Slots : t # s => net'[t] = net[t]
    /\ net'[s].kind = net[s].kind /\ net'[s].token = net[s].token
    /\ net'[s].shown = net[s].shown /\ net'[s].sel = net[s].sel /\ net'[s].from = net[s].from
    /\ UNCHANGED <<stored, user, loading, needsSetup, spent, excused, site, ui>>

LEMMA ServedTab ==
  ASSUME Tab, NEW s \in Slots, Served(s), Stores', Revised'
  PROVE  Tab'
<1> USE DEF Served
<1>1. \A t \in Slots : /\ net'[t].kind = net[t].kind /\ net'[t].shown = net[t].shown
                       /\ net'[t].sel = net[t].sel
  OBVIOUS
<1>2. Waits'
  <2> USE DEF Waits
  <2>1. ui.waits \subseteq Slots /\ (\A t \in ui.waits : Awaited(net[t], ui.sel)) /\ Alone(ui, net)
    BY DEF Tab
  <2>2. site' = site /\ user' = user /\ ui' = ui
    OBVIOUS
  <2> HIDE DEF Served, Waits
  <2>3. ASSUME NEW t \in ui.waits PROVE Awaited(net[t], ui.sel)'
    <3>1. Awaited(net[t], ui.sel) /\ t \in Slots
      BY <2>1
    <3>2. QED
      BY <1>1, <2>2, <3>1 DEF Awaited, Filtered
  <2>4. Alone(ui, net)'
    <3>1. site = "keys" => \A t, x \in ui.waits :
                             net[t].kind = "load" /\ net[x].kind = "load" => t = x
      BY <2>1 DEF Alone
    <3>2. \A t \in ui.waits : net'[t].kind = net[t].kind
      BY <1>1, <2>1
    <3>3. QED
      BY <2>2, <3>1, <3>2 DEF Alone
  <2>5. QED
    BY <2>1, <2>2, <2>3, <2>4 DEF Waits
<1>3. Mounted'
  <2>1. OutletKey' = OutletKey
    BY DEF OutletKey, View, Guarded, Permitted
  <2>2. QED
    BY <2>1 DEF Tab, Mounted
<1>4. Whole(ui)'
  BY DEF Tab, Whole, InDrawer
<1>5. QED
  BY <1>2, <1>3, <1>4 DEF Tab, Requests, OfRequests

LEMMA ServedKinds ==
  ASSUME AtRest, NEW s \in Slots, Served(s)
  PROVE  Kinds' /\ Tokens' /\ (Clean' <=> Clean)
<1>1. \A t \in Slots : net'[t].kind = net[t].kind /\ net'[t].from = net[t].from
  BY DEF Served
<1>2. Kinds'
  BY <1>1 DEF Served, AtRest, Kinds, Editors
<1>3. QED
  BY <1>2 DEF Served, AtRest, Tokens, Clean

LEMMA ServedPending ==
  ASSUME NEW s \in Slots, Served(s)
  PROVE  /\ Pending' = Pending \ {s}
         /\ net[s].kind \in Writes => s \in Pending
  BY DEF Served, Pending

(* What serving a write leaves to write.                                   *)
LEMMA WriteCounts ==
  ASSUME Tab, NEW s \in Slots, Served(s), net[s].kind \in Writes
  PROVE  \A i \in Items : /\ doc[i].rev + 1 \in 0..MaxOwn
                          /\ doc[i].rev + 1 + Cardinality(Pending') <= spent.own
                          /\ doc[i].rev + Cardinality(Pending') <= spent.own
                          /\ doc[i].rev \in Nat /\ 1 \in 0..MaxOwn
<1>1. Pending' = Pending \ {s} /\ s \in Pending /\ Pending \in SUBSET Slots
  BY ServedPending DEF Pending
<1>2. IsFiniteSet(Pending) /\ Cardinality(Pending) \in Nat
  BY <1>1, PendingFinite
<1>3. Cardinality(Pending') = Cardinality(Pending) - 1 /\ Cardinality(Pending') \in Nat
  BY <1>1, <1>2, FS_RemoveElement, PendingFinite
<1>4. \A i \in Items : doc[i].rev \in Nat /\ doc[i].rev + Cardinality(Pending) <= spent.own
  BY DEF Tab, Stores, Table, Live, Revised
<1>5. spent.own \in 0..MaxOwn /\ MaxOwn \in Nat
  BY DEF Tab, Stores
<1>6. QED
  BY <1>2, <1>3, <1>4, <1>5

LEMMA ServedRevised ==
  ASSUME Tab, NEW s \in Slots, Served(s), doc' = doc
  PROVE  Revised'
<1>1. Pending' \subseteq Pending
  BY ServedPending
<1>2. QED
  BY <1>1, RevisedKept DEF Served

(* An answer of the session's half of the server.                          *)
LEMMA AnswersRequest ==
  ASSUME Tab, NEW s \in Slots, NEW code \in Codes \ {"sent"}, NEW grant, IsToken(grant),
         Answers(s, code, grant),
         net[s].kind \in Writes => code # "ok", net[s].code = "sent"
  PROVE  /\ OfRequests(net') /\ net'[s].code = code
         /\ \A t \in Slots : t # s => net'[t] = net[t]
         /\ net'[s].kind = net[s].kind /\ net'[s].token = net[s].token
         /\ net'[s].shown = net[s].shown /\ net'[s].sel = net[s].sel
         /\ net'[s].from = net[s].from /\ net'[s].grant = grant
<1> DEFINE q == [net[s] EXCEPT !.code = code, !.grant = grant]
<1>1. net' = [net EXCEPT ![s] = q] /\ IsRequest(net[s]) /\ net = [t \in Slots |-> net[t]]
      /\ \A t \in Slots : IsRequest(net[t])
  BY DEF Answers, Tab, Requests, OfRequests
<1>2. /\ RequestFields \subseteq DOMAIN q /\ q.kind = net[s].kind /\ q.token = net[s].token
      /\ q.shown = net[s].shown /\ q.sel = net[s].sel /\ q.from = net[s].from
      /\ q.to = net[s].to /\ q.item = net[s].item /\ q.hidden = net[s].hidden
      /\ q.val = net[s].val /\ q.code = code /\ q.grant = grant
  BY <1>1 DEF IsRequest, RequestFields
<1> HIDE DEF q
<1>3. IsRequest(q)
  BY <1>1, <1>2 DEF IsRequest
<1>4. net'[s] = q /\ \A t \in Slots : t # s => net'[t] = net[t]
  BY <1>1
<1>5. OfRequests(net')
  <2>1. \A t \in Slots : IsRequest(net'[t])
    BY <1>1, <1>3, <1>4
  <2>2. net' = [t \in Slots |-> net'[t]]
    BY <1>1
  <2>3. QED
    BY <2>1, <2>2 DEF OfRequests
<1>6. QED
  BY <1>2, <1>4, <1>5

LEMMA ServeSessionKeeps ==
  ASSUME Tab, AtRest, NEW s \in Slots, ServeSession(s), UNCHANGED <<site, ui>>
  PROVE  Tab' /\ AtRest'
<1>1. /\ net[s].code = "sent"
      /\ UNCHANGED <<stored, user, loading, needsSetup, doc, spent, excused>>
  BY DEF ServeSession
<1>2. /\ IsRequest(net[s]) /\ sessions \in [Sids -> Orgs \cup {NoOrg}] /\ setup \in BOOLEAN
      /\ IsToken(NoToken)
  BY TokenNone DEF Tab, Requests, OfRequests, Stores
<1>3. /\ sessions' \in [Sids -> Orgs \cup {NoOrg}] /\ setup' \in BOOLEAN
      /\ \E code, grant :
            /\ code \in Codes \ {"sent"} /\ IsToken(grant) /\ Answers(s, code, grant)
            /\ net[s].kind \in Writes \cup {"load"} => code = "unauthorized"
  <2>1. CASE ServeLogin(s)
    <3>1. net[s].kind \in {"login", "signup"}
      BY <2>1 DEF ServeLogin
    <3>2. CASE \E sid \in Unused, o \in Orgs \ Unborn :
                 /\ sessions' = [sessions EXCEPT ![sid] = o]
                 /\ setup' = TRUE
                 /\ Answers(s, "ok", [sid |-> sid, org |-> o])
      <4>1. PICK sid \in Unused, o \in Orgs \ Unborn :
                 /\ sessions' = [sessions EXCEPT ![sid] = o]
                 /\ setup' = TRUE
                 /\ Answers(s, "ok", [sid |-> sid, org |-> o])
        BY <3>2
      <4>2. IsToken([sid |-> sid, org |-> o])
        BY DEF IsToken, Unused
      <4>3. "ok" \in Codes \ {"sent"}
        BY DEF Codes
      <4>4. QED
        BY <1>2, <3>1, <4>1, <4>2, <4>3 DEF Writes
    <3>3. CASE Answers(s, "unauthorized", NoToken) /\ UNCHANGED <<sessions, setup>>
      <4>1. "unauthorized" \in Codes \ {"sent"}
        BY DEF Codes
      <4>2. QED
        BY <1>2, <3>3, <4>1
    <3>4. QED
      BY <2>1, <3>2, <3>3 DEF ServeLogin
  <2>2. CASE ServeStatus(s)
    <3>1. {"ok", "setup"} \subseteq Codes \ {"sent"}
      BY DEF Codes
    <3>2. net[s].kind \notin Writes \cup {"load"}
      BY <2>2 DEF ServeStatus, Writes
    <3>3. QED
      BY <1>2, <2>2, <3>1, <3>2 DEF ServeStatus
  <2>3. CASE ServeStranger(s)
    <3>1. "unauthorized" \in Codes \ {"sent"}
      BY DEF Codes
    <3>2. QED
      BY <1>2, <2>3, <3>1 DEF ServeStranger
  <2>4. CASE ServeMove(s)
    <3> DEFINE grant == [net[s].token EXCEPT !.org = net[s].to]
    <3>1. /\ net[s].kind \in Moves /\ net[s].token.sid \in Sids /\ net[s].to \in Orgs
          /\ {"sid", "org"} \subseteq DOMAIN net[s].token
      BY <1>2, <2>4 DEF ServeMove, Valid, IsRequest, IsToken
    <3>2. IsToken(grant)
      BY <3>1 DEF IsToken
    <3>3. /\ sessions' = [sessions EXCEPT ![net[s].token.sid] = net[s].to]
          /\ Answers(s, "ok", grant) /\ setup' = setup
      BY <2>4 DEF ServeMove
    <3> HIDE DEF grant
    <3>4. "ok" \in Codes \ {"sent"} /\ net[s].kind \notin Writes \cup {"load"}
      BY <3>1 DEF Codes, Moves, Writes
    <3>5. QED
      BY <1>2, <3>1, <3>2, <3>3, <3>4
  <2>5. CASE ServeAccount(s)
    <3>1. /\ net[s].kind \in {"me", "logout", "password"} /\ net[s].token.sid \in Sids
          /\ Answers(s, "ok", NoToken) /\ setup' = setup
      BY <2>5 DEF ServeAccount, Valid
    <3>2. sessions' \in [Sids -> Orgs \cup {NoOrg}]
      BY <1>2, <2>5, <3>1 DEF ServeAccount
    <3>3. "ok" \in Codes \ {"sent"} /\ net[s].kind \notin Writes \cup {"load"}
      BY <3>1 DEF Codes, Writes
    <3>4. QED
      BY <1>2, <3>1, <3>2, <3>3
  <2>6. QED
    BY <2>1, <2>2, <2>3, <2>4, <2>5 DEF ServeSession
<1>4. PICK code, grant :
            /\ code \in Codes \ {"sent"} /\ IsToken(grant) /\ Answers(s, code, grant)
            /\ net[s].kind \in Writes \cup {"load"} => code = "unauthorized"
  BY <1>3
<1>5. Served(s) /\ net'[s].code = code
  BY <1>1, <1>4, AnswersRequest DEF Served
<1>6. Stores'
  BY <1>1, <1>3 DEF Tab, Stores
<1>7. Tab'
  BY <1>1, <1>5, <1>6, ServedTab, ServedRevised
<1>8. Kinds' /\ Tokens' /\ Never' /\ (Clean' <=> Clean)
  BY <1>1, <1>5, ServedKinds DEF AtRest, Never
<1>9. ASSUME Clean', Editors PROVE Rest'
  <2>1. /\ \A t \in Slots : net[t].kind \in Writes => t \in ui.waits
        /\ \A t, x \in ui.waits : t = x
        /\ \A t \in ui.waits : UnderWay(net[t])
        /\ ui.waits = {} => Settled(ui)
    BY <1>8, <1>9 DEF AtRest, Rest
  <2>2. \A t \in Slots : net'[t].kind = net[t].kind
    BY <1>5 DEF Served
  <2>3. (Settled(ui) => Settled(ui)') /\ \A i \in Items : CurrentBut(ui, i) => CurrentBut(ui, i)'
    BY <1>1 DEF Settled, Current, Routed, CurrentBut
  <2>4. ASSUME NEW t \in ui.waits PROVE UnderWay(net[t])'
    <3>1. t \in Slots /\ UnderWay(net[t]) /\ IsRequest(net[t])
      BY <2>1, <2>4 DEF Tab, Waits, Requests, OfRequests
    <3>2. CASE t = s
      <4>1. /\ net'[t].kind = net[t].kind /\ net'[t].token = net[t].token
            /\ net'[t].code = code /\ net[t].code = "sent"
        BY <1>1, <1>5, <3>2 DEF Served
      <4>2. net[t].kind \in Writes \cup {"load"} => code = "unauthorized"
        BY <1>4, <3>2
      <4>3. QED
        BY <2>3, <3>1, <4>1, <4>2 DEF UnderWay
    <3>3. CASE t # s
      <4>1. net'[t] = net[t]
        BY <1>5, <3>1, <3>3 DEF Served
      <4>2. net[t].kind \in Writes /\ net[t].code = "ok" => net[t].item \in Items
        BY <3>1 DEF IsRequest
      <4>3. QED
        BY <1>1, <2>3, <3>1, <4>1, <4>2 DEF UnderWay
    <3>4. QED
      BY <3>2, <3>3
  <2>5. QED
    BY <1>9, <2>1, <2>2, <2>3, <2>4 DEF Rest, Editors
<1>10. ASSUME ~Editors PROVE Rest'
  <2>1. \A t \in Slots : net'[t].kind = "load" /\ net'[t].code = "ok" => net'[t] = net[t]
    BY <1>4, <1>5 DEF Served
  <2>2. \A t \in Slots : (net[t].kind = "load" /\ net[t].code = "ok" => Current(net[t].val))'
    BY <1>1, <1>10, <2>1 DEF AtRest, Rest, Current
  <2>3. Current(ui.rows)'
    BY <1>1, <1>10 DEF AtRest, Rest, Current
  <2>4. QED
    BY <1>10, <2>2, <2>3 DEF Rest, Editors
<1>11. QED
  BY <1>7, <1>8, <1>9, <1>10 DEF AtRest, Rest, Editors

(* An answer of the half that keeps the rows.                              *)
RowsAnswered(s, code, item, val) ==
    /\ net' = [t \in Slots |-> net'[t]] /\ \A t \in Slots : t # s => net'[t] = net[t]
    /\ RequestFields \subseteq DOMAIN net'[s]
    /\ net'[s].kind = net[s].kind /\ net'[s].token = net[s].token
    /\ net'[s].shown = net[s].shown /\ net'[s].sel = net[s].sel /\ net'[s].from = net[s].from
    /\ net'[s].to = net[s].to /\ net'[s].hidden = net[s].hidden /\ net'[s].grant = net[s].grant
    /\ net'[s].code = code /\ net'[s].item = item /\ net'[s].val = val
    /\ UNCHANGED <<session, site, ui>>

LEMMA RowsServed ==
  ASSUME Tab, NEW s \in Slots, NEW code \in {"ok", "failed"}, NEW item, NEW val \in Table,
         RowsAnswered(s, code, item, val), net[s].code = "sent",
         item \in Items \/ (item = net[s].item /\ net[s].kind \notin Writes)
                        \/ (item = net[s].item /\ net[s].kind = "create" /\ code = "failed")
  PROVE  Served(s)
<1>1. \A t \in Slots : IsRequest(net[t])
  BY DEF Tab, Requests, OfRequests
<1>2. IsRequest(net'[s])
  BY <1>1 DEF RowsAnswered, IsRequest, Codes
<1>3. OfRequests(net')
  <2>1. \A t \in Slots : IsRequest(net'[t])
    BY <1>1, <1>2 DEF RowsAnswered
  <2>2. net' = [t \in Slots |-> net'[t]]
    BY DEF RowsAnswered
  <2>3. QED
    BY <2>1, <2>2 DEF OfRequests
<1>4. QED
  BY <1>3 DEF RowsAnswered, Served, session

(* What a served request leaves of a page at rest.                         *)
Serves(s) ==
    /\ net[s].kind \notin Writes => doc' = doc
    /\ \A i \in Items : ~(net[s].kind \in Writes /\ i = net'[s].item /\ net'[s].code = "ok")
                            => doc'[i] = doc[i]
    /\ net[s].kind = "load" /\ Clean /\ net[s].token.org = Home
            => net'[s].code = "ok" /\ net'[s].val = doc
    /\ net[s].kind = "load" => net'[s].val = doc \/ net'[s].val = Empty
    /\ net[s].kind \in Writes /\ net[s].token.org = Home /\ net'[s].code = "ok" =>
          IF net[s].kind = "remove" THEN ~doc'[net'[s].item].here
                                    ELSE net'[s].val[net'[s].item] = doc'[net'[s].item]
    /\ \A i \in Items : doc'[i].rev = 0 => doc'[i] = doc[i]

LEMMA ServedRest ==
  ASSUME Tab, AtRest, NEW s \in Slots, Served(s), Serves(s)
  PROVE  AtRest'
<1>1. Kinds' /\ Tokens' /\ (Clean' <=> Clean)
  BY ServedKinds
<1>2. Never'
  BY DEF AtRest, Never, Serves
<1>3. \A t \in Slots : IsRequest(net[t]) /\ IsRequest(net'[t])
  BY DEF Tab, Requests, OfRequests, Served
<1>4. ASSUME Clean', Editors PROVE Rest'
  <2>1. /\ \A t \in Slots : net[t].kind \in Writes => t \in ui.waits
        /\ \A t, x \in ui.waits : t = x
        /\ \A t \in ui.waits : UnderWay(net[t])
        /\ ui.waits = {} => Settled(ui)
    BY <1>1, <1>4 DEF AtRest, Rest
  <2>2. \A t \in Slots : net'[t].kind = net[t].kind
    BY DEF Served
  <2>3. CASE s \in ui.waits
    <3>1. net[s].code = "sent" /\ UnderWay(net[s]) /\ ui' = ui /\ site' = site
      BY <2>1, <2>3 DEF Served
    <3>2. /\ net'[s].kind = net[s].kind /\ net'[s].token = net[s].token
          /\ net[s].kind \in Writes => Settled(ui)
          /\ net'[s].token.org = Home
      BY <3>1 DEF UnderWay, Served
    <3>3. net[s].kind = "load" => net'[s].code = "ok" /\ net'[s].val = doc' /\ doc' = doc
      BY <1>1, <1>4, <3>2 DEF Serves, Writes
    <3>4. ASSUME net[s].kind \in Writes, net'[s].code # "ok" PROVE Settled(ui)'
      <4>1. \A i \in Items : doc'[i] = doc[i]
        BY <3>4 DEF Serves
      <4>2. ui.open \in Items \cup {NoItem}
        BY DEF Tab, Whole
      <4>3. QED
        BY <3>1, <3>2, <3>4, <4>1, <4>2 DEF Settled, Current, Routed
    <3>5. ASSUME NEW i \in Items, i = net'[s].item, net[s].kind \in Writes,
                 net'[s].code = "ok"
          PROVE  CurrentBut(ui, i)'
      <4>1. \A j \in Items : j # i => doc'[j] = doc[j]
        BY <3>5 DEF Serves
      <4>2. ui.open \in Items \cup {NoItem}
        BY DEF Tab, Whole
      <4>3. QED
        BY <3>1, <3>2, <3>5, <4>1, <4>2 DEF Settled, Current, Routed, CurrentBut
    <3>6. net[s].kind \in Writes /\ net'[s].code = "ok" =>
            IF net'[s].kind = "remove" THEN ~doc'[net'[s].item].here
                                       ELSE net'[s].val[net'[s].item] = doc'[net'[s].item]
      BY <3>2 DEF Serves
    <3>7. UnderWay(net[s])'
      <4>1. net'[s].kind \in Writes /\ net'[s].code = "ok" => net'[s].item \in Items
        BY <1>3 DEF IsRequest
      <4>2. /\ net'[s].kind = "load" => net'[s].code = "ok" /\ net'[s].val = doc'
            /\ net'[s].kind \in Writes /\ net'[s].code # "ok" => Settled(ui)'
            /\ net'[s].token.org = Home
            /\ net'[s].kind \in Writes /\ net'[s].code = "ok" =>
                  IF net'[s].kind = "remove" THEN ~doc'[net'[s].item].here
                  ELSE net'[s].val[net'[s].item] = doc'[net'[s].item]
        BY <3>2, <3>3, <3>4, <3>6
      <4>3. \A i \in Items : i = net'[s].item /\ net'[s].kind \in Writes /\ net'[s].code = "ok"
                                => CurrentBut(ui, i)'
        BY <3>2, <3>5
      <4>4. QED
        BY <4>1, <4>2, <4>3 DEF UnderWay
    <3>8. QED
      BY <1>4, <2>1, <2>2, <2>3, <3>1, <3>7 DEF Rest, Editors
  <2>4. CASE s \notin ui.waits
    <3>1. doc' = doc /\ ui' = ui /\ site' = site /\ ui.waits \subseteq Slots
      BY <2>1, <2>4 DEF Served, Serves, Tab, Waits
    <3>2. (Settled(ui) => Settled(ui)') /\ \A i \in Items : CurrentBut(ui, i) => CurrentBut(ui, i)'
      BY <3>1 DEF Settled, Current, Routed, CurrentBut
    <3>3. ASSUME NEW t \in ui.waits PROVE UnderWay(net[t])'
      <4>1. net'[t] = net[t] /\ UnderWay(net[t]) /\ t \in Slots
        BY <2>1, <2>4, <3>1, <3>3 DEF Served
      <4>2. net[t].kind \in Writes /\ net[t].code = "ok" => net[t].item \in Items
        BY <1>3, <4>1 DEF IsRequest
      <4>3. QED
        BY <3>1, <3>2, <4>1, <4>2 DEF UnderWay
    <3>4. QED
      BY <1>4, <2>1, <2>2, <3>1, <3>2, <3>3 DEF Rest, Editors
  <2>5. QED
    BY <2>3, <2>4
<1>5. ASSUME ~Editors PROVE Rest'
  <2>1. doc' = doc /\ ui' = ui /\ site' = site
    BY <1>5 DEF AtRest, Kinds, Serves, Served
  <2>2. Current(doc) /\ Current(Empty)
    BY DEF Current, Empty
  <2>3. /\ Current(ui.rows)
        /\ \A t \in Slots : net[t].kind = "load" /\ net[t].code = "ok" => Current(net[t].val)
    BY <1>5 DEF AtRest, Rest
  <2>4. \A t \in Slots : net'[t].kind = "load" /\ net'[t].code = "ok" => Current(net'[t].val)
    BY <2>2, <2>3 DEF Serves, Served
  <2>5. (\A t \in Slots : net[t].kind = "load" /\ net[t].code = "ok" => Current(net[t].val))'
    BY <2>1, <2>4 DEF Current
  <2>6. Current(ui.rows)'
    BY <2>1, <2>3 DEF Current
  <2>7. QED
    BY <1>5, <2>1, <2>5, <2>6 DEF Rest, Editors
<1>6. QED
  BY <1>1, <1>2, <1>4, <1>5 DEF AtRest, Rest, Editors, Served

LEMMA CodeAndRows ==
  ASSUME Tab, NEW s \in Slots, NEW code, NEW val, UNCHANGED <<session, site, ui>>,
         net' = [net EXCEPT ![s].code = code, ![s].val = val]
  PROVE  RowsAnswered(s, code, net[s].item, val)
<1>1. net = [t \in Slots |-> net[t]] /\ IsRequest(net[s])
  BY DEF Tab, Requests, OfRequests
<1> DEFINE q == net[s]  p == [[q EXCEPT !.code = code] EXCEPT !.val = val]
<1>2. /\ RequestFields \subseteq DOMAIN p /\ p.kind = q.kind /\ p.token = q.token
      /\ p.shown = q.shown /\ p.sel = q.sel /\ p.from = q.from /\ p.to = q.to
      /\ p.item = q.item /\ p.hidden = q.hidden /\ p.grant = q.grant
      /\ p.code = code /\ p.val = val
  BY <1>1 DEF IsRequest, RequestFields
<1>3. net'[s] = p /\ (\A t \in Slots : t # s => net'[t] = net[t])
  BY <1>1
<1>4. net' = [t \in Slots |-> net'[t]]
  BY <1>1
<1> HIDE DEF p
<1>5. QED
  BY <1>2, <1>3, <1>4 DEF RowsAnswered

LEMMA CodeItemAndRows ==
  ASSUME Tab, NEW s \in Slots, NEW code, NEW item, NEW val, UNCHANGED <<session, site, ui>>,
         net' = [net EXCEPT ![s].code = code, ![s].item = item, ![s].val = val]
  PROVE  RowsAnswered(s, code, item, val)
<1>1. net = [t \in Slots |-> net[t]] /\ IsRequest(net[s])
  BY DEF Tab, Requests, OfRequests
<1> DEFINE q == net[s]
           p == [[[q EXCEPT !.code = code] EXCEPT !.item = item] EXCEPT !.val = val]
<1>2. /\ RequestFields \subseteq DOMAIN p /\ p.kind = q.kind /\ p.token = q.token
      /\ p.shown = q.shown /\ p.sel = q.sel /\ p.from = q.from /\ p.to = q.to
      /\ p.item = item /\ p.hidden = q.hidden /\ p.grant = q.grant
      /\ p.code = code /\ p.val = val
  BY <1>1 DEF IsRequest, RequestFields
<1>3. net'[s] = p /\ (\A t \in Slots : t # s => net'[t] = net[t])
  BY <1>1
<1>4. net' = [t \in Slots |-> net'[t]]
  BY <1>1
<1> HIDE DEF p
<1>5. QED
  BY <1>2, <1>3, <1>4 DEF RowsAnswered

LEMMA CodeAlone ==
  ASSUME Tab, NEW s \in Slots, NEW code, UNCHANGED <<session, site, ui>>,
         net' = [net EXCEPT ![s].code = code]
  PROVE  RowsAnswered(s, code, net[s].item, net[s].val)
<1>1. net = [t \in Slots |-> net[t]] /\ IsRequest(net[s])
  BY DEF Tab, Requests, OfRequests
<1> DEFINE q == net[s]  p == [q EXCEPT !.code = code]
<1>2. /\ RequestFields \subseteq DOMAIN p /\ p.kind = q.kind /\ p.token = q.token
      /\ p.shown = q.shown /\ p.sel = q.sel /\ p.from = q.from /\ p.to = q.to
      /\ p.item = q.item /\ p.hidden = q.hidden /\ p.grant = q.grant
      /\ p.code = code /\ p.val = q.val
  BY <1>1 DEF IsRequest, RequestFields
<1>3. net'[s] = p /\ (\A t \in Slots : t # s => net'[t] = net[t])
  BY <1>1
<1>4. net' = [t \in Slots |-> net'[t]]
  BY <1>1
<1> HIDE DEF p
<1>5. QED
  BY <1>2, <1>3, <1>4 DEF RowsAnswered

(* A page at rest may read what it shows.                                  *)
LEMMA CleanReads == ASSUME Tab, Clean PROVE Rights[Home] # "none"
<1>1. OutletKey # NoOrg /\ user = Home
  BY DEF Tab, Mounted, Clean
<1>2. View = "page"
  BY <1>1 DEF OutletKey
<1>3. QED
  BY <1>1, <1>2 DEF View, Guarded, Permitted

LEMMA ServeReadKeeps ==
  ASSUME Tab, AtRest, NEW s \in Slots, net[s].code = "sent", ServeRead(s),
         UNCHANGED <<session, site, ui>>
  PROVE  Tab' /\ AtRest'
<1> DEFINE code == IF May(net[s], "read") THEN "ok" ELSE "failed"
           val == IF net[s].token.org = Home /\ May(net[s], "read") THEN doc ELSE Empty
<1>1. /\ net[s].kind \in {"load", "stream"} /\ doc' = doc
      /\ net' = [net EXCEPT ![s].code = code, ![s].val = val]
  BY DEF ServeRead
<1>2. code \in {"ok", "failed"} /\ val \in Table /\ (val = doc \/ val = Empty)
  BY EmptyIsTable DEF Tab, Stores
<1>3. Clean /\ net[s].token.org = Home => code = "ok" /\ val = doc
  BY CleanReads DEF May
<1> HIDE DEF code, val
<1>4. RowsAnswered(s, code, net[s].item, val)
  BY <1>1, CodeAndRows
<1>5. Served(s)
  BY <1>1, <1>2, <1>4, RowsServed DEF Writes
<1>6. Serves(s)
  BY <1>1, <1>2, <1>3, <1>4 DEF RowsAnswered, Serves, Writes
<1>7. Stores'
  BY <1>1, <1>5 DEF Tab, Stores, session
<1>8. QED
  BY <1>1, <1>5, <1>6, <1>7, ServedTab, ServedRevised, ServedRest

LEMMA WrittenLive ==
  ASSUME Tab, NEW s \in Slots, NEW d \in Live, d.rev + 1 \in 0..MaxOwn
  PROVE  Written(d, net[s]) \in Live /\ Written(d, net[s]).rev = d.rev + 1
<1>1. net[s].hidden \in {"omit", "typed", "loose", "stored"}
  BY DEF Tab, Requests, OfRequests, IsRequest
<1>2. QED
  BY <1>1 DEF Written, Live

LEMMA PendingCounts ==
  ASSUME Tab, NEW s \in Slots, net[s].code = "sent", net[s].kind \in Writes
  PROVE  \A i \in Items : doc[i].rev + 1 \in 0..MaxOwn
<1>1. Pending \in SUBSET Slots /\ s \in Pending
  BY DEF Pending
<1>2. Cardinality(Pending) \in Nat /\ Cardinality(Pending) # 0
  BY <1>1, PendingFinite, FS_EmptySet
<1>3. spent.own \in 0..MaxOwn /\ MaxOwn \in Nat
  BY DEF Tab, Stores
<1>4. \A i \in Items : doc[i].rev \in Nat /\ doc[i].rev + Cardinality(Pending) <= spent.own
  BY DEF Tab, Stores, Table, Live, Revised
<1>5. QED
  BY <1>2, <1>3, <1>4

(* A row of the server that a request changes.                             *)
LEMMA RowServed ==
  ASSUME Tab, NEW s \in Slots, Served(s), UNCHANGED session, net[s].kind \in Writes,
         NEW i \in Items, NEW row \in Live, row.rev \in {doc[i].rev, doc[i].rev + 1},
         doc' = [doc EXCEPT ![i] = row]
  PROVE  Tab'
<1>1. doc \in Table /\ doc' \in Table
  BY DEF Tab, Stores, Table
<1>2. Stores'
  BY <1>1 DEF Tab, Stores, session
<1>3. \A j \in Items : doc'[j].rev \in {doc[j].rev, doc[j].rev + 1}
  BY <1>1 DEF Table
<1>4. Revised'
  <2>1. \A j \in Items : doc'[j].rev + Cardinality(Pending') <= spent.own
    BY <1>3, WriteCounts
  <2>2. spent' = spent
    BY DEF session
  <2>3. QED
    BY <2>1, <2>2 DEF Revised
<1>5. QED
  BY <1>2, <1>4, ServedTab

LEMMA ServeCreateKeeps ==
  ASSUME Tab, AtRest, NEW s \in Slots, net[s].code = "sent", ServeCreate(s),
         UNCHANGED <<session, site, ui>>
  PROVE  Tab' /\ AtRest'
<1>1. net[s].kind = "create" /\ net[s].kind \in Writes /\ doc \in Table
  BY DEF ServeCreate, Writes, Tab, Stores
<1>2. CASE \E i \in Items :
             /\ May(net[s], "write")
             /\ ~doc[i].here /\ doc[i].rev = 0
             /\ doc' = IF net[s].token.org = Home THEN [doc EXCEPT ![i] = Written(@, net[s])]
                                                  ELSE doc
             /\ net' = [net EXCEPT ![s].code = "ok", ![s].item = i,
                                   ![s].val = [Empty EXCEPT ![i] = Written(@, net[s])]]
  <2>1. PICK i \in Items :
             /\ May(net[s], "write")
             /\ ~doc[i].here /\ doc[i].rev = 0
             /\ doc' = IF net[s].token.org = Home THEN [doc EXCEPT ![i] = Written(@, net[s])]
                                                  ELSE doc
             /\ net' = [net EXCEPT ![s].code = "ok", ![s].item = i,
                                   ![s].val = [Empty EXCEPT ![i] = Written(@, net[s])]]
    BY <1>2
  <2> DEFINE val == [Empty EXCEPT ![i] = Written(@, net[s])]
             row == Written(doc[i], net[s])
  <2>2. Empty \in Table /\ Empty[i] \in Live /\ doc[i] \in Live /\ Empty[i].rev = 0
        /\ Empty[i].hidden = "stored" /\ doc[i].hidden = "stored"
    BY <1>1, <2>1, EmptyIsTable DEF Table, Empty, AtRest, Never
  <2>3. val[i] = Written(Empty[i], net[s]) /\ row = Written(Empty[i], net[s])
    BY <2>1, <2>2 DEF Written, Table
  <2>4. ASSUME 1 \in 0..MaxOwn PROVE val \in Table /\ row \in Live /\ row.rev = 1
    <3>1. Written(Empty[i], net[s]) \in Live /\ Written(Empty[i], net[s]).rev = 1
      BY <2>2, <2>4, WrittenLive
    <3>2. QED
      BY <2>2, <2>3, <3>1 DEF Table
  <2>5. 1 \in 0..MaxOwn
    BY <1>1, <2>1, <2>2, PendingCounts
  <2>6. doc' = IF net[s].token.org = Home THEN [doc EXCEPT ![i] = row] ELSE doc
    BY <2>1
  <2>7. net' = [net EXCEPT ![s].code = "ok", ![s].item = i, ![s].val = val]
    BY <2>1
  <2>8. val \in Table /\ row \in Live /\ row.rev = 1 /\ val[i] = row
    BY <2>3, <2>4, <2>5
  <2> HIDE DEF val, row
  <2>9. RowsAnswered(s, "ok", i, val)
    BY <2>7, CodeItemAndRows
  <2>10. Served(s)
    BY <2>8, <2>9, RowsServed
  <2>11. Tab'
    <3>1. CASE net[s].token.org = Home
      <4>1. doc' = [doc EXCEPT ![i] = row] /\ UNCHANGED session
        BY <2>6, <3>1
      <4>2. row.rev \in {doc[i].rev, doc[i].rev + 1}
        BY <2>1, <2>8
      <4>3. QED
        BY <1>1, <2>8, <2>10, <4>1, <4>2, RowServed
    <3>2. CASE net[s].token.org # Home
      <4>1. Stores'
        BY <2>6, <3>2 DEF Tab, Stores, session
      <4>2. QED
        BY <2>6, <2>10, <3>2, <4>1, ServedTab, ServedRevised
    <3>3. QED
      BY <3>1, <3>2
  <2>12. Serves(s)
    <3>1. net'[s].code = "ok" /\ net'[s].item = i /\ net'[s].val = val
      BY <2>9 DEF RowsAnswered
    <3>2. \A j \in Items : j # i => doc'[j] = doc[j]
      BY <1>1, <2>6 DEF Table
    <3>3. net[s].token.org = Home => doc'[i] = row
      BY <1>1, <2>6 DEF Table
    <3>4. net[s].token.org # Home => doc' = doc
      BY <2>6
    <3>5. \A j \in Items : doc'[j].rev = 0 => doc'[j] = doc[j]
      BY <2>8, <3>2, <3>3, <3>4
    <3>6. QED
      BY <1>1, <2>8, <3>1, <3>2, <3>3, <3>5 DEF Serves
  <2>13. QED
    BY <2>10, <2>11, <2>12, ServedRest
<1>3. CASE net' = [net EXCEPT ![s].code = "failed"] /\ doc' = doc
  <2>1. net[s].val \in Table
    BY DEF Tab, Requests, OfRequests, IsRequest
  <2>2. RowsAnswered(s, "failed", net[s].item, net[s].val)
    BY <1>3, CodeAlone
  <2>3. Served(s)
    BY <1>1, <2>1, <2>2, RowsServed
  <2>4. Serves(s)
    BY <1>1, <1>3, <2>2 DEF RowsAnswered, Serves
  <2>5. Stores'
    BY <1>3, <2>3 DEF Tab, Stores, session
  <2>6. QED
    BY <1>3, <2>3, <2>4, <2>5, ServedTab, ServedRevised, ServedRest
<1>4. QED
  BY <1>2, <1>3 DEF ServeCreate

LEMMA ServeWriteKeeps ==
  ASSUME Tab, AtRest, NEW s \in Slots, net[s].code = "sent", ServeWrite(s),
         UNCHANGED <<session, site, ui>>
  PROVE  Tab' /\ AtRest'
<1> DEFINE i == net[s].item
           done == net[s].token.org = Home /\ May(net[s], "write") /\ doc[i].here
           code == IF done THEN "ok" ELSE "failed"
           val == IF done THEN doc' ELSE Empty
           row == IF net[s].kind = "remove" THEN Removed(doc[i]) ELSE Written(doc[i], net[s])
<1>1. /\ net[s].kind \in Writes /\ net[s].kind # "create" /\ i \in Items
      /\ doc \in Table /\ doc[i] \in Live
      /\ i = net[s].item
  BY DEF ServeWrite, Tab, Requests, OfRequests, IsRequest, Stores, Table
<1>2. net' = [net EXCEPT ![s].code = code, ![s].val = val]
  BY DEF ServeWrite
<1>3. ~done => doc' = doc
  BY DEF ServeWrite
<1>4. done => doc' = [doc EXCEPT ![i] = row]
  BY <1>1 DEF ServeWrite
<1>5. doc[i].rev \in Nat
  BY <1>1 DEF Live
<1>6. row \in Live
  <2>1. net[s].hidden \in {"omit", "typed", "loose", "stored"}
    BY DEF Tab, Requests, OfRequests, IsRequest
  <2>2. doc[i].rev + 1 \in 0..MaxOwn
    BY <1>1, PendingCounts
  <2>3. Written(doc[i], net[s]) \in Live
    BY <1>1, <2>2, WrittenLive
  <2>4. Removed(doc[i]) \in Live
    BY <1>1, <2>2 DEF Removed, Live
  <2>5. QED
    BY <2>3, <2>4
<1>7. (net[s].kind = "remove" => ~row.here) /\ row.rev = doc[i].rev + 1
  BY <1>1 DEF Written, Removed, Live
<1>8. code \in {"ok", "failed"} /\ (code = "ok" <=> done) /\ (done => val = doc')
      /\ (~done => val = Empty) /\ (net[s].token.org # Home => ~done)
  OBVIOUS
<1> HIDE DEF code, val, row, done, i
<1>9. RowsAnswered(s, code, i, val)
  BY <1>1, <1>2, CodeAndRows
<1>10. val \in Table
  BY <1>1, <1>4, <1>6, <1>8, EmptyIsTable DEF Table
<1>11. Served(s)
  BY <1>1, <1>8, <1>9, <1>10, RowsServed
<1>12. Tab'
  <2>1. CASE done
    <3>1. doc' = [doc EXCEPT ![i] = row] /\ UNCHANGED session
      BY <1>4, <2>1
    <3>2. row.rev \in {doc[i].rev, doc[i].rev + 1}
      BY <1>7
    <3>3. QED
      BY <1>1, <1>6, <1>11, <3>1, <3>2, RowServed
  <2>2. CASE ~done
    <3>1. doc' = doc
      BY <1>3, <2>2
    <3>2. Stores'
      BY <3>1 DEF Tab, Stores, session
    <3>3. QED
      BY <1>11, <3>1, <3>2, ServedTab, ServedRevised
  <2>3. QED
    BY <2>1, <2>2
<1>13. Serves(s)
  <2>1. net'[s].code = code /\ net'[s].item = i /\ net'[s].val = val
    BY <1>9 DEF RowsAnswered
  <2>2. (\A j \in Items : j # i => doc'[j] = doc[j]) /\ (done => doc'[i] = row)
        /\ (~done => doc' = doc)
    BY <1>1, <1>3, <1>4 DEF Table
  <2>3. \A j \in Items : doc'[j].rev = 0 => doc'[j] = doc[j]
    BY <1>5, <1>7, <2>2
  <2>4. \A j \in Items : ~(j = i /\ code = "ok") => doc'[j] = doc[j]
    BY <1>8, <2>2
  <2>5. net[s].kind # "load"
    BY <1>1 DEF Writes
  <2>6. code = "ok" => IF net[s].kind = "remove" THEN ~doc'[i].here ELSE val[i] = doc'[i]
    BY <1>7, <1>8, <2>2
  <2>7. QED
    BY <1>1, <2>1, <2>3, <2>4, <2>5, <2>6 DEF Serves
<1>14. QED
  BY <1>11, <1>12, <1>13, ServedRest

LEMMA ServePageKeeps ==
  ASSUME Tab, AtRest, NEW s \in Slots, ServePage(s)
  PROVE  Tab' /\ AtRest'
  BY ServeReadKeeps, ServeWriteKeeps, ServeCreateKeeps DEF ServePage

-----------------------------------------------------------------------------
(* The session: what one of its steps may do to a request.                 *)
Dismissed(t) == net'[t] = Idle /\ (net[t].kind \notin PageKinds \/ user' = NoOrg)

Broken(t) ==
    /\ net'[t].code = "failed" /\ spent'.failures # 0
    /\ net'[t].kind = net[t].kind /\ net'[t].shown = net[t].shown
    /\ net'[t].sel = net[t].sel /\ net'[t].from = net[t].from

Begun(t) ==
    /\ net'[t].code = "sent"
    /\ \/ net'[t].kind \in {"status", "switch", "logout", "password"}
       \/ site = "organizations" /\ net'[t].kind \in {"bootStatus", "login", "signup", "load"}
    /\ net'[t].from # "createOrg" \/ net'[t].kind # "switch"
    /\ \/ t \notin ui.waits \/ user' = NoOrg
       \/ site = "organizations" /\ net'[t].kind = "load" /\ net'[t].shown = user'

SessionStep ==
    /\ Stores' /\ OfRequests(net') /\ doc' = doc /\ site' = site
    /\ spent'.own \in Nat /\ spent.own <= spent'.own
    /\ spent'.failures = 0 => spent.failures = 0
    /\ spent'.foreign = 0 => spent.foreign = 0
    /\ \A t \in Slots : net'[t] = net[t] \/ Dismissed(t) \/ Broken(t) \/ Begun(t)
    /\ site # "organizations" =>
          (stored' = stored /\ user' = user) \/ user' = NoOrg \/ stored'.org = user'

LEMMA StepRevised == ASSUME Tab, SessionStep PROVE Revised'
<1>1. Pending \in SUBSET Slots /\ Pending' \in SUBSET Slots
  BY DEF Pending
<1>2. Pending' \subseteq Pending
  BY IdleIsRequest DEF SessionStep, Dismissed, Broken, Begun, Pending, Writes
<1>3. /\ Cardinality(Pending) \in Nat /\ Cardinality(Pending') \in Nat
      /\ Cardinality(Pending') <= Cardinality(Pending)
  BY <1>1, <1>2, PendingFinite, FS_Subset
<1>4. spent.own \in Nat /\ spent'.own \in Nat /\ spent.own <= spent'.own /\ doc' = doc
  BY DEF Tab, Stores, SessionStep
<1>5. \A i \in Items : doc[i].rev \in Nat /\ doc[i].rev + Cardinality(Pending) <= spent.own
  BY DEF Tab, Stores, Table, Live, Revised
<1>6. QED
  BY <1>3, <1>4, <1>5 DEF Revised

(* Another key is another page: it starts with nothing.                    *)
LEMMA RemountedTab ==
  ASSUME Tab, SessionStep, ui' = FreshUi
  PROVE  Tab'
<1>1. site' = site
  BY DEF SessionStep
<1>2. /\ ui'.mounted = FALSE /\ ui'.waits = {} /\ ui'.tags = {} /\ ui'.rows = Empty
      /\ ui'.crossed = FALSE /\ ui'.view = "list"
  BY DEF FreshUi
<1>3. Whole(ui)'
  <2>1. Whole(FreshUi)
    BY FreshIsWhole
  <2> HIDE DEF FreshUi
  <2>2. QED
    BY <1>1, <2>1 DEF Whole, InDrawer
<1>4. Waits'
  BY <1>2 DEF Waits, Alone
<1>5. Mounted'
  BY <1>2 DEF Mounted
<1>6. Requests'
  BY DEF SessionStep, Requests, OfRequests
<1>7. QED
  BY <1>3, <1>4, <1>5, <1>6, StepRevised DEF Tab, SessionStep

(* The page that stays is as it was, but for what it no longer waits for.  *)
Stays ==
    LET gone == {s \in ui.waits : net'[s].kind = "idle"} IN
    /\ OutletKey' = OutletKey
    /\ ui' = [ui EXCEPT !.waits = @ \ gone,
                        !.saving = @ /\ \A s \in gone : net[s].kind # "switch"]

LEMMA StaysFields ==
  ASSUME Tab, Stays
  PROVE  /\ ui'.waits = {s \in ui.waits : net'[s].kind # "idle"}
         /\ ui'.saving \in BOOLEAN /\ TabFields \subseteq DOMAIN ui'
         /\ ui'.mounted = ui.mounted /\ ui'.loading = ui.loading /\ ui'.locked = ui.locked
         /\ ui'.rows = ui.rows /\ ui'.for = ui.for /\ ui'.sel = ui.sel
         /\ ui'.chosen = ui.chosen /\ ui'.view = ui.view /\ ui'.by = ui.by
         /\ ui'.open = ui.open /\ ui'.of = ui.of /\ ui'.hidden = ui.hidden
         /\ ui'.edit = ui.edit /\ ui'.tags = ui.tags /\ ui'.crossed = ui.crossed
<1>1. TabFields \subseteq DOMAIN ui /\ ui.saving \in BOOLEAN
  BY DEF Tab, Whole
<1>2. QED
  BY <1>1 DEF Stays, TabFields

LEMMA StaysTab ==
  ASSUME Tab, SessionStep, Stays
  PROVE  Tab'
<1>1. /\ site' = site /\ OfRequests(net') /\ OutletKey' = OutletKey
      /\ \A t \in Slots : net'[t] = net[t] \/ Dismissed(t) \/ Broken(t) \/ Begun(t)
  BY DEF SessionStep, Stays
<1>2. /\ ui'.waits = {s \in ui.waits : net'[s].kind # "idle"}
      /\ ui.waits \subseteq Slots /\ \A s \in ui.waits : Awaited(net[s], ui.sel)
  BY StaysFields DEF Tab, Waits
<1>3. Whole(ui)'
  BY <1>1, StaysFields DEF Tab, Whole, InDrawer
<1>4. ui.mounted => user # NoOrg /\ user' = user
  <2>1. ui.mounted => OutletKey # NoOrg
    BY DEF Tab, Mounted
  <2>2. OutletKey # NoOrg => user = OutletKey
    BY DEF OutletKey
  <2>3. OutletKey' # NoOrg => user' = OutletKey'
    BY DEF OutletKey
  <2>4. QED
    BY <1>1, <2>1, <2>2, <2>3
<1>5. ~ui.mounted => ui.waits = {}
  BY DEF Tab, Mounted
<1>6. ASSUME NEW s \in ui'.waits PROVE Awaited(net[s], ui.sel)'
  <2>1. /\ s \in ui.waits /\ s \in Slots /\ net'[s].kind # "idle" /\ user' = user
        /\ user' # NoOrg /\ Awaited(net[s], ui.sel) /\ ui'.sel = ui.sel
    BY <1>2, <1>4, <1>5, <1>6, StaysFields
  <2>2. CASE net'[s] = net[s]
    BY <1>1, <2>1, <2>2 DEF Awaited, Filtered
  <2>3. CASE Broken(s)
    BY <1>1, <2>1, <2>3 DEF Awaited, Filtered, Broken
  <2>4. CASE Begun(s)
    BY <1>1, <2>1, <2>4 DEF Awaited, Filtered, Begun, PageKinds
  <2>5. QED
    BY <1>1, <2>1, <2>2, <2>3, <2>4, IdleIsRequest DEF Dismissed
<1>7. Alone(ui, net)'
  <2>1. ASSUME site = "keys", NEW s \in ui'.waits, net'[s].kind = "load"
        PROVE  s \in ui.waits /\ net[s].kind = "load"
    BY <1>1, <1>2, <1>4, <1>5, <2>1, IdleIsRequest DEF Dismissed, Broken, Begun
  <2>2. QED
    BY <1>1, <2>1 DEF Alone, Tab, Waits
<1>8. Waits'
  BY <1>2, <1>6, <1>7 DEF Waits
<1>9. Mounted'
  <2>1. CASE ui.mounted
    BY <1>1, <1>4, <2>1, StaysFields DEF Tab, Mounted
  <2>2. CASE ~ui.mounted
    BY <1>2, <1>5, <2>2, StaysFields DEF Tab, Mounted, Empty
  <2>3. QED
    BY <2>1, <2>2
<1>10. Requests'
  BY DEF SessionStep, Requests, OfRequests
<1>11. QED
  BY <1>3, <1>8, <1>9, <1>10, StepRevised DEF Tab, SessionStep

LEMMA StepKinds ==
  ASSUME Tab, AtRest, SessionStep
  PROVE  Kinds' /\ Tokens' /\ Never'
<1>1. site' = site /\ doc' = doc
  BY DEF SessionStep
<1>2. \A t \in Slots : net'[t] = net[t] \/ Dismissed(t) \/ Broken(t) \/ Begun(t)
  BY DEF SessionStep
<1>3. Kinds'
  BY <1>1, <1>2, IdleIsRequest
     DEF AtRest, Kinds, Dismissed, Broken, Begun, Writes, Editors
<1>4. Tokens'
  BY <1>1 DEF AtRest, Tokens, SessionStep
<1>5. Never'
  BY <1>1 DEF AtRest, Never
<1>6. QED
  BY <1>3, <1>4, <1>5

LEMMA StepRest ==
  ASSUME Tab, AtRest, SessionStep, ui' = FreshUi \/ Stays
  PROVE  AtRest'
<1>1. site' = site /\ doc' = doc
  BY DEF SessionStep
<1>2. \A t \in Slots : net'[t] = net[t] \/ Dismissed(t) \/ Broken(t) \/ Begun(t)
  BY DEF SessionStep
<1>3. ui' = FreshUi => ~ui'.mounted /\ ui'.rows = Empty
  BY DEF FreshUi
<1>4. ASSUME Clean', Editors PROVE Rest'
  <2>1. Stays /\ ui.mounted /\ ~ui.crossed /\ spent'.failures = 0 /\ user' = Home
    BY <1>3, <1>4, StaysFields DEF Clean
  <2>2. OutletKey # NoOrg /\ OutletKey' = OutletKey
    BY <2>1 DEF Tab, Mounted, Stays
  <2>3. user = Home /\ user' # NoOrg
    BY <2>1, <2>2 DEF OutletKey
  <2>4. Clean
    BY <1>4, <2>1, <2>3 DEF Clean, SessionStep
  <2>5. /\ \A t \in Slots : net[t].kind \in Writes => t \in ui.waits
        /\ \A t, x \in ui.waits : t = x
        /\ \A t \in ui.waits : UnderWay(net[t])
        /\ ui.waits = {} => Settled(ui)
    BY <1>4, <2>4 DEF AtRest, Rest
  <2>6. ui.waits \subseteq Slots /\ \A t \in ui.waits : net[t].kind \in PageKinds
    BY <1>4 DEF Tab, Waits, Awaited, Editors
  <2>7. \A t \in ui.waits : net'[t] = net[t]
    BY <1>2, <1>4, <2>1, <2>3, <2>6 DEF Dismissed, Broken, Begun, Editors
  <2>8. ui'.waits = ui.waits
    <3>1. \A t \in ui.waits : net'[t].kind # "idle"
      BY <2>6, <2>7 DEF PageKinds, Writes
    <3>2. ui'.waits = {t \in ui.waits : net'[t].kind # "idle"}
      BY <2>1, StaysFields
    <3>3. QED
      BY <3>1, <3>2
  <2>9. \A t \in Slots : net'[t].kind \in Writes => t \in ui.waits
    BY <1>2, <2>1, <2>5, IdleIsRequest DEF Dismissed, Broken, Begun, Writes
  <2>10. /\ ui'.rows = ui.rows /\ ui'.view = ui.view /\ ui'.open = ui.open
         /\ ui'.edit = ui.edit
    BY <2>1, StaysFields
  <2>11. Settled(ui) => Settled(ui)'
    BY <1>1, <2>10 DEF Settled, Current, Routed
  <2>12. \A i \in Items : CurrentBut(ui, i) => CurrentBut(ui, i)'
    BY <1>1, <2>10 DEF Current, Routed, CurrentBut
  <2>13. ASSUME NEW t \in ui.waits PROVE UnderWay(net[t])'
    <3>1. net'[t] = net[t] /\ UnderWay(net[t]) /\ IsRequest(net[t])
      BY <2>5, <2>6, <2>7 DEF Tab, Requests, OfRequests
    <3>2. net[t].kind \in Writes /\ net[t].code = "ok" => net[t].item \in Items
      BY <3>1 DEF IsRequest
    <3>3. QED
      BY <1>1, <2>11, <2>12, <3>1, <3>2 DEF UnderWay
  <2>14. QED
    BY <1>1, <1>4, <2>5, <2>8, <2>9, <2>11, <2>13 DEF Rest, Editors
<1>5. ASSUME ~Editors PROVE Rest'
  <2>1. /\ Current(ui.rows)
        /\ \A t \in Slots : net[t].kind = "load" /\ net[t].code = "ok" => Current(net[t].val)
    BY <1>5 DEF AtRest, Rest
  <2>2. \A t \in Slots : net'[t].kind = "load" /\ net'[t].code = "ok" => Current(net'[t].val)
    BY <1>2, <2>1, IdleIsRequest DEF Dismissed, Broken, Begun
  <2>3. (\A t \in Slots : net[t].kind = "load" /\ net[t].code = "ok" => Current(net[t].val))'
    BY <1>1, <2>2 DEF Current
  <2>4. Current(Empty)
    BY DEF Current, Empty
  <2>5. ui'.rows = ui.rows \/ ui'.rows = Empty
    BY <1>3, StaysFields
  <2>6. Current(ui.rows)'
    BY <1>1, <2>1, <2>4, <2>5 DEF Current
  <2>7. QED
    BY <1>1, <1>5, <2>3, <2>6 DEF Rest, Editors
<1>6. QED
  BY <1>1, <1>4, <1>5, StepKinds DEF AtRest, Rest, Editors

LEMMA RemountsKeep ==
  ASSUME Tab, AtRest, SessionStep, Remounts
  PROVE  Tab' /\ AtRest'
<1>1. ui' = FreshUi \/ Stays
  BY DEF Remounts, Stays
<1>2. QED
  BY <1>1, RemountedTab, StaysTab, StepRest

LEMMA RemountsConverse ==
  ASSUME Conversation, Remounts
  PROVE  Conversation'
<1>1. chat' = FreshChat \/ chat' = chat
  BY DEF Remounts
<1>2. QED
  BY <1>1, ChatIsConversation, FreshChats

-----------------------------------------------------------------------------
(* The steps of the session.                                               *)
LEMMA RefreshesSlots ==
  ASSUME NEW n, OfRequests(n), Free(n) # {}, NEW kind \in {"status", "bootStatus"}
  PROVE  /\ OfRequests(Refreshes(n, kind))
         /\ \A t \in Slots :
              \/ Refreshes(n, kind)[t] = n[t]
              \/ /\ n[t].kind = "idle"
                 /\ Refreshes(n, kind)[t].kind = kind /\ Refreshes(n, kind)[t].code = "sent"
<1> DEFINE q == Request(kind, NoToken)
<1>1. IsRequest(q) /\ q.kind = kind /\ q.code = "sent"
  <2>1. kind \in AuthKinds \cup PageKinds /\ kind \notin Moves /\ kind \notin Writes
    BY DEF AuthKinds, Moves, Writes
  <2>2. QED
    BY <2>1, TokenNone, NewRequest
<1>2. Refreshes(n, kind) = n \/ Refreshes(n, kind) = Put(n, q)
  BY DEF Refreshes
<1> HIDE DEF q
<1>3. CASE Refreshes(n, kind) = n
  BY <1>3
<1>4. CASE Refreshes(n, kind) = Put(n, q)
  <2>1. /\ n[NextSlot(n)].kind = "idle" /\ NextSlot(n) \in Slots
        /\ Put(n, q)[NextSlot(n)] = q
        /\ \A t \in Slots : t # NextSlot(n) => Put(n, q)[t] = n[t]
        /\ OfRequests(Put(n, q))
    BY <1>1, PutSlots
  <2>2. QED
    BY <1>1, <1>4, <2>1
<1>5. QED
  BY <1>2, <1>3, <1>4

(* What is left when an answer is read, and the setup asked for again.     *)
LEMMA ReadAndAsked ==
  ASSUME Tab, NEW s \in Slots, NEW kind \in {"status", "bootStatus"},
         net' = Refreshes(Drop(s), kind)
  PROVE  /\ OfRequests(net')
         /\ \A t \in Slots : \/ t # s /\ net'[t] = net[t]
                             \/ t = s /\ net'[t] = Idle
                             \/ /\ t = s \/ net[t].kind = "idle"
                                /\ net'[t].kind = kind /\ net'[t].code = "sent"
<1>1. /\ OfRequests(Drop(s)) /\ Free(Drop(s)) # {} /\ Drop(s)[s] = Idle
      /\ \A t \in Slots : t # s => Drop(s)[t] = net[t]
  BY DropSlots DEF Tab
<1>2. /\ OfRequests(Refreshes(Drop(s), kind))
      /\ \A t \in Slots :
              \/ Refreshes(Drop(s), kind)[t] = Drop(s)[t]
              \/ /\ Drop(s)[t].kind = "idle"
                 /\ Refreshes(Drop(s), kind)[t].kind = kind
                 /\ Refreshes(Drop(s), kind)[t].code = "sent"
  BY <1>1, RefreshesSlots
<1>3. QED
  BY <1>1, <1>2

LEMMA IdleUnawaited ==
  ASSUME Tab, NEW t \in Slots, net[t].kind \notin PageKinds \cup {"switch"}
  PROVE  t \notin ui.waits
  BY DEF Tab, Waits, Awaited

LEMMA SignsOutSteps ==
  ASSUME Tab, NEW s \in Slots, SignsOut(s), Keeps, site' = site
  PROVE  SessionStep
<1>1. /\ stored' = NoToken /\ user' = NoOrg /\ net' = Refreshes(Drop(s), "status")
      /\ UNCHANGED <<loading, needsSetup, excused, sessions, setup, doc, spent>>
  BY DEF SignsOut, Keeps
<1>2. /\ OfRequests(net')
      /\ \A t \in Slots : net'[t] = net[t] \/ Dismissed(t) \/ Begun(t)
  <2>1. /\ OfRequests(net')
        /\ \A t \in Slots : \/ t # s /\ net'[t] = net[t]
                            \/ t = s /\ net'[t] = Idle
                            \/ /\ t = s \/ net[t].kind = "idle"
                               /\ net'[t].kind = "status" /\ net'[t].code = "sent"
    BY <1>1, ReadAndAsked
  <2>2. QED
    BY <1>1, <2>1 DEF Dismissed, Begun
<1>3. Stores'
  BY <1>1, TokenNone DEF Tab, Stores
<1>4. spent.own \in Nat
  BY DEF Tab, Stores
<1>5. QED
  BY <1>1, <1>2, <1>3, <1>4 DEF SessionStep

(* A request that is read and gone.                                        *)
LEMMA DroppedSteps ==
  ASSUME Tab, NEW s \in Slots, net' = Drop(s), net[s].kind \notin PageKinds
  PROVE  /\ OfRequests(net')
         /\ \A t \in Slots : net'[t] = net[t] \/ Dismissed(t)
<1>1. /\ OfRequests(Drop(s)) /\ Drop(s)[s] = Idle
      /\ \A t \in Slots : t # s => Drop(s)[t] = net[t]
  BY DropSlots DEF Tab
<1>2. QED
  BY <1>1 DEF Dismissed

LEMMA SessionAtSite ==
  ASSUME Tab, AtRest, NEW s \in Slots
  PROVE  /\ IsRequest(net[s]) /\ IsToken(stored) /\ IsToken(net[s].token)
         /\ IsToken(net[s].grant)
         /\ net[s].kind \in {"me", "bootStatus", "login", "signup"} => site = "organizations"
         /\ net[s].kind = "switch" /\ net[s].from = "createOrg" => site = "organizations"
         /\ spent.own \in Nat
  BY DEF Tab, Requests, OfRequests, IsRequest, Stores, AtRest, Kinds

LEMMA TokenOrg == ASSUME NEW t, IsToken(t) PROVE t.org \in Orgs \cup {NoOrg}
  BY DEF IsToken, NoToken

LEMMA BootstrappedSteps ==
  ASSUME Tab, AtRest, NEW s \in Slots, Bootstrapped(s), site' = site
  PROVE  SessionStep
<1>1. /\ net[s].kind = "me" /\ UNCHANGED <<sessions, setup, doc, spent>>
  BY DEF Bootstrapped, Reads, Keeps
<1>2. site = "organizations" /\ spent.own \in Nat /\ net[s].kind \notin PageKinds \cup {"switch"}
  BY <1>1, SessionAtSite DEF PageKinds, Writes
<1>3. CASE /\ net[s].code = "ok"
           /\ user' = net[s].token.org
           /\ TokenValidated
           /\ loading' = FALSE
           /\ net' = Drop(s)
           /\ UNCHANGED <<stored, excused>>
  <2>1. OfRequests(net') /\ \A t \in Slots : net'[t] = net[t] \/ Dismissed(t)
    BY <1>2, <1>3, DroppedSteps
  <2>2. user' \in Orgs \cup {NoOrg}
    BY <1>3, SessionAtSite, TokenOrg
  <2>3. Stores'
    BY <1>1, <1>3, <2>2 DEF Tab, Stores, TokenValidated
  <2>4. QED
    BY <1>1, <1>2, <2>1, <2>3 DEF SessionStep
<1>4. CASE /\ net[s].code # "ok"
           /\ stored' = IF net[s].code = "unauthorized" THEN NoToken ELSE stored
           /\ user' = IF net[s].code = "unauthorized" THEN NoOrg ELSE user
           /\ net' = Refreshes(Drop(s), "bootStatus")
           /\ UNCHANGED <<loading, needsSetup, excused>>
  <2>1. /\ OfRequests(net')
        /\ \A t \in Slots : \/ t # s /\ net'[t] = net[t]
                            \/ t = s /\ net'[t] = Idle
                            \/ /\ t = s \/ net[t].kind = "idle"
                               /\ net'[t].kind = "bootStatus" /\ net'[t].code = "sent"
    BY <1>4, ReadAndAsked
  <2>2. \A t \in Slots : t = s \/ net[t].kind = "idle" => t \notin ui.waits
    BY <1>2, IdleUnawaited DEF PageKinds, Writes
  <2>3. \A t \in Slots : net'[t] = net[t] \/ Dismissed(t) \/ Begun(t)
    BY <1>2, <2>1, <2>2 DEF Dismissed, Begun
  <2>4. Stores'
    BY <1>1, <1>4, TokenNone DEF Tab, Stores
  <2>5. QED
    BY <1>1, <1>2, <2>1, <2>3, <2>4 DEF SessionStep
<1>5. QED
  BY <1>3, <1>4 DEF Bootstrapped

LEMMA StatusKnownSteps ==
  ASSUME Tab, AtRest, NEW s \in Slots, StatusKnown(s), site' = site
  PROVE  SessionStep
<1>1. /\ net[s].kind \in {"status", "bootStatus"} /\ UNCHANGED <<sessions, setup, doc, spent>>
      /\ needsSetup' \in {"unknown", "yes", "no"}
      /\ loading' = (loading /\ net[s].kind # "bootStatus")
      /\ net' = Drop(s) /\ UNCHANGED <<stored, user, excused>>
  BY DEF StatusKnown, Reads, Keeps
<1>2. net[s].kind \notin PageKinds /\ spent.own \in Nat
  BY <1>1, SessionAtSite DEF PageKinds, Writes
<1>3. OfRequests(net') /\ \A t \in Slots : net'[t] = net[t] \/ Dismissed(t)
  BY <1>1, <1>2, DroppedSteps
<1>4. loading' \in BOOLEAN
  BY <1>1 DEF Tab, Stores
<1>5. Stores'
  BY <1>1, <1>4 DEF Tab, Stores
<1>6. QED
  BY <1>1, <1>2, <1>3, <1>5 DEF SessionStep

LEMMA SignedInSteps ==
  ASSUME Tab, AtRest, NEW s \in Slots, SignedIn(s), site' = site
  PROVE  SessionStep
<1>1. /\ net[s].kind \in {"login", "signup"} /\ UNCHANGED <<sessions, setup, doc, spent>>
      /\ net' = Drop(s) /\ UNCHANGED <<loading, excused>>
      /\ \/ stored' = net[s].grant /\ user' = net[s].grant.org /\ needsSetup' = "no"
         \/ UNCHANGED <<stored, user, needsSetup>>
  BY DEF SignedIn, Reads, Keeps, SetToken
<1>2. /\ net[s].kind \notin PageKinds /\ spent.own \in Nat /\ site = "organizations"
      /\ IsToken(net[s].grant)
  BY <1>1, SessionAtSite DEF PageKinds, Writes
<1>3. OfRequests(net') /\ \A t \in Slots : net'[t] = net[t] \/ Dismissed(t)
  BY <1>1, <1>2, DroppedSteps
<1>4. /\ IsToken(stored)' /\ user' \in Orgs \cup {NoOrg}
      /\ needsSetup' \in {"unknown", "yes", "no"}
  <2>1. CASE stored' = net[s].grant /\ user' = net[s].grant.org /\ needsSetup' = "no"
    BY <1>2, <2>1, TokenOrg DEF IsToken
  <2>2. CASE UNCHANGED <<stored, user, needsSetup>>
    BY <2>2 DEF Tab, Stores, IsToken
  <2>3. QED
    BY <1>1, <2>1, <2>2
<1>5. Stores'
  BY <1>1, <1>4 DEF Tab, Stores
<1>6. QED
  BY <1>1, <1>2, <1>3, <1>5 DEF SessionStep

LEMMA LoadUnder ==
  ASSUME NEW token, IsToken(token), NEW shown
  PROVE  LET q == [Request("load", token) EXCEPT !.shown = shown] IN
         IsRequest(q) /\ q.kind = "load" /\ q.shown = shown /\ q.code = "sent"
<1> DEFINE p == Request("load", token)
<1>1. IsRequest(p) /\ p.kind = "load" /\ p.code = "sent"
  <2>1. "load" \in AuthKinds \cup PageKinds /\ "load" \notin Moves /\ "load" \notin Writes
    BY DEF AuthKinds, PageKinds, Moves, Writes
  <2>2. QED
    BY <2>1, NewRequest
<1> HIDE DEF p
<1>2. IsRequest([p EXCEPT !.shown = shown]) /\ [p EXCEPT !.shown = shown].kind = "load"
      /\ [p EXCEPT !.shown = shown].shown = shown /\ [p EXCEPT !.shown = shown].code = "sent"
  BY <1>1 DEF IsRequest, RequestFields
<1>3. QED
  BY <1>2 DEF p

LEMMA SwitchedSteps ==
  ASSUME Tab, AtRest, NEW s \in Slots, Switched(s), site' = site
  PROVE  SessionStep
<1> DEFINE goes == net[s].code = "ok" /\ net[s].from = "createOrg"
           q == [Request("load", stored') EXCEPT !.shown = user']
<1>1. /\ net[s].kind = "switch" /\ UNCHANGED <<sessions, setup, doc, spent>>
      /\ UNCHANGED <<loading, needsSetup, excused>>
      /\ \/ /\ stored' = net[s].grant
            /\ user' = IF user = NoOrg THEN NoOrg ELSE net[s].grant.org
         \/ UNCHANGED <<stored, user>>
  BY DEF Switched, Reads, Keeps, SetToken
<1>2. net' = IF goes THEN Put(Drop(s), q) ELSE Drop(s)
  BY DEF Switched
<1>3. /\ net[s].kind \notin PageKinds /\ spent.own \in Nat /\ IsToken(net[s].grant)
      /\ goes => site = "organizations"
  BY <1>1, SessionAtSite DEF PageKinds, Writes
<1>4. IsToken(stored') /\ user' \in Orgs \cup {NoOrg}
  <2>1. net[s].grant.org \in Orgs \cup {NoOrg} /\ user \in Orgs \cup {NoOrg} /\ IsToken(stored)
    BY <1>3, TokenOrg DEF Tab, Stores
  <2>2. QED
    BY <1>1, <1>3, <2>1
<1>5. Stores'
  BY <1>1, <1>4 DEF Tab, Stores, IsToken
<1>6. IsRequest(q) /\ q.kind = "load" /\ q.shown = user' /\ q.code = "sent"
  BY <1>4, LoadUnder
<1> HIDE DEF goes, q
<1>7. OfRequests(net') /\ \A t \in Slots : net'[t] = net[t] \/ Dismissed(t) \/ Begun(t)
  <2>1. CASE ~goes
    <3>1. net' = Drop(s)
      BY <1>2, <2>1
    <3>2. QED
      BY <1>3, <3>1, DroppedSteps
  <2>2. CASE goes
    <3>1. /\ OfRequests(Drop(s)) /\ Free(Drop(s)) # {} /\ Drop(s)[s] = Idle
          /\ \A t \in Slots : t # s => Drop(s)[t] = net[t]
      BY DropSlots DEF Tab
    <3> DEFINE n == Drop(s)
    <3>2. net' = Put(n, q)
      BY <1>2, <2>2
    <3> HIDE DEF n
    <3>3. OfRequests(n) /\ Free(n) # {}
      BY <3>1 DEF n
    <3>4. /\ NextSlot(n) \in Slots /\ net'[NextSlot(n)] = q /\ OfRequests(net')
          /\ \A t \in Slots : t # NextSlot(n) => net'[t] = n[t]
      BY <1>6, <3>2, <3>3, PutSlots
    <3>5. Begun(NextSlot(n))
      BY <1>3, <1>6, <2>2, <3>4 DEF Begun
    <3>6. \A t \in Slots : n[t] = IF t = s THEN Idle ELSE net[t]
      BY <3>1 DEF n
    <3>7. \A t \in Slots : t # NextSlot(n) => net'[t] = net[t] \/ Dismissed(t)
      BY <1>3, <3>4, <3>6 DEF Dismissed
    <3>8. QED
      BY <3>4, <3>5, <3>7
  <2>3. QED
    BY <2>1, <2>2
<1>8. (stored' = stored /\ user' = user) \/ user' = NoOrg \/ stored'.org = user'
  BY <1>1
<1>9. QED
  BY <1>1, <1>3, <1>5, <1>7, <1>8 DEF SessionStep

LEMMA PasswordChangedSteps ==
  ASSUME Tab, AtRest, NEW s \in Slots, PasswordChanged(s), site' = site
  PROVE  SessionStep
<1>1. net[s].kind = "password" /\ UNCHANGED <<sessions, setup, doc, spent>>
  BY DEF PasswordChanged, Reads, Keeps
<1>2. CASE SignsOut(s)
  BY <1>2, SignsOutSteps DEF PasswordChanged
<1>3. CASE net' = Drop(s) /\ UNCHANGED <<stored, user, loading, needsSetup, excused>>
  <2>1. net[s].kind \notin PageKinds /\ spent.own \in Nat
    BY <1>1, SessionAtSite DEF PageKinds, Writes
  <2>2. OfRequests(net') /\ \A t \in Slots : net'[t] = net[t] \/ Dismissed(t)
    BY <1>3, <2>1, DroppedSteps
  <2>3. Stores'
    BY <1>1, <1>3 DEF Tab, Stores
  <2>4. QED
    BY <1>1, <1>3, <2>1, <2>2, <2>3 DEF SessionStep
<1>4. QED
  BY <1>2, <1>3 DEF PasswordChanged

LEMMA ReadsSessionAnswerKeeps ==
  ASSUME Tab, AtRest, NEW s \in Slots, ReadsSessionAnswer(s)
  PROVE  Tab' /\ AtRest'
<1>1. site' = site /\ Remounts
  BY DEF ReadsSessionAnswer, Remounts
<1>2. CASE ReadsSession(s)
  <2>1. LoggedOut(s) => SessionStep
    BY <1>1, SignsOutSteps DEF LoggedOut
  <2>2. SessionStep
    BY <1>1, <1>2, <2>1, BootstrappedSteps, StatusKnownSteps, SignedInSteps, SwitchedSteps,
       PasswordChangedSteps DEF ReadsSession
  <2>3. QED
    BY <1>1, <2>2, RemountsKeep
<1>3. CASE Invalidated(s)
  <2>1. SessionStep
    BY <1>1, <1>3, SignsOutSteps DEF Invalidated
  <2>2. QED
    BY <1>1, <2>1, RemountsKeep
<1>4. QED
  BY <1>2, <1>3 DEF ReadsSessionAnswer

LEMMA AsksSteps ==
  ASSUME Tab, NEW q, IsRequest(q), q.code = "sent", q.from = NoItem, Asks(q), site' = site,
         \/ q.kind \in {"switch", "logout", "password"}
         \/ site = "organizations" /\ q.kind \in {"login", "signup"}
  PROVE  SessionStep
<1>1. /\ UNCHANGED <<sessions, setup, stored, user, loading, needsSetup, doc>>
      /\ Free(net) # {} /\ net' = Put(net, q) /\ excused' = (excused \/ Races(net'))
      /\ Own
  BY DEF Asks, Sends
<1>2. OfRequests(net)
  BY DEF Tab, Requests
<1>3. /\ OfRequests(net') /\ NextSlot(net) \in Slots /\ net[NextSlot(net)].kind = "idle"
      /\ net'[NextSlot(net)] = q
      /\ \A t \in Slots : t # NextSlot(net) => net'[t] = net[t]
  BY <1>1, <1>2, PutSlots
<1>4. NextSlot(net) \notin ui.waits
  BY <1>3, IdleUnawaited DEF PageKinds, Writes
<1>5. Begun(NextSlot(net))
  BY <1>3, <1>4 DEF Begun, NoItem
<1>6. /\ {"failures", "foreign", "own"} \subseteq DOMAIN spent'
      /\ spent'.failures = spent.failures /\ spent'.foreign = spent.foreign
      /\ spent'.own = spent.own + 1 /\ spent'.own \in 0..MaxOwn /\ spent.own \in 0..MaxOwn
      /\ spent.own \in Nat
  BY <1>1 DEF Tab, Stores, Own, Spends
<1>7. excused' \in BOOLEAN
  BY <1>1 DEF Tab, Stores, Races
<1>8. Stores'
  BY <1>1, <1>6, <1>7 DEF Tab, Stores
<1>9. \A t \in Slots : net'[t] = net[t] \/ Dismissed(t) \/ Broken(t) \/ Begun(t)
  BY <1>3, <1>5
<1>10. spent'.own \in Nat /\ spent.own <= spent'.own
  BY <1>6
<1>11. QED
  BY <1>1, <1>3, <1>6, <1>8, <1>9, <1>10 DEF SessionStep

LEMMA SwitchOrganizationSteps ==
  ASSUME Tab, SwitchOrganization, site' = site
  PROVE  SessionStep
<1> DEFINE q(o) == [Request("switch", stored) EXCEPT !.to = o]
<1>1. PICK o \in Orgs \ (Unborn \cup {user}) : Asks(q(o))
  BY DEF SwitchOrganization
<1>2. "switch" \in Moves /\ IsToken(stored) /\ o \in Orgs
  BY DEF Tab, Stores, Moves
<1>3. /\ Leaves(q(o), "switch", stored) /\ IsRequest(q(o)) /\ q(o).from = NoItem
  BY <1>2, RequestLeaves, MoveLeaves
<1> HIDE DEF q
<1>4. q(o).code = "sent" /\ q(o).kind = "switch"
  BY <1>3 DEF Leaves
<1>5. QED
  BY <1>1, <1>3, <1>4, AsksSteps

LEMMA OperatorSessionSteps ==
  ASSUME Tab, OperatorSession, Account, site' = site
  PROVE  SessionStep
<1>1. ASSUME NEW kind \in {"login", "signup", "logout", "password"},
             Asks(Request(kind, stored))
      PROVE  SessionStep
  <2>1. kind \in AuthKinds \cup PageKinds /\ kind \notin Moves /\ kind \notin Writes
    BY DEF AuthKinds, Moves, Writes
  <2>2. IsToken(stored)
    BY DEF Tab, Stores
  <2> DEFINE q == Request(kind, stored)
  <2>3. IsRequest(q) /\ q.kind = kind /\ q.code = "sent" /\ q.from = NoItem
    BY <2>1, <2>2, NewRequest
  <2>4. Asks(q)
    BY <1>1
  <2> HIDE DEF q
  <2>5. QED
    BY <2>3, <2>4, AsksSteps DEF Account
<1>2. SubmitLogin \/ SignOut \/ ChangePassword => SessionStep
  BY <1>1 DEF SubmitLogin, SignOut, ChangePassword
<1>3. QED
  BY <1>2, SwitchOrganizationSteps DEF OperatorSession

LEMMA MishapSpends ==
  ASSUME Tab, NEW what \in {"failures", "foreign"}, Spends(what)
  PROVE  /\ {"failures", "foreign", "own"} \subseteq DOMAIN spent'
         /\ spent'.failures \in Nat /\ spent'.foreign \in Nat /\ spent'.own = spent.own
         /\ spent'[what] # 0 /\ spent'.own \in 0..MaxOwn /\ spent.own \in Nat
         /\ spent'.failures = 0 => spent.failures = 0
         /\ spent'.foreign = 0 => spent.foreign = 0
<1>1. /\ {"failures", "foreign", "own"} \subseteq DOMAIN spent
      /\ spent.failures \in Nat /\ spent.foreign \in Nat /\ spent.own \in 0..MaxOwn
  BY DEF Tab, Stores
<1>2. CASE what = "failures"
  BY <1>1, <1>2 DEF Spends
<1>3. CASE what = "foreign"
  BY <1>1, <1>3 DEF Spends
<1>4. QED
  BY <1>2, <1>3

LEMMA OtherTabSteps ==
  ASSUME Tab, Account, OtherTab, site' = site
  PROVE  SessionStep
<1>1. /\ UNCHANGED <<setup, user, loading, needsSetup, net, doc>> /\ excused' = TRUE
      /\ site = "organizations"
  BY DEF OtherTab, Account
<1>2. /\ {"failures", "foreign", "own"} \subseteq DOMAIN spent'
      /\ spent'.failures \in Nat /\ spent'.foreign \in Nat /\ spent'.own = spent.own
      /\ spent'.own \in 0..MaxOwn /\ spent.own \in Nat
      /\ spent'.failures = 0 => spent.failures = 0
      /\ spent'.foreign = 0 => spent.foreign = 0
  BY MishapSpends DEF OtherTab
<1>3. /\ sessions \in [Sids -> Orgs \cup {NoOrg}] /\ IsToken(stored)
  BY DEF Tab, Stores
<1>4. sessions' \in [Sids -> Orgs \cup {NoOrg}] /\ IsToken(stored')
  <2>1. CASE \E o \in Orgs \ Unborn :
            /\ Valid(stored) /\ o # stored.org
            /\ sessions' = [sessions EXCEPT ![stored.sid] = o]
            /\ stored' = [stored EXCEPT !.org = o]
    <3>1. PICK o \in Orgs \ Unborn :
            /\ Valid(stored) /\ o # stored.org
            /\ sessions' = [sessions EXCEPT ![stored.sid] = o]
            /\ stored' = [stored EXCEPT !.org = o]
      BY <2>1
    <3>2. stored.sid \in Sids
      BY <3>1 DEF Valid
    <3>3. IsToken([stored EXCEPT !.org = o])
      BY <1>3, <3>2 DEF IsToken
    <3>4. QED
      BY <1>3, <3>1, <3>3
  <2>2. CASE /\ Valid(stored)
             /\ sessions' = [sessions EXCEPT ![stored.sid] = NoOrg]
             /\ stored' = NoToken
    BY <1>3, <2>2, TokenNone
  <2>3. CASE \E sid \in Unused, o \in Orgs \ Unborn :
            /\ setup /\ stored = NoToken
            /\ sessions' = [sessions EXCEPT ![sid] = o]
            /\ stored' = [sid |-> sid, org |-> o]
    BY <1>3, <2>3 DEF IsToken, Unused
  <2>4. QED
    BY <2>1, <2>2, <2>3 DEF OtherTab
<1>5. Stores'
  BY <1>1, <1>2, <1>4 DEF Tab, Stores, IsToken
<1>6. OfRequests(net')
  BY <1>1 DEF Tab, Requests, OfRequests
<1>7. QED
  BY <1>1, <1>2, <1>5, <1>6 DEF SessionStep

LEMMA FailsSteps ==
  ASSUME Tab, AtRest, NEW s \in Slots, Fails(s), site' = site
  PROVE  SessionStep
<1>1. /\ UNCHANGED <<sessions, setup, stored, user, loading, needsSetup, doc>>
      /\ excused' = TRUE /\ net' = [net EXCEPT ![s].code = "failed"]
  BY DEF Fails
<1>2. /\ {"failures", "foreign", "own"} \subseteq DOMAIN spent'
      /\ spent'.failures \in Nat /\ spent'.foreign \in Nat /\ spent'.own = spent.own
      /\ spent'.failures # 0 /\ spent'.own \in 0..MaxOwn /\ spent.own \in Nat
      /\ spent'.failures = 0 => spent.failures = 0
      /\ spent'.foreign = 0 => spent.foreign = 0
  BY MishapSpends DEF Fails
<1>3. /\ net = [t \in Slots |-> net[t]] /\ \A t \in Slots : IsRequest(net[t])
  BY DEF Tab, Requests, OfRequests
<1> DEFINE p == [net[s] EXCEPT !.code = "failed"]
<1>4. net'[s] = p /\ (\A t \in Slots : t # s => net'[t] = net[t])
      /\ net' = [t \in Slots |-> net'[t]]
  BY <1>1, <1>3
<1>5. IsRequest(p) /\ p.code = "failed" /\ p.kind = net[s].kind /\ p.shown = net[s].shown
      /\ p.sel = net[s].sel /\ p.from = net[s].from
  BY <1>3 DEF IsRequest, RequestFields, Codes
<1> HIDE DEF p
<1>6. OfRequests(net')
  <2>1. \A t \in Slots : IsRequest(net'[t])
    BY <1>3, <1>4, <1>5
  <2>2. QED
    BY <1>4, <2>1 DEF OfRequests
<1>7. Broken(s)
  BY <1>2, <1>4, <1>5 DEF Broken
<1>8. Stores'
  BY <1>1, <1>2 DEF Tab, Stores
<1>9. QED
  BY <1>1, <1>2, <1>4, <1>6, <1>7, <1>8 DEF SessionStep

-----------------------------------------------------------------------------
(* The invariant.                                                          *)
FirstStores ==
    /\ Stores /\ OfRequests(net) /\ ui = FreshUi /\ chat = FreshChat
    /\ doc \in Table
    /\ \A i \in Items : doc[i].rev = 0 /\ (~doc[i].here => doc[i].hidden = "stored")
    /\ \A s \in Slots : /\ net[s].kind \in {"idle", "me", "bootStatus"}
                        /\ net[s].kind # "idle" => site = "organizations"
    /\ spent.own = 0
    /\ site # "organizations" => stored.org = user

LEMMA InitStores == ASSUME Init PROVE FirstStores
<1>1. ui = FreshUi /\ chat = FreshChat
  BY DEF Init
<1>2. /\ spent = [failures |-> 0, foreign |-> 0, own |-> 0] /\ excused = FALSE
      /\ setup \in BOOLEAN /\ loading \in BOOLEAN /\ needsSetup \in {"unknown", "yes", "no"}
      /\ user \in Orgs \cup {NoOrg}
  BY DEF Init, InitSession, SignedInAlready
<1>3. /\ doc \in Table
      /\ \A i \in Items : doc[i].rev = 0 /\ (~doc[i].here => doc[i].hidden = "stored")
  <2>1. \E hidden \in [Items -> {"stored", "loose"}] :
            /\ doc = [i \in Items |-> [here |-> i \in Present, rev |-> 0, hidden |-> hidden[i]]]
            /\ \A i \in Items \ Present : hidden[i] = "stored"
    <3>1. CASE Account
      <4>1. doc = [i \in Items |-> [here |-> i \in Present, rev |-> 0, hidden |-> "stored"]]
        BY <3>1 DEF Init, InitSession
      <4> DEFINE hidden == [i \in Items |-> "stored"]
      <4>2. doc = [i \in Items |-> [here |-> i \in Present, rev |-> 0, hidden |-> hidden[i]]]
        BY <4>1
      <4>3. hidden \in [Items -> {"stored", "loose"}]
        OBVIOUS
      <4>4. QED
        BY <4>2, <4>3
    <3>2. CASE ~Account
      <4> DEFINE hidden == [i \in Items |-> IF site = "models" /\ i \in Loose THEN "loose"
                                                                           ELSE "stored"]
      <4>1. doc = [i \in Items |-> [here |-> i \in Present, rev |-> 0, hidden |-> hidden[i]]]
        BY <3>2 DEF Init, SignedInAlready
      <4>2. hidden \in [Items -> {"stored", "loose"}]
        OBVIOUS
      <4>3. QED
        BY <4>1, <4>2
    <3>3. QED
      BY <3>1, <3>2
  <2>2. PICK hidden \in [Items -> {"stored", "loose"}] :
            /\ doc = [i \in Items |-> [here |-> i \in Present, rev |-> 0, hidden |-> hidden[i]]]
            /\ \A i \in Items \ Present : hidden[i] = "stored"
    BY <2>1
  <2>3. ASSUME NEW i \in Items
        PROVE  /\ doc[i] = [here |-> i \in Present, rev |-> 0, hidden |-> hidden[i]]
               /\ doc[i] \in Live
    <3>1. 0 \in 0..MaxOwn /\ (i \in Present) \in BOOLEAN /\ hidden[i] \in {"stored", "loose", "typed"}
      BY <2>2
    <3>2. doc[i] = [here |-> i \in Present, rev |-> 0, hidden |-> hidden[i]]
      BY <2>2
    <3>3. QED
      BY <3>1, <3>2 DEF Live
  <2>4. doc \in [Items -> Live]
    <3>1. doc = [i \in Items |-> doc[i]]
      BY <2>2
    <3>2. QED
      BY <2>3, <3>1
  <2>5. QED
    BY <2>2, <2>3, <2>4 DEF Table
<1>4. (CHOOSE sid \in Sids : TRUE) \in Sids
  OBVIOUS
<1>5. sessions \in [Sids -> Orgs \cup {NoOrg}] /\ IsToken(stored)
  <2>1. CASE Account
    <3>1. PICK sid \in {CHOOSE sid \in Sids : TRUE}, o \in Orgs \ Unborn :
            /\ sessions \in {[x \in Sids |-> NoOrg], [x \in Sids |-> IF x = sid THEN o ELSE NoOrg]}
            /\ stored \in {NoToken, [sid |-> sid, org |-> o]}
      BY <2>1 DEF Init, InitSession
    <3>2. sessions \in [Sids -> Orgs \cup {NoOrg}]
      BY <3>1
    <3>3. IsToken(stored)
      BY <1>4, <3>1, TokenNone DEF IsToken
    <3>4. QED
      BY <3>2, <3>3
  <2>2. CASE ~Account
    <3> DEFINE sid == CHOOSE x \in Sids : TRUE
    <3>1. sid \in Sids
      BY <1>4
    <3>2. /\ sessions = [x \in Sids |-> IF x = sid THEN Home ELSE NoOrg]
          /\ stored = [sid |-> sid, org |-> Home]
      BY <2>2 DEF Init, SignedInAlready
    <3> HIDE DEF sid
    <3>3. QED
      BY <3>1, <3>2 DEF IsToken
  <2>3. QED
    BY <2>1, <2>2
<1>6. Stores
  <2>1. /\ {"failures", "foreign", "own"} \subseteq DOMAIN spent
        /\ spent.failures = 0 /\ spent.foreign = 0 /\ spent.own = 0
    BY <1>2
  <2>2. spent.failures \in Nat /\ spent.foreign \in Nat /\ spent.own \in 0..MaxOwn
    BY <2>1
  <2>3. excused \in BOOLEAN
    BY <1>2
  <2>4. QED
    BY <1>2, <1>3, <1>5, <2>1, <2>2, <2>3 DEF Stores
<1>7. /\ OfRequests(net)
      /\ \A s \in Slots : /\ net[s].kind \in {"idle", "me", "bootStatus"}
                          /\ net[s].kind # "idle" => site = "organizations"
  <2>1. CASE Account
    <3> DEFINE kind == IF stored = NoToken THEN "bootStatus" ELSE "me"
               q == Request(kind, stored)
               n == [s \in Slots |-> Idle]
    <3>1. kind \in {"me", "bootStatus"}
      OBVIOUS
    <3>2. kind \in AuthKinds \cup PageKinds /\ kind \notin Moves /\ kind \notin Writes
      BY <3>1 DEF AuthKinds, Moves, Writes
    <3>3. IsRequest(q) /\ q.kind = kind
      BY <1>5, <3>2, NewRequest
    <3>4. net = Put(n, q)
      BY <2>1 DEF Init, InitSession
    <3> HIDE DEF q, kind
    <3>5. \A s \in Slots : net[s] = q \/ net[s] = Idle
      BY <3>4 DEF Put
    <3>6. net = [s \in Slots |-> net[s]]
      BY <3>4 DEF Put
    <3>7. QED
      BY <2>1, <3>1, <3>3, <3>5, <3>6, IdleIsRequest DEF OfRequests, Account
  <2>2. CASE ~Account
    <3>1. net = [s \in Slots |-> Idle]
      BY <2>2 DEF Init, SignedInAlready
    <3>2. QED
      BY <3>1, IdleIsRequest DEF OfRequests
  <2>3. QED
    BY <2>1, <2>2
<1>8. site # "organizations" => stored.org = user
  <2>1. ASSUME ~Account PROVE stored.org = Home /\ user = Home
    BY <2>1 DEF Init, SignedInAlready
  <2>2. QED
    BY <2>1 DEF Account
<1>9. QED
  BY <1>1, <1>2, <1>3, <1>6, <1>7, <1>8 DEF FirstStores

LEMMA InitHolds == ASSUME Init PROVE PanelInv
<1>1. FirstStores
  BY InitStores
<1>2. /\ ui = FreshUi /\ chat = FreshChat
      /\ \A s \in Slots : /\ net[s].kind \in {"idle", "me", "bootStatus"}
                          /\ net[s].kind # "idle" => site = "organizations"
  BY <1>1 DEF FirstStores
<1>3. /\ ui.mounted = FALSE /\ ui.waits = {} /\ ui.tags = {} /\ ui.rows = Empty
      /\ ui.crossed = FALSE /\ ui.view = "list"
  BY <1>2 DEF FreshUi
<1>4. Whole(ui)
  BY <1>2, FreshIsWhole
<1>5. Waits
  BY <1>3 DEF Waits, Alone
<1>6. Mounted
  BY <1>3 DEF Mounted
<1>7. Revised
  <2>1. Pending = {}
    BY <1>2 DEF Pending, Writes
  <2>2. Cardinality(Pending) = 0
    BY <2>1, FS_EmptySet
  <2>3. spent.own = 0 /\ \A i \in Items : doc[i].rev = 0
    BY <1>1, <1>2 DEF FirstStores
  <2>4. QED
    BY <2>2, <2>3 DEF Revised
<1>8. Tab
  BY <1>1, <1>4, <1>5, <1>6, <1>7 DEF Tab, Requests, FirstStores, OfRequests
<1>9. Kinds
  BY <1>2 DEF Kinds, Writes
<1>10. Tokens /\ Never
  BY <1>1, <1>2 DEF Tokens, Never, FirstStores
<1>11. Rest
  <2>1. ~Clean
    BY <1>3 DEF Clean
  <2>2. Current(ui.rows)
    BY <1>3 DEF Current, Empty
  <2>3. QED
    BY <1>2, <2>1, <2>2 DEF Rest
<1>12. Conversation
  BY <1>2, ChatIsConversation, FreshChats
<1>13. QED
  BY <1>8, <1>9, <1>10, <1>11, <1>12 DEF PanelInv, AtRest

LEMMA ChatStays == ASSUME Conversation, chat' = chat PROVE Conversation'
  BY ChatIsConversation

LEMMA ServeHolds ==
  ASSUME PanelInv, NEW s \in Slots, Serve(s)
  PROVE  PanelInv'
<1>1. Tab /\ AtRest /\ Conversation /\ chat' = chat
  BY DEF PanelInv, Serve
<1>2. Tab' /\ AtRest'
  BY <1>1, ServeSessionKeeps, ServePageKeeps DEF Serve
<1>3. QED
  BY <1>1, <1>2, ChatStays DEF PanelInv

LEMMA TakesAnswerHolds ==
  ASSUME PanelInv, NEW s \in Slots, TakesAnswer(s)
  PROVE  PanelInv'
<1>1. Tab /\ AtRest /\ Conversation
  BY DEF PanelInv
<1>2. CASE PlaygroundAnswers(s)
  BY <1>1, <1>2, PlaygroundAnswersKeep, PlaygroundConverses DEF PanelInv
<1>3. CASE chat' = chat /\ (Orphaned(s) \/ StreamDropped(s))
  <2>1. Tab' /\ AtRest'
    BY <1>1, <1>3, DroppedKeeps DEF Orphaned, StreamDropped, Aborted
  <2>2. QED
    BY <1>1, <1>3, <2>1, ChatStays DEF PanelInv
<1>4. CASE /\ chat' = chat
           /\ \/ ModelsAnswers(s) \/ SourceLoaded(s) \/ ProvidersAnswers(s)
              \/ CustomersAnswers(s) \/ ApiKeysAnswers(s) \/ PlansAnswers(s)
              \/ ManagementKeysAnswers(s) \/ SettingsAnswers(s)
              \/ OrganizationsLoaded(s) \/ OrganizationCreated(s) \/ SummaryLoaded(s)
  <2>1. Tab' /\ AtRest'
    BY <1>1, <1>4, ModelsAnswersKeep, SourceLoadedKeeps, ProvidersAnswersKeep,
       CustomersAnswersKeep, ApiKeysAnswersKeep, PlansAnswersKeep, ManagementKeysAnswersKeep,
       SettingsAnswersKeep, ViewerLoadedKeeps, OrganizationCreatedKeeps
  <2>2. QED
    BY <1>1, <1>4, <2>1, ChatStays DEF PanelInv
<1>5. QED
  BY <1>2, <1>3, <1>4 DEF TakesAnswer

LEMMA OperatorHolds ==
  ASSUME PanelInv, Operator
  PROVE  PanelInv'
<1>1. Tab /\ AtRest /\ Conversation
  BY DEF PanelInv
<1>2. CASE /\ \/ ModelsPage \/ FetchDialog \/ ProvidersPage
              \/ CustomersPage \/ ApiKeysPage \/ PlansPage
              \/ ManagementKeysPage \/ SettingsPage \/ CreateOrganization \/ PickRange
           /\ UNCHANGED chat
  <2>1. Tab' /\ AtRest'
    BY <1>1, <1>2, ModelsPageKeeps, FetchDialogKeeps, ProvidersPageKeeps, CustomersPageKeeps,
       ApiKeysPageKeeps, PlansPageKeeps, ManagementKeysPageKeeps, SettingsPageKeeps,
       CreateOrganizationKeeps, PickRangeKeeps
  <2>2. QED
    BY <1>1, <1>2, <2>1, ChatStays DEF PanelInv
<1>3. CASE PlaygroundPage
  BY <1>1, <1>3, PlaygroundPageKeeps, PlaygroundConverses DEF PanelInv
<1>4. CASE (IF Account THEN OperatorSession ELSE SwitchOrganization) /\ Remounts
  <2>1. site' = site
    BY <1>4 DEF Remounts
  <2>2. SessionStep
    BY <1>1, <1>4, <2>1, OperatorSessionSteps, SwitchOrganizationSteps
  <2>3. QED
    BY <1>1, <1>4, <2>2, RemountsKeep, RemountsConverse DEF PanelInv
<1>5. QED
  BY <1>2, <1>3, <1>4 DEF Operator

LEMMA ElsewhereHolds ==
  ASSUME PanelInv, Elsewhere
  PROVE  PanelInv'
<1>1. Tab /\ AtRest /\ Conversation /\ Remounts
  BY DEF PanelInv, Elsewhere
<1>2. site' = site
  BY <1>1 DEF Remounts
<1>3. SessionStep
  BY <1>1, <1>2, OtherTabSteps, FailsSteps DEF Elsewhere
<1>4. QED
  BY <1>1, <1>3, RemountsKeep, RemountsConverse DEF PanelInv

LEMMA NextHolds == ASSUME PanelInv, [Next]_vars1 PROVE PanelInv'
<1>1. Tab /\ AtRest /\ Conversation
  BY DEF PanelInv
<1>2. CASE \E s \in Slots : Serve(s)
  BY <1>2, ServeHolds
<1>3. CASE \E s \in Slots : Receive(s)
  <2>1. PICK s \in Slots : Receive(s)
    BY <1>3
  <2>2. CASE ReadsSessionAnswer(s)
    <3>1. Remounts
      BY <2>2 DEF ReadsSessionAnswer
    <3>2. QED
      BY <1>1, <2>2, <3>1, ReadsSessionAnswerKeeps, RemountsConverse DEF PanelInv
  <2>3. QED
    BY <2>1, <2>2, TakesAnswerHolds DEF Receive
<1>4. CASE MountPage
  BY <1>1, <1>4, MountsKeep, ChatStays DEF MountPage, PanelInv
<1>5. CASE Operator
  BY <1>5, OperatorHolds
<1>6. CASE Elsewhere
  BY <1>6, ElsewhereHolds
<1>7. CASE UNCHANGED vars1
  <2>1. UNCHANGED <<sessions, setup, stored, user, loading, needsSetup, spent, excused, net,
                    doc, site, ui, chat>>
    BY <1>7 DEF vars1, vars, session
  <2>2. Tab'
    <3>1. Stores' /\ Requests'
      BY <1>1, <2>1 DEF Tab, Stores, Requests, OfRequests
    <3>2. Whole(ui)'
      BY <1>1, <2>1 DEF Tab, Whole, InDrawer
    <3>3. Waits'
      BY <1>1, <2>1 DEF Tab, Waits, Awaited, Filtered, Alone
    <3>4. Mounted'
      BY <1>1, <2>1 DEF Tab, Mounted, OutletKey, View, Guarded, Permitted
    <3>5. Revised'
      BY <1>1, <2>1 DEF Tab, Revised, Pending
    <3>6. QED
      BY <3>1, <3>2, <3>3, <3>4, <3>5 DEF Tab
  <2>3. AtRest'
    BY <1>1, <2>1 DEF AtRest, Kinds, Tokens, Never, Rest, Editors, Clean, Current, Settled,
       Routed, CurrentBut, UnderWay
  <2>4. QED
    BY <1>1, <2>1, <2>2, <2>3, ChatStays DEF PanelInv
<1>8. QED
  BY <1>2, <1>3, <1>4, <1>5, <1>6, <1>7 DEF Next

-----------------------------------------------------------------------------
(* Whoever is signed in stays so: unless there was a reason, a token under *)
(* way is one that the server takes, and a session that moved or began     *)
(* has nobody but the request that moved it or began it.                   *)
Accepted(t) == net[t].kind \notin Anonymous \cup {"idle"} /\ net[t].code = "sent"
                   => Valid(net[t].token)
Moved(t) == net[t].kind \in Moves /\ net[t].code = "ok"

Seated == user # NoOrg /\ ~Busy({"logout", "password"})

SignedInKept ==
    Seated =>
        /\ \A t \in Slots : /\ net[t].code # "unauthorized"
                            /\ Accepted(t)
                            /\ Moved(t) => Valid(net[t].grant)
        /\ (\A t \in Slots : ~Moved(t)) => Valid(stored)

Entering(s) ==
    /\ user = NoOrg /\ ~loading
    /\ \A t \in Slots : net[t].kind \in {"login", "signup"} => t = s
    /\ net[s].code = "ok" => Valid(net[s].grant)

Booting(s) ==
    /\ user = NoOrg /\ loading
    /\ \A t \in Slots : t # s => net[t].kind = "idle"
    /\ net[s].token = stored
    /\ net[s].code = "ok" => Valid(stored)

Untroubled ==
    /\ ~Races(net)
    /\ user # NoOrg => stored # NoToken /\ ~loading /\ needsSetup # "unknown"
    /\ \A s \in Slots :
         /\ net[s].kind \notin Anonymous \cup {"idle"} => net[s].token # NoToken
         /\ net[s].kind \in AuthKinds \cup Moves => net[s].code # "failed"
         /\ net[s].kind \in {"status", "bootStatus", "idle"} => net[s].code # "unauthorized"
         /\ net[s].kind = "createOrg" => s \in ui.waits
         /\ net[s].kind \in {"login", "signup"} => Entering(s)
         /\ net[s].kind = "me" => Booting(s)
         /\ net[s].kind \in Moves \cup {"login", "signup"} /\ net[s].code = "ok"
                => net[s].grant # NoToken
    /\ SignedInKept

Kept == ~excused => Untroubled

(* An answer changes neither what was asked nor with which token.          *)
Answering(s) ==
    /\ \A t \in Slots : t # s => net'[t] = net[t]
    /\ net'[s].kind = net[s].kind /\ net'[s].token = net[s].token
    /\ UNCHANGED <<stored, user, loading, needsSetup, ui>>

LEMMA RacesKept ==
  ASSUME NEW n, ~Races(n), NEW m,
         \A t \in Slots : \/ m[t].kind = n[t].kind /\ m[t].token = n[t].token
                          \/ m[t].token = NoToken /\ m[t].kind \notin Moves \cup {"login", "signup"}
  PROVE  ~Races(m)
  BY DEF Races

LEMMA AnsweringKeeps ==
  ASSUME Untroubled, NEW s \in Slots, Answering(s)
  PROVE  /\ ~Races(net)' /\ (Seated' <=> Seated)
         /\ \A t \in Slots : net'[t].kind = net[t].kind /\ net'[t].token = net[t].token
<1>1. \A t \in Slots : net'[t].kind = net[t].kind /\ net'[t].token = net[t].token
  BY DEF Answering
<1>2. ~Races(net')
  BY <1>1, RacesKept DEF Untroubled
<1>3. ~Races(net)'
  BY <1>2 DEF Races
<1>4. Seated' <=> Seated
  BY <1>1 DEF Seated, Busy, Answering
<1>5. QED
  BY <1>1, <1>3, <1>4

LEMMA CodesUntroubled ==
  ASSUME Untroubled, NEW s \in Slots, Answering(s), sessions' = sessions,
         net[s].kind # "idle", net[s].code = "sent", net'[s].code # "sent",
         net[s].kind \in AuthKinds \cup Moves => net'[s].code # "failed",
         net[s].kind \in {"status", "bootStatus"} => net'[s].code # "unauthorized",
         Seated => net'[s].code # "unauthorized",
         net'[s].code = "ok" => /\ net[s].kind \notin Moves \cup {"login", "signup"}
                                /\ net[s].kind = "me" => Valid(net[s].token)
  PROVE  Untroubled'
<1>1. /\ ~Races(net)' /\ (Seated' <=> Seated)
      /\ \A t \in Slots : net'[t].kind = net[t].kind /\ net'[t].token = net[t].token
  BY AnsweringKeeps
<1>2. /\ \A t \in Slots : t # s => net'[t] = net[t]
      /\ UNCHANGED <<stored, user, loading, needsSetup, ui, sessions>>
  BY DEF Answering
<1>3. \A t : Valid(t)' <=> Valid(t)
  BY <1>2 DEF Valid
<1>4. SignedInKept'
  <2>1. CASE ~Seated
    BY <1>1, <2>1 DEF SignedInKept
  <2>2. CASE Seated
    <3>1. /\ \A t \in Slots : /\ net[t].code # "unauthorized"
                              /\ Accepted(t)
                              /\ Moved(t) => Valid(net[t].grant)
          /\ (\A t \in Slots : ~Moved(t)) => Valid(stored)
      BY <2>2 DEF Untroubled, SignedInKept
    <3>2. ASSUME NEW t \in Slots
          PROVE  /\ net'[t].code # "unauthorized" /\ Accepted(t)'
                 /\ Moved(t)' <=> Moved(t)
                 /\ (Moved(t) => Valid(net[t].grant))'
      <4>1. CASE t = s
        BY <1>1, <2>2, <4>1 DEF Moved, Accepted
      <4>2. CASE t # s
        <5>1. net'[t] = net[t] /\ sessions' = sessions
          BY <1>2, <4>2
        <5>2. QED
          BY <3>1, <5>1 DEF Accepted, Moved, Valid
      <4>3. QED
        BY <4>1, <4>2
    <3>3. Valid(stored)' <=> Valid(stored)
      BY <1>2 DEF Valid
    <3>4. QED
      BY <3>1, <3>2, <3>3 DEF SignedInKept
  <2>3. QED
    BY <2>1, <2>2
<1>5. ASSUME NEW t \in Slots, net[t].kind \in {"login", "signup"} PROVE Entering(t)'
  <2>1. Entering(t)
    BY <1>5 DEF Untroubled
  <2>2. t = s => net'[s].code # "ok"
    BY <1>5
  <2>3. QED
    BY <1>1, <1>2, <2>1, <2>2 DEF Entering, Valid
<1>6. ASSUME NEW t \in Slots, net[t].kind = "me" PROVE Booting(t)'
  <2>1. Booting(t)
    BY <1>6 DEF Untroubled
  <2>2. t = s
    BY <2>1 DEF Booting
  <2>3. net'[s].code = "ok" => Valid(stored)
    BY <1>6, <2>1, <2>2 DEF Booting
  <2>4. Valid(stored)' <=> Valid(stored)
    BY <1>2 DEF Valid
  <2>5. QED
    BY <1>1, <1>2, <2>1, <2>2, <2>3, <2>4 DEF Booting
<1>7. \A t \in Slots :
        /\ net[t].kind \notin Anonymous \cup {"idle"} => net[t].token # NoToken
        /\ net[t].kind \in AuthKinds \cup Moves => net'[t].code # "failed"
        /\ net[t].kind \in {"status", "bootStatus", "idle"} => net'[t].code # "unauthorized"
        /\ net[t].kind = "createOrg" => t \in ui.waits
        /\ net[t].kind \in Moves \cup {"login", "signup"} /\ net'[t].code = "ok"
                => net'[t].grant # NoToken
  BY <1>2 DEF Untroubled
<1>8. user # NoOrg => stored # NoToken /\ ~loading /\ needsSetup # "unknown"
  BY DEF Untroubled
<1>9. QED
  BY <1>1, <1>2, <1>4, <1>5, <1>6, <1>7, <1>8 DEF Untroubled

(* A grant moves or opens a session that no other request carries.         *)
LEMMA GrantUntroubled ==
  ASSUME Untroubled, NEW s \in Slots, Answering(s), net'[s].code = "ok",
         net[s].kind \in Moves \cup {"login", "signup"}, net[s].code = "sent",
         net'[s].grant # NoToken, Valid(net[s].grant)'
  PROVE  Untroubled'
<1>1. /\ ~Races(net)' /\ (Seated' <=> Seated)
      /\ \A t \in Slots : net'[t].kind = net[t].kind /\ net'[t].token = net[t].token
  BY AnsweringKeeps
<1>2. /\ \A t \in Slots : t # s => net'[t] = net[t]
      /\ UNCHANGED <<stored, user, loading, needsSetup, ui>>
  BY DEF Answering
<1>3. \A t \in Slots : t # s => net[t].token = NoToken
  BY DEF Untroubled, Races
<1>4. \A t \in Slots : t # s => net[t].kind \in Anonymous \cup {"idle"}
  BY <1>3 DEF Untroubled
<1>5. SignedInKept'
  <2>1. CASE ~Seated
    BY <1>1, <2>1 DEF SignedInKept
  <2>2. CASE Seated
    <3>1. net[s].kind \in Moves
      BY <2>2 DEF Seated, Untroubled, Entering
    <3>2. Moved(s)'
      BY <1>1, <3>1 DEF Moved
    <3>3. ASSUME NEW t \in Slots
          PROVE  /\ net'[t].code # "unauthorized" /\ Accepted(t)'
                 /\ (Moved(t) => Valid(net[t].grant))'
      <4>1. CASE t = s
        BY <1>1, <4>1 DEF Moved, Accepted
      <4>2. CASE t # s
        <5>1. net'[t].kind \notin Moves /\ net'[t].kind \in Anonymous \cup {"idle"}
          BY <1>2, <1>4, <4>2 DEF Moves, Anonymous
        <5>2. net'[t].code # "unauthorized"
          BY <1>2, <2>2, <4>2 DEF Untroubled, SignedInKept
        <5>3. QED
          BY <5>1, <5>2 DEF Accepted, Moved
      <4>3. QED
        BY <4>1, <4>2
    <3>4. QED
      BY <3>2, <3>3 DEF SignedInKept
  <2>3. QED
    BY <2>1, <2>2
<1>6. ASSUME NEW t \in Slots, net[t].kind \in {"login", "signup"} PROVE Entering(t)'
  <2>1. Entering(t)
    BY <1>6 DEF Untroubled
  <2>2. CASE t = s
    BY <1>1, <1>2, <2>1, <2>2 DEF Entering
  <2>3. CASE t # s
    <3>1. net[s].kind \notin {"login", "signup"}
      BY <2>1, <2>3 DEF Entering
    <3>2. net[s].token # NoToken
      BY <3>1 DEF Untroubled, Moves, Anonymous
    <3>3. FALSE
      BY <1>6, <2>3, <3>2 DEF Untroubled, Races
    <3>4. QED
      BY <3>3
  <2>4. QED
    BY <2>2, <2>3
<1>7. \A t \in Slots : net[t].kind # "me"
  BY DEF Untroubled, Booting, Moves
<1>8. \A t \in Slots :
        /\ net[t].kind \notin Anonymous \cup {"idle"} => net[t].token # NoToken
        /\ net[t].kind \in AuthKinds \cup Moves => net'[t].code # "failed"
        /\ net[t].kind \in {"status", "bootStatus", "idle"} => net'[t].code # "unauthorized"
        /\ net[t].kind = "createOrg" => t \in ui.waits
        /\ net[t].kind \in Moves \cup {"login", "signup"} /\ net'[t].code = "ok"
                => net'[t].grant # NoToken
  BY <1>2 DEF Untroubled
<1>9. user # NoOrg => stored # NoToken /\ ~loading /\ needsSetup # "unknown"
  BY DEF Untroubled
<1>10. QED
  BY <1>1, <1>2, <1>5, <1>6, <1>7, <1>8, <1>9 DEF Untroubled

(* After a logout or a change of password nobody is owed a session.        *)
LEMMA EndUntroubled ==
  ASSUME Untroubled, NEW s \in Slots, Answering(s), net'[s].code = "ok",
         net[s].kind \in {"logout", "password"}
  PROVE  Untroubled'
<1>1. /\ ~Races(net)' /\ (Seated' <=> Seated)
      /\ \A t \in Slots : net'[t].kind = net[t].kind /\ net'[t].token = net[t].token
  BY AnsweringKeeps
<1>2. /\ \A t \in Slots : t # s => net'[t] = net[t]
      /\ UNCHANGED <<stored, user, loading, needsSetup, ui>>
  BY DEF Answering
<1>3. net[s].token # NoToken
  BY DEF Untroubled, Anonymous
<1>4. \A t \in Slots : net[t].kind \notin {"login", "signup", "me"}
  BY <1>3 DEF Untroubled, Races, Booting
<1>5. SignedInKept'
  BY <1>1 DEF SignedInKept, Seated, Busy
<1>6. \A t \in Slots :
        /\ net[t].kind \notin Anonymous \cup {"idle"} => net[t].token # NoToken
        /\ net[t].kind \in AuthKinds \cup Moves => net'[t].code # "failed"
        /\ net[t].kind \in {"status", "bootStatus", "idle"} => net'[t].code # "unauthorized"
        /\ net[t].kind = "createOrg" => t \in ui.waits
        /\ net[t].kind \in Moves \cup {"login", "signup"} /\ net'[t].code = "ok"
                => net'[t].grant # NoToken
  BY <1>2 DEF Untroubled, Moves
<1>7. user # NoOrg => stored # NoToken /\ ~loading /\ needsSetup # "unknown"
  BY DEF Untroubled
<1>8. QED
  BY <1>1, <1>2, <1>4, <1>5, <1>6, <1>7 DEF Untroubled

-----------------------------------------------------------------------------
(* The server leaves a tab untroubled.                                     *)
LEMMA RefusedUntroubled ==
  ASSUME Tab, Untroubled, NEW s \in Slots, net[s].code = "sent",
         net[s].kind \notin {"idle", "status", "bootStatus"}, sessions' = sessions,
         Answers(s, "unauthorized", NoToken), ~Seated,
         UNCHANGED <<stored, user, loading, needsSetup, ui>>
  PROVE  Untroubled'
<1>1. "unauthorized" \in Codes \ {"sent"} /\ IsToken(NoToken)
  BY TokenNone DEF Codes
<1>2. Answering(s) /\ net'[s].code = "unauthorized"
  BY <1>1, AnswersRequest DEF Answering
<1>3. QED
  BY <1>2, CodesUntroubled

LEMMA ServeLoginUntroubled ==
  ASSUME Tab, Untroubled, NEW s \in Slots, net[s].code = "sent", ServeLogin(s),
         UNCHANGED <<stored, user, loading, needsSetup, ui>>
  PROVE  Untroubled'
<1>1. net[s].kind \in {"login", "signup"} /\ user = NoOrg
  BY DEF ServeLogin, Untroubled, Entering
<1>2. CASE \E sid \in Unused, o \in Orgs \ Unborn :
             /\ net[s].kind = "login" <=> setup
             /\ sessions' = [sessions EXCEPT ![sid] = o]
             /\ setup' = TRUE
             /\ Answers(s, "ok", [sid |-> sid, org |-> o])
  <2>1. PICK sid \in Unused, o \in Orgs \ Unborn :
             /\ sessions' = [sessions EXCEPT ![sid] = o]
             /\ Answers(s, "ok", [sid |-> sid, org |-> o])
    BY <1>2
  <2> DEFINE grant == [sid |-> sid, org |-> o]
  <2>2. /\ grant.sid = sid /\ grant.org = o /\ sid \in Sids /\ o \in Orgs /\ IsToken(grant)
        /\ grant # NoToken
    BY PanelAssumption DEF Unused, IsToken, NoToken
  <2>3. Answers(s, "ok", grant) /\ "ok" \in Codes \ {"sent"} /\ net[s].kind \notin Writes
    BY <1>1, <2>1 DEF Codes, Writes
  <2> HIDE DEF grant
  <2>4. Answering(s) /\ net'[s].code = "ok" /\ net'[s].grant = grant
    BY <2>2, <2>3, AnswersRequest DEF Answering
  <2>5. sessions'[sid] = o
    BY <2>1, <2>2 DEF Tab, Stores
  <2>6. Valid(net[s].grant)'
    BY <2>2, <2>4, <2>5 DEF Valid
  <2>7. QED
    BY <1>1, <2>2, <2>4, <2>6, GrantUntroubled
<1>3. CASE Answers(s, "unauthorized", NoToken) /\ sessions' = sessions
  BY <1>1, <1>3, RefusedUntroubled DEF Seated
<1>4. QED
  BY <1>2, <1>3 DEF ServeLogin

LEMMA ServeMoveUntroubled ==
  ASSUME Tab, Untroubled, NEW s \in Slots, net[s].code = "sent", ServeMove(s),
         UNCHANGED <<stored, user, loading, needsSetup, ui>>
  PROVE  Untroubled'
<1> DEFINE grant == [net[s].token EXCEPT !.org = net[s].to]
<1>1. /\ net[s].kind \in Moves /\ net[s].token.sid \in Sids /\ net[s].to \in Orgs
      /\ {"sid", "org"} \subseteq DOMAIN net[s].token
  BY DEF ServeMove, Valid, Tab, Requests, OfRequests, IsRequest, IsToken
<1>2. grant.sid = net[s].token.sid /\ grant.org = net[s].to
  BY <1>1
<1>3. IsToken(grant) /\ grant # NoToken
  BY <1>1, PanelAssumption DEF IsToken, NoToken
<1>4. /\ sessions' = [sessions EXCEPT ![net[s].token.sid] = net[s].to]
      /\ Answers(s, "ok", grant)
  BY DEF ServeMove
<1> HIDE DEF grant
<1>5. "ok" \in Codes \ {"sent"} /\ net[s].kind \notin Writes
  BY <1>1 DEF Codes, Moves, Writes
<1>6. Answering(s) /\ net'[s].code = "ok" /\ net'[s].grant = grant
  BY <1>3, <1>4, <1>5, AnswersRequest DEF Answering
<1>7. sessions'[net[s].token.sid] = net[s].to
  BY <1>1, <1>4 DEF Tab, Stores
<1>8. Valid(net[s].grant)'
  BY <1>1, <1>2, <1>6, <1>7 DEF Valid
<1>9. QED
  BY <1>1, <1>3, <1>6, <1>8, GrantUntroubled

LEMMA ServeSessionUntroubled ==
  ASSUME Tab, Untroubled, NEW s \in Slots, ServeSession(s), ui' = ui
  PROVE  Untroubled'
<1>1. net[s].code = "sent" /\ UNCHANGED <<stored, user, loading, needsSetup, ui>>
  BY DEF ServeSession
<1>2. CASE ServeLogin(s)
  BY <1>1, <1>2, ServeLoginUntroubled
<1>3. CASE ServeMove(s)
  BY <1>1, <1>3, ServeMoveUntroubled
<1>4. CASE ServeStatus(s)
  <2> DEFINE code == IF setup THEN "ok" ELSE "setup"
  <2>1. /\ net[s].kind \in {"status", "bootStatus"} /\ sessions' = sessions
        /\ code \in {"ok", "setup"} /\ code \in Codes \ {"sent"} /\ IsToken(NoToken)
        /\ net[s].kind \notin Writes \cup Moves \cup {"login", "signup", "me", "idle"}
    BY <1>4, TokenNone DEF ServeStatus, Codes, Writes, Moves
  <2>2. Answers(s, code, NoToken)
    BY <1>4 DEF ServeStatus
  <2> HIDE DEF code
  <2>3. Answering(s) /\ net'[s].code = code
    BY <1>1, <2>1, <2>2, AnswersRequest DEF Answering
  <2>4. QED
    BY <1>1, <2>1, <2>3, CodesUntroubled
<1>5. CASE ServeStranger(s)
  <2>1. /\ net[s].kind \notin Anonymous \cup {"idle"} /\ ~Valid(net[s].token)
        /\ Answers(s, "unauthorized", NoToken) /\ sessions' = sessions
    BY <1>5 DEF ServeStranger
  <2>2. ~Seated
    BY <1>1, <2>1 DEF Untroubled, SignedInKept, Accepted
  <2>3. QED
    BY <1>1, <2>1, <2>2, RefusedUntroubled DEF Anonymous
<1>6. CASE ServeAccount(s)
  <2>1. /\ net[s].kind \in {"me", "logout", "password"} /\ Valid(net[s].token)
        /\ Answers(s, "ok", NoToken)
        /\ net[s].kind = "me" => sessions' = sessions
    BY <1>6 DEF ServeAccount
  <2>2. /\ "ok" \in Codes \ {"sent"} /\ IsToken(NoToken)
        /\ net[s].kind \notin Writes \cup Moves \cup {"login", "signup", "status", "bootStatus", "idle"}
    BY <2>1, TokenNone DEF Codes, Writes, Moves
  <2>3. Answering(s) /\ net'[s].code = "ok"
    BY <1>1, <2>1, <2>2, AnswersRequest DEF Answering
  <2>4. QED
    BY <1>1, <2>1, <2>2, <2>3, CodesUntroubled, EndUntroubled
<1>7. QED
  BY <1>2, <1>3, <1>4, <1>5, <1>6 DEF ServeSession

LEMMA RowsUntroubled ==
  ASSUME Untroubled, NEW s \in Slots, NEW code \in {"ok", "failed"}, NEW item, NEW val,
         RowsAnswered(s, code, item, val), net[s].code = "sent",
         net[s].kind \in Writes \cup {"load", "stream"}
  PROVE  Untroubled'
<1>1. Answering(s) /\ net'[s].code = code /\ sessions' = sessions
  BY DEF RowsAnswered, Answering, session
<1>2. /\ net[s].kind \notin Moves \cup {"login", "signup", "me", "idle", "status", "bootStatus"}
      /\ net[s].kind \notin AuthKinds
  BY DEF Writes, Moves, AuthKinds
<1>3. QED
  BY <1>1, <1>2, CodesUntroubled

LEMMA ServePageUntroubled ==
  ASSUME Tab, Untroubled, NEW s \in Slots, ServePage(s)
  PROVE  Untroubled'
<1>1. net[s].code = "sent" /\ UNCHANGED <<session, site, ui>>
  BY DEF ServePage
<1>2. CASE ServeRead(s)
  <2> DEFINE code == IF May(net[s], "read") THEN "ok" ELSE "failed"
             val == IF net[s].token.org = Home /\ May(net[s], "read") THEN doc ELSE Empty
  <2>1. /\ net[s].kind \in {"load", "stream"} /\ code \in {"ok", "failed"}
        /\ net' = [net EXCEPT ![s].code = code, ![s].val = val]
    BY <1>2 DEF ServeRead
  <2> HIDE DEF code, val
  <2>2. QED
    BY <1>1, <2>1, CodeAndRows, RowsUntroubled
<1>3. CASE ServeWrite(s)
  <2> DEFINE done == /\ net[s].token.org = Home /\ May(net[s], "write")
                     /\ doc[net[s].item].here
             code == IF done THEN "ok" ELSE "failed"
             val == IF done THEN doc' ELSE Empty
  <2>1. /\ net[s].kind \in Writes /\ code \in {"ok", "failed"}
        /\ net' = [net EXCEPT ![s].code = code, ![s].val = val]
    BY <1>3 DEF ServeWrite
  <2> HIDE DEF code, val
  <2>2. QED
    BY <1>1, <2>1, CodeAndRows, RowsUntroubled
<1>4. CASE ServeCreate(s)
  <2>1. net[s].kind = "create" /\ net[s].kind \in Writes
    BY <1>4 DEF ServeCreate, Writes
  <2>2. CASE \E i \in Items :
               net' = [net EXCEPT ![s].code = "ok", ![s].item = i,
                                  ![s].val = [Empty EXCEPT ![i] = Written(@, net[s])]]
    <3>1. PICK i \in Items :
               net' = [net EXCEPT ![s].code = "ok", ![s].item = i,
                                  ![s].val = [Empty EXCEPT ![i] = Written(@, net[s])]]
      BY <2>2
    <3> DEFINE val == [Empty EXCEPT ![i] = Written(@, net[s])]
    <3>2. net' = [net EXCEPT ![s].code = "ok", ![s].item = i, ![s].val = val]
      BY <3>1
    <3> HIDE DEF val
    <3>3. QED
      BY <1>1, <2>1, <3>2, CodeItemAndRows, RowsUntroubled
  <2>3. CASE net' = [net EXCEPT ![s].code = "failed"]
    BY <1>1, <2>1, <2>3, CodeAlone, RowsUntroubled
  <2>4. QED
    BY <1>4, <2>2, <2>3 DEF ServeCreate
<1>5. QED
  BY <1>2, <1>3, <1>4 DEF ServePage

-----------------------------------------------------------------------------
(* The pages leave it so: what they send has the token that is stored.     *)
Left(t) == net'[t] = Idle /\ net[t].kind \in PageKinds \ Moves
Goes(t) ==
    /\ net[t].kind \in {"idle"} \cup (PageKinds \ Moves)
    /\ net'[t].kind \in PageKinds /\ net'[t].code = "sent" /\ net'[t].token = stored
    /\ user # NoOrg /\ (~excused' => ~Races(net'))

PageStep ==
    /\ UNCHANGED <<sessions, stored, user, loading, needsSetup>>
    /\ ~excused' => ~excused
    /\ \A t \in Slots : net'[t] = net[t] \/ Left(t) \/ Goes(t)
    /\ Untroubled => \A t \in Slots : net'[t].kind = "createOrg" => t \in ui'.waits

LEMMA IdleCarriesNothing ==
  /\ Idle.kind = "idle" /\ Idle.code = "sent" /\ Idle.token = NoToken
  BY DEF Idle

LEMMA KindsApart ==
  /\ PageKinds \cap AuthKinds = {} /\ PageKinds \cap Anonymous = {}
  /\ "idle" \notin PageKinds \cup AuthKinds \cup Moves
  BY DEF PageKinds, AuthKinds, Anonymous, Writes, Moves

LEMMA PageStepUntroubled ==
  ASSUME Untroubled, PageStep, ~excused'
  PROVE  Untroubled'
<1>1. /\ UNCHANGED <<sessions, stored, user, loading, needsSetup>>
      /\ \A t \in Slots : net'[t] = net[t] \/ Left(t) \/ Goes(t)
  BY DEF PageStep
<1>2. ~Races(net') /\ ~Races(net)'
  <2>1. CASE \E t \in Slots : Goes(t)
    BY <2>1 DEF Goes, Races
  <2>2. CASE ~\E t \in Slots : Goes(t)
    <3>1. \A t \in Slots : \/ net'[t].kind = net[t].kind /\ net'[t].token = net[t].token
                           \/ /\ net'[t].token = NoToken
                              /\ net'[t].kind \notin Moves \cup {"login", "signup"}
      BY <1>1, <2>2, IdleCarriesNothing DEF Left, Moves
    <3>2. ~Races(net')
      BY <3>1, RacesKept DEF Untroubled
    <3>3. QED
      BY <3>2 DEF Races
  <2>3. QED
    BY <2>1, <2>2
<1>3. \A t \in Slots : net'[t].kind \in AuthKinds \/ net[t].kind \in AuthKinds
                         => net'[t] = net[t]
  BY <1>1, KindsApart, IdleCarriesNothing DEF Left, Goes
<1>4. \A t \in Slots : net[t].kind \in Moves => net'[t] = net[t]
  BY <1>1, KindsApart DEF Left, Goes
<1>5. Seated' <=> Seated
  <2>1. {"logout", "password"} \subseteq AuthKinds
    BY DEF AuthKinds
  <2>2. QED
    BY <1>1, <1>3, <2>1 DEF Seated, Busy
<1>6. \A t \in Slots : net'[t].kind \in PageKinds \ Moves => net'[t] = net[t] \/ Goes(t)
  BY <1>1, KindsApart, IdleCarriesNothing DEF Left
<1>7. SignedInKept'
  <2>1. CASE ~Seated
    BY <1>5, <2>1 DEF SignedInKept
  <2>2. CASE Seated
    <3>1. /\ \A t \in Slots : /\ net[t].code # "unauthorized"
                              /\ Accepted(t)
                              /\ Moved(t) => Valid(net[t].grant)
          /\ (\A t \in Slots : ~Moved(t)) => Valid(stored)
      BY <2>2 DEF Untroubled, SignedInKept
    <3>2. stored # NoToken
      BY <2>2 DEF Seated, Untroubled
    <3>3. ASSUME NEW t \in Slots, Goes(t) PROVE Valid(stored)
      <4>1. \A x \in Slots : ~Moved(x)
        <5>1. ASSUME NEW x \in Slots, Moved(x) PROVE FALSE
          <6>1. net'[x] = net[x] /\ net[x].kind \in Moves /\ net[x].code = "ok"
            BY <1>4, <5>1 DEF Moved
          <6>2. x # t /\ net'[t].token # NoToken
            BY <3>2, <3>3, <6>1 DEF Goes
          <6>3. QED
            BY <1>2, <6>1, <6>2 DEF Races
        <5>2. QED
          BY <5>1
      <4>2. QED
        BY <3>1, <4>1
    <3>4. ASSUME NEW t \in Slots
          PROVE  /\ net'[t].code # "unauthorized" /\ Accepted(t)'
                 /\ (Moved(t) => Valid(net[t].grant))'
      <4>1. CASE net'[t] = net[t]
        <5>1. sessions' = sessions
          BY <1>1
        <5>2. QED
          BY <3>1, <4>1, <5>1 DEF Accepted, Moved, Valid
      <4>2. CASE Left(t)
        BY <4>2, IdleCarriesNothing DEF Left, Accepted, Moved
      <4>3. CASE Goes(t)
        <5>1. Valid(stored)
          BY <3>3, <4>3
        <5>2. Valid(net[t].token)'
          BY <1>1, <4>3, <5>1 DEF Goes, Valid
        <5>3. QED
          BY <4>3, <5>2 DEF Goes, Accepted, Moved
      <4>4. QED
        BY <1>1, <4>1, <4>2, <4>3
    <3>5. (\A t \in Slots : ~Moved(t)') => (Valid(stored))'
      <4>1. \A t \in Slots : Moved(t) => Moved(t)'
        BY <1>4 DEF Moved
      <4>2. Valid(stored)' <=> Valid(stored)
        BY <1>1 DEF Valid
      <4>3. QED
        BY <3>1, <4>1, <4>2
    <3>6. QED
      BY <3>4, <3>5 DEF SignedInKept
  <2>3. QED
    BY <2>1, <2>2
<1>8. ASSUME NEW t \in Slots, net'[t].kind \in {"login", "signup"} PROVE Entering(t)'
  <2>1. net'[t] = net[t] /\ Entering(t)
    BY <1>3, <1>8 DEF AuthKinds, Untroubled
  <2>2. \A x \in Slots : net'[x] = net[x] \/ net'[x].kind = "idle"
    BY <1>1, <2>1, IdleCarriesNothing DEF Entering, Left, Goes
  <2>3. Valid(net[t].grant)' <=> Valid(net[t].grant)
    BY <1>1, <2>1 DEF Valid
  <2>4. QED
    BY <1>1, <2>1, <2>2, <2>3 DEF Entering
<1>9. ASSUME NEW t \in Slots, net'[t].kind = "me" PROVE Booting(t)'
  <2>1. net'[t] = net[t] /\ Booting(t)
    BY <1>3, <1>9 DEF AuthKinds, Untroubled
  <2>2. \A x \in Slots : net'[x] = net[x] \/ net'[x].kind = "idle"
    BY <1>1, <2>1, IdleCarriesNothing DEF Booting, Left, Goes
  <2>3. Valid(stored)' <=> Valid(stored)
    BY <1>1 DEF Valid
  <2>4. QED
    BY <1>1, <2>1, <2>2, <2>3 DEF Booting
<1>10. ASSUME NEW t \in Slots
       PROVE  /\ net'[t].kind \notin Anonymous \cup {"idle"} => net'[t].token # NoToken
              /\ net'[t].kind \in AuthKinds \cup Moves => net'[t].code # "failed"
              /\ net'[t].kind \in {"status", "bootStatus", "idle"} => net'[t].code # "unauthorized"
              /\ net'[t].kind \in Moves \cup {"login", "signup"} /\ net'[t].code = "ok"
                    => net'[t].grant # NoToken
  <2>1. CASE net'[t] = net[t]
    BY <2>1 DEF Untroubled
  <2>2. CASE Left(t)
    BY <2>2, IdleCarriesNothing, KindsApart DEF Left
  <2>3. CASE Goes(t)
    <3>1. stored # NoToken
      BY <2>3 DEF Goes, Untroubled
    <3>2. net'[t].kind \notin AuthKinds \cup {"status", "bootStatus", "idle"}
      BY <2>3, KindsApart DEF Goes, Anonymous
    <3>3. QED
      BY <2>3, <3>1, <3>2 DEF Goes
  <2>4. QED
    BY <1>1, <2>1, <2>2, <2>3
<1>11. user' # NoOrg => stored' # NoToken /\ ~loading' /\ needsSetup' # "unknown"
  BY <1>1 DEF Untroubled
<1>12. \A t \in Slots : net'[t].kind = "createOrg" => t \in ui'.waits
  BY DEF PageStep
<1>13. QED
  BY <1>2, <1>7, <1>8, <1>9, <1>10, <1>11, <1>12 DEF Untroubled

LEMMA PageStepKept == ASSUME Kept, PageStep PROVE Kept'
<1>1. ~excused' => Untroubled'
  BY PageStepUntroubled DEF Kept, PageStep
<1>2. QED
  BY <1>1 DEF Kept

-----------------------------------------------------------------------------
(* What the handlers and the answers of a page send.                       *)
Carries(q) ==
    /\ RequestFields \subseteq DOMAIN q
    /\ q.kind \in PageKinds /\ q.code = "sent" /\ q.token = stored

Fits(u) == site = "organizations" => "waits" \in DOMAIN u /\ u.waits = ui.waits

Handles ==
    /\ user # NoOrg
    /\ \/ \E u : Shows(u) /\ Fits(u)
       \/ \E q, u : Asking(q, u) /\ Carries(q) /\ Fits(u)

Took(s) ==
    /\ user # NoOrg /\ s \in Slots /\ net[s].kind \in PageKinds \ Moves
    /\ \/ \E u : Takes(s, u) /\ Fits(u)
       \/ site # "organizations" /\ \E u : TakesAndLoads(s, u)

LEMMA AtUser == ASSUME NEW page, At(page) PROVE user # NoOrg /\ site = page
  BY DEF At, OutletKey

LEMMA Carried ==
  /\ Carries(Load) /\ Load.kind = "load"
  /\ \A x : Carries([Load EXCEPT !.sel = x])
  /\ \A x, y : Carries([Load EXCEPT !.sel = x, !.from = y])
  /\ \A k \in PageKinds : \A i : Carries(Write(k, i))
  /\ \A k \in PageKinds : \A i, x : /\ Carries([Write(k, i) EXCEPT !.hidden = x])
                                    /\ Carries([Write(k, i) EXCEPT !.sel = x])
                                    /\ Carries([Write(k, i) EXCEPT !.from = x])
  /\ \A o : Carries([Request("createOrg", stored) EXCEPT !.to = o])
  /\ Carries(Request("stream", stored))
<1>1. {"load", "createOrg", "stream"} \subseteq PageKinds
  BY DEF PageKinds
<1>2. Carries(Load) /\ Load.kind = "load"
  BY <1>1 DEF Load, Carries, Request, Idle, RequestFields
<1>3. \A x, y : Carries([Load EXCEPT !.sel = x]) /\ Carries([Load EXCEPT !.sel = x, !.from = y])
  BY <1>2 DEF Carries, RequestFields
<1>4. \A k \in PageKinds : \A i : Carries(Write(k, i))
  BY DEF Write, Carries, Request, Idle, RequestFields
<1>5. \A k \in PageKinds : \A i, x : /\ Carries([Write(k, i) EXCEPT !.hidden = x])
                                     /\ Carries([Write(k, i) EXCEPT !.sel = x])
                                     /\ Carries([Write(k, i) EXCEPT !.from = x])
  BY <1>4 DEF Carries, RequestFields
<1>6. /\ \A o : Carries([Request("createOrg", stored) EXCEPT !.to = o])
      /\ Carries(Request("stream", stored))
  BY <1>1 DEF Carries, Request, Idle, RequestFields
<1>7. QED
  BY <1>2, <1>3, <1>4, <1>5, <1>6

LEMMA Owed ==
  ASSUME Kinds', site' = site, NEW t \in Slots, net'[t].kind = "createOrg"
  PROVE  site = "organizations"
  BY DEF Kinds

LEMMA HandlesKept ==
  ASSUME Tab, Kinds', Kept, Handles
  PROVE  Kept'
<1>1. CASE \E u : Shows(u) /\ Fits(u)
  <2>1. PICK u : Shows(u) /\ Fits(u)
    BY <1>1
  <2>2. /\ ui' = [u EXCEPT !.tags = @ \cup {user}] /\ net' = net /\ excused' = excused
        /\ UNCHANGED <<sessions, stored, user, loading, needsSetup>> /\ site' = site
    BY <2>1 DEF Shows, Keeping
  <2>3. site = "organizations" => ui'.waits = ui.waits
    BY <2>1, <2>2 DEF Fits
  <2>4. PageStep
    BY <2>2, <2>3, Owed DEF PageStep, Untroubled
  <2>5. QED
    BY <2>4, PageStepKept
<1>2. CASE \E q, u : Asking(q, u) /\ Carries(q) /\ Fits(u)
  <2>1. PICK q, u : Asking(q, u) /\ Carries(q) /\ Fits(u)
    BY <1>2
  <2> DEFINE v == [u EXCEPT !.tags = @ \cup {user}]
             slot == NextSlot(net)
  <2>2. /\ ui' = Waiting(v, net, q) /\ Free(net) # {} /\ net' = Put(net, q)
        /\ excused' = (excused \/ Races(net'))
        /\ UNCHANGED <<sessions, stored, user, loading, needsSetup>> /\ site' = site
    BY <2>1 DEF Asking, Sends, Keeping
  <2>3. slot \in Slots /\ net[slot].kind = "idle"
    BY <2>2, NextFree DEF Free
  <2>4. net'[slot] = q /\ \A t \in Slots : t # slot => net'[t] = net[t]
    BY <2>2, <2>3 DEF Put, Tab, Requests, OfRequests
  <2>5. site = "organizations" => ui'.waits = ui.waits \cup {slot}
    <3>1. ASSUME site = "organizations" PROVE "waits" \in DOMAIN v /\ v.waits = ui.waits
      BY <2>1, <3>1 DEF Fits
    <3> HIDE DEF v
    <3>2. QED
      BY <2>2, <3>1 DEF Waiting
  <2> HIDE DEF v, slot
  <2>6. Goes(slot)
    BY <2>1, <2>2, <2>3, <2>4 DEF Goes, Carries, Handles
  <2>7. Untroubled => \A t \in Slots : net'[t].kind = "createOrg" => t \in ui'.waits
    BY <2>2, <2>4, <2>5, Owed DEF Untroubled
  <2>8. PageStep
    BY <2>2, <2>4, <2>6, <2>7 DEF PageStep
  <2>9. QED
    BY <2>8, PageStepKept
<1>3. QED
  BY <1>1, <1>2 DEF Handles

LEMMA TookKept ==
  ASSUME Tab, Kinds', Kept, NEW s, Took(s)
  PROVE  Kept'
<1>0. s \in Slots /\ net[s].kind \in PageKinds \ Moves /\ user # NoOrg
  BY DEF Took
<1>1. /\ Drop(s)[s] = Idle /\ OfRequests(Drop(s))
      /\ \A t \in Slots : t # s => Drop(s)[t] = net[t]
      /\ Free(Drop(s)) # {}
  BY <1>0, DropSlots DEF Tab
<1>2. CASE \E u : Takes(s, u) /\ Fits(u)
  <2>1. PICK u : Takes(s, u) /\ Fits(u)
    BY <1>2
  <2>2. /\ ui' = [u EXCEPT !.waits = u.waits \ {s}, !.tags = u.tags \cup {net[s].shown}]
        /\ net' = Drop(s) /\ excused' = excused
        /\ UNCHANGED <<sessions, stored, user, loading, needsSetup>> /\ site' = site
    BY <2>1 DEF Takes, Keeping
  <2>3. site = "organizations" => ui'.waits = ui.waits \ {s}
    BY <2>1, <2>2 DEF Fits
  <2>4. Left(s) /\ net'[s].kind = "idle"
    BY <1>0, <1>1, <2>2, IdleCarriesNothing DEF Left
  <2>5. Untroubled => \A t \in Slots : net'[t].kind = "createOrg" => t \in ui'.waits
    BY <1>1, <2>2, <2>3, <2>4, Owed DEF Untroubled
  <2>6. PageStep
    BY <1>1, <2>2, <2>4, <2>5 DEF PageStep
  <2>7. QED
    BY <2>6, PageStepKept
<1>3. CASE site # "organizations" /\ \E u : TakesAndLoads(s, u)
  <2>1. PICK u : TakesAndLoads(s, u)
    BY <1>3
  <2> DEFINE q == [Load EXCEPT !.sel = u.sel, !.from = net[s].kind]
             slot == NextSlot(Drop(s))
  <2>2. /\ net' = Put(Drop(s), q) /\ excused' = (excused \/ Races(net'))
        /\ UNCHANGED <<sessions, stored, user, loading, needsSetup>> /\ site' = site
    BY <2>1 DEF TakesAndLoads, Keeping
  <2>3. slot \in Slots /\ Drop(s)[slot].kind = "idle"
    BY <1>1, NextFree DEF Free
  <2>4. net'[slot] = q /\ \A t \in Slots : t # slot => net'[t] = Drop(s)[t]
    BY <1>1, <2>2, <2>3 DEF Put, OfRequests
  <2>5. Carries(q)
    BY Carried
  <2> HIDE DEF q, slot
  <2>6. Goes(slot)
    BY <1>0, <1>1, <2>2, <2>3, <2>4, <2>5 DEF Goes, Carries
  <2>7. \A t \in Slots : net'[t] = net[t] \/ Left(t) \/ Goes(t)
    BY <1>0, <1>1, <2>4, <2>6 DEF Left
  <2>8. PageStep
    BY <1>3, <2>2, <2>7, Owed DEF PageStep
  <2>9. QED
    BY <2>8, PageStepKept
<1>4. QED
  BY <1>2, <1>3 DEF Took

-----------------------------------------------------------------------------
(* Page by page: the operator.                                             *)
LEMMA WritesOfPages ==
  Writes \subseteq PageKinds /\ {"create", "save", "patch", "remove", "close"} \subseteq PageKinds
  BY DEF Writes, PageKinds

LEMMA ModelsPageHandles == ASSUME ModelsPage PROVE Handles
<1>1. ASSUME AddModel PROVE Handles
  <2>1. user # NoOrg /\ site = "models"
    BY <1>1, AtUser DEF AddModel
  <2>2. QED
    BY <1>1, <2>1 DEF AddModel, Handles, Fits
<1>2. ASSUME EditModel PROVE Handles
  <2>1. user # NoOrg /\ site = "models"
    BY <1>2, AtUser DEF EditModel
  <2>2. QED
    BY <1>2, <2>1 DEF EditModel, Handles, Fits
<1>3. ASSUME BackToModels PROVE Handles
  <2>1. user # NoOrg /\ site = "models"
    BY <1>3, AtUser DEF BackToModels
  <2>2. QED
    BY <1>3, <2>1 DEF BackToModels, Handles, Fits
<1>4. ASSUME TouchMetadata PROVE Handles
  <2>1. user # NoOrg /\ site = "models"
    BY <1>4, AtUser DEF TouchMetadata
  <2>2. QED
    BY <1>4, <2>1 DEF TouchMetadata, Handles, Fits
<1>5. ASSUME SubmitModel PROVE Handles
  <2>1. user # NoOrg /\ site = "models"
    BY <1>5, AtUser DEF SubmitModel
  <2>2. QED
    BY <1>5, <2>1, Carried, WritesOfPages DEF SubmitModel, NewOrSave, Handles, Fits
<1>6. ASSUME DeleteModel PROVE Handles
  <2>1. user # NoOrg /\ site = "models"
    BY <1>6, AtUser DEF DeleteModel
  <2>2. QED
    BY <1>6, <2>1, Carried, WritesOfPages DEF DeleteModel, Handles, Fits
<1>7. ASSUME ReorderEntries PROVE Handles
  <2>1. user # NoOrg /\ site = "models"
    BY <1>7, AtUser DEF ReorderEntries, Routing
  <2>2. QED
    BY <1>7, <2>1, Carried, WritesOfPages DEF ReorderEntries, Routing, Handles, Fits
<1>8. ASSUME ChangeEntry PROVE Handles
  <2>1. user # NoOrg /\ site = "models"
    BY <1>8, AtUser DEF ChangeEntry, Routing
  <2>2. QED
    BY <1>8, <2>1, Carried, WritesOfPages DEF ChangeEntry, Routing, Handles, Fits
<1>9. ASSUME AddEntry PROVE Handles
  <2>1. user # NoOrg /\ site = "models"
    BY <1>9, AtUser DEF AddEntry, Routing
  <2>2. QED
    BY <1>9, <2>1, Carried, WritesOfPages DEF AddEntry, Routing, Handles, Fits
<1>10. ASSUME EditEntry PROVE Handles
  <2>1. user # NoOrg /\ site = "models"
    BY <1>10, AtUser DEF EditEntry, Routing
  <2>2. QED
    BY <1>10, <2>1, Carried, WritesOfPages DEF EditEntry, Routing, Handles, Fits
<1>11. QED
  BY <1>1, <1>2, <1>3, <1>4, <1>5, <1>6, <1>7, <1>8, <1>9, <1>10 DEF ModelsPage

LEMMA FetchDialogHandles == ASSUME FetchDialog PROVE Handles
<1>1. ASSUME OpenFetch PROVE Handles
  <2>1. user # NoOrg /\ site = "catalog"
    BY <1>1, AtUser DEF OpenFetch
  <2>2. QED
    BY <1>1, <2>1, Carried DEF OpenFetch, AsksSource, Handles, Fits
<1>2. ASSUME PickSource PROVE Handles
  <2>1. user # NoOrg /\ site = "catalog"
    BY <1>2, AtUser DEF PickSource
  <2>2. QED
    BY <1>2, <2>1, Carried DEF PickSource, AsksSource, Handles, Fits
<1>3. ASSUME PickModel PROVE Handles
  <2>1. user # NoOrg /\ site = "catalog"
    BY <1>3, AtUser DEF PickModel
  <2>2. QED
    BY <1>3, <2>1 DEF PickModel, Handles, Fits
<1>4. ASSUME CloseFetch PROVE Handles
  <2>1. user # NoOrg /\ site = "catalog"
    BY <1>4, AtUser DEF CloseFetch
  <2>2. QED
    BY <1>4, <2>1 DEF CloseFetch, Handles, Fits
<1>5. ASSUME ResetFetch PROVE Handles
  <2>1. user # NoOrg /\ site = "catalog"
    BY <1>5, AtUser DEF ResetFetch
  <2>2. QED
    BY <1>5, <2>1 DEF ResetFetch, Handles, Fits
<1>6. QED
  BY <1>1, <1>2, <1>3, <1>4, <1>5 DEF FetchDialog

LEMMA ProvidersPageHandles == ASSUME ProvidersPage PROVE Handles
<1>1. ASSUME RefreshProviders PROVE Handles
  <2>1. user # NoOrg /\ site = "providers"
    BY <1>1, AtUser DEF RefreshProviders
  <2>2. QED
    BY <1>1, <2>1, Carried, WritesOfPages DEF RefreshProviders, Handles, Fits
<1>2. ASSUME AddProvider PROVE Handles
  <2>1. user # NoOrg /\ site = "providers"
    BY <1>2, AtUser DEF AddProvider
  <2>2. QED
    BY <1>2, <2>1 DEF AddProvider, Handles, Fits
<1>3. ASSUME EditProvider PROVE Handles
  <2>1. user # NoOrg /\ site = "providers"
    BY <1>3, AtUser DEF EditProvider
  <2>2. QED
    BY <1>3, <2>1 DEF EditProvider, Handles, Fits
<1>4. ASSUME TypeSecret PROVE Handles
  <2>1. user # NoOrg /\ site = "providers"
    BY <1>4, AtUser DEF TypeSecret
  <2>2. QED
    BY <1>4, <2>1 DEF TypeSecret, Handles, Fits
<1>5. ASSUME CloseProvider PROVE Handles
  <2>1. user # NoOrg /\ site = "providers"
    BY <1>5, AtUser DEF CloseProvider
  <2>2. QED
    BY <1>5, <2>1 DEF CloseProvider, Handles, Fits
<1>6. ASSUME SubmitProvider PROVE Handles
  <2>1. user # NoOrg /\ site = "providers"
    BY <1>6, AtUser DEF SubmitProvider
  <2>2. QED
    BY <1>6, <2>1, Carried, WritesOfPages DEF SubmitProvider, NewOrSave, Handles, Fits
<1>7. ASSUME ToggleProvider PROVE Handles
  <2>1. user # NoOrg /\ site = "providers"
    BY <1>7, AtUser DEF ToggleProvider
  <2>2. QED
    BY <1>7, <2>1, Carried, WritesOfPages DEF ToggleProvider, Handles, Fits
<1>8. ASSUME DeleteProvider PROVE Handles
  <2>1. user # NoOrg /\ site = "providers"
    BY <1>8, AtUser DEF DeleteProvider
  <2>2. QED
    BY <1>8, <2>1, Carried, WritesOfPages DEF DeleteProvider, Handles, Fits
<1>9. QED
  BY <1>1, <1>2, <1>3, <1>4, <1>5, <1>6, <1>7, <1>8 DEF ProvidersPage

LEMMA CustomersPageHandles == ASSUME CustomersPage PROVE Handles
<1>1. ASSUME FilterCustomers PROVE Handles
  <2>1. user # NoOrg /\ site = "customers"
    BY <1>1, AtUser DEF FilterCustomers
  <2>2. QED
    BY <1>1, <2>1, Carried, WritesOfPages DEF FilterCustomers, Handles, Fits
<1>2. ASSUME OpenDetail PROVE Handles
  <2>1. user # NoOrg /\ site = "customers"
    BY <1>2, AtUser DEF OpenDetail
  <2>2. QED
    BY <1>2, <2>1 DEF OpenDetail, Handles, Fits
<1>3. ASSUME CloseDrawer PROVE Handles
  <2>1. user # NoOrg /\ site = "customers"
    BY <1>3, AtUser DEF CloseDrawer
  <2>2. QED
    BY <1>3, <2>1 DEF CloseDrawer, Handles, Fits
<1>4. ASSUME OpenForm PROVE Handles
  <2>1. user # NoOrg /\ site = "customers"
    BY <1>4, AtUser DEF OpenForm
  <2>2. QED
    BY <1>4, <2>1 DEF OpenForm, Handles, Fits
<1>5. ASSUME OpenCreate PROVE Handles
  <2>1. user # NoOrg /\ site = "customers"
    BY <1>5, AtUser DEF OpenCreate
  <2>2. QED
    BY <1>5, <2>1 DEF OpenCreate, Handles, Fits
<1>6. ASSUME CloseForm PROVE Handles
  <2>1. user # NoOrg /\ site = "customers"
    BY <1>6, AtUser DEF CloseForm
  <2>2. QED
    BY <1>6, <2>1 DEF CloseForm, Handles, Fits
<1>7. ASSUME SubmitCustomer PROVE Handles
  <2>1. user # NoOrg /\ site = "customers"
    BY <1>7, AtUser DEF SubmitCustomer
  <2>2. QED
    BY <1>7, <2>1, Carried, WritesOfPages DEF SubmitCustomer, Handles, Fits
<1>8. ASSUME SubmitNewCustomer PROVE Handles
  <2>1. user # NoOrg /\ site = "customers"
    BY <1>8, AtUser DEF SubmitNewCustomer
  <2>2. QED
    BY <1>8, <2>1, Carried, WritesOfPages DEF SubmitNewCustomer, Handles, Fits
<1>9. ASSUME CloseAccount PROVE Handles
  <2>1. user # NoOrg /\ site = "customers"
    BY <1>9, AtUser DEF CloseAccount
  <2>2. QED
    BY <1>9, <2>1, Carried, WritesOfPages DEF CloseAccount, Handles, Fits
<1>10. QED
  BY <1>1, <1>2, <1>3, <1>4, <1>5, <1>6, <1>7, <1>8, <1>9 DEF CustomersPage

LEMMA ApiKeysPageHandles == ASSUME ApiKeysPage PROVE Handles
<1>1. ASSUME PickCustomer PROVE Handles
  <2>1. user # NoOrg /\ site = "keys"
    BY <1>1, AtUser DEF PickCustomer
  <2>2. QED
    BY <1>1, <2>1, Carried, WritesOfPages DEF PickCustomer, Handles, Fits
<1>2. ASSUME ToggleKeyForm PROVE Handles
  <2>1. user # NoOrg /\ site = "keys"
    BY <1>2, AtUser DEF ToggleKeyForm
  <2>2. QED
    BY <1>2, <2>1 DEF ToggleKeyForm, Handles, Fits
<1>3. ASSUME CreateKey PROVE Handles
  <2>1. user # NoOrg /\ site = "keys"
    BY <1>3, AtUser DEF CreateKey
  <2>2. QED
    BY <1>3, <2>1, Carried, WritesOfPages DEF CreateKey, Handles, Fits
<1>4. ASSUME RevokeKey PROVE Handles
  <2>1. user # NoOrg /\ site = "keys"
    BY <1>4, AtUser DEF RevokeKey
  <2>2. QED
    BY <1>4, <2>1, Carried, WritesOfPages DEF RevokeKey, Handles, Fits
<1>5. ASSUME TurnKeys PROVE Handles
  <2>1. user # NoOrg /\ site = "keys"
    BY <1>5, AtUser DEF TurnKeys
  <2>2. QED
    BY <1>5, <2>1, Carried, WritesOfPages DEF TurnKeys, Handles, Fits
<1>6. QED
  BY <1>1, <1>2, <1>3, <1>4, <1>5 DEF ApiKeysPage

LEMMA PlansPageHandles == ASSUME PlansPage PROVE Handles
<1>1. ASSUME AddPlan PROVE Handles
  <2>1. user # NoOrg /\ site = "plans"
    BY <1>1, AtUser DEF AddPlan
  <2>2. QED
    BY <1>1, <2>1 DEF AddPlan, Handles, Fits
<1>2. ASSUME EditPlan PROVE Handles
  <2>1. user # NoOrg /\ site = "plans"
    BY <1>2, AtUser DEF EditPlan
  <2>2. QED
    BY <1>2, <2>1 DEF EditPlan, Handles, Fits
<1>3. ASSUME CancelPlan PROVE Handles
  <2>1. user # NoOrg /\ site = "plans"
    BY <1>3, AtUser DEF CancelPlan
  <2>2. QED
    BY <1>3, <2>1 DEF CancelPlan, Handles, Fits
<1>4. ASSUME SubmitPlan PROVE Handles
  <2>1. user # NoOrg /\ site = "plans"
    BY <1>4, AtUser DEF SubmitPlan
  <2>2. QED
    BY <1>4, <2>1, Carried, WritesOfPages DEF SubmitPlan, NewOrSave, Handles, Fits
<1>5. ASSUME DeactivatePlan PROVE Handles
  <2>1. user # NoOrg /\ site = "plans"
    BY <1>5, AtUser DEF DeactivatePlan
  <2>2. QED
    BY <1>5, <2>1, Carried, WritesOfPages DEF DeactivatePlan, Handles, Fits
<1>6. QED
  BY <1>1, <1>2, <1>3, <1>4, <1>5 DEF PlansPage

LEMMA ManagementKeysPageHandles == ASSUME ManagementKeysPage PROVE Handles
<1>1. ASSUME AddMgmtKey PROVE Handles
  <2>1. user # NoOrg /\ site = "mgmt"
    BY <1>1, AtUser DEF AddMgmtKey
  <2>2. QED
    BY <1>1, <2>1 DEF AddMgmtKey, Handles, Fits
<1>2. ASSUME EditMgmtKey PROVE Handles
  <2>1. user # NoOrg /\ site = "mgmt"
    BY <1>2, AtUser DEF EditMgmtKey
  <2>2. QED
    BY <1>2, <2>1 DEF EditMgmtKey, Handles, Fits
<1>3. ASSUME CancelMgmtKey PROVE Handles
  <2>1. user # NoOrg /\ site = "mgmt"
    BY <1>3, AtUser DEF CancelMgmtKey
  <2>2. QED
    BY <1>3, <2>1 DEF CancelMgmtKey, Handles, Fits
<1>4. ASSUME SubmitMgmtKey PROVE Handles
  <2>1. user # NoOrg /\ site = "mgmt"
    BY <1>4, AtUser DEF SubmitMgmtKey
  <2>2. QED
    BY <1>4, <2>1, Carried, WritesOfPages DEF SubmitMgmtKey, NewOrSave, Handles, Fits
<1>5. ASSUME RevokeMgmtKey PROVE Handles
  <2>1. user # NoOrg /\ site = "mgmt"
    BY <1>5, AtUser DEF RevokeMgmtKey
  <2>2. QED
    BY <1>5, <2>1, Carried, WritesOfPages DEF RevokeMgmtKey, Handles, Fits
<1>6. QED
  BY <1>1, <1>2, <1>3, <1>4, <1>5 DEF ManagementKeysPage

LEMMA SettingsPageHandles == ASSUME SettingsPage PROVE Handles
<1>1. ASSUME Invite PROVE Handles
  <2>1. user # NoOrg /\ site = "settings"
    BY <1>1, AtUser DEF Invite
  <2>2. QED
    BY <1>1, <2>1, Carried, WritesOfPages DEF Invite, Handles, Fits
<1>2. ASSUME RevokeInvite PROVE Handles
  <2>1. user # NoOrg /\ site = "settings"
    BY <1>2, AtUser DEF RevokeInvite
  <2>2. QED
    BY <1>2, <2>1, Carried, WritesOfPages DEF RevokeInvite, Handles, Fits
<1>3. QED
  BY <1>1, <1>2 DEF SettingsPage

-----------------------------------------------------------------------------
(* Page by page: the answers.                                              *)
LEMMA AnsweredHere ==
  ASSUME Tab, NEW s, NEW kinds, Answered(s, kinds), kinds \subseteq Writes \cup {"load", "stream"}
  PROVE  s \in Slots /\ net[s].kind \in PageKinds \ Moves
  BY DEF Answered, Tab, Waits, Writes, PageKinds, Moves

LEMMA KindsOfWrites == {"create", "save", "patch", "remove", "close"} \subseteq Writes
  BY DEF Writes

LEMMA ModelsAnswersTook == ASSUME Tab, NEW s, ModelsAnswers(s) PROVE Took(s)
<1>1. ASSUME ModelsLoaded(s) PROVE Took(s)
  <2>1. user # NoOrg /\ site = "models"
    BY <1>1, AtUser DEF ModelsLoaded
  <2>2. s \in Slots /\ net[s].kind \in PageKinds \ Moves
    BY <1>1, AnsweredHere, KindsOfWrites DEF ModelsLoaded
  <2>3. QED
    BY <1>1, <2>1, <2>2 DEF ModelsLoaded, Took, Fits
<1>2. ASSUME ModelSaved(s) PROVE Took(s)
  <2>1. user # NoOrg /\ site = "models"
    BY <1>2, AtUser DEF ModelSaved
  <2>2. s \in Slots /\ net[s].kind \in PageKinds \ Moves
    BY <1>2, AnsweredHere, KindsOfWrites DEF ModelSaved
  <2>3. QED
    BY <1>2, <2>1, <2>2 DEF ModelSaved, Took, Fits
<1>3. ASSUME ModelDeleted(s) PROVE Took(s)
  <2>1. user # NoOrg /\ site = "models"
    BY <1>3, AtUser DEF ModelDeleted
  <2>2. s \in Slots /\ net[s].kind \in PageKinds \ Moves
    BY <1>3, AnsweredHere, KindsOfWrites DEF ModelDeleted
  <2>3. QED
    BY <1>3, <2>1, <2>2 DEF ModelDeleted, Took, Fits
<1>4. ASSUME EntryChanged(s) PROVE Took(s)
  <2>1. user # NoOrg /\ site = "models"
    BY <1>4, AtUser DEF EntryChanged
  <2>2. s \in Slots /\ net[s].kind \in PageKinds \ Moves
    BY <1>4, AnsweredHere, KindsOfWrites DEF EntryChanged
  <2>3. QED
    BY <1>4, <2>1, <2>2 DEF EntryChanged, Took, Fits
<1>5. QED
  BY <1>1, <1>2, <1>3, <1>4 DEF ModelsAnswers

LEMMA ProvidersAnswersTook == ASSUME Tab, NEW s, ProvidersAnswers(s) PROVE Took(s)
<1>1. ASSUME ProvidersLoaded(s) PROVE Took(s)
  <2>1. user # NoOrg /\ site = "providers"
    BY <1>1, AtUser DEF ProvidersLoaded
  <2>2. s \in Slots /\ net[s].kind \in PageKinds \ Moves
    BY <1>1, AnsweredHere, KindsOfWrites DEF ProvidersLoaded
  <2>3. QED
    BY <1>1, <2>1, <2>2 DEF ProvidersLoaded, Took, Fits
<1>2. ASSUME ProviderSaved(s) PROVE Took(s)
  <2>1. user # NoOrg /\ site = "providers"
    BY <1>2, AtUser DEF ProviderSaved
  <2>2. s \in Slots /\ net[s].kind \in PageKinds \ Moves
    BY <1>2, AnsweredHere, KindsOfWrites DEF ProviderSaved
  <2>3. QED
    BY <1>2, <2>1, <2>2 DEF ProviderSaved, Took, Fits
<1>3. ASSUME ProviderToggled(s) PROVE Took(s)
  <2>1. user # NoOrg /\ site = "providers"
    BY <1>3, AtUser DEF ProviderToggled
  <2>2. s \in Slots /\ net[s].kind \in PageKinds \ Moves
    BY <1>3, AnsweredHere, KindsOfWrites DEF ProviderToggled
  <2>3. QED
    BY <1>3, <2>1, <2>2 DEF ProviderToggled, Took, Fits
<1>4. ASSUME ProviderDeleted(s) PROVE Took(s)
  <2>1. user # NoOrg /\ site = "providers"
    BY <1>4, AtUser DEF ProviderDeleted
  <2>2. s \in Slots /\ net[s].kind \in PageKinds \ Moves
    BY <1>4, AnsweredHere, KindsOfWrites DEF ProviderDeleted
  <2>3. QED
    BY <1>4, <2>1, <2>2 DEF ProviderDeleted, Took, Fits
<1>5. QED
  BY <1>1, <1>2, <1>3, <1>4 DEF ProvidersAnswers

LEMMA CustomersAnswersTook == ASSUME Tab, NEW s, CustomersAnswers(s) PROVE Took(s)
<1>1. ASSUME CustomersLoaded(s) PROVE Took(s)
  <2>1. user # NoOrg /\ site = "customers"
    BY <1>1, AtUser DEF CustomersLoaded
  <2>2. s \in Slots /\ net[s].kind \in PageKinds \ Moves
    BY <1>1, AnsweredHere, KindsOfWrites DEF CustomersLoaded
  <2>3. QED
    BY <1>1, <2>1, <2>2 DEF CustomersLoaded, Took, Fits
<1>2. ASSUME CustomerSaved(s) PROVE Took(s)
  <2>1. user # NoOrg /\ site = "customers"
    BY <1>2, AtUser DEF CustomerSaved
  <2>2. s \in Slots /\ net[s].kind \in PageKinds \ Moves
    BY <1>2, AnsweredHere, KindsOfWrites DEF CustomerSaved
  <2>3. QED
    BY <1>2, <2>1, <2>2 DEF CustomerSaved, Took, Fits
<1>3. ASSUME CustomerCreated(s) PROVE Took(s)
  <2>1. user # NoOrg /\ site = "customers"
    BY <1>3, AtUser DEF CustomerCreated
  <2>2. s \in Slots /\ net[s].kind \in PageKinds \ Moves
    BY <1>3, AnsweredHere, KindsOfWrites DEF CustomerCreated
  <2>3. QED
    BY <1>3, <2>1, <2>2 DEF CustomerCreated, Took, Fits
<1>4. ASSUME AccountClosed(s) PROVE Took(s)
  <2>1. user # NoOrg /\ site = "customers"
    BY <1>4, AtUser DEF AccountClosed
  <2>2. s \in Slots /\ net[s].kind \in PageKinds \ Moves
    BY <1>4, AnsweredHere, KindsOfWrites DEF AccountClosed
  <2>3. QED
    BY <1>4, <2>1, <2>2 DEF AccountClosed, Took, Fits
<1>5. QED
  BY <1>1, <1>2, <1>3, <1>4 DEF CustomersAnswers

LEMMA ApiKeysAnswersTook == ASSUME Tab, NEW s, ApiKeysAnswers(s) PROVE Took(s)
<1>1. ASSUME KeyCustomersLoaded(s) PROVE Took(s)
  <2>1. user # NoOrg /\ site = "keys"
    BY <1>1, AtUser DEF KeyCustomersLoaded
  <2>2. s \in Slots /\ net[s].kind \in PageKinds \ Moves
    BY <1>1, AnsweredHere, KindsOfWrites DEF KeyCustomersLoaded
  <2>3. QED
    BY <1>1, <2>1, <2>2 DEF KeyCustomersLoaded, Took, Fits
<1>2. ASSUME KeysLoaded(s) PROVE Took(s)
  <2>1. user # NoOrg /\ site = "keys"
    BY <1>2, AtUser DEF KeysLoaded
  <2>2. s \in Slots /\ net[s].kind \in PageKinds \ Moves
    BY <1>2, AnsweredHere, KindsOfWrites DEF KeysLoaded
  <2>3. QED
    BY <1>2, <2>1, <2>2 DEF KeysLoaded, Took, Fits
<1>3. ASSUME KeyCreated(s) PROVE Took(s)
  <2>1. user # NoOrg /\ site = "keys"
    BY <1>3, AtUser DEF KeyCreated
  <2>2. s \in Slots /\ net[s].kind \in PageKinds \ Moves
    BY <1>3, AnsweredHere, KindsOfWrites DEF KeyCreated
  <2>3. QED
    BY <1>3, <2>1, <2>2 DEF KeyCreated, Took, Fits
<1>4. ASSUME KeyRevoked(s) PROVE Took(s)
  <2>1. user # NoOrg /\ site = "keys"
    BY <1>4, AtUser DEF KeyRevoked
  <2>2. s \in Slots /\ net[s].kind \in PageKinds \ Moves
    BY <1>4, AnsweredHere, KindsOfWrites DEF KeyRevoked
  <2>3. QED
    BY <1>4, <2>1, <2>2 DEF KeyRevoked, Took, Fits
<1>5. QED
  BY <1>1, <1>2, <1>3, <1>4 DEF ApiKeysAnswers

LEMMA PlansAnswersTook == ASSUME Tab, NEW s, PlansAnswers(s) PROVE Took(s)
<1>1. ASSUME PlansLoaded(s) PROVE Took(s)
  <2>1. user # NoOrg /\ site = "plans"
    BY <1>1, AtUser DEF PlansLoaded
  <2>2. s \in Slots /\ net[s].kind \in PageKinds \ Moves
    BY <1>1, AnsweredHere, KindsOfWrites DEF PlansLoaded
  <2>3. QED
    BY <1>1, <2>1, <2>2 DEF PlansLoaded, Took, Fits
<1>2. ASSUME PlanSaved(s) PROVE Took(s)
  <2>1. user # NoOrg /\ site = "plans"
    BY <1>2, AtUser DEF PlanSaved
  <2>2. s \in Slots /\ net[s].kind \in PageKinds \ Moves
    BY <1>2, AnsweredHere, KindsOfWrites DEF PlanSaved
  <2>3. QED
    BY <1>2, <2>1, <2>2 DEF PlanSaved, Took, Fits
<1>3. ASSUME PlanDeactivated(s) PROVE Took(s)
  <2>1. user # NoOrg /\ site = "plans"
    BY <1>3, AtUser DEF PlanDeactivated
  <2>2. s \in Slots /\ net[s].kind \in PageKinds \ Moves
    BY <1>3, AnsweredHere, KindsOfWrites DEF PlanDeactivated
  <2>3. QED
    BY <1>3, <2>1, <2>2 DEF PlanDeactivated, Took, Fits
<1>4. QED
  BY <1>1, <1>2, <1>3 DEF PlansAnswers

LEMMA ManagementKeysAnswersTook == ASSUME Tab, NEW s, ManagementKeysAnswers(s) PROVE Took(s)
<1>1. ASSUME MgmtKeysLoaded(s) PROVE Took(s)
  <2>1. user # NoOrg /\ site = "mgmt"
    BY <1>1, AtUser DEF MgmtKeysLoaded
  <2>2. s \in Slots /\ net[s].kind \in PageKinds \ Moves
    BY <1>1, AnsweredHere, KindsOfWrites DEF MgmtKeysLoaded
  <2>3. QED
    BY <1>1, <2>1, <2>2 DEF MgmtKeysLoaded, Took, Fits
<1>2. ASSUME MgmtKeySaved(s) PROVE Took(s)
  <2>1. user # NoOrg /\ site = "mgmt"
    BY <1>2, AtUser DEF MgmtKeySaved
  <2>2. s \in Slots /\ net[s].kind \in PageKinds \ Moves
    BY <1>2, AnsweredHere, KindsOfWrites DEF MgmtKeySaved
  <2>3. QED
    BY <1>2, <2>1, <2>2 DEF MgmtKeySaved, Took, Fits
<1>3. ASSUME MgmtKeyRevoked(s) PROVE Took(s)
  <2>1. user # NoOrg /\ site = "mgmt"
    BY <1>3, AtUser DEF MgmtKeyRevoked
  <2>2. s \in Slots /\ net[s].kind \in PageKinds \ Moves
    BY <1>3, AnsweredHere, KindsOfWrites DEF MgmtKeyRevoked
  <2>3. QED
    BY <1>3, <2>1, <2>2 DEF MgmtKeyRevoked, Took, Fits
<1>4. QED
  BY <1>1, <1>2, <1>3 DEF ManagementKeysAnswers

LEMMA SettingsAnswersTook == ASSUME Tab, NEW s, SettingsAnswers(s) PROVE Took(s)
<1>1. ASSUME InvitesLoaded(s) PROVE Took(s)
  <2>1. user # NoOrg /\ site = "settings"
    BY <1>1, AtUser DEF InvitesLoaded
  <2>2. s \in Slots /\ net[s].kind \in PageKinds \ Moves
    BY <1>1, AnsweredHere, KindsOfWrites DEF InvitesLoaded
  <2>3. QED
    BY <1>1, <2>1, <2>2 DEF InvitesLoaded, Took, Fits
<1>2. ASSUME Invited(s) PROVE Took(s)
  <2>1. user # NoOrg /\ site = "settings"
    BY <1>2, AtUser DEF Invited
  <2>2. s \in Slots /\ net[s].kind \in PageKinds \ Moves
    BY <1>2, AnsweredHere, KindsOfWrites DEF Invited
  <2>3. QED
    BY <1>2, <2>1, <2>2 DEF Invited, Took, Fits
<1>3. ASSUME InviteRevoked(s) PROVE Took(s)
  <2>1. user # NoOrg /\ site = "settings"
    BY <1>3, AtUser DEF InviteRevoked
  <2>2. s \in Slots /\ net[s].kind \in PageKinds \ Moves
    BY <1>3, AnsweredHere, KindsOfWrites DEF InviteRevoked
  <2>3. QED
    BY <1>3, <2>1, <2>2 DEF InviteRevoked, Took, Fits
<1>4. QED
  BY <1>1, <1>2, <1>3 DEF SettingsAnswers

LEMMA SourceLoadedTook == ASSUME Tab, NEW s, SourceLoaded(s) PROVE Took(s)
<1>1. user # NoOrg /\ site = "catalog"
  BY AtUser DEF SourceLoaded
<1>2. s \in Slots /\ net[s].kind \in PageKinds \ Moves
  BY AnsweredHere DEF SourceLoaded
<1>3. QED
  BY <1>1, <1>2 DEF SourceLoaded, Took, Fits

LEMMA SummaryLoadedTook == ASSUME Tab, NEW s, SummaryLoaded(s) PROVE Took(s)
<1>1. user # NoOrg /\ site = "analytics"
  BY AtUser DEF SummaryLoaded
<1>2. s \in Slots /\ net[s].kind \in PageKinds \ Moves
  BY AnsweredHere DEF SummaryLoaded
<1>3. QED
  BY <1>1, <1>2 DEF SummaryLoaded, Took, Fits

LEMMA OrganizationsLoadedTook == ASSUME Tab, NEW s, OrganizationsLoaded(s) PROVE Took(s)
<1>1. user # NoOrg /\ site = "organizations"
  BY AtUser DEF OrganizationsLoaded
<1>2. s \in Slots /\ net[s].kind \in PageKinds \ Moves
  BY AnsweredHere DEF OrganizationsLoaded
<1>3. Takes(s, Loaded(s, ui))
  BY DEF OrganizationsLoaded
<1>4. Fits(Loaded(s, ui))
  BY DEF Fits, Loaded, Tab, Whole, TabFields
<1>5. QED
  BY <1>1, <1>2, <1>3, <1>4 DEF Took

LEMMA PickRangeHandles == ASSUME PickRange PROVE Handles
<1>1. user # NoOrg /\ site = "analytics"
  BY AtUser DEF PickRange
<1>2. QED
  BY <1>1, Carried DEF PickRange, Handles, Fits

LEMMA CreateOrganizationHandles == ASSUME Tab, CreateOrganization PROVE Handles
<1>1. user # NoOrg
  BY AtUser DEF CreateOrganization
<1>2. PICK o \in Unborn : Asking([Request("createOrg", stored) EXCEPT !.to = o],
                                 [ui EXCEPT !.saving = TRUE])
  BY DEF CreateOrganization
<1>3. Fits([ui EXCEPT !.saving = TRUE])
  BY DEF Fits, Tab, Whole, TabFields
<1>4. Carries([Request("createOrg", stored) EXCEPT !.to = o])
  BY Carried
<1>5. QED
  BY <1>1, <1>2, <1>3, <1>4 DEF Handles

(* A request that is dropped, and one that an effect sends.                *)
LEMMA DroppedKept ==
  ASSUME Tab, Kinds', Kept, NEW s \in Slots, net[s].kind \in PageKinds, s \notin ui.waits,
         net' = Drop(s), Keeping(ui), UNCHANGED excused
  PROVE  Kept'
<1>1. /\ Drop(s)[s] = Idle
      /\ \A t \in Slots : t # s => Drop(s)[t] = net[t]
  BY DropSlots DEF Tab
<1>2. /\ UNCHANGED <<sessions, stored, user, loading, needsSetup>> /\ site' = site
      /\ ui' = ui /\ excused' = excused /\ net' = Drop(s)
  BY DEF Keeping
<1>3. CASE Untroubled
  <2>1. net[s].kind \in PageKinds \ Moves
    BY <1>3 DEF Untroubled, PageKinds, Moves, Writes
  <2>2. Left(s)
    BY <1>1, <1>2, <2>1 DEF Left
  <2>3. \A t \in Slots : net'[t].kind = "createOrg" => t \in ui'.waits
    BY <1>1, <1>2, <1>3, IdleCarriesNothing DEF Untroubled
  <2>4. PageStep
    BY <1>1, <1>2, <2>2, <2>3 DEF PageStep
  <2>5. QED
    BY <2>4, PageStepKept
<1>4. CASE ~Untroubled
  BY <1>2, <1>4 DEF Kept
<1>5. QED
  BY <1>3, <1>4

LEMMA MountsKept ==
  ASSUME Tab, Kinds', Kept, NEW loads, Mounts(loads)
  PROVE  Kept'
<1>1. user # NoOrg
  BY DEF Mounts, OutletKey
<1>2. ui.waits = {} /\ TabFields \subseteq DOMAIN ui
  BY DEF Tab, Mounted, Whole, Mounts
<1>3. \A t \in Slots : Untroubled => net[t].kind # "createOrg"
  BY <1>2 DEF Untroubled
<1>4. CASE Sends(Load) /\ \E u : Keeping(u)
  <2> DEFINE slot == NextSlot(net)
  <2>1. /\ Free(net) # {} /\ net' = Put(net, Load)
        /\ excused' = (excused \/ Races(net'))
        /\ UNCHANGED <<sessions, stored, user, loading, needsSetup>> /\ site' = site
    BY <1>4 DEF Sends, Keeping
  <2>2. slot \in Slots /\ net[slot].kind = "idle"
    BY <2>1, NextFree DEF Free
  <2>3. net'[slot] = Load /\ \A t \in Slots : t # slot => net'[t] = net[t]
    BY <2>1, <2>2 DEF Put, Tab, Requests, OfRequests
  <2> HIDE DEF slot
  <2>4. Goes(slot) /\ net'[slot].kind # "createOrg"
    BY <1>1, <2>1, <2>2, <2>3, Carried DEF Goes, Carries
  <2>5. PageStep
    BY <1>3, <2>1, <2>3, <2>4 DEF PageStep
  <2>6. QED
    BY <2>5, PageStepKept
<1>5. CASE (\E u : Keeping(u)) /\ UNCHANGED <<net, excused>>
  <2>1. /\ UNCHANGED <<sessions, stored, user, loading, needsSetup>> /\ site' = site
        /\ net' = net /\ excused' = excused
    BY <1>5 DEF Keeping
  <2>2. PageStep
    BY <1>3, <2>1 DEF PageStep
  <2>3. QED
    BY <2>2, PageStepKept
<1>6. QED
  BY <1>4, <1>5 DEF Mounts

-----------------------------------------------------------------------------
(* Every stream of the playground that has not ended has a request of its  *)
(* own that is waited for.                                                 *)
Unended == {t \in chat.tasks : t.end = "open"}

Tended ==
    site = "playground" =>
        /\ \A t \in Unended : t.slot \in ui.waits /\ net[t.slot].kind = "stream"
        /\ \A t, x \in Unended : t.slot = x.slot => t = x

LEMMA UnendedTasks ==
  ASSUME Conversation
  PROVE  /\ chat.tasks \subseteq Task /\ \A t \in Unended : t.slot \in Slots
         /\ chat.streaming => Unended = Open(chat, chat.abort)
         /\ chat.streaming => \A t \in chat.tasks : t.turn = chat.abort
         /\ ~chat.streaming => chat.tasks = {}
  BY DEF Conversation, Unended, Task, Open

LEMMA TendedStays ==
  ASSUME Conversation, Tended, site' = site, chat' = chat,
         site = "playground" =>
             \A t \in Unended : t.slot \in ui'.waits /\ net'[t.slot].kind = "stream"
  PROVE  Tended'
  BY DEF Tended, Unended

LEMMA OtherPageTended ==
  ASSUME NEW page, page # "playground", At(page), site' = site PROVE Tended'
  BY DEF At, Tended

LEMMA SessionTended ==
  ASSUME Tab, Conversation, Tended, SessionStep, Remounts
  PROVE  Tended'
<1>1. site' = site
  BY DEF Remounts
<1>2. CASE chat' = FreshChat
  BY <1>2 DEF Tended, Unended, FreshChat
<1>3. CASE Stays /\ chat' = chat /\ site = "playground"
  <2>1. ASSUME NEW t \in Unended PROVE t.slot \in ui'.waits /\ net'[t.slot].kind = "stream"
    <3>1. /\ t.slot \in ui.waits /\ net[t.slot].kind = "stream" /\ t.slot \in Slots
          /\ net[t.slot].kind \in PageKinds
      BY <1>3, <2>1, UnendedTasks DEF Tended, PageKinds
    <3>2. user' # NoOrg
      <4>1. OutletKey # NoOrg /\ OutletKey' = OutletKey
        BY <1>3, <3>1 DEF Tab, Mounted, Stays
      <4>2. QED
        BY <4>1 DEF OutletKey
    <3>3. net'[t.slot] = net[t.slot] \/ Broken(t.slot)
      BY <1>3, <3>1, <3>2 DEF SessionStep, Dismissed, Begun
    <3>4. net'[t.slot].kind = "stream"
      BY <3>1, <3>3 DEF Broken
    <3>5. QED
      BY <1>3, <3>1, <3>4, StaysFields
  <2>2. QED
    BY <1>1, <1>3, <2>1, TendedStays
<1>4. CASE site # "playground"
  BY <1>1, <1>4 DEF Tended
<1>5. QED
  BY <1>2, <1>3, <1>4 DEF Remounts, Stays

LEMMA SendTended ==
  ASSUME Tab, Conversation, Tended, Send
  PROVE  Tended'
<1> DEFINE turn == 1 + Cardinality(Prompts(chat.messages))
           places == {f \in [chat.picked -> Free(net)] :
                         \A a, b \in chat.picked : f[a] = f[b] => a = b}
           slot == CHOOSE f \in places : TRUE
           asks == {slot[a] : a \in chat.picked}
           sent == {[turn |-> turn, alias |-> a, slot |-> slot[a], end |-> "open"] :
                        a \in chat.picked}
           said == Append(chat.messages, [turn |-> turn, by |-> {}])
<1>1. /\ places # {} /\ ~chat.streaming
      /\ chat' = [chat EXCEPT !.messages = said, !.tasks = @ \cup sent, !.abort = turn,
                              !.streaming = TRUE]
      /\ net' = [s \in Slots |-> IF s \in asks THEN Request("stream", stored) ELSE net[s]]
      /\ Keeping([ui EXCEPT !.waits = @ \cup asks, !.tags = @ \cup {user}])
  BY DEF Send, MaySend, Conversing
<1>2. chat.tasks = {} /\ ChatFields \subseteq DOMAIN chat
  BY <1>1 DEF Conversation
<1>3. slot \in places
  BY <1>1
<1>4. /\ \A a \in chat.picked : slot[a] \in Slots /\ slot[a] \in asks
      /\ \A a, b \in chat.picked : slot[a] = slot[b] => a = b
  BY <1>3 DEF Free
<1> HIDE DEF places, slot
<1>5. /\ \A t \in sent : t.slot \in Slots /\ t.slot \in asks
      /\ \A t, x \in sent : t.slot = x.slot => t = x
  BY <1>4
<1> HIDE DEF asks, sent, said, turn
<1>6. chat'.tasks = sent
  BY <1>1, <1>2 DEF ChatFields
<1>7. \A t \in sent : net'[t.slot].kind = "stream"
  <2>1. Request("stream", stored).kind = "stream"
    BY StreamIsRequest
  <2>2. QED
    BY <1>1, <1>5, <2>1
<1>8. ui'.waits = ui.waits \cup asks
  BY <1>1 DEF Keeping, Tab, Whole, TabFields
<1>9. QED
  BY <1>5, <1>6, <1>7, <1>8 DEF Tended, Unended

LEMMA FoldedTasks ==
  ASSUME NEW c, NEW turn, "tasks" \in DOMAIN c
  PROVE  Folded(c, turn).tasks \subseteq c.tasks
<1> DEFINE mine == {t \in c.tasks : t.turn = turn}
           replies == {t.alias : t \in {t \in mine : t.end = "reply"}}
           said == IF replies = {} THEN c.messages
                   ELSE Append(c.messages, [turn |-> turn, by |-> replies])
           f == [c EXCEPT !.messages = said, !.tasks = c.tasks \ mine, !.abort = 0,
                          !.streaming = FALSE]
<1>1. Folded(c, turn) = c \/ Folded(c, turn) = f
  BY DEF Folded
<1> HIDE DEF mine, said
<1>2. f.tasks = c.tasks \ mine
  OBVIOUS
<1> HIDE DEF f
<1>3. QED
  BY <1>1, <1>2

LEMMA StopStreamTended ==
  ASSUME Conversation, StopStream
  PROVE  Tended'
<1> DEFINE open == Open(chat, chat.abort)
           ended == {[t EXCEPT !.end = "error"] : t \in open}
           tasks == (chat.tasks \ open) \cup ended
           c == [chat EXCEPT !.streaming = FALSE, !.tasks = tasks]
<1>1. /\ chat.streaming /\ chat' = Folded(c, chat.abort)
  BY DEF StopStream, Conversing
<1>2. /\ ChatFields \subseteq DOMAIN chat /\ open \subseteq Task
      /\ \A t \in chat.tasks \ open : t.end # "open"
  BY <1>1 DEF Conversation, Open
<1>3. \A t \in ended : t.end = "error"
  <2>1. ASSUME NEW t \in open PROVE [t EXCEPT !.end = "error"].end = "error"
    BY <1>2, <2>1, EndedTask
  <2> HIDE DEF open
  <2>2. QED
    BY <2>1
<1> HIDE DEF ended, open
<1>4. \A t \in tasks : t.end # "open"
  BY <1>2, <1>3
<1> HIDE DEF tasks
<1>5. c.tasks = tasks /\ "tasks" \in DOMAIN c
  BY <1>2 DEF ChatFields
<1> HIDE DEF c
<1>6. chat'.tasks \subseteq tasks
  BY <1>1, <1>5, FoldedTasks
<1>7. Unended' = {}
  BY <1>4, <1>6 DEF Unended
<1>8. QED
  BY <1>7 DEF Tended

LEMMA StreamEndedTended ==
  ASSUME Tab, Conversation, Tended, NEW s \in Slots, StreamEnded(s)
  PROVE  Tended'
<1>1. PICK t \in chat.tasks, end \in {"reply", "error"} :
          /\ t.slot = s /\ t.end = "open"
          /\ chat' = Folded(Ended(chat, t, end), t.turn)
  BY DEF StreamEnded, Conversing
<1> DEFINE last == [t EXCEPT !.end = end]
           tasks == (chat.tasks \ {t}) \cup {last}
           c == Ended(chat, t, end)
<1>2. At("playground") /\ Takes(s, ui) /\ ChatFields \subseteq DOMAIN chat
      /\ chat.tasks \subseteq Task
  BY DEF StreamEnded, Conversing, Conversation
<1>3. last.end # "open"
  BY <1>1, <1>2, EndedTask
<1> HIDE DEF last
<1>4. c = [chat EXCEPT !.tasks = tasks]
  BY DEF Ended, last
<1> HIDE DEF tasks
<1>5. c.tasks = tasks /\ "tasks" \in DOMAIN c
  BY <1>2, <1>4 DEF ChatFields
<1> HIDE DEF c
<1>6. chat'.tasks \subseteq tasks
  BY <1>1, <1>5, FoldedTasks DEF c
<1>7. Unended' \subseteq Unended \ {t}
  BY <1>3, <1>6 DEF Unended, tasks
<1>8. /\ ui'.waits = ui.waits \ {s} /\ site' = site /\ site = "playground"
      /\ \A x \in Slots : x # s => net'[x] = net[x]
  <2>1. ui' = [ui EXCEPT !.waits = @ \ {s}, !.tags = @ \cup {net[s].shown}]
        /\ net' = Drop(s) /\ site' = site
    BY <1>2 DEF Takes, Keeping
  <2>2. \A x \in Slots : x # s => Drop(s)[x] = net[x]
    BY DropSlots DEF Tab
  <2>3. QED
    BY <1>2, <2>1, <2>2 DEF At, Tab, Whole, TabFields
<1>9. \A x \in Unended' : /\ x \in Unended /\ x.slot # s /\ x.slot \in Slots
                          /\ x.slot \in ui.waits /\ net[x.slot].kind = "stream"
  BY <1>1, <1>7, <1>8, UnendedTasks DEF Tended, Unended
<1>10. QED
  BY <1>8, <1>9 DEF Tended

LEMMA ServedSlots ==
  ASSUME Tab, NEW s \in Slots, (ServeSession(s) /\ UNCHANGED <<site, ui>>) \/ ServePage(s)
  PROVE  \A t \in Slots : net'[t].kind = net[t].kind
<1>1. ASSUME NEW code, NEW grant, Answers(s, code, grant)
      PROVE  \A t \in Slots : net'[t].kind = net[t].kind
  BY <1>1 DEF Answers, Tab, Requests, OfRequests, IsRequest, RequestFields
<1>2. CASE ServeSession(s)
  BY <1>1, <1>2 DEF ServeSession, ServeLogin, ServeStatus, ServeStranger, ServeMove, ServeAccount
<1>3. ASSUME NEW code, NEW item, NEW val,
             \/ net' = [net EXCEPT ![s].code = code, ![s].val = val]
             \/ net' = [net EXCEPT ![s].code = code, ![s].item = item, ![s].val = val]
             \/ net' = [net EXCEPT ![s].code = code]
      PROVE  \A t \in Slots : net'[t].kind = net[t].kind
  BY <1>3 DEF Tab, Requests, OfRequests, IsRequest, RequestFields
<1>4. CASE ServePage(s)
  <2>1. CASE ServeRead(s)
    BY <1>3, <2>1 DEF ServeRead
  <2>2. CASE ServeWrite(s)
    <3> DEFINE done == /\ net[s].token.org = Home /\ May(net[s], "write")
                       /\ doc[net[s].item].here
    <3>1. net' = [net EXCEPT ![s].code = IF done THEN "ok" ELSE "failed",
                             ![s].val = IF done THEN doc' ELSE Empty]
      BY <2>2 DEF ServeWrite
    <3> HIDE DEF done
    <3>2. QED
      BY <1>3, <3>1
  <2>3. CASE ServeCreate(s)
    <3>1. \/ \E i \in Items :
               net' = [net EXCEPT ![s].code = "ok", ![s].item = i,
                                  ![s].val = [Empty EXCEPT ![i] = Written(@, net[s])]]
          \/ net' = [net EXCEPT ![s].code = "failed"]
      BY <2>3 DEF ServeCreate
    <3>2. QED
      BY <1>3, <3>1
  <2>4. QED
    BY <1>4, <2>1, <2>2, <2>3 DEF ServePage
<1>5. QED
  BY <1>2, <1>4

LEMMA ServedFilters ==
  ASSUME Tab, NEW s \in Slots, (ServeSession(s) /\ UNCHANGED <<site, ui>>) \/ ServePage(s)
  PROVE  \A t \in Slots : net'[t].sel = net[t].sel
<1>1. ASSUME NEW code, NEW grant, Answers(s, code, grant)
      PROVE  \A t \in Slots : net'[t].sel = net[t].sel
  BY <1>1 DEF Answers, Tab, Requests, OfRequests, IsRequest, RequestFields
<1>2. CASE ServeSession(s)
  BY <1>1, <1>2 DEF ServeSession, ServeLogin, ServeStatus, ServeStranger, ServeMove, ServeAccount
<1>3. ASSUME NEW code, NEW item, NEW val,
             \/ net' = [net EXCEPT ![s].code = code, ![s].val = val]
             \/ net' = [net EXCEPT ![s].code = code, ![s].item = item, ![s].val = val]
             \/ net' = [net EXCEPT ![s].code = code]
      PROVE  \A t \in Slots : net'[t].sel = net[t].sel
  BY <1>3 DEF Tab, Requests, OfRequests, IsRequest, RequestFields
<1>4. CASE ServePage(s)
  <2>1. CASE ServeRead(s)
    BY <1>3, <2>1 DEF ServeRead
  <2>2. CASE ServeWrite(s)
    <3> DEFINE done == /\ net[s].token.org = Home /\ May(net[s], "write")
                       /\ doc[net[s].item].here
    <3>1. net' = [net EXCEPT ![s].code = IF done THEN "ok" ELSE "failed",
                             ![s].val = IF done THEN doc' ELSE Empty]
      BY <2>2 DEF ServeWrite
    <3> HIDE DEF done
    <3>2. QED
      BY <1>3, <3>1
  <2>3. CASE ServeCreate(s)
    <3>1. \/ \E i \in Items :
               net' = [net EXCEPT ![s].code = "ok", ![s].item = i,
                                  ![s].val = [Empty EXCEPT ![i] = Written(@, net[s])]]
          \/ net' = [net EXCEPT ![s].code = "failed"]
      BY <2>3 DEF ServeCreate
    <3>2. QED
      BY <1>3, <3>1
  <2>4. QED
    BY <1>4, <2>1, <2>2, <2>3 DEF ServePage
<1>5. QED
  BY <1>2, <1>4

LEMMA TakenElsewhere ==
  ASSUME NEW page, page # "playground", At(page), NEW s, NEW u,
         Takes(s, u) \/ TakesAndLoads(s, u)
  PROVE  Tended'
  BY OtherPageTended DEF Takes, TakesAndLoads, Keeping

LEMMA AnswersElsewhere ==
  ASSUME NEW s,
         \/ ModelsAnswers(s) \/ SourceLoaded(s) \/ ProvidersAnswers(s)
         \/ CustomersAnswers(s) \/ ApiKeysAnswers(s) \/ PlansAnswers(s)
         \/ ManagementKeysAnswers(s) \/ SettingsAnswers(s)
         \/ OrganizationsLoaded(s) \/ OrganizationCreated(s) \/ SummaryLoaded(s)
  PROVE  Tended'
<1>1. ModelsAnswers(s) => Tended'
  BY TakenElsewhere DEF ModelsAnswers, ModelsLoaded, ModelSaved, ModelDeleted, EntryChanged
<1>2. ProvidersAnswers(s) => Tended'
  BY TakenElsewhere
     DEF ProvidersAnswers, ProvidersLoaded, ProviderSaved, ProviderToggled, ProviderDeleted
<1>3. CustomersAnswers(s) => Tended'
  BY TakenElsewhere
     DEF CustomersAnswers, CustomersLoaded, CustomerSaved, CustomerCreated, AccountClosed
<1>4. ApiKeysAnswers(s) => Tended'
  BY TakenElsewhere DEF ApiKeysAnswers, KeyCustomersLoaded, KeysLoaded, KeyCreated, KeyRevoked
<1>5. PlansAnswers(s) => Tended'
  BY TakenElsewhere DEF PlansAnswers, PlansLoaded, PlanSaved, PlanDeactivated
<1>6. ManagementKeysAnswers(s) => Tended'
  BY TakenElsewhere DEF ManagementKeysAnswers, MgmtKeysLoaded, MgmtKeySaved, MgmtKeyRevoked
<1>7. SettingsAnswers(s) => Tended'
  BY TakenElsewhere DEF SettingsAnswers, InvitesLoaded, Invited, InviteRevoked
<1>8. SourceLoaded(s) \/ OrganizationsLoaded(s) \/ SummaryLoaded(s) => Tended'
  BY TakenElsewhere DEF SourceLoaded, OrganizationsLoaded, SummaryLoaded
<1>9. OrganizationCreated(s) => Tended'
  BY OtherPageTended DEF OrganizationCreated
<1>10. QED
  BY <1>1, <1>2, <1>3, <1>4, <1>5, <1>6, <1>7, <1>8, <1>9

LEMMA HandledElsewhere ==
  ASSUME NEW page, page # "playground", At(page), (\E u : Shows(u)) \/ (\E q, u : Asking(q, u))
  PROVE  Tended'
  BY OtherPageTended DEF Shows, Asking, Keeping

LEMMA HandlersElsewhere ==
  ASSUME \/ ModelsPage \/ FetchDialog \/ ProvidersPage
         \/ CustomersPage \/ ApiKeysPage \/ PlansPage
         \/ ManagementKeysPage \/ SettingsPage \/ CreateOrganization \/ PickRange
  PROVE  Tended'
<1>1. ASSUME Handles, site # "playground" PROVE Tended'
  BY <1>1 DEF Handles, Shows, Asking, Keeping, Tended
<1>2. ModelsPage => Tended'
  BY <1>1, ModelsPageHandles
     DEF ModelsPage, AddModel, EditModel, BackToModels, TouchMetadata, SubmitModel,
         DeleteModel,
     ReorderEntries, ChangeEntry, AddEntry, EditEntry, Routing, At
<1>3. FetchDialog => Tended'
  BY <1>1, FetchDialogHandles
     DEF FetchDialog, OpenFetch, PickSource, PickModel, CloseFetch, ResetFetch, At
<1>4. ProvidersPage => Tended'
  BY <1>1, ProvidersPageHandles
     DEF ProvidersPage, RefreshProviders, AddProvider, EditProvider, TypeSecret,
         CloseProvider,
     SubmitProvider, ToggleProvider, DeleteProvider, At
<1>5. CustomersPage => Tended'
  BY <1>1, CustomersPageHandles
     DEF CustomersPage, FilterCustomers, OpenDetail, CloseDrawer, OpenForm, OpenCreate,
         CloseForm,
     SubmitCustomer, SubmitNewCustomer, CloseAccount, At
<1>6. ApiKeysPage => Tended'
  BY <1>1, ApiKeysPageHandles
     DEF ApiKeysPage, PickCustomer, TurnKeys, ToggleKeyForm, CreateKey, RevokeKey, At
<1>7. PlansPage => Tended'
  BY <1>1, PlansPageHandles
     DEF PlansPage, AddPlan, EditPlan, CancelPlan, SubmitPlan, DeactivatePlan, At
<1>8. ManagementKeysPage => Tended'
  BY <1>1, ManagementKeysPageHandles
     DEF ManagementKeysPage, AddMgmtKey, EditMgmtKey, CancelMgmtKey, SubmitMgmtKey,
     RevokeMgmtKey, At
<1>9. SettingsPage => Tended'
  BY <1>1, SettingsPageHandles DEF SettingsPage, Invite, RevokeInvite, At
<1>10. CreateOrganization => Tended'
  BY HandledElsewhere DEF CreateOrganization
<1>11. PickRange => Tended'
  BY <1>1, PickRangeHandles DEF PickRange, At
<1>12. QED
  BY <1>2, <1>3, <1>4, <1>5, <1>6, <1>7, <1>8, <1>9, <1>10, <1>11

LEMMA ReadsSessionStep ==
  ASSUME Tab, AtRest, NEW s \in Slots, ReadsSessionAnswer(s)
  PROVE  SessionStep
<1>1. site' = site
  BY DEF ReadsSessionAnswer, Remounts
<1>2. LoggedOut(s) \/ Invalidated(s) => SessionStep
  BY <1>1, SignsOutSteps DEF LoggedOut, Invalidated
<1>3. QED
  BY <1>1, <1>2, BootstrappedSteps, StatusKnownSteps, SignedInSteps, SwitchedSteps,
     PasswordChangedSteps DEF ReadsSessionAnswer, ReadsSession

LEMMA PlaygroundTended ==
  ASSUME Tab, Conversation, Tended,
         PlaygroundPage \/ \E s \in Slots : PlaygroundAnswers(s)
  PROVE  Tended'
<1>1. CASE PickModels \/ ClearConversation
  <2>1. /\ Shows(ui) /\ site = "playground" /\ TabFields \subseteq DOMAIN ui
        /\ ChatFields \subseteq DOMAIN chat
    BY <1>1 DEF PickModels, ClearConversation, Conversing, At, Tab, Whole, Conversation
  <2>2. /\ net' = net /\ ui'.waits = ui.waits /\ site' = site
    BY <2>1 DEF Shows, Keeping, TabFields
  <2>3. \E c : \E m : chat' = [chat EXCEPT !.picked = c] \/ chat' = [chat EXCEPT !.messages = m]
    BY <1>1 DEF PickModels, ClearConversation, Conversing
  <2>4. chat'.tasks = chat.tasks
    BY <2>1, <2>3 DEF ChatFields
  <2>5. QED
    BY <2>2, <2>4 DEF Tended, Unended
<1>2. CASE \E s \in Slots : PlaygroundLoaded(s)
  <2>1. PICK s \in Slots : PlaygroundLoaded(s)
    BY <1>2
  <2>2. /\ At("playground") /\ Takes(s, Loaded(s, ui)) /\ net[s].kind = "load"
        /\ TabFields \subseteq DOMAIN ui /\ ChatFields \subseteq DOMAIN chat
        /\ chat' = [chat EXCEPT !.picked = {FirstSel}] \/ chat' = chat
    BY <2>1 DEF PlaygroundLoaded, Conversing, Answered, Tab, Whole, Conversation
  <2>3. chat'.tasks = chat.tasks
    BY <2>2 DEF ChatFields
  <2> DEFINE u == Loaded(s, ui)
  <2>4. TabFields \subseteq DOMAIN u /\ u.waits = ui.waits
    BY <2>2 DEF Loaded, TabFields
  <2> HIDE DEF u
  <2>5. /\ ui'.waits = ui.waits \ {s} /\ site' = site /\ site = "playground"
        /\ \A x \in Slots : x # s => net'[x] = net[x]
    <3>1. ui' = [u EXCEPT !.waits = @ \ {s}, !.tags = @ \cup {net[s].shown}]
          /\ net' = Drop(s) /\ site' = site
      BY <2>2 DEF Takes, Keeping, u
    <3>2. \A x \in Slots : x # s => Drop(s)[x] = net[x]
      BY <2>1, DropSlots DEF Tab
    <3>3. QED
      BY <2>2, <2>4, <3>1, <3>2 DEF At, TabFields
  <2>6. Unended' = Unended
    BY <2>3 DEF Unended
  <2>7. \A x \in Unended : x.slot # s /\ x.slot \in Slots
    BY <2>2, <2>5, UnendedTasks DEF Tended
  <2>8. QED
    BY <2>5, <2>6, <2>7 DEF Tended
<1>3. QED
  BY <1>1, <1>2, SendTended, StopStreamTended, StreamEndedTended
     DEF PlaygroundPage, PlaygroundAnswers

LEMMA NextTended == ASSUME PanelInv, Tended, [Next]_vars1 PROVE Tended'
<1>1. Tab /\ AtRest /\ Conversation
  BY DEF PanelInv
<1>2. CASE \E s \in Slots : Serve(s)
  <2>1. PICK s \in Slots : Serve(s)
    BY <1>2
  <2>2. chat' = chat /\ ui' = ui /\ site' = site
    BY <2>1 DEF Serve, ServePage
  <2>3. \A t \in Slots : net'[t].kind = net[t].kind
    <3>1. CASE ServeSession(s)
      BY <1>1, <2>2, <3>1, ServedSlots
    <3>2. CASE ServePage(s)
      BY <1>1, <3>2, ServedSlots
    <3>3. QED
      BY <2>1, <3>1, <3>2 DEF Serve
  <2>4. QED
    BY <1>1, <2>2, <2>3, UnendedTasks, TendedStays DEF Tended
<1>3. ASSUME NEW s \in Slots, ReadsSessionAnswer(s) PROVE Tended'
  BY <1>1, <1>3, ReadsSessionStep, SessionTended DEF ReadsSessionAnswer
<1>4. ASSUME NEW s \in Slots, chat' = chat, Orphaned(s) \/ StreamDropped(s) PROVE Tended'
  <2>1. s \notin ui.waits /\ net' = Drop(s) /\ ui' = ui /\ site' = site
    BY <1>4 DEF Orphaned, StreamDropped, Aborted, Keeping
  <2>2. \A t \in Slots : t # s => net'[t] = net[t]
    BY <1>1, <2>1, DropSlots DEF Tab
  <2>3. QED
    BY <1>1, <1>4, <2>1, <2>2, UnendedTasks, TendedStays DEF Tended
<1>5. ASSUME NEW s \in Slots,
             \/ ModelsAnswers(s) \/ SourceLoaded(s) \/ ProvidersAnswers(s)
             \/ CustomersAnswers(s) \/ ApiKeysAnswers(s) \/ PlansAnswers(s)
             \/ ManagementKeysAnswers(s) \/ SettingsAnswers(s)
             \/ OrganizationsLoaded(s) \/ OrganizationCreated(s) \/ SummaryLoaded(s)
      PROVE  Tended'
  BY <1>5, AnswersElsewhere
<1>6. CASE MountPage
  <2>1. ui.waits = {} /\ chat' = chat /\ site' = site
    BY <1>1, <1>6 DEF MountPage, Mounts, Keeping, Tab, Mounted
  <2>2. QED
    BY <1>1, <2>1, TendedStays DEF Tended
<1>7. CASE \/ ModelsPage \/ FetchDialog \/ ProvidersPage
           \/ CustomersPage \/ ApiKeysPage \/ PlansPage
           \/ ManagementKeysPage \/ SettingsPage \/ CreateOrganization \/ PickRange
  BY <1>7, HandlersElsewhere
<1>8. CASE (IF Account THEN OperatorSession ELSE SwitchOrganization) /\ Remounts
  <2>1. SessionStep
    BY <1>1, <1>8, OperatorSessionSteps, SwitchOrganizationSteps DEF Remounts
  <2>2. QED
    BY <1>1, <1>8, <2>1, SessionTended
<1>9. CASE Elsewhere
  <2>1. SessionStep /\ Remounts
    BY <1>1, <1>9, OtherTabSteps, FailsSteps DEF Elsewhere, Remounts
  <2>2. QED
    BY <1>1, <2>1, SessionTended
<1>10. CASE UNCHANGED vars1
  <2>1. UNCHANGED <<net, site, ui, chat>>
    BY <1>10 DEF vars1, vars
  <2>2. QED
    BY <2>1 DEF Tended, Unended
<1>11. QED
  BY <1>1, <1>2, <1>3, <1>4, <1>5, <1>6, <1>7, <1>8, <1>9, <1>10, PlaygroundTended
     DEF Next, Receive, TakesAnswer, Operator

-----------------------------------------------------------------------------
(* A key that is created is one of the customer it was created for, and    *)
(* its row stands under that customer unless requests overlapped or the    *)
(* rows are on their way.                                                  *)
Joined ==
  site = "keys" =>
    /\ "made" \in DOMAIN ui
    /\ ui.sel = NoItem =>
         ui.made = {} /\ \A s \in ui.waits : net[s].kind # "create"
    /\ ~ui.crossed =>
         /\ \A s \in ui.waits : net[s].kind = "create" => net[s].sel = ui.sel
         /\ ui.loading \/ ui.made \subseteq {ui.sel}

(* A step that leaves the filter and what joined its rows.                 *)
LEMMA JoinedStays ==
  ASSUME Joined, site' = site,
         site = "keys" =>
           /\ "made" \in DOMAIN ui' /\ ui'.sel = ui.sel /\ ui'.made = ui.made
           /\ (ui.crossed => ui'.crossed) /\ (ui.loading => ui'.loading)
           /\ \A t \in ui'.waits : net'[t].kind = "create" =>
                \/ t \in ui.waits /\ net[t].kind = "create" /\ net'[t].sel = net[t].sel
                \/ ui.sel # NoItem /\ net'[t].sel = ui.sel
  PROVE  Joined'
  BY DEF Joined

LEMMA FreshJoined ==
  /\ "made" \in DOMAIN FreshUi /\ FreshUi.made = {} /\ FreshUi.waits = {}
  BY DEF FreshUi

LEMMA BeganJoined ==
  ASSUME site' = site, ui' = FreshUi
  PROVE  Joined'
<1>1. "made" \in DOMAIN ui' /\ ui'.made = {} /\ ui'.waits = {}
  BY FreshJoined
<1>2. QED
  BY <1>1 DEF Joined

LEMMA SessionJoined ==
  ASSUME Tab, Joined, SessionStep, Remounts
  PROVE  Joined'
<1>1. site' = site /\ (ui' = FreshUi \/ Stays)
  BY DEF Remounts, Stays
<1>2. CASE Stays /\ site = "keys"
  <2>1. "made" \in DOMAIN ui' /\ ui'.made = ui.made
    BY <1>2 DEF Joined, Stays
  <2>2. ASSUME NEW t \in ui'.waits, net'[t].kind = "create"
        PROVE  t \in ui.waits /\ net[t].kind = "create" /\ net'[t].sel = net[t].sel
    <3>1. t \in ui.waits /\ t \in Slots
      BY <1>2, <2>2, StaysFields DEF Tab, Waits
    <3>2. net'[t] = net[t] \/ Broken(t)
      BY <1>2, <2>2, <3>1, IdleIsRequest DEF SessionStep, Dismissed, Begun
    <3>3. QED
      BY <2>2, <3>1, <3>2 DEF Broken
  <2>3. QED
    BY <1>1, <1>2, <2>1, <2>2, StaysFields, JoinedStays
<1>3. QED
  BY <1>1, <1>2, BeganJoined DEF Joined

KeyFields == {"waits", "tags", "loading", "crossed", "sel", "made"}

LEMMA KeyFieldsOf ==
  ASSUME Tab, Joined, site = "keys"
  PROVE  KeyFields \subseteq DOMAIN ui
  BY DEF Tab, Whole, TabFields, KeyFields, Joined

LEMMA SentOnKeys ==
  ASSUME Tab, NEW u, KeyFields \subseteq DOMAIN u, NEW q, Asking(q, u), u.waits \subseteq ui.waits
  PROVE  /\ site' = site /\ "made" \in DOMAIN ui' /\ ui'.made = u.made /\ ui'.sel = u.sel
         /\ ui'.loading = u.loading /\ (u.crossed => ui'.crossed)
         /\ (\E s \in u.waits : net[s].kind = "create") => ui'.crossed
         /\ \A t \in ui'.waits : (t \in u.waits /\ net'[t] = net[t]) \/ net'[t] = q
<1>1. PICK v : v = [u EXCEPT !.tags = @ \cup {user}]
  OBVIOUS
<1>2. /\ v.waits = u.waits /\ v.made = u.made /\ v.sel = u.sel /\ v.loading = u.loading
      /\ v.crossed = u.crossed /\ KeyFields \subseteq DOMAIN v
  BY <1>1 DEF KeyFields
<1>3. ui' = Waiting(v, net, q) /\ net' = Put(net, q) /\ Free(net) # {} /\ site' = site
  BY <1>1 DEF Asking, Sends, Keeping
<1>4. PICK slot : slot = NextSlot(net)
  OBVIOUS
<1>5. slot \in Slots /\ net[slot].kind = "idle"
  BY <1>3, <1>4, NextFree DEF Free
<1>6. net'[slot] = q /\ \A t \in Slots : t # slot => net'[t] = net[t]
  BY <1>3, <1>4, <1>5 DEF Put, Tab, Requests, OfRequests
<1>7. /\ ui'.waits = u.waits \cup {slot} /\ "made" \in DOMAIN ui' /\ ui'.made = u.made
      /\ ui'.sel = u.sel /\ ui'.loading = u.loading
      /\ ui'.crossed = (u.crossed \/ Crosses(v, net, q))
  BY <1>2, <1>3, <1>4 DEF Waiting, KeyFields
<1>8. (\E s \in u.waits : net[s].kind = "create") => Crosses(v, net, q)
  BY <1>2 DEF Crosses, PageBusy, PageKinds, Writes, Tab, Waits
<1>9. u.waits \subseteq Slots
  BY DEF Tab, Waits
<1>10. QED
  BY <1>3, <1>6, <1>7, <1>8, <1>9

LEMMA TookOnKeys ==
  ASSUME Tab, NEW u, KeyFields \subseteq DOMAIN u, NEW s \in ui.waits, Takes(s, u),
         u.waits \subseteq ui.waits
  PROVE  /\ site' = site /\ "made" \in DOMAIN ui' /\ ui'.made = u.made /\ ui'.sel = u.sel
         /\ ui'.loading = u.loading /\ ui'.crossed = u.crossed
         /\ \A t \in ui'.waits : t \in u.waits /\ t # s /\ net'[t] = net[t]
<1>1. /\ ui' = [u EXCEPT !.waits = @ \ {s}, !.tags = @ \cup {net[s].shown}]
      /\ net' = Drop(s) /\ site' = site
  BY DEF Takes, Keeping
<1>2. s \in Slots /\ u.waits \subseteq Slots
  BY DEF Tab, Waits
<1>3. \A t \in Slots : t # s => net'[t] = net[t]
  BY <1>1, <1>2, DropSlots DEF Tab
<1>4. /\ ui'.waits = u.waits \ {s} /\ "made" \in DOMAIN ui' /\ ui'.made = u.made
      /\ ui'.sel = u.sel /\ ui'.loading = u.loading /\ ui'.crossed = u.crossed
  BY <1>1 DEF KeyFields
<1>5. QED
  BY <1>1, <1>2, <1>3, <1>4

LEMMA ReloadedOnKeys ==
  ASSUME Tab, NEW u, KeyFields \subseteq DOMAIN u, NEW s \in ui.waits, TakesAndLoads(s, u),
         u.waits \subseteq ui.waits
  PROVE  /\ site' = site /\ "made" \in DOMAIN ui' /\ ui'.made = u.made /\ ui'.sel = u.sel
         /\ ui'.loading /\ (u.crossed => ui'.crossed)
         /\ \A t \in ui'.waits : \/ t \in u.waits /\ net'[t] = net[t]
                                 \/ net'[t].kind = "load"
<1>1. PICK v : v = [u EXCEPT !.waits = @ \ {s}, !.tags = @ \cup {net[s].shown},
                             !.loading = TRUE]
  OBVIOUS
<1>2. /\ v.waits = u.waits \ {s} /\ v.made = u.made /\ v.sel = u.sel /\ v.loading = TRUE
      /\ v.crossed = u.crossed /\ KeyFields \subseteq DOMAIN v
  BY <1>1 DEF KeyFields
<1> DEFINE q == [Load EXCEPT !.sel = u.sel, !.from = net[s].kind]
<1>4. q.kind = "load"
  BY Reloads
<1>5. PICK n : n = Drop(s)
  OBVIOUS
<1>6. ui' = Waiting(v, n, q) /\ net' = Put(n, q) /\ site' = site
  BY <1>1, <1>5 DEF TakesAndLoads, Keeping
<1> HIDE DEF q
<1>7. s \in Slots /\ u.waits \subseteq Slots
  BY DEF Tab, Waits
<1>8. /\ OfRequests(n) /\ Free(n) # {} /\ n[s] = Idle
      /\ \A t \in Slots : t # s => n[t] = net[t]
  BY <1>5, <1>7, DropSlots DEF Tab
<1>9. PICK slot : slot = NextSlot(n)
  OBVIOUS
<1>10. slot \in Slots
  BY <1>8, <1>9, NextFree DEF Free
<1>11. net'[slot] = q /\ \A t \in Slots : t # slot => net'[t] = n[t]
  BY <1>6, <1>8, <1>9, <1>10 DEF Put, OfRequests
<1>12. /\ ui'.waits = v.waits \cup {slot} /\ "made" \in DOMAIN ui' /\ ui'.made = u.made
       /\ ui'.sel = u.sel /\ ui'.loading /\ (u.crossed => ui'.crossed)
  BY <1>2, <1>6, <1>9 DEF Waiting, KeyFields
<1>13. ASSUME NEW t \in ui'.waits
       PROVE  (t \in u.waits /\ net'[t] = net[t]) \/ net'[t].kind = "load"
  <2>1. CASE t = slot
    BY <1>4, <1>11, <2>1
  <2>2. CASE t # slot
    BY <1>2, <1>7, <1>8, <1>11, <1>12, <1>13, <2>2
  <2>3. QED
    BY <2>1, <2>2
<1>14. QED
  BY <1>6, <1>12, <1>13

(* The page of the keys.                                                   *)
LEMMA ApiKeysPageJoined ==
  ASSUME Tab, Joined, ApiKeysPage
  PROVE  Joined'
<1>1. At("keys") /\ site = "keys" /\ KeyFields \subseteq DOMAIN ui /\ ui.waits \subseteq Slots
  <2>1. At("keys") /\ site = "keys"
    BY DEF ApiKeysPage, PickCustomer, TurnKeys, ToggleKeyForm, CreateKey, RevokeKey, At
  <2>2. QED
    BY <2>1, KeyFieldsOf DEF Tab, Waits
<1>2. CASE PickCustomer
  <2> DEFINE w(x) == [ui EXCEPT !.sel = x, !.loading = TRUE, !.later = FALSE]
             a(x) == [Load EXCEPT !.sel = x]
  <2>1. PICK x \in Sels : Asking(a(x), Cancelled(w(x)))
    BY <1>2 DEF PickCustomer, KeysCancelled
  <2>2. PICK u : u = Cancelled(w(x))
    OBVIOUS
  <2>3. PICK q : q = a(x)
    OBVIOUS
  <2>4. q.kind = "load"
    <3>1. a(x).kind = "load"
      BY LoadSent
    <3> HIDE DEF a
    <3>2. QED
      BY <2>3, <3>1
  <2> HIDE DEF a
  <2>5. /\ KeyFields \subseteq DOMAIN u /\ u.waits = ui.waits \ Loads /\ u.sel = x
        /\ u.loading = TRUE /\ u.made = ui.made /\ u.crossed = ui.crossed
    BY <1>1, <2>2 DEF Cancelled, KeyFields
  <2> HIDE DEF w
  <2>6. Asking(q, u) /\ u.waits \subseteq ui.waits
    BY <2>1, <2>2, <2>3, <2>5
  <2>7. /\ site' = site /\ "made" \in DOMAIN ui' /\ ui'.sel = x /\ ui'.loading
        /\ (\E s \in u.waits : net[s].kind = "create") => ui'.crossed
        /\ \A t \in ui'.waits : (t \in u.waits /\ net'[t] = net[t]) \/ net'[t] = q
    BY <2>5, <2>6, SentOnKeys
  <2>8. x # NoItem
    OBVIOUS
  <2>9. QED
    BY <2>4, <2>7, <2>8 DEF Joined
<1>3. CASE TurnKeys
  <2>1. PICK u : u = Cancelled([ui EXCEPT !.loading = TRUE, !.later = ~@])
    OBVIOUS
  <2>2. Asking(Load, u)
    BY <1>3, <2>1 DEF TurnKeys, KeysCancelled
  <2>3. /\ KeyFields \subseteq DOMAIN u /\ u.waits = ui.waits \ Loads /\ u.sel = ui.sel
        /\ u.loading = TRUE /\ u.made = ui.made /\ u.crossed = ui.crossed
    BY <1>1, <2>1 DEF Cancelled, KeyFields
  <2>4. Load.kind = "load"
    BY FirstLoad
  <2>5. /\ site' = site /\ "made" \in DOMAIN ui' /\ ui'.sel = ui.sel /\ ui'.loading
        /\ ui'.made = ui.made /\ (ui.crossed => ui'.crossed)
        /\ \A t \in ui'.waits : (t \in u.waits /\ net'[t] = net[t]) \/ net'[t] = Load
    BY <2>2, <2>3, SentOnKeys
  <2>6. QED
    BY <2>3, <2>4, <2>5, JoinedStays
<1>4. CASE ToggleKeyForm
  <2>1. PICK view : Shows([ui EXCEPT !.view = view])
    BY <1>4 DEF ToggleKeyForm
  <2>2. /\ ui' = [[ui EXCEPT !.view = view] EXCEPT !.tags = @ \cup {user}]
        /\ net' = net /\ site' = site
    BY <2>1 DEF Shows, Keeping
  <2>3. /\ "made" \in DOMAIN ui' /\ ui'.made = ui.made /\ ui'.sel = ui.sel
        /\ ui'.loading = ui.loading /\ ui'.crossed = ui.crossed /\ ui'.waits = ui.waits
    BY <1>1, <2>2 DEF KeyFields
  <2>4. QED
    BY <2>2, <2>3, JoinedStays
<1>5. CASE CreateKey
  <2>1. PICK u : u = [ui EXCEPT !.saving = TRUE]
    OBVIOUS
  <2>2. PICK q : q = [Write("create", NoItem) EXCEPT !.sel = ui.sel]
    OBVIOUS
  <2>3. Asking(q, u) /\ ui.sel # NoItem
    BY <1>5, <2>1, <2>2 DEF CreateKey
  <2>4. q.sel = ui.sel
    <3>1. Sent(Write("create", NoItem))
      BY <1>1, Writing DEF Editors, Writes
    <3>2. QED
      BY <2>2, <3>1, FilterSent
  <2>5. /\ KeyFields \subseteq DOMAIN u /\ u.waits = ui.waits /\ u.sel = ui.sel
        /\ u.loading = ui.loading /\ u.made = ui.made /\ u.crossed = ui.crossed
    BY <1>1, <2>1 DEF KeyFields
  <2>6. /\ site' = site /\ "made" \in DOMAIN ui' /\ ui'.sel = ui.sel
        /\ ui'.loading = ui.loading /\ ui'.made = ui.made /\ (ui.crossed => ui'.crossed)
        /\ \A t \in ui'.waits : (t \in ui.waits /\ net'[t] = net[t]) \/ net'[t] = q
    BY <2>3, <2>5, SentOnKeys
  <2>7. QED
    BY <2>3, <2>4, <2>6, JoinedStays
<1>6. CASE RevokeKey
  <2>1. PICK i \in Items : Asking(Write("patch", i), ui)
    BY <1>6 DEF RevokeKey
  <2>2. Write("patch", i).kind = "patch"
    BY <1>1, Writing DEF Editors, Writes
  <2>3. /\ site' = site /\ "made" \in DOMAIN ui' /\ ui'.sel = ui.sel
        /\ ui'.loading = ui.loading /\ ui'.made = ui.made /\ (ui.crossed => ui'.crossed)
        /\ \A t \in ui'.waits : \/ t \in ui.waits /\ net'[t] = net[t]
                                \/ net'[t] = Write("patch", i)
    BY <1>1, <2>1, SentOnKeys
  <2>4. QED
    BY <2>2, <2>3, JoinedStays
<1>7. QED
  BY <1>2, <1>3, <1>4, <1>5, <1>6 DEF ApiKeysPage

LEMMA KeysLoadedJoined ==
  ASSUME Tab, Joined, NEW s \in Slots, KeyCustomersLoaded(s) \/ KeysLoaded(s)
  PROVE  Joined'
<1>1. /\ site = "keys" /\ KeyFields \subseteq DOMAIN ui /\ s \in ui.waits
      /\ Awaited(net[s], ui.sel) /\ net[s].kind = "load"
  BY KeyFieldsOf DEF KeyCustomersLoaded, KeysLoaded, Answered, At, Tab, Waits
<1>2. net[s].sel = ui.sel
  BY <1>1 DEF Awaited, Filtered
<1>3. CASE KeyCustomersLoaded(s) /\ Ok(s)
  <2>1. PICK u : u = [ui EXCEPT !.sel = FirstSel]
    OBVIOUS
  <2>2. TakesAndLoads(s, u) /\ ui.sel = NoItem
    BY <1>2, <1>3, <2>1 DEF KeyCustomersLoaded
  <2>3. KeyFields \subseteq DOMAIN u /\ u.waits = ui.waits /\ u.sel = FirstSel
    BY <1>1, <2>1 DEF KeyFields
  <2>4. /\ site' = site /\ "made" \in DOMAIN ui' /\ ui'.sel = FirstSel /\ ui'.loading
        /\ \A t \in ui'.waits : \/ t \in ui.waits /\ net'[t] = net[t]
                                \/ net'[t].kind = "load"
    BY <1>1, <2>2, <2>3, ReloadedOnKeys
  <2>5. \A t \in ui'.waits : net'[t].kind # "create"
    BY <1>1, <2>2, <2>4 DEF Joined
  <2>6. FirstSel # NoItem
    OBVIOUS
  <2>7. QED
    BY <2>4, <2>5, <2>6 DEF Joined
<1>4. CASE KeyCustomersLoaded(s) /\ ~Ok(s)
  <2>1. PICK u : u = [ui EXCEPT !.loading = FALSE]
    OBVIOUS
  <2>2. Takes(s, u) /\ ui.sel = NoItem
    BY <1>2, <1>4, <2>1 DEF KeyCustomersLoaded
  <2>3. KeyFields \subseteq DOMAIN u /\ u.waits = ui.waits /\ u.sel = NoItem /\ u.made = ui.made
    BY <1>1, <2>1, <2>2 DEF KeyFields
  <2>4. /\ site' = site /\ "made" \in DOMAIN ui' /\ ui'.sel = NoItem /\ ui'.made = ui.made
        /\ \A t \in ui'.waits : t \in ui.waits /\ net'[t] = net[t]
    BY <1>1, <2>2, <2>3, TookOnKeys
  <2>5. ui'.made = {} /\ \A t \in ui'.waits : net'[t].kind # "create"
    BY <1>1, <2>2, <2>4 DEF Joined
  <2>6. QED
    BY <2>4, <2>5 DEF Joined
<1>5. CASE KeysLoaded(s)
  <2>1. PICK y : /\ Takes(s, [y EXCEPT !.made = {}])
                 /\ KeyFields \subseteq DOMAIN y /\ y.waits = ui.waits /\ y.sel = ui.sel
                 /\ y.crossed = ui.crossed
    <3>1. CASE Ok(s)
      <4>1. PICK y : y = [ui EXCEPT !.rows = net[s].val, !.for = {net[s].sel}, !.loading = FALSE]
        OBVIOUS
      <4>2. Takes(s, [y EXCEPT !.made = {}])
        BY <1>5, <3>1, <4>1 DEF KeysLoaded, Loaded
      <4>3. /\ KeyFields \subseteq DOMAIN y /\ y.waits = ui.waits /\ y.sel = ui.sel
            /\ y.crossed = ui.crossed
        BY <1>1, <4>1 DEF KeyFields
      <4>4. QED
        BY <4>2, <4>3
    <3>2. CASE ~Ok(s)
      <4>1. Takes(s, [ui EXCEPT !.rows = Empty, !.for = {net[s].sel}, !.made = {},
                                !.loading = FALSE])
        BY <1>5, <3>2 DEF KeysLoaded
      <4>2. PICK y : y = [ui EXCEPT !.rows = Empty, !.for = {net[s].sel}, !.loading = FALSE]
        OBVIOUS
      <4>3. [ui EXCEPT !.rows = Empty, !.for = {net[s].sel}, !.made = {}, !.loading = FALSE]
              = [y EXCEPT !.made = {}]
        BY <4>2
      <4>4. Takes(s, [y EXCEPT !.made = {}])
        BY <4>1, <4>3
      <4>5. /\ KeyFields \subseteq DOMAIN y /\ y.waits = ui.waits /\ y.sel = ui.sel
            /\ y.crossed = ui.crossed
        BY <1>1, <4>2 DEF KeyFields
      <4>6. QED
        BY <4>4, <4>5
    <3>3. QED
      BY <3>1, <3>2
  <2>2. PICK u : u = [y EXCEPT !.made = {}]
    OBVIOUS
  <2>3. /\ KeyFields \subseteq DOMAIN u /\ u.waits = ui.waits /\ u.sel = ui.sel /\ u.made = {}
        /\ u.crossed = ui.crossed
    BY <2>1, <2>2 DEF KeyFields
  <2>4. Takes(s, u)
    BY <2>1, <2>2
  <2>5. /\ site' = site /\ "made" \in DOMAIN ui' /\ ui'.sel = ui.sel /\ ui'.made = {}
        /\ ui'.crossed = ui.crossed
        /\ \A t \in ui'.waits : t \in ui.waits /\ net'[t] = net[t]
    BY <1>1, <2>3, <2>4, TookOnKeys
  <2>6. QED
    BY <1>1, <2>5 DEF Joined
<1>6. QED
  BY <1>3, <1>4, <1>5

LEMMA KeyCreatedJoined ==
  ASSUME Tab, Joined, NEW s \in Slots, KeyCreated(s)
  PROVE  Joined'
<1>1. /\ site = "keys" /\ KeyFields \subseteq DOMAIN ui /\ s \in ui.waits
      /\ net[s].kind = "create"
  BY KeyFieldsOf DEF KeyCreated, Answered, At
<1>2. PICK v : v = [ui EXCEPT !.saving = FALSE]
  OBVIOUS
<1>3. /\ KeyFields \subseteq DOMAIN v /\ v.waits = ui.waits /\ v.sel = ui.sel
      /\ v.loading = ui.loading /\ v.made = ui.made /\ v.crossed = ui.crossed
  BY <1>1, <1>2 DEF KeyFields
<1>4. CASE ~Ok(s)
  <2>1. Takes(s, v)
    BY <1>2, <1>4 DEF KeyCreated
  <2>2. /\ site' = site /\ "made" \in DOMAIN ui' /\ ui'.sel = ui.sel /\ ui'.made = ui.made
        /\ ui'.loading = ui.loading /\ ui'.crossed = ui.crossed
        /\ \A t \in ui'.waits : t \in ui.waits /\ net'[t] = net[t]
    BY <1>1, <1>3, <2>1, TookOnKeys
  <2>3. QED
    BY <2>2, JoinedStays
<1>5. CASE Ok(s)
  <2>1. PICK w : w = [v EXCEPT !.view = "list", !.rows = Added(@, s), !.later = FALSE,
                               !.made = @ \cup {net[s].sel}]
    OBVIOUS
  <2>2. /\ KeyFields \subseteq DOMAIN w /\ w.waits = ui.waits /\ w.sel = ui.sel
        /\ w.loading = ui.loading /\ w.made = ui.made \cup {net[s].sel}
        /\ w.crossed = ui.crossed
    BY <1>3, <2>1 DEF KeyFields
  <2>3. Takes(s, w) \/ TakesAndLoads(s, Cancelled(w))
    BY <1>2, <1>5, <2>1 DEF KeyCreated, KeysCancelled
  <2>4. PICK c : c = Cancelled(w)
    OBVIOUS
  <2>5. /\ KeyFields \subseteq DOMAIN c /\ c.waits \subseteq ui.waits /\ c.sel = ui.sel
        /\ c.made = ui.made \cup {net[s].sel} /\ c.crossed = ui.crossed
    BY <2>2, <2>4 DEF Cancelled, KeyFields
  <2>6. ui.sel # NoItem
    BY <1>1 DEF Joined
  <2>7. /\ site' = site /\ "made" \in DOMAIN ui' /\ ui'.sel = ui.sel
        /\ ui'.made = ui.made \cup {net[s].sel} /\ (ui.crossed => ui'.crossed)
        /\ ui'.loading \/ ui'.loading = ui.loading
        /\ \A t \in ui'.waits : \/ t \in ui.waits /\ net'[t] = net[t]
                                \/ net'[t].kind = "load"
    <3>1. CASE Takes(s, w)
      BY <1>1, <2>2, <3>1, TookOnKeys
    <3>2. CASE TakesAndLoads(s, c)
      BY <1>1, <2>5, <3>2, ReloadedOnKeys
    <3>3. QED
      BY <2>3, <2>4, <3>1, <3>2
  <2>8. QED
    BY <1>1, <2>6, <2>7 DEF Joined
<1>6. QED
  BY <1>4, <1>5

LEMMA KeyRevokedJoined ==
  ASSUME Tab, Joined, NEW s \in Slots, KeyRevoked(s)
  PROVE  Joined'
<1>1. site = "keys" /\ KeyFields \subseteq DOMAIN ui /\ s \in ui.waits
  BY KeyFieldsOf DEF KeyRevoked, Answered, At
<1>2. PICK u : /\ Takes(s, u)
               /\ u = IF Ok(s) THEN [ui EXCEPT !.rows = Replaced(@, s)] ELSE ui
  BY DEF KeyRevoked
<1>3. /\ KeyFields \subseteq DOMAIN u /\ u.waits = ui.waits /\ u.sel = ui.sel
      /\ u.loading = ui.loading /\ u.made = ui.made /\ u.crossed = ui.crossed
  BY <1>1, <1>2 DEF KeyFields
<1>4. /\ site' = site /\ "made" \in DOMAIN ui' /\ ui'.sel = ui.sel /\ ui'.made = ui.made
      /\ ui'.loading = ui.loading /\ ui'.crossed = ui.crossed
      /\ \A t \in ui'.waits : t \in ui.waits /\ net'[t] = net[t]
  BY <1>1, <1>2, <1>3, TookOnKeys
<1>5. QED
  BY <1>4, JoinedStays

(* The other pages.                                                        *)
LEMMA OtherPageJoined ==
  ASSUME NEW page, page # "keys", At(page), site' = site PROVE Joined'
  BY DEF At, Joined

LEMMA TakenApart ==
  ASSUME NEW page, page # "keys", At(page), NEW s, NEW u, Takes(s, u) \/ TakesAndLoads(s, u)
  PROVE  Joined'
  BY OtherPageJoined DEF Takes, TakesAndLoads, Keeping

LEMMA AnswersJoined ==
  ASSUME Tab, Joined, NEW s \in Slots,
         \/ ModelsAnswers(s) \/ SourceLoaded(s) \/ ProvidersAnswers(s)
         \/ CustomersAnswers(s) \/ ApiKeysAnswers(s) \/ PlansAnswers(s)
         \/ ManagementKeysAnswers(s) \/ SettingsAnswers(s)
         \/ OrganizationsLoaded(s) \/ OrganizationCreated(s) \/ SummaryLoaded(s)
  PROVE  Joined'
<1>1. ModelsAnswers(s) => Joined'
  BY TakenApart DEF ModelsAnswers, ModelsLoaded, ModelSaved, ModelDeleted, EntryChanged
<1>2. ProvidersAnswers(s) => Joined'
  BY TakenApart
     DEF ProvidersAnswers, ProvidersLoaded, ProviderSaved, ProviderToggled, ProviderDeleted
<1>3. CustomersAnswers(s) => Joined'
  BY TakenApart
     DEF CustomersAnswers, CustomersLoaded, CustomerSaved, CustomerCreated, AccountClosed
<1>4. ApiKeysAnswers(s) => Joined'
  BY KeysLoadedJoined, KeyCreatedJoined, KeyRevokedJoined DEF ApiKeysAnswers
<1>5. PlansAnswers(s) => Joined'
  BY TakenApart DEF PlansAnswers, PlansLoaded, PlanSaved, PlanDeactivated
<1>6. ManagementKeysAnswers(s) => Joined'
  BY TakenApart DEF ManagementKeysAnswers, MgmtKeysLoaded, MgmtKeySaved, MgmtKeyRevoked
<1>7. SettingsAnswers(s) => Joined'
  BY TakenApart DEF SettingsAnswers, InvitesLoaded, Invited, InviteRevoked
<1>8. SourceLoaded(s) \/ OrganizationsLoaded(s) \/ SummaryLoaded(s) => Joined'
  BY TakenApart DEF SourceLoaded, OrganizationsLoaded, SummaryLoaded
<1>9. OrganizationCreated(s) => Joined'
  BY OtherPageJoined DEF OrganizationCreated
<1>10. QED
  BY <1>1, <1>2, <1>3, <1>4, <1>5, <1>6, <1>7, <1>8, <1>9

LEMMA HandlesAtSite == ASSUME Handles PROVE site' = site
  BY DEF Handles, Shows, Asking, Keeping

LEMMA HandlersJoined ==
  ASSUME Tab, Joined,
         \/ ModelsPage \/ FetchDialog \/ ProvidersPage
         \/ CustomersPage \/ ApiKeysPage \/ PlansPage
         \/ ManagementKeysPage \/ SettingsPage \/ CreateOrganization \/ PickRange
  PROVE  Joined'
<1>1. ASSUME site' = site, site # "keys" PROVE Joined'
  BY <1>1 DEF Joined
<1>2. ASSUME ModelsPage PROVE Joined'
  <2>1. site = "models"
    BY <1>2 DEF ModelsPage, AddModel, EditModel, BackToModels, TouchMetadata, SubmitModel,
       DeleteModel, ReorderEntries, ChangeEntry, AddEntry, EditEntry, Routing, At
  <2>2. QED
    BY <1>1, <1>2, <2>1, ModelsPageHandles, HandlesAtSite
<1>3. ASSUME FetchDialog PROVE Joined'
  <2>1. site = "catalog"
    BY <1>3 DEF FetchDialog, OpenFetch, PickSource, PickModel, CloseFetch, ResetFetch, At
  <2>2. QED
    BY <1>1, <1>3, <2>1, FetchDialogHandles, HandlesAtSite
<1>4. ASSUME ProvidersPage PROVE Joined'
  <2>1. site = "providers"
    BY <1>4 DEF ProvidersPage, RefreshProviders, AddProvider, EditProvider, TypeSecret,
       CloseProvider, SubmitProvider, ToggleProvider, DeleteProvider, At
  <2>2. QED
    BY <1>1, <1>4, <2>1, ProvidersPageHandles, HandlesAtSite
<1>5. ASSUME CustomersPage PROVE Joined'
  <2>1. site = "customers"
    BY <1>5 DEF CustomersPage, FilterCustomers, OpenDetail, CloseDrawer, OpenForm, OpenCreate,
       CloseForm, SubmitCustomer, SubmitNewCustomer, CloseAccount, At
  <2>2. QED
    BY <1>1, <1>5, <2>1, CustomersPageHandles, HandlesAtSite
<1>6. ASSUME PlansPage PROVE Joined'
  <2>1. site = "plans"
    BY <1>6 DEF PlansPage, AddPlan, EditPlan, CancelPlan, SubmitPlan, DeactivatePlan, At
  <2>2. QED
    BY <1>1, <1>6, <2>1, PlansPageHandles, HandlesAtSite
<1>7. ASSUME ManagementKeysPage PROVE Joined'
  <2>1. site = "mgmt"
    BY <1>7 DEF ManagementKeysPage, AddMgmtKey, EditMgmtKey, CancelMgmtKey, SubmitMgmtKey,
       RevokeMgmtKey, At
  <2>2. QED
    BY <1>1, <1>7, <2>1, ManagementKeysPageHandles, HandlesAtSite
<1>8. ASSUME SettingsPage PROVE Joined'
  <2>1. site = "settings"
    BY <1>8 DEF SettingsPage, Invite, RevokeInvite, At
  <2>2. QED
    BY <1>1, <1>8, <2>1, SettingsPageHandles, HandlesAtSite
<1>9. ASSUME CreateOrganization PROVE Joined'
  BY <1>1, <1>9 DEF CreateOrganization, At, Asking, Keeping
<1>10. ASSUME PickRange PROVE Joined'
  <2>1. site = "analytics"
    BY <1>10 DEF PickRange, At
  <2>2. QED
    BY <1>1, <1>10, <2>1, PickRangeHandles, HandlesAtSite
<1>11. QED
  BY <1>2, <1>3, <1>4, <1>5, <1>6, <1>7, <1>8, <1>9, <1>10, ApiKeysPageJoined

LEMMA PlaygroundJoined ==
  ASSUME PlaygroundPage \/ \E s \in Slots : PlaygroundAnswers(s)
  PROVE  Joined'
<1>1. At("playground")
  BY DEF PlaygroundPage, PlaygroundAnswers, PickModels, ClearConversation, Send, StopStream,
         PlaygroundLoaded, StreamEnded, Conversing
<1>2. site' = site
  <2>1. ASSUME StopStream PROVE site' = site
    BY <2>1 DEF StopStream, Keeping
  <2>2. ASSUME Send PROVE site' = site
    BY <2>2 DEF Send, Keeping
  <2>3. ASSUME PickModels \/ ClearConversation PROVE site' = site
    <3>1. Shows(ui)
      BY <2>3 DEF PickModels, ClearConversation
    <3>2. QED
      BY <3>1 DEF Shows, Keeping
  <2>4. ASSUME NEW s \in Slots, NEW u, Takes(s, u) PROVE site' = site
    BY <2>4 DEF Takes, Keeping
  <2>5. ASSUME NEW s \in Slots, PlaygroundAnswers(s) PROVE site' = site
    <3>1. Takes(s, Loaded(s, ui)) \/ Takes(s, ui)
      BY <2>5 DEF PlaygroundAnswers, PlaygroundLoaded, StreamEnded
    <3>2. QED
      BY <2>4, <3>1
  <2>6. QED
    BY <2>1, <2>2, <2>3, <2>5 DEF PlaygroundPage
<1>3. QED
  BY <1>1, <1>2, OtherPageJoined

LEMMA NextJoined == ASSUME PanelInv, Joined, [Next]_vars1 PROVE Joined'
<1>1. Tab /\ AtRest
  BY DEF PanelInv
<1>2. CASE \E s \in Slots : Serve(s)
  <2>1. PICK s \in Slots : Serve(s)
    BY <1>2
  <2>2. ui' = ui /\ site' = site
    BY <2>1 DEF Serve, ServePage
  <2>3. \A t \in Slots : net'[t].kind = net[t].kind /\ net'[t].sel = net[t].sel
    <3>1. CASE ServeSession(s)
      BY <1>1, <2>2, <3>1, ServedSlots, ServedFilters
    <3>2. CASE ServePage(s)
      BY <1>1, <3>2, ServedSlots, ServedFilters
    <3>3. QED
      BY <2>1, <3>1, <3>2 DEF Serve
  <2>4. ui.waits \subseteq Slots
    BY <1>1 DEF Tab, Waits
  <2>5. QED
    BY <2>2, <2>3, <2>4 DEF Joined
<1>3. ASSUME NEW s \in Slots, ReadsSessionAnswer(s) PROVE Joined'
  BY <1>1, <1>3, ReadsSessionStep, SessionJoined DEF ReadsSessionAnswer
<1>4. ASSUME NEW s \in Slots, Orphaned(s) \/ StreamDropped(s) PROVE Joined'
  <2>1. s \notin ui.waits /\ net' = Drop(s) /\ ui' = ui /\ site' = site
    BY <1>4 DEF Orphaned, StreamDropped, Aborted, Keeping
  <2>2. \A t \in ui.waits : net'[t] = net[t]
    BY <1>1, <2>1, DropSlots DEF Tab, Waits
  <2>3. QED
    BY <2>1, <2>2 DEF Joined
<1>5. CASE MountPage
  <2>1. /\ Mounts(site # "catalog") /\ ui.waits = {} /\ site' = site
        /\ ui.crossed = FALSE
    BY <1>1, <1>5 DEF MountPage, Mounts, Keeping, Tab, Mounted
  <2>2. CASE site = "keys"
    <3>1. KeyFields \subseteq DOMAIN ui
      BY <1>1, <2>2, KeyFieldsOf
    <3>2. PICK v : v = [ui EXCEPT !.mounted = TRUE, !.loading = TRUE]
      OBVIOUS
    <3>3. ui' = Waiting(v, net, Load) /\ net' = Put(net, Load) /\ Free(net) # {}
      BY <2>1, <2>2, <3>2 DEF Mounts, Keeping, Sends
    <3>4. /\ KeyFields \subseteq DOMAIN v /\ v.waits = {} /\ v.made = ui.made /\ v.sel = ui.sel
          /\ v.loading = TRUE
      BY <2>1, <3>1, <3>2 DEF KeyFields
    <3>5. /\ ui'.waits = {NextSlot(net)} /\ "made" \in DOMAIN ui' /\ ui'.made = ui.made
          /\ ui'.sel = ui.sel /\ ui'.loading = TRUE
      BY <3>3, <3>4 DEF Waiting, KeyFields
    <3>6. net'[NextSlot(net)].kind = "load"
      <4>1. Load.kind = "load" /\ IsRequest(Load)
        BY <1>1, FirstLoad DEF Sent
      <4>2. net'[NextSlot(net)] = Load
        BY <1>1, <3>3, <4>1, PutSlots DEF Tab, Requests
      <4>3. QED
        BY <4>1, <4>2
    <3>7. QED
      BY <2>1, <2>2, <3>5, <3>6, JoinedStays
  <2>3. QED
    BY <2>1, <2>2 DEF Joined
<1>6. CASE (IF Account THEN OperatorSession ELSE SwitchOrganization) /\ Remounts
  <2>1. SessionStep
    BY <1>1, <1>6, OperatorSessionSteps, SwitchOrganizationSteps DEF Remounts
  <2>2. QED
    BY <1>1, <1>6, <2>1, SessionJoined
<1>7. CASE Elsewhere
  <2>1. SessionStep /\ Remounts
    BY <1>1, <1>7, OtherTabSteps, FailsSteps DEF Elsewhere, Remounts
  <2>2. QED
    BY <1>1, <2>1, SessionJoined
<1>8. CASE UNCHANGED vars1
  <2>1. UNCHANGED <<net, site, ui>>
    BY <1>8 DEF vars1, vars, session
  <2>2. QED
    BY <2>1 DEF Joined
<1>9. QED
  BY <1>1, <1>2, <1>3, <1>4, <1>5, <1>6, <1>7, <1>8, AnswersJoined, HandlersJoined,
     PlaygroundJoined
     DEF Next, Receive, TakesAnswer, Operator

-----------------------------------------------------------------------------
(* The playground and the creation of an organization.                     *)
LEMMA SendKept ==
  ASSUME Tab, Kinds', Kept, Send
  PROVE  Kept'
<1> DEFINE places == {f \in [chat.picked -> Free(net)] :
                         \A a, b \in chat.picked : f[a] = f[b] => a = b}
           slot == CHOOSE f \in places : TRUE
           asks == {slot[a] : a \in chat.picked}
           q == Request("stream", stored)
<1>1. /\ places # {} /\ At("playground")
      /\ net' = [s \in Slots |-> IF s \in asks THEN q ELSE net[s]]
      /\ excused' = (excused \/ Races(net'))
      /\ UNCHANGED <<sessions, stored, user, loading, needsSetup>> /\ site' = site
  BY DEF Send, Conversing, Keeping
<1>2. slot \in places
  BY <1>1
<1>3. \A s \in asks : net[s].kind = "idle"
  BY <1>2 DEF Free
<1>4. Carries(q)
  BY Carried
<1> HIDE DEF places, slot, asks, q
<1>5. user # NoOrg /\ site = "playground"
  BY <1>1, AtUser
<1>6. \A s \in Slots : net'[s] = net[s] \/ Goes(s)
  BY <1>1, <1>3, <1>4, <1>5 DEF Goes, Carries
<1>7. PageStep
  BY <1>1, <1>5, <1>6, Owed DEF PageStep
<1>8. QED
  BY <1>7, PageStepKept

LEMMA StopStreamKept ==
  ASSUME Conversation, Tended, Kinds', Kept, StopStream
  PROVE  Kept'
<1> DEFINE slots == {t.slot : t \in Open(chat, chat.abort)}
<1>1. /\ At("playground") /\ chat.streaming /\ excused' = excused
      /\ net' = [s \in Slots |-> IF s \in slots THEN Idle ELSE net[s]]
      /\ UNCHANGED <<sessions, stored, user, loading, needsSetup>> /\ site' = site
  BY DEF StopStream, Conversing, Keeping
<1>2. site = "playground"
  BY <1>1, AtUser
<1>3. \A s \in slots : net[s].kind = "stream"
  BY <1>1, <1>2, UnendedTasks DEF Tended
<1>4. "stream" \in PageKinds \ Moves
  BY DEF PageKinds, Moves
<1> HIDE DEF slots
<1>5. \A s \in Slots : net'[s] = net[s] \/ Left(s)
  BY <1>1, <1>3, <1>4 DEF Left
<1>6. PageStep
  BY <1>1, <1>2, <1>5, Owed DEF PageStep
<1>7. QED
  BY <1>6, PageStepKept

LEMMA PlaygroundKept ==
  ASSUME Tab, Conversation, Tended, Kinds', Kept,
         PlaygroundPage \/ \E s \in Slots : PlaygroundAnswers(s)
  PROVE  Kept'
<1>1. CASE PickModels \/ ClearConversation
  <2>1. Shows(ui) /\ user # NoOrg /\ site = "playground"
    BY <1>1, AtUser DEF PickModels, ClearConversation, Conversing
  <2>2. Handles
    BY <2>1 DEF Handles, Fits
  <2>3. QED
    BY <2>2, HandlesKept
<1>2. ASSUME NEW s \in Slots, PlaygroundAnswers(s) PROVE Kept'
  <2>1. user # NoOrg /\ site = "playground"
    BY <1>2, AtUser DEF PlaygroundAnswers, PlaygroundLoaded, StreamEnded, Conversing
  <2>2. net[s].kind \in PageKinds \ Moves
    BY <1>2, AnsweredHere DEF PlaygroundAnswers, PlaygroundLoaded, StreamEnded
  <2>3. Takes(s, Loaded(s, ui)) \/ Takes(s, ui)
    BY <1>2 DEF PlaygroundAnswers, PlaygroundLoaded, StreamEnded
  <2>4. Took(s)
    BY <2>1, <2>2, <2>3 DEF Took, Fits
  <2>5. QED
    BY <2>4, TookKept
<1>3. QED
  BY <1>1, <1>2, SendKept, StopStreamKept DEF PlaygroundPage

LEMMA SwitchLeaves ==
  ASSUME NEW token, NEW to, NEW from
  PROVE  LET q == [Request("switch", token) EXCEPT !.to = to, !.from = from] IN
         /\ q.kind = "switch" /\ q.token = token /\ q.code = "sent"
  BY DEF Request, Idle

(* The organization that was created has the token of its creation.        *)
LEMMA OrganizationCreatedKept ==
  ASSUME Tab, Kept, NEW s \in Slots, OrganizationCreated(s)
  PROVE  Kept'
<1> SUFFICES ASSUME ~excused' PROVE Untroubled'
  BY DEF Kept
<1>1. net[s].kind = "createOrg" /\ s \in ui.waits /\ user # NoOrg
      /\ net[s].code \in {"ok", "failed"}
  BY AtUser DEF OrganizationCreated, Answered
<1>2. ~excused
  BY DEF OrganizationCreated
<1>3. Untroubled
  BY <1>2 DEF Kept
<1>4. Ok(s)
  BY <1>1, <1>3 DEF Untroubled, Moves, Ok
<1> DEFINE q == [Request("switch", stored') EXCEPT !.to = net[s].to, !.from = "createOrg"]
           done == [ui EXCEPT !.waits = @ \ {s}, !.tags = @ \cup {net[s].shown}]
           slot == NextSlot(Drop(s))
<1>5. /\ stored' = net[s].grant /\ net' = Put(Drop(s), q)
      /\ excused' = (excused \/ Races(net'))
      /\ UNCHANGED <<sessions, user, loading, needsSetup>>
  BY <1>4 DEF OrganizationCreated, SetToken
<1>6. /\ Drop(s)[s] = Idle /\ OfRequests(Drop(s))
      /\ \A t \in Slots : t # s => Drop(s)[t] = net[t]
      /\ Free(Drop(s)) # {}
  BY DropSlots DEF Tab
<1>7. slot \in Slots /\ net'[slot] = q /\ \A t \in Slots : t # slot => net'[t] = Drop(s)[t]
  BY <1>5, <1>6, NextFree DEF Put, OfRequests, Free
<1>8. q.kind = "switch" /\ q.token = stored' /\ q.code = "sent"
  BY SwitchLeaves
<1> HIDE DEF q, done, slot
<1>9. ~Races(net') /\ ~Races(net)'
  BY <1>5 DEF Races
<1>10. \A t \in Slots : t # s => /\ net[t].token = NoToken
                                 /\ net[t].kind \in Anonymous \cup {"idle"}
  <2>1. \A t \in Slots : t # s => net[t].token = NoToken
    BY <1>1, <1>3 DEF Untroubled, Races, Moves
  <2>2. QED
    BY <1>3, <2>1 DEF Untroubled
<1>11. \A t \in Slots : net[t].kind \notin {"login", "signup", "me"}
  <2>1. net[s].token # NoToken
    BY <1>1, <1>3 DEF Untroubled, Anonymous
  <2>2. \A t \in Slots : net[t].kind \notin {"login", "signup"}
    BY <1>1, <1>3, <2>1 DEF Untroubled, Races
  <2>3. \A t \in Slots : net[t].kind # "me"
    BY <1>1, <1>3 DEF Untroubled, Booting
  <2>4. QED
    BY <2>2, <2>3
<1>12. \A t \in Slots : \/ t = slot
                        \/ t # s /\ net'[t] = net[t] /\ net[t].kind \in Anonymous
                        \/ net'[t] = Idle
                        \/ t # s /\ net'[t] = net[t] /\ net'[t].kind = "idle"
  BY <1>6, <1>7, <1>10
<1>13. \A t \in Slots : t # slot =>
          /\ net'[t].kind \in {"status", "bootStatus", "idle"}
          /\ net'[t].kind # "idle" => t # s /\ net'[t] = net[t]
  BY <1>11, <1>12, IdleCarriesNothing DEF Anonymous
<1>14. stored' # NoToken
  BY <1>1, <1>3, <1>4, <1>5 DEF Untroubled, Moves, Ok
<1>15. SignedInKept'
  <2>1. CASE Seated
    <3>1. /\ \A t \in Slots : net[t].code # "unauthorized"
          /\ Valid(net[s].grant)
      BY <1>1, <1>3, <1>4, <2>1 DEF Untroubled, SignedInKept, Moved, Moves, Ok
    <3>2. (Valid(stored))'
      BY <1>5, <3>1 DEF Valid
    <3>3. ASSUME NEW t \in Slots
          PROVE  /\ net'[t].code # "unauthorized" /\ Accepted(t)' /\ ~Moved(t)'
      <4>1. CASE t = slot
        <5>1. (Valid(net[t].token))'
          BY <1>7, <1>8, <3>2, <4>1 DEF Valid
        <5>2. QED
          BY <1>7, <1>8, <4>1, <5>1 DEF Accepted, Moved
      <4>2. CASE t # slot
        <5>1. net'[t] = net[t] \/ net'[t] = Idle
          BY <1>6, <1>7, <4>2
        <5>2. QED
          BY <1>13, <3>1, <4>2, <5>1, IdleCarriesNothing DEF Accepted, Moved, Anonymous, Moves
      <4>3. QED
        BY <4>1, <4>2
    <3>4. QED
      BY <3>2, <3>3 DEF SignedInKept
  <2>2. CASE ~Seated
    <3>1. \E t \in Slots : net[t].kind \in {"logout", "password"}
      BY <1>1, <2>2 DEF Seated, Busy
    <3>2. FALSE
      BY <1>1, <1>10, <3>1 DEF Anonymous
    <3>3. QED
      BY <3>2
  <2>3. QED
    BY <2>1, <2>2
<1>16. \A t \in Slots :
        /\ net'[t].kind \notin Anonymous \cup {"idle"} => net'[t].token # NoToken
        /\ net'[t].kind \in AuthKinds \cup Moves => net'[t].code # "failed"
        /\ net'[t].kind \in {"status", "bootStatus", "idle"} => net'[t].code # "unauthorized"
        /\ net'[t].kind \notin {"createOrg", "login", "signup", "me"}
        /\ net'[t].kind \in Moves \cup {"login", "signup"} => net'[t].code # "ok"
  <2>1. ASSUME NEW t \in Slots, t = slot
        PROVE  /\ net'[t].token # NoToken /\ net'[t].code = "sent" /\ net'[t].kind = "switch"
    BY <1>7, <1>8, <1>14, <2>1
  <2>2. ASSUME NEW t \in Slots, t # slot
        PROVE  /\ net'[t].kind \in {"status", "bootStatus", "idle"}
               /\ net'[t].kind # "idle" => net'[t].code # "failed"
               /\ net'[t].code # "unauthorized"
    <3>1. net'[t] = Idle \/ net'[t] = net[t]
      BY <1>6, <1>7, <2>2
    <3>2. /\ net'[t].kind \in {"status", "bootStatus", "idle"}
          /\ net'[t].kind # "idle" => net'[t] = net[t]
      BY <1>13, <2>2
    <3>3. CASE net'[t] = Idle
      BY <3>2, <3>3, IdleCarriesNothing
    <3>4. CASE net'[t] = net[t]
      BY <1>3, <3>2, <3>4 DEF Untroubled, AuthKinds
    <3>5. QED
      BY <3>1, <3>3, <3>4
  <2>3. QED
    BY <2>1, <2>2 DEF Anonymous, AuthKinds, Moves
<1>17. user' # NoOrg => stored' # NoToken /\ ~loading' /\ needsSetup' # "unknown"
  BY <1>3, <1>5, <1>14 DEF Untroubled
<1>18. QED
  BY <1>9, <1>15, <1>16, <1>17 DEF Untroubled

-----------------------------------------------------------------------------
(* The answers that the session reads: one request goes, and at most the   *)
(* question after the setup comes.                                         *)
Anew(t) == /\ net'[t].token = NoToken /\ net'[t].code = "sent"
            /\ net'[t].kind \in {"idle", "status", "bootStatus"}

Read(s) ==
    /\ UNCHANGED <<sessions, excused>>
    /\ Anew(s) \/ net'[s] = Idle
    /\ \A t \in Slots : t # s => \/ net'[t] = net[t]
                                 \/ net[t].kind = "idle" /\ Anew(t)

LEMMA ReadFields ==
  ASSUME NEW s, Read(s)
  PROVE  /\ Anew(s) /\ \A t : Valid(t)' <=> Valid(t)
         /\ \A t \in Slots : net'[t].kind \in AuthKinds \cup PageKinds =>
                \/ t # s /\ net'[t] = net[t]
                \/ Anew(t) /\ net'[t].kind \in {"status", "bootStatus"}
<1>1. Anew(s)
  BY IdleCarriesNothing DEF Read, Anew
<1>2. \A t : Valid(t)' <=> Valid(t)
  BY DEF Read, Valid
<1>3. \A t \in Slots : Anew(t) /\ net'[t].kind \in AuthKinds \cup PageKinds
                         => net'[t].kind \in {"status", "bootStatus"}
  BY KindsApart DEF Anew
<1>4. QED
  BY <1>1, <1>2, <1>3 DEF Read

LEMMA DroppedReads ==
  ASSUME Tab, NEW s \in Slots, net' = Drop(s), UNCHANGED <<sessions, excused>>
  PROVE  Read(s)
  BY DropSlots DEF Tab, Read

LEMMA RefreshedReads ==
  ASSUME Tab, NEW s \in Slots, NEW kind \in {"status", "bootStatus"},
         net' = Refreshes(Drop(s), kind), UNCHANGED <<sessions, excused>>
  PROVE  Read(s)
<1> DEFINE q == Request(kind, NoToken)
           n == Drop(s)
<1>1. q.kind = kind /\ q.token = NoToken /\ q.code = "sent"
  BY DEF Request, Idle
<1>2. /\ n[s] = Idle /\ OfRequests(n) /\ s \in Free(n)
      /\ \A t \in Slots : t # s => n[t] = net[t]
  BY DropSlots DEF Tab
<1>3. net' = n \/ net' = Put(n, q)
  BY DEF Refreshes
<1> HIDE DEF n, q
<1>4. CASE net' = n
  BY <1>2, <1>4 DEF Read
<1>5. CASE net' = Put(n, q)
  <2>1. NextSlot(n) \in Slots /\ n[NextSlot(n)].kind = "idle"
    BY <1>2, NextFree DEF Free
  <2>2. net'[NextSlot(n)] = q /\ \A t \in Slots : t # NextSlot(n) => net'[t] = n[t]
    BY <1>2, <1>5, <2>1 DEF Put, OfRequests
  <2>3. Anew(NextSlot(n))
    BY <1>1, <2>2 DEF Anew
  <2>4. QED
    BY <1>2, <2>1, <2>2, <2>3 DEF Read
<1>6. QED
  BY <1>3, <1>4, <1>5

LEMMA ReadUntroubled ==
  ASSUME Untroubled, NEW s \in Slots, Read(s), SignedInKept',
         user' # NoOrg => stored' # NoToken /\ ~loading' /\ needsSetup' # "unknown",
         \A t \in Slots : t # s /\ net'[t] = net[t] =>
             /\ net[t].kind = "createOrg" => t \in ui'.waits
             /\ net[t].kind \in {"login", "signup"} => Entering(t)'
             /\ net[t].kind = "me" => Booting(t)'
  PROVE  Untroubled'
<1>1. Anew(s) /\ \A t \in Slots : (t # s /\ net'[t] = net[t]) \/ Anew(t)
  BY ReadFields DEF Read
<1>2. ~Races(net') /\ ~Races(net)'
  <2>1. \A t \in Slots : \/ net'[t].kind = net[t].kind /\ net'[t].token = net[t].token
                         \/ /\ net'[t].token = NoToken
                            /\ net'[t].kind \notin Moves \cup {"login", "signup"}
    BY <1>1 DEF Anew, Moves
  <2>2. ~Races(net')
    BY <2>1, RacesKept DEF Untroubled
  <2>3. QED
    BY <2>2 DEF Races
<1>3. ASSUME NEW t \in Slots
      PROVE  /\ net'[t].kind \notin Anonymous \cup {"idle"} => net'[t].token # NoToken
             /\ net'[t].kind \in AuthKinds \cup Moves => net'[t].code # "failed"
             /\ net'[t].kind \in {"status", "bootStatus", "idle"} => net'[t].code # "unauthorized"
             /\ net'[t].kind = "createOrg" => t \in ui'.waits
             /\ net'[t].kind \in {"login", "signup"} => Entering(t)'
             /\ net'[t].kind = "me" => Booting(t)'
             /\ net'[t].kind \in Moves \cup {"login", "signup"} /\ net'[t].code = "ok"
                   => net'[t].grant # NoToken
  <2>1. CASE t # s /\ net'[t] = net[t]
    BY <2>1 DEF Untroubled
  <2>2. CASE Anew(t)
    BY <2>2 DEF Anew, Anonymous, Moves
  <2>3. QED
    BY <1>1, <2>1, <2>2
<1>4. QED
  BY <1>2, <1>3 DEF Untroubled

(* Nobody is signed in any more.                                           *)
LEMMA SignedOutUntroubled ==
  ASSUME Untroubled, NEW s \in Slots, Read(s), user' = NoOrg,
         \A t \in Slots : t # s => net[t].kind \notin {"createOrg", "login", "signup", "me"}
  PROVE  Untroubled'
<1>1. SignedInKept'
  BY DEF SignedInKept, Seated
<1>2. QED
  BY <1>1, ReadUntroubled

-----------------------------------------------------------------------------
(* The answers of the session leave whoever is signed in where they are.   *)
LEMMA NobodyElse ==
  ASSUME Untroubled, NEW s \in Slots, net[s].kind \notin {"idle", "status", "bootStatus"}
  PROVE  \A t \in Slots : t # s => net[t].kind \notin {"createOrg", "login", "signup", "me"}
<1>1. \A t \in Slots : t # s => net[t].kind # "me"
  BY DEF Untroubled, Booting
<1>2. CASE net[s].kind \in {"login", "signup"}
  <2>1. \A t \in Slots : t # s => net[t].token = NoToken
    BY <1>2 DEF Untroubled, Races
  <2>2. \A t \in Slots : t # s => net[t].kind # "createOrg"
    BY <2>1 DEF Untroubled, Anonymous
  <2>3. QED
    BY <1>1, <1>2, <2>2 DEF Untroubled, Entering
<1>3. CASE net[s].kind \notin {"login", "signup"}
  <2>1. net[s].token # NoToken
    BY <1>3 DEF Untroubled, Anonymous
  <2>2. QED
    BY <1>1, <2>1 DEF Untroubled, Races, Moves
<1>4. QED
  BY <1>2, <1>3

LEMMA SignsOutUntroubled ==
  ASSUME Tab, Untroubled, NEW s \in Slots, SignsOut(s), Keeps,
         net[s].kind \notin {"idle", "status", "bootStatus"}
  PROVE  Untroubled'
<1>1. Read(s) /\ user' = NoOrg
  BY RefreshedReads DEF SignsOut, Keeps
<1>2. QED
  BY <1>1, NobodyElse, SignedOutUntroubled

LEMMA InvalidatedUntroubled ==
  ASSUME Tab, Untroubled, NEW s \in Slots, Invalidated(s)
  PROVE  Untroubled'
<1>1. net[s].kind \notin {"idle", "status", "bootStatus"}
  BY DEF Invalidated, Untroubled
<1>2. QED
  BY <1>1, SignsOutUntroubled DEF Invalidated

LEMMA LoggedOutUntroubled ==
  ASSUME Tab, Untroubled, NEW s \in Slots, LoggedOut(s)
  PROVE  Untroubled'
  BY SignsOutUntroubled DEF LoggedOut, Reads

LEMMA PasswordChangedUntroubled ==
  ASSUME Tab, Untroubled, NEW s \in Slots, PasswordChanged(s)
  PROVE  Untroubled'
<1>1. net[s].kind = "password" /\ net[s].code # "failed"
  BY DEF PasswordChanged, Reads, Untroubled, AuthKinds
<1>2. QED
  BY <1>1, SignsOutUntroubled DEF PasswordChanged

LEMMA BootstrappedUntroubled ==
  ASSUME Tab, Untroubled, NEW s \in Slots, Bootstrapped(s)
  PROVE  Untroubled'
<1>1. net[s].kind = "me" /\ Booting(s) /\ net[s].code # "failed" /\ net[s].token # NoToken
  BY DEF Bootstrapped, Reads, Untroubled, AuthKinds, Anonymous
<1>2. \A t \in Slots : t # s => net[t].kind = "idle"
  BY <1>1 DEF Booting
<1>3. UNCHANGED sessions
  BY DEF Bootstrapped, Keeps
<1>4. CASE /\ net[s].code = "ok" /\ user' = net[s].token.org
           /\ TokenValidated /\ loading' = FALSE
           /\ net' = Drop(s) /\ UNCHANGED <<stored, excused>>
  <2>1. Read(s)
    BY <1>3, <1>4, DroppedReads
  <2>2. Valid(stored)' /\ stored' # NoToken
    BY <1>1, <1>3, <1>4 DEF Booting, Valid
  <2>3. \A t \in Slots : net'[t].kind = "idle" /\ net'[t].code # "unauthorized"
    <3>1. Drop(s)[s] = Idle /\ \A t \in Slots : t # s => Drop(s)[t] = net[t]
      BY DropSlots DEF Tab
    <3>2. net' = Drop(s)
      BY <1>4
    <3>3. QED
      BY <1>2, <3>1, <3>2, IdleCarriesNothing DEF Untroubled
  <2>4. SignedInKept'
    BY <2>2, <2>3 DEF SignedInKept, Accepted, Moved, Moves
  <2>5. ~loading' /\ needsSetup' # "unknown"
    BY <1>4 DEF TokenValidated
  <2>6. QED
    BY <1>2, <2>1, <2>2, <2>4, <2>5, ReadUntroubled
<1>5. CASE /\ net[s].code # "ok"
           /\ stored' = IF net[s].code = "unauthorized" THEN NoToken ELSE stored
           /\ user' = IF net[s].code = "unauthorized" THEN NoOrg ELSE user
           /\ net' = Refreshes(Drop(s), "bootStatus")
           /\ UNCHANGED <<loading, needsSetup, excused>>
  <2>1. Read(s)
    BY <1>3, <1>5, RefreshedReads
  <2>2. user' = NoOrg
    BY <1>1, <1>5 DEF Booting
  <2>3. QED
    BY <1>2, <2>1, <2>2, SignedOutUntroubled
<1>6. QED
  BY <1>4, <1>5 DEF Bootstrapped

(* The page stays, and what it waits for.                                  *)
LEMMA StillWaits ==
  ASSUME Tab, Remounts, OutletKey' = OutletKey, NEW t \in ui.waits, net'[t].kind # "idle"
  PROVE  t \in ui'.waits
<1>1. Stays
  BY DEF Remounts, Stays
<1>2. QED
  BY <1>1, StaysFields

LEMMA StatusKnownUntroubled ==
  ASSUME Tab, Untroubled, NEW s \in Slots, StatusKnown(s), Remounts
  PROVE  Untroubled'
<1>1. /\ net[s].kind \in {"status", "bootStatus"} /\ net[s].code \in Codes
      /\ net[s].code # "sent" /\ net' = Drop(s)
      /\ UNCHANGED <<sessions, stored, user, excused>> /\ loading' \in BOOLEAN
      /\ loading' => loading
  <2>1. net[s].code \in Codes /\ loading \in BOOLEAN
    BY DEF Tab, Requests, OfRequests, IsRequest, Stores
  <2>2. QED
    BY <2>1 DEF StatusKnown, Reads, Keeps
<1>2. net[s].code \in {"ok", "setup"}
  BY <1>1 DEF Untroubled, AuthKinds, Codes
<1>3. needsSetup' # "unknown"
  BY <1>2 DEF StatusKnown
<1>4. Read(s)
  BY <1>1, DroppedReads
<1>5. /\ net'[s] = Idle /\ \A t \in Slots : t # s => net'[t] = net[t]
  <2>1. Drop(s)[s] = Idle /\ \A t \in Slots : t # s => Drop(s)[t] = net[t]
    BY DropSlots DEF Tab
  <2>2. QED
    BY <1>1, <2>1
<1>6. SignedInKept'
  <2>1. Seated' => Seated
    BY <1>1, <1>5 DEF Seated, Busy
  <2>2. CASE Seated
    <3>1. /\ \A t \in Slots : /\ net[t].code # "unauthorized"
                              /\ Accepted(t)
                              /\ Moved(t) => Valid(net[t].grant)
          /\ (\A t \in Slots : ~Moved(t)) => Valid(stored)
      BY <2>2 DEF Untroubled, SignedInKept
    <3>2. ASSUME NEW t \in Slots
          PROVE  /\ net'[t].code # "unauthorized" /\ Accepted(t)'
                 /\ (Moved(t) => Valid(net[t].grant))'
                 /\ Moved(t) => Moved(t)'
      <4>1. CASE t = s
        BY <1>1, <1>5, <4>1, IdleCarriesNothing DEF Accepted, Moved, Moves
      <4>2. CASE t # s
        <5>1. net'[t] = net[t] /\ sessions' = sessions
          BY <1>1, <1>5, <4>2
        <5>2. QED
          BY <3>1, <5>1 DEF Accepted, Moved, Valid
      <4>3. QED
        BY <4>1, <4>2
    <3>3. Valid(stored)' <=> Valid(stored)
      BY <1>1 DEF Valid
    <3>4. QED
      BY <3>1, <3>2, <3>3 DEF SignedInKept
  <2>3. QED
    BY <2>1, <2>2 DEF SignedInKept
<1>7. user' # NoOrg => stored' # NoToken /\ ~loading' /\ needsSetup' # "unknown"
  BY <1>1, <1>3 DEF Untroubled
<1>8. ASSUME NEW t \in Slots, t # s, net'[t] = net[t]
      PROVE  /\ net[t].kind = "createOrg" => t \in ui'.waits
             /\ net[t].kind \in {"login", "signup"} => Entering(t)'
             /\ net[t].kind = "me" => Booting(t)'
  <2>1. ASSUME net[t].kind = "createOrg" PROVE t \in ui'.waits
    <3>1. t \in ui.waits
      BY <2>1 DEF Untroubled
    <3>2. OutletKey # NoOrg
      BY <3>1 DEF Tab, Mounted
    <3>3. OutletKey' = OutletKey
      BY <1>1, <1>3, <1>7, <3>2 DEF OutletKey, View, Guarded, Permitted
    <3>4. QED
      BY <1>8, <2>1, <3>1, <3>3, StillWaits
  <2>2. ASSUME net[t].kind \in {"login", "signup"} PROVE Entering(t)'
    <3>1. Entering(t)
      BY <2>2 DEF Untroubled
    <3>2. Valid(net[t].grant)' <=> Valid(net[t].grant)
      BY <1>1, <1>8 DEF Valid
    <3>3. \A x \in Slots : net'[x].kind \in {"login", "signup"} => x = t
      BY <1>5, <3>1, IdleCarriesNothing DEF Entering
    <3>4. QED
      BY <1>1, <1>8, <3>1, <3>2, <3>3 DEF Entering
  <2>3. net[t].kind # "me"
    BY <1>1, <1>8 DEF Untroubled, Booting
  <2>4. QED
    BY <2>1, <2>2, <2>3
<1>9. QED
  BY <1>4, <1>6, <1>7, <1>8, ReadUntroubled

(* A session that has just been granted has nobody to end it.              *)
Harmless(t) == /\ net[t].kind \in {"status", "bootStatus", "idle"}
               /\ net[t].code # "unauthorized"
               /\ net[t].kind # "idle" => net[t].code # "failed"

LEMMA GrantedUntroubled ==
  ASSUME stored' # NoToken, user' # NoOrg => Valid(stored)' /\ ~loading' /\ needsSetup' # "unknown",
         \A t \in Slots : \/ Harmless(t)'
                          \/ /\ net'[t].kind = "load" /\ net'[t].code = "sent"
                             /\ net'[t].token = stored'
  PROVE  Untroubled'
<1>1. \A t \in Slots :
        /\ net'[t].kind \in {"status", "bootStatus", "idle", "load"}
        /\ net'[t].code # "unauthorized"
        /\ net'[t].kind \in {"status", "bootStatus"} => net'[t].code # "failed"
        /\ net'[t].kind = "load" => net'[t].code = "sent" /\ net'[t].token = stored'
  BY DEF Harmless
<1>2. ~Races(net)'
  BY <1>1 DEF Races, Moves
<1>3. SignedInKept'
  <2>1. ASSUME Seated' PROVE Valid(stored)'
    BY <2>1 DEF Seated
  <2>2. ASSUME Seated', NEW t \in Slots
        PROVE  net'[t].code # "unauthorized" /\ Accepted(t)' /\ ~Moved(t)'
    <3>1. net'[t].kind = "load" => Valid(net[t].token)'
      BY <1>1, <2>1, <2>2 DEF Valid
    <3>2. QED
      BY <1>1, <3>1 DEF Accepted, Moved, Anonymous, Moves
  <2>3. QED
    BY <2>1, <2>2 DEF SignedInKept
<1>4. \A t \in Slots :
        /\ net'[t].kind \notin Anonymous \cup {"idle"} => net'[t].token # NoToken
        /\ net'[t].kind \in AuthKinds \cup Moves => net'[t].code # "failed"
        /\ net'[t].kind \notin {"createOrg", "login", "signup", "me"} \cup Moves
  BY <1>1 DEF Anonymous, AuthKinds, Moves
<1>5. QED
  BY <1>1, <1>2, <1>3, <1>4 DEF Untroubled

LEMMA OthersHarmless ==
  ASSUME Untroubled, NEW s \in Slots, net[s].kind \in {"login", "signup"} \cup Moves,
         NEW t \in Slots, t # s
  PROVE  Harmless(t)
<1>1. net[t].token = NoToken
  BY DEF Untroubled, Races
<1>2. net[t].kind \in Anonymous \cup {"idle"}
  BY <1>1 DEF Untroubled
<1>3. net[t].kind \notin {"login", "signup"}
  BY NobodyElse DEF Moves
<1>4. QED
  BY <1>2, <1>3 DEF Harmless, Untroubled, AuthKinds, Anonymous

LEMMA SignedInUntroubled ==
  ASSUME Tab, Untroubled, NEW s \in Slots, SignedIn(s)
  PROVE  Untroubled'
<1>1. /\ net[s].kind \in {"login", "signup"} /\ net[s].code = "ok"
      /\ net[s].grant # NoToken /\ Entering(s)
  BY DEF SignedIn, Reads, Untroubled, AuthKinds
<1>2. /\ stored' = net[s].grant /\ needsSetup' = "no" /\ net' = Drop(s)
      /\ UNCHANGED <<sessions, loading>>
  BY <1>1 DEF SignedIn, SetToken, Keeps
<1>3. Valid(stored)' /\ ~loading'
  BY <1>1, <1>2 DEF Entering, Valid
<1>4. Drop(s)[s] = Idle /\ \A t \in Slots : t # s => Drop(s)[t] = net[t]
  BY DropSlots DEF Tab
<1>5. ASSUME NEW t \in Slots
      PROVE  Harmless(t)'
  <2>1. CASE t = s
    <3>1. net'[t] = Idle
      BY <1>2, <1>4, <2>1
    <3>2. QED
      BY <3>1, IdleCarriesNothing DEF Harmless
  <2>2. CASE t # s
    <3>1. net'[t] = net[t] /\ Harmless(t)
      BY <1>1, <1>2, <1>4, <2>2, OthersHarmless
    <3>2. QED
      BY <3>1 DEF Harmless
  <2>3. QED
    BY <2>1, <2>2
<1>6. QED
  BY <1>1, <1>2, <1>3, <1>5, GrantedUntroubled

LEMMA SwitchedUntroubled ==
  ASSUME Tab, Untroubled, NEW s \in Slots, Switched(s)
  PROVE  Untroubled'
<1> DEFINE q == [Request("load", stored') EXCEPT !.shown = user']
           n == Drop(s)
<1>1. /\ net[s].kind = "switch" /\ net[s].code = "ok" /\ net[s].grant # NoToken
  BY DEF Switched, Reads, Untroubled, AuthKinds, Moves
<1>2. /\ stored' = net[s].grant /\ UNCHANGED <<sessions, loading, needsSetup>>
      /\ user' # NoOrg => user # NoOrg
      /\ net' = n \/ net' = Put(n, q)
  BY <1>1 DEF Switched, SetToken, Keeps
<1>3. \A t \in Slots : t # s => Harmless(t)
  BY <1>1, OthersHarmless DEF Moves
<1>4. /\ n[s] = Idle /\ OfRequests(n) /\ s \in Free(n)
      /\ \A t \in Slots : t # s => n[t] = net[t]
  BY DropSlots DEF Tab
<1>5. q.kind = "load" /\ q.token = stored' /\ q.code = "sent"
  BY DEF Request, Idle
<1> HIDE DEF q, n
<1>6. ASSUME user' # NoOrg PROVE Valid(stored)' /\ ~loading' /\ needsSetup' # "unknown"
  <2>1. Seated
    BY <1>1, <1>2, <1>3, <1>6 DEF Seated, Busy, Harmless
  <2>2. Valid(net[s].grant)
    BY <1>1, <2>1 DEF Untroubled, SignedInKept, Moved, Moves
  <2>3. QED
    BY <1>2, <1>6, <2>2 DEF Untroubled, Valid
<1>7. \A t \in Slots : n[t] = Idle \/ (n[t] = net[t] /\ Harmless(t))
  BY <1>3, <1>4
<1>8. ASSUME NEW t \in Slots, net'[t] = n[t] PROVE Harmless(t)'
  BY <1>7, <1>8, IdleCarriesNothing DEF Harmless
<1>9. CASE net' = n
  BY <1>1, <1>2, <1>6, <1>8, <1>9, GrantedUntroubled
<1>10. CASE net' = Put(n, q)
  <2>1. NextSlot(n) \in Slots
    BY <1>4, NextFree DEF Free
  <2>2. net'[NextSlot(n)] = q /\ \A t \in Slots : t # NextSlot(n) => net'[t] = n[t]
    BY <1>4, <1>10, <2>1 DEF Put, OfRequests
  <2>3. \A t \in Slots : \/ Harmless(t)'
                         \/ /\ net'[t].kind = "load" /\ net'[t].code = "sent"
                            /\ net'[t].token = stored'
    BY <1>5, <1>8, <2>2
  <2>4. QED
    BY <1>1, <1>2, <1>6, <2>3, GrantedUntroubled
<1>11. QED
  BY <1>2, <1>9, <1>10

LEMMA ReadsSessionKept ==
  ASSUME Tab, Kept, NEW s \in Slots, ReadsSessionAnswer(s)
  PROVE  Kept'
<1>1. Remounts
  BY DEF ReadsSessionAnswer
<1>2. excused' = excused
  BY DEF ReadsSessionAnswer, ReadsSession, Bootstrapped, StatusKnown, SignedIn, Switched,
         LoggedOut, PasswordChanged, Invalidated, SignsOut
<1>3. ASSUME Untroubled PROVE Untroubled'
  BY <1>1, <1>3, BootstrappedUntroubled, StatusKnownUntroubled, SignedInUntroubled,
     SwitchedUntroubled, LoggedOutUntroubled, PasswordChangedUntroubled,
     InvalidatedUntroubled DEF ReadsSessionAnswer, ReadsSession
<1>4. QED
  BY <1>2, <1>3 DEF Kept

-----------------------------------------------------------------------------
(* What the operator asks of the session leaves it so.                     *)
Wants(q) ==
    /\ q.code = "sent" /\ q.token = stored
    /\ \/ q.kind \in {"switch", "logout", "password"} /\ user # NoOrg
       \/ /\ q.kind \in {"login", "signup"} /\ user = NoOrg /\ ~loading
          /\ ~Busy({"login", "signup"})

LEMMA WantsUntroubled ==
  ASSUME Tab, Untroubled, NEW q, Wants(q), Asks(q), Remounts, ~excused'
  PROVE  Untroubled'
<1> DEFINE slot == NextSlot(net)
<1>1. /\ UNCHANGED <<sessions, stored, user, loading, needsSetup>>
      /\ Free(net) # {} /\ net' = Put(net, q) /\ excused' = (excused \/ Races(net'))
  BY DEF Asks, Sends
<1>2. slot \in Slots /\ net[slot].kind = "idle"
  BY <1>1, NextFree DEF Free
<1>3. net'[slot] = q /\ \A t \in Slots : t # slot => net'[t] = net[t]
  BY <1>1, <1>2 DEF Put, Tab, Requests, OfRequests
<1> HIDE DEF slot
<1>4. ~Races(net') /\ ~Races(net)'
  BY <1>1 DEF Races
<1>5. user = NoOrg \/ (stored # NoToken /\ ~loading /\ needsSetup # "unknown")
  BY DEF Untroubled
<1>6. ~loading /\ \A t \in Slots : net'[t].kind # "me"
  <2>1. ~loading
    BY <1>5 DEF Wants
  <2>2. \A t \in Slots : net[t].kind # "me"
    BY <2>1 DEF Untroubled, Booting
  <2>3. q.kind # "me"
    BY DEF Wants
  <2>4. QED
    BY <1>3, <2>1, <2>2, <2>3
<1>7. SignedInKept'
  <2>1. CASE Seated'
    <3>1. \A t \in Slots : t # slot => net'[t] = net[t]
      BY <1>3
    <3>2. user # NoOrg /\ q.kind = "switch" /\ Seated
      <4>1. user # NoOrg /\ \A t \in Slots : net'[t].kind \notin {"logout", "password"}
        BY <1>1, <2>1 DEF Seated, Busy
      <4>2. q.kind = "switch"
        BY <1>2, <1>3, <4>1 DEF Wants
      <4>3. \A t \in Slots : net[t].kind \notin {"logout", "password"}
        BY <1>2, <1>3, <4>1
      <4>4. QED
        BY <4>1, <4>2, <4>3 DEF Seated, Busy
    <3>3. /\ \A t \in Slots : /\ net[t].code # "unauthorized"
                              /\ Accepted(t)
                              /\ Moved(t) => Valid(net[t].grant)
          /\ (\A t \in Slots : ~Moved(t)) => Valid(stored)
      BY <3>2 DEF Untroubled, SignedInKept
    <3>4. \A t \in Slots : ~Moved(t)
      <4>1. ASSUME NEW t \in Slots, Moved(t) PROVE FALSE
        <5>1. t # slot /\ net'[t] = net[t] /\ net[t].kind \in Moves
          BY <1>2, <1>3, <4>1 DEF Moved, Moves
        <5>2. net'[slot].token # NoToken
          BY <1>3, <1>5, <3>2 DEF Wants
        <5>3. QED
          BY <1>2, <1>4, <5>1, <5>2 DEF Races
      <4>2. QED
        BY <4>1
    <3>5. Valid(stored) /\ Valid(stored)'
      BY <1>1, <3>3, <3>4 DEF Valid
    <3>6. ASSUME NEW t \in Slots
          PROVE  net'[t].code # "unauthorized" /\ Accepted(t)' /\ ~Moved(t)'
      <4>1. CASE t = slot
        <5>1. net'[t].code = "sent" /\ net'[t].token = stored'
          BY <1>1, <1>3, <4>1 DEF Wants
        <5>2. Valid(net[t].token)'
          BY <3>5, <5>1 DEF Valid
        <5>3. QED
          BY <5>1, <5>2 DEF Accepted, Moved
      <4>2. CASE t # slot
        <5>1. net'[t] = net[t] /\ sessions' = sessions
          BY <1>1, <1>3, <4>2
        <5>2. QED
          BY <3>3, <3>4, <5>1 DEF Accepted, Moved, Valid
      <4>3. QED
        BY <4>1, <4>2
    <3>7. QED
      BY <3>5, <3>6 DEF SignedInKept
  <2>2. CASE ~Seated'
    BY <2>2 DEF SignedInKept
  <2>3. QED
    BY <2>1, <2>2
<1>8. ASSUME NEW t \in Slots, net'[t].kind \in {"login", "signup"} PROVE Entering(t)'
  <2>1. user = NoOrg
    <3>1. CASE t = slot
      BY <1>3, <1>8, <3>1 DEF Wants
    <3>2. CASE t # slot
      BY <1>3, <1>8, <3>2 DEF Untroubled, Entering
    <3>3. QED
      BY <3>1, <3>2
  <2>2. \A x \in Slots : net[x].kind \notin {"login", "signup"}
    BY <2>1 DEF Wants, Busy
  <2>3. t = slot /\ \A x \in Slots : net'[x].kind \in {"login", "signup"} => x = slot
    BY <1>3, <1>8, <2>2
  <2>4. net'[t].code = "sent"
    BY <1>3, <2>3 DEF Wants
  <2>5. QED
    BY <1>1, <1>6, <2>1, <2>3, <2>4 DEF Entering
<1>9. ASSUME NEW t \in Slots, net'[t].kind = "createOrg" PROVE t \in ui'.waits
  <2>1. net'[t] = net[t] /\ net[t].kind = "createOrg"
    BY <1>3, <1>9 DEF Wants
  <2>2. t \in ui.waits
    BY <2>1 DEF Untroubled
  <2>3. OutletKey' = OutletKey
    BY <1>1 DEF OutletKey, View, Guarded, Permitted
  <2>4. QED
    BY <1>9, <2>2, <2>3, StillWaits
<1>10. ASSUME NEW t \in Slots
       PROVE  /\ net'[t].kind \notin Anonymous \cup {"idle"} => net'[t].token # NoToken
              /\ net'[t].kind \in AuthKinds \cup Moves => net'[t].code # "failed"
              /\ net'[t].kind \in {"status", "bootStatus", "idle"} => net'[t].code # "unauthorized"
              /\ net'[t].kind \in Moves \cup {"login", "signup"} /\ net'[t].code = "ok"
                    => net'[t].grant # NoToken
  <2>1. CASE t # slot
    BY <1>3, <2>1 DEF Untroubled
  <2>2. CASE t = slot
    BY <1>3, <1>5, <2>2 DEF Wants, Anonymous
  <2>3. QED
    BY <2>1, <2>2
<1>11. QED
  BY <1>1, <1>4, <1>5, <1>6, <1>7, <1>8, <1>9, <1>10 DEF Untroubled

LEMMA WantsKept ==
  ASSUME Tab, Kept, NEW q, Wants(q), Asks(q), Remounts
  PROVE  Kept'
<1>1. ~excused' => ~excused
  BY DEF Asks, Sends
<1>2. QED
  BY <1>1, WantsUntroubled DEF Kept

LEMMA OperatorSessionKept ==
  ASSUME Tab, Kept, OperatorSession \/ SwitchOrganization, Remounts
  PROVE  Kept'
<1>1. ASSUME NEW kind PROVE LET q == Request(kind, stored) IN
                            q.kind = kind /\ q.token = stored /\ q.code = "sent"
  BY DEF Request, Idle
<1>2. View \in {"page", "denied"} => user # NoOrg
  BY DEF View, Guarded
<1>3. View \in {"login", "signup"} => user = NoOrg /\ ~loading
  BY DEF View, Guarded
<1>4. CASE SubmitLogin
  <2> DEFINE q == Request(IF View = "login" THEN "login" ELSE "signup", stored)
  <2>1. /\ View \in {"login", "signup"} /\ ~Busy({"login", "signup"}) /\ Asks(q)
    BY <1>4 DEF SubmitLogin
  <2>2. q.kind \in {"login", "signup"} /\ q.token = stored /\ q.code = "sent"
    BY <1>1
  <2> HIDE DEF q
  <2>3. Wants(q)
    BY <1>3, <2>1, <2>2 DEF Wants
  <2>4. QED
    BY <2>1, <2>3, WantsKept
<1>5. CASE SwitchOrganization
  <2>1. PICK o \in Orgs \ (Unborn \cup {user}) : Asks([Request("switch", stored) EXCEPT !.to = o])
    BY <1>5 DEF SwitchOrganization
  <2> DEFINE q == [Request("switch", stored) EXCEPT !.to = o]
  <2>2. q.kind = "switch" /\ q.token = stored /\ q.code = "sent"
    BY DEF Request, Idle
  <2>3. Asks(q)
    BY <2>1
  <2> HIDE DEF q
  <2>4. user # NoOrg
    BY <1>2, <1>5 DEF SwitchOrganization
  <2>5. Wants(q)
    BY <2>2, <2>4 DEF Wants
  <2>6. QED
    BY <2>3, <2>5, WantsKept
<1>6. CASE SignOut \/ ChangePassword
  <2>1. PICK kind \in {"logout", "password"} : Asks(Request(kind, stored))
    BY <1>6 DEF SignOut, ChangePassword
  <2> DEFINE q == Request(kind, stored)
  <2>2. q.kind = kind /\ q.token = stored /\ q.code = "sent" /\ Asks(q)
    BY <1>1, <2>1
  <2> HIDE DEF q
  <2>3. user # NoOrg
    BY <1>2, <1>6 DEF SignOut, ChangePassword
  <2>4. Wants(q)
    BY <2>2, <2>3 DEF Wants
  <2>5. QED
    BY <2>2, <2>4, WantsKept
<1>7. QED
  BY <1>4, <1>5, <1>6 DEF OperatorSession

(* Every step leaves it so.                                                *)
LEMMA TakesAnswerKept ==
  ASSUME PanelInv, Tended, Kept, Kinds', NEW s \in Slots, TakesAnswer(s)
  PROVE  Kept'
<1>1. Tab /\ Conversation
  BY DEF PanelInv
<1>2. CASE PlaygroundAnswers(s)
  BY <1>1, <1>2, PlaygroundKept
<1>3. CASE Orphaned(s) \/ StreamDropped(s)
  <2>1. /\ net[s].kind \in PageKinds /\ s \notin ui.waits /\ net' = Drop(s)
        /\ Keeping(ui) /\ UNCHANGED excused
    BY <1>3 DEF Orphaned, StreamDropped, Aborted, PageKinds
  <2>2. QED
    BY <1>1, <2>1, DroppedKept
<1>4. CASE OrganizationCreated(s)
  BY <1>1, <1>4, OrganizationCreatedKept
<1>5. CASE \/ ModelsAnswers(s) \/ SourceLoaded(s) \/ ProvidersAnswers(s)
           \/ CustomersAnswers(s) \/ ApiKeysAnswers(s) \/ PlansAnswers(s)
           \/ ManagementKeysAnswers(s) \/ SettingsAnswers(s)
           \/ OrganizationsLoaded(s) \/ SummaryLoaded(s)
  <2>1. Took(s)
    BY <1>1, <1>5, ModelsAnswersTook, SourceLoadedTook, ProvidersAnswersTook,
       CustomersAnswersTook, ApiKeysAnswersTook, PlansAnswersTook, ManagementKeysAnswersTook,
       SettingsAnswersTook, OrganizationsLoadedTook, SummaryLoadedTook
  <2>2. QED
    BY <1>1, <2>1, TookKept
<1>6. QED
  BY <1>2, <1>3, <1>4, <1>5 DEF TakesAnswer

LEMMA OperatorKept ==
  ASSUME PanelInv, Tended, Kept, Kinds', Operator
  PROVE  Kept'
<1>1. Tab /\ Conversation
  BY DEF PanelInv
<1>2. CASE \/ ModelsPage \/ FetchDialog \/ ProvidersPage
           \/ CustomersPage \/ ApiKeysPage \/ PlansPage
           \/ ManagementKeysPage \/ SettingsPage \/ CreateOrganization \/ PickRange
  <2>1. Handles
    BY <1>1, <1>2, ModelsPageHandles, FetchDialogHandles, ProvidersPageHandles,
       CustomersPageHandles, ApiKeysPageHandles, PlansPageHandles, ManagementKeysPageHandles,
       SettingsPageHandles, CreateOrganizationHandles, PickRangeHandles
  <2>2. QED
    BY <1>1, <2>1, HandlesKept
<1>3. CASE PlaygroundPage
  BY <1>1, <1>3, PlaygroundKept
<1>4. CASE (IF Account THEN OperatorSession ELSE SwitchOrganization) /\ Remounts
  BY <1>1, <1>4, OperatorSessionKept
<1>5. QED
  BY <1>2, <1>3, <1>4 DEF Operator

LEMMA NextKept == ASSUME PanelInv, Tended, Kept, [Next]_vars1 PROVE Kept'
<1>1. Tab /\ Kinds'
  BY NextHolds DEF PanelInv, AtRest
<1>2. CASE \E s \in Slots : Serve(s)
  <2>1. PICK s \in Slots : Serve(s)
    BY <1>2
  <2>2. excused' = excused
    BY <2>1 DEF Serve, ServeSession, ServePage, session
  <2>3. ASSUME Untroubled PROVE Untroubled'
    BY <1>1, <2>1, <2>3, ServeSessionUntroubled, ServePageUntroubled DEF Serve
  <2>4. QED
    BY <2>2, <2>3 DEF Kept
<1>3. ASSUME NEW s \in Slots, Receive(s) PROVE Kept'
  BY <1>1, <1>3, ReadsSessionKept, TakesAnswerKept DEF Receive
<1>4. CASE MountPage
  BY <1>1, <1>4, MountsKept DEF MountPage
<1>5. CASE Operator
  BY <1>1, <1>5, OperatorKept
<1>6. CASE Elsewhere
  BY <1>6 DEF Elsewhere, OtherTab, Fails, Kept
<1>7. CASE UNCHANGED vars1
  <2>1. UNCHANGED <<sessions, stored, user, loading, needsSetup, excused, net, ui>>
    BY <1>7 DEF vars1, vars, session
  <2>2. PageStep
    BY <2>1 DEF PageStep, Untroubled
  <2>3. QED
    BY <2>2, PageStepKept
<1>8. QED
  BY <1>2, <1>3, <1>4, <1>5, <1>6, <1>7 DEF Next

LEMMA InitKept == ASSUME Init PROVE Kept /\ Tended
<1>1. chat = FreshChat
  BY DEF Init
<1>2. Tended
  BY <1>1 DEF Tended, Unended, FreshChat
<1>3. PICK sid \in Sids : sid = CHOOSE x \in Sids : TRUE
  BY PanelAssumption
<1>4. CASE Account
  <2> DEFINE kind == IF stored = NoToken THEN "bootStatus" ELSE "me"
             q == Request(kind, stored)
             n == [s \in Slots |-> Idle]
  <2>1. user = NoOrg /\ loading /\ net = Put(n, q)
    BY <1>4 DEF Init, InitSession
  <2>2. q.kind = kind /\ q.token = stored /\ q.code = "sent"
    BY DEF Request, Idle
  <2>3. \/ kind = "bootStatus" /\ stored = NoToken
        \/ kind = "me" /\ stored # NoToken
    OBVIOUS
  <2> HIDE DEF q, kind
  <2>4. \A s \in Slots : s # NextSlot(n) => net[s] = Idle
    BY <2>1 DEF Put
  <2>5. \A s \in Slots : net[s] = Idle \/ net[s] = q
    BY <2>1 DEF Put
  <2>6. \A s \in Slots : net[s] = q => \A t \in Slots : t # s => net[t].kind = "idle"
    <3>1. ASSUME NEW s \in Slots, net[s] = q PROVE s = NextSlot(n)
      BY <2>2, <2>3, <2>4, <3>1, IdleCarriesNothing
    <3>2. QED
      BY <2>4, <3>1, IdleCarriesNothing
  <2>7. ~Races(net)
    BY <2>2, <2>3, <2>5, IdleCarriesNothing DEF Races, Moves
  <2>8. ASSUME NEW s \in Slots, net[s] = q, kind = "me" PROVE Booting(s)
    BY <2>1, <2>2, <2>6, <2>8 DEF Booting
  <2>9. SignedInKept
    BY <2>1 DEF SignedInKept, Seated
  <2>10. ASSUME NEW s \in Slots
         PROVE  /\ net[s].kind \notin Anonymous \cup {"idle"} => net[s].token # NoToken
                /\ net[s].code = "sent" /\ net[s].kind \in {"idle", "me", "bootStatus"}
                /\ net[s].kind = "me" => Booting(s)
    <3>1. CASE net[s] = Idle
      BY <3>1, IdleCarriesNothing
    <3>2. CASE net[s] = q
      BY <2>2, <2>3, <2>8, <3>2 DEF Anonymous
    <3>3. QED
      BY <2>5, <3>1, <3>2
  <2>11. Untroubled
    BY <2>1, <2>7, <2>9, <2>10 DEF Untroubled
  <2>12. QED
    BY <1>2, <2>11 DEF Kept
<1>5. CASE ~Account
  <2>1. /\ sessions = [x \in Sids |-> IF x = sid THEN Home ELSE NoOrg]
        /\ stored = [sid |-> sid, org |-> Home] /\ user = Home /\ loading = FALSE
        /\ needsSetup = "no" /\ \A s \in Slots : net[s] = Idle
    BY <1>3, <1>5 DEF Init, SignedInAlready
  <2>2. Valid(stored) /\ stored # NoToken
    <3>1. sessions[sid] = Home /\ stored.sid = sid /\ stored.org = Home
      BY <1>3, <2>1
    <3>2. Home # NoOrg /\ NoToken.org = NoOrg
      BY PanelAssumption DEF NoToken
    <3>3. QED
      BY <1>3, <3>1, <3>2 DEF Valid
  <2>3. SignedInKept
    BY <2>1, <2>2, IdleCarriesNothing DEF SignedInKept, Accepted, Moved
  <2>4. Untroubled
    BY <2>1, <2>2, <2>3, IdleCarriesNothing DEF Untroubled, Races, Moves, AuthKinds
  <2>5. QED
    BY <1>2, <2>4 DEF Kept
<1>6. QED
  BY <1>4, <1>5

(* Only an answer that the session reads changes who is signed in.         *)
LEMMA UserStays ==
  ASSUME Tab, [Next]_vars1, \A s \in Slots : ~ReadsSessionAnswer(s)
  PROVE  user' = user
<1>1. \A u : Keeping(u) => user' = user
  BY DEF Keeping
<1>2. ASSUME Handles PROVE user' = user
  BY <1>1, <1>2 DEF Handles, Shows, Asking
<1>3. ASSUME NEW s \in Slots, Took(s) PROVE user' = user
  BY <1>1, <1>3 DEF Took, Takes, TakesAndLoads
<1>4. ASSUME NEW s \in Slots, Serve(s) PROVE user' = user
  BY <1>4 DEF Serve, ServeSession, ServePage, session
<1>5. ASSUME NEW s \in Slots, TakesAnswer(s) PROVE user' = user
  <2>1. CASE PlaygroundAnswers(s)
    BY <1>1, <2>1 DEF PlaygroundAnswers, PlaygroundLoaded, StreamEnded, Takes
  <2>2. CASE Orphaned(s) \/ StreamDropped(s) \/ OrganizationCreated(s)
    BY <1>1, <2>2 DEF Orphaned, StreamDropped, OrganizationCreated
  <2>3. CASE \/ ModelsAnswers(s) \/ SourceLoaded(s) \/ ProvidersAnswers(s)
             \/ CustomersAnswers(s) \/ ApiKeysAnswers(s) \/ PlansAnswers(s)
             \/ ManagementKeysAnswers(s) \/ SettingsAnswers(s)
             \/ OrganizationsLoaded(s) \/ SummaryLoaded(s)
    BY <1>3, <2>3, ModelsAnswersTook, SourceLoadedTook, ProvidersAnswersTook,
       CustomersAnswersTook, ApiKeysAnswersTook, PlansAnswersTook, ManagementKeysAnswersTook,
       SettingsAnswersTook, OrganizationsLoadedTook, SummaryLoadedTook
  <2>4. QED
    BY <1>5, <2>1, <2>2, <2>3 DEF TakesAnswer
<1>6. CASE MountPage
  BY <1>1, <1>6 DEF MountPage, Mounts
<1>7. CASE \/ ModelsPage \/ FetchDialog \/ ProvidersPage
           \/ CustomersPage \/ ApiKeysPage \/ PlansPage
           \/ ManagementKeysPage \/ SettingsPage \/ CreateOrganization \/ PickRange
  BY <1>2, <1>7, ModelsPageHandles, FetchDialogHandles, ProvidersPageHandles,
     CustomersPageHandles, ApiKeysPageHandles, PlansPageHandles, ManagementKeysPageHandles,
     SettingsPageHandles, CreateOrganizationHandles, PickRangeHandles
<1>8. CASE PlaygroundPage
  BY <1>1, <1>8 DEF PlaygroundPage, PickModels, ClearConversation, Send, StopStream,
                    Conversing, Shows
<1>9. CASE OperatorSession \/ SwitchOrganization
  BY <1>9 DEF OperatorSession, SubmitLogin, SwitchOrganization, SignOut, ChangePassword, Asks
<1>10. CASE Elsewhere
  BY <1>10 DEF Elsewhere, OtherTab, Fails
<1>11. CASE UNCHANGED vars1
  BY <1>11 DEF vars1, vars, session
<1>12. QED
  BY <1>4, <1>5, <1>6, <1>7, <1>8, <1>9, <1>10, <1>11 DEF Next, Receive, Operator

(* Whoever loses their place had asked for it, or had a reason.            *)
LEMMA OnlyThenOut ==
  ASSUME PanelInv, Kept, [Next]_vars1, user # NoOrg, user' = NoOrg
  PROVE  excused \/ Busy({"logout", "password"})
<1> SUFFICES ASSUME ~excused, ~Busy({"logout", "password"}) PROVE FALSE
  OBVIOUS
<1>1. Untroubled /\ SignedInKept /\ Seated /\ Tab
  BY DEF Kept, Untroubled, Seated, PanelInv
<1>2. \A s \in Slots : /\ net[s].code # "unauthorized"
                       /\ net[s].kind \notin {"logout", "password", "me", "login", "signup"}
  BY <1>1 DEF SignedInKept, Busy, Untroubled, Booting, Entering
<1>3. PICK s \in Slots : ReadsSessionAnswer(s)
  BY <1>1, UserStays
<1>4. ~LoggedOut(s) /\ ~PasswordChanged(s) /\ ~Bootstrapped(s) /\ ~SignedIn(s) /\ ~Invalidated(s)
  BY <1>2 DEF LoggedOut, PasswordChanged, Bootstrapped, SignedIn, Invalidated, Reads
<1>5. ~StatusKnown(s)
  BY DEF StatusKnown
<1>6. Switched(s)
  BY <1>3, <1>4, <1>5 DEF ReadsSessionAnswer, ReadsSession
<1>7. net[s].code = "ok" /\ net[s].grant # NoToken /\ user' = net[s].grant.org
  BY <1>1, <1>6 DEF Switched, Reads, Untroubled, AuthKinds, Moves
<1>8. net[s].grant.org \in Orgs
  BY <1>1, <1>7 DEF Tab, Requests, OfRequests, IsRequest, IsToken
<1>9. QED
  BY <1>7, <1>8, PanelAssumption

-----------------------------------------------------------------------------
(* The theorems.                                                           *)
(* The invariant holds in every run of the tab, whatever the number of its *)
(* organizations, sessions, requests in flight, rows and steps.            *)
THEOREM PanelInvariant == Spec => []PanelInv
<1>1. Init => PanelInv
  BY InitHolds
<1>2. PanelInv /\ [Next]_vars1 => PanelInv'
  BY NextHolds
<1>3. QED
  BY <1>1, <1>2, PTL DEF Spec

(* After a switch nothing on the page is of the organization before it:    *)
(* the key of Outlet in Layout mounts the page again, and its answers find *)
(* nobody.                                                                 *)
THEOREM NothingIsLeftOver == Spec => []NothingOutlivesItsOrg
<1>1. PanelInv => NothingOutlivesItsOrg
  BY DEF PanelInv, Tab, Mounted, NothingOutlivesItsOrg
<1>2. QED
  BY <1>1, PanelInvariant, PTL

(* A form belongs to its row, the rows to the filter they stand under (one *)
(* that was created too, unless requests overlapped) and the replies to    *)
(* their prompt, and no save blanks what a form cannot show at all         *)
(* (buildModelPayload; onSubmit of providers; onCreate of keys; send).     *)
THEOREM PageIsWhole == Spec => []PageBelongsTogether
<1>1. PanelInv => TypeOK
  <2>1. ASSUME PanelInv PROVE TypeOK
    <3>1. Tab
      BY <2>1 DEF PanelInv
    <3>2. /\ sessions \in [Sids -> Orgs \cup {NoOrg}] /\ setup \in BOOLEAN
          /\ user \in Orgs \cup {NoOrg} /\ loading \in BOOLEAN
          /\ needsSetup \in {"unknown", "yes", "no"} /\ excused \in BOOLEAN
          /\ stored = NoToken \/ (stored.sid \in Sids /\ stored.org \in Orgs)
      BY <3>1 DEF Tab, Stores, IsToken
    <3>3. doc \in Table /\ ui.rows \in Table
      BY <3>1 DEF Tab, Stores, Whole
    <3>4. Live \subseteq Doc
      BY DEF Live, Doc
    <3>5. doc \in [Items -> Doc] /\ ui.rows \in [Items -> Doc]
      BY <3>3, <3>4 DEF Table
    <3>6. \A s \in Slots : net[s].kind \in {"idle"} \cup AuthKinds \cup PageKinds
      BY <3>1 DEF Tab, Requests, OfRequests, IsRequest
    <3>7. \A s \in ui.waits : net[s].kind \in PageKinds \cup {"switch"}
      BY <3>1 DEF Tab, Waits, Awaited
    <3>8. QED
      BY <3>2, <3>5, <3>6, <3>7 DEF TypeOK
  <2>2. QED
    BY <2>1
<1>2. PanelInv /\ Joined => FormOfItsRow /\ RowsOfSelection
  BY DEF PanelInv, Tab, Whole, Joined, FormOfItsRow, RowsOfSelection
<1>3. PanelInv => UnseenSurvives
  BY DEF PanelInv, Tab, Stores, Table, Live, UnseenSurvives
<1>4. PanelInv => RepliesFollowPrompt
  BY DEF PanelInv, Conversation
<1>5. PanelInv /\ Joined => PageBelongsTogether
  BY <1>1, <1>2, <1>3, <1>4 DEF PageBelongsTogether
<1>6. Init => PanelInv /\ Joined
  <2>1. ASSUME Init PROVE Joined
    <3>1. ui = FreshUi
      BY <2>1 DEF Init
    <3>2. "made" \in DOMAIN ui /\ ui.made = {} /\ ui.waits = {}
      BY <3>1, FreshJoined
    <3>3. QED
      BY <3>2 DEF Joined
  <2>2. QED
    BY <2>1, InitHolds
<1>7. PanelInv /\ Joined /\ [Next]_vars1 => (PanelInv /\ Joined)'
  BY NextHolds, NextJoined
<1>8. QED
  BY <1>5, <1>6, <1>7, PTL DEF Spec

(* A page whose requests are answered, and never overlapped, shows what    *)
(* the server holds, and edits the routing the model has.                  *)
THEOREM QuietIsCurrent == Spec => []QuietPageIsCurrent
<1>1. ASSUME PanelInv, Quiet PROVE Settled(ui) \/ (~Editors /\ Current(ui.rows))
  <2>1. Tab /\ AtRest
    BY <1>1 DEF PanelInv
  <2>2. Clean
    BY <1>1 DEF Quiet, Clean
  <2>3. CASE Editors
    <3>1. ui.waits \subseteq Slots /\ \A s \in ui.waits : net[s].kind \in PageKinds
      BY <2>1, <2>3 DEF Tab, Waits, Awaited, Editors
    <3>2. ui.waits = {}
      BY <1>1, <3>1 DEF Quiet, PageBusy
    <3>3. QED
      BY <2>1, <2>2, <2>3, <3>2 DEF AtRest, Rest
  <2>4. CASE ~Editors
    BY <2>1, <2>4 DEF AtRest, Rest
  <2>5. QED
    BY <2>3, <2>4
<1>2. PanelInv => QuietPageIsCurrent
  BY <1>1 DEF QuietPageIsCurrent, Settled, Current, Routed, Editors
<1>3. QED
  BY <1>2, PanelInvariant, PTL

(* Whoever is signed in stays so: no order of switching, of creating       *)
(* organizations and of answers loses a session that nobody ended and      *)
(* nothing excuses (AuthContext: setToken before the next call).           *)
THEOREM SessionIsKept == Spec => SessionKept
<1>1. Init => PanelInv /\ Kept /\ Tended
  BY InitHolds, InitKept
<1>2. PanelInv /\ Kept /\ Tended /\ [Next]_vars1 => (PanelInv /\ Kept /\ Tended)'
  BY NextHolds, NextKept, NextTended
<1>3. PanelInv /\ Kept /\ [Next]_vars1 =>
        [(user # NoOrg /\ user' = NoOrg) => excused \/ Busy({"logout", "password"})]_vars1
  BY OnlyThenOut
<1>4. QED
  BY <1>1, <1>2, <1>3, PTL DEF Spec, SessionKept

=============================================================================
