------------------------------ MODULE Catalog ------------------------------
(***************************************************************************)
(* The providers of one organization, what was discovered at them, and the *)
(* models whose entries refer to them.                                     *)
(*   domains/{providers,models}/operations.ts, routes/{providers,models}.ts*)
(*   infrastructure/mongo/repositories/live.ts                             *)
(* A reference is checked when it is written and when its provider is      *)
(* deleted, by reads outside of any transaction.                           *)
(***************************************************************************)
EXTENDS AdminRequests, Sequences, Places

CONSTANTS
    ProviderIds, ModelIds, Aliases,
    EntryIds,       \* ids of entries, given by the client or drawn
    Upstreams,      \* models of the upstream
    EntryInputs,    \* sequences of [id, provider, priority] that bodies may hold
    Reorders,       \* functions from entry ids to priorities that bodies may hold
    Priorities,     \* the priorities a client may give
    NoId,           \* the client leaves the id to the server
    NoPriority      \* and the priority

EntryInput == [id : EntryIds \cup {NoId}, provider : ProviderIds,
               priority : Priorities \cup {NoPriority}]

ASSUME CatalogAssumption ==
    /\ Priorities \subseteq Nat
    /\ EntryInputs \subseteq Seq(EntryInput) \ {<<>>}
    /\ \A to \in Reorders : DOMAIN to \subseteq EntryIds /\ to \in [DOMAIN to -> Priorities]

VARIABLES
    providers,      \* providers[p]
    modelCatalog,   \* rows [provider, upstream, raced]
    models          \* models[m]

catalogVars == <<providers, modelCatalog, models>>

AbsentProvider == [status |-> "none", active |-> FALSE, raced |-> FALSE]
AbsentModel == [status |-> "none", alias |-> NoId, entries |-> <<>>, active |-> FALSE,
                repeated |-> FALSE, raced |-> FALSE]

There(p) == providers[p].status = "present"
Stored(m) == models[m].status = "present"
Unused(docs) == CHOOSE d \in DOMAIN docs : docs[d].status = "none"
Input(r) == req[r].body

-----------------------------------------------------------------------------
ProviderRoutes ==
    [op \in {"createProvider", "updateProvider", "deleteProvider", "discoverModels"}
        |-> "providers:write"]
ModelWrites ==
    [op \in {"createModel", "updateModel", "deleteModel", "reorderFallbacks",
             "addModelEntry", "removeModelEntry"} |-> "models:write"]
ModelReads == [op \in {"listModels"} |-> "models:read"]

CatalogRoutes ==
    [op \in DOMAIN ProviderRoutes \cup DOMAIN ModelWrites \cup DOMAIN ModelReads |->
        CASE op \in DOMAIN ProviderRoutes -> ProviderRoutes[op]
          [] op \in DOMAIN ModelWrites -> ModelWrites[op]
          [] op \in DOMAIN ModelReads -> ModelReads[op]]

CatalogGates == [panel |-> CatalogRoutes, management |-> ModelReads]

ModelUpdateInput ==
    [model : ModelIds, patch : {"entries"}, to : EntryInputs]
    \cup [model : ModelIds, patch : {"alias"}, to : Aliases]
    \cup [model : ModelIds, patch : {"active"}, to : BOOLEAN]

(* priorityMap: of two priorities for one id the last counts.              *)
FallbackReorderInput == [model : ModelIds, to : Reorders]

CatalogBodies ==
    [op \in DOMAIN CatalogRoutes |->
        CASE op \in {"createProvider", "listModels"} -> {NoId}
          [] op = "updateProvider" -> [provider : ProviderIds, active : BOOLEAN]
          [] op \in {"deleteProvider", "discoverModels"} -> [provider : ProviderIds]
          [] op = "createModel" -> [alias : Aliases, entries : EntryInputs]
          [] op = "updateModel" -> ModelUpdateInput
          [] op = "deleteModel" -> [model : ModelIds]
          [] op = "reorderFallbacks" -> FallbackReorderInput
          [] op = "addModelEntry" -> [model : ModelIds, entries : EntryInputs]
          [] op = "removeModelEntry" -> [model : ModelIds, id : EntryIds]]

CatalogArrive(r) ==
    /\ Arrive(r, CatalogGates, CatalogBodies)
    /\ UNCHANGED catalogVars

-----------------------------------------------------------------------------
(* Entries are kept in the order of their priorities, those of one         *)
(* priority in the order they came in.                                     *)
Before(s, i, j) ==
    s[i].priority < s[j].priority \/ (s[i].priority = s[j].priority /\ i <= j)

\* Mutant: entries stay as they come.
Unsorted(s) == s

SortEntries(s) ==
    LET place(n) == Cardinality({m \in DOMAIN s : Before(s, m, n)})
    IN  [k \in DOMAIN s |-> s[CHOOSE n \in DOMAIN s : place(n) = k]]

Ids(s) == {s[n].id : n \in DOMAIN s}
Repeats(s) == Cardinality(Ids(s)) < Len(s)

(* randomToken draws an id that nothing has; one the client gives is taken *)
(* as it is, and so is a priority: the others go by the place in the list. *)
IdsInUse == UNION {Ids(models[m].entries) : m \in ModelIds}

Draws(input) ==
    {draw \in [DOMAIN input -> EntryIds \ (IdsInUse \cup Ids(input))] :
        \A i, j \in DOMAIN input : draw[i] = draw[j] => i = j}

NormalizeEntries(input, from) ==
    LET drawn == CHOOSE draw \in Draws(input) : TRUE
    IN  SortEntries([n \in DOMAIN input |->
            [id |-> IF input[n].id = NoId THEN drawn[n] ELSE input[n].id,
             provider |-> input[n].provider,
             priority |-> IF input[n].priority = NoPriority THEN from + n - 1
                          ELSE input[n].priority]])

-----------------------------------------------------------------------------
(* Providers.                                                              *)
CreateProvider(r) ==
    /\ At(r, "createProvider", "start") /\ \E p \in ProviderIds : providers[p].status = "none"
    /\ providers' = [providers EXCEPT ![Unused(providers)] =
            [status |-> "present", active |-> TRUE, raced |-> FALSE]]
    /\ Answers(r, FALSE)
    /\ UNCHANGED <<modelCatalog, models>>

UpdateProvider(r) ==
    /\ At(r, "updateProvider", "start")
    /\ IF There(Input(r).provider)
       THEN /\ providers' = [providers EXCEPT ![Input(r).provider].active = Input(r).active]
            /\ Answers(r, FALSE)
       ELSE Refuses(r) /\ UNCHANGED providers
    /\ UNCHANGED <<modelCatalog, models>>

(* countModelRefs: the models an entry of which names the provider.        *)
\* Mutant: the first entry is the only one that counts.
FirstRefs(p) ==
    {m \in ModelIds : Stored(m) /\ models[m].entries # <<>> /\ models[m].entries[1].provider = p}

ModelRefs(p) ==
    {m \in ModelIds : Stored(m) /\ \E n \in DOMAIN models[m].entries :
                                        models[m].entries[n].provider = p}

(* deleteWithCatalog: its rows go first, so that none is left without it.  *)
DeleteRows(p) == modelCatalog' = {row \in modelCatalog : row.provider # p}

DeleteProvider(r) ==
    LET p == Input(r).provider IN
    \/ /\ At(r, "deleteProvider", "start")
       /\ IF There(p) THEN Reads(r, "count", <<>>) ELSE Refuses(r)
       /\ UNCHANGED <<providers, modelCatalog>>
    \/ /\ At(r, "deleteProvider", "count")
       /\ IF ModelRefs(p) = {} THEN Reads(r, "rows", <<>>) ELSE Refuses(r)
       /\ UNCHANGED <<providers, modelCatalog>>
    \/ /\ At(r, "deleteProvider", "rows")
       /\ DeleteRows(p)
       /\ Wrote(r, [req[r] EXCEPT !.at = "delete"])
       /\ UNCHANGED providers
    \/ /\ At(r, "deleteProvider", "delete")
       /\ IF There(p)
          THEN /\ providers' = [providers EXCEPT ![p] =
                    [status |-> "deleted", active |-> @.active, raced |-> req[r].raced]]
               /\ Answers(r, FALSE)
          ELSE Refuses(r) /\ UNCHANGED providers
       /\ UNCHANGED modelCatalog

DeletesProvider(r) == DeleteProvider(r) /\ UNCHANGED models

(* discoverProviderModels: the upstream is asked in between. What it lists *)
(* is upserted, and what it lists no more stays.                           *)
UpsertCatalog(r, found) ==
    modelCatalog' = modelCatalog \cup
        {[provider |-> Input(r).provider, upstream |-> u, raced |-> req[r].raced] :
            u \in {u \in found : ~\E row \in modelCatalog :
                                    row.provider = Input(r).provider /\ row.upstream = u}}

DiscoverModels(r) ==
    /\ \/ /\ At(r, "discoverModels", "start")
          /\ IF There(Input(r).provider) THEN Reads(r, "upstream", <<>>) ELSE Refuses(r)
          /\ UNCHANGED modelCatalog
       \/ /\ At(r, "discoverModels", "upstream")
          /\ \E found \in SUBSET Upstreams : UpsertCatalog(r, found)
          /\ Answers(r, FALSE)
    /\ UNCHANGED <<providers, models>>

-----------------------------------------------------------------------------
(* Models. countProviders, over the providers that the entries name.       *)
Named(entries) == {entries[n].provider : n \in DOMAIN entries}

ProvidersExist(entries) == \A p \in Named(entries) : There(p)

AliasTaken(alias, m) == \E n \in ModelIds \ {m} : Stored(n) /\ models[n].alias = alias

(* A document with no entries is one that the schema of its reads refuses. *)
Readable(m) == Stored(m) /\ models[m].entries # <<>>

ListModels(r) ==
    /\ At(r, "listModels", "start")
    /\ IF \A m \in ModelIds : Stored(m) => Readable(m)
       THEN req' = [req EXCEPT ![r] = Answer("ok", FALSE)] ELSE Refuses(r)
    /\ UNCHANGED catalogVars

CreateModel(r) ==
    \/ /\ At(r, "createModel", "start")
       /\ IF ProvidersExist(Input(r).entries) THEN Reads(r, "insert", <<>>) ELSE Refuses(r)
       /\ UNCHANGED models
    \/ /\ At(r, "createModel", "insert") /\ \E m \in ModelIds : models[m].status = "none"
       /\ Draws(Input(r).entries) # {}
       /\ IF AliasTaken(Input(r).alias, NoId)
          THEN Refuses(r) /\ UNCHANGED models
          ELSE /\ LET entries == NormalizeEntries(Input(r).entries, 0) IN
                  models' = [models EXCEPT ![Unused(models)] =
                    [status |-> "present", alias |-> Input(r).alias, entries |-> entries,
                     active |-> TRUE, repeated |-> Repeats(entries), raced |-> req[r].raced]]
               /\ Answers(r, FALSE)

(* findById, for the operations that read the model first.                 *)
FindModel(r) ==
    /\ req[r].at = "start"
    /\ req[r].op \in {"updateModel", "reorderFallbacks", "addModelEntry", "removeModelEntry"}
    /\ LET m == Input(r).model
       IN  IF Readable(m)
           THEN Reads(r, "check", [existing |-> models[m].entries])
           ELSE Refuses(r)
    /\ UNCHANGED catalogVars

Reordered(r) ==
    SortEntries([n \in DOMAIN req[r].existing |->
        IF req[r].existing[n].id \in DOMAIN Input(r).to
        THEN [req[r].existing[n] EXCEPT !.priority = Input(r).to[req[r].existing[n].id]]
        ELSE req[r].existing[n]])

NextPriority(entries) ==
    IF entries = <<>> THEN 0
    ELSE 1 + CHOOSE k \in {entries[n].priority : n \in DOMAIN entries} :
                \A n \in DOMAIN entries : entries[n].priority <= k

WithEntry(r) ==
    SortEntries(req[r].existing
        \o NormalizeEntries(Input(r).entries, NextPriority(req[r].existing)))

WithoutEntry(r) ==
    AtPlaces(req[r].existing, {n \in DOMAIN req[r].existing : req[r].existing[n].id # Input(r).id})

(* What the checks let through, from what was read of the model.           *)
MayRemove(r) == Len(req[r].existing) > 1 /\ Input(r).id \in Ids(req[r].existing)

Admissible(r) ==
    CASE req[r].op = "updateModel" ->
            Input(r).patch = "entries" => ProvidersExist(Input(r).to)
      [] req[r].op = "reorderFallbacks" -> DOMAIN Input(r).to \subseteq Ids(req[r].existing)
      [] req[r].op = "addModelEntry" ->
            Len(Input(r).entries) = 1 /\ ProvidersExist(Input(r).entries)
      [] req[r].op = "removeModelEntry" -> MayRemove(r)

CheckEntries(r) ==
    /\ req[r].at = "check"
    /\ IF Admissible(r) THEN Reads(r, "write", <<>>) ELSE Refuses(r)
    /\ UNCHANGED catalogVars

(* setEntries, or the patch: the whole list is written, from what was read.*)
NewEntries(r) ==
    CASE req[r].op = "updateModel" -> NormalizeEntries(Input(r).to, 0)
      [] req[r].op = "reorderFallbacks" -> Reordered(r)
      [] req[r].op = "addModelEntry" -> WithEntry(r)
      [] req[r].op = "removeModelEntry" -> WithoutEntry(r)

(* Bound: a body that leaves ids to the server finds enough of them.       *)
IdsLeft(r) ==
    /\ req[r].op = "updateModel" /\ Input(r).patch = "entries" => Draws(Input(r).to) # {}
    /\ req[r].op = "addModelEntry" => Draws(Input(r).entries) # {}

SetEntries(m, entries, raced) ==
    models' = [models EXCEPT ![m] =
        [status |-> @.status, alias |-> @.alias, active |-> @.active, entries |-> entries,
         repeated |-> @.repeated \/ Repeats(entries), raced |-> @.raced \/ raced]]

UpdateModel(r) ==
    /\ req[r].at = "write" /\ IdsLeft(r)
    /\ LET m == Input(r).model
           entries == NewEntries(r)
       IN  IF ~Stored(m)
           THEN Refuses(r) /\ UNCHANGED models
           ELSE IF req[r].op = "updateModel" /\ Input(r).patch = "alias"
           THEN IF AliasTaken(Input(r).to, m)
                THEN Refuses(r) /\ UNCHANGED models
                ELSE /\ models' = [models EXCEPT ![m].alias = Input(r).to]
                     /\ Answers(r, FALSE)
           ELSE IF req[r].op = "updateModel" /\ Input(r).patch = "active"
           THEN /\ models' = [models EXCEPT ![m].active = Input(r).to]
                /\ Answers(r, FALSE)
           ELSE /\ SetEntries(m, entries, req[r].raced)
                /\ Answers(r, FALSE)

DeleteModel(r) ==
    /\ At(r, "deleteModel", "start")
    /\ IF Stored(Input(r).model)
       THEN /\ models' = [models EXCEPT ![Input(r).model].status = "deleted"]
            /\ Answers(r, FALSE)
       ELSE Refuses(r) /\ UNCHANGED models

ChangesModel(r) ==
    /\ CreateModel(r) \/ UpdateModel(r) \/ DeleteModel(r)
    /\ UNCHANGED <<providers, modelCatalog>>

-----------------------------------------------------------------------------
InitCatalog ==
    /\ providers = [p \in ProviderIds |-> AbsentProvider]
    /\ modelCatalog = {}
    /\ models = [m \in ModelIds |-> AbsentModel]

CatalogStep(r) ==
    \/ CatalogArrive(r) \/ CreateProvider(r) \/ UpdateProvider(r) \/ DeletesProvider(r)
    \/ DiscoverModels(r) \/ ListModels(r) \/ FindModel(r) \/ CheckEntries(r)
    \/ ChangesModel(r)

-----------------------------------------------------------------------------
CatalogTypeOK ==
    /\ \A p \in ProviderIds : providers[p].status \in {"none", "present", "deleted"}
    /\ \A row \in modelCatalog : row.provider \in ProviderIds /\ row.upstream \in Upstreams
    /\ \A m \in ModelIds :
        /\ models[m].status \in {"none", "present", "deleted"}
        /\ \A n \in DOMAIN models[m].entries :
            /\ models[m].entries[n].id \in EntryIds
            /\ models[m].entries[n].provider \in ProviderIds
            /\ models[m].entries[n].priority \in Nat

(* An entry names a provider that is there, unless the entry was written,  *)
(* or the provider deleted, by a request that another one got in between.  *)
EntriesResolve ==
    \A m \in ModelIds : Stored(m) =>
        \A p \in Named(models[m].entries) :
            There(p) \/ providers[p].raced \/ models[m].raced

(* What was discovered at a provider goes with it, at every step, unless   *)
(* its upstream answered while it was being deleted.                       *)
CatalogOwned ==
    \A row \in modelCatalog :
        There(row.provider) \/ row.raced \/ providers[row.provider].raced

(* Fallbacks are in the order of their priorities after every write.       *)
FallbacksInOrder ==
    \A m \in ModelIds : \A n \in 2..Len(models[m].entries) :
        models[m].entries[n - 1].priority <= models[m].entries[n].priority

(* However many entries are removed at once, one is left, unless entries   *)
(* of the model shared an id.                                              *)
DistinctEntriesRemain ==
    \A m \in ModelIds : Stored(m) => Readable(m) \/ models[m].repeated
=============================================================================
