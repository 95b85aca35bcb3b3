----------------------------- MODULE Generation -----------------------------
(***************************************************************************)
(* A call from its admission to its settlement: entries of the model tried *)
(* in order, the stream of a provider passed to the client, the lifecycle  *)
(* that is kept of it, and how the call is finalized.                      *)
(*   domains/providers/{selection,stream-lifecycle,generation}.ts,         *)
(*   providers/{openai,anthropic}-compatible.ts, routes/public, playground *)
(*                                                                         *)
(* Here the provider and the client are the environment; Settlement has    *)
(* the same call with the provider as one step. One event of a provider's  *)
(* stream is handled by adapter, selection, session and route without an   *)
(* await in between, so it is one action.                                  *)
(***************************************************************************)
EXTENDS Charges, ProviderErrors, FiniteSets, SequencesExt

CONSTANTS
    Sessions,     \* calls in progress
    CallKinds,    \* [stream, surface, actor]
    Model,        \* [price, entries]; entries in the order of the document
    Reports,      \* raw usage objects that providers send
    PromptTokens, \* estimatePromptTokens of the request
    CompletionCap \* resolveCompletionCap of the request

NoEntry == 0
Indexes == DOMAIN Model.entries

ASSUME GenerationAssumption ==
    /\ IsFiniteSet(Indexes) /\ Indexes \subseteq Nat \ {NoEntry}
    /\ Model.price \in ScheduleType
    /\ \A i \in Indexes : /\ Model.entries[i].priority \in Nat
                          /\ Model.entries[i].price \in ScheduleType \cup {NoSchedule}
    /\ CallKinds \subseteq [stream : BOOLEAN,
                            surface : {"openai", "anthropic", "playground"},
                            actor : {"customer", "attributed", "internal"}]
    /\ PromptTokens \in Nat
    /\ CompletionCap \in Nat

VARIABLES
    call,       \* call[s]: what kind of call s is
    inactive,   \* entries whose provider was deactivated or deleted
    pc,         \* pc[s]: where the call is
    client,     \* client[s]: "here", "cancelled" (the stream) or "aborted"
    at,         \* at[s]: which of the selected entries is in hand
    adapter,    \* adapter[s]: the state of streamChat over one body
    lifecycle,  \* lifecycle[s]: StreamLifecycleState
    active,     \* active[s]: activeEntry of the route
    usage,      \* usage[s]: StreamUsageAccumulator
    sent,       \* sent[s]: what the client has been sent
    outcome,    \* outcome[s]: what finalize made of it
    accepted    \* accepted[s]: entries whose provider took the call (history)

vars == <<call, inactive, pc, client, at, adapter, lifecycle, active, usage, sent,
          outcome, accepted>>

-----------------------------------------------------------------------------
(* selectActiveEntries: active entries by priority, then as they stand. A  *)
(* stable sort puts an entry after all those that come before it.          *)
ActiveEntries == {i \in Indexes : Model.entries[i].active}

Before(i, j) ==
    \/ Model.entries[i].priority < Model.entries[j].priority
    \/ Model.entries[i].priority = Model.entries[j].priority /\ i < j

Earlier(i) == Cardinality({j \in ActiveEntries : Before(j, i)})

Selected == [k \in 1 .. Cardinality(ActiveEntries) |->
                CHOOSE i \in ActiveEntries : Earlier(i) = k - 1]

EntryOf(s) == Selected[at[s]]
TypeOfEntry(s) == Model.entries[EntryOf(s)].sdkType

(* mergeAbortTimeout is given a timeout: the signal of fetch is then its   *)
(* own, and dispose() cuts it off from the client's once headers are in.   *)
HasTimeout(s) == Model.entries[EntryOf(s)].timeout

\* Mutant: the client's signal is not merged with the timer's.
AbortIsLost(s) ==
    /\ client[s] = "aborted"
    /\ pc[s] \in {"headers", "body"}
    /\ FALSE

(* The client's abort reaches the request or the body that is awaited.     *)
AbortReaches(s) ==
    /\ client[s] = "aborted"
    /\ pc[s] = "headers" \/ (pc[s] = "body" /\ ~HasTimeout(s))

FreshAdapter == [usage |-> "none", report |-> NoUsage, malformed |-> FALSE,
                 stopped |-> FALSE, committed |-> FALSE]
EmptyStreamUsage == [complete |-> FALSE, report |-> NoUsage]
NothingSent == [deltas |-> {}, errors |-> 0, dones |-> 0]

-----------------------------------------------------------------------------
(* transitionStream: the ends of a stream accept nothing any more. A       *)
(* settlement_failed and a usage_missing event are never sent.             *)
PreCommit == [tag |-> "pre_commit"]
Over(state) == state.tag \notin {"pre_commit", "committed"}

Transition(state, event) ==
    IF Over(state) THEN state ELSE
    CASE event.type = "delta" ->
            IF state.tag = "committed" THEN state
            ELSE [tag |-> "committed", entry |-> event.entry]
      [] event.type = "done" ->
            [tag |-> "terminal",
             entry |-> IF state.tag = "committed" THEN state.entry ELSE event.entry,
             complete |-> event.complete]
      [] event.type = "interrupt" ->
            [tag |-> "interrupted", committed |-> state.tag = "committed"]
      [] event.type = "provider_error" ->
            [tag |-> "provider_failed", committed |-> state.tag = "committed"]

Note(s, event) == lifecycle' = [lifecycle EXCEPT ![s] = Transition(@, event)]

DeltaEvent(s) == [type |-> "delta", entry |-> EntryOf(s)]
DoneEvent(s, ok) == [type |-> "done", entry |-> EntryOf(s), complete |-> ok]
InterruptEvent == [type |-> "interrupt"]
ErrorEvent == [type |-> "provider_error"]

(* enqueueTerminalError, enqueueAppError: one error at most.               *)
WithError(s, out) == IF out.errors > 0 THEN out ELSE [out EXCEPT !.errors = @ + 1]

(* What follows the loop: the closing chunk of a complete stream, or an    *)
(* error that says it was cut off.                                         *)
Closing(s, out, complete) ==
    IF complete THEN [out EXCEPT !.dones = @ + 1] ELSE WithError(s, out)

Failing(s) == Closing(s, WithError(s, sent[s]), usage[s].complete)

Ends(s) == pc' = [pc EXCEPT ![s] = "finalize"]

-----------------------------------------------------------------------------
(* The events of selection.ts as the session and the route handle them.    *)
(* A client that is gone is noticed first: nothing is noted or sent.       *)
LeavesQuietly(s) ==
    /\ client[s] # "here"
    /\ Ends(s)
    /\ Note(s, InterruptEvent)
    /\ UNCHANGED <<active, usage, sent>>

(* terminal_fail *)
FailsStream(s) ==
    \/ LeavesQuietly(s)
    \/ /\ client[s] = "here"
       /\ Note(s, ErrorEvent)
       /\ sent' = [sent EXCEPT ![s] = Failing(s)]
       /\ Ends(s)
       /\ UNCHANGED <<active, usage>>

(* An error chunk and the terminal_fail after it: the provider may have    *)
(* done work, so the entry in hand becomes the active one.                 *)
FailsAtEntry(s) ==
    \/ LeavesQuietly(s)
    \/ /\ client[s] = "here"
       /\ active' = [active EXCEPT ![s] = EntryOf(s)]
       /\ Note(s, ErrorEvent)
       /\ sent' = [sent EXCEPT ![s] = Failing(s)]
       /\ Ends(s)
       /\ UNCHANGED usage

(* failover: on to the next entry, or the end of the list.                 *)
FailsOver(s) ==
    \/ LeavesQuietly(s) /\ UNCHANGED <<at, adapter>>
    \/ /\ client[s] = "here"
       /\ at[s] < Len(Selected)
       /\ at' = [at EXCEPT ![s] = @ + 1]
       /\ adapter' = [adapter EXCEPT ![s] = FreshAdapter]
       /\ pc' = [pc EXCEPT ![s] = "prepare"]
       /\ UNCHANGED <<lifecycle, active, usage, sent>>
    \/ /\ at[s] = Len(Selected)
       /\ client[s] = "here"
       /\ FailsStream(s)
       /\ UNCHANGED <<at, adapter>>

(* The catch of streamWithFallbackWorkflow, with decideFallback. Only a    *)
(* prepared attempt has a provider to settle with.                         *)
Throws(s, err, prepared) ==
    \/ /\ IsFallbackAllowed(err, adapter[s].committed)
       /\ FailsOver(s)
    \/ /\ ~IsFallbackAllowed(err, adapter[s].committed)
       /\ IF prepared /\ ~adapter[s].committed /\ err.class = "provider" /\ err.maybe
          THEN FailsAtEntry(s) ELSE FailsStream(s)
       /\ UNCHANGED <<at, adapter>>

-----------------------------------------------------------------------------
(* streamWithFallbackWorkflow begins: a client that has aborted, a model   *)
(* without an active entry, or the first entry.                            *)
OpenStream(s) ==
    /\ pc[s] = "new"
    /\ call[s].stream
    /\ IF client[s] = "aborted" \/ Selected = <<>>
       THEN FailsStream(s) /\ UNCHANGED at
       ELSE /\ at' = [at EXCEPT ![s] = 1]
            /\ pc' = [pc EXCEPT ![s] = "prepare"]
            /\ UNCHANGED <<lifecycle, active, usage, sent>>
    /\ UNCHANGED <<call, inactive, client, adapter, outcome, accepted>>

(* prepareAttempt: the provider document is read now, not with the model.  *)
(* A database that cannot be reached fails with a message that names the   *)
(* connection, which isFallbackAllowed takes for the provider's.           *)
PrepareErrors(s) ==
    {PlainError("type")} \cup (IF EntryOf(s) \in inactive THEN {Unavailable} ELSE {})

Prepare(s) ==
    /\ pc[s] = "prepare"
    /\ call[s].stream
    /\ \/ /\ EntryOf(s) \notin inactive
          /\ pc' = [pc EXCEPT ![s] = "headers"]
          /\ UNCHANGED <<at, adapter, lifecycle, active, usage, sent>>
       \/ \E err \in PrepareErrors(s) : Throws(s, err, FALSE)
    /\ UNCHANGED <<call, inactive, client, outcome, accepted>>

(* What a provider or the network can answer to the request.               *)
Statuses == {400, 401, 408, 429, 500}

HeadersFail(s) ==
    /\ pc[s] = "headers"
    /\ \E err \in {HttpError(status, "headers") : status \in Statuses \cup {502}}
                  \cup {PlainError("type"), PlainError("other")} :
            Throws(s, err, TRUE)
    /\ UNCHANGED <<call, inactive, client, outcome, accepted>>

(* The timer of mergeAbortTimeout.                                         *)
TimeOut(s) ==
    /\ pc[s] = "headers"
    /\ HasTimeout(s)
    /\ Throws(s, HeadersTimeout, TRUE)
    /\ UNCHANGED <<call, inactive, client, outcome, accepted>>

(* The client's abort rejects fetch, or the read of the body.              *)
AbortHeard(s) ==
    /\ call[s].stream
    /\ AbortReaches(s)
    /\ Throws(s, IF pc[s] = "headers" THEN PlainError("abort") ELSE BodyReadError, TRUE)
    /\ UNCHANGED <<call, inactive, client, outcome, accepted>>

HeadersArrive(s) ==
    /\ pc[s] = "headers"
    /\ pc' = [pc EXCEPT ![s] = "body"]
    /\ accepted' = [accepted EXCEPT ![s] = @ \cup {EntryOf(s)}]
    /\ UNCHANGED <<call, inactive, client, at, adapter, lifecycle, active, usage, sent,
                   outcome>>

-----------------------------------------------------------------------------
(* A delta chunk commits the stream.                                       *)
Delta(s) ==
    /\ pc[s] = "body"
    /\ adapter' = [adapter EXCEPT ![s].committed = TRUE]
    /\ \/ LeavesQuietly(s)
       \/ /\ client[s] = "here"
          /\ active' = [active EXCEPT ![s] = EntryOf(s)]
          /\ Note(s, DeltaEvent(s))
          /\ sent' = [sent EXCEPT ![s].deltas = @ \cup {EntryOf(s)}]
          /\ UNCHANGED <<pc, usage>>
    /\ UNCHANGED <<call, inactive, client, at, outcome, accepted>>

(* A line that is no JSON.                                                 *)
Garbage(s) ==
    /\ pc[s] = "body"
    /\ adapter' = [adapter EXCEPT ![s].malformed = TRUE]
    /\ UNCHANGED <<call, inactive, pc, client, at, lifecycle, active, usage, sent, outcome,
                   accepted>>

(* The usage states of the OpenAI adapter: a null or a bad object after a  *)
(* good one withdraws it; a null before is nothing.                        *)
OpenAIUsage(a, raw) ==
    IF a.usage = "invalidated" \/ (raw = NoUsage /\ a.usage = "none") THEN a
    ELSE IF raw # NoUsage /\ ParseOpenAI(raw).status = "reported"
         THEN [a EXCEPT !.usage = "reported", !.report = ParseOpenAI(raw).usage]
         ELSE [a EXCEPT !.usage = "invalidated"]

(* The Anthropic adapter merges fragments; one bad one spoils the sum.     *)
AnthropicUsage(a, raw) ==
    IF a.usage # "invalidated" /\ raw # NoUsage /\ UsableFragment(raw)
    THEN [a EXCEPT !.usage = "reported", !.report = MergeFragment(@, raw)]
    ELSE [a EXCEPT !.usage = "invalidated"]

UsageReport(s) ==
    /\ pc[s] = "body"
    /\ \E raw \in Reports \cup {NoUsage} :
          adapter' = [adapter EXCEPT ![s] =
                        IF TypeOfEntry(s) = "openai" THEN OpenAIUsage(@, raw)
                                                     ELSE AnthropicUsage(@, raw)]
    /\ UNCHANGED <<call, inactive, pc, client, at, lifecycle, active, usage, sent, outcome,
                   accepted>>

(* message_stop is remembered until the body ends.                         *)
MessageStop(s) ==
    /\ pc[s] = "body"
    /\ TypeOfEntry(s) = "anthropic"
    /\ adapter' = [adapter EXCEPT ![s].stopped = TRUE]
    /\ UNCHANGED <<call, inactive, pc, client, at, lifecycle, active, usage, sent, outcome,
                   accepted>>

(* The usage that the done chunk carries, if the stream was in order.      *)
DoneUsage(s) ==
    LET a == adapter[s] IN
    IF a.usage # "reported" THEN NoUsage
    ELSE IF TypeOfEntry(s) = "openai" THEN a.report
    ELSE IF FragmentsComplete(a.report)
         THEN [a.report EXCEPT !.total = ProcessedTotal(a.report)]
    ELSE NoUsage

\* Mutant: applyDoneUsage does not look at streamComplete.
DoneChunkCut(s, ok) ==
    \/ LeavesQuietly(s)
    \/ /\ client[s] = "here"
       /\ active' = [active EXCEPT ![s] = EntryOf(s)]
       /\ Note(s, DoneEvent(s, ok))
       /\ usage' = [usage EXCEPT ![s] = [complete |-> TRUE, report |-> DoneUsage(s)]]
       /\ sent' = [sent EXCEPT ![s] = Closing(s, @, ok)]
       /\ Ends(s)

(* A done chunk, and applyDoneUsage.                                       *)
DoneChunk(s, ok) ==
    \/ LeavesQuietly(s)
    \/ /\ client[s] = "here"
       /\ active' = [active EXCEPT ![s] = EntryOf(s)]
       /\ Note(s, DoneEvent(s, ok))
       /\ usage' = [usage EXCEPT ![s] =
                      IF ok THEN [complete |-> TRUE, report |-> DoneUsage(s)] ELSE @]
       /\ sent' = [sent EXCEPT ![s] = Closing(s, @, ok)]
       /\ Ends(s)

(* The chunks at the end of a body. Malformed lines give an error chunk    *)
(* before it: on a stream that is not committed that is the end.           *)
EndOfStream(s, stopped) ==
    LET a == adapter[s]
        ok == stopped /\ ~a.malformed /\ a.usage # "invalidated"
    IN IF a.malformed THEN FailsAtEntry(s) ELSE DoneChunk(s, ok)

(* [DONE] ends the OpenAI adapter; a body that ends without it is cut off. *)
BodyEnds(s) ==
    /\ pc[s] = "body"
    /\ \/ TypeOfEntry(s) = "openai" /\ \E done \in BOOLEAN : EndOfStream(s, done)
       \/ TypeOfEntry(s) = "anthropic" /\ EndOfStream(s, adapter[s].stopped)
    /\ adapter' = [adapter EXCEPT ![s].committed = TRUE]
    /\ UNCHANGED <<call, inactive, client, at, outcome, accepted>>

BodyBreaks(s) ==
    /\ pc[s] = "body"
    /\ Throws(s, BodyReadError, TRUE)
    /\ UNCHANGED <<call, inactive, client, outcome, accepted>>

-----------------------------------------------------------------------------
(* callWithFallbackWorkflow: a completion has its answer in one piece.     *)
StartComplete(s) ==
    /\ pc[s] = "new"
    /\ ~call[s].stream
    /\ IF Selected = <<>>
       THEN pc' = [pc EXCEPT ![s] = "release"] /\ UNCHANGED at
       ELSE pc' = [pc EXCEPT ![s] = "request"] /\ at' = [at EXCEPT ![s] = 1]
    /\ UNCHANGED <<call, inactive, client, adapter, lifecycle, active, usage, sent, outcome,
                   accepted>>

(* What chatComplete fails with: a status, an answer that is no JSON, or   *)
(* what fetch and text() reject with, classified. A timeout aborts; one    *)
(* that fires when the answer is there is told from the client's abort.    *)
CompleteErrors(s) ==
    {HttpError(status, "request") : status \in Statuses}
    \cup {ProviderError("malformed_response", "parse", FALSE, FALSE)}
    \cup {RequestError(PlainError(class)) :
            class \in {"type", "other"} \cup (IF HasTimeout(s) THEN {"abort"} ELSE {})}
    \cup (IF HasTimeout(s) THEN {ProviderError("timeout_ambiguous", "request", TRUE, TRUE)}
          ELSE {})

CompleteFails(s) ==
    /\ pc[s] = "request"
    /\ \E err \in IF EntryOf(s) \in inactive THEN PrepareErrors(s) ELSE CompleteErrors(s) :
          IF IsFallbackAllowed(err, FALSE) /\ at[s] < Len(Selected)
          THEN at' = [at EXCEPT ![s] = @ + 1] /\ UNCHANGED pc
          ELSE pc' = [pc EXCEPT ![s] = "release"] /\ UNCHANGED at
    /\ UNCHANGED <<call, inactive, client, adapter, lifecycle, active, usage, sent, outcome,
                   accepted>>

(* usageFromChatResponse: a report that cannot be used is a missing one.   *)
AnsweredUsage(s, raw) ==
    LET parsed == IF TypeOfEntry(s) = "openai" THEN ParseOpenAI(raw) ELSE ParseAnthropic(raw)
    IN IF raw # NoUsage /\ parsed.status = "reported"
       THEN [complete |-> TRUE, report |-> parsed.usage] ELSE EmptyStreamUsage

CompleteAnswers(s) ==
    /\ pc[s] = "request"
    /\ EntryOf(s) \notin inactive
    /\ \E raw \in Reports \cup {NoUsage} :
          usage' = [usage EXCEPT ![s] = AnsweredUsage(s, raw)]
    /\ active' = [active EXCEPT ![s] = EntryOf(s)]
    /\ accepted' = [accepted EXCEPT ![s] = @ \cup {EntryOf(s)}]
    /\ pc' = [pc EXCEPT ![s] = "finalize"]
    /\ UNCHANGED <<call, inactive, client, at, adapter, lifecycle, sent, outcome>>

(* The boundary interrupts the fiber of a completion; onExit releases.     *)
Interrupted(s) ==
    /\ ~call[s].stream
    /\ client[s] = "aborted"
    /\ pc[s] \in {"new", "request", "finalize"}
    /\ pc' = [pc EXCEPT ![s] = "release"]
    /\ UNCHANGED <<call, inactive, client, at, adapter, lifecycle, active, usage, sent,
                   outcome, accepted>>

Release(s) ==
    /\ pc[s] = "release"
    /\ outcome' = [outcome EXCEPT ![s].released = @ + 1]
    /\ pc' = [pc EXCEPT ![s] = "done"]
    /\ UNCHANGED <<call, inactive, client, at, adapter, lifecycle, active, usage, sent,
                   accepted>>

-----------------------------------------------------------------------------
(* streamUsageAuthority; a completion's usage is reported or missing.      *)
Authoritative(s) ==
    LET u == usage[s].report IN
    /\ usage[s].complete
    /\ u # NoUsage
    /\ ProcessedTotal(u) # Absent
    /\ call[s].stream => u.prompt > 0 \/ u.completion > 0

(* The organization's own calls are not billed: priceMicrosOverride.       *)
PriceOf(s) ==
    IF call[s].actor = "internal" \/ ~Authoritative(s) THEN 0
    ELSE Price(Model.entries[active[s]], Model, usage[s].report)

(* finalizeStreamGeneration, or the end of completeGeneration: without an  *)
(* entry the holds go back, otherwise the call is settled or queued; what  *)
(* is not authoritative is only queued. A settlement may fail as a whole.  *)
Resolve(s, o) ==
    IF active[s] = NoEntry THEN {[o EXCEPT !.released = @ + 1]}
    ELSE {[o EXCEPT !.queued = @ + 1], [o EXCEPT !.failed = TRUE]} \cup
         (IF Authoritative(s)
          THEN {[o EXCEPT !.settled = @ + 1, !.price = PriceOf(s), !.entry = active[s]]}
          ELSE {})

\* Mutant: every call of finalize goes through.
NeverFinalized(s) == FALSE

(* The flag of openStreamGeneration.                                       *)
Finalized(s) == outcome[s].final

(* The playground finalizes before it reports the cost, and once more in   *)
(* its finally block; the other routes in the finally block only.          *)
Finalize(s) ==
    /\ pc[s] = "finalize"
    /\ IF Finalized(s) THEN UNCHANGED outcome
       ELSE \E o \in Resolve(s, outcome[s]) :
               outcome' = [outcome EXCEPT ![s] = [o EXCEPT !.final = TRUE]]
    /\ pc' = [pc EXCEPT ![s] = IF call[s].surface = "playground" /\ call[s].stream /\ ~Finalized(s)
                               THEN "finalize" ELSE "done"]
    /\ UNCHANGED <<call, inactive, client, at, adapter, lifecycle, active, usage, sent,
                   accepted>>

-----------------------------------------------------------------------------
(* The client leaves: its request is aborted, or only its stream is        *)
(* cancelled. onAbort and cancel() both note the interruption.             *)
Disconnect(s) ==
    /\ client[s] = "here"
    /\ pc[s] # "done"
    /\ \E how \in IF call[s].stream THEN {"cancelled", "aborted"} ELSE {"aborted"} :
          client' = [client EXCEPT ![s] = how]
    /\ IF call[s].stream THEN Note(s, InterruptEvent) ELSE UNCHANGED lifecycle
    /\ UNCHANGED <<call, inactive, pc, at, adapter, active, usage, sent, outcome, accepted>>

(* An administrator deactivates a provider under calls in progress.        *)
Deactivate ==
    /\ \E i \in Indexes : inactive' = inactive \cup {i}
    /\ UNCHANGED <<call, pc, client, at, adapter, lifecycle, active, usage, sent, outcome,
                   accepted>>

-----------------------------------------------------------------------------
Init ==
    /\ call \in [Sessions -> CallKinds]
    /\ inactive = {}
    /\ pc = [s \in Sessions |-> "new"]
    /\ client = [s \in Sessions |-> "here"]
    /\ at = [s \in Sessions |-> 0]
    /\ adapter = [s \in Sessions |-> FreshAdapter]
    /\ lifecycle = [s \in Sessions |-> PreCommit]
    /\ active = [s \in Sessions |-> NoEntry]
    /\ usage = [s \in Sessions |-> EmptyStreamUsage]
    /\ sent = [s \in Sessions |-> NothingSent]
    /\ outcome = [s \in Sessions |-> [released |-> 0, settled |-> 0, queued |-> 0,
                                      failed |-> FALSE, final |-> FALSE, price |-> 0,
                                      entry |-> NoEntry]]
    /\ accepted = [s \in Sessions |-> {}]

(* What the gateway does by itself. *)
Gateway(s) ==
    \/ OpenStream(s) \/ Prepare(s) \/ TimeOut(s) \/ AbortHeard(s)
    \/ StartComplete(s) \/ Interrupted(s) \/ Release(s) \/ Finalize(s)

(* What providers and the network do, in their own time.                   *)
Provider(s) ==
    \/ HeadersFail(s) \/ HeadersArrive(s) \/ Delta(s) \/ Garbage(s) \/ UsageReport(s)
    \/ MessageStop(s) \/ BodyEnds(s) \/ BodyBreaks(s) \/ CompleteFails(s)
    \/ CompleteAnswers(s)

Next ==
    \/ \E s \in Sessions : Gateway(s) \/ Provider(s) \/ Disconnect(s)
    \/ Deactivate

(* The gateway's own steps are not put off for ever. Providers may be      *)
(* silent for ever, and clients may stay.                                  *)
Spec == Init /\ [][Next]_vars /\ \A s \in Sessions : WF_vars(Gateway(s))

-----------------------------------------------------------------------------
(* Calls, readers and outcomes are at states of the code, with entries and *)
(* prices in range.                                                        *)
TypeOK ==
    /\ call \in [Sessions -> CallKinds]
    /\ inactive \subseteq Indexes
    /\ pc \in [Sessions -> {"new", "prepare", "headers", "body", "request", "release",
                           "finalize", "done"}]
    /\ client \in [Sessions -> {"here", "cancelled", "aborted"}]
    /\ at \in [Sessions -> 0 .. Len(Selected)]
    /\ \A s \in Sessions : adapter[s].usage \in {"none", "reported", "invalidated"}
    /\ \A s \in Sessions : lifecycle[s].tag \in {"pre_commit", "committed", "terminal",
                                               "interrupted", "provider_failed"}
    /\ active \in [Sessions -> {NoEntry} \cup ToSet(Selected)]
    /\ accepted \in [Sessions -> SUBSET ToSet(Selected)]

(* What a client reads of an answer, and what it is billed for, is of one  *)
(* entry, however many were tried (selection.ts: a committed stream has no *)
(* fallback, and the lifecycle keeps the entry that committed it).         *)
AnswerOfOne ==
    \A s \in Sessions :
        /\ Cardinality(sent[s].deltas) <= 1
        /\ sent[s].deltas # {} => active[s] \in sent[s].deltas
        /\ outcome[s].settled > 0 => outcome[s].entry \in accepted[s]
        /\ lifecycle[s].tag = "committed" => sent[s].deltas = {lifecycle[s].entry}

(* A stream that a provider has taken is never given to another one: two   *)
(* providers would do, and charge the organization for, the same work.     *)
(* A completion is different: a body that breaks counts as a refused       *)
(* connection there (scoped-fetch.ts, classifyProviderError).              *)
NoFallbackAfterAccept ==
    \A s \in Sessions : call[s].stream => Cardinality(accepted[s]) <= 1

(* A client is told of one end: the closing chunk, or one error.           *)
OneTerminal == \A s \in Sessions : sent[s].errors + sent[s].dones <= 1

(* An answer that was closed as complete is billed or queued, never given  *)
(* away, and one that was reported as failed is not billed as complete.    *)
EndsAgree ==
    \A s \in Sessions : call[s].stream /\ pc[s] = "done" =>
        /\ sent[s].dones > 0 => outcome[s].released = 0
        /\ sent[s].errors > 0 => outcome[s].settled = 0
        /\ outcome[s].settled > 0 => sent[s].dones > 0 \/ client[s] # "here"

(* Holds go back only for a stream of which the client has seen nothing.   *)
ReleasedUnseen ==
    \A s \in Sessions : call[s].stream /\ outcome[s].released > 0 => sent[s].deltas = {}

(* A call is finalized once, although the playground asks for it twice:    *)
(* one release, one settlement or one row of the outbox.                   *)
FinalizedOnce ==
    \A s \in Sessions :
        outcome[s].released + outcome[s].settled + outcome[s].queued <= 1

PlainRates(schedule) ==
    /\ schedule.cacheRead <= schedule.input
    /\ schedule.cacheWrite <= schedule.input
    /\ schedule.reasoning <= schedule.output

InputTokens(u) == IF u.accounting = "additive"
                  THEN u.prompt + OrZero(u.cacheRead) + OrZero(u.cacheWrite) ELSE u.prompt

(* The worst-case estimate that the hold is taken for covers the price,    *)
(* but for the rounding of up to three more parts, as long as the tokens   *)
(* are within the estimate's and no rate exceeds those it looks at.        *)
EstimateCovers ==
    \A s \in Sessions : outcome[s].settled > 0 =>
        LET u == usage[s].report IN
        (/\ PlainRates(EntrySchedule(Model.entries[outcome[s].entry], Model))
         /\ InputTokens(u) <= PromptTokens
         /\ u.completion <= CompletionCap)
        => outcome[s].price <= EstimateSpend(Model, PromptTokens, CompletionCap) + 3

FlatRates(schedule) ==
    /\ schedule.input = schedule.output
    /\ {schedule.cacheRead, schedule.cacheWrite} \subseteq {schedule.input, Absent}
    /\ schedule.reasoning \in {schedule.output, Absent}

Priced(tokens, rate) == IF rate = Absent THEN 0 ELSE tokens

(* Every token is charged once: where all rates of a side are the same,    *)
(* cached and reasoning tokens cost what the others do. Reports may count  *)
(* more cached tokens than prompt tokens. Cached tokens that come on top   *)
(* of the prompt are free where the schedule has no rate for them.         *)
EachTokenOnce ==
    \A s \in Sessions : outcome[s].settled > 0 /\ call[s].actor # "internal" =>
        LET u == usage[s].report
            schedule == EntrySchedule(Model.entries[outcome[s].entry], Model)
            charged == [u EXCEPT !.cacheRead = Priced(@, schedule.cacheRead),
                                 !.cacheWrite = Priced(@, schedule.cacheWrite)]
            exact == (InputTokens(charged) + u.completion) * schedule.input
        IN FlatRates(schedule) =>
             /\ exact <= outcome[s].price * PerMillion
             /\ outcome[s].price * PerMillion < exact + 5 * PerMillion

(* A client that aborts is rid of its call, unless the call reads the body *)
(* of an entry with a timeout.                                             *)
AbortsEnd ==
    \A s \in Sessions :
        client[s] = "aborted" ~> \/ pc[s] = "done"
                                 \/ pc[s] = "body" /\ HasTimeout(s)

(* One provider takes a stream, and one entry answers a call.              *)
OneAnswers == AnswerOfOne /\ NoFallbackAfterAccept

(* A call has one end, for its client and for the ledger.                  *)
OneEnd == OneTerminal /\ FinalizedOnce

(* What the client saw and what became of the hold agree (openStream's     *)
(* commit, finish and release, on calls that are at states of the code).   *)
OutcomesAgree == TypeOK /\ EndsAgree /\ ReleasedUnseen

(* A charge is of every token once, and no more than what was held for it  *)
(* (calculateSpend, estimateSpend).                                        *)
ChargesBounded == EstimateCovers /\ EachTokenOnce
=============================================================================
