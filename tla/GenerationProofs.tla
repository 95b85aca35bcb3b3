-------------------------- MODULE GenerationProofs --------------------------
(***************************************************************************)
(* Proofs about Generation for any number of calls, any model and any      *)
(* reports: one provider answers, the client is told of one end, and the   *)
(* call is finalized once.                                                 *)
(***************************************************************************)
EXTENDS Generation, FiniteSetTheorems, SequenceTheorems, TLAPS

Waiting == {"new", "prepare", "headers", "request"}
States == Waiting \cup {"body", "release", "finalize", "done"}

(* Every variable of a call is a function of the calls.                    *)
OfSessions(f) == f = [s \in Sessions |-> f[s]]

Shaped == /\ OfSessions(call) /\ OfSessions(pc) /\ OfSessions(client) /\ OfSessions(at)
          /\ OfSessions(lifecycle) /\ OfSessions(active) /\ OfSessions(usage)
          /\ OfSessions(sent) /\ OfSessions(outcome) /\ OfSessions(accepted)

Told(s) == sent[s].errors + sent[s].dones
Resolved(s) == outcome[s].released + outcome[s].settled + outcome[s].queued

(* A call streams or is completed in one piece.                            *)
Kind(s) == /\ call[s].stream \in BOOLEAN
           /\ pc[s] \in States
           /\ call[s].stream => pc[s] \notin {"request", "release"}
           /\ ~call[s].stream => pc[s] \notin {"prepare", "headers", "body"}

(* A provider that took the call is the only one.                          *)
OneTaker(s) == /\ accepted[s] = {} \/ \E e \in accepted[s] : accepted[s] = {e}
               /\ pc[s] \in Waiting => accepted[s] = {} /\ usage[s].complete = FALSE
               /\ pc[s] = "body" => accepted[s] = {EntryOf(s)} /\ usage[s].complete = FALSE
               /\ usage[s].complete \in BOOLEAN
               /\ usage[s].complete => active[s] \in accepted[s]

(* What is shown is of the provider that took the call.                    *)
ShownOfTaker(s) == /\ sent[s].deltas \subseteq accepted[s]
                   /\ sent[s].deltas # {} => active[s] \in sent[s].deltas
                   /\ lifecycle[s].tag = "committed" => sent[s].deltas = {lifecycle[s].entry}

(* Only the end of a stream is told.                                       *)
ToldOnce(s) == /\ sent[s] = [deltas |-> sent[s].deltas, errors |-> sent[s].errors,
                             dones |-> sent[s].dones]
               /\ sent[s].errors \in Nat /\ sent[s].dones \in Nat
               /\ Told(s) <= 1
               /\ pc[s] \notin {"finalize", "done"} \/ ~call[s].stream
                    => sent[s].errors = 0 /\ sent[s].dones = 0

(* Nothing is resolved before the flag of finalize is set.                 *)
ResolvedOnce(s) ==
    /\ outcome[s] = [released |-> outcome[s].released, settled |-> outcome[s].settled,
                     queued |-> outcome[s].queued, failed |-> outcome[s].failed,
                     final |-> outcome[s].final, price |-> outcome[s].price,
                     entry |-> outcome[s].entry]
    /\ outcome[s].released \in Nat /\ outcome[s].settled \in Nat /\ outcome[s].queued \in Nat
    /\ outcome[s].final \in BOOLEAN
    /\ Resolved(s) <= 1
    /\ pc[s] # "done" /\ ~outcome[s].final => Resolved(s) = 0
    /\ pc[s] \notin {"finalize", "done"} \/ (pc[s] = "finalize" /\ ~call[s].stream)
         => ~outcome[s].final
    /\ outcome[s].settled > 0 => outcome[s].entry \in accepted[s]

Good(s) == Kind(s) /\ OneTaker(s) /\ ShownOfTaker(s) /\ ToldOnce(s) /\ ResolvedOnce(s)

IInv == Shaped /\ \A s \in Sessions : Good(s)

-----------------------------------------------------------------------------
(* A step of one call leaves the others alone.                             *)
Same(t) == /\ call'[t] = call[t] /\ pc'[t] = pc[t] /\ at'[t] = at[t]
           /\ lifecycle'[t] = lifecycle[t] /\ active'[t] = active[t]
           /\ usage'[t] = usage[t] /\ sent'[t] = sent[t] /\ outcome'[t] = outcome[t]
           /\ accepted'[t] = accepted[t]

StepOf(s) == Shaped' /\ Good(s)' /\ \A t \in Sessions \ {s} : Same(t)

LEMMA SameGood ==
  ASSUME NEW t, Good(t), Same(t) PROVE Good(t)'
<1>1. EntryOf(t)' = EntryOf(t)
  BY DEF Same, EntryOf
<1>2. QED
  BY <1>1 DEF Same, Good, Kind, OneTaker, ShownOfTaker, ToldOnce, ResolvedOnce, Told, Resolved

LEMMA StepKeeps ==
  ASSUME IInv, NEW s \in Sessions, StepOf(s) PROVE IInv'
  BY SameGood DEF IInv, StepOf

LEMMA InitGood == Init => IInv
<1> SUFFICES ASSUME Init PROVE IInv
  OBVIOUS
<1>1. Shaped
  BY DEF Init, Shaped, OfSessions
<1>2. ASSUME NEW s \in Sessions PROVE Good(s)
  <2>1. call[s].stream \in BOOLEAN
    BY GenerationAssumption DEF Init
  <2>2. /\ pc[s] = "new" /\ accepted[s] = {} /\ usage[s] = EmptyStreamUsage
        /\ sent[s] = NothingSent /\ lifecycle[s] = PreCommit
        /\ outcome[s] = [released |-> 0, settled |-> 0, queued |-> 0, failed |-> FALSE,
                         final |-> FALSE, price |-> 0, entry |-> NoEntry]
    BY DEF Init
  <2>3. Kind(s) /\ OneTaker(s)
    BY <2>1, <2>2 DEF Kind, OneTaker, States, Waiting, EmptyStreamUsage
  <2>4. ShownOfTaker(s) /\ ToldOnce(s)
    BY <2>2 DEF ShownOfTaker, ToldOnce, Told, NothingSent, PreCommit
  <2>5. ResolvedOnce(s)
    BY <2>2 DEF ResolvedOnce, Resolved
  <2>6. QED
    BY <2>3, <2>4, <2>5 DEF Good
<1>3. QED
  BY <1>1, <1>2 DEF IInv

-----------------------------------------------------------------------------
(* The ways a stream ends. Nothing it ends with is complete, so that the   *)
(* client is told of one error at most.                                    *)
Streaming == {"new", "prepare", "headers", "body"}

Stopping(s) ==
    /\ pc[s] \in Streaming /\ call[s].stream
    /\ pc' = [pc EXCEPT ![s] = "finalize"]
    /\ \E event \in {InterruptEvent, ErrorEvent} : Note(s, event)
    /\ active' = active \/ (active' = [active EXCEPT ![s] = EntryOf(s)] /\ pc[s] # "new")
    /\ sent' = sent \/ sent' = [sent EXCEPT ![s] = [sent[s] EXCEPT !.errors = 1]]
    /\ UNCHANGED <<call, client, at, usage, outcome, accepted>>

LEMMA NotedEnd ==
  ASSUME Shaped, NEW s \in Sessions, NEW event \in {InterruptEvent, ErrorEvent}, Note(s, event)
  PROVE  /\ OfSessions(lifecycle)'
         /\ lifecycle'[s].tag # "committed"
         /\ \A t \in Sessions \ {s} : lifecycle'[t] = lifecycle[t]
<1>1. Transition(lifecycle[s], event).tag # "committed"
  <2>1. CASE Over(lifecycle[s])
    BY <2>1 DEF Transition, Over
  <2>2. CASE ~Over(lifecycle[s]) /\ event = InterruptEvent
    <3>1. Transition(lifecycle[s], event)
            = [tag |-> "interrupted", committed |-> lifecycle[s].tag = "committed"]
      BY <2>2 DEF Transition, InterruptEvent
    <3>2. QED
      BY <3>1
  <2>3. CASE ~Over(lifecycle[s]) /\ event = ErrorEvent
    <3>1. Transition(lifecycle[s], event)
            = [tag |-> "provider_failed", committed |-> lifecycle[s].tag = "committed"]
      BY <2>3 DEF Transition, ErrorEvent
    <3>2. QED
      BY <3>1
  <2>4. QED
    BY <2>1, <2>2, <2>3
<1>2. QED
  BY <1>1 DEF Note, Shaped, OfSessions

LEMMA FailingTells ==
  ASSUME NEW s \in Sessions, ToldOnce(s), pc[s] \in Streaming, usage[s].complete = FALSE
  PROVE  Failing(s) = [sent[s] EXCEPT !.errors = 1]
  BY DEF Failing, Closing, WithError, ToldOnce, Streaming

LEMMA StoppingStep ==
  ASSUME IInv, NEW s \in Sessions, Stopping(s) PROVE StepOf(s)
<1>1. Shaped /\ Good(s)
  BY DEF IInv
<1>2. PICK event \in {InterruptEvent, ErrorEvent} : Note(s, event)
  BY DEF Stopping
<1>3. /\ OfSessions(lifecycle)' /\ lifecycle'[s].tag # "committed"
      /\ \A t \in Sessions \ {s} : lifecycle'[t] = lifecycle[t]
  BY <1>1, <1>2, NotedEnd
<1>4. Shaped'
  BY <1>1, <1>3 DEF Stopping, Shaped, OfSessions
<1>5. \A t \in Sessions \ {s} : Same(t)
  BY <1>1, <1>3 DEF Stopping, Shaped, OfSessions, Same
<1>6. pc'[s] = "finalize"
  BY <1>1 DEF Stopping, Shaped, OfSessions
<1>7. Kind(s)'
  BY <1>1, <1>6 DEF Good, Kind, Stopping, States
<1>8. OneTaker(s)'
  BY <1>1, <1>6 DEF Good, OneTaker, Stopping, Streaming, Waiting
<1>9. active'[s] = active[s] \/ (active'[s] = EntryOf(s) /\ sent[s].deltas \subseteq {EntryOf(s)})
  BY <1>1 DEF Good, OneTaker, ShownOfTaker, Stopping, Streaming, Waiting, Shaped, OfSessions
<1>10. sent'[s].deltas = sent[s].deltas
  BY <1>1 DEF Good, ToldOnce, Stopping, Shaped, OfSessions
<1>11. ShownOfTaker(s)'
  BY <1>1, <1>3, <1>9, <1>10 DEF Good, ShownOfTaker, Stopping
<1>12. ToldOnce(s)'
  BY <1>1, <1>6 DEF Good, ToldOnce, Told, Stopping, Streaming, Shaped, OfSessions
<1>13. ResolvedOnce(s)'
  BY <1>1, <1>6 DEF Good, ResolvedOnce, Resolved, Stopping, Streaming
<1>14. QED
  BY <1>4, <1>5, <1>7, <1>8, <1>11, <1>12, <1>13 DEF StepOf, Good

(* Waiting for a provider, or for the next one.                            *)
LEMMA WaitingStep ==
  ASSUME IInv, NEW s \in Sessions, pc[s] \in Waiting, NEW to \in Waiting,
         IF call[s].stream THEN to # "request" ELSE to = "request",
         pc' = [pc EXCEPT ![s] = to],
         at' = at \/ \E i : at' = [at EXCEPT ![s] = i],
         UNCHANGED <<call, client, lifecycle, active, usage, sent, outcome, accepted>>
  PROVE  StepOf(s)
<1>1. Shaped /\ Good(s)
  BY DEF IInv
<1>2. Shaped' /\ (\A t \in Sessions \ {s} : Same(t)) /\ pc'[s] = to
  BY <1>1 DEF Shaped, OfSessions, Same
<1>3. Kind(s)'
  BY <1>1, <1>2 DEF Good, Kind, States, Waiting
<1>4. OneTaker(s)' /\ ShownOfTaker(s)'
  BY <1>1, <1>2 DEF Good, OneTaker, ShownOfTaker, Waiting
<1>5. ToldOnce(s)' /\ ResolvedOnce(s)'
  BY <1>1, <1>2 DEF Good, ToldOnce, ResolvedOnce, Told, Resolved, Waiting
<1>6. QED
  BY <1>2, <1>3, <1>4, <1>5 DEF StepOf, Good

(* A completion gives up and releases.                                     *)
LEMMA GivingUpStep ==
  ASSUME IInv, NEW s \in Sessions, ~call[s].stream, pc[s] \in {"new", "request", "finalize"},
         pc' = [pc EXCEPT ![s] = "release"],
         UNCHANGED <<call, client, at, lifecycle, active, usage, sent, outcome, accepted>>
  PROVE  StepOf(s)
<1>1. Shaped /\ Good(s)
  BY DEF IInv
<1>2. Shaped' /\ (\A t \in Sessions \ {s} : Same(t)) /\ pc'[s] = "release"
  BY <1>1 DEF Shaped, OfSessions, Same
<1>3. Kind(s)' /\ OneTaker(s)' /\ ShownOfTaker(s)'
  BY <1>1, <1>2 DEF Good, Kind, States, Waiting, OneTaker, ShownOfTaker
<1>4. ToldOnce(s)' /\ ResolvedOnce(s)'
  BY <1>1, <1>2 DEF Good, ToldOnce, ResolvedOnce, Told, Resolved
<1>5. QED
  BY <1>2, <1>3, <1>4 DEF StepOf, Good

-----------------------------------------------------------------------------
(* A failure of a provider: the next entry, or one of the ends.            *)
LEMMA FailsIsStopping ==
  ASSUME IInv, NEW s \in Sessions, pc[s] \in Streaming, call[s].stream,
         FailsStream(s) \/ (FailsAtEntry(s) /\ pc[s] # "new"),
         UNCHANGED <<call, client, at, outcome, accepted>>
  PROVE  Stopping(s)
<1>1. Good(s)
  BY DEF IInv
<1>2. Failing(s) = [sent[s] EXCEPT !.errors = 1]
  BY <1>1, FailingTells DEF Good, OneTaker, Streaming, Waiting
<1>3. CASE LeavesQuietly(s)
  BY <1>3 DEF LeavesQuietly, Stopping, Ends
<1>4. CASE FailsStream(s) /\ ~LeavesQuietly(s)
  BY <1>2, <1>4 DEF FailsStream, Stopping, Ends
<1>5. CASE FailsAtEntry(s) /\ ~LeavesQuietly(s) /\ pc[s] # "new"
  BY <1>2, <1>5 DEF FailsAtEntry, Stopping, Ends
<1>6. QED
  BY <1>3, <1>4, <1>5

LEMMA ThrowsStep ==
  ASSUME IInv, NEW s \in Sessions, NEW err, NEW prepared \in BOOLEAN,
         pc[s] \in {"prepare", "headers", "body"}, call[s].stream,
         pc[s] = "body" => ~IsFallbackAllowed(err, adapter[s].committed),
         Throws(s, err, prepared),
         UNCHANGED <<call, client, outcome, accepted>>
  PROVE  StepOf(s)
<1> USE DEF Streaming, Waiting
<1>1. CASE ~IsFallbackAllowed(err, adapter[s].committed)
  <2>1. (FailsStream(s) \/ FailsAtEntry(s)) /\ UNCHANGED at
    BY <1>1 DEF Throws
  <2>2. Stopping(s)
    BY <2>1, FailsIsStopping
  <2>3. QED
    BY <2>2, StoppingStep
<1>2. CASE IsFallbackAllowed(err, adapter[s].committed)
  <2>1. FailsOver(s)
    BY <1>2 DEF Throws
  <2>2. CASE LeavesQuietly(s) /\ UNCHANGED at
    <3>1. Stopping(s)
      BY <2>2, FailsIsStopping DEF FailsStream
    <3>2. QED
      BY <3>1, StoppingStep
  <2>3. CASE /\ at' = [at EXCEPT ![s] = @ + 1]
             /\ pc' = [pc EXCEPT ![s] = "prepare"]
             /\ UNCHANGED <<lifecycle, active, usage, sent>>
    BY <1>2, <2>3, WaitingStep
  <2>4. CASE FailsStream(s) /\ UNCHANGED at
    BY <2>4, FailsIsStopping, StoppingStep
  <2>5. QED
    BY <2>1, <2>2, <2>3, <2>4 DEF FailsOver
<1>3. QED
  BY <1>1, <1>2

-----------------------------------------------------------------------------
(* The actions, one by one.                                                *)
LEMMA OpenStreamStep ==
  ASSUME IInv, NEW s \in Sessions, OpenStream(s) PROVE StepOf(s)
<1> USE DEF OpenStream, Waiting, Streaming
<1>1. CASE FailsStream(s) /\ UNCHANGED at
  BY <1>1, FailsIsStopping, StoppingStep
<1>2. CASE /\ at' = [at EXCEPT ![s] = 1]
           /\ pc' = [pc EXCEPT ![s] = "prepare"]
           /\ UNCHANGED <<lifecycle, active, usage, sent>>
  BY <1>2, WaitingStep
<1>3. QED
  BY <1>1, <1>2

LEMMA PrepareStep ==
  ASSUME IInv, NEW s \in Sessions, Prepare(s) PROVE StepOf(s)
<1> USE DEF Prepare, Waiting
<1>1. CASE /\ pc' = [pc EXCEPT ![s] = "headers"]
           /\ UNCHANGED <<at, adapter, lifecycle, active, usage, sent>>
  BY <1>1, WaitingStep
<1>2. CASE \E err \in PrepareErrors(s) : Throws(s, err, FALSE)
  BY <1>2, ThrowsStep
<1>3. QED
  BY <1>1, <1>2

LEMMA HeadersAreStreamed ==
  ASSUME IInv, NEW s \in Sessions, pc[s] \in {"headers", "body"} PROVE call[s].stream
  BY DEF IInv, Good, Kind

LEMMA HeadersFailStep ==
  ASSUME IInv, NEW s \in Sessions, HeadersFail(s) \/ TimeOut(s) PROVE StepOf(s)
<1>1. /\ pc[s] = "headers" /\ \E err : Throws(s, err, TRUE)
      /\ UNCHANGED <<call, client, outcome, accepted>>
  BY DEF HeadersFail, TimeOut
<1>2. QED
  BY <1>1, ThrowsStep, HeadersAreStreamed

(* What breaks off while a body is read goes to no other entry.            *)
LEMMA BodyEndsIt == \A committed : ~IsFallbackAllowed(BodyReadError, committed)
  BY DEF IsFallbackAllowed, BodyReadError, ProviderError

LEMMA BodyFailStep ==
  ASSUME IInv, NEW s \in Sessions, BodyBreaks(s) \/ AbortHeard(s) PROVE StepOf(s)
<1>1. CASE BodyBreaks(s)
  BY <1>1, ThrowsStep, BodyEndsIt, HeadersAreStreamed DEF BodyBreaks
<1>2. CASE AbortHeard(s) /\ pc[s] = "body"
  BY <1>2, ThrowsStep, BodyEndsIt DEF AbortHeard
<1>3. CASE AbortHeard(s) /\ pc[s] = "headers"
  BY <1>3, ThrowsStep DEF AbortHeard
<1>4. QED
  BY <1>1, <1>2, <1>3 DEF AbortHeard, AbortReaches

LEMMA HeadersArriveStep ==
  ASSUME IInv, NEW s \in Sessions, HeadersArrive(s) PROVE StepOf(s)
<1>1. Shaped /\ Good(s) /\ call[s].stream
  BY HeadersAreStreamed DEF IInv, HeadersArrive
<1>2. Shaped' /\ (\A t \in Sessions \ {s} : Same(t)) /\ pc'[s] = "body"
  BY <1>1 DEF HeadersArrive, Shaped, OfSessions, Same
<1>3. accepted[s] = {} /\ accepted'[s] = {EntryOf(s)} /\ EntryOf(s)' = EntryOf(s)
  BY <1>1 DEF HeadersArrive, Good, OneTaker, Waiting, EntryOf, Shaped, OfSessions
<1>4. Kind(s)' /\ OneTaker(s)'
  BY <1>1, <1>2, <1>3 DEF HeadersArrive, Good, Kind, OneTaker, States, Waiting
<1>5. ShownOfTaker(s)' /\ ToldOnce(s)'
  BY <1>1, <1>2, <1>3 DEF HeadersArrive, Good, ShownOfTaker, ToldOnce, Told
<1>6. ResolvedOnce(s)'
  BY <1>1, <1>2 DEF HeadersArrive, Good, ResolvedOnce, Resolved
<1>7. QED
  BY <1>2, <1>4, <1>5, <1>6 DEF StepOf, Good

(* Steps that only the adapter notices.                                    *)
LEMMA AdapterStep ==
  ASSUME IInv, NEW s \in Sessions, Garbage(s) \/ UsageReport(s) \/ MessageStop(s)
  PROVE  StepOf(s)
<1>1. UNCHANGED <<call, pc, client, at, lifecycle, active, usage, sent, outcome, accepted>>
  BY DEF Garbage, UsageReport, MessageStop
<1>2. Good(s)' /\ \A t \in Sessions : Same(t)
  BY <1>1, SameGood DEF Same, IInv
<1>3. QED
  BY <1>1, <1>2 DEF StepOf, IInv, Shaped, OfSessions

LEMMA DeltaStep ==
  ASSUME IInv, NEW s \in Sessions, Delta(s) PROVE StepOf(s)
<1>1. Shaped /\ Good(s) /\ call[s].stream /\ pc[s] = "body"
  BY HeadersAreStreamed DEF IInv, Delta
<1>2. CASE LeavesQuietly(s)
  BY <1>1, <1>2, FailsIsStopping, StoppingStep DEF Delta, FailsStream, Streaming
<1>3. CASE /\ active' = [active EXCEPT ![s] = EntryOf(s)]
           /\ Note(s, DeltaEvent(s))
           /\ sent' = [sent EXCEPT ![s].deltas = @ \cup {EntryOf(s)}]
           /\ UNCHANGED <<pc, usage>>
  <2>1. UNCHANGED <<call, pc, client, at, usage, outcome, accepted>>
    BY <1>3 DEF Delta
  <2>2. lifecycle'[s] = Transition(lifecycle[s], DeltaEvent(s))
    BY <1>1, <1>3 DEF Note, Shaped, OfSessions
  <2>3. accepted[s] = {EntryOf(s)} /\ EntryOf(s)' = EntryOf(s)
    BY <1>1, <2>1 DEF Good, OneTaker, EntryOf
  <2>4. lifecycle'[s].tag = "committed" => lifecycle'[s].entry = EntryOf(s)
    <3>1. CASE Over(lifecycle[s]) \/ lifecycle[s].tag = "committed"
      <4>1. lifecycle'[s] = lifecycle[s]
        BY <2>2, <3>1 DEF Transition, DeltaEvent
      <4>2. lifecycle[s].tag = "committed" => lifecycle[s].entry = EntryOf(s)
        BY <1>1, <2>3 DEF Good, ShownOfTaker
      <4>3. QED
        BY <4>1, <4>2
    <3>2. CASE ~Over(lifecycle[s]) /\ lifecycle[s].tag # "committed"
      <4>1. lifecycle'[s] = [tag |-> "committed", entry |-> EntryOf(s)]
        BY <2>2, <3>2 DEF Transition, DeltaEvent
      <4>2. QED
        BY <4>1
    <3>3. QED
      BY <3>1, <3>2
  <2>5. /\ sent'[s] = [sent[s] EXCEPT !.deltas = @ \cup {EntryOf(s)}]
        /\ active'[s] = EntryOf(s)
    BY <1>1, <1>3 DEF Shaped, OfSessions
  <2>6. sent'[s].deltas = {EntryOf(s)}
    BY <1>1, <2>3, <2>5 DEF Good, ShownOfTaker, ToldOnce
  <2>7. Shaped' /\ \A t \in Sessions \ {s} : Same(t)
    BY <1>1, <1>3, <2>1 DEF Note, Shaped, OfSessions, Same
  <2>8. Kind(s)' /\ OneTaker(s)'
    BY <1>1, <2>1, <2>3, <2>5 DEF Good, Kind, OneTaker, Waiting
  <2>9. ShownOfTaker(s)'
    BY <2>1, <2>3, <2>4, <2>5, <2>6 DEF ShownOfTaker
  <2>10. ToldOnce(s)' /\ ResolvedOnce(s)'
    BY <1>1, <2>1, <2>5 DEF Good, ToldOnce, Told, ResolvedOnce, Resolved
  <2>11. QED
    BY <2>7, <2>8, <2>9, <2>10 DEF StepOf, Good
<1>4. QED
  BY <1>2, <1>3 DEF Delta

LEMMA DoneChunkStep ==
  ASSUME IInv, NEW s \in Sessions, NEW ok \in BOOLEAN, pc[s] = "body", DoneChunk(s, ok),
         UNCHANGED <<call, client, at, outcome, accepted>>
  PROVE  StepOf(s)
<1>1. Shaped /\ Good(s) /\ call[s].stream
  BY HeadersAreStreamed DEF IInv
<1>2. CASE LeavesQuietly(s)
  BY <1>1, <1>2, FailsIsStopping, StoppingStep DEF FailsStream, Streaming
<1>3. CASE ~LeavesQuietly(s)
  <2>1. /\ active' = [active EXCEPT ![s] = EntryOf(s)]
        /\ Note(s, DoneEvent(s, ok))
        /\ usage' = [usage EXCEPT ![s] =
                       IF ok THEN [complete |-> TRUE, report |-> DoneUsage(s)] ELSE @]
        /\ sent' = [sent EXCEPT ![s] = Closing(s, @, ok)]
        /\ Ends(s)
    BY <1>3 DEF DoneChunk
  <2>2. accepted[s] = {EntryOf(s)} /\ usage[s].complete = FALSE
    BY <1>1 DEF Good, OneTaker
  <2>3. lifecycle'[s].tag # "committed"
    <3>1. lifecycle'[s] = Transition(lifecycle[s], DoneEvent(s, ok))
      BY <1>1, <2>1 DEF Note, Shaped, OfSessions
    <3>2. CASE Over(lifecycle[s])
      BY <3>1, <3>2 DEF Transition, Over
    <3>3. CASE ~Over(lifecycle[s])
      <4>1. lifecycle'[s].tag = "terminal"
        BY <3>1, <3>3 DEF Transition, DoneEvent
      <4>2. QED
        BY <4>1
    <3>4. QED
      BY <3>2, <3>3
  <2>4. /\ active'[s] = EntryOf(s) /\ pc'[s] = "finalize"
        /\ sent'[s] = Closing(s, sent[s], ok)
        /\ usage'[s].complete = ok
    BY <1>1, <2>1, <2>2 DEF Ends, Shaped, OfSessions
  <2>5. Shaped' /\ \A t \in Sessions \ {s} : Same(t)
    BY <1>1, <2>1 DEF Ends, Note, Shaped, OfSessions, Same
  <2>6. Kind(s)' /\ OneTaker(s)'
    BY <1>1, <2>2, <2>4 DEF Good, Kind, OneTaker, States, Waiting
  <2>7. sent[s].errors = 0 /\ sent[s].dones = 0
    BY <1>1 DEF Good, ToldOnce
  <2>8. sent'[s] = IF ok THEN [sent[s] EXCEPT !.dones = 1] ELSE [sent[s] EXCEPT !.errors = 1]
    BY <2>4, <2>7 DEF Closing, WithError
  <2>9. ShownOfTaker(s)'
    BY <1>1, <2>2, <2>3, <2>4, <2>8 DEF Good, ShownOfTaker, ToldOnce
  <2>10. sent'[s] = [deltas |-> sent[s].deltas, errors |-> IF ok THEN 0 ELSE 1,
                    dones |-> IF ok THEN 1 ELSE 0]
    BY <1>1, <2>7, <2>8 DEF Good, ToldOnce
  <2>11. ToldOnce(s)'
    BY <1>1, <2>4, <2>10 DEF Good, Kind, ToldOnce, Told
  <2>12. ResolvedOnce(s)'
    BY <1>1, <2>4 DEF Good, ResolvedOnce, Resolved
  <2>13. QED
    BY <2>5, <2>6, <2>9, <2>11, <2>12 DEF StepOf, Good
<1>4. QED
  BY <1>2, <1>3

LEMMA BodyEndsStep ==
  ASSUME IInv, NEW s \in Sessions, BodyEnds(s) PROVE StepOf(s)
<1>1. PICK stopped : EndOfStream(s, stopped)
  BY DEF BodyEnds
<1>2. /\ pc[s] = "body" /\ call[s].stream
      /\ UNCHANGED <<call, client, at, outcome, accepted>>
  BY HeadersAreStreamed DEF BodyEnds
<1> DEFINE ok == stopped /\ ~adapter[s].malformed /\ adapter[s].usage # "invalidated"
<1>3. CASE FailsAtEntry(s)
  BY <1>2, <1>3, FailsIsStopping, StoppingStep DEF Streaming
<1>4. CASE DoneChunk(s, ok)
  <2>1. ok \in BOOLEAN
    OBVIOUS
  <2> HIDE DEF ok
  <2>2. QED
    BY <1>2, <1>4, <2>1, DoneChunkStep
<1>5. QED
  BY <1>1, <1>3, <1>4 DEF EndOfStream

LEMMA CompletionStep ==
  ASSUME IInv, NEW s \in Sessions, StartComplete(s) \/ CompleteFails(s) \/ Interrupted(s)
  PROVE  StepOf(s)
<1>1. ~call[s].stream
  BY DEF IInv, Good, Kind, StartComplete, CompleteFails, Interrupted
<1>2. CASE pc' = [pc EXCEPT ![s] = "release"] /\ UNCHANGED at
  BY <1>1, <1>2, GivingUpStep DEF StartComplete, CompleteFails, Interrupted
<1>3. CASE StartComplete(s) /\ pc' = [pc EXCEPT ![s] = "request"] /\ at' = [at EXCEPT ![s] = 1]
  BY <1>1, <1>3, WaitingStep DEF StartComplete, Waiting
<1>4. CASE CompleteFails(s) /\ at' = [at EXCEPT ![s] = @ + 1] /\ UNCHANGED pc
  <2>1. pc[s] = "request" /\ pc' = [pc EXCEPT ![s] = "request"]
    BY <1>4 DEF IInv, Shaped, OfSessions, CompleteFails
  <2>2. QED
    BY <1>1, <1>4, <2>1, WaitingStep DEF CompleteFails, Waiting
<1>5. QED
  BY <1>2, <1>3, <1>4 DEF StartComplete, CompleteFails, Interrupted

LEMMA CompleteAnswersStep ==
  ASSUME IInv, NEW s \in Sessions, CompleteAnswers(s) PROVE StepOf(s)
<1>1. Shaped /\ Good(s) /\ pc[s] = "request" /\ ~call[s].stream
  BY DEF IInv, Good, Kind, CompleteAnswers
<1>2. PICK raw \in Reports \cup {NoUsage} : usage' = [usage EXCEPT ![s] = AnsweredUsage(s, raw)]
  BY DEF CompleteAnswers
<1>3. AnsweredUsage(s, raw).complete \in BOOLEAN
  BY DEF AnsweredUsage, EmptyStreamUsage
<1>4. Shaped' /\ \A t \in Sessions \ {s} : Same(t)
  BY <1>1, <1>2 DEF CompleteAnswers, Shaped, OfSessions, Same
<1>5. /\ pc'[s] = "finalize" /\ accepted[s] = {} /\ accepted'[s] = {EntryOf(s)}
      /\ active'[s] = EntryOf(s) /\ usage'[s].complete \in BOOLEAN
  BY <1>1, <1>2, <1>3 DEF CompleteAnswers, Good, OneTaker, Waiting, Shaped, OfSessions
<1>6. Kind(s)' /\ OneTaker(s)'
  BY <1>1, <1>5 DEF CompleteAnswers, Good, Kind, OneTaker, States, Waiting
<1>7. ShownOfTaker(s)' /\ ToldOnce(s)' /\ ResolvedOnce(s)'
  BY <1>1, <1>5 DEF CompleteAnswers, Good, ShownOfTaker, ToldOnce, Told, ResolvedOnce, Resolved
<1>8. QED
  BY <1>4, <1>6, <1>7 DEF StepOf, Good

(* The only two steps that resolve a call.                                 *)
LEMMA ReleaseStep ==
  ASSUME IInv, NEW s \in Sessions, Release(s) PROVE StepOf(s)
<1>1. Shaped /\ Good(s) /\ pc[s] = "release"
  BY DEF IInv, Release
<1>2. Shaped' /\ \A t \in Sessions \ {s} : Same(t)
  BY <1>1 DEF Release, Shaped, OfSessions, Same
<1>3. pc'[s] = "done" /\ outcome'[s] = [outcome[s] EXCEPT !.released = @ + 1]
  BY <1>1 DEF Release, Shaped, OfSessions
<1>4. Kind(s)' /\ OneTaker(s)' /\ ShownOfTaker(s)' /\ ToldOnce(s)'
  BY <1>1, <1>3 DEF Release, Good, Kind, OneTaker, ShownOfTaker, ToldOnce, Told, States, Waiting
<1>5. ResolvedOnce(s)'
  <2>1. /\ outcome[s].released = 0 /\ outcome[s].settled = 0 /\ outcome[s].queued = 0
        /\ ~outcome[s].final
    BY <1>1 DEF Good, ResolvedOnce, Resolved
  <2>2. outcome'[s] = [outcome[s] EXCEPT !.released = 1]
    <3>1. outcome[s].released + 1 = 1
      BY <2>1
    <3>2. QED
      BY <1>3, <3>1
  <2>3. outcome'[s] = [released |-> 1, settled |-> 0, queued |-> 0, failed |-> outcome[s].failed,
                       final |-> outcome[s].final, price |-> outcome[s].price,
                       entry |-> outcome[s].entry]
    BY <1>1, <2>1, <2>2 DEF Good, ResolvedOnce
  <2>4. QED
    BY <1>1, <1>3, <2>1, <2>3 DEF Good, ResolvedOnce, Resolved
<1>6. QED
  BY <1>2, <1>4, <1>5 DEF StepOf, Good

LEMMA ResolveOnce ==
  ASSUME NEW s \in Sessions, OneTaker(s), ResolvedOnce(s), pc[s] = "finalize", ~outcome[s].final,
         NEW o \in Resolve(s, outcome[s])
  PROVE  /\ o = [released |-> o.released, settled |-> o.settled, queued |-> o.queued,
                 failed |-> o.failed, final |-> o.final, price |-> o.price, entry |-> o.entry]
         /\ o.released \in Nat /\ o.settled \in Nat /\ o.queued \in Nat
         /\ o.released + o.settled + o.queued <= 1
         /\ o.settled > 0 => o.entry \in accepted[s]
<1>1. /\ outcome[s].released = 0 /\ outcome[s].settled = 0 /\ outcome[s].queued = 0
  BY DEF ResolvedOnce, Resolved
<1>2. CASE o = [outcome[s] EXCEPT !.released = @ + 1] \/ o = [outcome[s] EXCEPT !.queued = @ + 1]
           \/ o = [outcome[s] EXCEPT !.failed = TRUE]
  BY <1>1, <1>2 DEF ResolvedOnce
<1>3. CASE /\ Authoritative(s)
           /\ o = [outcome[s] EXCEPT !.settled = @ + 1, !.price = PriceOf(s), !.entry = active[s]]
  <2>1. active[s] \in accepted[s]
    BY <1>3 DEF Authoritative, OneTaker
  <2>2. o = [released |-> 0, settled |-> 1, queued |-> 0, failed |-> outcome[s].failed,
             final |-> outcome[s].final, price |-> PriceOf(s), entry |-> active[s]]
    <3>1. outcome[s].settled + 1 = 1
      BY <1>1
    <3>2. o = [outcome[s] EXCEPT !.settled = 1, !.price = PriceOf(s), !.entry = active[s]]
      BY <1>3, <3>1
    <3>3. QED
      BY <1>1, <3>2 DEF ResolvedOnce
  <2>3. QED
    BY <2>1, <2>2
<1>4. QED
  BY <1>2, <1>3 DEF Resolve

LEMMA FinalizeStep ==
  ASSUME IInv, NEW s \in Sessions, Finalize(s) PROVE StepOf(s)
<1>1. Shaped /\ Good(s) /\ pc[s] = "finalize"
  BY DEF IInv, Finalize
<1>2. /\ pc'[s] \in {"finalize", "done"}
      /\ pc'[s] = "finalize" => call[s].stream /\ ~outcome[s].final
  BY <1>1 DEF Finalize, Finalized, Shaped, OfSessions
<1>3. UNCHANGED <<call, client, at, lifecycle, active, usage, sent, accepted>>
  BY DEF Finalize
<1>4. Kind(s)' /\ OneTaker(s)' /\ ShownOfTaker(s)' /\ ToldOnce(s)'
  BY <1>1, <1>2, <1>3 DEF Good, Kind, OneTaker, ShownOfTaker, ToldOnce, Told, States, Waiting
<1>5. CASE outcome[s].final
  <2>1. outcome' = outcome /\ pc'[s] = "done"
    BY <1>2, <1>5 DEF Finalize, Finalized
  <2>2. ResolvedOnce(s)'
    BY <1>1, <1>3, <2>1 DEF Good, ResolvedOnce, Resolved
  <2>3. Shaped' /\ \A t \in Sessions \ {s} : Same(t)
    BY <1>1, <1>3, <2>1 DEF Finalize, Shaped, OfSessions, Same
  <2>4. QED
    BY <1>4, <2>2, <2>3 DEF StepOf, Good
<1>6. CASE ~outcome[s].final
  <2>1. PICK o \in Resolve(s, outcome[s]) :
           outcome' = [outcome EXCEPT ![s] = [o EXCEPT !.final = TRUE]]
    BY <1>6 DEF Finalize, Finalized
  <2>2. outcome'[s] = [o EXCEPT !.final = TRUE]
    BY <1>1, <2>1 DEF Shaped, OfSessions
  <2>3. /\ o.released \in Nat /\ o.settled \in Nat /\ o.queued \in Nat
        /\ o.released + o.settled + o.queued <= 1
        /\ o.settled > 0 => o.entry \in accepted[s]
        /\ o = [released |-> o.released, settled |-> o.settled, queued |-> o.queued,
                failed |-> o.failed, final |-> o.final, price |-> o.price, entry |-> o.entry]
    BY <1>1, <1>6, ResolveOnce DEF Good
  <2>4. outcome'[s] = [released |-> o.released, settled |-> o.settled, queued |-> o.queued,
                       failed |-> o.failed, final |-> TRUE, price |-> o.price,
                       entry |-> o.entry]
    BY <2>2, <2>3
  <2>5. ResolvedOnce(s)'
    <3>1. /\ outcome'[s].released = o.released /\ outcome'[s].settled = o.settled
          /\ outcome'[s].queued = o.queued /\ outcome'[s].final = TRUE
          /\ outcome'[s].entry = o.entry
          /\ outcome'[s] = [released |-> outcome'[s].released, settled |-> outcome'[s].settled,
                            queued |-> outcome'[s].queued, failed |-> outcome'[s].failed,
                            final |-> outcome'[s].final, price |-> outcome'[s].price,
                            entry |-> outcome'[s].entry]
      BY <2>4
    <3>2. pc'[s] \in {"finalize", "done"} /\ (pc'[s] = "finalize" => call'[s].stream)
      BY <1>2, <1>3
    <3>3. accepted' = accepted
      BY <1>3
    <3>4. QED
      BY <2>3, <3>1, <3>2, <3>3 DEF ResolvedOnce, Resolved
  <2>6. Shaped' /\ \A t \in Sessions \ {s} : Same(t)
    BY <1>1, <1>3, <2>1 DEF Finalize, Shaped, OfSessions, Same
  <2>7. QED
    BY <1>4, <2>5, <2>6 DEF StepOf, Good
<1>7. QED
  BY <1>5, <1>6

LEMMA DisconnectStep ==
  ASSUME IInv, NEW s \in Sessions, Disconnect(s) PROVE StepOf(s)
<1>1. Shaped /\ Good(s)
  BY DEF IInv
<1>2. UNCHANGED <<call, pc, at, active, usage, sent, outcome, accepted>>
  BY DEF Disconnect
<1>3. /\ OfSessions(lifecycle)' /\ (lifecycle'[s] = lifecycle[s] \/ lifecycle'[s].tag # "committed")
      /\ \A t \in Sessions \ {s} : lifecycle'[t] = lifecycle[t]
  BY <1>1, NotedEnd DEF Disconnect, Shaped
<1>4. Shaped' /\ \A t \in Sessions \ {s} : Same(t)
  BY <1>1, <1>2, <1>3 DEF Disconnect, Shaped, OfSessions, Same
<1>5. Kind(s)' /\ OneTaker(s)' /\ ToldOnce(s)' /\ ResolvedOnce(s)'
  <2>1. EntryOf(s)' = EntryOf(s)
    BY <1>2 DEF EntryOf
  <2>2. QED
    BY <1>1, <1>2, <2>1 DEF Good, Kind, OneTaker, ToldOnce, Told, ResolvedOnce, Resolved
<1>6. ShownOfTaker(s)'
  BY <1>1, <1>2, <1>3 DEF Good, ShownOfTaker
<1>7. QED
  BY <1>4, <1>5, <1>6 DEF StepOf, Good

LEMMA NextKeeps == IInv /\ [Next]_vars => IInv'
<1> SUFFICES ASSUME IInv, [Next]_vars PROVE IInv'
  OBVIOUS
<1>1. ASSUME NEW s \in Sessions, Gateway(s) PROVE IInv'
  BY <1>1, StepKeeps, OpenStreamStep, PrepareStep, HeadersFailStep, BodyFailStep,
     CompletionStep, ReleaseStep, FinalizeStep DEF Gateway
<1>2. ASSUME NEW s \in Sessions, Provider(s) PROVE IInv'
  BY <1>2, StepKeeps, HeadersFailStep, HeadersArriveStep, DeltaStep, AdapterStep,
     BodyEndsStep, BodyFailStep, CompletionStep, CompleteAnswersStep DEF Provider
<1>3. ASSUME NEW s \in Sessions, Disconnect(s) PROVE IInv'
  BY <1>3, StepKeeps, DisconnectStep
<1>4. CASE Deactivate \/ UNCHANGED vars
  <2>1. UNCHANGED <<call, pc, client, at, lifecycle, active, usage, sent, outcome, accepted>>
    BY <1>4 DEF Deactivate, vars
  <2>2. \A s \in Sessions : Same(s)
    BY <2>1 DEF Same
  <2>3. Shaped'
    BY <2>1 DEF IInv, Shaped, OfSessions
  <2>4. QED
    BY <2>2, <2>3, SameGood DEF IInv
<1>5. QED
  BY <1>1, <1>2, <1>3, <1>4 DEF Next

LEMMA Invariant == Spec => []IInv
<1>1. Init => IInv
  BY InitGood
<1>2. IInv /\ [Next]_vars => IInv'
  BY NextKeeps
<1>3. QED
  BY <1>1, <1>2, PTL DEF Spec

-----------------------------------------------------------------------------
LEMMA AtMostOne ==
  ASSUME NEW S, S = {} \/ \E e : S = {e} PROVE Cardinality(S) <= 1
<1>1. CASE S = {}
  BY <1>1, FS_EmptySet
<1>2. ASSUME NEW e, S = {e} PROVE Cardinality(S) <= 1
  <2>1. Cardinality({e}) = 1
    BY FS_Singleton
  <2>2. QED
    BY <1>2, <2>1
<1>3. QED
  BY <1>1, <1>2

(* A stream that a provider took is given to no other one                  *)
(* (decideFallback, isFallbackAllowed), however long the list of entries.  *)
THEOREM OneProviderAccepts == Spec => []NoFallbackAfterAccept
<1>1. IInv => NoFallbackAfterAccept
  <2> SUFFICES ASSUME IInv, NEW s \in Sessions PROVE Cardinality(accepted[s]) <= 1
    BY DEF NoFallbackAfterAccept
  <2>1. accepted[s] = {} \/ \E e \in accepted[s] : accepted[s] = {e}
    BY DEF IInv, Good, OneTaker
  <2>2. QED
    BY <2>1, AtMostOne
<1>2. QED
  BY <1>1, Invariant, PTL

(* What the client reads and what it is billed for is of one entry         *)
(* (transitionStream, the activeEntry of the routes).                      *)
THEOREM OneEntryAnswers == Spec => []AnswerOfOne
<1>1. IInv => AnswerOfOne
  <2> SUFFICES ASSUME IInv, NEW s \in Sessions
               PROVE  /\ Cardinality(sent[s].deltas) <= 1
                      /\ sent[s].deltas # {} => active[s] \in sent[s].deltas
                      /\ outcome[s].settled > 0 => outcome[s].entry \in accepted[s]
                      /\ lifecycle[s].tag = "committed" => sent[s].deltas = {lifecycle[s].entry}
    BY DEF AnswerOfOne
  <2>1. sent[s].deltas = {} \/ \E e \in accepted[s] : sent[s].deltas = {e}
    BY DEF IInv, Good, OneTaker, ShownOfTaker
  <2>2. Cardinality(sent[s].deltas) <= 1
    BY <2>1, AtMostOne
  <2>3. QED
    BY <2>2 DEF IInv, Good, ShownOfTaker, ResolvedOnce
<1>2. QED
  BY <1>1, Invariant, PTL

(* A client is told of one end (enqueueTerminalError, enqueueAppError).    *)
THEOREM OneEndIsTold == Spec => []OneTerminal
<1>1. IInv => OneTerminal
  BY DEF IInv, Good, ToldOnce, Told, OneTerminal
<1>2. QED
  BY <1>1, Invariant, PTL

(* A call is released, settled or queued once (the flag of                 *)
(* openStreamGeneration, onExit of completeGeneration).                    *)
THEOREM ResolvedAtMostOnce == Spec => []FinalizedOnce
<1>1. IInv => FinalizedOnce
  BY DEF IInv, Good, ResolvedOnce, Resolved, FinalizedOnce
<1>2. QED
  BY <1>1, Invariant, PTL

(* One entry answers, and one provider takes the call.                     *)
THEOREM AnsweredByOne == Spec => []OneAnswers
<1>1. AnswerOfOne /\ NoFallbackAfterAccept => OneAnswers
  BY DEF OneAnswers
<1>2. QED
  BY <1>1, OneProviderAccepts, OneEntryAnswers, PTL

(* The client is told one end and the ledger takes one.                    *)
THEOREM EndsOnce == Spec => []OneEnd
<1>1. OneTerminal /\ FinalizedOnce => OneEnd
  BY DEF OneEnd
<1>2. QED
  BY <1>1, OneEndIsTold, ResolvedAtMostOnce, PTL

-----------------------------------------------------------------------------
(* The order in which entries are tried.                                   *)
LEMMA ActiveFinite ==
  /\ IsFiniteSet(ActiveEntries) /\ Cardinality(ActiveEntries) \in Nat
  /\ ActiveEntries \subseteq Nat \ {NoEntry}
  /\ \A i \in ActiveEntries : Model.entries[i].priority \in Nat
<1>1. ActiveEntries \in SUBSET Indexes
  BY DEF ActiveEntries
<1>2. IsFiniteSet(ActiveEntries)
  BY <1>1, GenerationAssumption, FS_Subset
<1>3. QED
  BY <1>1, <1>2, GenerationAssumption, FS_CardinalityType

(* Before is a strict and total order of the active entries.               *)
LEMMA BeforeOrders ==
  \A i, j, k \in ActiveEntries :
      /\ ~Before(i, i)
      /\ i # j => Before(i, j) \/ Before(j, i)
      /\ Before(i, j) /\ Before(j, k) => Before(i, k)
  BY ActiveFinite DEF Before

LEMMA EarlierCounts ==
  \A i \in ActiveEntries : Earlier(i) \in 0 .. Cardinality(ActiveEntries) - 1
<1> TAKE i \in ActiveEntries
<1> DEFINE E == {j \in ActiveEntries : Before(j, i)}
<1>1. E \in SUBSET (ActiveEntries \ {i})
  BY BeforeOrders
<1>2. /\ IsFiniteSet(ActiveEntries \ {i})
      /\ Cardinality(ActiveEntries \ {i}) = Cardinality(ActiveEntries) - 1
  BY ActiveFinite, FS_RemoveElement
<1>3. IsFiniteSet(E) /\ Cardinality(E) <= Cardinality(ActiveEntries) - 1
  BY <1>1, <1>2, FS_Subset
<1>4. Cardinality(E) \in Nat
  BY <1>3, FS_CardinalityType
<1>5. QED
  BY <1>3, <1>4, ActiveFinite DEF Earlier

LEMMA EarlierOrders ==
  \A i, j \in ActiveEntries : Before(i, j) => Earlier(i) < Earlier(j)
<1> SUFFICES ASSUME NEW i \in ActiveEntries, NEW j \in ActiveEntries, Before(i, j)
             PROVE  Earlier(i) < Earlier(j)
  OBVIOUS
<1> DEFINE E(k) == {l \in ActiveEntries : Before(l, k)}
<1>1. E(i) \cup {i} \in SUBSET E(j)
  BY BeforeOrders
<1>2. IsFiniteSet(E(i)) /\ IsFiniteSet(E(j))
  <2>1. E(i) \in SUBSET ActiveEntries /\ E(j) \in SUBSET ActiveEntries
    OBVIOUS
  <2>2. QED
    BY <2>1, ActiveFinite, FS_Subset
<1>3. i \notin E(i)
  BY BeforeOrders
<1> HIDE DEF E
<1>4. Cardinality(E(i) \cup {i}) = Cardinality(E(i)) + 1
  BY <1>2, <1>3, FS_AddElement
<1>5. Cardinality(E(i)) + 1 <= Cardinality(E(j))
  BY <1>1, <1>2, <1>4, FS_Subset
<1>6. Cardinality(E(i)) \in Nat /\ Cardinality(E(j)) \in Nat
  BY <1>2, FS_CardinalityType
<1>7. QED
  BY <1>5, <1>6 DEF Earlier, E

(* Every place of the list is taken, as there are as many as entries.      *)
LEMMA EarlierCovers ==
  \A k \in 1 .. Cardinality(ActiveEntries) : \E i \in ActiveEntries : Earlier(i) = k - 1
<1> DEFINE N == Cardinality(ActiveEntries)
           place == [i \in ActiveEntries |-> Earlier(i) + 1]
<1>1. N \in Nat
  BY ActiveFinite
<1>2. place \in [ActiveEntries -> 1 .. N]
  BY <1>1, EarlierCounts
<1>3. \A i, j \in ActiveEntries : i # j => Earlier(i) # Earlier(j)
  BY BeforeOrders, EarlierOrders, EarlierCounts, <1>1
<1>4. \A i, j \in ActiveEntries : place[i] = place[j] => i = j
  BY <1>1, <1>3, EarlierCounts
<1>5. place \in Injection(ActiveEntries, 1 .. N)
  BY <1>2, <1>4 DEF Injection, IsInjective
<1>6. IsFiniteSet(1 .. N) /\ Cardinality(1 .. N) = N
  BY <1>1, FS_Interval
<1>7. place \in Surjection(ActiveEntries, 1 .. N)
  BY <1>5, <1>6, FS_Injection
<1>8. \A k \in 1 .. N : \E i \in ActiveEntries : place[i] = k
  BY <1>7 DEF Surjection
<1>9. QED
  BY <1>1, <1>8, EarlierCounts

(* selectActiveEntries gives every active entry one place, by priority and *)
(* then by position: nothing is tried twice, and no active entry is left   *)
(* out.                                                                    *)
THEOREM SelectedInOrder ==
  /\ Selected \in [1 .. Cardinality(ActiveEntries) -> ActiveEntries]
  /\ Len(Selected) = Cardinality(ActiveEntries)
  /\ ToSet(Selected) = ActiveEntries
  /\ \A k, l \in 1 .. Cardinality(ActiveEntries) : k < l => Before(Selected[k], Selected[l])
<1> DEFINE N == Cardinality(ActiveEntries)
<1>1. N \in Nat
  BY ActiveFinite
<1>2. \A k \in 1 .. N : Selected[k] \in ActiveEntries /\ Earlier(Selected[k]) = k - 1
  BY EarlierCovers DEF Selected
<1>3. Selected \in [1 .. N -> ActiveEntries]
  BY <1>2 DEF Selected
<1>4. Len(Selected) = N
  BY <1>1, <1>3, LenProperties
<1>5. \A k, l \in 1 .. N : k < l => Before(Selected[k], Selected[l])
  <2> SUFFICES ASSUME NEW k \in 1 .. N, NEW l \in 1 .. N, k < l
               PROVE  Before(Selected[k], Selected[l])
    OBVIOUS
  <2>1. Earlier(Selected[k]) = k - 1 /\ Earlier(Selected[l]) = l - 1
    BY <1>2
  <2>2. ~Before(Selected[l], Selected[k]) /\ Selected[k] # Selected[l]
    BY <1>1, <1>2, <2>1, EarlierOrders
  <2>3. QED
    BY <1>2, <2>2, BeforeOrders
<1>6. \A i \in ActiveEntries : \E k \in 1 .. N : Selected[k] = i
  <2> SUFFICES ASSUME NEW i \in ActiveEntries PROVE \E k \in 1 .. N : Selected[k] = i
    OBVIOUS
  <2>1. Earlier(i) + 1 \in 1 .. N
    BY <1>1, EarlierCounts
  <2>2. Earlier(Selected[Earlier(i) + 1]) = Earlier(i)
    BY <1>1, <1>2, <2>1, EarlierCounts
  <2>3. Selected[Earlier(i) + 1] = i
    BY <1>1, <1>2, <2>1, <2>2, BeforeOrders, EarlierOrders, EarlierCounts
  <2>4. QED
    BY <2>1, <2>3
<1>7. ToSet(Selected) = ActiveEntries
  BY <1>3, <1>6 DEF ToSet
<1>8. QED
  BY <1>3, <1>4, <1>5, <1>7

-----------------------------------------------------------------------------
(* What is known of a call besides: it is at an entry of the list, what it *)
(* has read of its usage are numbers, and its outcome is what its ends     *)
(* entitle it to.                                                          *)
Tags == {"pre_commit", "committed", "terminal", "interrupted", "provider_failed"}
AtEntry == {"prepare", "headers", "body", "request"}

Fields == Nat \cup {Absent}
UsageType == [prompt : Fields, completion : Fields, reasoning : Fields, cacheRead : Fields,
              cacheWrite : Fields, total : Fields, accounting : {"additive", "subset"}]
AdapterType == [usage : {"none", "reported", "invalidated"}, report : UsageType,
                malformed : BOOLEAN, stopped : BOOLEAN, committed : BOOLEAN]

(* A report that may be charged counts both sides.                         *)
Counted(u) == u.prompt \in Nat /\ u.completion \in Nat

Placed(s) == /\ at[s] \in 0 .. Len(Selected)
             /\ pc[s] \in AtEntry => at[s] >= 1
             /\ active[s] \in {NoEntry} \cup ActiveEntries
             /\ accepted[s] \subseteq ActiveEntries
             /\ client[s] \in {"here", "cancelled", "aborted"}
             /\ lifecycle[s].tag \in Tags

Reading(s) == /\ adapter[s] \in AdapterType
              /\ pc[s] \in Waiting => adapter[s].usage = "none"
              /\ adapter[s].usage = "reported" /\ TypeOfEntry(s) = "openai"
                   => Counted(adapter[s].report)

Metered(s) == /\ usage[s].report \in UsageType
              /\ usage[s].report # NoUsage => Counted(usage[s].report)

(* What is settled is authoritative, and what is released was of no entry. *)
Ended(s) == /\ call[s].stream => (sent[s].dones > 0 <=> usage[s].complete)
            /\ call[s].stream /\ outcome[s].released > 0 => active[s] = NoEntry
            /\ outcome[s].settled > 0 => /\ Authoritative(s)
                                         /\ outcome[s].price = PriceOf(s)
                                         /\ outcome[s].entry = active[s]

Sound(s) == Placed(s) /\ Reading(s) /\ Metered(s) /\ Ended(s)

JInv == /\ IInv /\ OfSessions(adapter)
        /\ call \in [Sessions -> CallKinds] /\ inactive \subseteq Indexes
        /\ \A s \in Sessions : Sound(s)

JStep(s) == /\ Sound(s)' /\ OfSessions(adapter)' /\ UNCHANGED <<call, inactive>>
            /\ \A t \in Sessions \ {s} : adapter'[t] = adapter[t] /\ client'[t] = client[t]

-----------------------------------------------------------------------------
(* What the readers make of a report (provider-usage.ts).                  *)
LEMMA NumFieldReads ==
  \A v : /\ NumField(v) \in Fields \cup {Malformed}
         /\ NumField(v) = Absent => v = Absent
         /\ NumField(v) # Malformed => NumField(v) = v
  BY ChargesAssumption DEF NumField, Fields, Absent, Malformed

LEMMA TotalIsField ==
  ASSUME NEW u \in UsageType, Counted(u) PROVE ProcessedTotal(u) \in Fields
<1>1. PartsSum(u) \in Fields
  BY ChargesAssumption DEF UsageType, Fields, Counted, PartsSum, SafeSum, OrZero, Absent
<1>2. QED
  BY <1>1 DEF UsageType, Fields, ProcessedTotal, OrZero, Larger, Absent

LEMMA ReadReads ==
  ASSUME NEW raw, NEW accounting \in {"additive", "subset"}, NEW u,
         u = Read(raw, accounting) \/ u = [Read(raw, accounting) EXCEPT !.total = Absent],
         ~SomeMalformed(u), raw.prompt # Absent, raw.completion # Absent
  PROVE  u \in UsageType /\ Counted(u)
<1>1. u = [prompt |-> NumField(raw.prompt), completion |-> NumField(raw.completion),
           reasoning |-> NumField(raw.reasoning), cacheRead |-> NumField(raw.cacheRead),
           cacheWrite |-> NumField(raw.cacheWrite), total |-> u.total,
           accounting |-> accounting]
      /\ (u.total = NumField(raw.total) \/ u.total = Absent)
  BY DEF Read
<1>2. /\ NumField(raw.prompt) \in Fields /\ NumField(raw.completion) \in Fields
      /\ NumField(raw.reasoning) \in Fields /\ NumField(raw.cacheRead) \in Fields
      /\ NumField(raw.cacheWrite) \in Fields /\ u.total \in Fields
  BY <1>1, NumFieldReads DEF SomeMalformed, Fields
<1>3. u.prompt \in Nat /\ u.completion \in Nat
  BY <1>1, <1>2, NumFieldReads DEF Fields
<1>4. QED
  BY <1>1, <1>2, <1>3 DEF UsageType, Counted

LEMMA ReportedReads ==
  ASSUME NEW u \in UsageType, Counted(u)
  PROVE  Reported(u).usage \in UsageType /\ Counted(Reported(u).usage)
  BY TotalIsField DEF Reported, UsageType, Counted

LEMMA ParseReads ==
  ASSUME NEW raw, NEW parsed \in {ParseOpenAI(raw), ParseAnthropic(raw)},
         parsed.status = "reported"
  PROVE  parsed.usage \in UsageType /\ Counted(parsed.usage)
<1>1. \A reason : Missing(reason).status # "reported"
  BY DEF Missing
<1>2. CASE parsed = ParseOpenAI(raw)
  <2> DEFINE u == Read(raw, "subset")
  <2>1. /\ raw.prompt # Absent /\ raw.completion # Absent
        /\ ~SomeMalformed(u) /\ parsed = Reported(u)
    BY <1>1, <1>2 DEF ParseOpenAI
  <2>2. u \in UsageType /\ Counted(u)
    BY <2>1, ReadReads
  <2>3. QED
    BY <2>1, <2>2, ReportedReads
<1>3. CASE parsed = ParseAnthropic(raw)
  <2> DEFINE u == [Read(raw, "additive") EXCEPT !.total = Absent]
  <2>1. /\ raw.prompt # Absent /\ raw.completion # Absent
        /\ ~SomeMalformed(u) /\ parsed = Reported(u)
    BY <1>1, <1>3 DEF ParseAnthropic
  <2>2. u \in UsageType /\ Counted(u)
    BY <2>1, ReadReads
  <2>3. QED
    BY <2>1, <2>2, ReportedReads
<1>4. QED
  BY <1>2, <1>3

LEMMA MergeReads ==
  ASSUME NEW u \in UsageType, NEW raw, UsableFragment(raw)
  PROVE  MergeFragment(u, raw) \in UsageType
<1> DEFINE v == [Read(raw, "additive") EXCEPT !.total = Absent]
<1>1. ~SomeMalformed(v)
  BY DEF UsableFragment
<1>2. v = [prompt |-> NumField(raw.prompt), completion |-> NumField(raw.completion),
           reasoning |-> NumField(raw.reasoning), cacheRead |-> NumField(raw.cacheRead),
           cacheWrite |-> NumField(raw.cacheWrite), total |-> Absent,
           accounting |-> "additive"]
  BY DEF Read
<1>3. Malformed \notin {v.prompt, v.completion, v.reasoning, v.cacheRead, v.cacheWrite, v.total}
  BY <1>1 DEF SomeMalformed
<1>4. /\ raw.prompt \in Fields /\ raw.completion \in Fields /\ raw.reasoning \in Fields
      /\ raw.cacheRead \in Fields /\ raw.cacheWrite \in Fields
  BY <1>2, <1>3, NumFieldReads
<1>5. \A f, g \in Fields : Larger(f, g) \in Fields
  BY DEF Larger
<1>6. QED
  BY <1>4, <1>5 DEF MergeFragment, UsageType

LEMMA NoUsageReads == NoUsage \in UsageType
  BY DEF NoUsage, UsageType, Fields

LEMMA DoneUsageReads ==
  ASSUME NEW s \in Sessions, Reading(s)
  PROVE  DoneUsage(s) \in UsageType /\ (DoneUsage(s) # NoUsage => Counted(DoneUsage(s)))
<1> DEFINE a == adapter[s]
<1>1. a.report \in UsageType
  BY DEF Reading, AdapterType
<1>2. CASE DoneUsage(s) = NoUsage
  BY <1>2, NoUsageReads
<1>3. CASE DoneUsage(s) = a.report /\ Counted(a.report)
  BY <1>1, <1>3
<1>4. CASE FragmentsComplete(a.report)
           /\ DoneUsage(s) = [a.report EXCEPT !.total = ProcessedTotal(a.report)]
  <2>1. Counted(a.report)
    BY <1>1, <1>4 DEF FragmentsComplete, UsageType, Fields, Counted
  <2>2. ProcessedTotal(a.report) \in Fields
    BY <1>1, <2>1, TotalIsField
  <2>3. QED
    BY <1>1, <1>4, <2>1, <2>2 DEF UsageType, Counted
<1>5. QED
  BY <1>2, <1>3, <1>4 DEF DoneUsage, Reading

LEMMA AdapterReads ==
  ASSUME NEW a \in AdapterType, NEW raw
  PROVE  /\ OpenAIUsage(a, raw) \in AdapterType /\ AnthropicUsage(a, raw) \in AdapterType
         /\ OpenAIUsage(a, raw).usage = "reported"
              => OpenAIUsage(a, raw) = a \/ Counted(OpenAIUsage(a, raw).report)
<1>1. AnthropicUsage(a, raw) \in AdapterType
  <2>1. CASE UsableFragment(raw)
    <3>1. MergeFragment(a.report, raw) \in UsageType
      BY <2>1, MergeReads DEF AdapterType
    <3>2. QED
      BY <3>1 DEF AnthropicUsage, AdapterType
  <2>2. CASE ~UsableFragment(raw)
    BY <2>2 DEF AnthropicUsage, AdapterType
  <2>3. QED
    BY <2>1, <2>2
<1>2. CASE raw # NoUsage /\ ParseOpenAI(raw).status = "reported"
  <2> DEFINE u == ParseOpenAI(raw).usage
  <2>1. u \in UsageType /\ Counted(u)
    BY <1>2, ParseReads
  <2> HIDE DEF u
  <2>2. /\ [a EXCEPT !.usage = "reported", !.report = u] \in AdapterType
        /\ [a EXCEPT !.usage = "reported", !.report = u].report = u
    BY <2>1 DEF AdapterType
  <2>3. OpenAIUsage(a, raw) = a \/ OpenAIUsage(a, raw) = [a EXCEPT !.usage = "reported", !.report = u]
    BY <1>2 DEF OpenAIUsage, u
  <2>4. /\ OpenAIUsage(a, raw) \in AdapterType
        /\ OpenAIUsage(a, raw) = a \/ Counted(OpenAIUsage(a, raw).report)
    BY <2>1, <2>2, <2>3
  <2>5. QED
    BY <2>4, <1>1
<1>3. CASE ~(raw # NoUsage /\ ParseOpenAI(raw).status = "reported")
  <2>1. OpenAIUsage(a, raw) = a \/ OpenAIUsage(a, raw) = [a EXCEPT !.usage = "invalidated"]
    BY <1>3 DEF OpenAIUsage
  <2>2. QED
    BY <2>1, <1>1 DEF AdapterType
<1>4. QED
  BY <1>2, <1>3

-----------------------------------------------------------------------------
LEMMA ListProper ==
  /\ Len(Selected) \in Nat
  /\ \A i \in 1 .. Len(Selected) : Selected[i] \in ActiveEntries
  /\ Selected # <<>> => Len(Selected) >= 1
<1>1. /\ Selected \in [1 .. Len(Selected) -> ActiveEntries]
      /\ Len(Selected) \in Nat
  BY SelectedInOrder, ActiveFinite
<1>2. Len(Selected) = 0 => Selected = <<>>
  BY <1>1, EmptySeq
<1>3. QED
  BY <1>1, <1>2

LEMMA EntryIsActive ==
  ASSUME NEW s \in Sessions, Placed(s), pc[s] \in AtEntry PROVE EntryOf(s) \in ActiveEntries
  BY ListProper DEF Placed, EntryOf

LEMMA FreshReads == FreshAdapter \in AdapterType /\ FreshAdapter.usage = "none"
  BY NoUsageReads DEF FreshAdapter, AdapterType

LEMMA InitSound == Init => JInv
<1> SUFFICES ASSUME Init PROVE JInv
  OBVIOUS
<1>1. IInv /\ OfSessions(adapter) /\ call \in [Sessions -> CallKinds] /\ inactive \subseteq Indexes
  BY InitGood DEF Init, OfSessions
<1>2. ASSUME NEW s \in Sessions PROVE Sound(s)
  <2>1. /\ pc[s] = "new" /\ client[s] = "here" /\ at[s] = 0 /\ adapter[s] = FreshAdapter
        /\ lifecycle[s].tag = "pre_commit" /\ active[s] = NoEntry
        /\ usage[s].complete = FALSE /\ usage[s].report = NoUsage
        /\ sent[s].dones = 0 /\ outcome[s].settled = 0 /\ outcome[s].released = 0
        /\ accepted[s] = {}
    BY DEF Init, PreCommit, EmptyStreamUsage, NothingSent
  <2>2. Placed(s)
    BY <2>1, ListProper DEF Placed, AtEntry, Tags
  <2>3. Reading(s) /\ Metered(s)
    BY <2>1, FreshReads, NoUsageReads DEF Reading, Metered
  <2>4. Ended(s)
    BY <2>1 DEF Ended
  <2>5. QED
    BY <2>2, <2>3, <2>4 DEF Sound
<1>3. QED
  BY <1>1, <1>2 DEF JInv

LEMMA SameCharges ==
  ASSUME NEW t, call'[t] = call[t], usage'[t] = usage[t], active'[t] = active[t]
  PROVE  (Authoritative(t))' = Authoritative(t) /\ (PriceOf(t))' = PriceOf(t)
<1>1. (Authoritative(t))' = Authoritative(t)
  BY DEF Authoritative
<1>2. QED
  BY <1>1 DEF PriceOf

LEMMA SameSound ==
  ASSUME NEW t, Sound(t), Same(t), adapter'[t] = adapter[t], client'[t] = client[t]
  PROVE  Sound(t)'
<1>1. TypeOfEntry(t)' = TypeOfEntry(t)
  BY DEF Same, TypeOfEntry, EntryOf
<1>2. Placed(t)' /\ Reading(t)' /\ Metered(t)'
  BY <1>1 DEF Same, Sound, Placed, Reading, Metered
<1>3. Ended(t)'
  BY SameCharges DEF Same, Sound, Ended
<1>4. QED
  BY <1>2, <1>3 DEF Sound

LEMMA SoundKeeps ==
  ASSUME JInv, NEW s \in Sessions, StepOf(s), JStep(s) PROVE JInv'
<1>1. IInv'
  BY StepKeeps DEF JInv
<1>2. \A t \in Sessions : Sound(t)'
  BY SameSound DEF JInv, StepOf, JStep
<1>3. QED
  BY <1>1, <1>2 DEF JInv, JStep

(* Before finalize there is no outcome.                                    *)
LEMMA EndedOpen ==
  ASSUME NEW s \in Sessions, Good(s), outcome' = outcome,
         pc[s] \notin {"finalize", "done"} \/ (pc[s] = "finalize" /\ ~call[s].stream),
         call'[s].stream => (sent'[s].dones > 0 <=> usage'[s].complete)
  PROVE  Ended(s)'
<1>1. outcome[s].settled = 0 /\ outcome[s].released = 0
  <2>1. pc[s] # "done" /\ ~outcome[s].final
    BY DEF Good, ResolvedOnce
  <2>2. Resolved(s) = 0
    BY <2>1 DEF Good, ResolvedOnce
  <2>3. /\ outcome[s].released \in Nat /\ outcome[s].settled \in Nat
        /\ outcome[s].queued \in Nat
    BY DEF Good, ResolvedOnce
  <2>4. QED
    BY <2>2, <2>3 DEF Resolved
<1>2. QED
  BY <1>1 DEF Ended

LEMMA NotedTag ==
  ASSUME NEW s \in Sessions, NEW event, OfSessions(lifecycle), Note(s, event),
         lifecycle[s].tag \in Tags,
         event.type \in {"delta", "done", "interrupt", "provider_error"}
  PROVE  lifecycle'[s].tag \in Tags
<1>1. lifecycle'[s] = Transition(lifecycle[s], event)
  BY DEF Note, OfSessions
<1>2. CASE Over(lifecycle[s])
  BY <1>1, <1>2 DEF Transition
<1>3. CASE ~Over(lifecycle[s])
  BY <1>1, <1>3 DEF Transition, Tags
<1>4. QED
  BY <1>2, <1>3

LEMMA StoppingSound ==
  ASSUME JInv, NEW s \in Sessions, Stopping(s), UNCHANGED inactive,
         adapter' = adapter \/ adapter' = [adapter EXCEPT ![s].committed = TRUE]
  PROVE  JStep(s)
<1>1. Shaped /\ Good(s) /\ Sound(s) /\ OfSessions(adapter)
  BY DEF JInv, IInv
<1>2. pc'[s] = "finalize"
  BY <1>1 DEF Stopping, Shaped, OfSessions
<1>3. active'[s] \in {NoEntry} \cup ActiveEntries
  <2>1. pc[s] # "new" => EntryOf(s) \in ActiveEntries
    BY <1>1, EntryIsActive DEF Sound, Stopping, Streaming, AtEntry
  <2>2. QED
    BY <1>1, <2>1 DEF Stopping, Shaped, OfSessions, Sound, Placed
<1>4. lifecycle'[s].tag \in Tags
  <2>1. PICK event \in {InterruptEvent, ErrorEvent} : Note(s, event)
    BY DEF Stopping
  <2>2. event.type \in {"interrupt", "provider_error"}
    BY DEF InterruptEvent, ErrorEvent
  <2>3. QED
    BY <1>1, <2>1, <2>2, NotedTag DEF Shaped, Sound, Placed
<1>5. Placed(s)'
  BY <1>1, <1>2, <1>3, <1>4 DEF Stopping, Sound, Placed, AtEntry
<1>6. /\ adapter'[s] \in AdapterType /\ adapter'[s].usage = adapter[s].usage
      /\ adapter'[s].report = adapter[s].report
      /\ OfSessions(adapter)' /\ \A t \in Sessions \ {s} : adapter'[t] = adapter[t]
  <2>1. adapter[s] \in AdapterType
    BY <1>1 DEF Sound, Reading
  <2>2. adapter'[s] = adapter[s] \/ adapter'[s] = [adapter[s] EXCEPT !.committed = TRUE]
    BY <1>1 DEF OfSessions
  <2>3. OfSessions(adapter)' /\ \A t \in Sessions \ {s} : adapter'[t] = adapter[t]
    BY <1>1 DEF OfSessions
  <2>4. QED
    BY <2>1, <2>2, <2>3 DEF AdapterType
<1>7. TypeOfEntry(s)' = TypeOfEntry(s)
  BY DEF Stopping, TypeOfEntry, EntryOf
<1>8. Reading(s)'
  BY <1>1, <1>2, <1>6, <1>7 DEF Sound, Reading, Waiting
<1>9. Metered(s)'
  BY <1>1 DEF Stopping, Sound, Metered
<1>10. sent'[s].dones = sent[s].dones
  BY <1>1 DEF Good, ToldOnce, Stopping, Shaped, OfSessions
<1>11. Ended(s)'
  BY <1>1, <1>10, EndedOpen DEF Stopping, Streaming, Sound, Ended
<1>12. QED
  BY <1>5, <1>6, <1>8, <1>9, <1>11 DEF JStep, Sound, Stopping

LEMMA WaitingSound ==
  ASSUME JInv, NEW s \in Sessions, pc[s] \in Waiting, NEW to \in Waiting,
         pc' = [pc EXCEPT ![s] = to],
         (at' = at /\ at[s] >= 1) \/ \E i \in 1 .. Len(Selected) : at' = [at EXCEPT ![s] = i],
         adapter' = adapter \/ adapter' = [adapter EXCEPT ![s] = FreshAdapter],
         UNCHANGED <<call, inactive, client, lifecycle, active, usage, sent, outcome, accepted>>
  PROVE  JStep(s)
<1>1. Shaped /\ Good(s) /\ Sound(s) /\ OfSessions(adapter)
  BY DEF JInv, IInv
<1>2. /\ adapter'[s] \in AdapterType /\ adapter'[s].usage = "none"
      /\ OfSessions(adapter)' /\ \A t \in Sessions \ {s} : adapter'[t] = adapter[t]
  BY <1>1, FreshReads DEF OfSessions, Sound, Reading
<1>3. at'[s] \in 1 .. Len(Selected)
  BY <1>1, ListProper DEF Sound, Placed, Shaped, OfSessions
<1>4. Placed(s)' /\ Reading(s)' /\ Metered(s)'
  BY <1>1, <1>2, <1>3, ListProper DEF Sound, Placed, Reading, Metered
<1>5. Ended(s)'
  BY <1>1, EndedOpen DEF Sound, Ended, Waiting
<1>6. QED
  BY <1>2, <1>4, <1>5 DEF JStep, Sound

LEMMA GivingUpSound ==
  ASSUME JInv, NEW s \in Sessions, ~call[s].stream, pc[s] \in {"new", "request", "finalize"},
         pc' = [pc EXCEPT ![s] = "release"],
         UNCHANGED <<call, inactive, client, at, adapter, lifecycle, active, usage, sent,
                     outcome, accepted>>
  PROVE  JStep(s)
<1>1. Shaped /\ Good(s) /\ Sound(s) /\ OfSessions(adapter)
  BY DEF JInv, IInv
<1>2. pc'[s] = "release" /\ TypeOfEntry(s)' = TypeOfEntry(s)
  BY <1>1 DEF Shaped, OfSessions, TypeOfEntry, EntryOf
<1>3. Placed(s)' /\ Reading(s)' /\ Metered(s)'
  BY <1>1, <1>2 DEF Sound, Placed, Reading, Metered, AtEntry, Waiting
<1>4. Ended(s)'
  BY <1>1, EndedOpen DEF Sound, Ended
<1>5. QED
  BY <1>1, <1>3, <1>4 DEF JStep, Sound, OfSessions

LEMMA ThrowsSound ==
  ASSUME JInv, NEW s \in Sessions, NEW err, NEW prepared \in BOOLEAN,
         pc[s] \in {"prepare", "headers", "body"}, call[s].stream,
         pc[s] = "body" => ~IsFallbackAllowed(err, adapter[s].committed),
         Throws(s, err, prepared),
         UNCHANGED <<call, inactive, client, outcome, accepted>>
  PROVE  JStep(s)
<1> USE DEF Streaming, Waiting
<1>1. IInv
  BY DEF JInv
<1>2. CASE ~IsFallbackAllowed(err, adapter[s].committed)
  <2>1. (FailsStream(s) \/ FailsAtEntry(s)) /\ UNCHANGED <<at, adapter>>
    BY <1>2 DEF Throws
  <2>2. Stopping(s)
    BY <1>1, <2>1, FailsIsStopping
  <2>3. QED
    BY <2>1, <2>2, StoppingSound
<1>3. CASE IsFallbackAllowed(err, adapter[s].committed)
  <2>1. FailsOver(s)
    BY <1>3 DEF Throws
  <2>2. CASE (LeavesQuietly(s) \/ FailsStream(s)) /\ UNCHANGED <<at, adapter>>
    <3>1. Stopping(s)
      BY <1>1, <2>2, FailsIsStopping DEF FailsStream
    <3>2. QED
      BY <2>2, <3>1, StoppingSound
  <2>3. CASE /\ at[s] < Len(Selected)
             /\ at' = [at EXCEPT ![s] = @ + 1]
             /\ adapter' = [adapter EXCEPT ![s] = FreshAdapter]
             /\ pc' = [pc EXCEPT ![s] = "prepare"]
             /\ UNCHANGED <<lifecycle, active, usage, sent>>
    <3>1. at[s] + 1 \in 1 .. Len(Selected)
      BY <2>3, ListProper DEF JInv, Sound, Placed
    <3>2. \E i \in 1 .. Len(Selected) : at' = [at EXCEPT ![s] = i]
      BY <2>3, <3>1
    <3>3. QED
      BY <1>3, <2>3, <3>2, WaitingSound
  <2>4. QED
    BY <2>1, <2>2, <2>3 DEF FailsOver
<1>4. QED
  BY <1>2, <1>3

LEMMA OpenStreamSound ==
  ASSUME JInv, NEW s \in Sessions, OpenStream(s) PROVE JStep(s)
<1> USE DEF OpenStream, Waiting, Streaming
<1>1. CASE FailsStream(s) /\ UNCHANGED at
  <2>1. Stopping(s)
    BY <1>1, FailsIsStopping DEF JInv
  <2>2. QED
    BY <2>1, StoppingSound
<1>2. CASE /\ Selected # <<>>
           /\ at' = [at EXCEPT ![s] = 1]
           /\ pc' = [pc EXCEPT ![s] = "prepare"]
           /\ UNCHANGED <<lifecycle, active, usage, sent>>
  <2>1. 1 \in 1 .. Len(Selected)
    BY <1>2, ListProper
  <2>2. \E i \in 1 .. Len(Selected) : at' = [at EXCEPT ![s] = i]
    BY <1>2, <2>1
  <2>3. QED
    BY <1>2, <2>2, WaitingSound
<1>3. QED
  BY <1>1, <1>2

LEMMA PrepareSound ==
  ASSUME JInv, NEW s \in Sessions, Prepare(s) PROVE JStep(s)
<1> USE DEF Prepare, Waiting
<1>1. CASE /\ pc' = [pc EXCEPT ![s] = "headers"]
           /\ UNCHANGED <<at, adapter, lifecycle, active, usage, sent>>
  <2>1. at[s] >= 1
    BY DEF JInv, Sound, Placed, AtEntry
  <2>2. QED
    BY <1>1, <2>1, WaitingSound
<1>2. CASE \E err \in PrepareErrors(s) : Throws(s, err, FALSE)
  BY <1>2, ThrowsSound
<1>3. QED
  BY <1>1, <1>2

LEMMA HeadersFailSound ==
  ASSUME JInv, NEW s \in Sessions, HeadersFail(s) \/ TimeOut(s) PROVE JStep(s)
<1>1. /\ pc[s] = "headers" /\ \E err : Throws(s, err, TRUE)
      /\ UNCHANGED <<call, inactive, client, outcome, accepted>>
  BY DEF HeadersFail, TimeOut
<1>2. call[s].stream
  BY <1>1, HeadersAreStreamed DEF JInv
<1>3. QED
  BY <1>1, <1>2, ThrowsSound

LEMMA BodyFailSound ==
  ASSUME JInv, NEW s \in Sessions, BodyBreaks(s) \/ AbortHeard(s) PROVE JStep(s)
<1>1. CASE BodyBreaks(s)
  <2>1. call[s].stream
    BY <1>1, HeadersAreStreamed DEF JInv, BodyBreaks
  <2>2. QED
    BY <1>1, <2>1, ThrowsSound, BodyEndsIt DEF BodyBreaks
<1>2. CASE AbortHeard(s) /\ pc[s] = "body"
  BY <1>2, ThrowsSound, BodyEndsIt DEF AbortHeard
<1>3. CASE AbortHeard(s) /\ pc[s] = "headers"
  BY <1>3, ThrowsSound DEF AbortHeard
<1>4. QED
  BY <1>1, <1>2, <1>3 DEF AbortHeard, AbortReaches

LEMMA HeadersArriveSound ==
  ASSUME JInv, NEW s \in Sessions, HeadersArrive(s) PROVE JStep(s)
<1>1. Shaped /\ Good(s) /\ Sound(s) /\ OfSessions(adapter) /\ pc[s] = "headers"
  BY DEF JInv, IInv, HeadersArrive
<1>2. /\ pc'[s] = "body" /\ accepted'[s] = accepted[s] \cup {EntryOf(s)}
      /\ TypeOfEntry(s)' = TypeOfEntry(s)
  BY <1>1 DEF HeadersArrive, Shaped, OfSessions, TypeOfEntry, EntryOf
<1>3. EntryOf(s) \in ActiveEntries
  BY <1>1, EntryIsActive DEF Sound, AtEntry
<1>4. UNCHANGED <<call, inactive, client, at, adapter, lifecycle, active, usage, sent, outcome>>
  BY DEF HeadersArrive
<1>5. Placed(s)' /\ Reading(s)' /\ Metered(s)'
  BY <1>1, <1>2, <1>3, <1>4 DEF Sound, Placed, Reading, Metered, AtEntry, Waiting
<1>6. Ended(s)'
  BY <1>1, <1>4, EndedOpen DEF Sound, Ended
<1>7. QED
  BY <1>1, <1>4, <1>5, <1>6 DEF JStep, Sound, OfSessions

(* What an adapter reads of a body.                                        *)
LEMMA ReadsSound ==
  ASSUME JInv, NEW s \in Sessions, Garbage(s) \/ UsageReport(s) \/ MessageStop(s)
  PROVE  JStep(s)
<1>1. Shaped /\ Good(s) /\ Sound(s) /\ OfSessions(adapter) /\ pc[s] = "body"
  BY DEF JInv, IInv, Garbage, UsageReport, MessageStop
<1>2. UNCHANGED <<call, inactive, pc, client, at, lifecycle, active, usage, sent, outcome,
                  accepted>>
  BY DEF Garbage, UsageReport, MessageStop
<1>3. adapter[s] \in AdapterType /\ TypeOfEntry(s)' = TypeOfEntry(s)
  BY <1>1, <1>2 DEF Sound, Reading, TypeOfEntry, EntryOf
<1>4. /\ adapter'[s] \in AdapterType
      /\ TypeOfEntry(s) = "openai" /\ adapter'[s].usage = "reported"
           => Counted(adapter'[s].report)
      /\ OfSessions(adapter)' /\ \A t \in Sessions \ {s} : adapter'[t] = adapter[t]
  <2>1. CASE Garbage(s) \/ MessageStop(s)
    <3>1. \/ adapter' = [adapter EXCEPT ![s].malformed = TRUE]
          \/ adapter' = [adapter EXCEPT ![s].stopped = TRUE]
      BY <2>1 DEF Garbage, MessageStop
    <3>2. \/ adapter'[s] = [adapter[s] EXCEPT !.malformed = TRUE]
          \/ adapter'[s] = [adapter[s] EXCEPT !.stopped = TRUE]
      BY <1>1, <3>1 DEF OfSessions
    <3>3. /\ adapter'[s] \in AdapterType /\ adapter'[s].usage = adapter[s].usage
          /\ adapter'[s].report = adapter[s].report
      BY <1>3, <3>2 DEF AdapterType
    <3>4. OfSessions(adapter)' /\ \A t \in Sessions \ {s} : adapter'[t] = adapter[t]
      BY <1>1, <3>1 DEF OfSessions
    <3>5. QED
      BY <1>1, <3>3, <3>4 DEF Sound, Reading
  <2>2. CASE UsageReport(s)
    <3>1. PICK raw : adapter' = [adapter EXCEPT ![s] =
                        IF TypeOfEntry(s) = "openai" THEN OpenAIUsage(@, raw)
                                                     ELSE AnthropicUsage(@, raw)]
      BY <2>2 DEF UsageReport
    <3>2. adapter'[s] = IF TypeOfEntry(s) = "openai" THEN OpenAIUsage(adapter[s], raw)
                                                    ELSE AnthropicUsage(adapter[s], raw)
      BY <1>1, <3>1 DEF OfSessions
    <3>3. OfSessions(adapter)' /\ \A t \in Sessions \ {s} : adapter'[t] = adapter[t]
      BY <1>1, <3>1 DEF OfSessions
    <3>4. QED
      BY <1>1, <1>3, <3>2, <3>3, AdapterReads DEF Sound, Reading
  <2>3. QED
    BY <2>1, <2>2
<1>5. Placed(s)' /\ Metered(s)'
  BY <1>1, <1>2 DEF Sound, Placed, Metered
<1>6. Reading(s)'
  BY <1>1, <1>2, <1>3, <1>4 DEF Reading, Waiting
<1>7. Ended(s)'
  BY <1>1, <1>2, EndedOpen DEF Sound, Ended
<1>8. QED
  BY <1>2, <1>4, <1>5, <1>6, <1>7 DEF JStep, Sound

LEMMA CommittedReads ==
  ASSUME NEW a \in AdapterType
  PROVE  LET b == [a EXCEPT !.committed = TRUE]
         IN  b \in AdapterType /\ b.usage = a.usage /\ b.report = a.report
  BY DEF AdapterType

(* A chunk of an answer commits the adapter.                               *)
LEMMA CommitReads ==
  ASSUME JInv, NEW s \in Sessions, adapter' = [adapter EXCEPT ![s].committed = TRUE],
         at' = at, pc[s] = "body", pc'[s] \in {"body", "finalize"}
  PROVE  Reading(s)' /\ OfSessions(adapter)'
         /\ \A t \in Sessions \ {s} : adapter'[t] = adapter[t]
<1>1. adapter[s] \in AdapterType /\ OfSessions(adapter) /\ Reading(s)
  BY DEF JInv, Sound, Reading
<1>2. adapter'[s] = [adapter[s] EXCEPT !.committed = TRUE]
  BY <1>1 DEF OfSessions
<1>3. OfSessions(adapter)' /\ \A t \in Sessions \ {s} : adapter'[t] = adapter[t]
  BY <1>1 DEF OfSessions
<1>4. /\ adapter'[s] \in AdapterType /\ adapter'[s].usage = adapter[s].usage
      /\ adapter'[s].report = adapter[s].report
  BY <1>1, <1>2, CommittedReads
<1>5. TypeOfEntry(s)' = TypeOfEntry(s)
  BY DEF TypeOfEntry, EntryOf
<1>6. QED
  BY <1>1, <1>3, <1>4, <1>5 DEF Reading, Waiting

LEMMA DeltaSound ==
  ASSUME JInv, NEW s \in Sessions, Delta(s) PROVE JStep(s)
<1>1. /\ Shaped /\ Good(s) /\ Sound(s) /\ OfSessions(adapter) /\ pc[s] = "body"
      /\ call[s].stream
  BY HeadersAreStreamed DEF JInv, IInv, Delta
<1>2. CASE LeavesQuietly(s)
  <2>1. Stopping(s)
    BY <1>1, <1>2, FailsIsStopping DEF JInv, Delta, FailsStream, Streaming
  <2>2. QED
    BY <2>1, StoppingSound DEF Delta
<1>3. CASE /\ active' = [active EXCEPT ![s] = EntryOf(s)]
           /\ Note(s, DeltaEvent(s))
           /\ sent' = [sent EXCEPT ![s].deltas = @ \cup {EntryOf(s)}]
           /\ UNCHANGED <<pc, usage>>
  <2>1. UNCHANGED <<call, inactive, pc, client, at, usage, outcome, accepted>>
    BY <1>3 DEF Delta
  <2>2. active'[s] \in ActiveEntries
    BY <1>1, <1>3, EntryIsActive DEF Sound, AtEntry, Shaped, OfSessions
  <2>3. lifecycle'[s].tag \in Tags
    BY <1>1, <1>3, NotedTag DEF Shaped, Sound, Placed, DeltaEvent
  <2>4. Placed(s)' /\ Metered(s)'
    BY <1>1, <2>1, <2>2, <2>3 DEF Sound, Placed, Metered
  <2>5. /\ Reading(s)' /\ OfSessions(adapter)'
        /\ \A t \in Sessions \ {s} : adapter'[t] = adapter[t]
    BY <1>1, <2>1, CommitReads DEF Delta
  <2>6. sent'[s].dones = sent[s].dones
    <3>1. sent'[s] = [sent[s] EXCEPT !.deltas = @ \cup {EntryOf(s)}]
      BY <1>1, <1>3 DEF Shaped, OfSessions
    <3>2. QED
      BY <1>1, <3>1 DEF Good, ToldOnce
  <2>7. Ended(s)'
    BY <1>1, <2>1, <2>6, EndedOpen DEF Sound, Ended
  <2>8. QED
    BY <2>1, <2>4, <2>5, <2>7 DEF JStep, Sound
<1>4. QED
  BY <1>2, <1>3 DEF Delta

LEMMA DoneChunkSound ==
  ASSUME JInv, NEW s \in Sessions, NEW ok \in BOOLEAN, pc[s] = "body", DoneChunk(s, ok),
         adapter' = [adapter EXCEPT ![s].committed = TRUE],
         UNCHANGED <<call, inactive, client, at, outcome, accepted>>
  PROVE  JStep(s)
<1>1. /\ Shaped /\ Good(s) /\ Sound(s) /\ OfSessions(adapter) /\ call[s].stream
  BY HeadersAreStreamed DEF JInv, IInv
<1>2. CASE LeavesQuietly(s)
  <2>1. Stopping(s)
    BY <1>1, <1>2, FailsIsStopping DEF JInv, FailsStream, Streaming
  <2>2. QED
    BY <2>1, StoppingSound
<1>3. CASE ~LeavesQuietly(s)
  <2>1. /\ active' = [active EXCEPT ![s] = EntryOf(s)]
        /\ Note(s, DoneEvent(s, ok))
        /\ usage' = [usage EXCEPT ![s] =
                       IF ok THEN [complete |-> TRUE, report |-> DoneUsage(s)] ELSE @]
        /\ sent' = [sent EXCEPT ![s] = Closing(s, @, ok)]
        /\ pc' = [pc EXCEPT ![s] = "finalize"]
    BY <1>3 DEF DoneChunk, Ends
  <2>2. /\ active'[s] = EntryOf(s) /\ pc'[s] = "finalize"
        /\ usage'[s] = IF ok THEN [complete |-> TRUE, report |-> DoneUsage(s)] ELSE usage[s]
        /\ sent'[s] = Closing(s, sent[s], ok)
    BY <1>1, <2>1 DEF Shaped, OfSessions
  <2>3. active'[s] \in ActiveEntries
    BY <1>1, <2>2, EntryIsActive DEF Sound, AtEntry
  <2>4. lifecycle'[s].tag \in Tags
    BY <1>1, <2>1, NotedTag DEF Shaped, Sound, Placed, DoneEvent
  <2>5. Placed(s)'
    BY <1>1, <2>2, <2>3, <2>4 DEF Sound, Placed, AtEntry
  <2>6. Metered(s)'
    BY <1>1, <2>2, DoneUsageReads DEF Sound, Metered
  <2>7. /\ Reading(s)' /\ OfSessions(adapter)'
        /\ \A t \in Sessions \ {s} : adapter'[t] = adapter[t]
    BY <2>2, CommitReads
  <2>8. sent'[s].dones > 0 <=> usage'[s].complete
    <3>1. usage[s].complete = FALSE /\ sent[s].errors = 0 /\ sent[s].dones = 0
      BY <1>1 DEF Good, OneTaker, ToldOnce
    <3>2. usage'[s].complete = ok
      <4>1. CASE ok
        BY <2>2, <4>1
      <4>2. CASE ~ok
        BY <2>2, <3>1, <4>2
      <4>3. QED
        BY <4>1, <4>2
    <3>3. sent'[s] = IF ok THEN [sent[s] EXCEPT !.dones = 1] ELSE [sent[s] EXCEPT !.errors = 1]
      BY <2>2, <3>1 DEF Closing, WithError
    <3>4. sent'[s] = [deltas |-> sent[s].deltas, errors |-> IF ok THEN 0 ELSE 1,
                      dones |-> IF ok THEN 1 ELSE 0]
      BY <1>1, <3>1, <3>3 DEF Good, ToldOnce
    <3>5. QED
      BY <3>2, <3>4
  <2>9. Ended(s)'
    BY <1>1, <2>8, EndedOpen
  <2>10. QED
    BY <2>5, <2>6, <2>7, <2>9 DEF JStep, Sound
<1>4. QED
  BY <1>2, <1>3

LEMMA BodyEndsSound ==
  ASSUME JInv, NEW s \in Sessions, BodyEnds(s) PROVE JStep(s)
<1>1. PICK stopped : EndOfStream(s, stopped)
  BY DEF BodyEnds
<1>2. /\ pc[s] = "body" /\ call[s].stream
      /\ adapter' = [adapter EXCEPT ![s].committed = TRUE]
      /\ UNCHANGED <<call, inactive, client, at, outcome, accepted>>
  BY HeadersAreStreamed DEF BodyEnds, JInv
<1> DEFINE ok == stopped /\ ~adapter[s].malformed /\ adapter[s].usage # "invalidated"
<1>3. CASE FailsAtEntry(s)
  <2>1. Stopping(s)
    BY <1>2, <1>3, FailsIsStopping DEF JInv, Streaming
  <2>2. QED
    BY <1>2, <2>1, StoppingSound
<1>4. CASE DoneChunk(s, ok)
  <2>1. ok \in BOOLEAN
    OBVIOUS
  <2> HIDE DEF ok
  <2>2. QED
    BY <1>2, <1>4, <2>1, DoneChunkSound
<1>5. QED
  BY <1>1, <1>3, <1>4 DEF EndOfStream

LEMMA CompletionSound ==
  ASSUME JInv, NEW s \in Sessions, StartComplete(s) \/ CompleteFails(s) \/ Interrupted(s)
  PROVE  JStep(s)
<1>1. ~call[s].stream
  BY DEF JInv, IInv, Good, Kind, StartComplete, CompleteFails, Interrupted
<1>2. CASE pc' = [pc EXCEPT ![s] = "release"] /\ UNCHANGED at
  BY <1>1, <1>2, GivingUpSound DEF StartComplete, CompleteFails, Interrupted
<1>3. CASE /\ StartComplete(s) /\ Selected # <<>>
           /\ pc' = [pc EXCEPT ![s] = "request"] /\ at' = [at EXCEPT ![s] = 1]
  <2>1. 1 \in 1 .. Len(Selected)
    BY <1>3, ListProper
  <2>2. \E i \in 1 .. Len(Selected) : at' = [at EXCEPT ![s] = i]
    BY <1>3, <2>1
  <2>3. QED
    BY <1>3, <2>2, WaitingSound DEF StartComplete, Waiting
<1>4. CASE /\ CompleteFails(s) /\ at[s] < Len(Selected)
           /\ at' = [at EXCEPT ![s] = @ + 1] /\ UNCHANGED pc
  <2>1. pc[s] = "request" /\ pc' = [pc EXCEPT ![s] = "request"]
    BY <1>4 DEF JInv, IInv, Shaped, OfSessions, CompleteFails
  <2>2. at[s] + 1 \in 1 .. Len(Selected)
    BY <1>4, ListProper DEF JInv, Sound, Placed
  <2>3. \E i \in 1 .. Len(Selected) : at' = [at EXCEPT ![s] = i]
    BY <1>4, <2>2
  <2>4. QED
    BY <1>4, <2>1, <2>3, WaitingSound DEF CompleteFails, Waiting
<1>5. QED
  BY <1>2, <1>3, <1>4 DEF StartComplete, CompleteFails, Interrupted

LEMMA CompleteAnswersSound ==
  ASSUME JInv, NEW s \in Sessions, CompleteAnswers(s) PROVE JStep(s)
<1>1. /\ Shaped /\ Good(s) /\ Sound(s) /\ OfSessions(adapter) /\ pc[s] = "request"
      /\ ~call[s].stream
  BY DEF JInv, IInv, Good, Kind, CompleteAnswers
<1>2. PICK raw \in Reports \cup {NoUsage} : usage' = [usage EXCEPT ![s] = AnsweredUsage(s, raw)]
  BY DEF CompleteAnswers
<1>3. UNCHANGED <<call, inactive, client, at, adapter, lifecycle, sent, outcome>>
  BY DEF CompleteAnswers
<1>4. /\ pc'[s] = "finalize" /\ active'[s] = EntryOf(s) /\ usage'[s] = AnsweredUsage(s, raw)
      /\ accepted'[s] = accepted[s] \cup {EntryOf(s)} /\ TypeOfEntry(s)' = TypeOfEntry(s)
  BY <1>1, <1>2, <1>3 DEF CompleteAnswers, Shaped, OfSessions, TypeOfEntry, EntryOf
<1>5. EntryOf(s) \in ActiveEntries
  BY <1>1, EntryIsActive DEF Sound, AtEntry
<1>6. Placed(s)' /\ Reading(s)'
  BY <1>1, <1>3, <1>4, <1>5 DEF Sound, Placed, Reading, AtEntry, Waiting
<1>7. /\ AnsweredUsage(s, raw).report \in UsageType
      /\ AnsweredUsage(s, raw).report # NoUsage => Counted(AnsweredUsage(s, raw).report)
  <2> DEFINE parsed == IF TypeOfEntry(s) = "openai" THEN ParseOpenAI(raw)
                                                    ELSE ParseAnthropic(raw)
  <2>1. parsed \in {ParseOpenAI(raw), ParseAnthropic(raw)}
    OBVIOUS
  <2> HIDE DEF parsed
  <2>2. CASE raw # NoUsage /\ parsed.status = "reported"
    <3>1. parsed.usage \in UsageType /\ Counted(parsed.usage)
      BY <2>1, <2>2, ParseReads
    <3>2. AnsweredUsage(s, raw) = [complete |-> TRUE, report |-> parsed.usage]
      BY <2>2 DEF AnsweredUsage, parsed
    <3>3. QED
      BY <3>1, <3>2
  <2>3. CASE ~(raw # NoUsage /\ parsed.status = "reported")
    <3>1. AnsweredUsage(s, raw) = [complete |-> FALSE, report |-> NoUsage]
      BY <2>3 DEF AnsweredUsage, parsed, EmptyStreamUsage
    <3>2. AnsweredUsage(s, raw).report = NoUsage
      BY <3>1
    <3>3. QED
      BY <3>2, NoUsageReads
  <2>4. QED
    BY <2>2, <2>3
<1>8. Metered(s)'
  BY <1>4, <1>7 DEF Metered
<1>9. Ended(s)'
  BY <1>1, <1>3, EndedOpen
<1>10. QED
  BY <1>1, <1>3, <1>6, <1>8, <1>9 DEF JStep, Sound, OfSessions

LEMMA ReleaseSound ==
  ASSUME JInv, NEW s \in Sessions, Release(s) PROVE JStep(s)
<1>1. /\ Shaped /\ Good(s) /\ Sound(s) /\ OfSessions(adapter) /\ pc[s] = "release"
      /\ ~call[s].stream
  BY DEF JInv, IInv, Good, Kind, Release
<1>2. UNCHANGED <<call, inactive, client, at, adapter, lifecycle, active, usage, sent, accepted>>
  BY DEF Release
<1>3. /\ pc'[s] = "done" /\ outcome'[s] = [outcome[s] EXCEPT !.released = @ + 1]
      /\ TypeOfEntry(s)' = TypeOfEntry(s)
  BY <1>1, <1>2 DEF Release, Shaped, OfSessions, TypeOfEntry, EntryOf
<1>4. Placed(s)' /\ Reading(s)' /\ Metered(s)'
  BY <1>1, <1>2, <1>3 DEF Sound, Placed, Reading, Metered, AtEntry, Waiting
<1>5. outcome'[s].settled = outcome[s].settled /\ outcome[s].settled = 0
  <2>1. Resolved(s) = 0
    BY <1>1 DEF Good, ResolvedOnce
  <2>2. outcome[s].settled = 0
    BY <1>1, <2>1 DEF Good, ResolvedOnce, Resolved
  <2>3. outcome[s] = [released |-> outcome[s].released, settled |-> outcome[s].settled,
                      queued |-> outcome[s].queued, failed |-> outcome[s].failed,
                      final |-> outcome[s].final, price |-> outcome[s].price,
                      entry |-> outcome[s].entry]
    BY <1>1 DEF Good, ResolvedOnce
  <2>4. QED
    BY <1>3, <2>2, <2>3
<1>6. Ended(s)'
  BY <1>1, <1>2, <1>5 DEF Ended
<1>7. QED
  BY <1>1, <1>2, <1>4, <1>6 DEF JStep, Sound, OfSessions

(* Only a call without an entry is released, and only an authoritative one *)
(* is settled.                                                             *)
LEMMA ResolveSound ==
  ASSUME NEW s \in Sessions, ResolvedOnce(s), pc[s] = "finalize", ~outcome[s].final,
         NEW o \in Resolve(s, outcome[s])
  PROVE  /\ o.released > 0 => active[s] = NoEntry
         /\ o.settled > 0 => Authoritative(s) /\ o.price = PriceOf(s) /\ o.entry = active[s]
<1>1. outcome[s].released = 0 /\ outcome[s].settled = 0
  <2>1. Resolved(s) = 0
    BY DEF ResolvedOnce
  <2>2. QED
    BY <2>1 DEF ResolvedOnce, Resolved
<1>2. outcome[s] = [released |-> 0, settled |-> 0, queued |-> outcome[s].queued,
                    failed |-> outcome[s].failed, final |-> outcome[s].final,
                    price |-> outcome[s].price, entry |-> outcome[s].entry]
  BY <1>1 DEF ResolvedOnce
<1>3. CASE active[s] = NoEntry /\ o = [outcome[s] EXCEPT !.released = @ + 1]
  BY <1>2, <1>3
<1>4. CASE o = [outcome[s] EXCEPT !.queued = @ + 1] \/ o = [outcome[s] EXCEPT !.failed = TRUE]
  BY <1>2, <1>4
<1>5. CASE /\ Authoritative(s)
           /\ o = [outcome[s] EXCEPT !.settled = @ + 1, !.price = PriceOf(s), !.entry = active[s]]
  BY <1>2, <1>5
<1>6. QED
  BY <1>3, <1>4, <1>5 DEF Resolve

LEMMA FinalizeSound ==
  ASSUME JInv, NEW s \in Sessions, Finalize(s) PROVE JStep(s)
<1>1. /\ Shaped /\ Good(s) /\ Sound(s) /\ OfSessions(adapter) /\ pc[s] = "finalize"
  BY DEF JInv, IInv, Finalize
<1>2. UNCHANGED <<call, inactive, client, at, adapter, lifecycle, active, usage, sent, accepted>>
  BY DEF Finalize
<1>3. pc'[s] \in {"finalize", "done"} /\ TypeOfEntry(s)' = TypeOfEntry(s)
  BY <1>1, <1>2 DEF Finalize, Shaped, OfSessions, TypeOfEntry, EntryOf
<1>4. Placed(s)' /\ Reading(s)' /\ Metered(s)'
  BY <1>1, <1>2, <1>3 DEF Sound, Placed, Reading, Metered, AtEntry, Waiting
<1>5. (Authoritative(s))' = Authoritative(s) /\ (PriceOf(s))' = PriceOf(s)
  BY <1>2, SameCharges
<1>6. Ended(s)'
  <2>1. CASE outcome[s].final
    <3>1. outcome' = outcome
      BY <2>1 DEF Finalize, Finalized
    <3>2. QED
      BY <1>1, <1>2, <1>5, <3>1 DEF Sound, Ended
  <2>2. CASE ~outcome[s].final
    <3>1. PICK o \in Resolve(s, outcome[s]) :
             outcome' = [outcome EXCEPT ![s] = [o EXCEPT !.final = TRUE]]
      BY <2>2 DEF Finalize, Finalized
    <3>2. outcome'[s] = [o EXCEPT !.final = TRUE]
      BY <1>1, <3>1 DEF Shaped, OfSessions
    <3>3. o = [released |-> o.released, settled |-> o.settled, queued |-> o.queued,
               failed |-> o.failed, final |-> o.final, price |-> o.price, entry |-> o.entry]
      BY <1>1, <2>2, ResolveOnce DEF Good
    <3>4. /\ outcome'[s].released = o.released /\ outcome'[s].settled = o.settled
          /\ outcome'[s].price = o.price /\ outcome'[s].entry = o.entry
      BY <3>2, <3>3
    <3>5. /\ o.released > 0 => active[s] = NoEntry
          /\ o.settled > 0 => Authoritative(s) /\ o.price = PriceOf(s) /\ o.entry = active[s]
      BY <1>1, <2>2, ResolveSound DEF Good
    <3>6. QED
      BY <1>1, <1>2, <1>5, <3>4, <3>5 DEF Sound, Ended
  <2>3. QED
    BY <2>1, <2>2
<1>7. QED
  BY <1>1, <1>2, <1>4, <1>6 DEF JStep, Sound, OfSessions

LEMMA DisconnectSound ==
  ASSUME JInv, NEW s \in Sessions, Disconnect(s) PROVE JStep(s)
<1>1. Shaped /\ Good(s) /\ Sound(s) /\ OfSessions(adapter)
  BY DEF JInv, IInv
<1>2. UNCHANGED <<call, inactive, pc, at, adapter, active, usage, sent, outcome, accepted>>
  BY DEF Disconnect
<1>3. client'[s] \in {"cancelled", "aborted"} /\ \A t \in Sessions \ {s} : client'[t] = client[t]
  BY <1>1 DEF Disconnect, Shaped, OfSessions
<1>4. lifecycle'[s].tag \in Tags
  BY <1>1, NotedTag DEF Disconnect, Shaped, Sound, Placed, InterruptEvent
<1>5. TypeOfEntry(s)' = TypeOfEntry(s)
  BY <1>2 DEF TypeOfEntry, EntryOf
<1>6. Placed(s)' /\ Reading(s)' /\ Metered(s)'
  BY <1>1, <1>2, <1>3, <1>4, <1>5 DEF Sound, Placed, Reading, Metered
<1>7. Ended(s)'
  BY <1>1, <1>2, SameCharges DEF Sound, Ended
<1>8. QED
  BY <1>1, <1>2, <1>3, <1>6, <1>7 DEF JStep, Sound, OfSessions

LEMMA NextSound == JInv /\ [Next]_vars => JInv'
<1> SUFFICES ASSUME JInv, [Next]_vars PROVE JInv'
  OBVIOUS
<1> USE DEF JInv
<1>1. ASSUME NEW s \in Sessions, Gateway(s) PROVE StepOf(s) /\ JStep(s)
  <2>1. StepOf(s)
    BY <1>1, OpenStreamStep, PrepareStep, HeadersFailStep, BodyFailStep, CompletionStep,
       ReleaseStep, FinalizeStep DEF Gateway
  <2> HIDE DEF JInv
  <2>2. JStep(s)
    BY <1>1, OpenStreamSound, PrepareSound, HeadersFailSound, BodyFailSound, CompletionSound,
       ReleaseSound, FinalizeSound DEF Gateway
  <2>3. QED
    BY <2>1, <2>2
<1>2. ASSUME NEW s \in Sessions, Provider(s) PROVE StepOf(s) /\ JStep(s)
  <2>1. StepOf(s)
    BY <1>2, HeadersFailStep, HeadersArriveStep, DeltaStep, AdapterStep, BodyEndsStep,
       BodyFailStep, CompletionStep, CompleteAnswersStep DEF Provider
  <2> HIDE DEF JInv
  <2>2. JStep(s)
    BY <1>2, HeadersFailSound, HeadersArriveSound, DeltaSound, ReadsSound, BodyEndsSound,
       BodyFailSound, CompletionSound, CompleteAnswersSound DEF Provider
  <2>3. QED
    BY <2>1, <2>2
<1>3. ASSUME NEW s \in Sessions, Disconnect(s) PROVE StepOf(s) /\ JStep(s)
  <2>1. StepOf(s)
    BY <1>3, DisconnectStep
  <2> HIDE DEF JInv
  <2>2. JStep(s)
    BY <1>3, DisconnectSound
  <2>3. QED
    BY <2>1, <2>2
<1>4. CASE Deactivate \/ UNCHANGED vars
  <2>1. UNCHANGED <<call, pc, client, at, adapter, lifecycle, active, usage, sent, outcome,
                    accepted>> /\ inactive' \subseteq Indexes
    BY <1>4 DEF Deactivate, vars
  <2>2. \A s \in Sessions : Same(s) /\ Sound(s)'
    BY <2>1, SameSound DEF Same
  <2>3. IInv'
    BY <2>1, <2>2, SameGood DEF IInv, Shaped, OfSessions
  <2>4. QED
    BY <2>1, <2>2, <2>3 DEF OfSessions
<1> HIDE DEF JInv
<1>5. QED
  BY <1>1, <1>2, <1>3, <1>4, SoundKeeps DEF Next

LEMMA SoundInvariant == Spec => []JInv
<1>1. Init => JInv
  BY InitSound
<1>2. JInv /\ [Next]_vars => JInv'
  BY NextSound
<1>3. QED
  BY <1>1, <1>2, PTL DEF Spec

-----------------------------------------------------------------------------
(* Calls are at states of the code: at an entry of the list, with entries  *)
(* that were selected (streamWithFallbackWorkflow, openStreamGeneration).  *)
THEOREM TypeCorrect == Spec => []TypeOK
<1>1. JInv => TypeOK
  <2> SUFFICES ASSUME JInv PROVE TypeOK
    OBVIOUS
  <2>1. /\ OfSessions(pc) /\ OfSessions(client) /\ OfSessions(at) /\ OfSessions(active)
        /\ OfSessions(accepted)
    BY DEF JInv, IInv, Shaped
  <2>2. \A s \in Sessions : /\ pc[s] \in States /\ Placed(s)
                            /\ adapter[s].usage \in {"none", "reported", "invalidated"}
    BY DEF JInv, IInv, Good, Kind, Sound, Reading, AdapterType
  <2>3. ToSet(Selected) = ActiveEntries
    BY SelectedInOrder
  <2>4. QED
    BY <2>1, <2>2, <2>3 DEF JInv, TypeOK, OfSessions, States, Waiting, Placed, Tags
<1>2. QED
  BY <1>1, SoundInvariant, PTL

(* What the client saw and what became of the hold agree: an answer closed *)
(* as complete is billed or queued, one reported as failed is not billed,  *)
(* and a hold goes back only for a stream that showed nothing              *)
(* (finalizeStreamGeneration, applyDoneUsage).                             *)
THEOREM EndsAndOutcomesAgree == Spec => []OutcomesAgree
<1>1. JInv => EndsAgree /\ ReleasedUnseen
  <2> SUFFICES ASSUME JInv, NEW s \in Sessions, call[s].stream
               PROVE  /\ sent[s].dones > 0 => outcome[s].released = 0
                      /\ sent[s].errors > 0 => outcome[s].settled = 0
                      /\ outcome[s].settled > 0 => sent[s].dones > 0
                      /\ outcome[s].released > 0 => sent[s].deltas = {}
    BY DEF EndsAgree, ReleasedUnseen
  <2>1. Good(s) /\ Sound(s)
    BY DEF JInv, IInv
  <2>2. outcome[s].released > 0 => active[s] = NoEntry
    BY <2>1 DEF Sound, Ended
  <2>3. outcome[s].settled > 0 => sent[s].dones > 0
    BY <2>1 DEF Sound, Ended, Authoritative
  <2>4. NoEntry \notin accepted[s]
    BY <2>1, ActiveFinite DEF Sound, Placed
  <2>5. /\ sent[s].dones \in Nat /\ sent[s].errors \in Nat
        /\ sent[s].errors + sent[s].dones <= 1
        /\ outcome[s].released \in Nat /\ outcome[s].settled \in Nat
    BY <2>1 DEF Good, ToldOnce, Told, ResolvedOnce
  <2>6. sent[s].dones > 0 => active[s] \in accepted[s]
    BY <2>1 DEF Good, OneTaker, Sound, Ended
  <2>7. sent[s].deltas # {} => active[s] \in accepted[s]
    BY <2>1 DEF Good, ShownOfTaker
  <2>8. QED
    BY <2>2, <2>3, <2>4, <2>5, <2>6, <2>7
<1>2. TypeOK /\ EndsAgree /\ ReleasedUnseen => OutcomesAgree
  BY DEF OutcomesAgree
<1>3. QED
  BY <1>1, <1>2, TypeCorrect, SoundInvariant, PTL

-----------------------------------------------------------------------------
(* A charge is the exact product, rounded up.                              *)
LEMMA RoundedUp ==
  ASSUME NEW x \in Nat
  PROVE  LET c == (x + PerMillion - 1) \div PerMillion
         IN  c \in Nat /\ x <= c * PerMillion /\ c * PerMillion < x + PerMillion
  BY ChargesAssumption

LEMMA ChargeRounds ==
  ASSUME NEW tokens \in Nat, NEW rate \in Nat
  PROVE  /\ Charge(tokens, rate) \in Nat
         /\ tokens * rate \in Nat
         /\ tokens * rate <= Charge(tokens, rate) * PerMillion
         /\ Charge(tokens, rate) * PerMillion < tokens * rate + PerMillion
<1>1. tokens * rate \in Nat
  OBVIOUS
<1> DEFINE x == tokens * rate
<1>2. x \in Nat /\ Charge(tokens, rate) = (x + PerMillion - 1) \div PerMillion
  BY <1>1 DEF Charge
<1> HIDE DEF x
<1>3. /\ Charge(tokens, rate) \in Nat /\ x <= Charge(tokens, rate) * PerMillion
      /\ Charge(tokens, rate) * PerMillion < x + PerMillion
  BY <1>2, RoundedUp
<1>4. QED
  BY <1>1, <1>3 DEF x

(* total is exact, and up to n parts of it are rounded up by themselves.   *)
Rounded(total, exact, n) ==
    /\ exact \in Nat /\ total \in Nat
    /\ exact <= total * PerMillion
    /\ total * PerMillion < exact + n * PerMillion

LEMMA Cancel ==
  ASSUME NEW a \in Int, NEW b \in Int, a * PerMillion < b * PerMillion PROVE a < b
  BY ChargesAssumption

LEMMA TimesGrows ==
  ASSUME NEW a \in Nat, NEW b \in Nat, NEW q \in Nat, NEW r \in Nat, a <= b, q <= r
  PROVE  a * q \in Nat /\ b * r \in Nat /\ a * q <= b * r
<1>1. a * q <= a * r
  OBVIOUS
<1>2. a * r <= b * r
  OBVIOUS
<1>3. QED
  BY <1>1, <1>2

(* Reasoning tokens are part of the completion and are charged apart, or   *)
(* not at all.                                                             *)
OutputPart(schedule, u, r) ==
    LET exact == (u.completion - r) * schedule.output + r * OrZero(schedule.reasoning)
    IN  /\ schedule.reasoning = Absent => r = 0
        /\ Rounded(OutputCharge(schedule, u), exact, 2)

LEMMA OutputParts ==
  ASSUME NEW schedule \in ScheduleType, NEW u \in UsageType, Counted(u)
  PROVE  \E r \in 0 .. u.completion : OutputPart(schedule, u, r)
<1> DEFINE reasoning == Smaller(OrZero(u.reasoning), u.completion)
<1>1. /\ u.completion \in Nat /\ OrZero(u.reasoning) \in Nat /\ schedule.output \in Nat
      /\ schedule.reasoning \in Nat \cup {Absent} /\ OrZero(schedule.reasoning) \in Nat
  BY DEF UsageType, Fields, Counted, ScheduleType, OrZero
<1>2. reasoning \in 0 .. u.completion
  BY <1>1 DEF Smaller
<1> HIDE DEF reasoning
<1>3. CASE schedule.reasoning = Absent \/ reasoning = 0
  <2>1. OutputCharge(schedule, u) = Charge(u.completion, schedule.output)
    BY <1>3 DEF OutputCharge, reasoning
  <2>2. (u.completion - 0) * schedule.output + 0 * OrZero(schedule.reasoning)
          = u.completion * schedule.output
    BY <1>1
  <2>3. /\ u.completion * schedule.output \in Nat /\ OutputCharge(schedule, u) \in Nat
        /\ u.completion * schedule.output <= OutputCharge(schedule, u) * PerMillion
        /\ OutputCharge(schedule, u) * PerMillion
             < u.completion * schedule.output + 2 * PerMillion
    <3> DEFINE x == u.completion * schedule.output
               c == OutputCharge(schedule, u)
    <3>1. /\ c \in Nat /\ x \in Nat /\ x <= c * PerMillion
          /\ c * PerMillion < x + PerMillion
      BY <1>1, <2>1, ChargeRounds
    <3> HIDE DEF x, c
    <3>2. c * PerMillion \in Int
      BY <3>1, ChargesAssumption
    <3>3. c * PerMillion < x + 2 * PerMillion
      BY <3>1, <3>2, ChargesAssumption
    <3>4. QED
      BY <3>1, <3>3 DEF x, c
  <2>4. OutputPart(schedule, u, 0)
    BY <2>2, <2>3 DEF OutputPart, Rounded
  <2>5. QED
    BY <1>1, <2>4
<1>4. CASE schedule.reasoning # Absent /\ reasoning # 0
  <2> DEFINE a == Charge(u.completion - reasoning, schedule.output)
             b == Charge(reasoning, schedule.reasoning)
             x == (u.completion - reasoning) * schedule.output
             y == reasoning * schedule.reasoning
  <2>1. OutputCharge(schedule, u) = a + b
    BY <1>4 DEF OutputCharge, reasoning
  <2>2. /\ a \in Nat /\ x \in Nat /\ x <= a * PerMillion /\ a * PerMillion < x + PerMillion
    <3>1. u.completion - reasoning \in Nat
      BY <1>1, <1>2
    <3>2. QED
      BY <1>1, <3>1, ChargeRounds
  <2>3. /\ b \in Nat /\ y \in Nat /\ y <= b * PerMillion /\ b * PerMillion < y + PerMillion
    <3>1. reasoning \in Nat /\ schedule.reasoning \in Nat
      BY <1>1, <1>2, <1>4
    <3>2. QED
      BY <3>1, ChargeRounds
  <2>4. OrZero(schedule.reasoning) = schedule.reasoning
    BY <1>4 DEF OrZero
  <2> HIDE DEF a, b
  <2>5. (a + b) * PerMillion = a * PerMillion + b * PerMillion
    BY <2>2, <2>3, ChargesAssumption
  <2>6. /\ x + y \in Nat /\ a + b \in Nat /\ x + y <= (a + b) * PerMillion
        /\ (a + b) * PerMillion < x + y + 2 * PerMillion
    <3> HIDE DEF x, y
    <3>1. a * PerMillion \in Int /\ b * PerMillion \in Int
      BY <2>2, <2>3, ChargesAssumption
    <3>2. QED
      BY <2>2, <2>3, <2>5, <3>1, ChargesAssumption
  <2>7. OutputPart(schedule, u, reasoning)
    <3>1. Rounded(a + b, x + y, 2)
      <4> HIDE DEF x, y
      <4>1. QED
        BY <2>6 DEF Rounded
    <3>2. QED
      BY <1>4, <2>1, <2>4, <3>1 DEF OutputPart
  <2>8. QED
    BY <1>2, <2>7
<1>5. QED
  BY <1>3, <1>4

(* Three parts of an input, each rounded up.                               *)
LEMMA ThreeParts ==
  ASSUME NEW p \in Nat, NEW r \in Nat, NEW w \in Nat, NEW i \in Nat, NEW j \in Nat, NEW k \in Nat
  PROVE  Rounded(Charge(p, i) + Charge(r, j) + Charge(w, k), p * i + r * j + w * k, 3)
<1> DEFINE a == Charge(p, i)  b == Charge(r, j)  c == Charge(w, k)
           x == p * i  y == r * j  z == w * k
<1>1. a \in Nat /\ x \in Nat /\ x <= a * PerMillion /\ a * PerMillion < x + PerMillion
  BY ChargeRounds
<1>2. b \in Nat /\ y \in Nat /\ y <= b * PerMillion /\ b * PerMillion < y + PerMillion
  BY ChargeRounds
<1>3. c \in Nat /\ z \in Nat /\ z <= c * PerMillion /\ c * PerMillion < z + PerMillion
  BY ChargeRounds
<1> HIDE DEF a, b, c, x, y, z
<1>4. (a + b + c) * PerMillion = a * PerMillion + b * PerMillion + c * PerMillion
  BY <1>1, <1>2, <1>3, ChargesAssumption
<1>5. /\ a * PerMillion \in Int /\ b * PerMillion \in Int /\ c * PerMillion \in Int
  BY <1>1, <1>2, <1>3, ChargesAssumption
<1>6. /\ x + y + z \in Nat /\ a + b + c \in Nat /\ x + y + z <= (a + b + c) * PerMillion
      /\ (a + b + c) * PerMillion < x + y + z + 3 * PerMillion
  BY <1>1, <1>2, <1>3, <1>4, <1>5, ChargesAssumption
<1>7. Rounded(a + b + c, x + y + z, 3)
  BY <1>6 DEF Rounded
<1>8. QED
  BY <1>7 DEF a, b, c, x, y, z

InputCharge(schedule, u) ==
    IF u.accounting = "additive" THEN AdditiveInput(schedule, u) ELSE SubsetInput(schedule, u)

(* Cached tokens come on top of the prompt, or are part of it: in neither  *)
(* case is a token charged twice.                                          *)
InputPart(schedule, u, p, r, w) ==
    LET exact == p * schedule.input + r * OrZero(schedule.cacheRead)
                 + w * OrZero(schedule.cacheWrite)
    IN  /\ IF u.accounting = "additive"
           THEN p = u.prompt /\ r = OrZero(u.cacheRead) /\ w = OrZero(u.cacheWrite)
           ELSE /\ p + r + w = u.prompt
                /\ schedule.cacheRead = Absent => r = 0
                /\ schedule.cacheWrite = Absent => w = 0
        /\ Rounded(InputCharge(schedule, u), exact, 3)

LEMMA InputParts ==
  ASSUME NEW schedule \in ScheduleType, NEW u \in UsageType, Counted(u)
  PROVE  \E p, r, w \in Nat : InputPart(schedule, u, p, r, w)
<1>1. /\ u.prompt \in Nat /\ OrZero(u.cacheRead) \in Nat /\ OrZero(u.cacheWrite) \in Nat
      /\ schedule.input \in Nat /\ OrZero(schedule.cacheRead) \in Nat
      /\ OrZero(schedule.cacheWrite) \in Nat
  BY DEF UsageType, Fields, Counted, ScheduleType, OrZero
<1>2. CASE u.accounting = "additive"
  <2>1. InputCharge(schedule, u) = Charge(u.prompt, schedule.input)
            + Charge(OrZero(u.cacheRead), OrZero(schedule.cacheRead))
            + Charge(OrZero(u.cacheWrite), OrZero(schedule.cacheWrite))
    BY <1>2 DEF InputCharge, AdditiveInput
  <2> DEFINE p == u.prompt  r == OrZero(u.cacheRead)  w == OrZero(u.cacheWrite)
             i == schedule.input  j == OrZero(schedule.cacheRead)
             k == OrZero(schedule.cacheWrite)
  <2>2. Rounded(InputCharge(schedule, u), p * i + r * j + w * k, 3)
    <3>1. /\ p \in Nat /\ r \in Nat /\ w \in Nat /\ i \in Nat /\ j \in Nat /\ k \in Nat
          /\ InputCharge(schedule, u) = Charge(p, i) + Charge(r, j) + Charge(w, k)
      BY <1>1, <2>1
    <3> HIDE DEF p, r, w, i, j, k
    <3>2. Rounded(Charge(p, i) + Charge(r, j) + Charge(w, k), p * i + r * j + w * k, 3)
      BY <3>1, ThreeParts
    <3>3. QED
      BY <3>1, <3>2
  <2>3. InputPart(schedule, u, p, r, w)
    BY <1>2, <2>2 DEF InputPart
  <2>4. QED
    BY <1>1, <2>3
<1>3. CASE u.accounting # "additive"
  <2> DEFINE read == IF schedule.cacheRead = Absent THEN 0
                     ELSE Smaller(OrZero(u.cacheRead), u.prompt)
             written == IF schedule.cacheWrite = Absent THEN 0
                        ELSE Smaller(OrZero(u.cacheWrite), u.prompt - read)
             rest == u.prompt - read - written
  <2>1. read \in Nat /\ u.prompt - read \in Nat
    BY <1>1 DEF Smaller
  <2>2. written \in Nat /\ rest \in Nat /\ rest + read + written = u.prompt
    <3> HIDE DEF read
    <3>1. QED
      BY <1>1, <2>1 DEF Smaller
  <2>3. InputCharge(schedule, u) = Charge(rest, schedule.input)
            + Charge(read, OrZero(schedule.cacheRead))
            + Charge(written, OrZero(schedule.cacheWrite))
    BY <1>3 DEF InputCharge, SubsetInput
  <2>4. (schedule.cacheRead = Absent => read = 0) /\ (schedule.cacheWrite = Absent => written = 0)
    OBVIOUS
  <2> HIDE DEF read, written, rest
  <2> DEFINE i == schedule.input  j == OrZero(schedule.cacheRead)
             k == OrZero(schedule.cacheWrite)
             exact == rest * i + read * j + written * k
  <2>5. Rounded(InputCharge(schedule, u), exact, 3)
    <3>1. /\ i \in Nat /\ j \in Nat /\ k \in Nat
          /\ InputCharge(schedule, u) = Charge(rest, i) + Charge(read, j) + Charge(written, k)
      BY <1>1, <2>3
    <3> HIDE DEF i, j, k
    <3>2. Rounded(Charge(rest, i) + Charge(read, j) + Charge(written, k),
                  rest * i + read * j + written * k, 3)
      BY <2>1, <2>2, <3>1, ThreeParts
    <3>3. QED
      BY <3>1, <3>2
  <2>6. InputPart(schedule, u, rest, read, written)
    BY <1>3, <2>2, <2>4, <2>5 DEF InputPart
  <2>7. QED
    BY <2>1, <2>2, <2>6
<1>4. QED
  BY <1>2, <1>3

-----------------------------------------------------------------------------
(* A finite set of numbers has a largest one: of the sets of those above   *)
(* an element, a smallest one is empty.                                    *)
LEMMA LargestExists ==
  ASSUME NEW S, IsFiniteSet(S), S # {}, S \subseteq Int
  PROVE  \E m \in S : \A q \in S : q <= m
<1> DEFINE Above(m) == {q \in S : q > m}
           T == {Above(m) : m \in S}
           R == StrictSubsetOrdering(S)
<1>1. IsWellFoundedOn(R, FiniteSubsetsOf(S))
  BY FS_StrictSubsetOrderingWellFounded
<1>2. FiniteSubsetsOf(S) = SUBSET S
  BY FS_FiniteSubsetsOfFinite
<1>3. T \subseteq FiniteSubsetsOf(S) /\ T # {}
  <2>1. \A m \in S : Above(m) \in SUBSET S
    OBVIOUS
  <2>2. PICK e \in S : TRUE
    OBVIOUS
  <2> HIDE DEF Above
  <2>3. Above(e) \in T
    BY <2>2
  <2>4. T \subseteq SUBSET S
    BY <2>1
  <2>5. QED
    BY <1>2, <2>3, <2>4
<1> HIDE DEF R
<1>4. \E x \in T : \A y \in T : ~ (<<y, x>> \in R)
  <2> HIDE DEF T
  <2>1. QED
    BY <1>1, <1>3, WFMin
<1>5. PICK m \in S : \A n \in S : <<Above(n), Above(m)>> \notin R
  BY <1>4
<1>6. ASSUME NEW q \in S, q > m PROVE FALSE
  <2>1. q \in Above(m) /\ q \notin Above(q) /\ Above(q) \subseteq Above(m)
    <3>1. q \in Int /\ m \in Int /\ \A l \in S : l \in Int
      BY <1>5
    <3>2. q \in Above(m) /\ q \notin Above(q)
      BY <1>6, <3>1
    <3>3. ASSUME NEW l \in Above(q) PROVE l \in Above(m)
      <4>1. l \in S /\ l > q
        BY <3>3
      <4>2. l > m
        BY <1>6, <3>1, <4>1
      <4>3. QED
        BY <4>1, <4>2
    <3>4. QED
      BY <3>2, <3>3
  <2>2. Above(q) \in SUBSET S /\ Above(m) \in SUBSET S /\ Above(q) # Above(m)
    BY <2>1
  <2> HIDE DEF Above
  <2>3. <<Above(q), Above(m)>> \in R
    BY <2>1, <2>2 DEF R, StrictSubsetOrdering
  <2>4. QED
    BY <1>5, <2>3
<1>7. QED
  BY <1>6

LEMMA SchedulesAreTyped ==
  ASSUME NEW i \in ActiveEntries PROVE EntrySchedule(Model.entries[i], Model) \in ScheduleType
  BY GenerationAssumption DEF EntrySchedule, ActiveEntries

(* worstCaseActiveEntryPrice is no less than the rate of any active entry. *)
LEMMA WorstRateCovers ==
  ASSUME NEW side \in {"input", "output"}
  PROVE  /\ WorstRate(Model, side) \in Nat
         /\ \A i \in ActiveEntries :
               EntrySchedule(Model.entries[i], Model)[side] <= WorstRate(Model, side)
<1> DEFINE rate == [i \in ActiveEntries |-> EntrySchedule(Model.entries[i], Model)[side]]
           of == {rate[i] : i \in ActiveEntries}
           rates == {Model.price[side]} \cup of
<1>1. \A schedule \in ScheduleType : schedule[side] \in Nat
  BY DEF ScheduleType
<1>2. Model.price[side] \in Nat /\ \A i \in ActiveEntries : rate[i] \in Nat
  BY <1>1, SchedulesAreTyped, GenerationAssumption
<1>3. IsFiniteSet(of)
  <2>1. rate \in Surjection(ActiveEntries, of)
    BY DEF Surjection
  <2>2. QED
    BY <2>1, ActiveFinite, FS_Surjection
<1>4. IsFiniteSet(rates)
  <2>1. IsFiniteSet({Model.price[side]})
    BY FS_Singleton
  <2> HIDE DEF of
  <2>2. QED
    BY <1>3, <2>1, FS_Union
<1>5. rates # {} /\ rates \subseteq Nat
  BY <1>2
<1>6. WorstRate(Model, side) = CHOOSE r \in rates : \A q \in rates : q <= r
  BY DEF WorstRate, ActiveEntries, Indexes
<1>7. \E r \in rates : \A q \in rates : q <= r
  <2> HIDE DEF rates
  <2>1. rates \subseteq Int
    BY <1>5
  <2>2. QED
    BY <1>4, <1>5, <2>1, LargestExists
<1>8. WorstRate(Model, side) \in rates /\ \A q \in rates : q <= WorstRate(Model, side)
  <2> HIDE DEF rates
  <2>1. QED
    BY <1>6, <1>7
<1>9. QED
  BY <1>5, <1>8

-----------------------------------------------------------------------------
(* Each side of the price is within its estimate, but for the rounding.    *)
LEMMA RoundedCovered ==
  ASSUME NEW total, NEW exact, NEW n \in Nat, Rounded(total, exact, n),
         NEW tokens \in Nat, NEW rate \in Nat, exact <= tokens * rate
  PROVE  total < Charge(tokens, rate) + n
<1> DEFINE c == Charge(tokens, rate)  x == tokens * rate
<1>1. c \in Nat /\ x \in Nat /\ x <= c * PerMillion
  BY ChargeRounds
<1>2. exact <= x /\ total \in Nat /\ exact \in Nat
  BY DEF Rounded
<1> HIDE DEF c, x
<1>3. c * PerMillion \in Int /\ total * PerMillion \in Int /\ n * PerMillion \in Int
  BY <1>1, <1>2, ChargesAssumption
<1>4. (c + n) * PerMillion = c * PerMillion + n * PerMillion
  BY <1>1, ChargesAssumption
<1>5. total * PerMillion < (c + n) * PerMillion
  BY <1>1, <1>2, <1>3, <1>4 DEF Rounded
<1>6. QED
  BY <1>1, <1>2, <1>5, Cancel DEF c

LEMMA OutputCovered ==
  ASSUME NEW schedule \in ScheduleType, NEW u \in UsageType, Counted(u),
         NEW cap \in Nat, NEW worst \in Nat,
         u.completion <= cap, schedule.output <= worst, schedule.reasoning <= schedule.output
  PROVE  /\ OutputCharge(schedule, u) \in Nat
         /\ OutputCharge(schedule, u) < Charge(cap, worst) + 2
<1>1. PICK r \in 0 .. u.completion : OutputPart(schedule, u, r)
  BY OutputParts
<1> DEFINE c == u.completion  o == schedule.output  q == OrZero(schedule.reasoning)
           exact == (c - r) * o + r * q
<1>2. /\ c \in Nat /\ o \in Nat /\ q \in Nat /\ r \in Nat /\ c - r \in Nat /\ q <= o
      /\ c <= cap /\ o <= worst
  BY DEF Counted, ScheduleType, OrZero
<1>3. Rounded(OutputCharge(schedule, u), exact, 2)
  BY <1>1 DEF OutputPart
<1> HIDE DEF c, o, q
<1>4. r * q <= r * o
  BY <1>2, TimesGrows
<1>5. (c - r) * o + r * o = c * o
  BY <1>2
<1>6. c * o <= cap * worst
  BY <1>2, TimesGrows
<1>7. exact <= cap * worst
  BY <1>2, <1>4, <1>5, <1>6
<1> HIDE DEF exact
<1>8. QED
  BY <1>3, <1>7, RoundedCovered DEF Rounded

LEMMA InputCovered ==
  ASSUME NEW schedule \in ScheduleType, NEW u \in UsageType, Counted(u),
         NEW cap \in Nat, NEW worst \in Nat,
         InputTokens(u) <= cap, schedule.input <= worst,
         schedule.cacheRead <= schedule.input, schedule.cacheWrite <= schedule.input
  PROVE  /\ InputCharge(schedule, u) \in Nat
         /\ InputCharge(schedule, u) < Charge(cap, worst) + 3
<1>1. PICK p \in Nat, r \in Nat, w \in Nat : InputPart(schedule, u, p, r, w)
  BY InputParts
<1> DEFINE i == schedule.input  j == OrZero(schedule.cacheRead)  k == OrZero(schedule.cacheWrite)
           exact == p * i + r * j + w * k
<1>2. /\ i \in Nat /\ j \in Nat /\ k \in Nat /\ j <= i /\ k <= i /\ i <= worst
  BY DEF ScheduleType, OrZero
<1>3. p + r + w = InputTokens(u)
  BY <1>1 DEF InputPart, InputTokens
<1>4. Rounded(InputCharge(schedule, u), exact, 3)
  BY <1>1 DEF InputPart
<1> HIDE DEF i, j, k
<1>5. r * j <= r * i /\ w * k <= w * i
  BY <1>2, TimesGrows
<1>6. p * i + r * i + w * i = (p + r + w) * i
  BY <1>2
<1>7. (p + r + w) * i <= cap * worst
  <2>1. p + r + w \in Nat /\ p + r + w <= cap
    BY <1>3
  <2>2. QED
    BY <1>2, <2>1, TimesGrows
<1>8. exact <= cap * worst
  BY <1>2, <1>5, <1>6, <1>7
<1> HIDE DEF exact
<1>9. QED
  BY <1>4, <1>8, RoundedCovered DEF Rounded

(* With one rate for everything the parts add up to all the tokens.        *)
LEMMA OutputFlat ==
  ASSUME NEW schedule \in ScheduleType, NEW u \in UsageType, Counted(u), FlatRates(schedule)
  PROVE  Rounded(OutputCharge(schedule, u), u.completion * schedule.output, 2)
<1>1. PICK r \in 0 .. u.completion : OutputPart(schedule, u, r)
  BY OutputParts
<1> DEFINE c == u.completion  o == schedule.output  q == OrZero(schedule.reasoning)
<1>2. c \in Nat /\ o \in Nat /\ q \in Nat /\ r \in Nat
  BY DEF Counted, ScheduleType, OrZero
<1>3. Rounded(OutputCharge(schedule, u), (c - r) * o + r * q, 2)
  BY <1>1 DEF OutputPart
<1>4. r = 0 \/ q = o
  BY <1>1 DEF OutputPart, FlatRates, OrZero
<1> HIDE DEF c, o, q
<1>5. (c - r) * o + r * q = c * o
  <2>1. CASE r = 0
    BY <1>2, <2>1
  <2>2. CASE q = o
    BY <1>2, <2>2
  <2>3. QED
    BY <1>4, <2>1, <2>2
<1>6. Rounded(OutputCharge(schedule, u), c * o, 2)
  BY <1>3, <1>5
<1>7. QED
  BY <1>6 DEF c, o

ChargedUsage(schedule, u) == [u EXCEPT !.cacheRead = Priced(@, schedule.cacheRead),
                                       !.cacheWrite = Priced(@, schedule.cacheWrite)]

LEMMA InputFlat ==
  ASSUME NEW schedule \in ScheduleType, NEW u \in UsageType, Counted(u), FlatRates(schedule)
  PROVE  Rounded(InputCharge(schedule, u),
                 InputTokens(ChargedUsage(schedule, u)) * schedule.input, 3)
<1>1. PICK p \in Nat, r \in Nat, w \in Nat : InputPart(schedule, u, p, r, w)
  BY InputParts
<1> DEFINE i == schedule.input  j == OrZero(schedule.cacheRead)  k == OrZero(schedule.cacheWrite)
           a == IF schedule.cacheRead = Absent THEN 0 ELSE r
           b == IF schedule.cacheWrite = Absent THEN 0 ELSE w
           tokens == InputTokens(ChargedUsage(schedule, u))
<1>2. /\ i \in Nat /\ a \in Nat /\ b \in Nat
      /\ (a = 0 /\ j = 0) \/ (a = r /\ j = i)
      /\ (b = 0 /\ k = 0) \/ (b = w /\ k = i)
  BY DEF ScheduleType, OrZero, FlatRates
<1>3. tokens = p + a + b
  <2> DEFINE v == ChargedUsage(schedule, u)
  <2>1. /\ v.prompt = u.prompt /\ v.accounting = u.accounting
        /\ v.cacheRead = Priced(u.cacheRead, schedule.cacheRead)
        /\ v.cacheWrite = Priced(u.cacheWrite, schedule.cacheWrite)
    BY DEF ChargedUsage, UsageType
  <2> HIDE DEF v
  <2>2. CASE u.accounting = "additive"
    <3>1. p = u.prompt /\ r = OrZero(u.cacheRead) /\ w = OrZero(u.cacheWrite)
      BY <1>1, <2>2 DEF InputPart
    <3>2. OrZero(v.cacheRead) = a /\ OrZero(v.cacheWrite) = b
      BY <2>1, <3>1 DEF Priced, OrZero, Absent
    <3>3. QED
      BY <2>1, <2>2, <3>1, <3>2 DEF InputTokens, v
  <2>3. CASE u.accounting # "additive"
    <3>1. p + r + w = u.prompt /\ a = r /\ b = w
      BY <1>1, <2>3 DEF InputPart
    <3>2. QED
      BY <2>1, <2>3, <3>1 DEF InputTokens, v
  <2>4. QED
    BY <2>2, <2>3
<1>4. Rounded(InputCharge(schedule, u), p * i + r * j + w * k, 3)
  BY <1>1 DEF InputPart
<1> HIDE DEF i, j, k, a, b, tokens
<1>5. r * j = a * i /\ w * k = b * i
  BY <1>2
<1>6. p * i + a * i + b * i = (p + a + b) * i
  BY <1>2
<1>7. p * i + r * j + w * k = tokens * i
  BY <1>3, <1>5, <1>6
<1>8. Rounded(InputCharge(schedule, u), tokens * i, 3)
  BY <1>4, <1>7
<1>9. QED
  BY <1>8 DEF i, tokens

LEMMA PriceInParts ==
  ASSUME NEW schedule, NEW u,
         OutputCharge(schedule, u) \in Nat, InputCharge(schedule, u) \in Nat
  PROVE  ApplyTokenSchedule(schedule, u) = OutputCharge(schedule, u) + InputCharge(schedule, u)
  BY DEF ApplyTokenSchedule, InputCharge

(* What is settled is priced by the report of the entry that answered.     *)
LEMMA SettledPrice ==
  ASSUME JInv, NEW s \in Sessions, outcome[s].settled > 0
  PROVE  /\ outcome[s].entry \in ActiveEntries
         /\ usage[s].report \in UsageType /\ Counted(usage[s].report)
         /\ outcome[s].price = IF call[s].actor = "internal" THEN 0
                               ELSE ApplyTokenSchedule(
                                      EntrySchedule(Model.entries[outcome[s].entry], Model),
                                      usage[s].report)
<1>1. Good(s) /\ Sound(s)
  BY DEF JInv, IInv
<1>2. /\ Authoritative(s) /\ outcome[s].price = PriceOf(s) /\ outcome[s].entry = active[s]
  BY <1>1 DEF Sound, Ended
<1>3. usage[s].report \in UsageType /\ Counted(usage[s].report)
  BY <1>1, <1>2 DEF Sound, Metered, Authoritative
<1>4. active[s] \in ActiveEntries
  BY <1>1, <1>2 DEF Good, OneTaker, Authoritative, Sound, Placed
<1>5. QED
  BY <1>2, <1>3, <1>4 DEF PriceOf, Price

(* The hold covers the price but for the rounding of three parts           *)
(* (estimatePreFlightSpend, worstCaseActiveEntryPrice): for every model,   *)
(* schedule and report whose tokens are within the estimate's.             *)
THEOREM PriceIsCovered == Spec => []EstimateCovers
<1>1. JInv => EstimateCovers
  <2> SUFFICES ASSUME JInv, NEW s \in Sessions, outcome[s].settled > 0,
                      PlainRates(EntrySchedule(Model.entries[outcome[s].entry], Model)),
                      InputTokens(usage[s].report) <= PromptTokens,
                      usage[s].report.completion <= CompletionCap
               PROVE  outcome[s].price <= EstimateSpend(Model, PromptTokens, CompletionCap) + 3
    BY DEF EstimateCovers
  <2> DEFINE u == usage[s].report
             schedule == EntrySchedule(Model.entries[outcome[s].entry], Model)
             wi == WorstRate(Model, "input")
             wo == WorstRate(Model, "output")
  <2>1. /\ outcome[s].entry \in ActiveEntries /\ u \in UsageType /\ Counted(u)
        /\ outcome[s].price = IF call[s].actor = "internal" THEN 0
                              ELSE ApplyTokenSchedule(schedule, u)
    BY SettledPrice
  <2>2. schedule \in ScheduleType
    BY <2>1, SchedulesAreTyped
  <2>3. wi \in Nat /\ wo \in Nat /\ schedule.input <= wi /\ schedule.output <= wo
    BY <2>1, WorstRateCovers
  <2>4. PromptTokens \in Nat /\ CompletionCap \in Nat
    BY GenerationAssumption
  <2> HIDE DEF wi, wo, schedule
  <2>5. /\ schedule.cacheRead <= schedule.input /\ schedule.cacheWrite <= schedule.input
        /\ schedule.reasoning <= schedule.output
    BY DEF PlainRates, schedule
  <2> HIDE DEF u
  <2>6. InputTokens(u) <= PromptTokens /\ u.completion <= CompletionCap
    BY DEF u
  <2>7. /\ OutputCharge(schedule, u) \in Nat
        /\ OutputCharge(schedule, u) < Charge(CompletionCap, wo) + 2
    BY <2>1, <2>2, <2>3, <2>4, <2>5, <2>6, OutputCovered
  <2>8. /\ InputCharge(schedule, u) \in Nat
        /\ InputCharge(schedule, u) < Charge(PromptTokens, wi) + 3
    BY <2>1, <2>2, <2>3, <2>4, <2>5, <2>6, InputCovered
  <2>9. Charge(CompletionCap, wo) \in Nat /\ Charge(PromptTokens, wi) \in Nat
    BY <2>3, <2>4, ChargeRounds
  <2>10. EstimateSpend(Model, PromptTokens, CompletionCap)
           = Charge(PromptTokens, wi) + Charge(CompletionCap, wo)
    BY DEF EstimateSpend, wi, wo
  <2>11. ApplyTokenSchedule(schedule, u) = OutputCharge(schedule, u) + InputCharge(schedule, u)
    BY <2>7, <2>8, PriceInParts
  <2>12. QED
    BY <2>1, <2>7, <2>8, <2>9, <2>10, <2>11
<1>2. QED
  BY <1>1, SoundInvariant, PTL

(* Every token is charged once: with one rate for everything the price is  *)
(* that of all tokens, each of at most five parts rounded up               *)
(* (applyTokenSchedule), whatever a report says of cached and reasoning    *)
(* tokens.                                                                 *)
THEOREM TokensChargedOnce == Spec => []EachTokenOnce
<1>1. JInv => EachTokenOnce
  <2> SUFFICES ASSUME JInv, NEW s \in Sessions, outcome[s].settled > 0,
                      call[s].actor # "internal",
                      NEW schedule, NEW u,
                      schedule = EntrySchedule(Model.entries[outcome[s].entry], Model),
                      u = usage[s].report, FlatRates(schedule),
                      NEW exact,
                      exact = (InputTokens(ChargedUsage(schedule, u)) + u.completion)
                                * schedule.input
               PROVE  /\ exact <= outcome[s].price * PerMillion
                      /\ outcome[s].price * PerMillion < exact + 5 * PerMillion
    BY DEF EachTokenOnce, ChargedUsage
  <2> DEFINE i == schedule.input
             ic == InputCharge(schedule, u)  oc == OutputCharge(schedule, u)
             it == InputTokens(ChargedUsage(schedule, u))  ot == u.completion
  <2>1. /\ outcome[s].entry \in ActiveEntries /\ u \in UsageType /\ Counted(u)
        /\ outcome[s].price = ApplyTokenSchedule(schedule, u)
    BY SettledPrice
  <2>2. schedule \in ScheduleType
    BY <2>1, SchedulesAreTyped
  <2>3. Rounded(ic, it * i, 3)
    BY <2>1, <2>2, InputFlat
  <2>4. schedule.output = i
    BY DEF FlatRates
  <2>5. Rounded(oc, ot * i, 2)
    BY <2>1, <2>2, <2>4, OutputFlat
  <2>6. i \in Nat /\ ot \in Nat /\ it \in Int
    <3>1. ChargedUsage(schedule, u) \in UsageType /\ Counted(ChargedUsage(schedule, u))
      BY <2>1 DEF ChargedUsage, UsageType, Counted, Priced, Fields
    <3>2. ASSUME NEW v \in UsageType, Counted(v) PROVE InputTokens(v) \in Int
      <4>1. v.prompt \in Nat /\ v.cacheRead \in Fields /\ v.cacheWrite \in Fields
        BY <3>2 DEF UsageType, Counted
      <4>2. OrZero(v.cacheRead) \in Int /\ OrZero(v.cacheWrite) \in Int
        BY <4>1 DEF Fields, OrZero, Absent
      <4>3. QED
        BY <4>1, <4>2 DEF InputTokens
    <3>3. QED
      BY <2>1, <2>2, <3>1, <3>2 DEF ScheduleType, Counted
  <2>7. outcome[s].price = oc + ic
    BY <2>1, <2>3, <2>5, PriceInParts DEF Rounded
  <2>8. exact = it * i + ot * i
    <3>1. exact = (it + ot) * i
      OBVIOUS
    <3> HIDE DEF i, it, ot
    <3>2. QED
      BY <2>6, <3>1
  <2> DEFINE x == it * i  y == ot * i
  <2>9. /\ ic \in Nat /\ x \in Nat /\ x <= ic * PerMillion
        /\ ic * PerMillion < x + 3 * PerMillion
    BY <2>3 DEF Rounded
  <2>10. /\ oc \in Nat /\ y \in Nat /\ y <= oc * PerMillion
         /\ oc * PerMillion < y + 2 * PerMillion
    BY <2>5 DEF Rounded
  <2>11. exact = x + y
    BY <2>8
  <2> HIDE DEF ic, oc, x, y
  <2>12. outcome[s].price * PerMillion = oc * PerMillion + ic * PerMillion
    BY <2>7, <2>9, <2>10, ChargesAssumption
  <2>13. oc * PerMillion \in Int /\ ic * PerMillion \in Int
    BY <2>9, <2>10, ChargesAssumption
  <2>14. QED
    BY <2>9, <2>10, <2>11, <2>12, <2>13, ChargesAssumption
<1>2. QED
  BY <1>1, SoundInvariant, PTL

(* What a call costs is of every token once and within its estimate.       *)
THEOREM ChargesAreBounded == Spec => []ChargesBounded
<1>1. EstimateCovers /\ EachTokenOnce => ChargesBounded
  BY DEF ChargesBounded
<1>2. QED
  BY <1>1, PriceIsCovered, TokensChargedOnce, PTL
=============================================================================
