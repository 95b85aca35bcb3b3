------------------------------ MODULE Charges ------------------------------
(***************************************************************************)
(* What a call costs: the token usage a provider reports, how it is read,  *)
(* the price of it, and the estimate the call is admitted with.            *)
(*   providers/provider-usage.ts, domains/billing/charges.ts, estimate.ts  *)
(*                                                                         *)
(* Amounts are micros, rates are micros per PerMillion tokens. A field of  *)
(* a provider's report that is missing is Absent; one that is there but    *)
(* not a safe integer is Malformed. Alternative spellings of a field       *)
(* count as one field.                                                     *)
(***************************************************************************)
EXTENDS Integers

CONSTANTS
    PerMillion,  \* TOKENS_PER_MILLION_COUNT
    MaxSafe      \* Number.MAX_SAFE_INTEGER

ASSUME ChargesAssumption == PerMillion \in Nat \ {0} /\ MaxSafe \in Nat

Absent == -1
Malformed == -2

Larger(a, b) == IF a >= b THEN a ELSE b
Smaller(a, b) == IF a <= b THEN a ELSE b

(* numField: a number that may be used, or why not. *)
NumField(v) == IF v \in {Absent, Malformed} THEN v
               ELSE IF v \in 0 .. MaxSafe THEN v ELSE Malformed

(* `?? 0` *)
OrZero(v) == IF v = Absent THEN 0 ELSE v

(* safeAddNonNeg: Absent stands for the null of an overflow. *)
SafeSum(v, w) == IF v + w <= MaxSafe THEN v + w ELSE Absent

(* partsSumForProcessedTotal: cached tokens are part of an OpenAI prompt   *)
(* and come on top of an Anthropic one. Reasoning is part of completion.   *)
PartsSum(u) ==
    IF u.accounting = "additive"
    THEN SafeSum(u.prompt + u.completion, OrZero(u.cacheRead) + OrZero(u.cacheWrite))
    ELSE SafeSum(u.prompt, u.completion)

(* normalizeProcessedTotalTokens: never less than the parts.               *)
ProcessedTotal(u) ==
    IF PartsSum(u) = Absent THEN Absent
    ELSE IF OrZero(u.total) > 0 THEN Larger(u.total, PartsSum(u))
    ELSE PartsSum(u)

Reported(u) == [status |-> "reported", usage |-> [u EXCEPT !.total = ProcessedTotal(u)]]
Missing(reason) == [status |-> "missing", reason |-> reason]

(* The fields of a report as numbers.                                      *)
Read(raw, accounting) ==
    [prompt |-> NumField(raw.prompt), completion |-> NumField(raw.completion),
     reasoning |-> NumField(raw.reasoning), cacheRead |-> NumField(raw.cacheRead),
     cacheWrite |-> NumField(raw.cacheWrite), total |-> NumField(raw.total),
     accounting |-> accounting]

SomeMalformed(u) ==
    Malformed \in {u.prompt, u.completion, u.reasoning, u.cacheRead, u.cacheWrite, u.total}

(* resolveOpenAIProviderTotal: a total below its parts is not believed.    *)
InconsistentTotal(u) == u.total > 0 /\ u.total < u.prompt + u.completion

(* parseOpenAIProviderUsage *)
ParseOpenAI(raw) ==
    LET u == Read(raw, "subset") IN
    IF raw.prompt = Absent /\ raw.completion = Absent /\ raw.total = Absent
    THEN Missing("usage_empty_object")
    ELSE IF Absent \in {raw.prompt, raw.completion} THEN Missing("usage_incomplete")
    ELSE IF SomeMalformed(u) THEN Missing("usage_malformed")
    ELSE IF PartsSum(u) = Absent THEN Missing("usage_overflow")
    ELSE IF InconsistentTotal(u) THEN Missing("usage_inconsistent_total")
    ELSE Reported(u)

(* parseAnthropicProviderUsage: there is no total to read. *)
ParseAnthropic(raw) ==
    LET u == [Read(raw, "additive") EXCEPT !.total = Absent] IN
    IF raw.prompt = Absent /\ raw.completion = Absent THEN Missing("usage_empty_object")
    ELSE IF Absent \in {raw.prompt, raw.completion} THEN Missing("usage_incomplete")
    ELSE IF SomeMalformed(u) THEN Missing("usage_malformed")
    ELSE IF PartsSum(u) = Absent THEN Missing("usage_overflow")
    ELSE Reported(u)

(* parseAnthropicStreamUsageFragment: one side may be missing, not both.   *)
UsableFragment(raw) ==
    LET u == [Read(raw, "additive") EXCEPT !.total = Absent] IN
    /\ ~SomeMalformed(u)
    /\ u.prompt # Absent \/ u.completion # Absent

(* mergeAnthropicStreamUsage: the larger of each side; an Absent side is   *)
(* one that no fragment reported (hasInput, hasOutput).                    *)
MergeFragment(u, raw) ==
    [u EXCEPT !.prompt = Larger(@, raw.prompt),
              !.completion = Larger(@, raw.completion),
              !.reasoning = Larger(@, raw.reasoning),
              !.cacheRead = Larger(@, raw.cacheRead),
              !.cacheWrite = Larger(@, raw.cacheWrite)]

(* isAnthropicStreamUsageComplete *)
FragmentsComplete(u) ==
    /\ u.prompt # Absent
    /\ u.completion # Absent
    /\ PartsSum(u) # Absent

NoUsage == [prompt |-> Absent, completion |-> Absent, reasoning |-> Absent,
            cacheRead |-> Absent, cacheWrite |-> Absent, total |-> Absent,
            accounting |-> "additive"]

-----------------------------------------------------------------------------
(* Math.ceil((tokens * rate) / TOKENS_PER_MILLION_COUNT)                   *)
Charge(tokens, rate) == (tokens * rate + PerMillion - 1) \div PerMillion

(* A rate that a schedule does not have is Absent.                         *)
OutputCharge(schedule, u) ==
    LET reasoning == Smaller(OrZero(u.reasoning), u.completion) IN
    IF schedule.reasoning = Absent \/ reasoning = 0
    THEN Charge(u.completion, schedule.output)
    ELSE Charge(u.completion - reasoning, schedule.output)
         + Charge(reasoning, schedule.reasoning)

(* Anthropic: cache reads and writes are charged on top of the prompt.     *)
AdditiveInput(schedule, u) ==
    Charge(u.prompt, schedule.input)
    + Charge(OrZero(u.cacheRead), OrZero(schedule.cacheRead))
    + Charge(OrZero(u.cacheWrite), OrZero(schedule.cacheWrite))

\* Mutant: cache writes are charged and left in the prompt.
WritesTwice(schedule, u) ==
    LET read == IF schedule.cacheRead = Absent THEN 0
                ELSE Smaller(OrZero(u.cacheRead), u.prompt)
        written == IF schedule.cacheWrite = Absent THEN 0
                   ELSE Smaller(OrZero(u.cacheWrite), u.prompt - read)
    IN Charge(u.prompt - read, schedule.input)
       + Charge(read, OrZero(schedule.cacheRead))
       + Charge(written, OrZero(schedule.cacheWrite))

(* OpenAI: they are peeled off the prompt where they have a rate.          *)
SubsetInput(schedule, u) ==
    LET read == IF schedule.cacheRead = Absent THEN 0
                ELSE Smaller(OrZero(u.cacheRead), u.prompt)
        written == IF schedule.cacheWrite = Absent THEN 0
                   ELSE Smaller(OrZero(u.cacheWrite), u.prompt - read)
    IN Charge(u.prompt - read - written, schedule.input)
       + Charge(read, OrZero(schedule.cacheRead))
       + Charge(written, OrZero(schedule.cacheWrite))

(* applyTokenSchedule *)
ApplyTokenSchedule(schedule, u) ==
    OutputCharge(schedule, u) +
    (IF u.accounting = "additive" THEN AdditiveInput(schedule, u)
                                  ELSE SubsetInput(schedule, u))

(* computeCharges: the customer's price. An entry's schedule goes before   *)
(* the model's; NoSchedule is an entry without one.                        *)
NoSchedule == [input |-> Absent, output |-> Absent, reasoning |-> Absent,
               cacheRead |-> Absent, cacheWrite |-> Absent]

(* PriceSchedule: input and output rates are always there.                 *)
ScheduleType ==
    LET Rate == Nat \cup {Absent}
    IN  [input : Nat, output : Nat, reasoning : Rate, cacheRead : Rate, cacheWrite : Rate]

EntrySchedule(entry, model) ==
    IF entry.price = NoSchedule THEN model.price ELSE entry.price

Price(entry, model, u) == ApplyTokenSchedule(EntrySchedule(entry, model), u)

-----------------------------------------------------------------------------
(* worstCaseActiveEntryPrice: the dearest of the model's own rate and the  *)
(* rates of its active entries.                                            *)
WorstRate(model, side) ==
    LET rates == {model.price[side]} \cup
                 {EntrySchedule(model.entries[i], model)[side] :
                    i \in {j \in DOMAIN model.entries : model.entries[j].active}}
    IN CHOOSE r \in rates : \A q \in rates : q <= r

(* estimatePreFlightSpend, with prompt and completion the numbers of       *)
(* tokens that estimatePromptTokens and resolveCompletionCap give.         *)
EstimateSpend(model, prompt, completion) ==
    Charge(prompt, WorstRate(model, "input"))
    + Charge(completion, WorstRate(model, "output"))
=============================================================================
