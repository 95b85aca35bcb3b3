--------------------------- MODULE ProviderErrors ---------------------------
(***************************************************************************)
(* How a failed provider call is told apart, and whether another provider  *)
(* may be tried after it.                                                  *)
(*   providers/provider-errors.ts, errors/classify-provider.ts,            *)
(*   providers/map-http-error.ts, infrastructure/provider-http             *)
(*                                                                         *)
(* A failure is a record: its class is "provider" (ProviderError), "type"  *)
(* (TypeError), "abort" (AbortError), "other" (any Error) or one of the    *)
(* tagged errors of errors/families.ts. Messages are left out.             *)
(***************************************************************************)
EXTENDS Naturals

(* makeProviderError: flags that are not given are FALSE.                  *)
ProviderError(category, phase, eligible, maybe) ==
    [class |-> "provider", category |-> category, phase |-> phase,
     eligible |-> eligible, maybe |-> maybe]

PlainError(class) ==
    [class |-> class, category |-> "unknown", phase |-> "request",
     eligible |-> FALSE, maybe |-> FALSE]

(* classifyHttpStatus *)
StatusCategory(status) ==
    CASE status \in {408, 429} -> "capacity"
      [] status >= 500 -> "http_5xx"
      [] status \in {401, 403} -> "auth"
      [] OTHER -> "http_4xx"

StatusEligible(status) == StatusCategory(status) \in {"capacity", "http_5xx"}

(* providerHttpError: 5xx and 408 may have been accepted.                  *)
HttpError(status, phase) ==
    ProviderError(StatusCategory(status), phase, StatusEligible(status),
                  status >= 500 \/ status = 408)

(* The failures of a streaming adapter: the wait for headers timed out,    *)
(* the body could not be read to its end.                                  *)
HeadersTimeout == ProviderError("timeout_ambiguous", "headers", TRUE, TRUE)
\* Mutant: a body that breaks is as good as a refused connection.
BodyErrorEligible == ProviderError("connection", "body", TRUE, FALSE)

BodyReadError == ProviderError("connection", "body", FALSE, TRUE)

(* providerUnavailable of selection.ts: no provider, adapter or key.       *)
Unavailable ==
    [class |-> "unavailable", category |-> "unknown", phase |-> "request",
     eligible |-> FALSE, maybe |-> FALSE]

-----------------------------------------------------------------------------
(* isFallbackAllowed. The class "unavailable" is none that it knows.       *)
IsFallbackAllowed(err, committed) ==
    /\ ~committed
    /\ \/ /\ err.class = "provider"
          /\ ~(err.phase \in {"body", "stream"} /\ ~err.eligible)
          /\ ~(err.maybe /\ ~err.eligible)
          /\ err.eligible
       \/ err.class = "type"

(* providerErrorFromCategory: the tag of a category.                       *)
TagOf(category) ==
    CASE category \in {"timeout_pre_send", "timeout_ambiguous"} -> "timeout"
      [] category \in {"connection", "capacity", "http_5xx"} -> "unavailable"
      [] category \in {"auth", "validation", "http_4xx", "abort"} -> "rejected"
      [] OTHER -> "protocol"

Tagged == {"timeout", "unavailable", "rejected", "protocol"}

(* classifyProviderError *)
Classify(err, committed) ==
    CASE err.class = "provider" ->
            [err EXCEPT !.class = TagOf(err.category), !.eligible = @ /\ ~committed]
      [] err.class = "type" ->
            [class |-> "unavailable", category |-> "connection", phase |-> "connect",
             eligible |-> ~committed, maybe |-> FALSE]
      [] err.class = "abort" ->
            [class |-> "rejected", category |-> "abort", phase |-> "request",
             eligible |-> FALSE, maybe |-> FALSE]
      [] OTHER -> PlainError("system")

(* httpFailureToProviderError: back to what the adapters fail with.        *)
ToProviderError(err) ==
    IF err.class \in Tagged
    THEN ProviderError(err.category, err.phase, err.eligible, err.maybe)
    ELSE ProviderError("unknown", "request", FALSE, FALSE)

(* providerHttpRequest of a completion: whatever fetch or text() rejects   *)
(* with is classified before it reaches the adapter's callers.             *)
RequestError(err) == ToProviderError(Classify(err, FALSE))

(* isFallbackAllowedForError: the same decision for a tagged error.        *)
IsFallbackAllowedForError(err, committed) ==
    /\ ~committed
    /\ IF err.class \in Tagged
       THEN /\ ~(err.phase \in {"body", "stream"} /\ ~err.eligible)
            /\ ~(err.maybe /\ ~err.eligible)
            /\ err.eligible
       ELSE IsFallbackAllowed(err, committed)
=============================================================================
