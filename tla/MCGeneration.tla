---------------------------- MODULE MCGeneration ----------------------------
(***************************************************************************)
(* Instances of Generation for TLC: a model of three active entries and an *)
(* inactive one, and a call of every kind.                                 *)
(***************************************************************************)
EXTENDS Generation, TLC

CONSTANT s1

Schedule(in, out, reasoning, read, write) ==
    [input |-> in, output |-> out, reasoning |-> reasoning, cacheRead |-> read,
     cacheWrite |-> write]

Entry(priority, isActive, type, timeout, price) ==
    [priority |-> priority, active |-> isActive, sdkType |-> type, timeout |-> timeout,
     price |-> price]

\* The first entry is tried second and charges cached tokens for themselves;
\* the model has one rate for everything, and so has the third entry, the
\* dearest, but for cache writes, which have none.
MCModel ==
    [price |-> Schedule(13, 13, 13, 13, 13),
     entries |-> <<Entry(2, TRUE, "anthropic", TRUE, Schedule(5, 9, Absent, 2, 4)),
                   Entry(1, TRUE, "openai", FALSE, NoSchedule),
                   Entry(3, TRUE, "anthropic", TRUE, Schedule(17, 17, Absent, 17, Absent)),
                   Entry(0, FALSE, "openai", FALSE, Schedule(90, 90, Absent, Absent, Absent))>>]

Raw(prompt, completion, reasoning, read, write, total) ==
    [prompt |-> prompt, completion |-> completion, reasoning |-> reasoning,
     cacheRead |-> read, cacheWrite |-> write, total |-> total, accounting |-> "additive"]

\* A whole report; two halves; more cached than prompt tokens; a total that
\* is too small; a report of no tokens; one that is no number.
MCReports ==
    {Raw(6, 4, 1, 2, 2, 12), Raw(6, Absent, Absent, Absent, 1, Absent),
     Raw(Absent, 3, 5, Absent, Absent, Absent), Raw(3, 2, 4, 2, 5, Absent),
     Raw(6, 4, Absent, Absent, Absent, 8), Raw(0, 0, Absent, Absent, Absent, Absent),
     Raw(6, Malformed, Absent, Absent, Absent, Absent)}

MCKinds ==
    {[stream |-> TRUE, surface |-> "openai", actor |-> "customer"],
     [stream |-> TRUE, surface |-> "playground", actor |-> "internal"],
     [stream |-> FALSE, surface |-> "anthropic", actor |-> "attributed"]}
=============================================================================
