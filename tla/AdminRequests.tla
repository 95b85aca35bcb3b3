--------------------------- MODULE AdminRequests ---------------------------
(***************************************************************************)
(* The requests that administer an organization's customers, plans,        *)
(* providers and models, from the panel or with a management key:          *)
(*   middleware/{auth,management-auth}.ts, http/adapters/boundary.ts.      *)
(*                                                                         *)
(* A request runs its calls of the database one after the other, one       *)
(* action each; it may be aborted or fail between any two of them, and     *)
(* what it has written by then stays.                                      *)
(***************************************************************************)
EXTENDS Permissions, Naturals, FiniteSets, TLC

CONSTANTS
    Requests,    \* each makes one request of the API
    Principals,  \* a member of the organization, or a key with its scopes
    Operations   \* what the requests ask for

ASSUME AdminRequestsAssumption ==
    /\ IsFiniteSet(Requests)
    /\ \A p \in Principals :
        \/ p.kind = "panel" /\ p.grants \in Grants
        \/ p.kind = "management" /\ p.scopes \subseteq Scopes

VARIABLE req     \* req[r]: where request r is and what it has read

Idle == [at |-> "idle"]
InitRequests == req = [r \in Requests |-> Idle]

Running(r) == req[r].at \notin {"idle", "done"}
At(r, op, step) == req[r].at = step /\ req[r].op = op

(* requirePermission, where a write stands for its read, and               *)
(* requireManagementScope, where it does not.                              *)
Permits(p, need) ==
    \/ p.kind = "panel" /\ HasPanelPermission(p.grants, need)
    \/ p.kind = "management" /\ need \in p.scopes

(* gates[p.kind]: what each operation that such a principal is offered     *)
(* asks for.                                                               *)
Arrive(r, gates, bodies) ==
    /\ req[r].at = "idle"
    /\ \E p \in Principals : \E op \in Operations \cap DOMAIN gates[p.kind] :
        /\ Permits(p, gates[p.kind][op])
        /\ \E body \in bodies[op] :
            req' = [req EXCEPT ![r] = [op |-> op, at |-> "start", by |-> p,
                                       body |-> body, raced |-> FALSE]]

(* Anyone can call with a customer's key.                                  *)
ArriveWithKey(r, op, bodies) ==
    /\ req[r].at = "idle" /\ op \in Operations
    /\ \E body \in bodies :
        req' = [req EXCEPT ![r] = [op |-> op, at |-> "start", body |-> body,
                                   raced |-> FALSE]]

(* read @@ at step, with its definition in reach of the proofs.            *)
Reads(r, step, read) ==
    LET stepped == [req[r] EXCEPT !.at = step]
    IN  req' = [req EXCEPT ![r] = [field \in DOMAIN read \cup DOMAIN stepped |->
                    IF field \in DOMAIN read THEN read[field] ELSE stepped[field]]]

Answer(answer, shown) == [at |-> "done", answer |-> answer, shown |-> shown]
Refuses(r) == req' = [req EXCEPT ![r] = Answer("refused", FALSE)]

(* Who reads what another request writes meanwhile is raced. A write may   *)
(* be there although the answer got lost, or the request was aborted.      *)
Wrote(r, next) ==
    req' = [q \in Requests |->
              IF q = r THEN next
              ELSE IF Running(q) THEN [req[q] EXCEPT !.raced = TRUE]
              ELSE req[q]]

Answers(r, shown) ==
    \E answer \in {"ok", "lost"} : Wrote(r, Answer(answer, shown /\ answer = "ok"))

Stop(r) ==
    /\ Running(r)
    /\ req' = [req EXCEPT ![r] = Answer("lost", FALSE)]
=============================================================================
