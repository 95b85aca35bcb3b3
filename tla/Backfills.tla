------------------------------ MODULE Backfills -----------------------------
(***************************************************************************)
(* The data repairs among the migrations, as operators on the documents    *)
(* they read: customer and user e-mail addresses, model metadata, entry    *)
(* costs, membership permissions.  An address is abstracted to the mailbox *)
(* it names and whether it is stored in lower case.                        *)
(***************************************************************************)
EXTENDS Integers, Sequences, FiniteSets

CONSTANTS Mailboxes,    \* addresses up to letter case
          Nobody        \* a null address, a missing value

Address == [box : Mailboxes, lower : BOOLEAN]

Lower(a) == [a EXCEPT !.lower = TRUE]

(* Customers: age is the order of creation (ties by _id).  *)
CustomerRow == [age : Nat, email : Address \cup {Nobody}, kept : Address \cup {Nobody}]

Holders(rows, box) == {i \in DOMAIN rows : rows[i].email # Nobody /\ rows[i].email.box = box}
Winner(rows, box)  == CHOOSE i \in Holders(rows, box) :
                        \A j \in Holders(rows, box) : rows[i].age <= rows[j].age

RepairCustomer(rows, i) ==
  LET a == rows[i].email IN
  IF a = Nobody THEN rows[i]
  ELSE IF i = Winner(rows, a.box) THEN [rows[i] EXCEPT !.email = Lower(a)]
  ELSE [age |-> rows[i].age, email |-> Nobody, kept |-> a]

LowerCustomerEmails(rows) == [i \in DOMAIN rows |-> RepairCustomer(rows, i)]

(* The unique index is on the stored bytes of the non-null addresses.  *)
IndexBuilds(rows) ==
  \A i, j \in DOMAIN rows :
     (i # j /\ rows[i].email # Nobody) => rows[i].email # rows[j].email

(* Users: a mailbox two users hold refuses the whole migration.  *)
UsersCollide(users) == \E i, j \in DOMAIN users : i # j /\ users[i].box = users[j].box

----------------------------------------------------------------------------
(* Metadata values: a clean string, a string with CR, other JSON, a value  *)
(* no string stands for (a date, a non-finite number), a string over the   *)
(* limit after conversion.                                                 *)
ValueKinds == {"text", "cr", "json", "host", "long"}
MetadataRow == SUBSET ValueKinds \cup {Nobody}

ConvertValue(v) == IF v \in {"cr", "json"} THEN "text" ELSE v
Inconvertible(v) == v = "host"

NormalizeMetadata(m) == IF m = Nobody THEN {} ELSE {ConvertValue(v) : v \in m}
MetadataRefused(m) ==
  m # Nobody /\ (\/ \E v \in m : Inconvertible(v)
                 \/ "long" \in NormalizeMetadata(m))

----------------------------------------------------------------------------
(* Entry costs from the provider catalog.  The migration reads a model,    *)
(* computes its patch and applies it by entry id to the model as it then   *)
(* is.  A cost the old release stored has no micros and counts as missing. *)
LacksCost(e) == e.cost \in {Nobody, "units"}
Patched(seen, catalog) ==
  {i \in DOMAIN seen : LacksCost(seen[i]) /\ catalog[seen[i].id] # Nobody}

(* Mutant: the patch is addressed by position.  *)
M_PatchByPosition(now, seen, catalog) ==
  [i \in DOMAIN now |->
     IF i \in Patched(seen, catalog) THEN [now[i] EXCEPT !.cost = catalog[seen[i].id]] ELSE now[i]]

BackfillCosts(now, seen, catalog) ==
  [i \in DOMAIN now |->
     IF \E k \in Patched(seen, catalog) : seen[k].id = now[i].id
     THEN [now[i] EXCEPT !.cost = catalog[now[i].id]] ELSE now[i]]

(* The margin is derived once, when it was still the default as read and   *)
(* the first backfilled cost allows it.                                    *)
BackfillMargin(now, seen, patched, derivable) ==
  IF patched # {} /\ seen = "default" /\ derivable THEN "derived" ELSE now

============================================================================
