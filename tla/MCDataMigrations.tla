-------------------------- MODULE MCDataMigrations --------------------------
(* A small installation: two mailboxes, two entries with catalog costs, one *)
(* currency of factor 10.                                                   *)
EXTENDS DataMigrations

MCFactor == [c \in Currencies |-> 10]
MCCatalog == [id \in {"e1", "e2"} |-> IF id = "e1" THEN "cost of e1" ELSE "cost of e2"]

MCDeltas == {1, -1}

Row(age, box, lower) == [age |-> age, email |-> [box |-> box, lower |-> lower], kept |-> Nobody]
Box == CHOOSE b \in Mailboxes : TRUE
MCCustomerSets == { << Row(1, Box, FALSE) >>,
                    << Row(2, Box, FALSE), Row(1, Box, TRUE) >> }
MCMetadataSets == { << {"cr", "json"}, Nobody >>, << {"json"}, {"host"} >> }
=============================================================================
