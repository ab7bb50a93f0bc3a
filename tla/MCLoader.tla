------------------------------ MODULE MCLoader ------------------------------
(* Callers that ask for one package by two names, or for the driver.       *)
EXTENDS Loader, TLC

MCKey == {"database/sql/driver", "./types", "mod/types"}
MCCanonical == [k \in MCKey |-> IF k = "./types" THEN "mod/types" ELSE k]
=============================================================================
