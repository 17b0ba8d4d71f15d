------------------------------ MODULE MCBearer ------------------------------
(* Values for the constants of Bearer.                                       *)
EXTENDS Bearer

MCOwnerOf == [g \in Grant |-> "web"]
MCClientSecret == [c \in Client |-> IF c = "web" THEN "s1" ELSE "s2"]

=============================================================================
