------------------------------ MODULE MCReqRep ------------------------------
(* Two clients: one with two writes, one with one.                           *)
EXTENDS ReqRep

MCOwner == [r \in Requests |-> IF r = "w3" THEN "c2" ELSE "c1"]
=============================================================================
