------------------------------ MODULE WriteOnce ------------------------------
(***************************************************************************)
(* What Client::send promises of a request to write a point: it takes      *)
(* effect at most once, though perhaps only after the client has given up; *)
(* and the client reports ACK only of a request that has taken effect.     *)
(***************************************************************************)
EXTENDS Naturals

CONSTANT Requests

VARIABLES
    outcome,   \* request -> "new", "pending", or what the client reported
    applied    \* request -> how often it has taken effect

Reports == {"ACK", "ERR", "abandoned"}

WInit ==
    /\ outcome = [r \in Requests |-> "new"]
    /\ applied = [r \in Requests |-> 0]

Issue(r) ==
    /\ outcome[r] = "new"
    /\ outcome' = [outcome EXCEPT ![r] = "pending"]
    /\ UNCHANGED applied

TakeEffect(r) ==
    /\ outcome[r] # "new" /\ applied[r] = 0
    /\ applied' = [applied EXCEPT ![r] = 1]
    /\ UNCHANGED outcome

Report(r, o) ==
    /\ outcome[r] = "pending"
    /\ o = "ACK" => applied[r] = 1
    /\ outcome' = [outcome EXCEPT ![r] = o]
    /\ UNCHANGED applied

WNext ==
    \E r \in Requests : Issue(r) \/ TakeEffect(r) \/ \E o \in Reports : Report(r, o)

WSpec == WInit /\ [][WNext]_<<outcome, applied>>
=============================================================================
