------------------------------ MODULE Snapshot ------------------------------
(***************************************************************************)
(* What the shared memory and its semaphore are for: a publication holds   *)
(* the points of one state of the simulation, all of them, and the state   *)
(* the solver shows at that moment.                                        *)
(***************************************************************************)
CONSTANTS None, Points, States

VARIABLES
    truth,        \* the state the solver shows, None before and after it runs
    publication   \* what is being published, point by point

Nothing == [p \in Points |-> None]

SnapshotInit == truth = None /\ publication = Nothing

Advance ==
    /\ truth' \in States \union {None}
    /\ UNCHANGED publication

Publish ==
    /\ truth # None
    /\ publication' = [p \in Points |-> truth]
    /\ UNCHANGED truth

\* The publication is sent, or its provider dies.
Conclude ==
    /\ publication' = Nothing
    /\ UNCHANGED truth

SnapshotNext == Advance \/ Publish \/ Conclude

SnapshotSpec == SnapshotInit /\ [][SnapshotNext]_<<truth, publication>>
=============================================================================
