--------------------------- MODULE CommandChannel ---------------------------
(***************************************************************************)
(* What a protocol client promises of the commands it is given: those that *)
(* are written while it is connected reach the data manager of the device  *)
(* one by one, in the order they were written in, none twice; those that   *)
(* are under way when the connection is lost are dropped with it, and none *)
(* of them comes in on a later connection.                                 *)
(*                                                                         *)
(* While the client's connection is active its commands are the only ones  *)
(* that put a value into an update, and what it shows changes only by what *)
(* it is told to write and by the reports it receives.                     *)
(***************************************************************************)
EXTENDS Naturals, Sequences

CONSTANTS
    None,
    Tags,
    ValuesOf,   \* tag -> its values
    Carried     \* tag -> value -> what a command carries of it

VARIABLES
    connected,
    active,     \* whether the device takes commands from the client
    pending,    \* the commands under way, and what opens a connection
    reports,    \* how many reports of the device are under way
    updated,    \* tag -> the update the data manager holds
    shown       \* tag -> the value the client shows

cvars == <<connected, active, pending, reports, updated, shown>>

\* A message without a value: STARTDT and the interrogation.
Setup == [tag |-> None, val |-> None]

CInit ==
    /\ connected = FALSE /\ active = FALSE
    /\ pending = <<>> /\ reports = 0
    /\ updated = [t \in Tags |-> None]

\* The client begins anew.
Connect ==
    /\ ~connected /\ pending = <<>>
    /\ connected' = TRUE
    /\ pending' = <<Setup, Setup>>
    /\ UNCHANGED <<active, reports, updated>>

\* A command that is written without a connection is shown, and lost.
Write(t, v) ==
    /\ pending' = IF connected THEN Append(pending, [tag |-> t, val |-> Carried[t][v]])
                               ELSE pending
    /\ shown' = [shown EXCEPT ![t] = v]
    /\ UNCHANGED <<connected, active, reports, updated>>

\* The connection is made active, and the device may answer with a report.
TakeSetup ==
    /\ pending # <<>> /\ Head(pending) = Setup
    /\ pending' = Tail(pending)
    /\ active' \in {active, TRUE}
    /\ reports' \in {reports, reports + 1}
    /\ UNCHANGED <<connected, updated, shown>>

TakeCommand ==
    /\ active
    /\ pending # <<>> /\ Head(pending).tag \in Tags
    /\ updated' = [updated EXCEPT ![Head(pending).tag] = Head(pending).val]
    /\ pending' = Tail(pending)
    /\ UNCHANGED <<connected, active, reports, shown>>

\* Another master takes over.
Yield ==
    /\ active' = FALSE
    /\ UNCHANGED <<connected, pending, reports, updated, shown>>

Drop ==
    /\ connected' = FALSE /\ active' = FALSE
    /\ pending' = <<>> /\ reports' = 0
    /\ UNCHANGED <<updated, shown>>

\* The device reports values, which the client then shows.
Report ==
    /\ active
    /\ reports' = reports + 1
    /\ UNCHANGED <<connected, active, pending, updated, shown>>

Refresh ==
    /\ reports > 0
    /\ reports' = reports - 1
    /\ UNCHANGED <<connected, active, pending, updated>>

\* The scan takes an update, or another master that is active makes one.
Update(t, v) ==
    /\ v = None \/ ~active
    /\ updated' = [updated EXCEPT ![t] = v]
    /\ UNCHANGED <<connected, active, pending, reports, shown>>

CNext ==
    \/ Connect \/ TakeSetup \/ TakeCommand \/ Yield \/ Drop \/ Report \/ Refresh
    \/ \E t \in Tags : \E v \in ValuesOf[t] : Write(t, v)
    \/ \E t \in Tags : \E v \in ValuesOf[t] \union {None} : Update(t, v)

CSpec == CInit /\ [][CNext]_cvars
=============================================================================
