------------------------------- MODULE IEC104 -------------------------------
(***************************************************************************)
(* An IEC 60870-5-104 server of a field device, its reverse polling, and   *)
(* the client of a front-end processor (iec60870-5/module/Server.cpp and   *)
(* ClientConnection.cpp).                                                  *)
(*                                                                         *)
(* Other masters may be connected to the server too, a former connection   *)
(* of a client that was restarted among them.  The protocol library is     *)
(* external: a connection is a pair of FIFO channels; of the open          *)
(* connections at most one is active, the one that sent STARTDT last; what *)
(* is sent on a connection that is not active is dropped, and an ASDU that *)
(* comes in on one closes it (cs104_slave.c).                              *)
(*                                                                         *)
(* The server's thread of a connection calls connectionEventHandler, which *)
(* writes mConnection and mConnected without a lock: the threads of two    *)
(* connections may come between each other's writes.                       *)
(*                                                                         *)
(* One ASDU holds all binary, or all analog points; an analog value is a   *)
(* double at both ends and a float on the wire.  Confirmations, which the  *)
(* client ignores, are left out.                                           *)
(***************************************************************************)
EXTENDS Naturals, Sequences

CONSTANTS
    None,
    Client,           \* the connection of the front-end processor
    Others,           \* the connections of other masters
    Binary, Analog,   \* tags
    AnalogValues,
    Narrow,           \* the double that is read back when a double is sent as a float
    Subtype,          \* how the server sends binary points: "single" or "double"
    MaxQueue,         \* how many messages a channel holds
    MaxInputs         \* how often a value is changed or written

Masters == Others \union {Client}
Tags == Binary \union Analog
Values(t) == IF t \in Binary THEN BOOLEAN ELSE AnalogValues

ASSUME IEC104Assumption ==
    /\ Client \notin Others /\ None \notin Masters
    /\ Binary \intersect Analog = {}
    /\ None \notin AnalogValues /\ None \notin Tags
    /\ AnalogValues # {}
    /\ Narrow \in [AnalogValues -> AnalogValues]
    /\ \A v \in AnalogValues : Narrow[Narrow[v]] = Narrow[v]
    /\ Subtype \in {"single", "double"}
    /\ {MaxQueue, MaxInputs} \subseteq Nat /\ MaxQueue >= 2

VARIABLES
    data,          \* the values of the server's tags
    updated,       \* tag -> the update its data manager holds
    tcp,           \* whether the client's end of its connection is up
    open,          \* the connections the server has
    opening,       \* those whose thread is between the two writes of its event handler
    active,        \* the one that is active
    mConnection, mConnected,
    toServer,      \* what the client has sent
    toClient,      \* what was sent to the client
    poll,          \* where the reverse poll loop is: "idle", "binary" or "analog"
    polled,        \* the analog values it has read
    answer,        \* the analog values of an interrogation that is being answered
    reg,           \* tag -> the client's register
    inputs         \* how many changes and writes there have been

deviceVars == <<data, updated>>
connVars == <<tcp, open, opening, active, mConnection, mConnected>>
pollVars == <<poll, polled>>
vars == <<deviceVars, connVars, toServer, toClient, pollVars, answer, reg, inputs>>

Initial == [t \in Tags |-> IF t \in Binary THEN FALSE ELSE CHOOSE v \in AnalogValues : TRUE]

Init ==
    /\ data = Initial
    /\ updated = [t \in Tags |-> None]
    /\ tcp = FALSE /\ open = {} /\ opening = {} /\ active = None
    /\ mConnection = None /\ mConnected = FALSE
    /\ toServer = <<>> /\ toClient = <<>>
    /\ poll = "idle" /\ polled = None /\ answer = None
    /\ reg = Initial
    /\ inputs = 0

\* Every change of a value from outside counts against the bound.
Input == inputs < MaxInputs /\ inputs' = inputs + 1

-----------------------------------------------------------------------------
(* Conversions and messages.                                               *)

\* Defect: the two positions are confused.
convertBoolToDPValueSwapped(status) == IF status THEN "OFF" ELSE "ON"

convertBoolToDPValue(status) == IF status THEN "ON" ELSE "OFF"

\* Defect: only one of the positions sets the value.
DPValueToBoolUnset(value) == IF value = "ON" THEN TRUE ELSE None

\* A double point that is in between counts as open.
DPValueToBool(value) == value = "ON"

\* What is left of a value of tag t on the wire.
Wire(t, v) == IF t \in Analog THEN Narrow[v] ELSE v

\* A command for tag t, as the client sends it and as the server takes it.
Command(t, v) ==
    IF t \in Binary
    THEN [type |-> "C_DC_NA_1", tag |-> t, val |-> convertBoolToDPValue(v)]
    ELSE [type |-> "C_SE_NC_1", tag |-> t, val |-> Wire(t, v)]

CommandValue(m) == IF m.type = "C_DC_NA_1" THEN DPValueToBool(m.val) ELSE m.val

StartDT == [type |-> "STARTDT", tag |-> None, val |-> None]
Interrogation == [type |-> "C_IC_NA_1", tag |-> None, val |-> None]

ASDU(type, vals) == [type |-> type, vals |-> vals]

DoublePoints == [t \in Binary |-> convertBoolToDPValue(data[t])]

AnalogASDU == ASDU("M_ME_NC_1", [t \in Analog |-> Wire(t, data[t])])

\* What the reverse poll loop, and an interrogation, send for the binary points.
PolledBinary ==
    IF Subtype = "double"
    THEN ASDU("M_DP_TB_1", DoublePoints)
    ELSE ASDU("M_SP_NA_1", [t \in Binary |-> data[t]])

InterrogatedBinary ==
    IF Subtype = "double"
    THEN ASDU("M_DP_NA_1", DoublePoints)
    ELSE ASDU("M_SP_NA_1", [t \in Binary |-> data[t]])

\* IMasterConnection_sendASDU.
SendASDU(con, asdu) ==
    IF con = Client /\ active = Client /\ tcp
    THEN /\ Len(toClient) < MaxQueue
         /\ toClient' = Append(toClient, asdu)
    ELSE UNCHANGED toClient

-----------------------------------------------------------------------------
(* The server's connections.                                               *)

\* connectionEventHandler, CS104_CON_EVENT_CONNECTION_OPENED: the handle is
\* stored ...
ConnectionOpened(con) ==
    /\ con \in Masters \ open /\ (con = Client => tcp)
    /\ open' = open \union {con}
    /\ opening' = opening \union {con}
    /\ mConnection' = con
    /\ UNCHANGED <<deviceVars, tcp, active, mConnected, toServer, toClient, pollVars, answer,
                   reg, inputs>>

\* ... and then the flag.
MarkConnected(con) ==
    /\ con \in opening
    /\ opening' = opening \ {con}
    /\ mConnected' = TRUE
    /\ UNCHANGED <<deviceVars, tcp, open, active, mConnection, toServer, toClient, pollVars,
                   answer, reg, inputs>>

\* Defect: polling stops only when the connection that was stored last is closed.
ConnectionClosedIfPolled(con) ==
    /\ open' = open \ {con}
    /\ active' = IF active = con THEN None ELSE active
    /\ mConnected' = (mConnected /\ con # mConnection)
    /\ UNCHANGED <<mConnection, opening>>

\* CS104_CON_EVENT_CONNECTION_CLOSED, of whichever connection.
ConnectionClosed(con) ==
    /\ open' = open \ {con}
    /\ active' = IF active = con THEN None ELSE active
    /\ mConnected' = FALSE
    /\ UNCHANGED <<mConnection, opening>>

\* The library closes a connection: its peer is gone, or does not answer in
\* time, or has sent what the protocol does not allow.
Close(con) ==
    /\ con \in open \ opening
    /\ ConnectionClosed(con)
    /\ tcp' = (tcp /\ con # Client)
    /\ IF con = Client
       THEN toServer' = <<>> /\ toClient' = <<>> /\ answer' = None
       ELSE UNCHANGED <<toServer, toClient, answer>>
    /\ UNCHANGED <<deviceVars, pollVars, reg, inputs>>

\* Another master sends STARTDT, or a command, single, double or a set point.
OtherActivate(con) ==
    /\ con \in open \ opening
    /\ active' = con
    /\ UNCHANGED <<deviceVars, tcp, open, opening, mConnection, mConnected, toServer, toClient,
                   pollVars, answer, reg, inputs>>

OtherCommand(con, t, v) ==
    /\ con = active
    /\ updated' = [updated EXCEPT ![t] = Wire(t, v)]
    /\ Input
    /\ UNCHANGED <<data, connVars, toServer, toClient, pollVars, answer, reg>>

OtherStep(con) ==
    \/ OtherActivate(con)
    \/ \E t \in Tags : \E v \in Values(t) : OtherCommand(con, t, v)

-----------------------------------------------------------------------------
(* The thread of the client's connection, in the server.                   *)

Take == toServer # <<>> /\ Client \in open \ opening /\ answer = None

Activate ==
    /\ Take /\ Head(toServer) = StartDT
    /\ active' = Client
    /\ toServer' = Tail(toServer)
    /\ UNCHANGED <<deviceVars, tcp, open, opening, mConnection, mConnected, toClient, pollVars,
                   answer, reg, inputs>>

\* interrogationHandler: the binary points are sent ...
Interrogate ==
    /\ Take /\ active = Client /\ Head(toServer) = Interrogation
    /\ SendASDU(Client, InterrogatedBinary)
    /\ answer' = AnalogASDU
    /\ toServer' = Tail(toServer)
    /\ UNCHANGED <<deviceVars, connVars, pollVars, reg, inputs>>

\* ... then the analog points.
InterrogateAnalog ==
    /\ answer # None
    /\ SendASDU(Client, answer)
    /\ answer' = None
    /\ UNCHANGED <<deviceVars, connVars, toServer, pollVars, reg, inputs>>

\* Defect: the command is handled again and again.
HandleCommandAgain ==
    /\ Take /\ active = Client
    /\ Head(toServer).tag \in Tags
    /\ LET m == Head(toServer)
       IN  updated' = [updated EXCEPT ![m.tag] = CommandValue(m)]
    /\ UNCHANGED <<data, connVars, toServer, toClient, pollVars, answer, reg, inputs>>

\* asduHandler: the data manager takes the command.
HandleCommand ==
    /\ Take /\ active = Client
    /\ Head(toServer).tag \in Tags
    /\ LET m == Head(toServer)
       IN  updated' = [updated EXCEPT ![m.tag] = CommandValue(m)]
    /\ toServer' = Tail(toServer)
    /\ UNCHANGED <<data, connVars, toClient, pollVars, answer, reg, inputs>>

\* An ASDU came in after another master was activated.
Refuse ==
    /\ Take /\ active # Client /\ Head(toServer) # StartDT
    /\ Close(Client)

ServerStep == Activate \/ Interrogate \/ InterrogateAnalog \/ HandleCommand \/ Refuse

-----------------------------------------------------------------------------
(* reversePollSinglePoint, reversePollDoublePoint.                         *)

PollBegin ==
    /\ poll = "idle" /\ mConnected
    /\ poll' = "binary"
    /\ UNCHANGED <<deviceVars, connVars, toServer, toClient, polled, answer, reg, inputs>>

\* The binary points are sent to mConnection, whatever it is by now, and the
\* analog points are read.
PollBinary ==
    /\ poll = "binary"
    /\ SendASDU(mConnection, PolledBinary)
    /\ polled' = AnalogASDU
    /\ poll' = "analog"
    /\ UNCHANGED <<deviceVars, connVars, toServer, answer, reg, inputs>>

\* Defect: the analog points are read before the loop.
PollAnalogReadOnce ==
    /\ poll = "analog"
    /\ SendASDU(mConnection, polled)
    /\ UNCHANGED <<deviceVars, connVars, toServer, pollVars, answer, reg, inputs>>

PollAnalog ==
    /\ poll = "analog"
    /\ SendASDU(mConnection, polled)
    /\ poll' = "idle" /\ polled' = None
    /\ UNCHANGED <<deviceVars, connVars, toServer, answer, reg, inputs>>

PollStep == PollBegin \/ PollBinary \/ PollAnalog

-----------------------------------------------------------------------------
(* The client.                                                             *)

\* ClientConnection::start.
ClientStart ==
    /\ ~tcp /\ Client \notin open
    /\ tcp' = TRUE
    /\ toServer' = <<StartDT, Interrogation>>
    /\ toClient' = <<>>
    /\ reg' = Initial
    /\ UNCHANGED <<deviceVars, open, opening, active, mConnection, mConnected, pollVars, answer,
                   inputs>>

\* writeBinary, writeAnalog: the register takes the value at once, and the
\* command is acknowledged, also when the connection is gone.
ClientWrite(t, v) ==
    /\ IF tcp
       THEN Len(toServer) < MaxQueue /\ toServer' = Append(toServer, Command(t, v))
       ELSE UNCHANGED toServer
    /\ reg' = [reg EXCEPT ![t] = v]
    /\ Input
    /\ UNCHANGED <<deviceVars, connVars, toClient, pollVars, answer>>

\* asduReceivedHandler: of the types a server sends for binary points, only the
\* answer of a double point server to an interrogation is taken.
Registers(asdu) ==
    CASE asdu.type = "M_ME_NC_1" ->
            [t \in Tags |-> IF t \in Analog THEN asdu.vals[t] ELSE reg[t]]
      [] asdu.type = "M_DP_NA_1" ->
            [t \in Tags |-> IF t \in Binary THEN DPValueToBool(asdu.vals[t]) ELSE reg[t]]
      [] OTHER -> reg

ClientReceive ==
    /\ tcp /\ toClient # <<>>
    /\ reg' = Registers(Head(toClient))
    /\ toClient' = Tail(toClient)
    /\ UNCHANGED <<deviceVars, connVars, toServer, pollVars, answer, inputs>>

-----------------------------------------------------------------------------
(* The rest of the field device: a scan applies an update (module          *)
(* FieldDevice), a provider or the logic changes a value.                  *)

Apply(t) ==
    /\ updated[t] # None
    /\ data' = [data EXCEPT ![t] = updated[t]]
    /\ updated' = [updated EXCEPT ![t] = None]
    /\ UNCHANGED <<connVars, toServer, toClient, pollVars, answer, reg, inputs>>

Change(t, v) ==
    /\ v # data[t]
    /\ data' = [data EXCEPT ![t] = v]
    /\ Input
    /\ UNCHANGED <<updated, connVars, toServer, toClient, pollVars, answer, reg>>

Next ==
    \/ \E con \in Masters : ConnectionOpened(con) \/ MarkConnected(con) \/ Close(con)
    \/ \E con \in Others : OtherStep(con)
    \/ ServerStep \/ PollStep
    \/ ClientStart \/ ClientReceive
    \/ \E t \in Tags : \E v \in Values(t) : ClientWrite(t, v) \/ Change(t, v)
    \/ \E t \in Tags : Apply(t)

Spec == Init /\ [][Next]_vars

\* The threads of the server and of the client run, and the scan thread; nothing
\* is assumed of who connects.  The
\* bound of a channel is not the library's: who finds it full again and again is
\* not kept waiting for ever.
Fairness ==
    /\ SF_vars(ServerStep)
    /\ SF_vars(PollStep)
    /\ WF_vars(ClientReceive)
    /\ WF_vars(\E t \in Tags : Apply(t))

FairSpec == Spec /\ Fairness

-----------------------------------------------------------------------------
(* Properties.                                                             *)

TypeOK ==
    /\ \A t \in Tags : /\ data[t] \in Values(t)
                       /\ reg[t] \in Values(t)
                       /\ updated[t] \in Values(t) \union {None}
    /\ tcp \in BOOLEAN /\ open \subseteq Masters /\ opening \subseteq open
    /\ active \in open \union {None}
    /\ mConnection \in Masters \union {None} /\ mConnected \in BOOLEAN
    /\ Len(toServer) <= MaxQueue /\ Len(toClient) <= MaxQueue
    /\ \A i \in DOMAIN toServer :
          /\ toServer[i].type \in {"STARTDT", "C_IC_NA_1", "C_DC_NA_1", "C_SE_NC_1"}
          /\ toServer[i].tag \in Tags \union {None}
    /\ poll \in {"idle", "binary", "analog"}
    /\ inputs \in 0 .. MaxInputs

\* The reverse poll loop begins a round only while a connection is open whose
\* thread has left the event handler, although the threads of several connections
\* write the handle and the flag in between each other.  It need not be the one
\* whose handle is stored: that one may be closed by then.
PollsConnected == mConnected => open \ opening # {}

\* The client's connection is the server's only one that matters: it is up,
\* active, and the one the server polls.
Polled ==
    /\ tcp /\ Client \in open
    /\ active = Client
    /\ mConnection = Client /\ mConnected

\* Once an analog value no longer changes, the client's register comes to show
\* it and keeps showing it, whatever the client wrote there before, and whatever
\* polls and answers with older values were under way; as far as a float tells
\* the value.
AnalogFollows ==
    \A t \in Analog : \A v \in AnalogValues :
        <>[](Polled /\ data[t] = v) => <>[](reg[t] = Wire(t, v))

\* The same of the binary points: the client says it does not have to poll
\* because the server does.
BinaryFollows ==
    \A t \in Binary : \A v \in BOOLEAN :
        <>[](Polled /\ data[t] = v) => <>[](reg[t] = v)

\* The last value the client has asked for and the server has not taken yet.
Asked(t) == {i \in DOMAIN toServer : toServer[i].tag = t}

Last(t) == CHOOSE i \in Asked(t) : \A j \in Asked(t) : j <= i

\* A command under way is given to the data manager with the value the client
\* wrote, or what a float tells of it, unless the connection is lost or another master takes over.
CommandArrives ==
    \A t \in Tags : \A v \in Values(t) :
        (Polled /\ Asked(t) # {} /\ toServer[Last(t)].val = Command(t, v).val)
            ~> (updated[t] = Wire(t, v) \/ ~Polled)

\* What is under way to the server, as it will take it.
Pending == [i \in DOMAIN toServer |-> [tag |-> toServer[i].tag, val |-> CommandValue(toServer[i])]]

Channel == INSTANCE CommandChannel WITH
               ValuesOf <- [t \in Tags |-> Values(t)],
               Carried <- [t \in Tags |-> [v \in Values(t) |-> Wire(t, v)]],
               connected <- tcp,
               active <- active = Client,
               pending <- Pending,
               reports <- Len(toClient),
               shown <- reg

\* However connections come and go, and whoever takes over: what the client is
\* told to write is sent, its commands reach the data manager in their order, with
\* the values it was told, none twice, and none on a later connection than the one
\* it was written on.
CommandsDelivered == Channel!CSpec
=============================================================================
