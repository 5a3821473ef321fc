------------------------------- MODULE Plant -------------------------------
(***************************************************************************)
(* A field device and its simulation provider together: the scan thread    *)
(* and the servers of module FieldDevice, the clients of its output        *)
(* modules and the provider's server of module ReqRep, and the provider's  *)
(* publishing thread (the test provider, bennu-test-ep-server/main.cpp).   *)
(*                                                                         *)
(* An output module writes a tag by Client::send, which returns with a     *)
(* reply or gives up; it stores the value in the datastore whatever came   *)
(* of the write.  The provider publishes its points over and over, in      *)
(* datagrams that may be lost, delayed and overtaken.                      *)
(*                                                                         *)
(* Commands are the only updates here (a device without logic), and there  *)
(* are as many as Commands lists.                                          *)
(***************************************************************************)
EXTENDS FieldDevice

CONSTANTS
    REQUEST_RETRIES,
    Commands         \* the commands that come in, in their order

\* Every command is written at most once by every output module: <<o, n>> is the
\* n-th write of output module o.
Requests == Outputs \X DOMAIN Commands

Owner == [r \in Requests |-> r[1]]

ASSUME PlantAssumption ==
    /\ Logic = <<>>
    /\ Commands \in Seq(Command)
    /\ \A i \in DOMAIN Commands : Commands[i].val \in Values(Type(Commands[i].tag))
    /\ REQUEST_RETRIES \in Nat \ {0}
    /\ None \notin Tags /\ None \notin Requests
    /\ None \notin [client : Outputs, socket : Nat, status : {"ACK", "ERR"}]
    /\ \A p \in Points : \A v \in Values(PointType[p]) :
          [point |-> p, data |-> Data(PointType[p], v)] \in Published

VARIABLES
    current, retriesLeft, socket, toServer, toClient,   \* as in ReqRep
    provider, reply, outcome, applied, handled,
    commands,    \* how many commands the servers have accepted
    asks,        \* output module -> how many writes it has asked for
    written,     \* request -> the tag whose point it writes, and the value
    mPS,         \* point -> the value the provider keeps
    inFlight     \* the points of its publications that are under way

linkVars == <<current, retriesLeft, socket, toServer, toClient, provider, reply,
              outcome, applied, handled>>

plantVars == <<vars, linkVars, commands, asks, written, mPS, inFlight>>

Link == INSTANCE ReqRep WITH Clients <- Outputs

-----------------------------------------------------------------------------
PointValues == {f \in [Points -> AllValues] : \A p \in Points : f[p] \in Values(PointType[p])}

\* The provider's constructor.
Start == [p \in Points |-> 0]

NoWrite == [tag |-> None, val |-> None]

PlantInit ==
    /\ Init
    /\ Link!Init
    /\ commands = 0
    /\ asks = [o \in Outputs |-> 0]
    /\ written = [r \in Requests |-> NoWrite]
    /\ mPS = Start
    /\ inFlight = {}

-----------------------------------------------------------------------------
(* The device.                                                             *)

AcceptCommand(s) ==
    /\ commands < Len(Commands)
    /\ BeginCommand(s)
    /\ inserting'[s] = Commands[commands + 1]
    /\ commands' = commands + 1
    /\ UNCHANGED <<linkVars, asks, written, mPS, inFlight>>

\* Everything the device does but to write an external tag.
DeviceStep ==
    /\ \/ \E s \in Servers : EndCommand(s)
       \/ \E t \in Tags : ServerRead(t)
       \/ \E t \in Tags \ External : WriteOutput(t)
       \/ CopyUpdatedTags \/ NextOutput \/ EndOutputs
       \/ ScanInternal \/ ScanClear \/ Sleep
    /\ UNCHANGED <<linkVars, commands, asks, written, mPS, inFlight>>

\* The output module's scan calls writePoint: the scan thread is in send().
OutputSend(t, r) ==
    /\ Alive /\ pc = "write"
    /\ t \in External /\ tags[t] # None
    /\ r = <<mod, asks[mod] + 1>>
    /\ Link!Send(r)
    /\ asks' = [asks EXCEPT ![mod] = @ + 1]
    /\ written' = [written EXCEPT ![r] = [tag |-> t, val |-> tags[t]]]
    /\ UNCHANGED <<vars, commands, mPS, inFlight>>

\* Defect: a write that was not acknowledged is dropped.
OutputReturnAcked(t) ==
    /\ t \in External /\ mod \in Outputs
    /\ current[mod] # None /\ written[current[mod]].tag = t
    /\ Link!Receive(mod) \/ Link!Abandon(mod)
    /\ IF outcome'[current[mod]] = "ACK"
       THEN WriteOutput(t)
       ELSE /\ tags' = [tags EXCEPT ![t] = None]
            /\ UNCHANGED <<dataVars, device, inserting, pc, unread, line, result, mod, type,
                           history>>
    /\ UNCHANGED <<commands, asks, written, mPS, inFlight>>

\* Defect: the output module does not wait for send() to return.
OutputReturnAtOnce(t) ==
    /\ t \in External /\ mod \in Outputs
    /\ current[mod] # None /\ written[current[mod]].tag = t
    /\ WriteOutput(t)
    /\ UNCHANGED <<linkVars, commands, asks, written, mPS, inFlight>>

\* send() returns, by a reply or because it gives up, and scanOutputs goes on.
OutputReturn(t) ==
    /\ t \in External /\ mod \in Outputs
    /\ current[mod] # None /\ written[current[mod]].tag = t
    /\ Link!Receive(mod) \/ Link!Abandon(mod)
    /\ WriteOutput(t)
    /\ UNCHANGED <<commands, asks, written, mPS, inFlight>>

OutputRetry ==
    /\ Alive /\ \E o \in Outputs : Link!Retry(o)
    /\ UNCHANGED <<vars, commands, asks, written, mPS, inFlight>>

\* subscriptionHandler takes a point of a publication.
Deliver(m) ==
    /\ m \in inFlight
    /\ Publish(m)
    /\ inFlight' = inFlight \ {m}
    /\ UNCHANGED <<linkVars, commands, asks, written, mPS>>

-----------------------------------------------------------------------------
(* The provider, and the network.                                          *)

\* Provider::messageHandler: a write that is acknowledged changes the point.
ProviderHandle(m) ==
    /\ Link!Handle(m)
    /\ mPS' = IF m.req # None /\ applied' # applied
              THEN [mPS EXCEPT ![PointOf[written[m.req].tag]] = written[m.req].val]
              ELSE mPS
    /\ UNCHANGED <<vars, commands, asks, written, inFlight>>

ProviderReply ==
    /\ Link!Reply
    /\ UNCHANGED <<vars, commands, asks, written, mPS, inFlight>>

\* Defect: the lock the publishing thread needs is never released after a write.
PublishDataLocked ==
    /\ provider # "down" /\ \A r \in Requests : applied[r] = 0
    /\ inFlight' = inFlight \union
                       {[point |-> p, data |-> Data(PointType[p], mPS[p])] : p \in Points}
    /\ UNCHANGED <<vars, linkVars, commands, asks, written, mPS>>

\* One round of periodicPublish.
PublishData ==
    /\ provider # "down"
    /\ inFlight' = inFlight \union
                       {[point |-> p, data |-> Data(PointType[p], mPS[p])] : p \in Points}
    /\ UNCHANGED <<vars, linkVars, commands, asks, written, mPS>>

LosePublication(m) ==
    /\ inFlight' = inFlight \ {m}
    /\ UNCHANGED <<vars, linkVars, commands, asks, written, mPS>>

LoseMessage ==
    /\ \/ \E m \in toServer : Link!LoseRequest(m)
       \/ \E m \in toClient : Link!LoseReply(m)
    /\ UNCHANGED <<vars, commands, asks, written, mPS, inFlight>>

\* The provider's process ends, and is started again with the values it has at
\* its start.
ProviderCrash ==
    /\ Link!Crash
    /\ UNCHANGED <<vars, commands, asks, written, mPS, inFlight>>

ProviderRestart ==
    /\ Link!Restart
    /\ mPS' = Start
    /\ UNCHANGED <<vars, commands, asks, written, inFlight>>

-----------------------------------------------------------------------------
DeviceThreads ==
    \/ DeviceStep
    \/ \E t \in Tags : (\E r \in Requests : OutputSend(t, r)) \/ OutputReturn(t)
    \/ OutputRetry

PlantNext ==
    \/ \E s \in Servers : AcceptCommand(s)
    \/ DeviceThreads
    \/ \E m \in Published : Deliver(m)
    \/ \E m \in toServer : ProviderHandle(m)
    \/ ProviderReply \/ PublishData \/ ProviderCrash \/ ProviderRestart
    \/ \E m \in inFlight : LosePublication(m)
    \/ LoseMessage
    \/ Dead /\ UNCHANGED <<linkVars, commands, asks, written, mPS, inFlight>>

PlantSpec == PlantInit /\ [][PlantNext]_plantVars

\* The scan thread and the servers run, and a mutex is not withheld for ever;
\* the publishing thread of a provider that is up runs; of the publications
\* that keep coming, some arrive.
PlantFairness ==
    /\ SF_plantVars(DeviceThreads)
    /\ WF_plantVars(PublishData)
    /\ \A m \in Published : SF_plantVars(Deliver(m))

PlantFairSpec == PlantSpec /\ PlantFairness

-----------------------------------------------------------------------------
(* Properties.                                                             *)

PlantTypeOK ==
    /\ TypeOK
    /\ Link!TypeOK
    /\ commands \in 0 .. Len(Commands)
    /\ asks \in [Outputs -> 0 .. Len(Commands)]
    /\ written \in [Requests -> [tag : External, val : AllValues] \union {NoWrite}]
    /\ mPS \in [Points -> AllValues]
    /\ inFlight \subseteq Published

\* The device of the plant is a field device: waiting for replies, and storing
\* what a provider may not have taken, are steps or pauses of its scan.
ImplementsFieldDevice == Spec

\* Of all writes the scan asks for, none takes effect twice, and an ACK is given
\* only for one that has: as module WriteOnce says of the requests.
WritesTakeEffectOnce == Link!WritesOnce

\* Whatever writes were refused, abandoned, or took effect late and out of
\* order, and however late older publications come: if the provider stays up and
\* the device alive, the device shows what the provider keeps, from some moment on.
Agrees ==
    <>[](Alive /\ provider # "down")
        => <>[](\A t \in External : GetDataByTag(t).val = mPS[PointOf[t]])

\* A request under way keeps the scan where it is: the device waits for one
\* answer at a time, and for the tag it is writing.
WaitsForItsWrite ==
    \A o \in Outputs : current[o] # None /\ Alive =>
        /\ pc = "write" /\ mod = o
        /\ \E t \in External : written[current[o]] = [tag |-> t, val |-> tags[t]]

Concluded == {"ACK", "ERR", "abandoned"}

\* From a server to the providers: when clearUpdatedTags drops an external tag,
\* the last write that each output module asked for that tag carries the last
\* command accepted for it in time, and send() has returned from it; if it
\* reported ACK, the provider has written the point, once.
CommandsAsked ==
    \A t \in External : AboutToClear(t) /\ accepted[t] # None =>
        \A o \in Outputs : \E r \in Requests :
            /\ r[1] = o /\ written[r] = [tag |-> t, val |-> accepted[t]]
            /\ \A q \in Requests : q[1] = o /\ written[q].tag = t => q[2] <= r[2]
            /\ outcome[r] \in Concluded
            /\ outcome[r] = "ACK" => applied[r] = 1
=============================================================================
