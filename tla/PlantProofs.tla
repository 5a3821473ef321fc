---------------------------- MODULE PlantProofs ----------------------------
(***************************************************************************)
(* The plant is a field device and a set of clients and a provider: both   *)
(* specifications are implemented, and what is proved of each holds in the *)
(* composition.                                                            *)
(***************************************************************************)
EXTENDS Plant, FieldDeviceProofs

Requested == INSTANCE ReqRepProofs WITH Clients <- Outputs

-----------------------------------------------------------------------------
(* The device.                                                             *)

\* Every step of the plant is a step of the device, or leaves it alone.
LEMMA DeviceSteps == [PlantNext]_plantVars => [Next]_vars
<1> SUFFICES ASSUME [PlantNext]_plantVars PROVE [Next]_vars
  OBVIOUS
<1>1. ASSUME NEW s \in Servers, AcceptCommand(s) PROVE Next
  BY <1>1 DEF AcceptCommand, Next
<1>2. CASE DeviceStep
  BY <1>2 DEF DeviceStep, Next, ScanCycle
<1>3. ASSUME NEW t \in Tags, OutputReturn(t) PROVE Next
  BY <1>3 DEF OutputReturn, Next, ScanCycle
<1>4. ASSUME NEW m \in Published, Deliver(m) PROVE Next
  BY <1>4 DEF Deliver, Next
<1>5. CASE Dead
  BY <1>5 DEF Next
<1>6. CASE \/ \E t \in Tags, r \in Requests : OutputSend(t, r)
           \/ OutputRetry
           \/ \E m \in toServer : ProviderHandle(m)
           \/ ProviderReply \/ PublishData \/ ProviderCrash \/ ProviderRestart
           \/ \E m \in inFlight : LosePublication(m)
           \/ LoseMessage
           \/ UNCHANGED plantVars
  <2>1. UNCHANGED vars
    BY <1>6 DEF OutputSend, OutputRetry, ProviderHandle, ProviderReply, PublishData,
                ProviderCrash, ProviderRestart, LosePublication, LoseMessage, plantVars
  <2> QED
    BY <2>1
<1> QED
  BY <1>1, <1>2, <1>3, <1>4, <1>5, <1>6 DEF PlantNext, DeviceThreads

\* The plant implements the field device: whatever becomes of a write, the scan
\* goes on as module FieldDevice says.
THEOREM PlantIsDevice == PlantSpec => ImplementsFieldDevice
<1>1. PlantInit => Init
  BY DEF PlantInit
<1> QED
  BY <1>1, DeviceSteps, PTL DEF PlantSpec, ImplementsFieldDevice, Spec

-----------------------------------------------------------------------------
(* The clients and the provider's server.                                  *)

\* Every step of the plant is a step of the clients or of the provider's server,
\* or leaves them alone.
LEMMA LinkSteps == [PlantNext]_plantVars => [Link!Next]_Link!vars
<1> SUFFICES ASSUME [PlantNext]_plantVars PROVE [Link!Next]_Link!vars
  OBVIOUS
<1>1. ASSUME NEW t \in Tags, NEW r \in Requests, OutputSend(t, r) PROVE Link!Next
  BY <1>1 DEF OutputSend, Link!Next
<1>2. ASSUME NEW t \in Tags, OutputReturn(t) PROVE Link!Next
  BY <1>2 DEF OutputReturn, Link!Next, Link!ClientStep
<1>3. CASE OutputRetry
  BY <1>3 DEF OutputRetry, Link!Next, Link!ClientStep
<1>4. ASSUME NEW m \in toServer, ProviderHandle(m) PROVE Link!Next
  BY <1>4 DEF ProviderHandle, Link!Next
<1>5. CASE ProviderReply \/ ProviderCrash \/ ProviderRestart \/ LoseMessage
  BY <1>5 DEF ProviderReply, ProviderCrash, ProviderRestart, LoseMessage, Link!Next
<1>6. CASE \/ \E s \in Servers : AcceptCommand(s)
           \/ DeviceStep
           \/ \E m \in Published : Deliver(m)
           \/ PublishData
           \/ \E m \in inFlight : LosePublication(m)
           \/ UNCHANGED linkVars
  <2>1. UNCHANGED linkVars
    BY <1>6 DEF AcceptCommand, DeviceStep, Deliver, PublishData, LosePublication
  <2> QED
    BY <2>1 DEF linkVars, Link!vars, Link!clientVars, Link!providerVars
<1> QED
  BY <1>1, <1>2, <1>3, <1>4, <1>5, <1>6 DEF PlantNext, DeviceThreads, plantVars

\* The constants of the plant are ones ReqRep is proved for.
LEMMA LinkAssumption == Requested!ReqRepAssumption
  BY PlantAssumption
     DEF Requested!ReqRepAssumption, Owner, Requests, Requested!Replies, Requested!Status

\* The two instances of ReqRep are one.
LEMMA SameSteps ==
    /\ Link!Init => Requested!Init
    /\ [Link!Next]_Link!vars => [Requested!Next]_Requested!vars
<1>1. Link!Init => Requested!Init
  BY DEF Link!Init, Requested!Init
<1>2. ASSUME [Link!Next]_Link!vars PROVE [Requested!Next]_Requested!vars
  <2> USE DEF Link!Message, Requested!Message, Link!Answer, Requested!Answer, Link!Sent,
              Requested!Sent, Link!clientVars, Requested!clientVars, Link!providerVars,
              Requested!providerVars, Requested!Next
  <2>1. ASSUME NEW r \in Requests, Link!Send(r) PROVE Requested!Send(r)
    BY <2>1 DEF Link!Send, Requested!Send
  <2>2. ASSUME NEW c \in Outputs, Link!ClientStep(c) PROVE Requested!ClientStep(c)
    BY <2>2 DEF Link!ClientStep, Requested!ClientStep, Link!Receive, Requested!Receive,
                Link!Return, Requested!Return, Link!Retry, Requested!Retry, Link!Abandon,
                Requested!Abandon, Link!Reconnect, Requested!Reconnect
  <2>3. ASSUME NEW m \in toServer, Link!Handle(m) \/ Link!LoseRequest(m)
        PROVE  Requested!Handle(m) \/ Requested!LoseRequest(m)
    BY <2>3 DEF Link!Handle, Requested!Handle, Link!HandleWrite, Requested!HandleWrite,
                Link!HandleEmpty, Requested!HandleEmpty, Link!LoseRequest,
                Requested!LoseRequest
  <2>4. ASSUME NEW m \in toClient, Link!LoseReply(m) PROVE Requested!LoseReply(m)
    BY <2>4 DEF Link!LoseReply, Requested!LoseReply
  <2>5. CASE Link!Reply
    BY <2>5 DEF Link!Reply, Requested!Reply
  <2>6. CASE Link!Crash \/ Link!Restart
    BY <2>6 DEF Link!Crash, Requested!Crash, Link!Restart, Requested!Restart
  <2>7. CASE UNCHANGED Link!vars
    BY <2>7 DEF Link!vars, Requested!vars
  <2> QED
    BY <1>2, <2>1, <2>2, <2>3, <2>4, <2>5, <2>6, <2>7 DEF Link!Next
<1> QED
  BY <1>1, <1>2

\* So the plant implements ReqRep.
LEMMA PlantRequests == PlantSpec => Requested!Spec
<1>1. PlantInit => Link!Init
  BY DEF PlantInit
<1> QED
  BY <1>1, LinkSteps, SameSteps, PTL DEF PlantSpec, Requested!Spec

\* A write of the scan takes effect at most once and is acknowledged only if it
\* has, whatever the network and the provider do.
THEOREM PlantWritesOnce == PlantSpec => WritesTakeEffectOnce
<1>1. Requested!Spec => Requested!WritesOnce
  BY LinkAssumption, Requested!RequestsWriteOnce, PTL
<1>2. Requested!Abstract!WInit => Link!Abstract!WInit
  BY DEF Requested!Abstract!WInit, Link!Abstract!WInit
<1>3. [Requested!Abstract!WNext]_<<outcome, applied>>
        => [Link!Abstract!WNext]_<<outcome, applied>>
  BY DEF Requested!Abstract!WNext, Link!Abstract!WNext, Requested!Abstract!Issue,
         Link!Abstract!Issue, Requested!Abstract!TakeEffect, Link!Abstract!TakeEffect,
         Requested!Abstract!Report, Link!Abstract!Report, Requested!Abstract!Reports,
         Link!Abstract!Reports
<1> QED
  BY <1>1, <1>2, <1>3, PlantRequests, PTL
     DEF WritesTakeEffectOnce, Requested!WritesOnce, Link!WritesOnce,
         Requested!Abstract!WSpec, Link!Abstract!WSpec

-----------------------------------------------------------------------------
(* The composition.                                                        *)

\* The values under way from a server to the provider are of their tag's type.
Commanded ==
    /\ \A s \in Servers : inserting[s] # NoCommand =>
          inserting[s].tag \in Tags /\ inserting[s].val \in Values(Type(inserting[s].tag))
    /\ \A t \in Tags : /\ mUpdatedTags[t] \in Values(Type(t)) \union {None}
                       /\ tags[t] \in Values(Type(t)) \union {None}

\* What a request asks for, once it is sent.
Asked(r) ==
    /\ written[r] \in [tag : External, val : AllValues]
    /\ written[r].val \in Values(Type(written[r].tag))

\* The provider, the publications, and the requests in use.
Kept ==
    /\ commands \in 0 .. Len(Commands)
    /\ written \in [Requests -> [tag : External, val : AllValues] \union {NoWrite}]
    /\ \A o \in Outputs : current[o] # None => Asked(current[o])
    /\ \A m \in toServer : m.req # None => Asked(m.req)
    /\ mPS \in [Points -> AllValues]
    /\ \A p \in Points : mPS[p] \in Values(PointType[p])
    /\ inFlight \subseteq Published

\* An output module numbers its writes from 1, and waits for the last of them.
Numbered ==
    /\ asks \in [Outputs -> 0 .. Len(Commands)]
    /\ \A r \in Requests : outcome[r] = "new" <=> r[2] > asks[r[1]]
    /\ \A r \in Requests : outcome[r] = "new" => written[r] = NoWrite
    /\ \A o \in Outputs : current[o] # None => current[o] = <<o, asks[o]>>

\* What an output module wrote of a tag in this cycle is what it asked for last
\* for this tag, and the request is over.
Latest ==
    \A o \in Outputs : \A t \in External : sent[o][t] # None =>
        \E r \in Requests :
            /\ r[1] = o /\ written[r] = [tag |-> t, val |-> sent[o][t]]
            /\ \A q \in Requests : q[1] = o /\ written[q].tag = t => q[2] <= r[2]
            /\ outcome[r] \in Concluded

PInv == Commanded /\ Kept /\ WaitsForItsWrite /\ Numbered /\ Latest

\* The invariant holds at the start.
LEMMA InitPInv == PlantInit => PInv
<1> SUFFICES ASSUME PlantInit PROVE PInv
  OBVIOUS
<1> USE DEF PlantInit, Init, Link!Init
<1>1. Commanded
  BY DEF Commanded, Nothing, DataInit
<1>2. Kept
  <2>1. \A ty : 0 \in Values(ty)
    BY ConfigAssumption DEF Values
  <2>2. Len(Commands) \in Nat
    BY PlantAssumption
  <2> QED
    BY <2>1, <2>2, TypeFacts DEF Kept, Start
<1>3. WaitsForItsWrite /\ Latest
  BY ConfigAssumption DEF WaitsForItsWrite, Latest, Nothing
<1>4. Numbered
  <2>1. Len(Commands) \in Nat /\ DOMAIN Commands = 1 .. Len(Commands)
    BY PlantAssumption
  <2>2. \A r \in Requests : r[1] \in Outputs /\ r[2] > 0
    BY <2>1 DEF Requests
  <2> QED
    BY <2>1, <2>2 DEF Numbered
<1> QED
  BY <1>1, <1>2, <1>3, <1>4 DEF PInv

\* The values on their way keep their types.
LEMMA CommandedStep ==
    ASSUME TypeOK, Commanded, [PlantNext]_plantVars
    PROVE  Commanded'
<1> USE DEF Commanded
<1>0. ASSUME UNCHANGED <<inserting, mUpdatedTags, tags>> PROVE Commanded'
  BY <1>0
<1>1. ASSUME NEW s \in Servers, AcceptCommand(s) PROVE Commanded'
  <2>1. PICK t \in Tags : \E v \in Values(Type(t)) :
             inserting' = [inserting EXCEPT ![s] = [tag |-> t, val |-> v]]
    BY <1>1 DEF AcceptCommand, BeginCommand
  <2>2. UNCHANGED <<mUpdatedTags, tags>>
    BY <1>1 DEF AcceptCommand, BeginCommand, dataVars, scanVars
  <2>3. PICK v \in Values(Type(t)) : inserting' = [inserting EXCEPT ![s] = [tag |-> t,
  val |-> v]]
    BY <2>1
  <2>4. \A z \in Servers : inserting'[z] = IF z = s THEN [tag |-> t,
  val |-> v] ELSE inserting[z]
    BY <2>3 DEF TypeOK
  <2> QED
    BY <2>2, <2>4
<1>2. ASSUME NEW s \in Servers, EndCommand(s) PROVE Commanded'
  BY <1>2 DEF EndCommand, AddUpdatedTag, scanVars, TypeOK, DataTypeOK
<1>3. ASSUME NEW t \in Tags, WriteOutput(t) PROVE Commanded'
  BY <1>3 DEF WriteOutput, TypeOK
<1>4. CASE CopyUpdatedTags
  BY <1>4 DEF CopyUpdatedTags, GetUpdatedTags, Die, dataVars, scanVars
<1>5. CASE ScanClear
  BY <1>5 DEF ScanClear, ClearUpdatedTags, Die, dataVars, scanVars
<1>6. CASE \/ \E t \in Tags : ServerRead(t)
           \/ NextOutput \/ EndOutputs \/ ScanInternal \/ Sleep
           \/ \E m \in Published : Publish(m)
           \/ UNCHANGED vars
  BY <1>0, <1>6 DEF ServerRead, Die, NextOutput, EndOutputs, ScanInternal, Sleep, Publish,
                    vars, dataVars, scanVars
<1> QED
  BY <1>1, <1>2, <1>3, <1>4, <1>5, <1>6
     DEF PlantNext, DeviceThreads, DeviceStep, OutputReturn, OutputSend, OutputRetry, Deliver,
         ProviderHandle, ProviderReply, PublishData, ProviderCrash, ProviderRestart,
         LosePublication, LoseMessage, Dead, plantVars

\* The provider keeps, and publishes, only values of the points' types.
LEMMA KeptStep ==
    ASSUME TypeOK, Requested!TypeOK, Commanded, Kept, [PlantNext]_plantVars
    PROVE  Kept'
<1>0. ASSUME UNCHANGED <<written, mPS>>, commands' \in 0 .. Len(Commands),
             \A o \in Outputs : current'[o] \in {current[o], None},
             \A m \in toServer' : m \in toServer \/ m.req = None,
             inFlight' \subseteq Published
      PROVE  Kept'
  BY <1>0 DEF Kept, Asked
<1>1. /\ current \in [Outputs -> Requests \union {None}]
      /\ Len(Commands) \in Nat /\ commands \in 0 .. Len(Commands) /\ inFlight \subseteq Published
  BY PlantAssumption DEF Requested!TypeOK, Kept
<1>2. ASSUME NEW s \in Servers, AcceptCommand(s) PROVE Kept'
  BY <1>0, <1>1, <1>2 DEF AcceptCommand, linkVars
<1>3. ASSUME NEW t \in Tags, NEW r \in Requests, OutputSend(t, r) PROVE Kept'
  <2>1. /\ t \in External /\ tags[t] # None
        /\ written' = [written EXCEPT ![r] = [tag |-> t, val |-> tags[t]]]
        /\ current' = [current EXCEPT ![Owner[r]] = r]
        /\ toServer' = toServer \union {Link!Message(Owner[r], socket[Owner[r]], r)}
        /\ UNCHANGED <<commands, mPS, inFlight>>
    BY <1>3 DEF OutputSend, Link!Send
  <2>2. tags[t] \in AllValues /\ tags[t] \in Values(Type(t))
    BY <2>1, ConfigAssumption, TypeFacts DEF Commanded
  <2>3. written \in [Requests -> [tag : External, val : AllValues] \union {NoWrite}]
    BY DEF Kept
  <2>4. written' \in [Requests -> [tag : External, val : AllValues] \union {NoWrite}]
    BY <2>1, <2>2, <2>3
  <2>5. \A q \in Requests : Asked(q) \/ q = r => Asked(q)'
    BY <2>1, <2>2, <2>3 DEF Asked
  <2>6. ASSUME NEW o \in Outputs, current'[o] # None PROVE Asked(current[o])'
    <3>1. current'[o] \in Requests /\ (current'[o] = r \/ Asked(current'[o]))
      BY <1>1, <2>1, <2>6 DEF Kept
    <3> QED
      BY <2>5, <3>1 DEF Asked
  <2>7. \A m \in toServer' : m.req # None => m.req \in Requests /\ (m.req = r \/ Asked(m.req))
    BY <2>1 DEF Link!Message, Kept, Requested!TypeOK
  <2>8. \A m \in toServer' : m.req # None => Asked(m.req)'
    BY <2>5, <2>7
  <2> QED
    BY <1>1, <2>1, <2>4, <2>6, <2>8 DEF Kept
<1>4. ASSUME NEW t \in Tags, OutputReturn(t) PROVE Kept'
  BY <1>0, <1>1, <1>4 DEF OutputReturn, Link!Receive, Link!Abandon, Link!Return
<1>5. CASE OutputRetry
  BY <1>0, <1>1, <1>5 DEF OutputRetry, Link!Retry, Link!Message, Link!Sent
<1>6. ASSUME NEW m \in toServer, ProviderHandle(m) PROVE Kept'
  <2>1. /\ toServer' = toServer \ {m}
        /\ UNCHANGED <<current, commands, written, inFlight>>
    BY <1>6 DEF ProviderHandle, Link!Handle, Link!clientVars
  <2>2. /\ mPS' \in [Points -> AllValues]
        /\ \A p \in Points : mPS'[p] \in Values(PointType[p])
    <3>1. CASE UNCHANGED mPS
      BY <3>1 DEF Kept
    <3>2. CASE /\ m.req # None
               /\ mPS' = [mPS EXCEPT ![PointOf[written[m.req].tag]] = written[m.req].val]
      <4>1. /\ written[m.req].tag \in External /\ written[m.req].val \in AllValues
            /\ written[m.req].val \in Values(Type(written[m.req].tag))
        BY <3>2 DEF Kept, Asked
      <4>2. /\ PointOf[written[m.req].tag] \in Points
            /\ PointType[PointOf[written[m.req].tag]] = Type(written[m.req].tag)
        BY <4>1, ConfigAssumption
      <4> QED
        BY <3>2, <4>1, <4>2 DEF Kept
    <3> QED
      BY <1>6, <3>1, <3>2 DEF ProviderHandle
  <2> QED
    BY <2>1, <2>2 DEF Kept, Asked
<1>7. CASE ProviderRestart
  <2>1. \A ty : 0 \in Values(ty)
    BY ConfigAssumption DEF Values
  <2> QED
    BY <1>7, <2>1, TypeFacts DEF ProviderRestart, Start, Link!Restart, Link!clientVars, Kept,
                                 Asked
<1>8. CASE PublishData
  <2>1. inFlight' \subseteq Published
    <3>1. \A p \in Points : [point |-> p, data |-> Data(PointType[p], mPS[p])] \in Published
      BY PlantAssumption DEF Kept
    <3> QED
      BY <1>1, <1>8, <3>1 DEF PublishData
  <2> QED
    BY <1>0, <1>1, <1>8, <2>1 DEF PublishData, linkVars
<1>9. CASE ProviderReply \/ ProviderCrash \/ LoseMessage
  BY <1>0, <1>1, <1>9 DEF ProviderReply, ProviderCrash, LoseMessage, Link!Reply, Link!Crash,
                          Link!LoseRequest, Link!LoseReply, Link!clientVars
<1>10. CASE \/ DeviceStep \/ (\E m \in Published : Deliver(m))
            \/ (\E m \in inFlight : LosePublication(m))
            \/ UNCHANGED <<linkVars, commands, asks, written, mPS, inFlight>>
  BY <1>0, <1>1, <1>10 DEF DeviceStep, Deliver, LosePublication, linkVars
<1> QED
  BY <1>2, <1>3, <1>4, <1>5, <1>6, <1>7, <1>8, <1>9, <1>10
     DEF PlantNext, DeviceThreads, plantVars

\* The scan waits where it sent its write.
LEMMA WaitsStep ==
    ASSUME TypeOK, Requested!TypeOK, Kept, WaitsForItsWrite, [PlantNext]_plantVars
    PROVE  WaitsForItsWrite'
<1>0. ASSUME UNCHANGED <<current, written, pc, mod, tags>>, Alive' => Alive
      PROVE  WaitsForItsWrite'
  BY <1>0 DEF WaitsForItsWrite
<1>1. current \in [Outputs -> Requests \union {None}] /\ tags \in [Tags -> AllValues \union {None}]
  BY DEF Requested!TypeOK, TypeOK
<1>2. ASSUME NEW t \in Tags, NEW r \in Requests, OutputSend(t, r) PROVE WaitsForItsWrite'
  <2>1. /\ Alive /\ pc = "write" /\ t \in External /\ Owner[r] = mod
        /\ written' = [written EXCEPT ![r] = [tag |-> t, val |-> tags[t]]]
        /\ current[Owner[r]] = None
        /\ current' = [current EXCEPT ![Owner[r]] = r]
        /\ UNCHANGED <<device, pc, mod, tags>>
    BY <1>2 DEF OutputSend, Link!Send, Owner, vars, scanVars
  <2>2. written'[r] = [tag |-> t, val |-> tags[t]]
    BY <2>1 DEF Kept
  <2>3. \A o \in Outputs : o # mod => current'[o] = None
    BY <1>1, <2>1 DEF WaitsForItsWrite
  <2>4. mod \in Outputs => current'[mod] = r
    BY <1>1, <2>1
  <2> QED
    BY <2>1, <2>2, <2>3, <2>4 DEF WaitsForItsWrite
<1>3. ASSUME NEW t \in Tags, OutputReturn(t) PROVE WaitsForItsWrite'
  <2>1. mod \in Outputs /\ Alive /\ current' = [current EXCEPT ![mod] = None]
    BY <1>3 DEF OutputReturn, WriteOutput, Link!Receive, Link!Abandon, Link!Return
  <2>2. \A o \in Outputs : current'[o] = None
    BY <1>1, <2>1 DEF WaitsForItsWrite
  <2> QED
    BY <2>2 DEF WaitsForItsWrite
<1>4. ASSUME NEW t \in Tags \ External, WriteOutput(t), UNCHANGED <<current, written>>
      PROVE  WaitsForItsWrite'
  <2>1. /\ UNCHANGED <<pc, mod, device>> /\ tags' = [tags EXCEPT ![t] = None]
    BY <1>4 DEF WriteOutput
  <2>2. \A u \in External : tags'[u] = tags[u]
    BY <1>1, <2>1, ConfigAssumption
  <2> QED
    <3> SUFFICES ASSUME NEW o \in Outputs, current'[o] # None, Alive'
                 PROVE  /\ pc' = "write" /\ mod' = o
                        /\ \E u \in External :
                              written'[current'[o]] = [tag |-> u, val |-> tags'[u]]
      BY DEF WaitsForItsWrite
    <3>1. /\ pc = "write" /\ mod = o
          /\ \E u \in External : written[current[o]] = [tag |-> u, val |-> tags[u]]
      BY <1>4, <2>1 DEF WaitsForItsWrite, Alive
    <3>2. PICK u \in External : written[current[o]] = [tag |-> u, val |-> tags[u]]
      BY <3>1
    <3>3. written'[current'[o]] = [tag |-> u, val |-> tags'[u]]
      BY <1>4, <2>2, <3>2
    <3> QED
      BY <2>1, <3>1, <3>3
<1>5. CASE pc # "write" /\ Alive /\ UNCHANGED current
  BY <1>5 DEF WaitsForItsWrite
<1>6. CASE NextOutput /\ UNCHANGED <<current, written>>
  <2>1. Alive /\ tags = Nothing
    BY <1>6 DEF NextOutput
  <2>2. ASSUME NEW o \in Outputs PROVE current[o] = None
    <3>1. SUFFICES ASSUME current[o] # None PROVE FALSE
      OBVIOUS
    <3>2. PICK t \in External : written[current[o]].val = tags[t]
      <4>1. PICK t \in External : written[current[o]] = [tag |-> t, val |-> tags[t]]
        BY <2>1, <3>1 DEF WaitsForItsWrite
      <4> QED
        BY <4>1
    <3>3. tags[t] = None
      BY <2>1, ConfigAssumption DEF Nothing
    <3>4. written[current[o]].val \in AllValues
      BY <3>1 DEF Kept, Asked
    <3> QED
      BY <3>2, <3>3, <3>4, ConfigAssumption
  <2> QED
    BY <1>6, <2>2 DEF WaitsForItsWrite
<1>7. CASE DeviceStep
  <2>1. UNCHANGED <<current, written>>
    BY <1>7 DEF DeviceStep, linkVars
  <2>2. CASE (\E s \in Servers : EndCommand(s)) \/ (\E t \in Tags : ServerRead(t))
    BY <1>0, <2>1, <2>2 DEF EndCommand, ServerRead, Die, scanVars, Alive
  <2>3. CASE CopyUpdatedTags \/ EndOutputs \/ ScanInternal \/ ScanClear \/ Sleep
    BY <1>5, <2>1, <2>3 DEF CopyUpdatedTags, EndOutputs, ScanInternal, ScanClear, Sleep
  <2> QED
    BY <1>4, <1>6, <1>7, <2>1, <2>2, <2>3 DEF DeviceStep
<1>8. CASE (\E s \in Servers : AcceptCommand(s)) \/ (\E m \in Published : Deliver(m))
  BY <1>0, <1>8 DEF AcceptCommand, BeginCommand, Deliver, Publish, linkVars, scanVars, Alive
<1>9. CASE UNCHANGED <<vars, current, written>>
  BY <1>0, <1>9 DEF vars, scanVars, Alive
<1>10. CASE \/ OutputRetry \/ (\E m \in toServer : ProviderHandle(m))
            \/ ProviderReply \/ PublishData \/ ProviderCrash \/ ProviderRestart
            \/ (\E m \in inFlight : LosePublication(m)) \/ LoseMessage
            \/ UNCHANGED <<vars, linkVars, written>>
  <2>1. UNCHANGED <<vars, current, written>>
    BY <1>10 DEF OutputRetry, ProviderHandle, ProviderReply, PublishData, ProviderCrash,
                 ProviderRestart, LosePublication, LoseMessage, Link!Retry, Link!Handle,
                 Link!Reply, Link!Crash, Link!Restart, Link!LoseRequest, Link!LoseReply,
                 Link!clientVars, linkVars
  <2> QED
    BY <1>9, <2>1
<1> QED
  BY <1>2, <1>3, <1>7, <1>8, <1>10 DEF PlantNext, DeviceThreads, Dead, plantVars

\* A request is its output module and its number there.
LEMMA RequestFacts ==
    /\ Len(Commands) \in Nat /\ DOMAIN Commands = 1 .. Len(Commands)
    /\ \A r \in Requests : /\ r = <<r[1], r[2]>> /\ Owner[r] = r[1]
                           /\ r[1] \in Outputs /\ r[2] \in 1 .. Len(Commands)
  BY PlantAssumption DEF Requests, Owner

\* Only these steps touch the requests, or what the output modules wrote.
LEMMA OtherSteps ==
    ASSUME [PlantNext]_plantVars,
           \A t \in Tags, r \in Requests : ~OutputSend(t, r),
           \A t \in Tags : ~OutputReturn(t)
    PROVE  UNCHANGED <<current, outcome, asks, written>>
<1>1. CASE \/ \E s \in Servers : AcceptCommand(s)
           \/ DeviceStep
           \/ \E m \in Published : Deliver(m)
           \/ PublishData
           \/ \E m \in inFlight : LosePublication(m)
           \/ UNCHANGED <<linkVars, asks, written>>
  BY <1>1 DEF AcceptCommand, DeviceStep, Deliver, PublishData, LosePublication, linkVars
<1>2. CASE \/ OutputRetry \/ (\E m \in toServer : ProviderHandle(m))
           \/ ProviderReply \/ ProviderCrash \/ ProviderRestart \/ LoseMessage
  BY <1>2 DEF OutputRetry, ProviderHandle, ProviderReply, ProviderCrash, ProviderRestart,
              LoseMessage, Link!Retry, Link!Handle, Link!Reply, Link!Crash, Link!Restart,
              Link!LoseRequest, Link!LoseReply, Link!clientVars
<1> QED
  BY <1>1, <1>2 DEF PlantNext, DeviceThreads, plantVars

\* Sending takes the next number; returning frees it for good.
LEMMA NumberedStep ==
    ASSUME Requested!TypeOK, Requested!Busy, Kept, Numbered, [PlantNext]_plantVars
    PROVE  Numbered'
<1>1. /\ current \in [Outputs -> Requests \union {None}]
      /\ outcome \in [Requests -> {"new", "pending", "ACK", "ERR", "abandoned"}]
      /\ asks \in [Outputs -> 0 .. Len(Commands)]
      /\ written \in [Requests -> [tag : External, val : AllValues] \union {NoWrite}]
  BY DEF Requested!TypeOK, Kept, Numbered
<1>2. ASSUME NEW t \in Tags, NEW r \in Requests, OutputSend(t, r) PROVE Numbered'
  <2>1. /\ r = <<mod, asks[mod] + 1>>
        /\ asks' = [asks EXCEPT ![mod] = @ + 1]
        /\ written' = [written EXCEPT ![r] = [tag |-> t, val |-> tags[t]]]
        /\ current' = [current EXCEPT ![Owner[r]] = r]
        /\ outcome' = [outcome EXCEPT ![r] = "pending"]
    BY <1>2 DEF OutputSend, Link!Send
  <2>2. mod \in Outputs /\ Owner[r] = mod /\ asks[mod] + 1 \in 1 .. Len(Commands)
    BY <2>1, RequestFacts
  <2>3. asks' \in [Outputs -> 0 .. Len(Commands)] /\ asks'[mod] = asks[mod] + 1
        /\ \A o \in Outputs : o # mod => asks'[o] = asks[o]
    BY <1>1, <2>1, <2>2, RequestFacts
  <2>4. \A q \in Requests : outcome'[q] = "new" <=> q[2] > asks'[q[1]]
    <3> SUFFICES ASSUME NEW q \in Requests
                 PROVE  outcome'[q] = "new" <=> q[2] > asks'[q[1]]
      OBVIOUS
    <3>1. /\ q = <<q[1], q[2]>> /\ q[1] \in Outputs /\ q[2] \in 1 .. Len(Commands)
          /\ outcome[q] = "new" <=> q[2] > asks[q[1]]
      BY RequestFacts DEF Numbered
    <3>2. CASE q[1] # mod
      BY <1>1, <2>1, <2>3, <3>1, <3>2
    <3>3. CASE q[1] = mod
      <4>1. q = r <=> q[2] = asks[mod] + 1
        BY <2>1, <3>1, <3>3
      <4>2. q[2] > asks[mod] + 1 <=> q[2] > asks[mod] /\ q[2] # asks[mod] + 1
        BY <1>1, <2>2, <3>1, RequestFacts
      <4>3. outcome'[q] = "new" <=> outcome[q] = "new" /\ q # r
        BY <1>1, <2>1
      <4> QED
        BY <2>3, <3>1, <3>3, <4>1, <4>2, <4>3
    <3> QED
      BY <3>2, <3>3
  <2>5. \A q \in Requests : outcome'[q] = "new" => written'[q] = NoWrite
    BY <1>1, <2>1 DEF Numbered
  <2>6. \A o \in Outputs : current'[o] # None => current'[o] = <<o, asks'[o]>>
    BY <1>1, <2>1, <2>2, <2>3 DEF Numbered
  <2> QED
    BY <2>3, <2>4, <2>5, <2>6 DEF Numbered
<1>3. ASSUME NEW t \in Tags, OutputReturn(t) PROVE Numbered'
  <2>1. /\ mod \in Outputs /\ current[mod] # None
        /\ UNCHANGED <<asks, written>>
        /\ current' = [current EXCEPT ![mod] = None]
        /\ \E x \in Concluded : outcome' = [outcome EXCEPT ![current[mod]] = x]
    BY <1>3 DEF OutputReturn, Link!Receive, Link!Abandon, Link!Return, Concluded,
                Requested!TypeOK, Requested!Replies, Requested!Status
  <2>2. PICK x \in Concluded : outcome' = [outcome EXCEPT ![current[mod]] = x]
    BY <2>1
  <2>3. outcome[current[mod]] = "pending" /\ current[mod] \in Requests
    BY <1>1, <2>1 DEF Requested!Busy
  <2>4. \A q \in Requests : outcome'[q] = "new" <=> outcome[q] = "new"
    BY <1>1, <2>2, <2>3 DEF Concluded
  <2> QED
    BY <1>1, <2>1, <2>4 DEF Numbered
<1>4. CASE UNCHANGED <<current, outcome, asks, written>>
  BY <1>4 DEF Numbered
<1> QED
  BY <1>2, <1>3, <1>4, OtherSteps

\* An output module writes a tag once in a scan, so that the write it has just
\* concluded is the last it asked for.
LEMMA LatestStep ==
    ASSUME TypeOK, ScanShape, Unsent, Requested!TypeOK, Requested!Busy, Kept, Numbered, Latest,
           WaitsForItsWrite, [PlantNext]_plantVars
    PROVE  Latest'
<1>1. /\ current \in [Outputs -> Requests \union {None}]
      /\ outcome \in [Requests -> {"new", "pending", "ACK", "ERR", "abandoned"}]
      /\ asks \in [Outputs -> 0 .. Len(Commands)]
      /\ written \in [Requests -> [tag : External, val : AllValues] \union {NoWrite}]
      /\ sent \in [Outputs -> [Tags -> AllValues \union {None}]]
      /\ External \subseteq Tags
  BY ConfigAssumption DEF Requested!TypeOK, Kept, Numbered, TypeOK
<1>2. ASSUME NEW t \in Tags, NEW r \in Requests, OutputSend(t, r) PROVE Latest'
  <2>1. /\ r = <<mod, asks[mod] + 1>> /\ tags[t] # None /\ outcome[r] = "new"
        /\ written' = [written EXCEPT ![r] = [tag |-> t, val |-> tags[t]]]
        /\ outcome' = [outcome EXCEPT ![r] = "pending"]
        /\ UNCHANGED sent
    BY <1>2 DEF OutputSend, Link!Send, vars, history
  <2>2. r[1] = mod /\ mod \in Outputs /\ sent[mod][t] = None
    BY <2>1, RequestFacts DEF Unsent
  <2> SUFFICES ASSUME NEW o \in Outputs, NEW u \in External, sent[o][u] # None
               PROVE  \E q \in Requests :
                         /\ q[1] = o /\ written'[q] = [tag |-> u, val |-> sent[o][u]]
                         /\ \A k \in Requests :
                               k[1] = o /\ written'[k].tag = u => k[2] <= q[2]
                         /\ outcome'[q] \in Concluded
    BY <2>1 DEF Latest
  <2>3. PICK q \in Requests :
            /\ q[1] = o /\ written[q] = [tag |-> u, val |-> sent[o][u]]
            /\ \A k \in Requests : k[1] = o /\ written[k].tag = u => k[2] <= q[2]
            /\ outcome[q] \in Concluded
    BY DEF Latest
  <2>4. q # r
    BY <2>1, <2>3 DEF Concluded
  <2>5. \A k \in Requests : k[1] = o /\ written'[k].tag = u => k # r
    BY <1>1, <2>1, <2>2
  <2>6. \A k \in Requests : k # r => written'[k] = written[k] /\ outcome'[k] = outcome[k]
    BY <1>1, <2>1
  <2> QED
    BY <2>3, <2>4, <2>5, <2>6
<1>3. ASSUME NEW t \in Tags, OutputReturn(t) PROVE Latest'
  <2> DEFINE r == current[mod]
  <2>1. /\ mod \in Outputs /\ r # None /\ t \in External /\ written[r].tag = t
        /\ UNCHANGED written /\ Alive
        /\ sent' = [sent EXCEPT ![mod][t] = tags[t]]
        /\ \E x \in Concluded : outcome' = [outcome EXCEPT ![r] = x]
    BY <1>3 DEF OutputReturn, WriteOutput, Link!Receive, Link!Abandon, Link!Return, Concluded,
                Requested!TypeOK, Requested!Replies, Requested!Status
  <2>2. r \in Requests /\ r = <<mod, asks[mod]>>
    BY <1>1, <2>1 DEF Numbered
  <2>3. PICK w \in External : written[r] = [tag |-> w, val |-> tags[w]]
    BY <2>1 DEF WaitsForItsWrite
  <2>4. written[r] = [tag |-> t, val |-> tags[t]]
    BY <2>1, <2>3
  <2>5. \A q \in Requests : outcome'[q] = outcome[q] \/ (q = r /\ outcome'[q] \in Concluded)
    BY <1>1, <2>1, <2>2
  <2>6. outcome'[r] \in Concluded
    BY <1>1, <2>1, <2>2
  <2>7. ASSUME NEW q \in Requests, q[1] = mod, written[q].tag = t PROVE q[2] <= asks[mod]
    <3>1. outcome[q] # "new"
      <4>1. t # None
        BY PlantAssumption
      <4> QED
        BY <2>7, <4>1 DEF Numbered, NoWrite
    <3>2. ~(q[2] > asks[mod]) /\ q[2] \in Nat /\ asks[mod] \in Nat
      BY <1>1, <2>1, <2>7, <3>1, RequestFacts DEF Numbered
    <3> QED
      BY <3>2
  <2> SUFFICES ASSUME NEW o \in Outputs, NEW u \in External, sent'[o][u] # None
               PROVE  \E q \in Requests :
                         /\ q[1] = o /\ written[q] = [tag |-> u, val |-> sent'[o][u]]
                         /\ \A k \in Requests :
                               k[1] = o /\ written[k].tag = u => k[2] <= q[2]
                         /\ outcome'[q] \in Concluded
    BY <2>1 DEF Latest
  <2>8. CASE o = mod /\ u = t
    <3>1. sent'[o][u] = tags[t]
      BY <1>1, <2>1, <2>8
    <3>2. r[1] = mod /\ r[2] = asks[mod]
      BY <2>2
    <3> HIDE DEF r
    <3> QED
      BY <2>2, <2>4, <2>6, <2>7, <2>8, <3>1, <3>2
  <2>9. CASE ~(o = mod /\ u = t)
    <3>1. sent'[o][u] = sent[o][u]
      BY <1>1, <2>1, <2>9
    <3>2. PICK q \in Requests :
              /\ q[1] = o /\ written[q] = [tag |-> u, val |-> sent[o][u]]
              /\ \A k \in Requests : k[1] = o /\ written[k].tag = u => k[2] <= q[2]
              /\ outcome[q] \in Concluded
      BY <3>1 DEF Latest
    <3>3. outcome'[q] \in Concluded
      BY <2>5, <3>2
    <3> QED
      BY <3>1, <3>2, <3>3
  <2> QED
    BY <2>8, <2>9
<1>4. ASSUME UNCHANGED <<outcome, written>>,
             \A o \in Outputs, t \in External : sent'[o][t] \in {sent[o][t], None}
      PROVE  Latest'
  BY <1>4 DEF Latest
<1>5. CASE /\ \A t \in Tags, r \in Requests : ~OutputSend(t, r)
           /\ \A t \in Tags : ~OutputReturn(t)
  <2>1. UNCHANGED <<outcome, written>>
    BY <1>5, OtherSteps
  <2>2. \A o \in Outputs, t \in External : sent'[o][t] \in {sent[o][t], None}
    <3>1. CASE ScanClear
      <4>1. CASE Die("data race")
        BY <4>1 DEF Die, history
      <4>2. CASE sent' = [o \in Outputs |->
                            [t \in Tags |-> IF Type(t) = type THEN None ELSE sent[o][t]]]
        BY <1>1, <4>2
      <4> QED
        BY <3>1, <4>1, <4>2 DEF ScanClear
    <3>2. CASE DeviceStep /\ ~ScanClear
      <4>1. ASSUME NEW t \in Tags \ External, WriteOutput(t) PROVE UNCHANGED sent
        BY <4>1 DEF WriteOutput
      <4>2. CASE \/ (\E s \in Servers : EndCommand(s)) \/ (\E t \in Tags : ServerRead(t))
                 \/ CopyUpdatedTags \/ NextOutput \/ EndOutputs \/ ScanInternal \/ Sleep
        BY <4>2 DEF EndCommand, ServerRead, CopyUpdatedTags, NextOutput, EndOutputs,
                    ScanInternal, Sleep, Die, history
      <4> QED
        BY <3>2, <4>1, <4>2 DEF DeviceStep
    <3>3. CASE ~DeviceStep
      <4>1. CASE \/ (\E s \in Servers : AcceptCommand(s)) \/ (\E m \in Published : Deliver(m))
                 \/ Dead \/ UNCHANGED plantVars
        BY <4>1 DEF AcceptCommand, BeginCommand, Deliver, Publish, Dead, plantVars, vars,
                    history
      <4>2. CASE \/ OutputRetry \/ (\E m \in toServer : ProviderHandle(m))
                 \/ ProviderReply \/ PublishData \/ ProviderCrash \/ ProviderRestart
                 \/ (\E m \in inFlight : LosePublication(m)) \/ LoseMessage
        BY <4>2 DEF OutputRetry, ProviderHandle, ProviderReply, PublishData, ProviderCrash,
                    ProviderRestart, LosePublication, LoseMessage, vars, history
      <4> QED
        BY <1>5, <3>3, <4>1, <4>2 DEF PlantNext, DeviceThreads
    <3> QED
      BY <3>1, <3>2, <3>3
  <2> QED
    BY <1>4, <2>1, <2>2
<1> QED
  BY <1>2, <1>3, <1>5

\* What is proved of the parts, and the invariant of their composition.
THEOREM PlantInvariant == PlantSpec => [](IInv /\ Unsent /\ Requested!RInv /\ PInv)
<1>1. PlantSpec => [](IInv /\ Unsent)
  BY PlantIsDevice, InductiveInvariant, WrittenOncePerScan, PTL DEF ImplementsFieldDevice
<1>2. PlantSpec => []Requested!RInv
  <2>1. Requested!Spec => []Requested!RInv
    BY LinkAssumption, Requested!ReqRepInvariant, PTL
  <2> QED
    BY <2>1, PlantRequests, PTL
<1>3. IInv /\ Unsent /\ Requested!RInv /\ PInv /\ [PlantNext]_plantVars => PInv'
  <2> SUFFICES ASSUME IInv, Unsent, Requested!RInv, PInv, [PlantNext]_plantVars PROVE PInv'
    OBVIOUS
  <2>1. /\ TypeOK /\ ScanShape /\ Requested!TypeOK /\ Requested!Busy
        /\ Commanded /\ Kept /\ WaitsForItsWrite /\ Numbered /\ Latest
    BY DEF IInv, Requested!RInv, PInv
  <2> QED
    BY <2>1, CommandedStep, KeptStep, WaitsStep, NumberedStep, LatestStep DEF PInv
<1> QED
  BY <1>1, <1>2, <1>3, InitPInv, PTL DEF PlantSpec

\* All of the plant's state keeps its type; publications hold values of their
\* points' types.
THEOREM PlantTypeCorrect == PlantSpec => []PlantTypeOK
<1>1. IInv /\ Requested!RInv /\ PInv => PlantTypeOK
  BY DEF PlantTypeOK, IInv, Requested!RInv, PInv, Numbered, Kept, Requested!TypeOK,
         Link!TypeOK, Requested!Replies, Link!Replies,
         Requested!Status, Link!Status
<1> QED
  BY <1>1, PlantInvariant, PTL

\* The scan thread of a device that is alive stays in its write until send()
\* returns, and waits for no other.
THEOREM ScanWaits == PlantSpec => []WaitsForItsWrite
<1>1. PInv => WaitsForItsWrite
  BY DEF PInv
<1> QED
  BY <1>1, PlantInvariant, PTL

\* What module FieldDeviceProofs shows of the commands a device accepts holds in
\* the plant.
THEOREM PlantAppliesCommands == PlantSpec => []AppliedBeforeCleared
  BY PlantIsDevice, CommandsAreApplied, PTL DEF ImplementsFieldDevice

\* From a server to the providers: by the time clearUpdatedTags drops a tag, every
\* output module has asked its provider for the last command accepted in time,
\* has asked for nothing else for that tag since, and has an answer or has given
\* up; where the answer is ACK the provider has written the point, once.
THEOREM CommandsReachProviders == PlantSpec => []CommandsAsked
<1> DEFINE Once == \A r \in Requests :
                     applied[r] \in {0, 1} /\ (outcome[r] = "ACK" => applied[r] = 1)
           WTyped == outcome \in [Requests -> {"new", "pending"} \union Link!Abstract!Reports]
                     /\ applied \in [Requests -> {0, 1}]
<1>1. PlantSpec => []Once
  <2>1. Link!Abstract!WInit => WTyped /\ Once
    BY DEF Link!Abstract!WInit
  <2>2. WTyped /\ Once /\ [Link!Abstract!WNext]_<<outcome, applied>> => (WTyped /\ Once)'
    BY DEF Link!Abstract!WNext, Link!Abstract!Issue, Link!Abstract!TakeEffect,
           Link!Abstract!Report, Link!Abstract!Reports
  <2> QED
    BY <2>1, <2>2, PlantWritesOnce, PTL
       DEF WritesTakeEffectOnce, Link!WritesOnce, Link!Abstract!WSpec
<1>2. IInv /\ PInv /\ AppliedBeforeCleared /\ Once => CommandsAsked
  <2> SUFFICES ASSUME IInv, PInv, AppliedBeforeCleared, Once,
                      NEW t \in External, AboutToClear(t), accepted[t] # None,
                      NEW o \in Outputs
               PROVE  \E r \in Requests :
                         /\ r[1] = o /\ written[r] = [tag |-> t, val |-> accepted[t]]
                         /\ \A q \in Requests :
                               q[1] = o /\ written[q].tag = t => q[2] <= r[2]
                         /\ outcome[r] \in Concluded
                         /\ outcome[r] = "ACK" => applied[r] = 1
    BY DEF CommandsAsked
  <2>1. sent[o][t] = accepted[t]
    BY ConfigAssumption DEF AppliedBeforeCleared, Applied
  <2>2. Latest
    BY DEF PInv
  <2> QED
    BY <2>1, <2>2 DEF Latest
<1> QED
  BY <1>1, <1>2, PlantInvariant, PlantAppliesCommands, PTL
=============================================================================
