---------------------------- MODULE IEC104Proofs ----------------------------
(***************************************************************************)
(* Proofs about module IEC104: types, with the conversions between truth   *)
(* values and double points, that the server polls only while a connection *)
(* is open, and that client, connection and server implement               *)
(* CommandChannel.                                                         *)
(***************************************************************************)
EXTENDS IEC104, SequenceTheorems, TLAPS

-----------------------------------------------------------------------------
AllValues == BOOLEAN \union AnalogValues

\* What the client sends.
Sent == {StartDT, Interrogation}
            \union {[type |-> "C_DC_NA_1", tag |-> t, val |-> d] :
                        t \in Binary, d \in {"ON", "OFF"}}
            \union {[type |-> "C_SE_NC_1", tag |-> t, val |-> v] : t \in Analog, v \in AnalogValues}

\* What the server sends.
AnalogASDUs == [type : {"M_ME_NC_1"}, vals : [Analog -> AnalogValues]]

DoubleASDUs == [type : {"M_DP_NA_1", "M_DP_TB_1"}, vals : [Binary -> {"ON", "OFF"}]]

SingleASDUs == [type : {"M_SP_NA_1"}, vals : [Binary -> BOOLEAN]]

Received == AnalogASDUs \union DoubleASDUs \union SingleASDUs

\* A value of its own type for every tag.
Typed(f) == f \in [Tags -> AllValues] /\ \A t \in Tags : f[t] \in Values(t)

Channels ==
    /\ toServer \in Seq(Sent)
    /\ toClient \in Seq(Received)
    /\ answer \in AnalogASDUs \union {None}
    /\ poll = "analog" => polled \in AnalogASDUs
    /\ Len(toServer) <= MaxQueue /\ Len(toClient) <= MaxQueue

Stores ==
    /\ Typed(data)
    /\ Typed(reg)
    /\ updated \in [Tags -> AllValues \union {None}]
    /\ \A t \in Tags : updated[t] \in Values(t) \union {None}

Connections ==
    /\ tcp \in BOOLEAN /\ open \subseteq Masters /\ opening \subseteq open
    /\ active \in open \union {None}
    /\ mConnection \in Masters \union {None} /\ mConnected \in BOOLEAN
    /\ poll \in {"idle", "binary", "analog"}
    /\ inputs \in 0 .. MaxInputs

CInv == Stores /\ Channels /\ Connections /\ PollsConnected

-----------------------------------------------------------------------------
(* Facts about the operators.                                              *)

\* The initial values have their tags' types.
LEMMA InitialTyped == Typed(Initial)
<1>1. PICK v \in AnalogValues : v = (CHOOSE w \in AnalogValues : TRUE)
  BY IEC104Assumption
<1> QED
  BY <1>1 DEF Typed, Initial, Tags, Values, AllValues

\* What is carried of a value is a value of the same tag.
LEMMA WireTyped ==
    ASSUME NEW t \in Tags, NEW v \in Values(t)
    PROVE  Wire(t, v) \in Values(t)
  BY IEC104Assumption DEF Tags, Values, Wire

\* A command is one of the messages, and means the value it was made from, as far
\* as the wire carries it: the double point the client makes of a truth value is
\* read back as that value.
LEMMA CommandSent ==
    ASSUME NEW t \in Tags, NEW v \in Values(t)
    PROVE  Command(t, v) \in Sent
  BY WireTyped DEF Tags, Values, Command, convertBoolToDPValue, Sent

LEMMA CommandMeans ==
    ASSUME NEW t \in Tags, NEW v \in Values(t)
    PROVE  CommandValue(Command(t, v)) = Wire(t, v)
<1>1. CASE t \in Binary
  <2>1. v \in BOOLEAN
    BY <1>1 DEF Values
  <2>2. CommandValue(Command(t, v)) = v
    BY <1>1, <2>1, Zenon DEF Command, CommandValue, convertBoolToDPValue, DPValueToBool
  <2>3. t \notin Analog
    BY <1>1, IEC104Assumption
  <2> QED
    BY <2>2, <2>3 DEF Wire
<1>2. CASE t \notin Binary
  BY <1>2, Zenon DEF Command, CommandValue
<1> QED
  BY <1>1, <1>2

\* The value of a message that names a tag is of that tag's type.
LEMMA SentTyped ==
    ASSUME NEW m \in Sent, m.tag \in Tags
    PROVE  CommandValue(m) \in Values(m.tag)
<1>1. m \notin {StartDT, Interrogation}
  BY IEC104Assumption DEF StartDT, Interrogation
<1>2. CASE \E t \in Binary, d \in {"ON", "OFF"} : m = [type |-> "C_DC_NA_1", tag |-> t, val |-> d]
  BY <1>2 DEF CommandValue, DPValueToBool, Values
<1>3. CASE \E t \in Analog, v \in AnalogValues : m = [type |-> "C_SE_NC_1", tag |-> t, val |-> v]
  BY <1>3, IEC104Assumption DEF CommandValue, Values
<1> QED
  BY <1>1, <1>2, <1>3 DEF Sent

\* What the server reads from its data is fit to be sent.
LEMMA ReadTyped ==
    ASSUME Stores
    PROVE  /\ AnalogASDU \in AnalogASDUs
           /\ PolledBinary \in Received
           /\ InterrogatedBinary \in Received
<1>1. /\ \A t \in Binary : data[t] \in BOOLEAN
      /\ \A t \in Analog : data[t] \in AnalogValues
  BY IEC104Assumption DEF Stores, Typed, Tags, Values
<1>2. DoublePoints \in [Binary -> {"ON", "OFF"}]
  BY DEF DoublePoints, convertBoolToDPValue
<1>3. AnalogASDU \in AnalogASDUs
  BY <1>1, IEC104Assumption DEF AnalogASDU, AnalogASDUs, ASDU, Wire
<1>4. [t \in Binary |-> data[t]] \in [Binary -> BOOLEAN]
  BY <1>1
<1>5. PolledBinary \in Received /\ InterrogatedBinary \in Received
  BY <1>2, <1>4 DEF PolledBinary, InterrogatedBinary, ASDU, Received, DoubleASDUs, SingleASDUs
<1> QED
  BY <1>3, <1>5

\* sendASDU keeps the channel.
LEMMA SendTyped ==
    ASSUME Channels, NEW con, NEW asdu \in Received, SendASDU(con, asdu)
    PROVE  toClient' \in Seq(Received) /\ Len(toClient') <= MaxQueue
<1>1. toClient \in Seq(Received) /\ Len(toClient) \in Nat /\ Len(toClient) <= MaxQueue
  BY LenProperties DEF Channels
<1>2. CASE UNCHANGED toClient
  BY <1>1, <1>2
<1>3. CASE Len(toClient) < MaxQueue /\ toClient' = Append(toClient, asdu)
  BY <1>1, <1>3, AppendProperties, IEC104Assumption
<1> QED
  BY <1>2, <1>3 DEF SendASDU

\* asduReceivedHandler keeps the registers' types.
LEMMA RegistersTyped ==
    ASSUME Stores, NEW asdu \in Received
    PROVE  Typed(Registers(asdu))
<1>0. \A t \in Tags : reg[t] \in Values(t) /\ reg[t] \in AllValues
  BY DEF Stores, Typed
<1>1. CASE asdu.type = "M_ME_NC_1"
  <2>1. asdu.vals \in [Analog -> AnalogValues]
    BY <1>1 DEF Received, AnalogASDUs, DoubleASDUs, SingleASDUs
  <2>2. Registers(asdu) = [t \in Tags |-> IF t \in Analog THEN asdu.vals[t] ELSE reg[t]]
    BY <1>1 DEF Registers
  <2> QED
    BY <1>0, <2>1, <2>2, IEC104Assumption DEF Typed, Values, AllValues, Tags
<1>2. CASE asdu.type = "M_DP_NA_1"
  <2>1. Registers(asdu) = [t \in Tags |-> IF t \in Binary THEN DPValueToBool(asdu.vals[t])
                                          ELSE reg[t]]
    BY <1>2 DEF Registers
  <2> QED
    BY <1>0, <2>1 DEF Typed, Values, AllValues, Tags, DPValueToBool
<1>3. CASE asdu.type \notin {"M_ME_NC_1", "M_DP_NA_1"}
  BY <1>3 DEF Registers, Stores
<1> QED
  BY <1>1, <1>2, <1>3

\* What is left of a channel when its first message is taken.
LEMMA TakeTyped ==
    ASSUME NEW S, NEW s \in Seq(S), s # <<>>
    PROVE  /\ Head(s) \in S /\ Tail(s) \in Seq(S)
           /\ Len(Tail(s)) = Len(s) - 1 /\ Len(s) \in Nat
  BY HeadTailProperties, LenProperties

-----------------------------------------------------------------------------
(* The invariant.                                                          *)

\* The initial state satisfies it.
LEMMA IEC104Init == Init => CInv
<1> SUFFICES ASSUME Init PROVE CInv
  OBVIOUS
<1>1. Stores
  BY InitialTyped DEF Init, Stores
<1>2. Channels
  BY IEC104Assumption, EmptySeq DEF Init, Channels
<1>3. Connections /\ PollsConnected
  <2>1. MaxInputs \in Nat
    BY IEC104Assumption
  <2>2. inputs \in 0 .. MaxInputs
    BY <2>1 DEF Init
  <2>3. mConnected = FALSE /\ mConnection = None /\ active = None /\ poll = "idle"
        /\ tcp = FALSE /\ open = {} /\ opening = {}
    BY DEF Init
  <2> QED
    BY <2>2, <2>3, Zenon DEF Connections, PollsConnected
<1> QED
  BY <1>1, <1>2, <1>3 DEF CInv

\* It implies the type invariant of the module.
LEMMA InvTyped == CInv => TypeOK
<1> SUFFICES ASSUME CInv PROVE TypeOK
  OBVIOUS
<1>1. \A m \in Sent : /\ m.type \in {"STARTDT", "C_IC_NA_1", "C_DC_NA_1", "C_SE_NC_1"}
                     /\ m.tag \in Tags \union {None}
  BY DEF Sent, StartDT, Interrogation, Tags
<1>2. \A i \in DOMAIN toServer : toServer[i] \in Sent
  BY DEF CInv, Channels
<1> QED
  BY <1>1, <1>2 DEF CInv, Stores, Typed, Channels, Connections, TypeOK

\* An update of one tag by a value of its type.
LEMMA ExceptTyped ==
    ASSUME NEW f, Typed(f), NEW t \in Tags, NEW v \in Values(t)
    PROVE  Typed([f EXCEPT ![t] = v])
  BY DEF Typed, Values, AllValues

\* Data, updates and registers hold values of their tags' types.
LEMMA StoresStep == CInv /\ [Next]_vars => Stores'
<1> SUFFICES ASSUME CInv, [Next]_vars PROVE Stores'
  OBVIOUS
<1>0. Stores /\ Channels
  BY DEF CInv
<1>1. ASSUME UNCHANGED <<data, updated, reg>> PROVE Stores'
  BY <1>0, <1>1 DEF Stores, Typed
<1>2. ASSUME NEW t \in Tags, NEW v \in Values(t), UNCHANGED <<data, reg>>,
             updated' = [updated EXCEPT ![t] = v]
      PROVE  Stores'
  BY <1>0, <1>2 DEF Stores, Typed, Values, AllValues
<1>3. ASSUME NEW con \in Others, OtherStep(con) PROVE Stores'
  BY <1>1, <1>2, <1>3, WireTyped DEF OtherStep, OtherActivate, OtherCommand, deviceVars
<1>4. CASE HandleCommand
  <2>1. Head(toServer) \in Sent /\ Head(toServer).tag \in Tags
    BY <1>0, <1>4, TakeTyped DEF HandleCommand, Take, Channels
  <2> QED
    BY <1>2, <1>4, <2>1, SentTyped DEF HandleCommand
<1>5. CASE ClientStart
  BY <1>0, <1>5, InitialTyped DEF ClientStart, Stores, deviceVars, Typed
<1>6. CASE ClientReceive
  <2>1. Head(toClient) \in Received
    BY <1>0, <1>6, TakeTyped DEF ClientReceive, Channels
  <2>2. Typed(Registers(Head(toClient)))
    BY <1>0, <2>1, RegistersTyped
  <2> QED
    BY <1>0, <1>6, <2>2 DEF ClientReceive, Stores, deviceVars, Typed
<1>7. ASSUME NEW t \in Tags, NEW v \in Values(t), ClientWrite(t, v) \/ Change(t, v)
      PROVE  Stores'
  BY <1>0, <1>7, ExceptTyped DEF ClientWrite, Change, Stores, deviceVars, Typed
<1>8. ASSUME NEW t \in Tags, Apply(t) PROVE Stores'
  BY <1>0, <1>8, ExceptTyped DEF Apply, Stores, Typed
<1>9. CASE \/ \E con \in Masters : ConnectionOpened(con) \/ MarkConnected(con) \/ Close(con)
           \/ Activate \/ Interrogate \/ InterrogateAnalog \/ Refuse \/ PollStep
           \/ UNCHANGED vars
  BY <1>1, <1>9
     DEF ConnectionOpened, MarkConnected, Close, Activate, Interrogate, InterrogateAnalog, Refuse,
         PollStep, PollBegin, PollBinary, PollAnalog, deviceVars, vars
<1> QED
  BY <1>3, <1>4, <1>5, <1>6, <1>7, <1>8, <1>9 DEF Next, ServerStep

\* The channels hold messages the other end understands, no more than the bound.
LEMMA ChannelsStep == CInv /\ [Next]_vars => Channels'
<1> SUFFICES ASSUME CInv, [Next]_vars PROVE Channels'
  OBVIOUS
<1>0. Stores /\ Channels
  BY DEF CInv
<1> USE DEF Channels
<1>1. ASSUME UNCHANGED <<toServer, toClient, answer, poll, polled>> PROVE Channels'
  BY <1>0, <1>1
<1>2. ASSUME NEW con, Close(con) PROVE Channels'
  <2>1. <<>> \in Seq(Sent) /\ <<>> \in Seq(Received) /\ Len(<<>>) <= MaxQueue
    BY EmptySeq, IEC104Assumption
  <2>2. CASE con = Client
    BY <1>0, <1>2, <2>1, <2>2 DEF Close, pollVars
  <2>3. CASE con # Client
    BY <1>0, <1>2, <2>3 DEF Close, pollVars
  <2> QED
    BY <2>2, <2>3
<1>3. toServer # <<>> => Tail(toServer) \in Seq(Sent) /\ Len(Tail(toServer)) <= MaxQueue
  BY <1>0, TakeTyped, IEC104Assumption
<1>4. CASE Activate \/ HandleCommand
  BY <1>0, <1>3, <1>4 DEF Activate, HandleCommand, Take, pollVars
<1>5. CASE Interrogate
  BY <1>0, <1>3, <1>5, ReadTyped, SendTyped DEF Interrogate, Take, pollVars
<1>6. CASE InterrogateAnalog
  BY <1>0, <1>6, SendTyped DEF InterrogateAnalog, Received, pollVars
<1>7. CASE PollBegin
  BY <1>0, <1>7 DEF PollBegin
<1>8. CASE PollBinary
  BY <1>0, <1>8, ReadTyped, SendTyped DEF PollBinary
<1>9. CASE PollAnalog
  BY <1>0, <1>9, SendTyped DEF PollAnalog, Received
<1>10. CASE ClientStart
  <2>1. <<StartDT, Interrogation>> \in Seq(Sent)
    BY DEF Sent
  <2>2. toServer' \in Seq(Sent) /\ Len(toServer') = 2
    BY <1>10, <2>1 DEF ClientStart
  <2> QED
    BY <1>0, <1>10, <2>2, EmptySeq, IEC104Assumption DEF ClientStart, pollVars
<1>11. ASSUME NEW t \in Tags, NEW v \in Values(t), ClientWrite(t, v) PROVE Channels'
  <2>1. toServer' \in Seq(Sent) /\ Len(toServer') <= MaxQueue
    <3>1. CASE UNCHANGED toServer
      BY <1>0, <3>1
    <3>2. CASE Len(toServer) < MaxQueue /\ toServer' = Append(toServer, Command(t, v))
      <4>1. Command(t, v) \in Sent
        BY CommandSent
      <4>2. MaxQueue \in Nat /\ Len(toServer) \in Nat
        BY <1>0, LenProperties, IEC104Assumption
      <4> QED
        BY <1>0, <3>2, <4>1, <4>2, AppendProperties
    <3> QED
      BY <1>11, <3>1, <3>2 DEF ClientWrite
  <2> QED
    BY <1>0, <1>11, <2>1 DEF ClientWrite, pollVars
<1>12. CASE ClientReceive
  BY <1>0, <1>12, TakeTyped, IEC104Assumption DEF ClientReceive, pollVars
<1>13. CASE \/ \E con \in Masters : ConnectionOpened(con) \/ MarkConnected(con)
            \/ \E con \in Others : OtherStep(con)
            \/ \E t \in Tags : \E v \in Values(t) : Change(t, v)
            \/ \E t \in Tags : Apply(t)
            \/ UNCHANGED vars
  BY <1>1, <1>13
     DEF ConnectionOpened, MarkConnected, OtherStep, OtherActivate, OtherCommand, Change, Apply,
         pollVars, vars
<1> QED
  BY <1>2, <1>4, <1>5, <1>6, <1>7, <1>8, <1>9, <1>10, <1>11, <1>12, <1>13
     DEF Next, ServerStep, PollStep, Refuse

\* Connections come and go; while the server polls, one is open.
LEMMA ConnectionsStep == CInv /\ [Next]_vars => Connections' /\ PollsConnected'
<1> SUFFICES ASSUME CInv, [Next]_vars PROVE Connections' /\ PollsConnected'
  OBVIOUS
<1>0. Connections /\ PollsConnected
  BY DEF CInv
<1> USE <1>0 DEF Connections, PollsConnected
<1>1. ASSUME UNCHANGED <<connVars, poll>>, Input \/ UNCHANGED inputs
      PROVE  Connections' /\ PollsConnected'
  BY <1>1, IEC104Assumption DEF connVars, Input
<1>2. ASSUME NEW con \in Masters, ConnectionOpened(con) \/ MarkConnected(con) \/ Close(con)
      PROVE  Connections' /\ PollsConnected'
  <2>1. CASE ConnectionOpened(con)
    BY <2>1 DEF ConnectionOpened, pollVars
  <2>2. CASE MarkConnected(con)
    BY <2>2 DEF MarkConnected, pollVars
  <2>3. CASE Close(con)
    <3>1. tcp' \in BOOLEAN /\ mConnected' = FALSE
      BY <2>3 DEF Close, ConnectionClosed
    <3>2. opening' \subseteq open' /\ open' \subseteq Masters /\ active' \in open' \union {None}
      BY <2>3 DEF Close, ConnectionClosed
    <3> QED
      BY <2>3, <3>1, <3>2 DEF Close, ConnectionClosed, pollVars
  <2> QED
    BY <1>2, <2>1, <2>2, <2>3
<1>3. Client \in Masters /\ Others \subseteq Masters
  BY DEF Masters
<1>4. ASSUME NEW con \in Others, OtherStep(con)
      PROVE  Connections' /\ PollsConnected'
  BY <1>1, <1>3, <1>4 DEF OtherStep, OtherActivate, OtherCommand, pollVars
<1>5. CASE Activate \/ ClientStart
  <2>1. CASE Activate
    BY <1>3, <2>1 DEF Activate, Take, pollVars
  <2>2. CASE ClientStart
    BY <2>2 DEF ClientStart, pollVars
  <2> QED
    BY <1>5, <2>1, <2>2
<1>6. CASE Refuse
  BY <1>2, <1>3, <1>6 DEF Refuse
<1>7. CASE PollStep
  BY <1>7 DEF PollStep, PollBegin, PollBinary, PollAnalog, connVars
<1>8. CASE \/ Interrogate \/ InterrogateAnalog \/ HandleCommand \/ ClientReceive
           \/ \E t \in Tags : \E v \in Values(t) : ClientWrite(t, v) \/ Change(t, v)
           \/ \E t \in Tags : Apply(t)
           \/ UNCHANGED vars
  BY <1>1, <1>8
     DEF Interrogate, InterrogateAnalog, HandleCommand, ClientReceive, ClientWrite, Change,
         Apply, pollVars, vars
<1> QED
  BY <1>2, <1>4, <1>5, <1>6, <1>7, <1>8 DEF Next, ServerStep

-----------------------------------------------------------------------------
\* The inductive invariant of the server, the client and their connection.
THEOREM IEC104Invariant == Spec => []CInv
<1>1. CInv /\ [Next]_vars => CInv'
  BY StoresStep, ChannelsStep, ConnectionsStep DEF CInv
<1> QED
  BY IEC104Init, <1>1, PTL DEF Spec

\* Every value in the datastore, in an update and in a register has its tag's
\* type, through all conversions of Server.cpp and ClientConnection.cpp.
THEOREM IEC104TypeCorrect == Spec => []TypeOK
  BY IEC104Invariant, InvTyped, PTL

\* With any number of masters whose connections are opened and closed in any
\* order, by threads that write mConnection and mConnected without a lock: the
\* reverse poll loop of Server.cpp begins a round only while one is open.
THEOREM PolledIsConnected == Spec => []PollsConnected
<1>1. CInv => PollsConnected
  BY DEF CInv
<1> QED
  BY IEC104Invariant, <1>1, PTL

-----------------------------------------------------------------------------
(* The commands of the client.                                             *)

\* What the server takes a message for.
Decoded(m) == [tag |-> m.tag, val |-> CommandValue(m)]

\* Nothing is under way on a connection that is gone, at the client's end first.
Quiet ==
    /\ Client \in open => tcp
    /\ ~tcp => toServer = <<>> /\ toClient = <<>>

\* Every step keeps it.
LEMMA QuietStep == Quiet /\ [Next]_vars => Quiet'
<1> SUFFICES ASSUME Quiet, [Next]_vars PROVE Quiet'
  OBVIOUS
<1> USE DEF Quiet
<1>1. ASSUME NEW con, Close(con) PROVE Quiet'
  BY <1>1 DEF Close, ConnectionClosed
<1>2. ASSUME NEW con \in Masters, ConnectionOpened(con) \/ MarkConnected(con) PROVE Quiet'
  BY <1>2 DEF ConnectionOpened, MarkConnected
<1>3. ASSUME NEW con \in Others, OtherStep(con) PROVE Quiet'
  BY <1>3 DEF OtherStep, OtherActivate, OtherCommand, connVars
<1>4. CASE ServerStep
  BY <1>1, <1>4
     DEF ServerStep, Activate, Interrogate, InterrogateAnalog, HandleCommand, Refuse, Take,
         SendASDU, connVars
<1>5. CASE PollStep
  BY <1>5 DEF PollStep, PollBegin, PollBinary, PollAnalog, SendASDU, connVars
<1>6. CASE ClientStart
  BY <1>6 DEF ClientStart
<1>7. CASE ClientReceive
  BY <1>7 DEF ClientReceive, connVars
<1>8. ASSUME NEW t \in Tags, NEW v \in Values(t), ClientWrite(t, v) \/ Change(t, v)
      PROVE  Quiet'
  BY <1>8 DEF ClientWrite, Change, connVars
<1>9. ASSUME NEW t \in Tags, Apply(t) PROVE Quiet'
  BY <1>9 DEF Apply, connVars
<1>10. CASE UNCHANGED vars
  BY <1>10 DEF vars, connVars
<1> QED
  BY <1>1, <1>2, <1>3, <1>4, <1>5, <1>6, <1>7, <1>8, <1>9, <1>10 DEF Next

\* Sending appends to what is under way; taking a message takes it from the front.
LEMMA PendingFacts ==
    ASSUME NEW s \in Seq(Sent), NEW m \in Sent
    PROVE  LET D(z) == [i \in DOMAIN z |-> Decoded(z[i])]
           IN  /\ D(Append(s, m)) = Append(D(s), Decoded(m))
               /\ s # <<>> => /\ D(s) # <<>> /\ Head(D(s)) = Decoded(Head(s))
                              /\ D(Tail(s)) = Tail(D(s))
<1> DEFINE D(z) == [i \in DOMAIN z |-> Decoded(z[i])]
           S == {Decoded(k) : k \in Sent}
<1>1. \A z \in Seq(Sent) : D(z) \in Seq(S) /\ Len(D(z)) = Len(z)
                            /\ \A i \in 1 .. Len(z) : D(z)[i] = Decoded(z[i])
  <2> SUFFICES ASSUME NEW z \in Seq(Sent)
               PROVE  D(z) \in Seq(S) /\ Len(D(z)) = Len(z)
                      /\ \A i \in 1 .. Len(z) : D(z)[i] = Decoded(z[i])
    OBVIOUS
  <2>1. Len(z) \in Nat /\ DOMAIN z = 1 .. Len(z) /\ \A i \in 1 .. Len(z) : z[i] \in Sent
    BY LenProperties, ElementOfSeq
  <2>2. D(z) = [i \in 1 .. Len(z) |-> Decoded(z[i])]
    BY <2>1
  <2>3. \A i \in 1 .. Len(z) : Decoded(z[i]) \in S
    BY <2>1
  <2> HIDE DEF D, S
  <2>4. D(z) \in Seq(S) /\ Len(D(z)) = Len(z)
    BY <2>1, <2>2, <2>3, IsASeq, LenProperties
  <2> QED
    BY <2>2, <2>4
<1>2. Append(s, m) \in Seq(Sent)
  BY AppendProperties
<1>3. Decoded(m) \in S
  OBVIOUS
<1> HIDE DEF D, S
<1>4. D(Append(s, m)) = Append(D(s), Decoded(m))
  <2>1. /\ Len(Append(s, m)) = Len(s) + 1 /\ Len(s) \in Nat
        /\ Append(s, m)[Len(s) + 1] = m
        /\ \A i \in 1 .. Len(s) : Append(s, m)[i] = s[i]
    BY AppendProperties, LenProperties
  <2>2. /\ Append(D(s), Decoded(m)) \in Seq(S)
        /\ Len(Append(D(s), Decoded(m))) = Len(D(s)) + 1
        /\ Append(D(s), Decoded(m))[Len(D(s)) + 1] = Decoded(m)
        /\ \A i \in 1 .. Len(D(s)) : Append(D(s), Decoded(m))[i] = D(s)[i]
    BY <1>1, <1>3, AppendProperties
  <2>3. \A i \in 1 .. Len(s) + 1 : D(Append(s, m))[i] = Append(D(s), Decoded(m))[i]
    <3> SUFFICES ASSUME NEW i \in 1 .. Len(s) + 1
                 PROVE  D(Append(s, m))[i] = Append(D(s), Decoded(m))[i]
      OBVIOUS
    <3>1. D(Append(s, m))[i] = Decoded(Append(s, m)[i])
      BY <1>1, <1>2, <2>1
    <3>2. CASE i = Len(s) + 1
      BY <1>1, <2>1, <2>2, <3>1, <3>2
    <3>3. CASE i # Len(s) + 1
      <4>1. i \in 1 .. Len(s)
        BY <2>1, <3>3
      <4> QED
        BY <1>1, <2>1, <2>2, <3>1, <4>1
    <3> QED
      BY <3>2, <3>3
  <2> QED
    BY <1>1, <1>2, <2>1, <2>2, <2>3, SeqEqual
<1>5. ASSUME s # <<>>
      PROVE  /\ D(s) # <<>> /\ Head(D(s)) = Decoded(Head(s))
             /\ D(Tail(s)) = Tail(D(s))
  <2>1. /\ Len(s) \in Nat /\ Len(s) # 0 /\ Head(s) = s[1]
        /\ Tail(s) \in Seq(Sent) /\ Len(Tail(s)) = Len(s) - 1
        /\ \A i \in 1 .. Len(Tail(s)) : Tail(s)[i] = s[i + 1]
    BY <1>5, EmptySeq, HeadTailProperties, LenProperties
  <2>2. D(s) # <<>>
    BY <1>1, <2>1, EmptySeq
  <2>3. /\ Head(D(s)) = D(s)[1]
        /\ Tail(D(s)) \in Seq(S) /\ Len(Tail(D(s))) = Len(D(s)) - 1
        /\ \A i \in 1 .. Len(Tail(D(s))) : Tail(D(s))[i] = D(s)[i + 1]
    BY <1>1, <2>2, HeadTailProperties
  <2>4. \A i \in 1 .. Len(s) - 1 : D(Tail(s))[i] = Tail(D(s))[i]
    <3> SUFFICES ASSUME NEW i \in 1 .. Len(s) - 1 PROVE D(Tail(s))[i] = Tail(D(s))[i]
      OBVIOUS
    <3>1. i + 1 \in 1 .. Len(s)
      BY <2>1
    <3> QED
      BY <1>1, <2>1, <2>3, <3>1
  <2>5. D(Tail(s)) = Tail(D(s))
    BY <1>1, <2>1, <2>3, <2>4, SeqEqual
  <2>6. 1 \in 1 .. Len(s)
    BY <2>1
  <2> QED
    BY <1>1, <2>1, <2>2, <2>3, <2>5, <2>6
<1> QED
  BY <1>4, <1>5 DEF D

\* Every step of the server, the client and the network is one of the channel of
\* commands, or leaves it alone.
LEMMA ChannelStep ==
    ASSUME CInv, Quiet, [Next]_vars
    PROVE  [Channel!CNext]_Channel!cvars
<1>0. /\ Stores /\ Channels /\ Connections /\ toServer \in Seq(Sent) /\ toClient \in Seq(Received)
      /\ Pending = [i \in DOMAIN toServer |-> Decoded(toServer[i])]
  BY DEF CInv, Channels, Pending, Decoded
<1>1. ASSUME UNCHANGED <<toServer, toClient, updated, reg, tcp>>,
             (active' = Client) <=> (active = Client)
      PROVE  UNCHANGED Channel!cvars
  <2>1. UNCHANGED <<Pending, Len(toClient), active = Client>>
    BY <1>1 DEF Pending
  <2> QED
    BY <1>1, <2>1 DEF Channel!cvars
<1>2. ASSUME NEW t \in Tags, NEW v \in Values(t) \union {None},
             v = None \/ active # Client,
             updated' = [updated EXCEPT ![t] = v],
             UNCHANGED <<toServer, toClient, reg, tcp, active>>
      PROVE  Channel!CNext
  <2>1. Channel!Update(t, v)
    BY <1>2 DEF Channel!Update, Pending
  <2> QED
    BY <1>2, <2>1 DEF Channel!CNext
<1>3. ASSUME toServer # <<>>, toServer' = Tail(toServer)
      PROVE  /\ Pending # <<>> /\ Head(Pending) = Decoded(Head(toServer))
             /\ Pending' = Tail(Pending)
  <2>1. StartDT \in Sent
    BY DEF Sent
  <2> QED
    BY <1>0, <1>3, <2>1, PendingFacts DEF Pending, Decoded
<1>4. ASSUME NEW con, Close(con) PROVE [Channel!CNext]_Channel!cvars
  <2>1. CASE con = Client
    <3>1. /\ tcp' = FALSE /\ toServer' = <<>> /\ toClient' = <<>> /\ UNCHANGED <<updated, reg>>
          /\ active' # Client
      BY <1>4, <2>1, IEC104Assumption DEF Close, ConnectionClosed, deviceVars, Masters
    <3>2. Pending' = <<>> /\ Len(toClient') = 0
      BY <3>1 DEF Pending
    <3> QED
      BY <3>1, <3>2 DEF Channel!CNext, Channel!Drop
  <2>2. CASE con # Client
    <3>1. UNCHANGED <<toServer, toClient, updated, reg>> /\ tcp' = (tcp /\ con # Client)
      BY <1>4, <2>2 DEF Close, deviceVars
    <3>2. tcp' = tcp
      BY <1>0, <2>2, <3>1 DEF Connections
    <3>3. active' = Client <=> active = Client
      BY <1>4, <2>2, IEC104Assumption DEF Close, ConnectionClosed, Masters
    <3> QED
      BY <1>1, <3>1, <3>2, <3>3
  <2> QED
    BY <2>1, <2>2
<1>5. ASSUME NEW con \in Others, OtherStep(con) PROVE [Channel!CNext]_Channel!cvars
  <2>1. con # Client
    BY IEC104Assumption
  <2>2. CASE OtherActivate(con)
    <3>1. active' # Client /\ UNCHANGED <<toServer, toClient, updated, reg, tcp>>
      BY <2>1, <2>2 DEF OtherActivate, deviceVars
    <3>2. Channel!Yield
      BY <3>1 DEF Channel!Yield, Pending
    <3> QED
      BY <3>2 DEF Channel!CNext
  <2>3. ASSUME NEW t \in Tags, NEW v \in Values(t), OtherCommand(con, t, v)
        PROVE  Channel!CNext
    <3>1. Wire(t, v) \in Values(t)
      BY WireTyped
    <3>2. active # Client /\ updated' = [updated EXCEPT ![t] = Wire(t, v)]
          /\ UNCHANGED <<toServer, toClient, reg, tcp, active>>
      BY <2>1, <2>3 DEF OtherCommand, connVars
    <3> QED
      BY <1>2, <3>1, <3>2
  <2> QED
    BY <1>5, <2>2, <2>3 DEF OtherStep
<1>6. ASSUME toServer # <<>>, Head(toServer) \in {StartDT, Interrogation},
             toServer' = Tail(toServer), UNCHANGED <<tcp, reg, updated>>,
             active' = Client \/ active' = active,
             Len(toClient') \in {Len(toClient), Len(toClient) + 1}
      PROVE  Channel!CNext
  <2>1. Decoded(Head(toServer)) = Channel!Setup
    BY <1>6 DEF Decoded, StartDT, Interrogation, CommandValue, Channel!Setup
  <2>2. Channel!TakeSetup
    BY <1>3, <1>6, <2>1 DEF Channel!TakeSetup
  <2> QED
    BY <2>2 DEF Channel!CNext
<1>7. ASSUME NEW con, NEW asdu \in Received, SendASDU(con, asdu)
      PROVE  \/ UNCHANGED toClient
             \/ active = Client /\ Len(toClient') = Len(toClient) + 1
  BY <1>0, <1>7, AppendProperties DEF SendASDU
<1>8. CASE Activate
  BY <1>6, <1>8 DEF Activate, Take, deviceVars
<1>9. CASE Interrogate
  <2>1. Len(toClient') \in {Len(toClient), Len(toClient) + 1}
    BY <1>0, <1>7, <1>9, ReadTyped DEF Interrogate
  <2> QED
    BY <1>6, <1>9, <2>1 DEF Interrogate, Take, connVars, deviceVars
<1>10. ASSUME NEW con, NEW asdu \in Received, SendASDU(con, asdu),
              UNCHANGED <<toServer, updated, reg, tcp, active>>
       PROVE  [Channel!CNext]_Channel!cvars
  <2>1. CASE UNCHANGED toClient
    BY <1>1, <1>10, <2>1
  <2>2. CASE active = Client /\ Len(toClient') = Len(toClient) + 1
    <3>1. Channel!Report
      BY <1>10, <2>2 DEF Channel!Report, Pending
    <3> QED
      BY <3>1 DEF Channel!CNext
  <2> QED
    BY <1>7, <1>10, <2>1, <2>2
<1>11. CASE InterrogateAnalog \/ PollBinary \/ PollAnalog
  BY <1>0, <1>10, <1>11, ReadTyped
     DEF InterrogateAnalog, PollBinary, PollAnalog, Channels, Received, connVars, deviceVars
<1>12. CASE HandleCommand
  <2>1. /\ toServer # <<>> /\ toServer' = Tail(toServer) /\ active = Client
        /\ Head(toServer).tag \in Tags
        /\ updated' = [updated EXCEPT ![Head(toServer).tag] = CommandValue(Head(toServer))]
        /\ UNCHANGED <<toClient, reg, tcp, active>>
    BY <1>12 DEF HandleCommand, Take, connVars
  <2>2. /\ Head(Pending).tag = Head(toServer).tag
        /\ Head(Pending).val = CommandValue(Head(toServer))
    BY <1>3, <2>1 DEF Decoded
  <2>3. Channel!TakeCommand
    BY <1>3, <2>1, <2>2 DEF Channel!TakeCommand
  <2> QED
    BY <2>3 DEF Channel!CNext
<1>13. CASE ClientStart
  <2>1. /\ ~tcp /\ tcp' = TRUE /\ toServer = <<>> /\ UNCHANGED <<updated, active, toClient>>
        /\ toServer' = <<StartDT, Interrogation>>
    BY <1>13 DEF ClientStart, Quiet, deviceVars
  <2>2. Pending = <<>> /\ Pending' = <<Channel!Setup, Channel!Setup>>
    BY <2>1 DEF Pending, Channel!Setup, StartDT, Interrogation, CommandValue
  <2>3. Channel!Connect
    BY <2>1, <2>2 DEF Channel!Connect
  <2> QED
    BY <2>3 DEF Channel!CNext
<1>14. CASE ClientReceive
  <2>1. Len(toClient) \in Nat \ {0} /\ Len(toClient') = Len(toClient) - 1
    BY <1>0, <1>14, HeadTailProperties, LenProperties, EmptySeq DEF ClientReceive
  <2>2. UNCHANGED <<tcp, active, toServer, updated>>
    BY <1>14 DEF ClientReceive, connVars, deviceVars
  <2>3. Channel!Refresh
    BY <2>1, <2>2 DEF Channel!Refresh, Pending
  <2> QED
    BY <2>3 DEF Channel!CNext
<1>15. ASSUME NEW t \in Tags, NEW v \in Values(t), ClientWrite(t, v) PROVE Channel!CNext
  <2>1. reg' = [reg EXCEPT ![t] = v] /\ UNCHANGED <<tcp, active, updated, toClient>>
    BY <1>15 DEF ClientWrite, connVars, deviceVars
  <2>2. Pending' = IF tcp THEN Append(Pending, [tag |-> t, val |-> Wire(t, v)]) ELSE Pending
    <3>1. CASE tcp
      <4>1. toServer' = Append(toServer, Command(t, v)) /\ Command(t, v) \in Sent
        BY <1>15, <3>1, CommandSent DEF ClientWrite
      <4>2. Decoded(Command(t, v)) = [tag |-> t, val |-> Wire(t, v)]
        <5>1. CommandValue(Command(t, v)) = Wire(t, v)
          BY CommandMeans
        <5>2. Command(t, v).tag = t
          BY DEF Command
        <5> QED
          BY <5>1, <5>2 DEF Decoded
      <4> QED
        BY <1>0, <3>1, <4>1, <4>2, PendingFacts DEF Pending, Decoded
    <3>2. CASE ~tcp
      BY <1>15, <3>2 DEF ClientWrite, Pending
    <3> QED
      BY <3>1, <3>2
  <2>3. [x \in Tags |-> [y \in Values(x) |-> Wire(x, y)]][t][v] = Wire(t, v)
    OBVIOUS
  <2>4. Channel!Write(t, v)
    BY <2>1, <2>2, <2>3 DEF Channel!Write
  <2> QED
    BY <2>4 DEF Channel!CNext
<1>16. ASSUME NEW t \in Tags, Apply(t) PROVE Channel!CNext
  BY <1>2, <1>16 DEF Apply, connVars
<1>17. CASE \/ \E con \in Masters : ConnectionOpened(con) \/ MarkConnected(con)
            \/ PollBegin
            \/ \E t \in Tags : \E v \in Values(t) : Change(t, v)
            \/ UNCHANGED vars
  BY <1>1, <1>17
     DEF ConnectionOpened, MarkConnected, PollBegin, Change, connVars, deviceVars, vars
<1> QED
  BY <1>4, <1>5, <1>8, <1>9, <1>11, <1>12, <1>13, <1>14, <1>15, <1>16, <1>17
     DEF Next, ServerStep, PollStep, Refuse

\* The client and the server implement the channel of commands: for any masters,
\* tags and values, what writeBinary and writeAnalog are told on a connection is
\* sent, asduHandler gives it to the data manager in order and once, as far as the
\* wire carries it, and nothing outlives its connection.
THEOREM CommandsInOrder == Spec => CommandsDelivered
<1>1. Init => Quiet /\ Channel!CInit
  <2> SUFFICES ASSUME Init PROVE Quiet /\ Channel!CInit
    OBVIOUS
  <2>1. Quiet /\ Pending = <<>> /\ Len(toClient) = 0
    BY DEF Init, Quiet, Pending
  <2>2. tcp = FALSE /\ (active = Client) = FALSE
    BY IEC104Assumption DEF Init, Masters
  <2> QED
    BY <2>1, <2>2 DEF Init, Channel!CInit
<1> QED
  BY <1>1, IEC104Invariant, QuietStep, ChannelStep, PTL
     DEF Spec, CommandsDelivered, Channel!CSpec
=============================================================================
