-------------------------- MODULE FieldDeviceProofs --------------------------
(***************************************************************************)
(* What a field device does with the commands its servers accept, proved   *)
(* for every configuration: any tags, points, logic, servers and output    *)
(* modules.  The inductive invariant adds to the three checked invariants  *)
(* where the scan thread can be (ScanShape), which writes of a cycle are   *)
(* already done (Written, Stored) and which types the stored variants can  *)
(* have (Typed).                                                           *)
(***************************************************************************)
EXTENDS FieldDevice, TLAPS

\* Where the scan thread's local state can be at each of its places.
ScanShape ==
    /\ pc \in {"inputs", "logic", "logicadd"} =>
           Logic # <<>> /\ mod = 1 /\ type = "bool"
    /\ pc \in {"logic", "logicadd"} => line \in DOMAIN Logic
    /\ pc = "write" => mod \in Outputs
    /\ pc = "copy" /\ mod \notin Outputs => type = "bool"
    /\ \A t \in Tags : tags[t] # None => pc = "write" /\ Type(t) = type

\* Logic adds an update only for a tag without a command accepted in time.
LogicYields == pc = "logicadd" => accepted[Logic[line]] = None

\* Output module o has finished with the map of tag t in this cycle.
Scanned(o, t) ==
    \/ /\ pc \in {"copy", "write"}
       /\ o < mod \/ (o = mod /\ type = "double" /\ Type(t) = "bool")
    \/ pc = "internal"
    \/ pc = "clear" /\ (type = "double" \/ Type(t) = "bool")

\* The commands accepted in time are written by the modules that have scanned,
\* and are in, or written from, the copy of the one that scans.
Written ==
    \A t \in External : accepted[t] # None =>
        /\ \A o \in Outputs : Scanned(o, t) => sent[o][t] = accepted[t]
        /\ pc = "write" /\ Type(t) = type =>
               \/ tags[t] = accepted[t]
               \/ tags[t] = None /\ sent[mod][t] = accepted[t]

\* updateInternalData has passed the map of tag t in this cycle.
Settled(t) ==
    \/ pc = "internal" /\ type = "double" /\ Type(t) = "bool"
    \/ pc = "clear" /\ (type = "double" \/ Type(t) = "bool")

Stored ==
    \A t \in Internal : accepted[t] # None /\ Settled(t) =>
        mInternalData[t] = Data(Type(t), accepted[t])

\* Variants keep the type of their point or tag while publications do.
Typed ==
    /\ ~illTyped => \A p \in Points : mExternalData[p].type = PointType[p]
    /\ \A t \in Internal : mInternalData[t].type = Type(t)
    /\ BadVariantOnlyFromProvider

IInv == TypeOK /\ ScanShape /\ CommandHeld /\ LogicYields /\ Written /\ Stored /\ Typed

-----------------------------------------------------------------------------
(* Facts about the operators.                                              *)

\* Every tag and point has one of the two types, and its values are values.
LEMMA TypeFacts ==
    /\ \A t : Type(t) \in Types
    /\ \A ty : Values(ty) \subseteq AllValues
    /\ 0 \in AllValues /\ 1 \in AllValues
    /\ \A ty \in Types, v \in AllValues : Data(ty, v) \in Variant
  BY DEF Type, Types, Values, AllValues, Data, Variant

\* The lines of the logic and the output modules are numbered from 1.
LEMMA DeviceFacts ==
    /\ NumOutputs \in Nat /\ Outputs = 1 .. NumOutputs
    /\ Len(Logic) \in Nat /\ DOMAIN Logic = 1 .. Len(Logic)
    /\ Logic # <<>> => 1 \in DOMAIN Logic
    /\ \A i \in DOMAIN Logic : Logic[i] \in Tags
    /\ \A m \in Published : m.point \in Points /\ m.data \in Variant
  BY DeviceAssumption DEF Outputs

\* mod stays among the output modules, or one past the last of them.
LEMMA ModFacts ==
    /\ 1 \in 1 .. NumOutputs + 1
    /\ \A o \in Outputs : o \in 1 .. NumOutputs + 1 /\ o + 1 \in 1 .. NumOutputs + 1
  BY DeviceFacts

\* The order of the output modules, with mod one past the last when all are done.
LEMMA ModOrder ==
    \A o \in Outputs, m \in 1 .. NumOutputs + 1 :
        /\ o < m => m > 1
        /\ m \notin Outputs => o < m
        /\ o < m + 1 => o < m \/ o = m
  BY DeviceFacts

\* scanLogic leaves a line for another line, or for the outputs.
LEMMA LineFacts ==
    ASSUME line \in DOMAIN Logic, NextLine
    PROVE  line' \in DOMAIN Logic /\ pc' \in {"logic", "copy"}
  BY DeviceFacts DEF NextLine

\* A command in progress names a tag and a value.
LEMMA CommandFacts ==
    ASSUME TypeOK, NEW s \in Servers, inserting[s] # NoCommand
    PROVE  inserting[s].tag \in Tags /\ inserting[s].val \in AllValues
  BY DEF TypeOK, Command

-----------------------------------------------------------------------------
\* The initial state satisfies the inductive invariant.
LEMMA InitIInv == Init => IInv
<1> SUFFICES ASSUME Init PROVE IInv
  OBVIOUS
<1> USE ConfigAssumption, DeviceAssumption, TypeFacts DEF Init, Nothing
<1>1. TypeOK
  <2>1. mExternalData \in [Points -> Variant]
    BY DEF DataInit, Types
  <2>2. DataTypeOK
    BY <2>1 DEF DataInit, DataTypeOK
  <2>3. sent \in [Outputs -> [Tags -> AllValues \union {None}]]
    OBVIOUS
  <2>4. mod \in 1 .. NumOutputs + 1
    OBVIOUS
  <2> QED
    BY <2>2, <2>3, <2>4 DEF TypeOK, Types
<1>2. ScanShape
  BY DEF ScanShape
<1>3. CommandHeld /\ LogicYields /\ Written /\ Stored
  BY DEF CommandHeld, LogicYields, Written, Stored, Internal
<1>4. Typed
  BY DEF Typed, DataInit, Data, BadVariantOnlyFromProvider
<1> QED
  BY <1>1, <1>2, <1>3, <1>4 DEF IInv

-----------------------------------------------------------------------------
\* Every step keeps the types and the shape of the scan.
LEMMA ShapeStep == TypeOK /\ ScanShape /\ [Next]_vars => TypeOK' /\ ScanShape'
<1> SUFFICES ASSUME TypeOK, ScanShape, [Next]_vars PROVE TypeOK' /\ ScanShape'
  OBVIOUS
<1> USE DEF TypeOK, DataTypeOK, dataVars, scanVars, history
<1>1. ASSUME NEW s \in Servers, BeginCommand(s) PROVE TypeOK' /\ ScanShape'
  <2>1. PICK t \in Tags, v \in AllValues :
            inserting' = [inserting EXCEPT ![s] = [tag |-> t, val |-> v]]
    BY <1>1, TypeFacts DEF BeginCommand
  <2>2. [tag |-> t, val |-> v] \in Command
    BY DEF Command
  <2> QED
    BY <1>1, <2>1, <2>2 DEF BeginCommand, ScanShape
<1>2. ASSUME NEW s \in Servers, EndCommand(s) PROVE TypeOK' /\ ScanShape'
  BY <1>2, CommandFacts DEF EndCommand, AddUpdatedTag, ScanShape
<1>3. ASSUME NEW t \in Tags, ServerRead(t) PROVE TypeOK' /\ ScanShape'
  BY <1>3 DEF ServerRead, Die, ScanShape
<1>4. ASSUME NEW m \in Published, Publish(m) PROVE TypeOK' /\ ScanShape'
  BY <1>4, DeviceFacts DEF Publish, SetDataByPoint, ScanShape
<1>5. ASSUME NEW t \in Tags, ScanInputs(t) PROVE TypeOK' /\ ScanShape'
  <2>1. CASE BadVariantAccess(t)
    BY <1>5, <2>1 DEF ScanInputs, Die, ScanShape
  <2>2. CASE ~BadVariantAccess(t)
    BY <1>5, <2>2, DeviceFacts DEF ScanInputs, ScanShape
  <2> QED
    BY <2>1, <2>2
<1>6. ASSUME NEW t \in Tags, WriteOutput(t) PROVE TypeOK' /\ ScanShape'
  <2>1. mExternalData' \in [Points -> Variant]
    BY <1>6, TypeFacts, ConfigAssumption DEF WriteOutput, SetDataByTag
  <2>2. sent' \in [Outputs -> [Tags -> AllValues \union {None}]]
    BY <1>6 DEF WriteOutput
  <2> QED
    BY <1>6, <2>1, <2>2 DEF WriteOutput, ScanShape
<1>7. CASE LogicTest
  <2>1. result' \in AllValues \union {None}
    BY <1>7, TypeFacts DEF LogicTest
  <2>2. line' \in DOMAIN Logic /\ pc' \in {"logic", "logicadd", "copy"}
    <3>1. line \in DOMAIN Logic
      BY <1>7 DEF LogicTest, ScanShape
    <3> QED
      BY <1>7, <3>1, LineFacts DEF LogicTest
  <2> QED
    BY <1>7, <2>1, <2>2 DEF LogicTest, ScanShape
<1>8. CASE LogicAdd
  <2>1. line' \in DOMAIN Logic /\ pc' \in {"logic", "copy"}
    <3>1. line \in DOMAIN Logic /\ NextLine
      BY <1>8 DEF LogicAdd, ScanShape
    <3> QED
      BY <3>1, LineFacts
  <2>2. mUpdatedTags' \in [Tags -> AllValues \union {None}]
    BY <1>8 DEF LogicAdd, AddUpdatedTag
  <2> QED
    BY <1>8, <2>1, <2>2 DEF LogicAdd, ScanShape
<1>9. CASE CopyUpdatedTags
  <2>1. CASE pc' = "write" /\ tags' = GetUpdatedTags(type)
    <3>1. UNCHANGED <<dataVars, device, inserting, unread, line, result, mod, type,
                      history>>
      BY <1>9, <2>1 DEF CopyUpdatedTags, Die
    <3>2. /\ tags' \in [Tags -> AllValues \union {None}]
          /\ \A t \in Tags : tags'[t] # None => Type(t) = type
      BY <2>1 DEF GetUpdatedTags
    <3> QED
      BY <1>9, <2>1, <3>1, <3>2 DEF CopyUpdatedTags, ScanShape
  <2>2. CASE Die("data race")
    BY <2>2 DEF Die, ScanShape
  <2> QED
    BY <1>9, <2>1, <2>2 DEF CopyUpdatedTags
<1>10. CASE NextOutput
  <2>1. mod' \in 1 .. NumOutputs + 1 /\ type' \in Types
    BY <1>10, ModFacts DEF NextOutput, ScanShape, Types
  <2>2. mod' \notin Outputs => type' = "bool"
    BY <1>10 DEF NextOutput, ScanShape
  <2>3. \A t \in Tags : tags'[t] = None
    BY <1>10 DEF NextOutput, Nothing
  <2> QED
    BY <1>10, <2>1, <2>2, <2>3 DEF NextOutput, ScanShape
<1>11. CASE EndOutputs
  BY <1>11 DEF EndOutputs, ScanShape
<1>12. CASE ScanInternal
  <2>1. mInternalData' \in [Internal -> Variant]
    BY <1>12, TypeFacts DEF ScanInternal, UpdateInternalData, IsUpdatedTag, Internal
  <2> QED
    BY <1>12, <2>1 DEF ScanInternal, Types, ScanShape
<1>13. CASE ScanClear
  <2>1. CASE Die("data race")
    BY <2>1 DEF Die, ScanShape
  <2>2. CASE ~Die("data race")
    <3>1. mUpdatedTags' \in [Tags -> AllValues \union {None}]
      BY <1>13, <2>2 DEF ScanClear, ClearUpdatedTags
    <3>2. sent' \in [Outputs -> [Tags -> AllValues \union {None}]]
      <4>1. sent' = [o \in Outputs |->
                       [t \in Tags |-> IF Type(t) = type THEN None ELSE sent[o][t]]]
        BY <1>13, <2>2 DEF ScanClear
      <4> QED
        BY <4>1
    <3>3. accepted' \in [Tags -> AllValues \union {None}]
      BY <1>13, <2>2 DEF ScanClear
    <3>4. /\ pc' \in {"clear", "sleep"} /\ type' = "bool"
          /\ UNCHANGED <<mExternalData, mInternalData, device, inserting, unread,
                         line, result, mod, tags, illTyped>>
      BY <1>13, <2>2 DEF ScanClear
    <3> QED
      BY <1>13, <3>1, <3>2, <3>3, <3>4 DEF ScanClear, ScanShape, Types
  <2> QED
    BY <2>1, <2>2
<1>14. CASE Sleep
  <2>1. pc' \in {"copy", "inputs"} /\ (pc' = "inputs" => Logic # <<>>)
    BY <1>14 DEF Sleep, StartScan
  <2>2. mod' \in 1 .. NumOutputs + 1 /\ mod' = 1 /\ type' = "bool"
    BY <1>14, ModFacts DEF Sleep, StartScan
  <2>3. unread' \subseteq Tags
    BY <1>14 DEF Sleep, StartScan
  <2> QED
    BY <1>14, <2>1, <2>2, <2>3 DEF Sleep, ScanShape, Types
<1>15. CASE UNCHANGED vars
  BY <1>15 DEF vars, ScanShape
<1> QED
  BY <1>1, <1>2, <1>3, <1>4, <1>5, <1>6, <1>7, <1>8, <1>9, <1>10, <1>11, <1>12,
     <1>13, <1>14, <1>15 DEF Next, ScanCycle, Dead

-----------------------------------------------------------------------------
\* Every step keeps what the map of updated tags holds of the commands accepted
\* in time: logic tests for a command before it adds its own update, and a
\* command that slips in between is not in time.
LEMMA HeldStep ==
    TypeOK /\ ScanShape /\ CommandHeld /\ LogicYields /\ [Next]_vars
        => CommandHeld' /\ LogicYields'
<1> SUFFICES ASSUME TypeOK, ScanShape, CommandHeld, LogicYields, [Next]_vars
             PROVE  CommandHeld' /\ LogicYields'
  OBVIOUS
<1> USE DEF CommandHeld, LogicYields, dataVars, scanVars, history
<1>1. ASSUME NEW s \in Servers, EndCommand(s) PROVE CommandHeld' /\ LogicYields'
  <2> DEFINE c == inserting[s]
  <2>1. c.tag \in Tags
    BY <1>1, CommandFacts DEF EndCommand
  <2>2. mUpdatedTags' = [mUpdatedTags EXCEPT ![c.tag] = c.val]
    BY <1>1 DEF EndCommand, AddUpdatedTag
  <2>3. PICK v \in {c.val, None} :
            /\ accepted' = [accepted EXCEPT ![c.tag] = v]
            /\ pc = "logicadd" /\ Logic[line] = c.tag => v = None
    BY <1>1 DEF EndCommand
  <2>4. UNCHANGED <<pc, line>>
    BY <1>1 DEF EndCommand
  <2>5. mUpdatedTags \in [Tags -> AllValues \union {None}]
        /\ accepted \in [Tags -> AllValues \union {None}]
    BY DEF TypeOK, DataTypeOK
  <2> HIDE DEF c
  <2>6. CommandHeld'
    BY <2>1, <2>2, <2>3, <2>5
  <2>7. LogicYields'
    BY <2>1, <2>3, <2>4, <2>5, DeviceFacts DEF ScanShape
  <2> QED
    BY <2>6, <2>7
<1>2. CASE LogicTest
  <2>1. Logic[line] \in Tags
    BY <1>2, DeviceFacts DEF LogicTest, ScanShape
  <2>2. pc' = "logicadd" => mUpdatedTags[Logic[line]] = None /\ line' = line
    BY <1>2 DEF LogicTest, NextLine, IsUpdatedTag
  <2> QED
    BY <1>2, <2>1, <2>2 DEF LogicTest
<1>3. CASE LogicAdd
  <2>1. Logic[line] \in Tags
    BY <1>3, DeviceFacts DEF LogicAdd, ScanShape
  <2>2. mUpdatedTags' = [mUpdatedTags EXCEPT ![Logic[line]] = result]
        /\ accepted' = accepted /\ accepted[Logic[line]] = None
    BY <1>3 DEF LogicAdd, AddUpdatedTag
  <2>3. pc' # "logicadd"
    BY <1>3 DEF LogicAdd, NextLine
  <2> QED
    BY <2>1, <2>2, <2>3 DEF TypeOK, DataTypeOK
<1>4. CASE ScanClear
  BY <1>4 DEF ScanClear, ClearUpdatedTags, Die
<1>5. ASSUME UNCHANGED <<mUpdatedTags, accepted>>, pc' = "logicadd" => UNCHANGED <<pc, line>>
      PROVE  CommandHeld' /\ LogicYields'
  BY <1>5
<1>6. ASSUME NEW s \in Servers, BeginCommand(s) PROVE CommandHeld' /\ LogicYields'
  BY <1>6, <1>5 DEF BeginCommand
<1>7. ASSUME NEW t \in Tags, ServerRead(t) \/ ScanInputs(t) \/ WriteOutput(t)
      PROVE  CommandHeld' /\ LogicYields'
  BY <1>7, <1>5 DEF ServerRead, ScanInputs, WriteOutput, Die
<1>8. ASSUME NEW m \in Published, Publish(m) PROVE CommandHeld' /\ LogicYields'
  BY <1>8, <1>5 DEF Publish
<1>9. CASE CopyUpdatedTags \/ NextOutput \/ EndOutputs \/ ScanInternal \/ Sleep
  BY <1>9, <1>5 DEF CopyUpdatedTags, NextOutput, EndOutputs, ScanInternal, Sleep,
                    StartScan, Die
<1>10. CASE UNCHANGED vars
  BY <1>10, <1>5 DEF vars
<1> QED
  BY <1>1, <1>2, <1>3, <1>4, <1>6, <1>7, <1>8, <1>9, <1>10 DEF Next, ScanCycle, Dead

\* Every step keeps the types of the variants, as long as publications do.
LEMMA TypedStep == TypeOK /\ ScanShape /\ Typed /\ [Next]_vars => Typed'
<1> SUFFICES ASSUME TypeOK, ScanShape, Typed, [Next]_vars PROVE Typed'
  OBVIOUS
<1> USE DEF Typed, BadVariantOnlyFromProvider, dataVars, scanVars, history
<1>1. ASSUME NEW t \in Tags, BadVariantAccess(t) PROVE illTyped
  BY <1>1, ConfigAssumption DEF BadVariantAccess, GetDataByTag, Internal
<1>2. ASSUME NEW t \in Tags, ServerRead(t) PROVE Typed'
  BY <1>2, <1>1 DEF ServerRead, Die
<1>3. ASSUME NEW t \in Tags, ScanInputs(t) PROVE Typed'
  BY <1>3, <1>1 DEF ScanInputs, Die
<1>4. ASSUME NEW m \in Published, Publish(m) PROVE Typed'
  <2>1. mExternalData' = [mExternalData EXCEPT ![m.point] = m.data]
        /\ illTyped' = (illTyped \/ m.data.type # PointType[m.point])
        /\ UNCHANGED <<mInternalData, device>>
    BY <1>4 DEF Publish, SetDataByPoint
  <2>2. m.point \in Points
    BY DeviceFacts
  <2> QED
    BY <2>1, <2>2 DEF TypeOK, DataTypeOK
<1>5. ASSUME NEW t \in Tags, WriteOutput(t) PROVE Typed'
  <2>1. UNCHANGED <<mInternalData, device, illTyped>>
    BY <1>5 DEF WriteOutput
  <2>2. CASE t \in External
    <3>1. mExternalData' = [mExternalData EXCEPT ![PointOf[t]] = Data(Type(t), tags[t])]
      BY <1>5, <2>2 DEF WriteOutput, SetDataByTag
    <3>2. PointOf[t] \in Points /\ PointType[PointOf[t]] = Type(t)
      BY <2>2, ConfigAssumption
    <3> QED
      BY <2>1, <3>1, <3>2 DEF TypeOK, DataTypeOK, Data
  <2>3. CASE t \notin External
    BY <1>5, <2>1, <2>3 DEF WriteOutput, SetDataByTag
  <2> QED
    BY <2>2, <2>3
<1>6. CASE ScanInternal
  BY <1>6 DEF ScanInternal, UpdateInternalData, Data
<1>7. ASSUME UNCHANGED <<mExternalData, mInternalData, illTyped>>,
             device' \in {device, "data race"}
      PROVE  Typed'
  BY <1>7
<1>8. ASSUME NEW s \in Servers, BeginCommand(s) \/ EndCommand(s) PROVE Typed'
  BY <1>8, <1>7 DEF BeginCommand, EndCommand
<1>9. CASE LogicTest \/ LogicAdd \/ CopyUpdatedTags \/ NextOutput \/ EndOutputs
           \/ ScanClear \/ Sleep
  BY <1>9, <1>7 DEF LogicTest, LogicAdd, CopyUpdatedTags, NextOutput, EndOutputs,
                    ScanClear, Sleep, Die
<1>10. CASE UNCHANGED vars
  BY <1>10, <1>7 DEF vars
<1> QED
  BY <1>2, <1>3, <1>4, <1>5, <1>6, <1>8, <1>9, <1>10 DEF Next, ScanCycle, Dead

-----------------------------------------------------------------------------
\* A command for a tag that the scan has not taken is owed nothing yet.
LEMMA UntakenFacts ==
    ASSUME TypeOK, NEW t \in Tags, ~Taken(t)
    PROVE  /\ t \in External => \A o \in Outputs : ~Scanned(o, t)
           /\ t \in External => ~(pc = "write" /\ Type(t) = type)
           /\ ~Settled(t)
<1>1. ASSUME NEW o \in Outputs, o < mod PROVE mod > 1
  BY <1>1, ModOrder DEF TypeOK
<1> QED
  BY <1>1 DEF Taken, Scanned, Settled, Types, TypeOK

\* Every step keeps the writes that the output modules have done.
LEMMA WrittenStep == IInv /\ [Next]_vars => Written'
<1> SUFFICES ASSUME IInv, [Next]_vars PROVE Written'
  OBVIOUS
<1>0. /\ TypeOK /\ ScanShape /\ CommandHeld /\ Written
      /\ External \subseteq Tags
  BY ConfigAssumption DEF IInv
<1> USE DEF dataVars, scanVars, history
<1>1. ASSUME UNCHANGED <<pc, mod, type, tags, sent, accepted>> PROVE Written'
  BY <1>0, <1>1 DEF Written, Scanned
<1>2. ASSUME pc' \in {"inputs", "logic", "logicadd", "sleep"} PROVE Written'
  BY <1>2 DEF Written, Scanned
<1>3. ASSUME pc' = "copy", mod' = 1, type' = "bool" PROVE Written'
  BY <1>3, DeviceFacts DEF Written, Scanned
<1>4. ASSUME NEW s \in Servers, EndCommand(s) PROVE Written'
  <2> DEFINE c == inserting[s]
  <2>1. c.tag \in Tags
    BY <1>0, <1>4, CommandFacts DEF EndCommand
  <2>2. PICK v \in {c.val, None} :
            /\ accepted' = [accepted EXCEPT ![c.tag] = v]
            /\ Taken(c.tag) => v = None
    BY <1>4 DEF EndCommand
  <2>3. UNCHANGED <<pc, mod, type, tags, sent>>
    BY <1>4 DEF EndCommand
  <2>4. accepted \in [Tags -> AllValues \union {None}]
    BY <1>0 DEF TypeOK
  <2> HIDE DEF c
  <2> SUFFICES ASSUME NEW t \in External, accepted'[t] # None
               PROVE  /\ \A o \in Outputs : Scanned(o, t)' => sent'[o][t] = accepted'[t]
                      /\ pc' = "write" /\ Type(t) = type' =>
                             \/ tags'[t] = accepted'[t]
                             \/ tags'[t] = None /\ sent'[mod'][t] = accepted'[t]
    BY DEF Written
  <2>5. CASE t = c.tag
    <3>1. ~Taken(t)
      BY <2>1, <2>2, <2>4, <2>5
    <3>2. \A o \in Outputs : ~Scanned(o, t)
      BY <3>1, <1>0, UntakenFacts
    <3>3. ~(pc = "write" /\ Type(t) = type)
      BY <3>1, <1>0, UntakenFacts
    <3> QED
      BY <2>3, <3>2, <3>3 DEF Scanned
  <2>6. CASE t # c.tag
    BY <1>0, <2>1, <2>2, <2>3, <2>4, <2>6 DEF Written, Scanned
  <2> QED
    BY <2>5, <2>6
<1>5. ASSUME NEW u \in Tags, WriteOutput(u) PROVE Written'
  <2>1. /\ pc = "write" /\ mod \in Outputs /\ Type(u) = type /\ tags[u] # None
        /\ UNCHANGED <<pc, mod, type, accepted>>
        /\ tags' = [tags EXCEPT ![u] = None]
        /\ sent' = IF u \in External THEN [sent EXCEPT ![mod][u] = tags[u]] ELSE sent
    BY <1>0, <1>5 DEF WriteOutput, ScanShape
  <2>2. sent \in [Outputs -> [Tags -> AllValues \union {None}]]
        /\ tags \in [Tags -> AllValues \union {None}]
        /\ mod \in 1 .. NumOutputs + 1
    BY <1>0 DEF TypeOK
  <2> SUFFICES ASSUME NEW t \in External, accepted[t] # None
               PROVE  /\ \A o \in Outputs : Scanned(o, t) => sent'[o][t] = accepted[t]
                      /\ pc = "write" /\ Type(t) = type =>
                             \/ tags'[t] = accepted[t]
                             \/ tags'[t] = None /\ sent'[mod][t] = accepted[t]
    BY <2>1 DEF Written, Scanned
  <2>3. CASE t = u
    <3>1. tags[t] = accepted[t]
      BY <1>0, <2>1, <2>3 DEF Written
    <3>2. \A o \in Outputs : Scanned(o, t) => o # mod
      BY <2>1, <2>2, <2>3, DeviceFacts DEF Scanned
    <3> QED
      BY <1>0, <2>1, <2>2, <2>3, <3>1, <3>2 DEF Written
  <2>4. CASE t # u
    BY <1>0, <2>1, <2>2, <2>4 DEF Written
  <2> QED
    BY <2>3, <2>4
<1>6. CASE CopyUpdatedTags
  <2>1. CASE Die("data race")
    BY <2>1, <1>1 DEF Die
  <2>2. CASE ~Die("data race")
    <3>1. /\ pc = "copy" /\ pc' = "write" /\ tags' = GetUpdatedTags(type)
          /\ UNCHANGED <<mod, type, sent, accepted>>
      BY <1>6, <2>2 DEF CopyUpdatedTags
    <3>2. \A t \in External : accepted[t] # None /\ Type(t) = type
                                => tags'[t] = accepted[t]
      BY <1>0, <3>1 DEF GetUpdatedTags, CommandHeld
    <3> QED
      BY <1>0, <3>1, <3>2 DEF Written, Scanned
  <2> QED
    BY <2>1, <2>2
<1>7. CASE NextOutput
  <2>1. /\ pc = "write" /\ pc' = "copy" /\ UNCHANGED <<sent, accepted>>
        /\ \A t \in Tags : tags[t] = None
        /\ type' = (IF type = "bool" THEN "double" ELSE "bool")
        /\ mod' = (IF type = "bool" THEN mod ELSE mod + 1)
        /\ mod \in Outputs
    BY <1>0, <1>7 DEF NextOutput, Nothing, ScanShape
  <2>2. \A t \in External : accepted[t] # None /\ Type(t) = type
                              => sent[mod][t] = accepted[t]
    BY <1>0, <2>1 DEF Written
  <2> SUFFICES ASSUME NEW t \in External, accepted[t] # None,
                      NEW o \in Outputs, Scanned(o, t)'
               PROVE  sent[o][t] = accepted[t]
    BY <2>1 DEF Written
  <2>3. CASE Scanned(o, t)
    BY <1>0, <2>3 DEF Written
  <2>4. CASE ~Scanned(o, t)
    <3>1. o = mod /\ Type(t) = type
      <4>1. mod \in 1 .. NumOutputs + 1 /\ type \in Types /\ Type(t) \in Types
        BY <1>0, TypeFacts DEF TypeOK
      <4>2. CASE type = "bool"
        BY <2>1, <2>4, <4>2 DEF Scanned
      <4>3. CASE type = "double"
        <5>1. o = mod
          BY <2>1, <2>4, <4>1, <4>3, ModOrder DEF Scanned
        <5> QED
          BY <5>1, <2>1, <2>4, <4>1, <4>3 DEF Scanned, Types
      <4> QED
        BY <4>1, <4>2, <4>3 DEF Types
    <3> QED
      BY <2>2, <3>1
  <2> QED
    BY <2>3, <2>4
<1>8. CASE EndOutputs
  <2>1. \A o \in Outputs : o < mod
    BY <1>0, <1>8, ModOrder DEF EndOutputs, TypeOK
  <2> QED
    BY <1>0, <1>8, <2>1 DEF EndOutputs, Written, Scanned
<1>9. CASE ScanInternal
  BY <1>0, <1>9 DEF ScanInternal, Written, Scanned
<1>10. CASE ScanClear
  <2>1. CASE Die("data race")
    BY <2>1, <1>1 DEF Die
  <2>2. CASE ~Die("data race")
    <3>1. /\ pc = "clear" /\ type' = "bool"
          /\ pc' = (IF type = "double" THEN "clear" ELSE "sleep")
          /\ accepted' = [t \in Tags |-> IF Type(t) = type THEN None ELSE accepted[t]]
          /\ sent' = [o \in Outputs |->
                        [t \in Tags |-> IF Type(t) = type THEN None ELSE sent[o][t]]]
      BY <1>10, <2>2 DEF ScanClear
    <3> QED
      BY <1>0, <3>1 DEF Written, Scanned
  <2> QED
    BY <2>1, <2>2
<1>11. CASE LogicTest \/ LogicAdd
  <2>1. pc' \in {"logic", "logicadd"} \/ (pc' = "copy" /\ mod' = 1 /\ type' = "bool")
    BY <1>0, <1>11 DEF LogicTest, LogicAdd, NextLine, ScanShape
  <2> QED
    BY <2>1, <1>2, <1>3
<1>12. CASE Sleep
  BY <1>12, <1>2, <1>3 DEF Sleep, StartScan
<1>13. ASSUME NEW t \in Tags, ScanInputs(t) \/ ServerRead(t) PROVE Written'
  BY <1>13, <1>1, <1>2 DEF ScanInputs, ServerRead, Die
<1>14. ASSUME NEW s \in Servers, BeginCommand(s) PROVE Written'
  BY <1>14, <1>1 DEF BeginCommand
<1>15. ASSUME NEW m \in Published, Publish(m) PROVE Written'
  BY <1>15, <1>1 DEF Publish
<1>16. CASE UNCHANGED vars
  BY <1>16, <1>1 DEF vars
<1> QED
  BY <1>4, <1>5, <1>6, <1>7, <1>8, <1>9, <1>10, <1>11, <1>12, <1>13, <1>14, <1>15,
     <1>16 DEF Next, ScanCycle, Dead

\* Every step keeps what updateInternalData has stored.
LEMMA StoredStep == IInv /\ [Next]_vars => Stored'
<1> SUFFICES ASSUME IInv, [Next]_vars PROVE Stored'
  OBVIOUS
<1>0. TypeOK /\ ScanShape /\ CommandHeld /\ Stored /\ Internal \subseteq Tags
  BY DEF IInv, Internal
<1> USE DEF dataVars, scanVars, history
<1>1. ASSUME UNCHANGED <<mInternalData, pc, type, accepted>> PROVE Stored'
  BY <1>0, <1>1 DEF Stored, Settled
<1>2. ASSUME \/ pc' \in {"inputs", "logic", "logicadd", "copy", "write", "sleep"}
             \/ pc' = "internal" /\ type' = "bool"
      PROVE  Stored'
  BY <1>2 DEF Stored, Settled
<1>3. ASSUME NEW s \in Servers, EndCommand(s) PROVE Stored'
  <2> DEFINE c == inserting[s]
  <2>1. c.tag \in Tags
    BY <1>0, <1>3, CommandFacts DEF EndCommand
  <2>2. PICK v \in {c.val, None} :
            /\ accepted' = [accepted EXCEPT ![c.tag] = v]
            /\ Taken(c.tag) => v = None
    BY <1>3 DEF EndCommand
  <2>3. UNCHANGED <<pc, type, mInternalData>>
    BY <1>3 DEF EndCommand
  <2>4. accepted \in [Tags -> AllValues \union {None}]
    BY <1>0 DEF TypeOK
  <2>5. ~Taken(c.tag) => ~Settled(c.tag)
    BY <1>0, <2>1, UntakenFacts
  <2> HIDE DEF c
  <2> QED
    BY <1>0, <2>1, <2>2, <2>3, <2>4, <2>5 DEF Stored, Settled
<1>4. CASE ScanInternal
  <2>1. /\ pc = "internal" /\ type' = "double" /\ UNCHANGED accepted
        /\ pc' = (IF type = "bool" THEN "internal" ELSE "clear")
        /\ mInternalData' =
              [t \in Internal |-> IF Type(t) = type /\ mUpdatedTags[t] # None
                                  THEN Data(type, mUpdatedTags[t])
                                  ELSE mInternalData[t]]
    BY <1>4 DEF ScanInternal, UpdateInternalData, IsUpdatedTag
  <2> SUFFICES ASSUME NEW t \in Internal, accepted[t] # None, Settled(t)'
               PROVE  mInternalData'[t] = Data(Type(t), accepted[t])
    BY <2>1 DEF Stored
  <2>2. mUpdatedTags[t] = accepted[t]
    BY <1>0 DEF CommandHeld
  <2>3. CASE Type(t) = type
    BY <2>1, <2>2, <2>3
  <2>4. CASE Type(t) # type
    BY <1>0, <2>1, <2>4, TypeFacts DEF Stored, Settled, TypeOK, Types
  <2> QED
    BY <2>3, <2>4
<1>5. CASE ScanClear
  <2>1. CASE Die("data race")
    BY <2>1, <1>1 DEF Die
  <2>2. CASE ~Die("data race")
    <3>1. /\ pc = "clear" /\ type' = "bool" /\ UNCHANGED mInternalData
          /\ pc' = (IF type = "double" THEN "clear" ELSE "sleep")
          /\ accepted' = [t \in Tags |-> IF Type(t) = type THEN None ELSE accepted[t]]
      BY <1>5, <2>2 DEF ScanClear
    <3> QED
      BY <1>0, <3>1 DEF Stored, Settled
  <2> QED
    BY <2>1, <2>2
<1>6. CASE EndOutputs
  BY <1>0, <1>6, <1>2 DEF EndOutputs, ScanShape
<1>7. CASE LogicTest \/ LogicAdd \/ NextOutput \/ Sleep
  BY <1>7, <1>2 DEF LogicTest, LogicAdd, NextLine, NextOutput, Sleep, StartScan
<1>8. CASE CopyUpdatedTags
  BY <1>8, <1>1, <1>2 DEF CopyUpdatedTags, Die
<1>9. ASSUME NEW t \in Tags, ScanInputs(t) \/ ServerRead(t) \/ WriteOutput(t)
      PROVE  Stored'
  BY <1>9, <1>1, <1>2 DEF ScanInputs, ServerRead, WriteOutput, Die
<1>10. ASSUME NEW s \in Servers, BeginCommand(s) PROVE Stored'
  BY <1>10, <1>1 DEF BeginCommand
<1>11. ASSUME NEW m \in Published, Publish(m) PROVE Stored'
  BY <1>11, <1>1 DEF Publish
<1>12. CASE UNCHANGED vars
  BY <1>12, <1>1 DEF vars
<1> QED
  BY <1>3, <1>4, <1>5, <1>6, <1>7, <1>8, <1>9, <1>10, <1>11, <1>12
     DEF Next, ScanCycle, Dead

-----------------------------------------------------------------------------
\* The inductive invariant holds in every reachable state.
THEOREM InductiveInvariant == Spec => []IInv
<1>1. IInv /\ [Next]_vars => IInv'
  BY ShapeStep, HeldStep, TypedStep, WrittenStep, StoredStep DEF IInv
<1> QED
  BY InitIInv, <1>1, PTL DEF Spec

\* Every variable keeps its type, and the scan its bounds on output modules and
\* logic lines (FieldDevice::scanCycle, processOutputs).
THEOREM TypeCorrect == Spec => []TypeOK
<1>1. IInv => TypeOK
  BY DEF IInv
<1> QED
  BY InductiveInvariant, <1>1, PTL

\* A command accepted before the scan takes its tag, and not between logic's test
\* and update of it, is never overwritten or dropped in the map of updated tags
\* before the map is cleared (DataManager::addUpdated...Tag, scanLogic).
THEOREM CommandsAreHeld == Spec => []CommandHeld
<1>1. IInv => CommandHeld
  BY DEF IInv
<1> QED
  BY InductiveInvariant, <1>1, PTL

\* ... and by the time it is cleared, every output module has written it to its
\* provider, or it is stored in the internal data (FieldDevice::processOutputs).
THEOREM CommandsAreApplied == Spec => []AppliedBeforeCleared
<1>1. IInv => AppliedBeforeCleared
  <2> SUFFICES ASSUME IInv, NEW t \in Tags, AboutToClear(t), accepted[t] # None
               PROVE  Applied(t, accepted[t])
    BY DEF AppliedBeforeCleared
  <2>1. pc = "clear" /\ (type = "double" \/ Type(t) = "bool")
    BY DEF IInv, TypeOK, Types, AboutToClear
  <2>2. CASE t \in External
    BY <2>1, <2>2 DEF IInv, Written, Scanned, Applied
  <2>3. CASE t \notin External
    BY <2>1, <2>3 DEF IInv, Stored, Settled, Applied, Internal
  <2> QED
    BY <2>2, <2>3
<1> QED
  BY InductiveInvariant, <1>1, PTL

\* No order of commands, logic and outputs makes a read throw bad_variant_access:
\* only a publication whose text is of another type than its point does
\* (DataStore::getData, InputModule::subscriptionHandler).
THEOREM VariantsAreSafe == Spec => []BadVariantOnlyFromProvider
<1>1. IInv => BadVariantOnlyFromProvider
  BY DEF IInv, Typed
<1> QED
  BY InductiveInvariant, <1>1, PTL
-----------------------------------------------------------------------------
(* An output module writes a tag at most once in a scan.                   *)

\* Output module o has still to scan the map of tag t, in this cycle or the next.
Ahead(o, t) ==
    \/ pc \in {"inputs", "logic", "logicadd", "sleep"}
    \/ /\ pc \in {"copy", "write"}
       /\ \/ o > mod
          \/ /\ o = mod
             /\ \/ type = "bool" /\ Type(t) = "double"
                \/ pc = "copy" /\ Type(t) = type
    \/ pc = "clear" /\ type = "bool" /\ Type(t) = "double"

\* What a module has still to write in a cycle it has not written in that cycle.
Unsent ==
    \A t \in Tags, o \in Outputs :
        Ahead(o, t) \/ (o = mod /\ tags[t] # None) => sent[o][t] = None

\* Every step keeps the writes of a cycle apart from those of the last.
LEMMA UnsentStep == IInv /\ Unsent /\ [Next]_vars => Unsent'
<1> SUFFICES ASSUME IInv, Unsent, [Next]_vars PROVE Unsent'
  OBVIOUS
<1>0. TypeOK /\ ScanShape
  BY DEF IInv
<1> USE DEF dataVars, scanVars, history
<1>1. ASSUME UNCHANGED <<pc, mod, type, tags, sent>> PROVE Unsent'
  BY <1>1 DEF Unsent, Ahead
<1>2. ASSUME pc \in {"inputs", "logic", "logicadd", "sleep"}, UNCHANGED sent PROVE Unsent'
  BY <1>2 DEF Unsent, Ahead
<1>3. ASSUME pc' = "internal", UNCHANGED <<sent, tags>>, pc # "write" PROVE Unsent'
  BY <1>0, <1>3 DEF Unsent, Ahead, ScanShape
<1>4. ASSUME NEW u \in Tags, WriteOutput(u) PROVE Unsent'
  <2>1. /\ pc = "write" /\ mod \in Outputs /\ Type(u) = type
        /\ UNCHANGED <<pc, mod, type>>
        /\ tags' = [tags EXCEPT ![u] = None]
        /\ sent' = IF u \in External THEN [sent EXCEPT ![mod][u] = tags[u]] ELSE sent
    BY <1>0, <1>4 DEF WriteOutput, ScanShape
  <2>2. sent \in [Outputs -> [Tags -> AllValues \union {None}]]
        /\ tags \in [Tags -> AllValues \union {None}]
        /\ mod \in 1 .. NumOutputs + 1
    BY <1>0 DEF TypeOK
  <2> SUFFICES ASSUME NEW t \in Tags, NEW o \in Outputs,
                      Ahead(o, t) \/ (o = mod /\ tags'[t] # None)
               PROVE  sent'[o][t] = None
    BY <2>1 DEF Unsent, Ahead
  <2>3. ~(o = mod /\ t = u)
    BY <2>1, <2>2, DeviceFacts DEF Ahead
  <2>4. sent'[o][t] = sent[o][t]
    BY <2>1, <2>2, <2>3
  <2>5. Ahead(o, t) \/ (o = mod /\ tags[t] # None)
    BY <2>1, <2>2
  <2> QED
    BY <2>4, <2>5 DEF Unsent
<1>5. CASE CopyUpdatedTags
  <2>1. CASE Die("data race")
    BY <2>1, <1>1 DEF Die
  <2>2. CASE ~Die("data race")
    <3>1. /\ pc = "copy" /\ pc' = "write" /\ tags' = GetUpdatedTags(type)
          /\ UNCHANGED <<mod, type, sent>>
      BY <1>5, <2>2 DEF CopyUpdatedTags
    <3>2. \A t \in Tags : tags'[t] # None => Type(t) = type
      BY <3>1 DEF GetUpdatedTags
    <3> QED
      BY <3>1, <3>2 DEF Unsent, Ahead
  <2> QED
    BY <2>1, <2>2
<1>6. CASE NextOutput
  <2>1. /\ pc = "write" /\ pc' = "copy" /\ UNCHANGED <<sent, tags>>
        /\ \A t \in Tags : tags[t] = None
        /\ type' = (IF type = "bool" THEN "double" ELSE "bool")
        /\ mod' = (IF type = "bool" THEN mod ELSE mod + 1)
    BY <1>6 DEF NextOutput, Nothing
  <2>2. mod \in Nat /\ \A o \in Outputs : o \in Nat /\ (o >= mod + 1 => o > mod)
    <3>1. mod \in 1 .. NumOutputs + 1
      BY <1>0 DEF TypeOK
    <3> QED
      BY <3>1, DeviceFacts
  <2>3. ASSUME NEW t \in Tags, NEW o \in Outputs, Ahead(o, t)' PROVE Ahead(o, t)
    <3>1. CASE type = "bool"
      BY <2>1, <2>3, <3>1 DEF Ahead
    <3>2. CASE type # "bool"
      <4>1. o >= mod + 1
        BY <2>1, <2>2, <2>3, <3>2, DeviceFacts DEF Ahead
      <4> QED
        BY <2>1, <2>2, <4>1 DEF Ahead
    <3> QED
      BY <3>1, <3>2
  <2> QED
    BY <2>1, <2>3 DEF Unsent
<1>7. CASE ScanClear
  <2>1. CASE Die("data race")
    BY <2>1, <1>1 DEF Die
  <2>2. CASE ~Die("data race")
    <3>1. /\ pc = "clear" /\ type' = "bool" /\ UNCHANGED <<mod, tags>>
          /\ pc' = (IF type = "double" THEN "clear" ELSE "sleep")
          /\ sent' = [o \in Outputs |->
                        [t \in Tags |-> IF Type(t) = type THEN None ELSE sent[o][t]]]
      BY <1>7, <2>2 DEF ScanClear
    <3>2. \A t \in Tags : tags'[t] = None
      BY <1>0, <3>1 DEF ScanShape
    <3> SUFFICES ASSUME NEW t \in Tags, NEW o \in Outputs, Ahead(o, t)'
                 PROVE  sent'[o][t] = None
      BY <3>2 DEF Unsent
    <3>3. CASE Type(t) = type
      BY <3>1, <3>3
    <3>4. CASE Type(t) # type
      <4>1. type = "bool" /\ Type(t) = "double"
        BY <1>0, <3>1, <3>4, TypeFacts DEF TypeOK, Types, Ahead
      <4> QED
        BY <3>1, <4>1 DEF Unsent, Ahead
    <3> QED
      BY <3>3, <3>4
  <2> QED
    BY <2>1, <2>2
<1>8. CASE EndOutputs
  BY <1>8, <1>3 DEF EndOutputs
<1>9. CASE ScanInternal
  <2>1. /\ pc = "internal" /\ pc' \in {"internal", "clear"} /\ type' = "double"
        /\ UNCHANGED <<sent, tags>>
    BY <1>9 DEF ScanInternal
  <2> QED
    BY <1>0, <2>1 DEF Unsent, Ahead, ScanShape
<1>10. CASE LogicTest \/ LogicAdd \/ Sleep
  BY <1>10, <1>2 DEF LogicTest, LogicAdd, Sleep
<1>11. ASSUME NEW t \in Tags, ScanInputs(t) \/ ServerRead(t) PROVE Unsent'
  BY <1>11, <1>1, <1>2 DEF ScanInputs, ServerRead, Die
<1>12. ASSUME NEW s \in Servers, BeginCommand(s) \/ EndCommand(s) PROVE Unsent'
  BY <1>12, <1>1 DEF BeginCommand, EndCommand
<1>13. ASSUME NEW m \in Published, Publish(m) PROVE Unsent'
  BY <1>13, <1>1 DEF Publish
<1>14. CASE UNCHANGED vars
  BY <1>14, <1>1 DEF vars
<1> QED
  BY <1>4, <1>5, <1>6, <1>7, <1>8, <1>9, <1>10, <1>11, <1>12, <1>13, <1>14
     DEF Next, ScanCycle, Dead

\* scanOutputs writes each updated tag at most once per output module and cycle:
\* a tag in the copy, or in a map still to be copied, has not been written since
\* the map was last cleared (OutputModule::scanOutputs, clearUpdatedTags).
THEOREM WrittenOncePerScan == Spec => []Unsent
<1>1. Init => Unsent
  BY DEF Init, Unsent, Nothing
<1> QED
  BY InductiveInvariant, UnsentStep, <1>1, PTL DEF Spec

-----------------------------------------------------------------------------
(* A scan ends.                                                            *)

\* Every step that moves the scan thread moves it forward.
LEMMA MovesOnStep ==
    ASSUME TypeOK, ScanShape, [Next]_vars
    PROVE  UNCHANGED scanVars \/ pc = "sleep" \/ Phase' > Phase \/ (Phase' = Phase /\ Further)
<1> DEFINE Goal == \/ UNCHANGED scanVars \/ pc = "sleep" \/ Phase' > Phase
                   \/ Phase' = Phase /\ Further
<1> SUFFICES Goal
  OBVIOUS
<1> HIDE DEF Goal
<1> USE DEF scanVars
<1>0. /\ pc = "inputs" => Phase = 1
      /\ pc \in {"logic", "logicadd"} => Phase = 2
      /\ pc \in {"copy", "write"} => Phase = 3
      /\ pc = "internal" => Phase = 4
      /\ pc = "clear" => Phase = 5
  BY DEF Phase
<1>1. /\ pc' = "inputs" => Phase' = 1
      /\ pc' \in {"logic", "logicadd"} => Phase' = 2
      /\ pc' \in {"copy", "write"} => Phase' = 3
      /\ pc' = "internal" => Phase' = 4
      /\ pc' = "clear" => Phase' = 5
      /\ pc' = "sleep" => Phase' = 6
  BY DEF Phase
<1>2. ASSUME UNCHANGED scanVars PROVE Goal
  BY <1>2 DEF Goal
<1>3. ASSUME NEW s \in Servers, BeginCommand(s) \/ EndCommand(s) PROVE Goal
  BY <1>2, <1>3 DEF BeginCommand, EndCommand
<1>4. ASSUME NEW t \in Tags, ServerRead(t) PROVE Goal
  BY <1>2, <1>4 DEF ServerRead, Die
<1>5. ASSUME NEW m \in Published, Publish(m) PROVE Goal
  BY <1>2, <1>5 DEF Publish
<1>6. ASSUME NEW t \in Tags, ScanInputs(t) PROVE Goal
  <2>1. CASE BadVariantAccess(t)
    BY <1>2, <1>6, <2>1 DEF ScanInputs, Die
  <2>2. CASE ~BadVariantAccess(t)
    <3>1. /\ pc = "inputs" /\ pc' \in {"inputs", "logic"}
          /\ unread' \subseteq unread /\ unread' # unread
      BY <1>6, <2>2 DEF ScanInputs
    <3> QED
      BY <1>0, <1>1, <3>1 DEF Goal, Further
  <2> QED
    BY <2>1, <2>2
<1>7. ASSUME line \in DOMAIN Logic, NextLine, pc \in {"logic", "logicadd"} PROVE Goal
  <2>1. (pc' = "logic" /\ line' > line) \/ pc' = "copy"
    BY <1>7, DeviceFacts DEF NextLine
  <2> QED
    BY <1>0, <1>1, <1>7, <2>1 DEF Goal, Further
<1>8. CASE LogicTest
  <2>1. pc = "logic" /\ line \in DOMAIN Logic
    BY <1>8 DEF LogicTest, ScanShape
  <2>2. NextLine \/ (pc' = "logicadd" /\ line' = line)
    BY <1>8 DEF LogicTest
  <2> QED
    BY <1>0, <1>1, <1>7, <2>1, <2>2 DEF Goal, Further
<1>9. CASE LogicAdd
  BY <1>7, <1>9 DEF LogicAdd, ScanShape
<1>10. CASE CopyUpdatedTags
  <2>1. CASE Die("data race")
    BY <1>2, <2>1 DEF Die
  <2>2. CASE ~Die("data race")
    <3>1. pc = "copy" /\ pc' = "write" /\ UNCHANGED <<mod, type>>
      BY <1>10, <2>2 DEF CopyUpdatedTags
    <3> QED
      BY <1>0, <1>1, <3>1 DEF Goal, Further
  <2> QED
    BY <2>1, <2>2
<1>11. ASSUME NEW t \in Tags, WriteOutput(t) PROVE Goal
  <2>1. /\ pc = "write" /\ pc' = "write" /\ UNCHANGED <<pc, mod, type>>
        /\ tags' = [tags EXCEPT ![t] = None] /\ tags[t] # None
    BY <1>11 DEF WriteOutput
  <2>2. Unwritten' \subseteq Unwritten /\ Unwritten' # Unwritten
    <3>1. /\ \A u \in Tags : tags'[u] # None => tags[u] # None
          /\ tags'[t] = None
      BY <2>1 DEF TypeOK
    <3> QED
      BY <2>1, <3>1 DEF Unwritten
  <2> QED
    BY <1>0, <1>1, <2>1, <2>2 DEF Goal, Further
<1>12. CASE NextOutput
  <2>1. mod \in Nat
    <3>1. mod \in 1 .. NumOutputs + 1
      BY DEF TypeOK
    <3> QED
      BY <3>1, DeviceFacts
  <2>2. /\ pc = "write" /\ pc' = "copy"
        /\ mod' > mod \/ (mod' = mod /\ type = "bool" /\ type' = "double")
    BY <1>12, <2>1 DEF NextOutput
  <2> QED
    BY <1>0, <1>1, <2>2 DEF Goal, Further
<1>13. CASE EndOutputs
  BY <1>0, <1>1, <1>13 DEF EndOutputs, Goal
<1>14. CASE ScanInternal
  <2>1. /\ pc = "internal" /\ type' = "double"
        /\ (pc' = "internal" /\ type = "bool") \/ pc' = "clear"
    BY <1>14 DEF ScanInternal
  <2> QED
    BY <1>0, <1>1, <2>1 DEF Goal, Further
<1>15. CASE ScanClear
  <2>1. CASE Die("data race")
    BY <1>2, <2>1 DEF Die
  <2>2. CASE ~Die("data race")
    <3>1. /\ pc = "clear" /\ type' = "bool"
          /\ (pc' = "clear" /\ type = "double") \/ pc' = "sleep"
      BY <1>15, <2>2 DEF ScanClear
    <3> QED
      BY <1>0, <1>1, <3>1 DEF Goal, Further
  <2> QED
    BY <2>1, <2>2
<1>16. CASE Sleep
  BY <1>16 DEF Sleep, Goal
<1>17. CASE UNCHANGED vars
  BY <1>2, <1>17 DEF vars
<1> QED
  BY <1>3, <1>4, <1>5, <1>6, <1>8, <1>9, <1>10, <1>11, <1>12, <1>13, <1>14, <1>15, <1>16,
     <1>17 DEF Next, ScanCycle, Dead

\* FieldDevice::scanCycle cannot go round in circles: with the bounds of TypeOK on
\* lines and output modules, and finitely many tags, a scan that keeps taking
\* steps reaches its sleep, whatever servers and publications do meanwhile.
THEOREM ScansEnd == Spec => ScanMovesOn
<1>1. IInv /\ [Next]_vars
        => UNCHANGED scanVars \/ pc = "sleep" \/ Phase' > Phase \/ (Phase' = Phase /\ Further)
  BY MovesOnStep DEF IInv
<1> QED
  BY <1>1, InductiveInvariant, PTL DEF Spec, ScanMovesOn
=============================================================================
