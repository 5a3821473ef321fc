----------------------------- MODULE FieldDevice -----------------------------
(***************************************************************************)
(* A running field device (FieldDevice.cpp): the scan thread, the threads  *)
(* of the protocol servers that accept commands, and the subscriber        *)
(* threads of the input modules, all over one DataManager.                 *)
(*                                                                         *)
(* The scan thread loops through scanInputs, scanLogic, the scanOutputs of *)
(* every output module, updateInternalData, clearUpdatedTags and a sleep.  *)
(* Its steps are the accesses it makes to the shared data; a server thread *)
(* holds a mutex between two steps, so that an access the mutex does not   *)
(* guard can fall in between.                                              *)
(*                                                                         *)
(* What a logic line computes, and the delay it may wait, is in module     *)
(* LogicModule: here a line may compute any value of its tag's type, and   *)
(* may or may not be held back.                                            *)
(***************************************************************************)
EXTENDS DataManager, Sequences

CONSTANTS
    Servers,       \* the protocol server threads
    Logic,         \* the left-hand tag of each logic line, <<>> without logic
    NumOutputs,    \* the number of output modules
    Published      \* [point : Points, data : Variant]: what providers publish

Outputs == 1 .. NumOutputs

ASSUME DeviceAssumption ==
    /\ Logic \in Seq(Tags)
    /\ Tags # {}
    /\ NumOutputs \in Nat
    /\ Published \subseteq [point : Points, data : Variant]

\* A command a protocol server has accepted for a tag.
Command == [tag : Tags, val : AllValues]

NoCommand == [tag |-> None, val |-> None]

-----------------------------------------------------------------------------
VARIABLES
    device,      \* "up", or why the process died
    inserting,   \* per server, the command it is inserting, holding its mutex
    pc,          \* where the scan thread is
    unread,      \* the tags scanInputs has still to read
    line,        \* the logic line scanLogic is at
    result,      \* what that line computed, about to be added
    mod,         \* the output module that scans
    type,        \* the map in use: "bool" before "double", but to clear
    tags,        \* scanOutputs' copy of that map, less what it has written
    (* History, read by no action's guard: *)
    sent,        \* per output module, what it wrote to its provider this cycle
    accepted,    \* per tag, the last command of this cycle that came in time
    illTyped     \* a provider has published a value of the wrong type

scanVars == <<pc, unread, line, result, mod, type, tags>>

history == <<sent, accepted, illTyped>>

vars == <<dataVars, device, inserting, scanVars, history>>

-----------------------------------------------------------------------------
Alive == device = "up"

Nothing == [t \in Tags |-> None]

Held(mutex) ==
    \E s \in Servers : inserting[s] # NoCommand /\ Mutex(Type(inserting[s].tag)) = mutex

\* A server is inside an insertion into the map of this type.
Inserting(ty) ==
    \E s \in Servers : inserting[s] # NoCommand /\ Type(inserting[s].tag) = ty

\* Has the scan already taken what it will apply of this tag before it clears
\* the tag's map?  An external tag is taken by the first output module's copy.
Taken(t) ==
    \/ /\ pc \in {"copy", "write"} /\ t \in External
       /\ \/ mod > 1
          \/ type = "double" /\ Type(t) = "bool"
          \/ pc = "write" /\ type = Type(t)
    \/ /\ pc = "internal"
       /\ \/ t \in External
          \/ type = "double" /\ Type(t) = "bool"
    \/ /\ pc = "clear"
       /\ type = "double" \/ Type(t) = "bool"

\* A scan begins with the logic module's inputs, if there is a logic module.
StartScan ==
    /\ pc' = IF Logic = <<>> THEN "copy" ELSE "inputs"
    /\ unread' = IF Logic = <<>> THEN {} ELSE Tags
    /\ mod' = 1
    /\ type' = "bool"

Init ==
    /\ DataInit
    /\ device = "up"
    /\ inserting = [s \in Servers |-> NoCommand]
    /\ pc = IF Logic = <<>> THEN "copy" ELSE "inputs"
    /\ unread = IF Logic = <<>> THEN {} ELSE Tags
    /\ mod = 1
    /\ type = "bool"
    /\ line = 1
    /\ result = None
    /\ tags = Nothing
    /\ sent = [o \in Outputs |-> Nothing]
    /\ accepted = Nothing
    /\ illTyped = FALSE

-----------------------------------------------------------------------------
(* The protocol servers and the input modules.                             *)

\* An exception that leaves a thread, or undefined behaviour, ends the
\* process.
Die(why) ==
    /\ device' = why
    /\ UNCHANGED <<dataVars, inserting, scanVars, history>>

\* A server's write handler enters addUpdatedBinaryTag or addUpdatedAnalogTag.
BeginCommand(s) ==
    /\ Alive
    /\ inserting[s] = NoCommand
    /\ \E t \in Tags : \E v \in Values(Type(t)) :
          /\ ~Held(Mutex(Type(t)))
          /\ inserting' = [inserting EXCEPT ![s] = [tag |-> t, val |-> v]]
    /\ UNCHANGED <<dataVars, device, scanVars, history>>

\* It leaves it, and acknowledges the command to the protocol client.  The
\* command is in time unless the scan has already taken this tag, or logic is
\* between its test of the tag and its own update.
EndCommand(s) ==
    LET c == inserting[s]
        inTime == ~Taken(c.tag) /\ ~(pc = "logicadd" /\ Logic[line] = c.tag)
    IN  /\ Alive
        /\ c # NoCommand
        /\ AddUpdatedTag(c.tag, c.val)
        /\ inserting' = [inserting EXCEPT ![s] = NoCommand]
        /\ accepted' = [accepted EXCEPT ![c.tag] = IF inTime THEN c.val ELSE None]
        /\ UNCHANGED <<mExternalData, mInternalData, device, scanVars, sent, illTyped>>

\* A server reads a tag to answer a client, or to report it unasked: no server
\* catches bad_variant_access either.
ServerRead(t) == Alive /\ BadVariantAccess(t) /\ Die("bad_variant_access")

\* InputModule::subscriptionHandler, for one point of a publication: the text
\* decides the type ("true" and "false" are bool, a number is double), whatever
\* the type of the point.
Publish(m) ==
    /\ Alive
    /\ SetDataByPoint(m.point, m.data)
    /\ illTyped' = (illTyped \/ m.data.type # PointType[m.point])
    /\ UNCHANGED <<mInternalData, mUpdatedTags, device, inserting, scanVars,
                   sent, accepted>>

-----------------------------------------------------------------------------
(* The scan thread.                                                        *)

\* LogicModule::scanInputs reads one tag.  Nothing catches bad_variant_access.
ScanInputs(t) ==
    /\ Alive /\ pc = "inputs"
    /\ t \in unread
    /\ IF BadVariantAccess(t)
       THEN Die("bad_variant_access")
       ELSE /\ unread' = unread \ {t}
            /\ pc' = IF unread' = {} THEN "logic" ELSE "inputs"
            /\ line' = 1
            /\ UNCHANGED <<dataVars, device, inserting, result, mod, type, tags, history>>

\* Defect: one line too many.
NextLineOffByOne ==
    /\ line' = IF line <= Len(Logic) THEN line + 1 ELSE 1
    /\ pc' = IF line < Len(Logic) THEN "logic" ELSE "copy"

\* scanLogic goes on to the next line, or to the outputs.
NextLine ==
    /\ line' = IF line < Len(Logic) THEN line + 1 ELSE 1
    /\ pc' = IF line < Len(Logic) THEN "logic" ELSE "copy"

\* Defect: a tag that is updated already is not skipped.
LogicTestUpdatedToo ==
    LET t == Logic[line]
    IN  /\ Alive /\ pc = "logic"
        /\ \/ /\ ~Held(Mutex(Type(t)))
              /\ ~BadVariantAccess(t)
              /\ result' \in Values(Type(t)) \ {GetDataByTag(t).val}
              /\ pc' = "logicadd"
              /\ UNCHANGED line
           \/ NextLine /\ UNCHANGED result
        /\ UNCHANGED <<dataVars, device, inserting, unread, mod, type, tags, history>>

\* scanLogic evaluates a line and tests whether its tag changes and is not
\* updated already.  It catches the exception of a tag of the wrong type.
LogicTest ==
    LET t == Logic[line]
    IN  /\ Alive /\ pc = "logic"
        /\ \/ /\ ~Held(Mutex(Type(t)))
              /\ ~BadVariantAccess(t) /\ ~IsUpdatedTag(t)
              /\ result' \in Values(Type(t)) \ {GetDataByTag(t).val}
              /\ pc' = "logicadd"
              /\ UNCHANGED line
           \/ NextLine /\ UNCHANGED result
        /\ UNCHANGED <<dataVars, device, inserting, unread, mod, type, tags, history>>

\* ... and then, with the mutex released in between, adds the update.
LogicAdd ==
    LET t == Logic[line]
    IN  /\ Alive /\ pc = "logicadd"
        /\ ~Held(Mutex(Type(t)))
        /\ AddUpdatedTag(t, result)
        /\ result' = None
        /\ NextLine
        /\ UNCHANGED <<mExternalData, mInternalData, device, inserting, unread, mod,
                       type, tags, history>>

\* OutputModule::scanOutputs copies a map, without its mutex: undefined while a
\* server is inserting into it.
CopyUpdatedTags ==
    /\ Alive /\ pc = "copy" /\ mod \in Outputs
    /\ \/ /\ tags' = GetUpdatedTags(type)
          /\ pc' = "write"
          /\ UNCHANGED <<dataVars, device, inserting, unread, line, result, mod, type,
                         history>>
       \/ Inserting(type) /\ Die("data race")

\* scanOutputs writes one tag of its copy to the provider, whatever comes of
\* that, and then to the datastore; a tag without a point is skipped.
WriteOutput(t) ==
    /\ Alive /\ pc = "write"
    /\ tags[t] # None
    /\ SetDataByTag(t, tags[t])
    /\ sent' = IF t \in External THEN [sent EXCEPT ![mod][t] = tags[t]] ELSE sent
    /\ tags' = [tags EXCEPT ![t] = None]
    /\ UNCHANGED <<mInternalData, mUpdatedTags, device, inserting, pc, unread, line,
                   result, mod, type, accepted, illTyped>>

\* Defect: the loop over the output modules does not advance.
NextOutputStuck ==
    /\ Alive /\ pc = "write" /\ tags = Nothing
    /\ pc' = "copy"
    /\ type' = IF type = "bool" THEN "double" ELSE "bool"
    /\ UNCHANGED <<dataVars, device, inserting, unread, line, result, mod, tags, history>>

\* The copy is written: on to the analog map, then to the next output module.
NextOutput ==
    /\ Alive /\ pc = "write" /\ tags = Nothing
    /\ pc' = "copy"
    /\ type' = IF type = "bool" THEN "double" ELSE "bool"
    /\ mod' = IF type = "bool" THEN mod ELSE mod + 1
    /\ UNCHANGED <<dataVars, device, inserting, unread, line, result, tags, history>>

EndOutputs ==
    /\ Alive /\ pc = "copy" /\ mod \notin Outputs
    /\ pc' = "internal"
    /\ UNCHANGED <<dataVars, device, inserting, unread, line, result, mod, type, tags,
                   history>>

ScanInternal ==
    /\ Alive /\ pc = "internal"
    /\ ~Held(Mutex(type))
    /\ UpdateInternalData(type)
    /\ pc' = IF type = "bool" THEN "internal" ELSE "clear"
    /\ type' = "double"
    /\ UNCHANGED <<mExternalData, mUpdatedTags, device, inserting, unread, line, result,
                   mod, tags, history>>

\* clearUpdatedTags empties the analog map, then the binary one, and holds the
\* wrong mutex each time: undefined while a server is inserting into it.
ScanClear ==
    /\ Alive /\ pc = "clear"
    /\ ~Held(ClearMutex(type))
    /\ \/ /\ ClearUpdatedTags(type)
          /\ accepted' = [t \in Tags |-> IF Type(t) = type THEN None ELSE accepted[t]]
          /\ sent' = [o \in Outputs |->
                        [t \in Tags |-> IF Type(t) = type THEN None ELSE sent[o][t]]]
          /\ pc' = IF type = "double" THEN "clear" ELSE "sleep"
          /\ type' = "bool"
          /\ UNCHANGED <<mExternalData, mInternalData, device, inserting, unread, line,
                         result, mod, tags, illTyped>>
       \/ Inserting(type) /\ Die("data race")

Sleep ==
    /\ Alive /\ pc = "sleep"
    /\ StartScan
    /\ UNCHANGED <<dataVars, device, inserting, line, result, tags, history>>

ScanCycle ==
    \/ \E t \in Tags : ScanInputs(t) \/ WriteOutput(t)
    \/ LogicTest \/ LogicAdd
    \/ CopyUpdatedTags \/ NextOutput \/ EndOutputs
    \/ ScanInternal \/ ScanClear \/ Sleep

\* A dead process takes no step; bennu-watcherd does not restart it.
Dead == ~Alive /\ UNCHANGED vars

Next ==
    \/ \E s \in Servers : BeginCommand(s) \/ EndCommand(s)
    \/ \E t \in Tags : ServerRead(t)
    \/ \E m \in Published : Publish(m)
    \/ ScanCycle
    \/ Dead

Spec == Init /\ [][Next]_vars

\* The scan thread runs; a server that entered a critical section leaves it;
\* and a mutex that is released again and again is not withheld from the scan
\* thread for ever.
Fairness ==
    /\ SF_vars(ScanCycle)
    /\ \A s \in Servers : WF_vars(EndCommand(s))

FairSpec == Spec /\ Fairness

-----------------------------------------------------------------------------
(* Properties.                                                             *)

TypeOK ==
    /\ DataTypeOK
    /\ device \in {"up", "bad_variant_access", "data race"}
    /\ inserting \in [Servers -> Command \union {NoCommand}]
    /\ pc \in {"inputs", "logic", "logicadd", "copy", "write", "internal", "clear", "sleep"}
    /\ unread \subseteq Tags
    /\ line \in DOMAIN Logic \union {1}
    /\ result \in AllValues \union {None}
    /\ mod \in 1 .. NumOutputs + 1
    /\ type \in Types
    /\ tags \in [Tags -> AllValues \union {None}]
    /\ sent \in [Outputs -> [Tags -> AllValues \union {None}]]
    /\ accepted \in [Tags -> AllValues \union {None}]
    /\ illTyped \in BOOLEAN

\* v has reached what the tag stands for: every output module's provider, or
\* the device's internal data.
Applied(t, v) ==
    IF t \in External
    THEN \A o \in Outputs : sent[o][t] = v
    ELSE mInternalData[t] = Data(Type(t), v)

AboutToClear(t) == pc = "clear" /\ Type(t) = type

\* When clearUpdatedTags drops a tag, the last command accepted for it in time
\* has been written to the provider by every output module, or stored.
AppliedBeforeCleared ==
    \A t \in Tags : AboutToClear(t) /\ accepted[t] # None => Applied(t, accepted[t])

\* A command accepted in time is what the map of updated tags holds until it is
\* cleared: logic never replaces it, and no other thread loses it.
CommandHeld ==
    \A t \in Tags : accepted[t] # None => mUpdatedTags[t] = accepted[t]

\* The process is killed by bad_variant_access only if a provider has
\* published a value whose text reads as another type than its point's: no
\* order of commands, logic and outputs changes the type of a variant.
BadVariantOnlyFromProvider ==
    device = "bad_variant_access" => illTyped

\* A command accepted in time reaches every provider, or the internal data,
\* unless a later update of the tag replaces it or the process dies.
CommandReaches ==
    \A t \in Tags : \A v \in AllValues :
        accepted[t] = v ~> \/ Applied(t, v)
                           \/ mUpdatedTags[t] \notin {v, None}
                           \/ device # "up"

\* The scan thread never stops for good while the process lives: none of the
\* locks it waits for is held for ever.
ScanRecurs == []<>(pc = "sleep" \/ device # "up")

\* The phases of a scan, and the tags of its copy still to be written.
Phase ==
    CASE pc = "inputs" -> 1
      [] pc \in {"logic", "logicadd"} -> 2
      [] pc \in {"copy", "write"} -> 3
      [] pc = "internal" -> 4
      [] pc = "clear" -> 5
      [] pc = "sleep" -> 6

Unwritten == {t \in Tags : tags[t] # None}

\* Further on in the same phase: fewer tags to read, a later line, a later output
\* module, its analog map, its copy made, fewer tags to write, the other map.
Further ==
    \/ pc = "inputs" /\ unread' \subseteq unread /\ unread' # unread
    \/ Phase = 2 /\ (line' > line \/ (line' = line /\ pc = "logic" /\ pc' = "logicadd"))
    \/ Phase = 3 /\ (mod' > mod \/ (mod' = mod /\ type = "bool" /\ type' = "double"))
    \/ pc = "copy" /\ pc' = "write" /\ UNCHANGED <<mod, type>>
    \/ /\ pc = "write" /\ UNCHANGED <<pc, mod, type>>
       /\ Unwritten' \subseteq Unwritten /\ Unwritten' # Unwritten
    \/ pc = "internal" /\ type = "bool" /\ type' = "double"
    \/ pc = "clear" /\ type = "double" /\ type' = "bool"

\* A scan ends: each step of its thread is a step forward in the cycle, in every
\* one of its loops, and what the other threads do never sets it back.
ScanMovesOn ==
    [][UNCHANGED scanVars \/ pc = "sleep" \/ Phase' > Phase \/ (Phase' = Phase /\ Further)]_vars

\* Every command a server acknowledges is applied before it is dropped from the
\* map of updated tags, whenever it arrives.
EveryCommandApplied ==
    \A t \in Tags :
        AboutToClear(t) /\ IsUpdatedTag(t) => Applied(t, mUpdatedTags[t])
=============================================================================
