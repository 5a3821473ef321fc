----------------------------- MODULE LogicModule -----------------------------
(***************************************************************************)
(* The logic module (LogicModule.cpp) inside a running field device.       *)
(* scanInputs substitutes the value each tag has at that moment into the   *)
(* text of the logic; scanLogic evaluates the lines in order and holds a   *)
(* line with a delay back for a countdown in milliseconds, one cycle time  *)
(* less on every scan.                                                     *)
(*                                                                         *)
(* This is the detailed specification of what FieldDevice leaves open (any *)
(* value, held back or not), and implements it: every action here is one   *)
(* of FieldDevice's with the logic module's own state added.               *)
(***************************************************************************)
EXTENDS FieldDevice, Integers

CONSTANTS
    Rhs(_, _),     \* line, values of the tags -> its result; None if cparse fails
    Delay,         \* per line, the delay in scans that mGetDelay reads from it
    CycleTime      \* mCycleTime, in milliseconds

INT_MAX == 2147483647

\* No two lines have the same left-hand side: they would share a countdown.
\* delay * cycleTime is computed in a 32-bit int.
ASSUME LogicAssumption ==
    /\ \A i, j \in DOMAIN Logic : Logic[i] = Logic[j] => i = j
    /\ \A i \in DOMAIN Logic : \A inputs \in [Tags -> AllValues] :
          Rhs(i, inputs) \in Values(Type(Logic[i])) \union {None}
    /\ Delay \in [DOMAIN Logic -> Nat]
    /\ CycleTime \in Nat \ {0}
    /\ None \notin Nat
    /\ \A i \in DOMAIN Logic : Delay[i] * CycleTime <= INT_MAX

VARIABLES
    inputs,         \* the values substituted into mCurrentLogic
    mDelayedTags,   \* tag -> milliseconds left, or None
    (* History: *)
    since,          \* tag -> scans since it was delayed, less failed evaluations
    quiet           \* the servers' clients and the providers have stopped

logicVars == <<inputs, mDelayedTags, since, quiet>>

allVars == <<vars, logicVars>>

IsDelayedTag(t) == mDelayedTags[t] # None

SetDelayedTag(t, ms) == mDelayedTags' = [mDelayedTags EXCEPT ![t] = ms]

RemoveDelayedTag(t) == SetDelayedTag(t, None)

LogicInit ==
    /\ Init
    /\ inputs = [t \in Tags |-> 0]
    /\ mDelayedTags = Nothing
    /\ since = [t \in Tags |-> 0]
    /\ quiet = FALSE

-----------------------------------------------------------------------------
\* scanInputs reads one tag and substitutes its value.
SubstituteInput(t) ==
    /\ ScanInputs(t)
    /\ inputs' = [inputs EXCEPT ![t] = GetDataByTag(t).val]
    /\ since' = IF unread = Tags /\ unread' # Tags
                THEN [u \in Tags |-> IF IsDelayedTag(u) THEN since[u] + 1 ELSE since[u]]
                ELSE since
    /\ UNCHANGED <<mDelayedTags, quiet>>

\* Defect: a tag is evaluated again in the scan before its last one.
RemainingShort(t) == mDelayedTags[t] - 2 * CycleTime

\* What is left of a tag's delay at this scan.
Remaining(t) == mDelayedTags[t] - CycleTime

\* Defect: a delay that has run out is counted down further.
KeepDelayingPastZero(t) ==
    /\ IsDelayedTag(t)
    /\ SetDelayedTag(t, Remaining(t))
    /\ NextLine
    /\ UNCHANGED <<result, since>>

\* The line is skipped: its tag stays delayed.
KeepDelaying(t) ==
    /\ IsDelayedTag(t) /\ Remaining(t) > 0
    /\ SetDelayedTag(t, Remaining(t))
    /\ NextLine
    /\ UNCHANGED <<result, since>>

Due(t) == IsDelayedTag(t) => Remaining(t) <= 0

\* cparse throws, or getDataByTag does: the catch leaves everything as it is.
FailLine(t) ==
    /\ Due(t)
    /\ Rhs(line, inputs) = None \/ BadVariantAccess(t)
    /\ NextLine
    /\ since' = IF IsDelayedTag(t) THEN [since EXCEPT ![t] = @ - 1] ELSE since
    /\ UNCHANGED <<result, mDelayedTags>>

\* Defect: an update that is waiting already is overwritten.
ChangesUpdatedToo(t) ==
    /\ Rhs(line, inputs) # None /\ ~BadVariantAccess(t)
    /\ Rhs(line, inputs) # GetDataByTag(t).val

\* The line's result differs from the datastore, and no update of its tag is
\* waiting already.  The second test takes the tag's mutex.
Changes(t) ==
    /\ Rhs(line, inputs) # None /\ ~BadVariantAccess(t)
    /\ Rhs(line, inputs) # GetDataByTag(t).val
    /\ ~IsUpdatedTag(t)

\* Defect: a tag whose delay has run out is delayed again.
StartDelayAgain(t) ==
    /\ Due(t)
    /\ ~Held(Mutex(Type(t)))
    /\ Changes(t)
    /\ Delay[line] > 0
    /\ SetDelayedTag(t, Delay[line] * CycleTime)
    /\ since' = [since EXCEPT ![t] = 0]
    /\ NextLine
    /\ UNCHANGED result

StartDelay(t) ==
    /\ ~Held(Mutex(Type(t)))
    /\ Changes(t)
    /\ Delay[line] > 0 /\ ~IsDelayedTag(t)
    /\ SetDelayedTag(t, Delay[line] * CycleTime)
    /\ since' = [since EXCEPT ![t] = 0]
    /\ NextLine
    /\ UNCHANGED result

DecideUpdate(t) ==
    /\ Due(t)
    /\ ~Held(Mutex(Type(t)))
    /\ Changes(t)
    /\ Delay[line] = 0 \/ IsDelayedTag(t)
    /\ result' = Rhs(line, inputs)
    /\ pc' = "logicadd"
    /\ UNCHANGED <<line, mDelayedTags, since>>

\* Defect: the delay is not cancelled when the line no longer asks for a change.
NoChangeKeepsDelay(t) ==
    /\ Due(t)
    /\ Rhs(line, inputs) # None /\ ~BadVariantAccess(t)
    /\ \/ Rhs(line, inputs) = GetDataByTag(t).val
       \/ ~Held(Mutex(Type(t))) /\ IsUpdatedTag(t)
    /\ NextLine
    /\ UNCHANGED <<result, mDelayedTags, since>>

NoChange(t) ==
    /\ Due(t)
    /\ Rhs(line, inputs) # None /\ ~BadVariantAccess(t)
    /\ \/ Rhs(line, inputs) = GetDataByTag(t).val
       \/ ~Held(Mutex(Type(t))) /\ IsUpdatedTag(t)
    /\ RemoveDelayedTag(t)
    /\ since' = [since EXCEPT ![t] = 0]
    /\ NextLine
    /\ UNCHANGED result

\* scanLogic takes one line, up to the addUpdated...Tag it may end with.
EvaluateLine ==
    LET t == Logic[line]
    IN  /\ Alive /\ pc = "logic"
        /\ \/ KeepDelaying(t) \/ FailLine(t) \/ StartDelay(t)
           \/ DecideUpdate(t) \/ NoChange(t)
        /\ UNCHANGED <<dataVars, device, inserting, unread, mod, type, tags, history,
                       inputs, quiet>>

\* addUpdated...Tag, and removeDelayedTag.
AddUpdate ==
    /\ LogicAdd
    /\ RemoveDelayedTag(Logic[line])
    /\ since' = [since EXCEPT ![Logic[line]] = 0]
    /\ UNCHANGED <<inputs, quiet>>

ScanOutputsStep ==
    /\ \/ \E t \in Tags : WriteOutput(t)
       \/ CopyUpdatedTags \/ NextOutput \/ EndOutputs
       \/ ScanInternal \/ ScanClear \/ Sleep
    /\ UNCHANGED logicVars

ScanStep ==
    \/ \E t \in Tags : SubstituteInput(t)
    \/ EvaluateLine \/ AddUpdate
    \/ ScanOutputsStep

\* Clients and providers, until they stop for good.
Environment ==
    /\ ~quiet
    /\ \/ \E s \in Servers : BeginCommand(s)
       \/ \E t \in Tags : ServerRead(t)
       \/ \E m \in Published : Publish(m)
    /\ UNCHANGED logicVars

Quiesce ==
    /\ ~quiet
    /\ quiet' = TRUE
    /\ UNCHANGED <<vars, inputs, mDelayedTags, since>>

LogicNext ==
    \/ ScanStep
    \/ \E s \in Servers : EndCommand(s) /\ UNCHANGED logicVars
    \/ Environment \/ Quiesce
    \/ Dead /\ UNCHANGED logicVars

LogicSpec == LogicInit /\ [][LogicNext]_allVars

\* As FieldDevice's: the scan thread runs, and is not kept from a mutex for ever.
LogicFairSpec ==
    /\ LogicSpec
    /\ SF_allVars(ScanStep)
    /\ \A s \in Servers : WF_allVars(EndCommand(s) /\ UNCHANGED logicVars)

-----------------------------------------------------------------------------
(* Properties.                                                             *)

LogicTyped ==
    /\ inputs \in [Tags -> AllValues]
    /\ mDelayedTags \in [Tags -> Nat \union {None}]
    /\ since \in [Tags -> Nat]
    /\ quiet \in BOOLEAN

LogicTypeOK ==
    /\ TypeOK /\ LogicTyped
    /\ \A i \in DOMAIN Logic : IsDelayedTag(Logic[i]) =>
          mDelayedTags[Logic[i]] <= Delay[i] * CycleTime

\* A delayed tag is updated exactly its delay's number of scans after the scan
\* that found it changed, not counting scans in which its line failed to
\* evaluate: "delay (ms) = # of cycles * scan cycle time (ms)".
DelayExact == pc = "logicadd" => since[Logic[line]] = Delay[line]

Current == [t \in Tags |-> GetDataByTag(t).val]

\* Every line that evaluates agrees with the datastore.
LogicStable ==
    \A i \in DOMAIN Logic : Rhs(i, Current) \in {None, Current[Logic[i]]}

\* Once clients and providers are quiet, the scans bring every left-hand tag to
\* the value of its line, through every delay, and leave it there.
LogicSettles == quiet ~> [](LogicStable \/ device # "up")

\* The device with this logic module is a FieldDevice: what is said there of any
\* logic holds of this one.
ImplementsFieldDevice == Spec
=============================================================================
