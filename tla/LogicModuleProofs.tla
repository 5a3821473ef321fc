-------------------------- MODULE LogicModuleProofs --------------------------
(***************************************************************************)
(* For every logic, delay and cycle time: the logic module implements the  *)
(* logic FieldDevice leaves open, and its countdown in milliseconds is     *)
(* exact in scans.                                                         *)
(***************************************************************************)
EXTENDS LogicModule, FieldDeviceProofs

\* The current scan has been counted in since, but line i not yet reached.
Pending(i) ==
    \/ pc = "inputs" /\ unread # Tags
    \/ pc \in {"logic", "logicadd"} /\ line <= i

\* The scans left of the delay of line i.
Left(i) == Delay[i] - since[Logic[i]] + (IF Pending(i) THEN 1 ELSE 0)

\* The countdown is that number of cycle times, and never runs past its end.
Countdown ==
    \A i \in DOMAIN Logic :
        /\ IsDelayedTag(Logic[i]) =>
              Left(i) \in 1 .. Delay[i] /\ mDelayedTags[Logic[i]] = Left(i) * CycleTime
        /\ ~IsDelayedTag(Logic[i]) => since[Logic[i]] = 0

LInv == IInv /\ LogicTyped /\ Countdown /\ DelayExact

-----------------------------------------------------------------------------
(* Facts about the constants.                                              *)

\* Delays are natural numbers, and no two lines share a tag.
LEMMA LogicFacts ==
    /\ CycleTime \in Nat /\ CycleTime > 0
    /\ \A i \in DOMAIN Logic : Delay[i] \in Nat
    /\ \A i, j \in DOMAIN Logic : Logic[i] = Logic[j] => i = j
  BY LogicAssumption

\* A line's result is a value of its tag's type, or none.
LEMMA RhsFacts ==
    ASSUME NEW i \in DOMAIN Logic, NEW in \in [Tags -> AllValues], Rhs(i, in) # None
    PROVE  Rhs(i, in) \in Values(Type(Logic[i]))
  BY LogicAssumption

\* One scan takes one cycle time from the countdown, which ends after the last.
LEMMA CycleFacts ==
    ASSUME NEW n \in Int
    PROVE  /\ n * CycleTime \in Int
           /\ n * CycleTime - CycleTime = (n - 1) * CycleTime
           /\ n >= 1 => n * CycleTime \in Nat
           /\ (n - 1) * CycleTime <= 0 <=> n <= 1
<1>1. CycleTime \in Nat /\ CycleTime > 0
  BY LogicFacts
<1>2. n * CycleTime \in Int /\ n * CycleTime - CycleTime = (n - 1) * CycleTime
  BY <1>1
<1>3. n >= 1 => n * CycleTime \in Nat
  BY <1>1
<1>4. n <= 1 => (n - 1) * CycleTime <= 0
  BY <1>1
<1>5. n > 1 => (n - 1) * CycleTime > 0
  BY <1>1
<1> QED
  BY <1>2, <1>3, <1>4, <1>5, <1>1

\* None is no number of milliseconds.
LEMMA NoneFacts == None \notin Nat
  BY LogicAssumption

-----------------------------------------------------------------------------
(* Refinement.                                                             *)

\* A line that scanLogic evaluates is a line FieldDevice's logic may take.
LEMMA EvaluateImplements == LInv /\ EvaluateLine => LogicTest
<1> SUFFICES ASSUME LInv, EvaluateLine PROVE LogicTest
  OBVIOUS
<1> DEFINE t == Logic[line]
<1>1. line \in DOMAIN Logic /\ inputs \in [Tags -> AllValues]
  BY DEF EvaluateLine, LInv, IInv, ScanShape, LogicTyped
<1>2. CASE DecideUpdate(t)
  <2>1. result' \in Values(Type(t)) \ {GetDataByTag(t).val}
    BY <1>1, <1>2, RhsFacts DEF DecideUpdate, Changes
  <2> QED
    BY <1>2, <2>1 DEF EvaluateLine, DecideUpdate, Changes, LogicTest
<1>3. CASE KeepDelaying(t) \/ FailLine(t) \/ StartDelay(t) \/ NoChange(t)
  BY <1>3 DEF EvaluateLine, KeepDelaying, FailLine, StartDelay, NoChange, LogicTest
<1> QED
  BY <1>2, <1>3 DEF EvaluateLine

\* Every step of the detailed device is a step of FieldDevice, or none.
LEMMA StepImplements == LInv /\ [LogicNext]_allVars => [Next]_vars
<1> SUFFICES ASSUME LInv, [LogicNext]_allVars PROVE [Next]_vars
  OBVIOUS
<1>1. CASE ScanStep
  <2>1. CASE \E t \in Tags : SubstituteInput(t)
    BY <2>1 DEF SubstituteInput, Next, ScanCycle
  <2>2. CASE EvaluateLine
    BY <2>2, EvaluateImplements DEF Next, ScanCycle
  <2>3. CASE AddUpdate
    BY <2>3 DEF AddUpdate, Next, ScanCycle
  <2>4. CASE ScanOutputsStep
    BY <2>4 DEF ScanOutputsStep, Next, ScanCycle
  <2> QED
    BY <1>1, <2>1, <2>2, <2>3, <2>4 DEF ScanStep
<1>2. CASE \E s \in Servers : EndCommand(s) /\ UNCHANGED logicVars
  BY <1>2 DEF Next
<1>3. CASE Environment
  BY <1>3 DEF Environment, Next
<1>4. CASE Quiesce \/ UNCHANGED allVars
  BY <1>4 DEF Quiesce, allVars
<1>5. CASE Dead /\ UNCHANGED logicVars
  BY <1>5 DEF Next
<1> QED
  BY <1>1, <1>2, <1>3, <1>4, <1>5 DEF LogicNext

-----------------------------------------------------------------------------
(* The countdown.                                                          *)

\* Left counts the current scan while the line is pending.
LEMMA LeftFacts ==
    ASSUME LogicTyped, NEW i \in DOMAIN Logic
    PROVE  /\ since[Logic[i]] \in Nat /\ Delay[i] \in Nat
           /\ Pending(i) => Left(i) = Delay[i] - since[Logic[i]] + 1
           /\ ~Pending(i) => Left(i) = Delay[i] - since[Logic[i]]
  BY LogicFacts, DeviceFacts DEF LogicTyped, Left

\* A line's countdown is untouched by a step that changes neither its delay, its
\* count of scans nor whether it is pending.
LEMMA CountdownFrame ==
    ASSUME Countdown, NEW i \in DOMAIN Logic,
           mDelayedTags'[Logic[i]] = mDelayedTags[Logic[i]],
           since'[Logic[i]] = since[Logic[i]],
           Pending(i)' <=> Pending(i)
    PROVE  /\ IsDelayedTag(Logic[i])' =>
                  /\ Left(i)' \in 1 .. Delay[i]
                  /\ mDelayedTags'[Logic[i]] = Left(i)' * CycleTime
           /\ ~IsDelayedTag(Logic[i])' => since'[Logic[i]] = 0
<1>1. Left(i)' = Left(i)
  BY DEF Left
<1> QED
  BY <1>1 DEF Countdown, IsDelayedTag

\* When scanLogic leaves a line, that line is pending no longer.
LEMMA NextLinePending ==
    ASSUME TypeOK, ScanShape, pc \in {"logic", "logicadd"}, NextLine,
           NEW i \in DOMAIN Logic
    PROVE  Pending(i)' <=> Pending(i) /\ i # line
<1>1. /\ line \in 1 .. Len(Logic) /\ i \in 1 .. Len(Logic) /\ Len(Logic) \in Nat
  BY DeviceFacts DEF ScanShape
<1>2. CASE line < Len(Logic)
  <2>1. pc' = "logic" /\ line' = line + 1
    BY <1>2 DEF NextLine
  <2>2. line + 1 <= i <=> line <= i /\ i # line
    BY <1>1
  <2> QED
    BY <2>1, <2>2 DEF Pending
<1>3. CASE ~(line < Len(Logic))
  <2>1. pc' = "copy"
    BY <1>3 DEF NextLine
  <2>2. line <= i => i = line
    BY <1>1, <1>3
  <2> QED
    BY <2>1, <2>2 DEF Pending
<1> QED
  BY <1>2, <1>3

\* The line scanLogic is at is pending.
LEMMA AtLine ==
    ASSUME ScanShape, pc \in {"logic", "logicadd"}
    PROVE  line \in DOMAIN Logic /\ Logic[line] \in Tags /\ Pending(line)
<1>1. line \in DOMAIN Logic
  BY DEF ScanShape
<1>2. line \in Nat
  BY <1>1, DeviceFacts
<1> QED
  BY <1>1, <1>2, DeviceFacts DEF Pending

\* A delay that has run out has lasted the line's number of scans.
LEMMA DueFacts ==
    ASSUME LInv, pc = "logic", IsDelayedTag(Logic[line])
    PROVE  /\ Left(line) \in 1 .. Delay[line]
           /\ mDelayedTags[Logic[line]] = Left(line) * CycleTime
           /\ Remaining(Logic[line]) = (Left(line) - 1) * CycleTime
           /\ Remaining(Logic[line]) <= 0 <=> since[Logic[line]] = Delay[line]
<1>1. line \in DOMAIN Logic /\ Pending(line)
  BY AtLine DEF LInv, IInv
<1>2. Left(line) \in 1 .. Delay[line] /\ mDelayedTags[Logic[line]] = Left(line) * CycleTime
  BY <1>1 DEF LInv, Countdown
<1>3. Left(line) \in Int
  BY <1>1, <1>2, LogicFacts
<1>4. Remaining(Logic[line]) = (Left(line) - 1) * CycleTime
  BY <1>2, <1>3, CycleFacts DEF Remaining
<1>5. Remaining(Logic[line]) <= 0 <=> Left(line) <= 1
  BY <1>3, <1>4, CycleFacts
<1>6. /\ since[Logic[line]] \in Nat /\ Delay[line] \in Nat
      /\ Left(line) = Delay[line] - since[Logic[line]] + 1
  BY <1>1, LeftFacts DEF LInv
<1>7. Left(line) <= 1 <=> since[Logic[line]] = Delay[line]
  BY <1>2, <1>6
<1> QED
  BY <1>2, <1>4, <1>5, <1>7

\* scanInputs counts the scan for every delayed tag when it starts.
LEMMA InputsStep ==
    ASSUME LInv, NEW u \in Tags, SubstituteInput(u)
    PROVE  LogicTyped' /\ Countdown' /\ DelayExact'
<1>1. TypeOK /\ LogicTyped /\ Countdown /\ pc = "inputs" /\ unread \subseteq Tags
  BY DEF LInv, IInv, TypeOK, SubstituteInput, ScanInputs
<1>2. UNCHANGED <<mDelayedTags, quiet>>
  BY DEF SubstituteInput
<1>3. CASE unread = Tags /\ unread' # Tags
  <2>1. /\ since' = [v \in Tags |-> IF IsDelayedTag(v) THEN since[v] + 1 ELSE since[v]]
        /\ pc' \in {"inputs", "logic"} /\ line' = 1
    BY <1>3 DEF SubstituteInput, ScanInputs, Die, scanVars
  <2>2. ASSUME NEW i \in DOMAIN Logic PROVE ~Pending(i) /\ Pending(i)'
    <3>1. 1 <= i
      BY DeviceFacts
    <3> QED
      BY <1>1, <1>3, <2>1, <3>1 DEF Pending
  <2>3. since' \in [Tags -> Nat]
    BY <1>1, <2>1 DEF LogicTyped
  <2>4. LogicTyped'
    <3>1. GetDataByTag(u).val \in AllValues
      BY <1>1, ConfigAssumption
         DEF GetDataByTag, TypeOK, DataTypeOK, Variant, Internal
    <3> QED
      BY <1>1, <1>2, <2>3, <3>1 DEF LogicTyped, SubstituteInput
  <2>5. ASSUME NEW i \in DOMAIN Logic
        PROVE  /\ IsDelayedTag(Logic[i])' =>
                      /\ Left(i)' \in 1 .. Delay[i]
                      /\ mDelayedTags'[Logic[i]] = Left(i)' * CycleTime
               /\ ~IsDelayedTag(Logic[i])' => since'[Logic[i]] = 0
    <3>1. Logic[i] \in Tags
      BY DeviceFacts
    <3>2. /\ since[Logic[i]] \in Nat /\ Delay[i] \in Nat
          /\ Left(i) = Delay[i] - since[Logic[i]]
      BY <1>1, <2>2, LeftFacts
    <3>3. Left(i)' = Delay[i] - since'[Logic[i]] + 1
      BY <2>2 DEF Left
    <3>4. CASE IsDelayedTag(Logic[i])
      <4>1. since'[Logic[i]] = since[Logic[i]] + 1
        BY <2>1, <3>1, <3>4
      <4>2. Left(i)' = Left(i)
        BY <3>2, <3>3, <4>1
      <4> QED
        BY <1>1, <1>2, <3>4, <4>2 DEF Countdown, IsDelayedTag
    <3>5. CASE ~IsDelayedTag(Logic[i])
      BY <1>1, <1>2, <2>1, <3>1, <3>5 DEF Countdown, IsDelayedTag
    <3> QED
      BY <3>4, <3>5
  <2> QED
    BY <2>1, <2>4, <2>5 DEF Countdown, DelayExact
<1>4. CASE ~(unread = Tags /\ unread' # Tags)
  <2>1. since' = since
    BY <1>4 DEF SubstituteInput
  <2>2. /\ pc' \in {"inputs", "logic"}
        /\ \/ pc' = pc /\ unread' = unread
           \/ unread # Tags /\ unread' # Tags /\ line' = 1
    BY <1>1, <1>4 DEF SubstituteInput, ScanInputs, Die, scanVars
  <2>3. ASSUME NEW i \in DOMAIN Logic PROVE Pending(i)' <=> Pending(i)
    <3>1. 1 <= i
      BY DeviceFacts
    <3> QED
      BY <1>1, <2>2, <3>1 DEF Pending
  <2>4. LogicTyped'
    <3>1. GetDataByTag(u).val \in AllValues
      BY <1>1, ConfigAssumption
         DEF GetDataByTag, TypeOK, DataTypeOK, Variant, Internal
    <3> QED
      BY <1>1, <1>2, <2>1, <3>1 DEF LogicTyped, SubstituteInput
  <2>5. Countdown'
    BY <1>1, <1>2, <2>1, <2>3, CountdownFrame DEF Countdown
  <2> QED
    BY <2>2, <2>4, <2>5 DEF DelayExact
<1> QED
  BY <1>3, <1>4

\* What a step makes of the line scanLogic is at, once it leaves it: the other
\* lines keep their countdown.
LEMMA LeaveLine ==
    ASSUME LInv, pc \in {"logic", "logicadd"}, NextLine,
           NEW ms \in Nat \union {None}, NEW n \in Nat,
           mDelayedTags' = [mDelayedTags EXCEPT ![Logic[line]] = ms],
           since' = [since EXCEPT ![Logic[line]] = n],
           ms = None => n = 0,
           ms # None => /\ Delay[line] - n \in 1 .. Delay[line]
                        /\ ms = (Delay[line] - n) * CycleTime,
           UNCHANGED <<inputs, quiet>>
    PROVE  LogicTyped' /\ Countdown'
<1>1. TypeOK /\ ScanShape /\ LogicTyped /\ Countdown
  BY DEF LInv, IInv
<1>2. line \in DOMAIN Logic /\ Logic[line] \in Tags
  BY <1>1, AtLine
<1>3. LogicTyped'
  BY <1>1, <1>2 DEF LogicTyped
<1>4. ASSUME NEW i \in DOMAIN Logic
      PROVE  /\ IsDelayedTag(Logic[i])' =>
                    /\ Left(i)' \in 1 .. Delay[i]
                    /\ mDelayedTags'[Logic[i]] = Left(i)' * CycleTime
             /\ ~IsDelayedTag(Logic[i])' => since'[Logic[i]] = 0
  <2>1. Pending(i)' <=> Pending(i) /\ i # line
    BY <1>1, NextLinePending
  <2>2. CASE i = line
    <3>1. mDelayedTags'[Logic[i]] = ms /\ since'[Logic[i]] = n
      BY <1>1, <1>2, <2>2 DEF LogicTyped
    <3>2. Delay[i] \in Nat
      BY LogicFacts
    <3>3. Left(i)' = Delay[i] - n
      BY <2>1, <2>2, <3>1, <3>2 DEF Left
    <3> QED
      BY <2>2, <3>1, <3>3 DEF IsDelayedTag
  <2>3. CASE i # line
    <3>1. Logic[i] # Logic[line] /\ Logic[i] \in Tags
      BY <1>2, <2>3, LogicFacts, DeviceFacts
    <3>2. mDelayedTags'[Logic[i]] = mDelayedTags[Logic[i]] /\ since'[Logic[i]] = since[Logic[i]]
      BY <1>1, <3>1 DEF LogicTyped
    <3> QED
      BY <1>1, <2>1, <2>3, <3>2, CountdownFrame
  <2> QED
    BY <2>2, <2>3
<1> QED
  BY <1>3, <1>4 DEF Countdown

\* NextLine never leads to an update.
LEMMA NextLineExact == NextLine => DelayExact'
  BY DEF NextLine, DelayExact

\* scanLogic keeps the countdown, and lets a tag through when it has ended.
LEMMA EvaluateStep == LInv /\ EvaluateLine => LogicTyped' /\ Countdown' /\ DelayExact'
<1> SUFFICES ASSUME LInv, EvaluateLine PROVE LogicTyped' /\ Countdown' /\ DelayExact'
  OBVIOUS
<1> DEFINE t == Logic[line]
<1>1. /\ ScanShape /\ LogicTyped /\ Countdown /\ pc = "logic"
      /\ UNCHANGED <<inputs, quiet>>
  BY DEF LInv, IInv, EvaluateLine
<1>2. line \in DOMAIN Logic /\ t \in Tags /\ Pending(line)
  BY <1>1, AtLine
<1>3. /\ since[t] \in Nat /\ Delay[line] \in Nat
      /\ Left(line) = Delay[line] - since[t] + 1
  BY <1>1, <1>2, LeftFacts
<1>4. mDelayedTags = [mDelayedTags EXCEPT ![t] = mDelayedTags[t]]
      /\ since = [since EXCEPT ![t] = since[t]]
  BY <1>1, <1>2 DEF LogicTyped
<1>5. ~IsDelayedTag(t) => since[t] = 0
  BY <1>1, <1>2 DEF Countdown
<1>6. CASE KeepDelaying(t)
  <2>1. /\ IsDelayedTag(t) /\ Remaining(t) > 0 /\ NextLine /\ since' = since
        /\ mDelayedTags' = [mDelayedTags EXCEPT ![t] = Remaining(t)]
    BY <1>6 DEF KeepDelaying, SetDelayedTag
  <2>2. /\ Left(line) \in 1 .. Delay[line]
        /\ Remaining(t) = (Left(line) - 1) * CycleTime
        /\ Remaining(t) <= 0 <=> since[t] = Delay[line]
    BY <1>1, <2>1, DueFacts
  <2>3. Left(line) - 1 = Delay[line] - since[t]
    BY <1>3
  <2>4. Remaining(t) \in Int
    BY <1>3, <2>2, <2>3, CycleFacts
  <2>5. Remaining(t) \in Nat /\ since[t] # Delay[line]
    BY <2>1, <2>2, <2>4
  <2>6. Delay[line] - since[t] \in 1 .. Delay[line]
    <3> DEFINE d == Delay[line]
               n == since[t]
    <3> HIDE DEF d, n
    <3>1. d \in Nat /\ n \in Nat /\ n # d /\ d - n + 1 \in 1 .. d
      BY <1>3, <2>2, <2>5 DEF d, n
    <3>2. d - n \in 1 .. d
      BY <3>1
    <3> QED
      BY <3>2 DEF d, n
  <2>7. Remaining(t) # None
    BY <2>1, <2>5, <1>1, <1>2, NoneFacts
  <2>8. Remaining(t) = (Delay[line] - since[t]) * CycleTime
    BY <2>2, <2>3
  <2> QED
    BY <1>1, <1>3, <1>4, <2>1, <2>5, <2>6, <2>7, <2>8, LeaveLine, NextLineExact
<1>7. CASE FailLine(t)
  <2>1. NextLine /\ mDelayedTags' = mDelayedTags /\ Due(t)
        /\ since' = IF IsDelayedTag(t) THEN [since EXCEPT ![t] = since[t] - 1] ELSE since
    BY <1>7 DEF FailLine
  <2>2. mDelayedTags[t] \in Nat \union {None}
    BY <1>1, <1>2 DEF LogicTyped
  <2>3. CASE IsDelayedTag(t)
    <3>1. /\ Left(line) \in 1 .. Delay[line]
          /\ mDelayedTags[t] = Left(line) * CycleTime
          /\ since[t] = Delay[line]
      BY <1>1, <2>1, <2>3, DueFacts DEF Due
    <3>2. since[t] - 1 \in Nat /\ Delay[line] - (since[t] - 1) = Left(line)
      BY <1>3, <3>1
    <3> QED
      BY <1>1, <1>4, <2>1, <2>2, <2>3, <3>1, <3>2, LeaveLine, NextLineExact
         DEF IsDelayedTag
  <2>4. CASE ~IsDelayedTag(t)
    BY <1>1, <1>3, <1>4, <1>5, <2>1, <2>2, <2>4, LeaveLine, NextLineExact
       DEF IsDelayedTag
  <2> QED
    BY <2>3, <2>4
<1>8. CASE StartDelay(t)
  <2>1. /\ NextLine /\ Delay[line] > 0
        /\ mDelayedTags' = [mDelayedTags EXCEPT ![t] = Delay[line] * CycleTime]
        /\ since' = [since EXCEPT ![t] = 0]
    BY <1>8 DEF StartDelay, SetDelayedTag
  <2>2. Delay[line] \in Int /\ Delay[line] >= 1 /\ Delay[line] - 0 = Delay[line]
    BY <1>3, <2>1
  <2>3. Delay[line] * CycleTime \in Nat
    BY <2>2, CycleFacts
  <2>4. Delay[line] \in 1 .. Delay[line]
    BY <2>2
  <2> QED
    BY <1>1, <2>1, <2>2, <2>3, <2>4, LeaveLine, NextLineExact
<1>9. CASE DecideUpdate(t)
  <2>1. /\ UNCHANGED <<line, mDelayedTags, since>> /\ pc' = "logicadd"
        /\ Due(t) /\ (Delay[line] = 0 \/ IsDelayedTag(t))
    BY <1>9 DEF DecideUpdate
  <2>2. since[t] = Delay[line]
    BY <1>1, <1>5, <2>1, DueFacts DEF Due
  <2>3. ASSUME NEW i \in DOMAIN Logic PROVE Pending(i)' <=> Pending(i)
    BY <1>1, <2>1 DEF Pending
  <2>4. Countdown'
    BY <1>1, <2>1, <2>3, CountdownFrame DEF Countdown
  <2> QED
    BY <1>1, <2>1, <2>2, <2>4 DEF LogicTyped, DelayExact
<1>10. CASE NoChange(t)
  <2>1. /\ NextLine /\ mDelayedTags' = [mDelayedTags EXCEPT ![t] = None]
        /\ since' = [since EXCEPT ![t] = 0]
    BY <1>10 DEF NoChange, RemoveDelayedTag, SetDelayedTag
  <2> QED
    BY <1>1, <2>1, LeaveLine, NextLineExact
<1> QED
  BY <1>6, <1>7, <1>8, <1>9, <1>10 DEF EvaluateLine

\* addUpdated...Tag ends the delay.
LEMMA AddStep == LInv /\ AddUpdate => LogicTyped' /\ Countdown' /\ DelayExact'
  BY LeaveLine, NextLineExact
     DEF AddUpdate, LogicAdd, RemoveDelayedTag, SetDelayedTag

\* The rest of the device does not touch the countdown.
LEMMA OtherStep ==
    ASSUME LInv, UNCHANGED <<mDelayedTags, inputs, since>>, quiet' \in BOOLEAN,
           \/ UNCHANGED scanVars
           \/ ScanOutputsStep
    PROVE  LogicTyped' /\ Countdown' /\ DelayExact'
<1>1. LogicTyped /\ Countdown /\ DelayExact /\ ScanShape
  BY DEF LInv, IInv
<1>2. CASE UNCHANGED scanVars
  <2>1. ASSUME NEW i \in DOMAIN Logic PROVE Pending(i)' <=> Pending(i)
    BY <1>2 DEF Pending, scanVars
  <2>2. Countdown'
    BY <1>1, <2>1, CountdownFrame DEF Countdown
  <2> QED
    BY <1>1, <1>2, <2>2 DEF scanVars, LogicTyped, DelayExact
<1>3. CASE ScanOutputsStep
  <2>1. /\ pc \notin {"inputs", "logic", "logicadd"}
        /\ pc' \notin {"logic", "logicadd"}
        /\ pc' = "inputs" => unread' = Tags
    BY <1>3 DEF ScanOutputsStep, WriteOutput, CopyUpdatedTags, NextOutput, EndOutputs,
                ScanInternal, ScanClear, Sleep, StartScan, Die, scanVars
  <2>2. ASSUME NEW i \in DOMAIN Logic PROVE Pending(i)' <=> Pending(i)
    BY <2>1 DEF Pending
  <2>3. Countdown'
    BY <1>1, <2>2, CountdownFrame DEF Countdown
  <2> QED
    BY <1>1, <2>1, <2>3 DEF LogicTyped, DelayExact
<1> QED
  BY <1>2, <1>3

\* The initial state satisfies the invariant.
LEMMA LogicInitInv == LogicInit => LInv
<1> SUFFICES ASSUME LogicInit PROVE LInv
  OBVIOUS
<1>1. IInv
  BY InitIInv DEF LogicInit
<1>2. LogicTyped
  BY TypeFacts DEF LogicInit, LogicTyped, Nothing
<1>3. Countdown
  BY DeviceFacts DEF LogicInit, Countdown, IsDelayedTag, Nothing
<1>4. DelayExact
  BY DEF LogicInit, Init, DelayExact
<1> QED
  BY <1>1, <1>2, <1>3, <1>4 DEF LInv

\* Every step keeps the invariant: FieldDevice's part by refinement, the countdown
\* by the lemmas above.
LEMMA LogicStep == LInv /\ [LogicNext]_allVars => LInv'
<1> SUFFICES ASSUME LInv, [LogicNext]_allVars PROVE LInv'
  OBVIOUS
<1>1. IInv'
  BY StepImplements, ShapeStep, HeldStep, TypedStep, WrittenStep, StoredStep
     DEF LInv, IInv
<1>2. quiet \in BOOLEAN
  BY DEF LInv, LogicTyped
<1>3. LogicTyped' /\ Countdown' /\ DelayExact'
  <2>1. CASE \E t \in Tags : SubstituteInput(t)
    BY <2>1, InputsStep
  <2>2. CASE EvaluateLine
    BY <2>2, EvaluateStep
  <2>3. CASE AddUpdate
    BY <2>3, AddStep
  <2>4. CASE ScanOutputsStep
    BY <1>2, <2>4, OtherStep DEF ScanOutputsStep, logicVars
  <2>5. CASE \E s \in Servers : EndCommand(s) /\ UNCHANGED logicVars
    BY <1>2, <2>5, OtherStep DEF EndCommand, logicVars
  <2>6. CASE Environment
    BY <1>2, <2>6, OtherStep
       DEF Environment, BeginCommand, ServerRead, Die, Publish, logicVars
  <2>7. CASE Quiesce
    BY <2>7, OtherStep DEF Quiesce, vars
  <2>8. CASE UNCHANGED allVars \/ (Dead /\ UNCHANGED logicVars)
    BY <1>2, <2>8, OtherStep DEF Dead, allVars, vars, logicVars
  <2> QED
    BY <2>1, <2>2, <2>3, <2>4, <2>5, <2>6, <2>7, <2>8 DEF LogicNext, ScanStep
<1> QED
  BY <1>1, <1>3 DEF LInv

-----------------------------------------------------------------------------
\* The inductive invariant of the device with its logic module.
THEOREM LogicInvariant == LogicSpec => []LInv
  BY LogicInitInv, LogicStep, PTL DEF LogicSpec

\* The delayed tags of LogicModule.cpp keep their types: no countdown goes below
\* zero, although KeepDelaying subtracts from it at every scan, and none is longer
\* than the delay of its line.
THEOREM LogicTypeCorrect == LogicSpec => []LogicTypeOK
<1>1. ASSUME LInv, NEW i \in DOMAIN Logic, IsDelayedTag(Logic[i])
      PROVE  mDelayedTags[Logic[i]] <= Delay[i] * CycleTime
  <2>1. /\ Left(i) \in 1 .. Delay[i] /\ mDelayedTags[Logic[i]] = Left(i) * CycleTime
        /\ Delay[i] \in Nat /\ CycleTime \in Nat
    BY <1>1, LogicFacts DEF LInv, Countdown
  <2>2. \A m, n, c \in Nat : m <= n => m * c <= n * c
    OBVIOUS
  <2> QED
    BY <2>1, <2>2
<1>2. LInv => LogicTypeOK
  BY <1>1 DEF LInv, IInv, LogicTypeOK
<1> QED
  BY LogicInvariant, <1>2, PTL

\* The device with the logic module of LogicModule.cpp is a FieldDevice: all that
\* is proved there of any logic holds with this one.
THEOREM LogicImplements == LogicSpec => ImplementsFieldDevice
<1>1. LogicInit => Init
  BY DEF LogicInit
<1> QED
  BY <1>1, LogicInvariant, StepImplements, PTL DEF LogicSpec, ImplementsFieldDevice, Spec

\* Whatever the delays and the cycle time, scanLogic updates a delayed tag exactly
\* its number of scans after it found it changed.
THEOREM DelaysAreExact == LogicSpec => []DelayExact
<1>1. LInv => DelayExact
  BY DEF LInv
<1> QED
  BY LogicInvariant, <1>1, PTL

\* ... and commands accepted in time are applied before they are cleared, with
\* every logic.
THEOREM CommandsAreAppliedWithLogic == LogicSpec => []AppliedBeforeCleared
  BY LogicImplements, CommandsAreApplied, PTL DEF ImplementsFieldDevice
=============================================================================
