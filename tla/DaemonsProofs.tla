--------------------------- MODULE DaemonsProofs ---------------------------
(***************************************************************************)
(* Proofs about module Daemons: types, that devices exclude each other     *)
(* unless commands overlap, and that the watcher knows what is installed.  *)
(***************************************************************************)
EXTENDS Daemons, TLAPS

-----------------------------------------------------------------------------
\* As long as commands have not overlapped: one command runs at a time, and not
\* while a device is starting; a command about to kill has read the lock file as
\* it is, and one past that finds no device alive.
Alone ==
    /\ \A i, j \in Invokers : cmd[i] # "none" /\ cmd[j] # "none" => i = j
    /\ \A i \in Invokers : cmd[i] # "none" => \A p \in Pids : device[p] # "starting"
    /\ \A i \in Invokers : cmd[i] = "kill" => target[i] = lock
    /\ \A i \in Invokers : cmd[i] \in {"clear", "fork"} => \A p \in Pids : device[p] = "none"
    /\ \A p, q \in Pids : device[p] # "none" /\ device[q] # "none" => p = q
    /\ \A p \in Pids : device[p] = "running" => lock = p

Exclusion == overlapped \/ Alone

\* What the watcher knows at every point of its loop.
Knows ==
    /\ pc \in {"booted", "loop", "stopped?", "started?"} /\ current_hash # None
          => missed \/ installed = current_hash
    /\ pc = "starting" => missed \/ installed = new_hash

DInv == TypeOK /\ Exclusion /\ Knows

-----------------------------------------------------------------------------
\* The initial state satisfies the invariant.
LEMMA DaemonsInit == Init => DInv
  BY DaemonsAssumption
     DEF Init, DInv, TypeOK, Exclusion, Alone, Knows, Invokers

\* main and the watcher's calls of it begin a command: where nothing else is under
\* way, the exclusion is kept.
LEMMA BeginAlone ==
    ASSUME TypeOK, Exclusion, NEW i \in Invokers, NEW c \in {"start", "stop", "restart"},
           Begin(i, c), UNCHANGED <<lock, device>>
    PROVE  Exclusion'
<1> SUFFICES ASSUME ~overlapped, ~Busy PROVE Alone'
  BY DEF Exclusion, Begin, TypeOK
<1>1. /\ Alone
      /\ \A j \in Invokers : cmd[j] = "none"
      /\ \A p \in Pids : device[p] # "starting"
  BY DEF Exclusion, Busy
<1>2. /\ cmd' \in [Invokers -> {"none", "term", "fork"}]
      /\ \A j \in Invokers : j # i => cmd'[j] = "none"
      /\ cmd'[i] = "fork" => lock = None
  BY <1>1 DEF Begin, isAlreadyRunning, TypeOK
<1>3. lock = None => \A p \in Pids : device[p] = "none"
  BY <1>1, DaemonsAssumption DEF Alone, TypeOK
<1> QED
  BY <1>1, <1>2, <1>3 DEF Alone

\* The commands' types.
LEMMA BeginTyped ==
    ASSUME TypeOK, NEW i \in Invokers, NEW c \in {"start", "stop", "restart"}, Begin(i, c)
    PROVE  /\ cmd' \in [Invokers -> {"none", "term", "kill", "clear", "fork"}]
           /\ target' \in [Invokers -> Pids \union {None}]
           /\ restart' \in [Invokers -> BOOLEAN]
           /\ overlapped' \in BOOLEAN
<1>1. Busy \in BOOLEAN
  BY DEF Busy
<1> QED
  BY <1>1 DEF Begin, TypeOK

\* Every variable keeps its type.
LEMMA TypeStep == TypeOK /\ [Next]_vars => TypeOK'
<1> SUFFICES ASSUME TypeOK, [Next]_vars PROVE TypeOK'
  OBVIOUS
<1> USE DEF TypeOK
<1>0. "watcher" \in Invokers /\ "operator" \in Invokers
  BY DEF Invokers
<1>1. CASE Boot
  BY <1>0, <1>1, BeginTyped, DaemonsAssumption DEF Boot, commandVars
<1>2. CASE Booted
  BY <1>2 DEF Booted, commandVars, isDeviceRunning
<1>3. CASE Hash
  BY <1>0, <1>3, BeginTyped, DaemonsAssumption DEF Hash, commandVars
<1>4. CASE Copy
  BY <1>0, <1>4, BeginTyped DEF Copy
<1>5. CASE Started
  BY <1>5 DEF Started, commandVars, isDeviceRunning
<1>6. CASE NoticeStop
  BY <1>6 DEF NoticeStop, commandVars, isDeviceRunning
<1>7. CASE NoticeStart
  BY <1>7, DaemonsAssumption DEF NoticeStart, commandVars, isDeviceRunning
<1>8. ASSUME NEW i \in Invokers, CommandStep(i) PROVE TypeOK'
  BY <1>8 DEF CommandStep, Term, Kill, Clear, Fork, watcherVars
<1>9. ASSUME NEW c \in {"start", "stop", "restart"}, Operate(c) PROVE TypeOK'
  BY <1>0, <1>9, BeginTyped DEF Operate, watcherVars
<1>10. ASSUME NEW p \in Pids, WritePid(p) \/ Exit(p) PROVE TypeOK'
  BY <1>10 DEF WritePid, Exit, commandVars, watcherVars
<1>11. CASE (\E f \in Firmware : Replace(f)) \/ UNCHANGED vars
  BY <1>11 DEF Replace, vars, commandVars, watcherVars
<1> QED
  BY <1>1, <1>2, <1>3, <1>4, <1>5, <1>6, <1>7, <1>8, <1>9, <1>10, <1>11 DEF Next, Watch

\* The steps of a command, of start, stop and restart.
LEMMA CommandAlone ==
    ASSUME TypeOK, Exclusion, NEW i \in Invokers, CommandStep(i)
    PROVE  Exclusion'
<1> SUFFICES ASSUME Alone PROVE Alone'
  BY DEF Exclusion, CommandStep, Term, Kill, Clear, Fork
<1>0. \A j \in Invokers : j # i => cmd[j] = "none"
  BY DEF Alone, CommandStep, Term, Kill, Clear, Fork
<1>1. CASE Term(i)
  BY <1>0, <1>1 DEF Term, Alone, TypeOK
<1>2. CASE Kill(i)
  <2>1. \A p \in Pids : device[p] # "none" => target[i] = p
    BY <1>2 DEF Kill, Alone, TypeOK
  <2>2. \A p \in Pids : device'[p] = "none"
    BY <1>2, <2>1 DEF Kill
  <2> QED
    BY <1>0, <1>2, <2>2 DEF Kill, Alone, TypeOK
<1>3. CASE Clear(i)
  BY <1>0, <1>3 DEF Clear, Alone, TypeOK
<1>4. CASE Fork(i)
  <2>1. \A p \in Pids : device[p] = "none"
    BY <1>4 DEF Fork, Alone
  <2>2. \A j \in Invokers : cmd'[j] = "none"
    BY <1>0, <1>4 DEF Fork, TypeOK
  <2>3. CASE UNCHANGED device
    BY <2>1, <2>2, <2>3 DEF Alone
  <2>4. ASSUME NEW p \in Pids, device' = [device EXCEPT ![p] = "starting"] PROVE Alone'
    BY <2>1, <2>2, <2>4 DEF Alone, TypeOK
  <2> QED
    BY <1>4, <2>3, <2>4 DEF Fork
<1> QED
  BY <1>1, <1>2, <1>3, <1>4 DEF CommandStep

\* Every step keeps devices apart.
LEMMA ExclusionStep == TypeOK /\ Exclusion /\ [Next]_vars => Exclusion'
<1> SUFFICES ASSUME TypeOK, Exclusion, [Next]_vars PROVE Exclusion'
  OBVIOUS
<1>0. "watcher" \in Invokers /\ "operator" \in Invokers
  BY DEF Invokers
<1>1. ASSUME UNCHANGED <<lock, device, cmd, target, overlapped>> PROVE Exclusion'
  BY <1>1 DEF Exclusion, Alone
<1>2. CASE Watch
  BY <1>0, <1>1, <1>2, BeginAlone
     DEF Watch, Boot, Booted, Hash, Copy, Started, NoticeStop, NoticeStart, commandVars
<1>3. ASSUME NEW i \in Invokers, CommandStep(i) PROVE Exclusion'
  BY <1>3, CommandAlone
<1>4. ASSUME NEW c \in {"start", "stop", "restart"}, Operate(c) PROVE Exclusion'
  BY <1>0, <1>4, BeginAlone DEF Operate
<1>5. ASSUME NEW p \in Pids, WritePid(p) PROVE Exclusion'
  BY <1>5 DEF WritePid, Exclusion, Alone, TypeOK, commandVars
<1>6. ASSUME NEW p \in Pids, Exit(p) PROVE Exclusion'
  BY <1>6 DEF Exit, Exclusion, Alone, TypeOK, commandVars
<1>7. CASE (\E f \in Firmware : Replace(f)) \/ UNCHANGED vars
  BY <1>1, <1>7 DEF Replace, vars, commandVars
<1> QED
  BY <1>2, <1>3, <1>4, <1>5, <1>6, <1>7 DEF Next

\* Every step keeps what the watcher knows.
LEMMA KnowsStep == TypeOK /\ Knows /\ [Next]_vars => Knows'
<1> SUFFICES ASSUME TypeOK, Knows, [Next]_vars PROVE Knows'
  OBVIOUS
<1>1. CASE Watch
  BY <1>1 DEF Watch, Boot, Booted, Hash, Copy, Started, NoticeStop, NoticeStart, Knows
<1>2. ASSUME UNCHANGED <<pc, current_hash, new_hash, installed, missed>> PROVE Knows'
  BY <1>2 DEF Knows
<1> QED
  BY <1>1, <1>2
     DEF Next, CommandStep, Term, Kill, Clear, Fork, Operate, WritePid, Exit, Replace, vars,
         watcherVars

-----------------------------------------------------------------------------
\* The inductive invariant of both daemons.
THEOREM DaemonsInvariant == Spec => []DInv
<1>1. DInv /\ [Next]_vars => DInv'
  BY TypeStep, ExclusionStep, KnowsStep DEF DInv
<1> QED
  BY DaemonsInit, <1>1, PTL DEF Spec

\* The lock file, the commands and the watcher's hashes keep their types, and the
\* watcher has a hash for every device it counts as running.
THEOREM DaemonsTypeCorrect == Spec => []TypeOK
<1>1. DInv => TypeOK
  BY DEF DInv
<1> QED
  BY DaemonsInvariant, <1>1, PTL

\* With any number of processes, whichever of them die: start, stop and restart
\* never leave two devices running, or one that the lock file does not name,
\* unless commands overlap.
THEOREM DevicesExclude == Spec => []OneDevice
<1>1. DInv => OneDevice
  BY DEF DInv, Exclusion, Alone, OneDevice, Alive
<1> QED
  BY DaemonsInvariant, <1>1, PTL

\* The watcher's current_hash is the hash of what it has installed, with the
\* exceptions FirmwareKnown names.
THEOREM WatcherKnowsFirmware == Spec => []FirmwareKnown
<1>1. DInv => FirmwareKnown
  BY DEF DInv, Knows, FirmwareKnown
<1> QED
  BY DaemonsInvariant, <1>1, PTL
=============================================================================
