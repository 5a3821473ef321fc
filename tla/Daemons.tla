------------------------------ MODULE Daemons ------------------------------
(***************************************************************************)
(* The field device daemon (bennu-field-deviced/main.cpp) and the watcher  *)
(* daemon that updates and restarts it (bennu-watcherd/main.cpp).          *)
(*                                                                         *)
(* Commands start, stop and restart are processes of their own, run by the *)
(* watcher or by an operator; they know each other only through the lock   *)
(* file that holds a device's process id.  A device may die at any time,   *)
(* its configuration may not load: its id stays in the lock file.          *)
(*                                                                         *)
(* The watcher compares hashes; a hash stands for the content it is of.    *)
(***************************************************************************)
EXTENDS Naturals, FiniteSets

CONSTANTS
    None,
    Pids,         \* process ids of devices
    Firmware,     \* contents of the watched file
    Registered    \* the contents whose hashes the watcher's configuration lists

Invokers == {"watcher", "operator"}

ASSUME DaemonsAssumption ==
    /\ Registered \subseteq Firmware /\ Firmware # {}
    /\ None \notin Firmware /\ None \notin Pids

VARIABLES
    lock,            \* the lock file: a process id, or None for 0
    device,          \* process id -> "none", "starting" or "running"
    cmd,             \* invoker -> what is left of its command, "none" if none runs
    target,          \* invoker -> the process its stop command has read of
    restart,         \* invoker -> its command starts a device after the stop
    installed,       \* the content of /usr/bin/bennu-field-deviced
    file,            \* the content of the watched file
    pc,              \* where the watcher is
    deviceRunning, current_hash, new_hash,
    (* History, read by no action's guard: *)
    overlapped,      \* a command began while another ran, or before a forked device wrote its id
    missed           \* a reason why the watcher may be wrong about what is installed

commandVars == <<cmd, target, restart>>
watcherVars == <<pc, deviceRunning, current_hash, new_hash>>
vars == <<lock, device, commandVars, installed, file, watcherVars, overlapped, missed>>

Init ==
    /\ lock = None
    /\ device = [p \in Pids |-> "none"]
    /\ cmd = [i \in Invokers |-> "none"]
    /\ target = [i \in Invokers |-> None]
    /\ restart = [i \in Invokers |-> FALSE]
    /\ installed \in Firmware /\ file \in Firmware
    /\ pc = "boot"
    /\ deviceRunning = FALSE /\ current_hash = None /\ new_hash = None
    /\ overlapped = FALSE
    /\ missed = FALSE

-----------------------------------------------------------------------------
(* The field device daemon's commands.                                     *)

isAlreadyRunning == lock # None

Busy == \/ \E i \in Invokers : cmd[i] # "none"
        \/ \E p \in Pids : device[p] = "starting"

\* Defect: start does not look at the lock file.
BeginUnchecked(i, c) ==
    /\ cmd[i] = "none"
    /\ cmd' = [cmd EXCEPT ![i] = CASE c = "start" -> "fork"
                                   [] c = "stop" -> IF isAlreadyRunning THEN "term" ELSE "none"
                                   [] OTHER -> IF isAlreadyRunning THEN "term" ELSE "fork"]
    /\ restart' = [restart EXCEPT ![i] = (c = "restart")]
    /\ overlapped' = (overlapped \/ Busy)
    /\ UNCHANGED target

\* main: the command looks at the lock file first.
Begin(i, c) ==
    /\ cmd[i] = "none"
    /\ cmd' = [cmd EXCEPT ![i] = CASE c = "start" -> IF isAlreadyRunning THEN "none" ELSE "fork"
                                   [] c = "stop" -> IF isAlreadyRunning THEN "term" ELSE "none"
                                   [] OTHER -> IF isAlreadyRunning THEN "term" ELSE "fork"]
    /\ restart' = [restart EXCEPT ![i] = (c = "restart")]
    /\ overlapped' = (overlapped \/ Busy)
    /\ UNCHANGED target

\* stop reads the lock file, sends SIGTERM to the process and sleeps.
Term(i) ==
    /\ cmd[i] = "term"
    /\ target' = [target EXCEPT ![i] = lock]
    /\ cmd' = [cmd EXCEPT ![i] = "kill"]
    /\ UNCHANGED <<lock, device, restart, installed, file, watcherVars, overlapped, missed>>

\* SIGKILL, for a process that did not stop within the second.
Kill(i) ==
    /\ cmd[i] = "kill"
    /\ device' = [p \in Pids |-> IF p = target[i] THEN "none" ELSE device[p]]
    /\ cmd' = [cmd EXCEPT ![i] = "clear"]
    /\ UNCHANGED <<lock, target, restart, installed, file, watcherVars, overlapped, missed>>

Clear(i) ==
    /\ cmd[i] = "clear"
    /\ lock' = None
    /\ target' = [target EXCEPT ![i] = None]
    /\ cmd' = [cmd EXCEPT ![i] = IF restart[i] THEN "fork" ELSE "none"]
    /\ UNCHANGED <<device, restart, installed, file, watcherVars, overlapped, missed>>

\* daemon() forks the device and the command returns; it may fail to.  A process
\* id that is still in the lock file, or about to be signalled, is not used again.
Fork(i) ==
    /\ cmd[i] = "fork"
    /\ cmd' = [cmd EXCEPT ![i] = "none"]
    /\ \/ \E p \in Pids :
            /\ device[p] = "none" /\ p # lock /\ \A j \in Invokers : target[j] # p
            /\ device' = [device EXCEPT ![p] = "starting"]
       \/ UNCHANGED device
    /\ UNCHANGED <<lock, target, restart, installed, file, watcherVars, overlapped, missed>>

CommandStep(i) == Term(i) \/ Kill(i) \/ Clear(i) \/ Fork(i)

\* The device writes its process id into the lock file and runs.
WritePid(p) ==
    /\ device[p] = "starting"
    /\ device' = [device EXCEPT ![p] = "running"]
    /\ lock' = p
    /\ UNCHANGED <<commandVars, installed, file, watcherVars, overlapped, missed>>

\* The device dies, exits because its configuration does not load, or stops on
\* SIGTERM.
Exit(p) ==
    /\ device[p] # "none"
    /\ device' = [device EXCEPT ![p] = "none"]
    /\ UNCHANGED <<lock, commandVars, installed, file, watcherVars, overlapped, missed>>

Operate(c) ==
    /\ Begin("operator", c)
    /\ UNCHANGED <<lock, device, installed, file, watcherVars, missed>>

-----------------------------------------------------------------------------
(* The watcher.                                                            *)

isDeviceRunning == lock # None

\* system() returns when the command has ended.
Returned == cmd["watcher"] = "none"

\* main takes the watched file for what is installed, and starts a device if
\* there is none.
Boot ==
    /\ pc = "boot"
    /\ current_hash' = file
    /\ missed' = (file # installed)
    /\ IF isDeviceRunning
       THEN /\ pc' = "loop" /\ deviceRunning' = TRUE
            /\ UNCHANGED <<commandVars, overlapped>>
       ELSE /\ pc' = "booted" /\ UNCHANGED deviceRunning
            /\ Begin("watcher", "start")
    /\ UNCHANGED <<lock, device, installed, file, new_hash>>

Booted ==
    /\ pc = "booted" /\ Returned
    /\ deviceRunning' = isDeviceRunning
    /\ current_hash' = IF isDeviceRunning THEN current_hash ELSE None
    /\ pc' = "loop"
    /\ UNCHANGED <<lock, device, commandVars, installed, file, new_hash, overlapped, missed>>

\* Defect: an update that is not registered counts as seen.
HashAny ==
    /\ pc = "loop"
    /\ new_hash' = file
    /\ IF file # current_hash /\ file \in Registered
       THEN /\ Begin("watcher", "stop")
            /\ pc' = "stopping" /\ UNCHANGED current_hash
       ELSE /\ pc' = "stopped?" /\ current_hash' = file
            /\ UNCHANGED <<commandVars, overlapped>>
    /\ UNCHANGED <<lock, device, installed, file, deviceRunning, missed>>

\* A new content with a registered hash is an update.
Hash ==
    /\ pc = "loop"
    /\ new_hash' = file
    /\ IF file # current_hash /\ file \in Registered
       THEN Begin("watcher", "stop") /\ pc' = "stopping"
       ELSE pc' = "stopped?" /\ UNCHANGED <<commandVars, overlapped>>
    /\ UNCHANGED <<lock, device, installed, file, deviceRunning, current_hash, missed>>

\* cp, which takes the file as it is by now or fails; the device is started in
\* either case.
Copy ==
    /\ pc = "stopping" /\ Returned
    /\ \/ installed' = file /\ missed' = (file # new_hash)
       \/ installed' = installed /\ missed' = TRUE
    /\ Begin("watcher", "start")
    /\ pc' = "starting"
    /\ UNCHANGED <<lock, device, file, deviceRunning, current_hash, new_hash>>

\* Defect: the old hash is kept when the device does not start.
StartedKeepsHash ==
    /\ pc = "starting" /\ Returned
    /\ deviceRunning' = isDeviceRunning
    /\ current_hash' = IF isDeviceRunning THEN new_hash ELSE current_hash
    /\ pc' = "stopped?"
    /\ UNCHANGED <<lock, device, commandVars, installed, file, new_hash, overlapped, missed>>

Started ==
    /\ pc = "starting" /\ Returned
    /\ deviceRunning' = isDeviceRunning
    /\ current_hash' = IF isDeviceRunning THEN new_hash ELSE None
    /\ pc' = "stopped?"
    /\ UNCHANGED <<lock, device, commandVars, installed, file, new_hash, overlapped, missed>>

NoticeStop ==
    /\ pc = "stopped?"
    /\ deviceRunning' = (deviceRunning /\ isDeviceRunning)
    /\ pc' = "started?"
    /\ UNCHANGED <<lock, device, commandVars, installed, file, current_hash, new_hash,
                   overlapped, missed>>

\* Defect: a device somebody else has started is noticed without a new hash.
NoticeStartKeepsHash ==
    /\ pc = "started?"
    /\ pc' = "loop"
    /\ deviceRunning' = (deviceRunning \/ isDeviceRunning)
    /\ UNCHANGED <<lock, device, commandVars, installed, file, current_hash, new_hash,
                   overlapped, missed>>

\* A device somebody else has started: the watched file is taken for what is
\* installed, also if it has changed since it was hashed.
NoticeStart ==
    /\ pc = "started?"
    /\ pc' = "loop"
    /\ IF ~deviceRunning /\ isDeviceRunning
       THEN /\ deviceRunning' = TRUE
            /\ current_hash' = file
            /\ missed' = (file # installed)
       ELSE UNCHANGED <<deviceRunning, current_hash, missed>>
    /\ UNCHANGED <<lock, device, commandVars, installed, file, new_hash, overlapped>>

Watch == Boot \/ Booted \/ Hash \/ Copy \/ Started \/ NoticeStop \/ NoticeStart

\* Somebody replaces the watched file.
Replace(f) ==
    /\ file' = f
    /\ UNCHANGED <<lock, device, commandVars, installed, watcherVars, overlapped, missed>>

-----------------------------------------------------------------------------
Next ==
    \/ Watch
    \/ \E i \in Invokers : CommandStep(i)
    \/ \E c \in {"start", "stop", "restart"} : Operate(c)
    \/ \E p \in Pids : WritePid(p) \/ Exit(p)
    \/ \E f \in Firmware : Replace(f)

Spec == Init /\ [][Next]_vars

\* The watcher's loop has no end, its commands come to theirs, and a device that
\* was forked goes on.
Fairness ==
    /\ WF_vars(Watch)
    /\ WF_vars(CommandStep("watcher"))
    /\ \A p \in Pids : WF_vars(WritePid(p))

FairSpec == Spec /\ Fairness

-----------------------------------------------------------------------------
(* Properties.                                                             *)

\* The types; and a device the watcher counts as running, or is about to start
\* with an update, has its hash.
TypeOK ==
    /\ lock \in Pids \union {None}
    /\ device \in [Pids -> {"none", "starting", "running"}]
    /\ cmd \in [Invokers -> {"none", "term", "kill", "clear", "fork"}]
    /\ target \in [Invokers -> Pids \union {None}]
    /\ restart \in [Invokers -> BOOLEAN]
    /\ installed \in Firmware /\ file \in Firmware
    /\ pc \in {"boot", "booted", "loop", "stopping", "starting", "stopped?", "started?"}
    /\ deviceRunning \in BOOLEAN
    /\ current_hash \in Firmware \union {None} /\ new_hash \in Firmware \union {None}
    /\ overlapped \in BOOLEAN /\ missed \in BOOLEAN
    /\ deviceRunning \/ pc = "booted" => current_hash # None
    /\ pc \in {"stopping", "starting"} => new_hash # None

Alive == {p \in Pids : device[p] # "none"}

\* Whatever commands come, and although devices die and leave their process ids
\* behind: two devices run at a time, or one runs that the lock file does not
\* know, only after commands have overlapped.
OneDevice ==
    overlapped \/ \A p \in Alive : /\ Alive = {p}
                                   /\ device[p] = "running" => lock = p

\* At the top of its loop the watcher knows what is installed, unless the file
\* changed under its copy, the copy failed, or the watcher has taken a file for
\* installed that it did not install.
FirmwareKnown ==
    pc = "loop" /\ current_hash # None => missed \/ installed = current_hash

\* A registered firmware that stays in the watched file is installed in the end,
\* with the same exceptions.
UpdateInstalled ==
    \A f \in Registered : <>[](file = f) => <>[](missed \/ installed = f)
=============================================================================
