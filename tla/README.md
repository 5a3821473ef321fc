# Formal model of sceptre-bennu

bennu emulates the field devices of an industrial control system (PLCs, RTUs,
relays, front-end processors). A device keeps tags, speaks an ICS protocol to its
clients, runs a small logic program, and exchanges points with a *provider*, the
process that holds the simulation of the plant.

This directory holds TLA+ modules translated from the C++ code, TLC
configurations that model-check them on small instances, and TLAPS proofs of the
main safety properties for all values of the constants. Paths below are relative
to `src/src/bennu/` unless they start with `src/`.

## 1. Inventory

| Component | State | Operations | Talks to | What is hard about it |
|---|---|---|---|---|
| Data manager, datastores (`devices/field-device/DataManager.hpp`, `DataStore.hpp`) | external and internal data as `std::variant<int,double,bool>`, two maps of updated tags, two mutexes | `getDataByTag`, `setDataByTag`, `setDataByPoint`, `addUpdated…Tag`, `isUpdated…Tag`, `updateInternalData`, `clearUpdatedTags` | shared by all threads of the device | getters and copies without a lock; `clearUpdatedTags` takes the mutexes crosswise; the type of a variant is whatever was stored last |
| Scan cycle (`FieldDevice.cpp`) | position in the scan | inputs, logic, outputs, internal data, clear, sleep | data manager, logic, I/O modules | runs against server and subscriber threads, without a lock around the scan |
| Input/output modules (`devices/modules/io`) | point/tag tables, a `Client` or `Subscriber` | `subscriptionHandler`, `scanOutputs` | provider | a copy of the map is written while the map goes on changing; the send can fail silently |
| Logic module (`devices/modules/logic`) | logic text, delayed tags and their countdown | `scanInputs`, `scanLogic` | data manager | delays over many scans, failed evaluations, competition with commands; test and update in two critical sections |
| Request/reply (`distributed/Client`, `Server`, `Provider`) | socket, retries left, request in progress | `send`, `run`, `messageHandler` | device and provider | timeouts racing replies, retries, lost messages, provider crashes |
| Publish/subscribe (`distributed/Publisher`, `Subscriber`) | – | fragmentation at the MTU, receive | provider to device | loss, reordering, the cut between fragments |
| Protocol servers (Modbus, DNP3, BACnet, IEC 60870-5-104) | address tables, connections, points of the stack | reads, writes, select/operate, reverse poll | protocol clients, data manager | concurrent writes; partial multi-writes; connection state |
| Protocol clients and command interface (front-end processors) | cached points, scan blocks, channels | scans, writes | remote devices, data manager | stale caches, reconnects |
| IEC 61850 GOOSE publisher (`comms/iec61850/device`) | publication schedules, threads | publish, halt | network | retransmission schedule, stopping threads |
| Daemons (`executables/daemon`) | pid lock file, firmware hash | start, stop, restart, watch | device process | a stale pid, races over the lock file |
| Providers (`executables/bennu-simulink-provider*`, `test-programs`) | the points; semaphores, shared memory and a FIFO shared with the solver | query, read, write, publish | device, solver | a solver that dies holding a semaphore; a full FIFO |
| Python layer (`src/src/pybennu`) | as request/reply | as request/reply | – | a different retry policy |
| Loaders, parsers, logging, shells | – | start-up and terminal I/O | – | nothing that outlives start-up |

Most of the repository's lines are vendored: the HELICS library under
`executables/bennu-simulink-provider-helics/helics`, the IEC 60870-5, DNP3, Modbus and
BACnet stacks under `comms/*/protocol` and similar directories, and `src/src/deps`. The
program itself is the few thousand lines of the parts above, and the models are about
those; a library enters as the environment that the code relies on.

`PROJECT.json` lists the same parts with their status, and under `hazards` each
place in the code where one of these behaviours bites.

What makes the system correct:

* a command a server acknowledges reaches the plant (or the internal data), and
  reaches it once;
* logic never overrides an operator's command made in the same scan;
* delays in the logic last as long as the configuration says;
* with steady inputs, the logic brings the device to a consistent state;
* the scan never stops: no lock and no provider can hold it for good;
* device and provider agree in the end, whatever messages were lost on the way;
* a publication is one state of the simulation, complete;
* an update that was acknowledged comes into effect in the solver;
* provider and solver never wait for each other in a circle;
* a command of a front-end processor comes in once, in order, and never on a later
  connection than its own;
* a front-end processor comes to show what its remote device holds;
* there is one device process at a time, running the firmware that was put in place;
* no order of events kills the process.

## 2. Modules and their correspondence to the code

| Module | Models |
|---|---|
| `DataManager` | the state of `DataManager.hpp`/`DataStore.hpp` and its operations |
| `FieldDevice` (extends `DataManager`) | the scan thread, the server threads and the subscriber threads of one device, with the logic left open |
| `LogicModule` (extends `FieldDevice`) | the same with the logic of `LogicModule.cpp`; implements `FieldDevice` |
| `WriteOnce` | abstract: what a request to write a point may do |
| `ReqRep` | `Client::send`, `Server::run`, `Provider::messageHandler`; implements `WriteOnce` |
| `Plant` (extends `FieldDevice`, instantiates `ReqRep`) | a device, its test provider and the network: output modules that wait in `send`, publications; implements `FieldDevice` and `WriteOnce` |
| `Publisher` | `Publisher::publish`: fragmentation at the MTU |
| `Snapshot` | abstract: what a publication of the solver's state is |
| `SimulinkProvider` (extends `Publisher`) | the Simulink provider's threads and the solver's hooks over semaphores, shared memory and FIFO; implements `Snapshot` |
| `CommandChannel` | abstract: what becomes of the commands a protocol client is given |
| `IEC104` | the IEC 60870-5-104 server, its connections and reverse poll, and the client of a front-end processor; implements `CommandChannel` |
| `Daemons` | `bennu-field-deviced` and `bennu-watcherd` over the pid lock file |
| `…Proofs` of `FieldDevice`, `LogicModule`, `ReqRep`, `Plant`, `SimulinkProvider`, `IEC104`, `Daemons` | theorems and proofs |
| `MC…` | instances for TLC |

### DataManager

`mExternalData` and `mInternalData` map points and tags to a value *with the type
it was stored as*, as the variant does: `getDataByTag<T>` throws
`bad_variant_access` when the types differ (`BadVariantAccess`). One map
`mUpdatedTags` stands for `mUpdatedBinaryTags` and `mUpdatedAnalogTags`, since a
tag's type decides which of the two it is in; the operators that act on one map
take the type. `Mutex` and `ClearMutex` record which mutex guards which access.
Binary values are 0 and 1. The configuration is constant: `ConfigAssumption`
states that a tag and its point have one type, as a configuration in which the I/O
modules and the register tables agree gives them.

### FieldDevice

`pc` follows the scan thread through `scanCycle`: `inputs` → `logic` (→ `logicadd`)
→ `copy`/`write`, for each output module and each map → `internal` → `clear` →
`sleep`. Every access to the shared data is a step of its own, so that the other
threads can act in between. A server's insertion is two steps, `BeginCommand`
(mutex taken) and `EndCommand` (tag added, mutex released, command acknowledged):
accesses that wait for that mutex cannot fall in between, accesses that use no
mutex, or the wrong one, can. Those are undefined behaviour in C++, so they either
take effect or end the process (`device = "data race"`); the copy in `scanOutputs`
and `clearUpdatedTags` are the two places. An exception that leaves its thread ends
the process too. `bennu-watcherd` does not restart it, and neither does `Dead`.

`Publish` is one point of a publication. Providers publish in any order, any
number of times or never, which includes lost and duplicated publications; the type
comes from the text, whatever the point's type.

`LogicTest` lets a line compute any value of its tag's type, or be held back.
`sent`, `accepted` and `illTyped` are history: they are in no guard.

*In time.* A server acknowledges a command whenever it comes, but the scan can
only apply what it has not yet taken. `Taken(t)` says whether the scan has passed
the point at which it takes tag `t` in this cycle; a command that comes later, or
between logic's test and its update of the same tag, is not *in time*, and the
properties say of it only what the code ensures. Run `device_lost_command` shows
what happens to such a command.

*Moving on.* `ScanMovesOn` is the safety half of "the scan comes round": with `Phase` and
`Further` as the measure, every step of the scan thread is a step forward in the cycle, in
each of its loops, and no other thread sets it back. What is left to fairness (`ScanRecurs`)
is that the thread gets the locks it waits for.

### LogicModule

Adds `inputs` (the values substituted in the logic text by `scanInputs`, tag by
tag), `mDelayedTags` (milliseconds left) and the history `since` and `quiet`. The
alternatives of `EvaluateLine` are the branches of the loop body of `scanLogic`.
The expression parser and the text substitution are the constant operator `Rhs`,
which gives a line's result for the substituted values, or `None` where cparse
throws. `LogicAssumption` excludes two configurations that the code accepts: two
lines with one left-hand side, and delays over 2^31-1 ms.

### ReqRep and WriteOnce

A request is one write. `socket` numbers a client's sockets: `Reconnect` takes the
next number, and replies to an older socket are never seen. `toServer` and
`toClient` are sets: messages of different sockets may overtake one another, and
`LoseRequest`, `LoseReply`, `Crash` and `Restart` may happen at any time. `Retry`
sends `Sent(current[c])`, the message as `zmq_msg_send` left it, which is empty;
`HandleEmpty` is what the provider makes of that: `split[1]` of a vector with one
element is undefined, so either "Unknown command type" or the end of the process.

`WriteOnce` states the promise: a request takes effect at most once, possibly after
the client has given up, and the client reports ACK only if it did.

### Plant

The composition of `FieldDevice` (without logic) and `ReqRep`, with the provider's points
`mPS` and the publications under way. The step `WriteOutput` of the scan is split into
`OutputSend` (the scan thread enters `Client::send`), `OutputRetry`, and `OutputReturn`, at
which `send` has returned, with a reply or without, and `scanOutputs` stores the value
either way. Each step is an action of the components with what it changes elsewhere. The
provider handles writes while it is up, publishes its points over and over, may crash at
any time and starts again with the values of its constructor. A publication's points
travel one by one and may be lost, delayed or overtaken. `Commands` lists the commands
that come in; it bounds the number of requests. A request is `<<o, n>>`, the `n`-th write of
output module `o`; `asks` counts them and `written` records what each one asks for, so that
`CommandsAsked` can follow a command from the server that accepted it to the last request
made for its tag and to what the provider did with it.

### Publisher and SimulinkProvider

`Publisher` knows the text of a publication by the lengths up to the end of each part
(`End`); a message is an interval of parts. As in the code, nothing is sent after the
loop: the last message leaves when the empty part after the last comma no longer fits.

`SimulinkProvider` follows four threads of control: the solver (`init`, `step`, `term` in
`modelHooks.c`), the provider's constructor, its server thread and its publishing thread.
Each wait for a semaphore or for `mLock`, each point copied and each update sent is a step.
`Realtime` selects between the two sets of hooks: those of `modelhooksRealtime` print the
ground truth in a critical section of its own (`WaitTruth`, `PostTruth`) and publish at some
steps only. Both choose their path when `step` or `term` begins (`BeginStep`, `BeginTerm`),
and then wait.
A named semaphore keeps its value when a process dies and when it is opened again
(`StartSolver`, `StartProvider`); `attached` says whether the provider's handles are still
the ones the names stand for, which `term`'s `sem_unlink` ends; `connected` whether its FIFO
has the running solver as a reader, without which a write is `SIGPIPE`. The state of the
simulation is one value, and every point shows the state it was written from, so that a
publication of points from two steps can be told. An update is one FIFO entry: `write` of
`MAX_MSG_LEN` bytes, which is below `PIPE_BUF`. `abandoned` and `leftover` are history: the
semaphores a process held when it was killed in this run; and whether the solver was ever
started with a permit for the points still out, in the semaphore or with a reader, as
happens after ^C and never after `term`, which unlinks the semaphores. The permit may also
be with the constructor, which takes the semaphore to read the number of points
(`ProviderAcquired`); only `read`, `query` and `publishData` go through the points
(`ProviderReads`).

`NoDeadlock` names, for each place where the solver waits, who then can go on: the holder of the
semaphore, or the thread that holds the `mLock` the holder waits for. `SolverCan`,
`PublisherCan` and `ServerCan` are the conditions under which a thread would not wait.

`Snapshot` is what shared memory and semaphore are for: a publication holds the points of
the one state the solver shows at that moment. The mapping takes the first point in shared
memory for the state, and `message` for the publication from the moment it is complete.

### IEC104

The server's connections (`open`, of which the library lets one be `active`), the pair
`mConnection`, `mConnected` that `connectionEventHandler` keeps, the reverse poll loop in
steps (test, binary points, analog points), the thread that handles the client's messages,
and the client with its registers. The event handler runs in the thread of its connection
and takes no lock: opening is two steps (`ConnectionOpened`, `MarkConnected`, between which
a connection is in `opening` and its thread does nothing else), closing is one. The channels
are FIFO, as TCP is; what is sent on a connection that is not active is dropped, and an ASDU
received on one closes it (`cs104_slave.c`, 1720 and 2275). Another master connects, takes
over, sends commands and is closed; that it is gone before the server notices is the same as
that it is silent. `Subtype` selects the single or the double point variants of poll and
interrogation. Analog values are doubles at both ends and floats on the wire: `Narrow` is any
idempotent function, and what a property says of an analog value that was sent it says of the
value narrowed (`Wire`). The client's register keeps the double it was told until a poll. The
scan of the device is `Apply`, which `FieldDevice` has in detail.

`CommandChannel` states what a client's commands may rely on: what is written on a connection
is sent, and taken once, in order and with its value as far as it is carried; those under way
when the connection is lost are lost, and none comes in on a later connection. That none is
taken twice is expressed by who may change an update: while the client's connection is
active, a value enters an update only when the first command pending is taken off the queue,
and otherwise updates are only cleared. That none is shown and not sent is expressed by what
may change the registers: a write, which is appended if there is a connection, a report
received, of which there are as many as were sent (`reports`), and a new start. The mapping
takes the messages to the server, decoded as `asduHandler` decodes them, for the commands
pending, and the registers for what the client shows.

### Daemons

The commands of `bennu-field-deviced`, run by the watcher (through `system`, so one at a
time) and by an operator: `Begin` is the look at the lock file, the steps of `stop`, the fork and the new
device's write of its pid are steps of their own. A device may exit at any time; its pid
stays in the file. `Boot` to `NoticeStart` are the steps of the watcher between which files
and processes may change. A hash stands for its content. Pids are not reused while the lock
file or a `stop` refers to them. `overlapped` and `missed` are history: that a command began
while another was under way, or while a device that was forked had not written its pid; and
that the file whose hash the watcher keeps is not the one installed, or its `cp` failed.

## 3. Runs

| Run | Config | Checks | Shows |
|---|---|---|---|
| `device` | `MCFieldDevice.cfg` | `TypeOK`, `AppliedBeforeCleared`, `CommandHeld`, `BadVariantOnlyFromProvider`, `ScanMovesOn` | commands accepted in time are kept, and written everywhere before they are cleared; every step of a scan is a step forward |
| `device_lost_command` | `MCFieldDevice_lost.cfg` | `EveryCommandApplied` – **violated** | a command acknowledged between the copy and the clearing is dropped |
| `logic` | `MCLogicModule.cfg` | `LogicTypeOK`, `DelayExact`, `LogicSettles` | delays are exact in scans; the logic settles once its inputs do |
| `logic_command` | `MCLogicModule_command.cfg` | `DelayExact`, `LogicSettles`, `ImplementsFieldDevice` | the same with a server competing for the delayed tag; the refinement |
| `request` | `MCReqRep.cfg` | `TypeOK`, `WritesOnce`, `SendReturns` | at most one write per request, ACK only for a write made, `send` returns |
| `request_retry` | `MCReqRep_retry.cfg` | `AnsweredMeansHandled` – **violated** | the answer a client takes for its own may be the answer to an empty retry, which overtakes the request |
| `plant` | `MCPlant.cfg` | `PlantTypeOK`, `WaitsForItsWrite`, `CommandsAsked`, `ImplementsFieldDevice`, `WritesTakeEffectOnce`, `CommandReaches`, `ScanRecurs`, `Agrees` | the scan waits for its own write only and goes round for ever; commands reach their target, and the last request made for a tag carries the last command; both abstractions hold; device and provider agree in the end |
| `simulink` | `MCSimulinkProvider.cfg` | `TypeOK`, `ExclusiveAccess`, `UpdatesKept`, `EachPartSentOnce`, `NoDeadlock`, `PublishesSnapshots`, `SolverRecurs`, `RequestAnswered`, `UpdatesApplied` | with the real-time hooks: snapshots, the last update of a parameter kept, updates applied, no circle of waits and no waiting for ever but where the properties name it |
| `simulink_restart` | `MCSimulinkProvider_restart.cfg` | `ExclusiveAccess` – **violated** | with the plain hooks: `init` of a restarted solver writes the points while `publishData` reads them |
| `iec104` | `MCIEC104.cfg` | `TypeOK`, `PollsConnected`, `CommandsDelivered`, `AnalogFollows`, `CommandArrives` | polls are begun only while a connection is open, commands come in once and in order and do arrive, analog registers follow, as far as a float tells |
| `iec104_binary` | `MCIEC104_binary.cfg` | `BinaryFollows` – **violated** | binary registers do not follow |
| `daemons` | `MCDaemons.cfg` | `TypeOK`, `OneDevice`, `FirmwareKnown`, `UpdateInstalled` | one device unless commands overlap; a registered firmware is installed in the end |

Run one with `tlc -config <cfg> <module>`.

**Bounds.** `device`: one tag of each kind the code treats differently (binary
external with a logic line, analog external, binary internal), two servers so that
both mutexes can be held at once, two output modules so that the second copies after
the first has written. One analog value is enough: no guard of `FieldDevice`
compares analog values but that of the logic, which is on the binary tag. `logic`:
two chained lines with delays 2 and 1, so that one delay runs out while the other
counts, an input value that cannot be evaluated, and a provider that changes the
second line's own tag. The servers are left to `logic_command`, which has one line,
one server and a delay of two scans, the shortest with a scan in the middle.
`request`: two clients, one of which issues two requests, so that a late reply can
meet a later request; two attempts per request in place of the code's three, which
`request_retry` keeps. `plant`: one tag, one output module, and two commands that set the
tag and set it back, so that the first write, abandoned, can take effect after the second,
and old publications can meet new values; the configurations with several tags and
modules are those of `device`. `simulink`: three points of which two share a fragment, so
that the loop of `publish` adds, flushes in the middle and flushes at the end; a FIFO of two
updates with writes of one and of two tags, one of them no parameter, so that it fills up
within a request; two states, enough to tell a torn publication; one run of the solver (a
second one is `simulink_restart`) and two of the provider: `ExclusiveAccess`,
`PublishesSnapshots` and `UpdatesApplied` are about a run that finds no permit of an earlier
one, and `RequestAnswered` about a provider whose semaphores are still linked. It takes the real-time hooks,
whose steps include those of the plain ones. `MTU` is below the length, where
the fragmentation is; the other branch is one datagram, and is covered by the proof.
`iec104`: one point of each type, one other master, channels of two messages, two changes
of a value, and three analog values of which two are the same float, so that a value that
was narrowed, an old one and a new one can be told. `iec104_binary` needs no other master and one change. `daemons`: two
pids are enough for two devices at once, three contents for an old and a new registered
firmware and one that is not registered. The state spaces are finite without any
constraint.

**Fairness.** *Scan thread* – strong fairness of its steps. `std::mutex` does not
promise a thread its turn, but no server keeps a mutex longer than one map insertion
and servers wait for network input between commands, so the scan finds it free
infinitely often and gets it. *Servers* – weak fairness of `EndCommand`: a thread
inside `addUpdated…Tag` leaves it. *Client* – weak fairness of its steps: `zmq::poll`
returns after `REQUEST_TIMEOUT` at the latest. *Plant* – the device's threads as above; weak
fairness of the provider's publishing thread while it is up, a loop with a sleep; strong fairness of the
arrival of a publication's point that is sent again and again: a network that loses every
one of them is not one the device can follow a provider over. `Agrees` needs it, the other
properties do not. *Simulink* – strong fairness of the solver's, the
constructor's and each thread's steps: POSIX semaphores and `std::mutex` promise no order
among those who wait, but every critical section is short and followed by a simulation
step or a sleep. Killing, terminating and starting are never fair. *IEC 104* –
the server's and the client's threads and the scan run; sending is strongly fair because the bound of the
channels is the model's. No fairness of other masters, of connecting or of the event handler. *Daemons* – the
watcher, its own commands and a forked device's start go on; the operator need do nothing.
In `device`, `logic` and `request` there is no fairness of publications, commands, the
network, the provider or its restart. `LogicSettles` speaks of the
time after clients and providers have become quiet (`Quiesce`, which need not
happen).

**Defect variants.** Each property of a passing run has a variant of one mapped
definition that changes it as a plausible mistake would (comments "Defect:"); with the
variant in place of the definition, TLC reports the property violated. They are used
by no specification.

## 4. What is proved

All theorems hold for every value of the constants that satisfies the named
assumptions (`ConfigAssumption`, `DeviceAssumption`, `LogicAssumption`,
`ReqRepAssumption`, `PlantAssumption`, `PublisherAssumption`, `SimulinkAssumption`,
`IEC104Assumption`, `DaemonsAssumption`).

**FieldDeviceProofs** – `TypeCorrect`, `CommandsAreHeld`, `CommandsAreApplied`,
`VariantsAreSafe`: `TypeOK`, `CommandHeld`, `AppliedBeforeCleared` and
`BadVariantOnlyFromProvider`. None of the last three is inductive: that a command is
written before it is cleared depends on which modules have already scanned which
map. The inductive invariant `IInv` adds `ScanShape` (the scan thread's local state
at each place), `LogicYields` (logic updates only a tag without a command in time),
`Written` (every module that has scanned a tag's map has sent its command, and the
one that scans has it in its copy or has sent it), `Stored` (the same for internal
tags) and `Typed` (stored variants keep their type while publications do). One lemma
per part (`ShapeStep`, `HeldStep`, `TypedStep`, `WrittenStep`, `StoredStep`).
`WrittenOncePerScan`: what a module has still to write in a scan it has not written in that
scan (`Unsent`), so that it writes a tag at most once per scan, however often the tag is set
meanwhile. `ScansEnd`: `ScanMovesOn`, from `IInv`.

**LogicModuleProofs** – `LogicImplements`: the device with this logic module
implements `FieldDevice`, whence `CommandsAreAppliedWithLogic`. `DelaysAreExact`:
`DelayExact`, for all delays and cycle times. `LInv` adds to `IInv` the relation
`Countdown`: the milliseconds left are the cycle time multiplied by the scans left,
where the scan in progress counts only for the lines it has not reached.

**ReqRepProofs** – `RequestsWriteOnce`: `ReqRep` implements `WriteOnce` for any
number of clients, requests and retries. `RInv` follows each socket: at most one
message, reply being sent or reply under way is on it (`OneAtATime`), no socket is
newer than its client's present one (`Sockets`), and what is on the present one is
the present request or an answer to it (`Underway`, `Answers`). This is where the
empty retry turns out to be harmless for *at most once*: a retry carries no write.
`SendIsBounded`: a client that waits has an attempt left, and no step gives one back or
changes its socket without using one up, so that `send` ends after at most `REQUEST_RETRIES`
timeouts; what `SendReturns` adds is only that the poll does time out.

`LogicTypeCorrect` and `ReqRepTypeCorrect` state the type invariants of these two modules;
`LogicTypeOK` bounds a delay under way by the configured one.

**PlantProofs** – `PlantIsDevice`: every step of the composition is a step of `FieldDevice`
or leaves the device as it is, so that a scan that waits for replies, gives up, and stores
values nobody took is still the scan that `FieldDevice` describes; `PlantAppliesCommands`
carries `AppliedBeforeCleared` over. `PlantWritesOnce`: the requests implement `WriteOnce`,
by the invariant of `ReqRepProofs`, whose lemmas are instantiated with the output modules as clients.
`PlantTypeCorrect` and `ScanWaits` follow from `PInv`, which adds to `WaitsForItsWrite` that
commands keep their tag's type on their way through the device (`Commanded`) and that
requests, points and publications keep their point's (`Kept`). `CommandsReachProviders` needs
the invariants of both components and two parts more: an output module numbers its requests
and waits for the last (`Numbered`), and what it wrote of a tag in this scan is what it asked
for last (`Latest`). `Latest` is inductive only with `Unsent`: a second write of a tag in one scan would
break it between its `OutputSend` and its `OutputReturn`.

**SimulinkProviderProofs** – the inductive invariant counts permits: a semaphore's value
and the processes inside its critical section add up to at most one while no run was started
with a permit left out, so that nobody reads while the solver writes (`PointsExclusive`: for
any number of runs without `leftover`, which the first run never has; that a later one may
have it is the finding below). `SemaphoresReturn` is the count in the other direction: while
no process was killed with a semaphore, every permit is in the semaphore or with a process
that will post it, so that a solver that waits waits for someone; `NoDeadlock` follows by
following that holder. From the first count,
`SnapshotsPublished`: while a publication is being copied, the points copied are those in
memory, and these are all of one state; hence the implementation of `Snapshot` in every
behaviour without `leftover`.
`UpdatesAreKept`: while the solver runs, the last value sent for a parameter in this run is
the last in the FIFO, or has been applied; of earlier values of the parameter, and of what
was in the FIFO of a solver that was killed, it says nothing. `PublicationsComplete`: the parts before the present message have been sent once,
the others not at all, and the last flush happens – for every `MTU` and all lengths.
`SimulinkTypeCorrect` bounds the semaphores.

**IEC104Proofs** – `IEC104TypeCorrect`, and `PolledIsConnected`: while `mConnected` holds, no
connection was closed since a thread set it, so that thread's connection is open. This is
where clearing `mConnected` at *every* close, which stops the polling of a client that is
still there, turns out to be needed: to clear it only for the handle that is stored would
leave the server polling nobody, since the handle may be that of another connection than the
one that set the flag. `CommandsInOrder`: the implementation of `CommandChannel`, with the invariant
`Quiet`, that nothing is under way in either direction on a connection that is gone and that
the server has no connection the client does not have, and one lemma on how each step changes
the decoded messages (`ChannelStep`).

**DaemonsProofs** – `DaemonsTypeCorrect`, with the places where the watcher must have a hash; `DevicesExclude`: without overlap a command that forks has
found the lock file empty or has killed the device named there, and every device that runs
is named there (`Alone`);
`WatcherKnowsFirmware`: from the copy to the top of the loop.

`IInv`, `LInv` and `RInv` were also checked with TLC as invariants of the runs'
instances.

**Only model-checked**: the liveness properties `CommandReaches`, `ScanRecurs`,
`LogicSettles`, `SendReturns`, `Agrees`, `SolverRecurs`, `RequestAnswered`,
`UpdatesApplied`, `AnalogFollows`, `CommandArrives` and `UpdateInstalled`, as liveness under
fairness is beyond the prover. Of `ScanRecurs`, `SendReturns` and `SolverRecurs` the safety
half is proved: `ScansEnd`, `SendIsBounded` and `SemaphoresReturn`.

## 5. Findings

* **A command can be acknowledged and dropped** (`DataManager.hpp:242`, run
  `device_lost_command`). `scanOutputs` writes a copy of the updated tags;
  `clearUpdatedTags` empties the map. A command that arrives between is acknowledged
  to the protocol client and never written.
* **A retry sends an empty message** (`distributed/Client.cpp:120`, run
  `request_retry`). `zmq_msg_send` takes the content of the message at the first
  send, so the "request again" is empty and the provider answers something else. In
  the run the first request is overtaken by the retry: the client has an error for its
  answer before the provider has seen the request. It never makes a write happen twice, which a correct retry could.
* **A restarted solver shares its points without exclusion** (`modelHooks.c:84`, run
  `simulink_restart`). The semaphores are "created in the locked state", but after a ^C,
  when `term` is not called, they exist and keep their value; `init` writes the points
  without having waited, and posts a second permit that stays. In the run `publishData` has
  taken the permit of the first run and goes through the points while `init` writes them.
* **Binary registers of an IEC 104 client are never polled** (`comms/iec60870-5/module/Server.cpp:136`,
  run `iec104_binary`). The client relies on the server's reverse polling, which sends
  binary points as types that the client's handler does not take.

Not findings, since no document promises otherwise, but worth knowing; the properties
name them as exceptions: a process killed inside a critical section leaves the others
waiting (`abandoned` in `SolverRecurs`, `RequestAnswered`); `term`, `write` and
`publishData` can wait for each other in a circle (`TermDeadlock`); a provider that outlives
a solver's `term` holds on to semaphores that are unlinked, and waits for ever when the next
solver runs (`attached` in `RequestAnswered`); a solver started again after a ^C finds a post
too many of the updates semaphore too, and may read a FIFO that the provider keeps filling
(`runs` in `UpdatesApplied`); overlapping commands of the device daemon, or one that comes before a
forked device has written its pid, start two devices (`overlapped` in `OneDevice`); the
watcher may take a file for installed that is not (`missed` in `FirmwareKnown`). And of the
IEC 104 server: when one connection opens and closes between the two writes of another's
event handler, `mConnected` holds with the handle of a connection that is closed, and the
client that is there is not polled until a connection is opened again (`AnalogFollows` asks
that the client's handle is the one stored).

## 6. Not modelled, and the plan

Out of scope: start-up configuration and parsing, dynamic loading, logging, the
interactive shell, and the vendored libraries; they keep no state of the program's that
changes while a device runs. Wall-clock time is abstracted to the order of events and the
scan count; the GOOSE publisher, whose logic is a schedule of times, is left out for that
reason, and so are the time measurements of `modelhooksRealtime`. The HELICS provider is a
loop around that library.

Of modelled parts, left out are: `QUERY` and `READ` in `ReqRep` (they change nothing; in
`SimulinkProvider`, where they take locks, they are there), requests that write several
points to the test provider, the textual substitution of the logic
(`mReplaceAllRhs`), logic with several lines for one tag, and the address tables, scaling and
multi-register requests of the Modbus server.

Next, in this order:

1. Protocol clients of Modbus, DNP3 and BACnet: scan blocks, caches and the command
   interface; several client connections behind the one `gClientConnection` of the IEC
   104 client.
2. The Modbus server's requests of several registers: what has been written when one
   fails.
3. The Python layer as a second implementation of `WriteOnce`.
4. `LogicModule` with shared left-hand sides and a narrow integer.

Theorems planned: that what an IEC 104 client shows was held by the server or written by the
client; that the firmware a watcher installs is one that is registered; cache coherence of
the protocol clients; that the Python layer implements `WriteOnce`.
