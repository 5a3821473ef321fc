-------------------------- MODULE SimulinkProvider --------------------------
(***************************************************************************)
(* The Simulink provider (bennu-simulink-provider/main.cpp) and the solver *)
(* it serves (modelHooks.c), two processes that share points in System V   *)
(* shared memory, parameter updates in a FIFO, and two named semaphores.   *)
(*                                                                         *)
(* The solver calls init, then step over and over, then perhaps term; or   *)
(* it is killed, and may be started again.  The provider runs its          *)
(* constructor, then a thread that answers requests and a thread that      *)
(* publishes; mLock is the mutex between the two.  It may be killed too.   *)
(*                                                                         *)
(* A point is written and read as one step, a semaphore is waited for in   *)
(* another.  The simulation itself is external: the signals of a step are  *)
(* one state out of States, and every point shows the state it was written *)
(* from.                                                                   *)
(***************************************************************************)
EXTENDS Publisher, Sequences

CONSTANTS
    None,
    States,      \* states of the simulated model
    Params,      \* the model's parameters
    WriteTags,   \* the tags clients write: parameters, or unknown to the model
    Values,
    Writes,      \* the writes clients ask for: tags, and a value for them
    Realtime,    \* the solver is built with the hooks of modelhooksRealtime
    FifoSize,    \* how many updates the FIFO holds
    MaxRuns,     \* how often the solver is started
    MaxLives     \* how often the provider is started

ASSUME SimulinkAssumption ==
    /\ None \notin States /\ None \notin Values /\ None \notin {"server", "publisher"}
    /\ Values # {} /\ States # {}
    /\ Params \subseteq WriteTags
    /\ Writes \subseteq [tags : SUBSET WriteTags, val : Values]
    /\ Realtime \in BOOLEAN
    /\ {FifoSize, MaxRuns, MaxLives} \subseteq Nat

Update == [tag : WriteTags, val : Values]

VARIABLES
    solver,        \* where the solver is
    runs,          \* how often it was started
    signals,       \* the state of the model
    next,          \* the point publishState writes next
    param,         \* parameter -> value
    shm,           \* the points in shared memory
    publishSem, updatesSem,
    updatesFifo,   \* the updates in the FIFO the solver reads
    provider,      \* "off", "ctor", "attach", "open", "up" or "dead"
    lives,         \* how often it was started
    attached,      \* its semaphores are the ones their names stand for
    connected,     \* the FIFO it writes to has a reader
    mLock,         \* the thread that holds mLock
    server,        \* where the server thread is
    request,       \* the tags of a write it has still to send, and their value
    publisher,     \* where the publishing thread is
    copied,        \* how many points publishData has read
    message,       \* ... and what it has read
    (* History, read by no action's guard: *)
    lastSent,      \* parameter -> the last value put into the FIFO
    abandoned,     \* semaphores a process held when it was killed, in this run
    leftover       \* the solver was started with a permit for the points still out

solverVars == <<solver, runs, signals, next, param>>

sharedVars == <<shm, publishSem, updatesSem, updatesFifo>>

processVars == <<provider, lives, attached, connected>>

serverVars == <<server, request>>

publishVars == <<publisher, copied, message, publisherVars>>

history == <<lastSent, abandoned, leftover>>

vars == <<solverVars, sharedVars, processVars, mLock, serverVars, publishVars, history>>

-----------------------------------------------------------------------------
Ended == {"off", "killed", "done"}

NoRequest == [tags |-> {}, val |-> None]

Initial == CHOOSE v \in Values : TRUE

Init ==
    /\ solver = "off" /\ runs = 0
    /\ signals \in States
    /\ next = 1
    /\ param = [t \in Params |-> Initial]
    /\ shm = [p \in Parts |-> None]
    /\ publishSem = 0 /\ updatesSem = 0
    /\ updatesFifo = <<>>
    /\ provider = "off" /\ lives = 0
    /\ attached = FALSE /\ connected = FALSE
    /\ mLock = None
    /\ server = "idle" /\ request = NoRequest
    /\ publisher = "sleep" /\ copied = 0 /\ message = [p \in Parts |-> None]
    /\ PublisherInit
    /\ lastSent = [t \in Params |-> Initial]
    /\ abandoned = {} /\ leftover = FALSE

-----------------------------------------------------------------------------
(* The solver: init, step, term (modelHooks.c).                            *)

\* read, query or publishData is going through the points.
ProviderReads == server = "reading" \/ publisher = "reading"

\* Who has acquired the publish semaphore in the provider: these, or the
\* constructor, which reads the number of points and attaches to them.
ProviderAcquired == provider = "attach" \/ ProviderReads

\* init: a new FIFO, and semaphores that keep the value they have if they
\* exist.  A FIFO of an earlier run is unlinked: who has it open keeps it.
StartSolver ==
    /\ solver \in Ended /\ runs < MaxRuns
    /\ solver' = "init"
    /\ runs' = runs + 1
    /\ signals' \in States
    /\ next' = 1
    /\ param' = [t \in Params |-> Initial]
    /\ lastSent' = [t \in Params |-> Initial]
    /\ updatesFifo' = <<>>
    /\ abandoned' = {}
    /\ leftover' = (leftover \/ publishSem > 0 \/ ProviderAcquired)
    /\ UNCHANGED <<shm, publishSem, updatesSem, processVars, mLock, serverVars, publishVars>>

\* publishState copies a signal to its place in shared memory.
PublishPoint ==
    /\ solver \in {"init", "publish"} /\ next <= NumParts
    /\ shm' = [shm EXCEPT ![next] = signals]
    /\ next' = next + 1
    /\ UNCHANGED <<solver, runs, signals, param, publishSem, updatesSem, updatesFifo,
                   processVars, mLock, serverVars, publishVars, history>>

\* Defect: the semaphore is released before the last point is written.
PostPublishEarly ==
    /\ solver \in {"init", "publish"} /\ next >= NumParts
    /\ publishSem' = publishSem + 1
    /\ solver' = IF solver = "init" THEN "postupdates" ELSE "waitupdates"
    /\ UNCHANGED <<runs, signals, next, param, shm, updatesSem, updatesFifo, processVars,
                   mLock, serverVars, publishVars, history>>

PostPublish ==
    /\ solver \in {"init", "publish"} /\ next > NumParts
    /\ publishSem' = publishSem + 1
    /\ solver' = IF solver = "init" THEN "postupdates" ELSE "waitupdates"
    /\ UNCHANGED <<runs, signals, next, param, shm, updatesSem, updatesFifo, processVars,
                   mLock, serverVars, publishVars, history>>

\* The model has made a step, and its hook publishes and applies updates.  In
\* real time it prints the ground truth first, at some steps, and publishes at
\* some (majorTimeStep is 0); else both are done under one sem_wait.
BeginStep ==
    /\ solver = "run"
    /\ solver' \in IF Realtime THEN {"waittruth", "waitpublish", "waitupdates"}
                   ELSE {"waitpublish"}
    /\ UNCHANGED <<runs, signals, next, param, sharedVars, processVars, mLock, serverVars,
                   publishVars, history>>

WaitTruth ==
    /\ solver = "waittruth" /\ publishSem > 0
    /\ publishSem' = publishSem - 1
    /\ solver' = "truth"
    /\ UNCHANGED <<runs, signals, next, param, shm, updatesSem, updatesFifo, processVars,
                   mLock, serverVars, publishVars, history>>

\* printGroundTruth is done.
PostTruth ==
    /\ solver = "truth"
    /\ publishSem' = publishSem + 1
    /\ solver' \in {"waitpublish", "waitupdates"}
    /\ UNCHANGED <<runs, signals, next, param, shm, updatesSem, updatesFifo, processVars,
                   mLock, serverVars, publishVars, history>>

\* The signals are the ones of the step that publishes.
WaitPublish ==
    /\ solver = "waitpublish" /\ publishSem > 0
    /\ publishSem' = publishSem - 1
    /\ solver' = "publish"
    /\ signals' \in States
    /\ next' = 1
    /\ UNCHANGED <<runs, param, shm, updatesSem, updatesFifo, processVars, mLock,
                   serverVars, publishVars, history>>

WaitUpdates ==
    /\ solver = "waitupdates" /\ updatesSem > 0
    /\ updatesSem' = updatesSem - 1
    /\ solver' = "apply"
    /\ UNCHANGED <<runs, signals, next, param, shm, publishSem, updatesFifo, processVars,
                   mLock, serverVars, publishVars, history>>

\* applyUpdates reads one update; a tag that matches no parameter is ignored.
ApplyUpdate ==
    /\ solver = "apply" /\ updatesFifo # <<>>
    /\ LET u == Head(updatesFifo)
       IN  param' = IF u.tag \in Params THEN [param EXCEPT ![u.tag] = u.val] ELSE param
    /\ updatesFifo' = Tail(updatesFifo)
    /\ UNCHANGED <<solver, runs, signals, next, shm, publishSem, updatesSem,
                   processVars, mLock, serverVars, publishVars, history>>

\* Defect: the hook returns although updates are left.
PostUpdatesAtOnce ==
    /\ solver \in {"postupdates", "apply"}
    /\ updatesSem' = updatesSem + 1
    /\ solver' = "run"
    /\ UNCHANGED <<runs, signals, next, param, shm, publishSem, updatesFifo, processVars,
                   mLock, serverVars, publishVars, history>>

\* The end of init, and of step: the FIFO is empty.
PostUpdates ==
    /\ \/ solver = "postupdates"
       \/ solver = "apply" /\ updatesFifo = <<>>
    /\ updatesSem' = updatesSem + 1
    /\ solver' = "run"
    /\ UNCHANGED <<runs, signals, next, param, shm, publishSem, updatesFifo, processVars,
                   mLock, serverVars, publishVars, history>>

\* The simulation ends: term waits for both semaphores ...
BeginTerm ==
    /\ solver = "run"
    /\ solver' = "waitterm"
    /\ UNCHANGED <<runs, signals, next, param, sharedVars, processVars, mLock, serverVars,
                   publishVars, history>>

TermPublish ==
    /\ solver = "waitterm" /\ publishSem > 0
    /\ publishSem' = publishSem - 1
    /\ solver' = "term"
    /\ UNCHANGED <<runs, signals, next, param, shm, updatesSem, updatesFifo, processVars,
                   mLock, serverVars, publishVars, history>>

\* ... destroys the shared memory and unlinks the semaphores and the FIFO: the next
\* run starts with new ones.  The provider keeps semaphores that nobody else posts.
TermUpdates ==
    /\ solver = "term" /\ updatesSem > 0
    /\ solver' = "done"
    /\ publishSem' = 0 /\ updatesSem' = 0
    /\ shm' = [p \in Parts |-> None]
    /\ updatesFifo' = <<>>
    /\ attached' = FALSE
    /\ connected' = FALSE
    /\ UNCHANGED <<runs, signals, next, param, provider, lives, mLock,
                   serverVars, publishVars, history>>

SolverHolds ==
    (IF solver \in {"init", "truth", "publish", "term"} THEN {"publish"} ELSE {})
        \union (IF solver \in {"init", "postupdates", "apply"} THEN {"updates"} ELSE {})

\* ^C: "term" is not called, and no semaphore is posted.
KillSolver ==
    /\ solver \notin Ended
    /\ solver' = "killed"
    /\ connected' = FALSE
    /\ abandoned' = abandoned \union SolverHolds
    /\ UNCHANGED <<runs, signals, next, param, sharedVars, provider, lives, attached,
                   mLock, serverVars, publishVars, lastSent, leftover>>

SolverStep ==
    \/ PublishPoint \/ PostPublish
    \/ BeginStep \/ WaitTruth \/ PostTruth \/ WaitPublish
    \/ WaitUpdates \/ ApplyUpdate \/ PostUpdates
    \/ TermPublish \/ TermUpdates

-----------------------------------------------------------------------------
(* The provider's process: its constructor, and how it ends.               *)

\* The constructor opens the semaphores, and creates them locked if they do not
\* exist.
StartProvider ==
    /\ provider \in {"off", "dead"} /\ lives < MaxLives
    /\ provider' = "ctor"
    /\ lives' = lives + 1
    /\ attached' = TRUE
    /\ UNCHANGED <<solverVars, sharedVars, connected, mLock, serverVars, publishVars, history>>

\* sem_wait on a semaphore of the provider's.
CanWait(sem) == attached /\ sem > 0

\* sem_post on one: unseen, if the name stands for another by now.
Posted(sem) == IF attached THEN sem + 1 ELSE sem

\* It waits until the solver has published, reads the number of points ...
CtorWait ==
    /\ provider = "ctor" /\ CanWait(publishSem)
    /\ publishSem' = publishSem - 1
    /\ provider' = "attach"
    /\ UNCHANGED <<solverVars, shm, updatesSem, updatesFifo, lives, attached, connected,
                   mLock, serverVars, publishVars, history>>

CtorPost ==
    /\ provider = "attach"
    /\ publishSem' = Posted(publishSem)
    /\ provider' = "open"
    /\ UNCHANGED <<solverVars, shm, updatesSem, updatesFifo, lives, attached, connected,
                   mLock, serverVars, publishVars, history>>

\* ... and opens the FIFO, which fails if nobody reads it.
OpenFifo ==
    /\ provider = "open"
    /\ connected' = (solver \notin Ended)
    /\ provider' = IF solver \in Ended THEN "dead" ELSE "up"
    /\ attached' = (attached /\ solver \notin Ended)
    /\ UNCHANGED <<solverVars, sharedVars, lives, mLock, serverVars, publishVars, history>>

CtorStep == CtorWait \/ CtorPost \/ OpenFifo

ProviderHolds ==
    (IF attached /\ ProviderAcquired THEN {"publish"} ELSE {})
        \union (IF attached /\ server = "writing" THEN {"updates"} ELSE {})

\* The process ends with its threads; a semaphore stays as it is.
Die ==
    /\ provider' = "dead"
    /\ attached' = FALSE /\ connected' = FALSE
    /\ mLock' = None
    /\ server' = "idle" /\ request' = NoRequest
    /\ publisher' = "sleep" /\ copied' = 0 /\ message' = [p \in Parts |-> None]
    /\ part' = 0 /\ first' = 1 /\ sent' = [p \in Parts |-> 0]
    /\ abandoned' = abandoned \union ProviderHolds
    /\ UNCHANGED <<solverVars, sharedVars, lives, lastSent, leftover>>

KillProvider == provider \notin {"off", "dead"} /\ Die

-----------------------------------------------------------------------------
(* The server thread: query, read and write.                               *)

\* Server::run receives a request: a query or a read, or a write of some tags.
Receive ==
    /\ provider = "up" /\ server = "idle"
    /\ \/ server' = "lock" /\ UNCHANGED request
       \/ /\ server' = "waitupdates"
          /\ request' \in Writes
    /\ UNCHANGED <<solverVars, sharedVars, processVars, mLock, publishVars, history>>

\* query and read take mLock, then the semaphore, and read shared memory.
ReadLock ==
    /\ server = "lock" /\ mLock = None
    /\ mLock' = "server"
    /\ server' = "waitpublish"
    /\ UNCHANGED <<solverVars, sharedVars, processVars, request, publishVars, history>>

ReadWait ==
    /\ server = "waitpublish" /\ CanWait(publishSem)
    /\ publishSem' = publishSem - 1
    /\ server' = "reading"
    /\ UNCHANGED <<solverVars, shm, updatesSem, updatesFifo, processVars, mLock, request,
                   publishVars, history>>

\* Defect: the semaphore is posted twice.
ReadPostTwice ==
    /\ server = "reading"
    /\ publishSem' = publishSem + 2
    /\ mLock' = None
    /\ server' = "idle"
    /\ UNCHANGED <<solverVars, shm, updatesSem, updatesFifo, processVars, request,
                   publishVars, history>>

\* The reply follows.
ReadPost ==
    /\ server = "reading"
    /\ publishSem' = Posted(publishSem)
    /\ mLock' = None
    /\ server' = "idle"
    /\ UNCHANGED <<solverVars, shm, updatesSem, updatesFifo, processVars, request,
                   publishVars, history>>

WriteWait ==
    /\ server = "waitupdates" /\ CanWait(updatesSem)
    /\ updatesSem' = updatesSem - 1
    /\ server' = "writing"
    /\ UNCHANGED <<solverVars, shm, publishSem, updatesFifo, processVars, mLock, request,
                   publishVars, history>>

\* Defect: an update that finds the FIFO full is taken for sent.
WriteTagUnchecked(t) ==
    /\ server = "writing" /\ t \in request.tags
    /\ mLock = None /\ connected
    /\ updatesFifo' = IF Len(updatesFifo) < FifoSize
                      THEN Append(updatesFifo, [tag |-> t, val |-> request.val])
                      ELSE updatesFifo
    /\ lastSent' = IF t \in Params THEN [lastSent EXCEPT ![t] = request.val] ELSE lastSent
    /\ request' = [request EXCEPT !.tags = @ \ {t}]
    /\ UNCHANGED <<solverVars, shm, publishSem, updatesSem, processVars, mLock, server,
                   publishVars, abandoned, leftover>>

\* write puts a tag into the FIFO, under mLock.
WriteTag(t) ==
    /\ server = "writing" /\ t \in request.tags
    /\ mLock = None /\ connected
    /\ Len(updatesFifo) < FifoSize
    /\ updatesFifo' = Append(updatesFifo, [tag |-> t, val |-> request.val])
    /\ lastSent' = IF t \in Params THEN [lastSent EXCEPT ![t] = request.val] ELSE lastSent
    /\ request' = [request EXCEPT !.tags = @ \ {t}]
    /\ UNCHANGED <<solverVars, shm, publishSem, updatesSem, processVars, mLock, server,
                   publishVars, abandoned, leftover>>

\* Defect: the error path returns without posting the semaphore.
WriteFullReturns ==
    /\ server = "writing" /\ request.tags # {}
    /\ mLock = None /\ connected
    /\ Len(updatesFifo) >= FifoSize
    /\ server' = "idle" /\ request' = NoRequest
    /\ UNCHANGED <<solverVars, sharedVars, processVars, mLock, publishVars, history>>

\* The FIFO is full: "ERR", and the tags sent before stay sent.
WriteFull ==
    /\ server = "writing" /\ request.tags # {}
    /\ mLock = None /\ connected
    /\ Len(updatesFifo) >= FifoSize
    /\ updatesSem' = Posted(updatesSem)
    /\ server' = "idle" /\ request' = NoRequest
    /\ UNCHANGED <<solverVars, shm, publishSem, updatesFifo, processVars, mLock,
                   publishVars, history>>

\* The FIFO has no reader: SIGPIPE ends the process, with the semaphore held.
WriteBroken ==
    /\ server = "writing" /\ request.tags # {}
    /\ mLock = None /\ ~connected
    /\ Die

\* All tags are sent: "ACK".
WriteDone ==
    /\ server = "writing" /\ request.tags = {}
    /\ updatesSem' = Posted(updatesSem)
    /\ server' = "idle" /\ request' = NoRequest
    /\ UNCHANGED <<solverVars, shm, publishSem, updatesFifo, processVars, mLock,
                   publishVars, history>>

ServerStep ==
    \/ ReadLock \/ ReadWait \/ ReadPost
    \/ WriteWait \/ (\E t \in WriteTags : WriteTag(t)) \/ WriteFull \/ WriteBroken \/ WriteDone

-----------------------------------------------------------------------------
(* The publishing thread: periodicPublish and publishData.                 *)

PublishLock ==
    /\ provider = "up" /\ publisher = "sleep" /\ mLock = None
    /\ mLock' = "publisher"
    /\ publisher' = "waitpublish"
    /\ UNCHANGED <<solverVars, sharedVars, processVars, serverVars, copied, message,
                   publisherVars, history>>

\* Defect: publishData reads without the semaphore (and posts it all the same).
DataWaitSkipped ==
    /\ publisher = "waitpublish" /\ attached
    /\ publisher' = "reading"
    /\ copied' = 0
    /\ UNCHANGED <<solverVars, sharedVars, processVars, mLock, serverVars, message,
                   publisherVars, history>>

DataWait ==
    /\ publisher = "waitpublish" /\ CanWait(publishSem)
    /\ publishSem' = publishSem - 1
    /\ publisher' = "reading"
    /\ copied' = 0
    /\ UNCHANGED <<solverVars, shm, updatesSem, updatesFifo, processVars, mLock, serverVars,
                   message, publisherVars, history>>

CopyPoint ==
    /\ publisher = "reading" /\ copied < NumParts
    /\ copied' = copied + 1
    /\ message' = [message EXCEPT ![copied + 1] = shm[copied + 1]]
    /\ UNCHANGED <<solverVars, sharedVars, processVars, mLock, serverVars, publisher,
                   publisherVars, history>>

\* The message is complete and goes to Publisher::publish, under mLock still.
DataPost ==
    /\ publisher = "reading" /\ copied = NumParts
    /\ publishSem' = Posted(publishSem)
    /\ publisher' = "publishing"
    /\ BeginPublish
    /\ UNCHANGED <<solverVars, shm, updatesSem, updatesFifo, processVars, mLock, serverVars,
                   copied, message, history>>

SendMessage ==
    /\ publisher = "publishing"
    /\ PublishStep
    /\ UNCHANGED <<solverVars, sharedVars, processVars, mLock, serverVars, publisher,
                   copied, message, history>>

\* Defect: mLock is kept through the sleep.
PublishUnlockNever ==
    /\ publisher = "publishing" /\ EndPublish
    /\ publisher' = "sleep"
    /\ message' = [p \in Parts |-> None] /\ copied' = 0
    /\ UNCHANGED <<solverVars, sharedVars, processVars, mLock, serverVars, history>>

PublishUnlock ==
    /\ publisher = "publishing" /\ EndPublish
    /\ mLock' = None
    /\ publisher' = "sleep"
    /\ message' = [p \in Parts |-> None] /\ copied' = 0
    /\ UNCHANGED <<solverVars, sharedVars, processVars, serverVars, history>>

PublisherStep ==
    PublishLock \/ DataWait \/ CopyPoint \/ DataPost \/ SendMessage \/ PublishUnlock

-----------------------------------------------------------------------------
Next ==
    \/ StartSolver \/ SolverStep \/ BeginTerm \/ KillSolver
    \/ StartProvider \/ CtorStep \/ KillProvider
    \/ Receive \/ ServerStep
    \/ PublisherStep

Spec == Init /\ [][Next]_vars

\* The solver, the constructor and both threads run; a lock or a semaphore that
\* becomes free again and again is not withheld for ever from one that waits.
Fairness ==
    /\ SF_vars(SolverStep)
    /\ SF_vars(CtorStep)
    /\ SF_vars(ServerStep)
    /\ SF_vars(PublisherStep)

FairSpec == Spec /\ Fairness

-----------------------------------------------------------------------------
(* Properties.                                                             *)

StateTyped ==
    /\ solver \in Ended \union {"init", "postupdates", "run", "waittruth", "truth",
                                "waitpublish", "publish", "waitupdates", "apply",
                                "waitterm", "term"}
    /\ runs \in 0 .. MaxRuns /\ lives \in 0 .. MaxLives
    /\ signals \in States /\ next \in 1 .. NumParts + 1
    /\ param \in [Params -> Values]
    /\ shm \in [Parts -> States \union {None}]
    /\ publishSem \in Nat /\ updatesSem \in Nat
    /\ updatesFifo \in Seq(Update) /\ Len(updatesFifo) <= FifoSize
    /\ provider \in {"off", "ctor", "attach", "open", "up", "dead"}
    /\ attached \in BOOLEAN /\ connected \in BOOLEAN
    /\ mLock \in {None, "server", "publisher"}
    /\ server \in {"idle", "lock", "waitpublish", "reading", "waitupdates", "writing"}
    /\ request \in [tags : SUBSET WriteTags, val : Values \union {None}]
    /\ publisher \in {"sleep", "waitpublish", "reading", "publishing"}
    /\ copied \in 0 .. NumParts
    /\ message \in [Parts -> States \union {None}]
    /\ PublisherTypeOK
    /\ lastSent \in [Params -> Values]
    /\ abandoned \subseteq {"publish", "updates"}
    /\ leftover \in BOOLEAN

\* ... and a semaphore is posted only by who has waited for it: it never exceeds
\* the number of the solver's starts, each of which adds one.
TypeOK == StateTyped /\ publishSem <= runs /\ updatesSem <= runs

\* The solver is changing the points, or the file of the ground truth.
SolverWrites == solver \in {"init", "truth", "publish", "term"}

\* read, query and publishData never go through the points while the solver is
\* writing them, from its init on.
ExclusiveAccess == ~(SolverWrites /\ ProviderReads)

\* The publication is complete when publishData hands it to the publisher.
OneState == INSTANCE Snapshot WITH
    Points <- Parts,
    truth <- shm[1],
    publication <- IF publisher = "publishing" THEN message ELSE [p \in Parts |-> None]

\* A publication holds all points of one state of the simulation, the one the
\* solver shows when the publication is complete: never points that are not
\* initialised, nor of two steps, although both processes go point by point and
\* either may be killed.
PublishesSnapshots == OneState!SnapshotSpec

\* The value an update of the parameter will leave, or has left, in the model.
Pending(t) == {i \in DOMAIN updatesFifo : updatesFifo[i].tag = t}

\* What counts of the updates is kept, in order, while the solver runs: the last
\* value sent for a parameter in this run is the last one in the FIFO, or, when
\* none is waiting there, the parameter's.
UpdatesKept ==
    solver \notin Ended =>
        \A t \in Params :
            IF Pending(t) = {}
            THEN param[t] = lastSent[t]
            ELSE \E i \in Pending(t) : /\ \A j \in Pending(t) : j <= i
                                       /\ updatesFifo[i].val = lastSent[t]

\* write waits for mLock, which publishData holds while it waits for the publish
\* semaphore, which term holds while it waits for the updates semaphore, which
\* write holds.
TermDeadlock ==
    /\ solver = "term" /\ server = "writing" /\ request.tags # {}
    /\ mLock = "publisher" /\ publisher = "waitpublish"

\* A process that would not wait if it were scheduled.
SolverCan ==
    \/ solver \in {"init", "postupdates", "run", "truth", "publish", "apply"}
    \/ solver \in {"waittruth", "waitpublish", "waitterm"} /\ publishSem > 0
    \/ solver \in {"waitupdates", "term"} /\ updatesSem > 0

PublisherCan ==
    \/ publisher = "waitpublish" /\ CanWait(publishSem)
    \/ publisher = "reading" /\ (copied < NumParts \/ part = 0)
    \/ publisher = "publishing" /\ part > 0 /\ (part \in {1, NumParts + 2} \/ size > MTU)

ServerCan ==
    \/ server = "reading"
    \/ server = "writing" /\ (request.tags = {} \/ mLock = None)

\* Nobody waits in a circle, and no path through the hooks or the threads forgets
\* to post: when the solver waits for a semaphore, the process that has it can go
\* on, or waits for mLock, and the publishing thread that has mLock can go on.
\* Except in term, and after a process was killed that had a semaphore.
NoDeadlock ==
    solver \notin Ended /\ abandoned = {} /\ ~SolverCan =>
        \/ provider = "attach" \/ ServerCan
        \/ PublisherCan /\ (publisher = "reading" \/ server = "writing")
        \/ TermDeadlock

\* The solver goes on making steps, whatever the provider does: it waits for
\* ever only for a semaphore whose holder was killed, or in term's deadlock.
SolverRecurs ==
    []<>(solver \in Ended \union {"apply"} \/ abandoned # {} \/ TermDeadlock)

\* Every request is answered while the solver runs, unless a process is killed
\* inside its critical section, or the solver that the provider was started with
\* has ended in term: its semaphores are unlinked, and nobody posts them again.
RequestAnswered ==
    server # "idle" ~> \/ server = "idle"
                       \/ solver \in Ended \union {"term"}
                       \/ abandoned # {}
                       \/ ~attached

\* The FIFO is drained while the solver runs: with UpdatesKept, every update
\* that is answered with ACK comes into effect.  In the first run of the solver: a
\* later one may find a post too many of the updates semaphore, and then read a
\* FIFO that the provider keeps filling.
UpdatesApplied ==
    updatesFifo # <<>> ~> \/ updatesFifo = <<>>
                          \/ solver \in Ended \union {"term"}
                          \/ abandoned # {}
                          \/ runs > 1
=============================================================================
