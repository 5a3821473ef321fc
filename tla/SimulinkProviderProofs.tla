----------------------- MODULE SimulinkProviderProofs -----------------------
(***************************************************************************)
(* Proofs about module SimulinkProvider: types and semaphores, that the    *)
(* points are not read while they are written, that publications are       *)
(* snapshots, that updates are kept, and that a publication holds every    *)
(* point once.                                                             *)
(***************************************************************************)
EXTENDS SimulinkProvider, SequenceTheorems, TLAPS

-----------------------------------------------------------------------------
(* The invariant, in parts.                                                *)

N(b) == IF b THEN 1 ELSE 0

ReadsAtStart == provider = "attach"
ServerReads == server = "reading"
PublisherReads == publisher = "reading"
SolverApplies == solver \in {"init", "postupdates", "apply"}
ServerWrites == server = "writing"

\* The permits for the points that are about: in the semaphore, or with a holder.
Out == publishSem + N(SolverWrites) + N(ReadsAtStart) + N(ServerReads) + N(PublisherReads)

\* Every start of the solver brings one permit for each semaphore: it is in the
\* semaphore, or with one holder, or lost.  While none was left over, there is one.
Permits ==
    /\ Out <= runs /\ (~leftover => Out <= 1)
    /\ updatesSem + N(SolverApplies) + N(ServerWrites) <= runs
    /\ leftover => runs >= 2

\* A running solver has a permit of each semaphore in it, with itself or with the
\* provider's process, unless a process was killed that had it.
Returned ==
    solver \notin Ended =>
        /\ "publish" \notin abandoned =>
              publishSem > 0 \/ SolverWrites \/ (attached /\ ProviderAcquired)
        /\ "updates" \notin abandoned =>
              updatesSem > 0 \/ SolverApplies \/ (attached /\ ServerWrites)

\* The threads run in a provider that is up, and mLock is with who has locked it.
Threads ==
    /\ provider # "up" => server = "idle" /\ publisher = "sleep"
    /\ mLock = "server" <=> server \in {"waitpublish", "reading"}
    /\ mLock = "publisher" <=> publisher # "sleep"
    /\ part > 0 <=> publisher = "publishing"
    /\ part \in 2 .. NumParts + 1 => size > MTU

\* A write that has tags left has a value for them.
Requesting == request.tags # {} => request.val \in Values

\* The FIFO that is open has its reader.
Piped == connected => solver \notin Ended

\* The points in shared memory that belong to the state the solver publishes.
Written == solver \in {"init", "publish"} => \A p \in Parts : p < next => shm[p] = signals

\* While no permit was left over, who may read the points finds all of one state ...
Readable ==
    publishSem > 0 \/ solver = "truth" \/ ReadsAtStart \/ ServerReads \/ PublisherReads

Consistent ==
    ~leftover /\ Readable
        => shm[1] \in States /\ \A p \in Parts : shm[p] = shm[1]

\* ... and what publishData has copied is what is there.
Copied ==
    ~leftover /\ PublisherReads => \A p \in Parts : p <= copied => message[p] = shm[p]

\* A publication in progress: the parts before first have been sent once, the
\* others not at all.
Progress ==
    /\ part \in 1 .. NumParts + 1 =>
          /\ first <= part
          /\ \A p \in Parts : sent[p] = IF p < first THEN 1 ELSE 0
    /\ EachPartSentOnce

SInv ==
    /\ StateTyped /\ Requesting /\ Permits /\ Returned /\ Threads /\ Piped /\ Progress
    /\ Written /\ Consistent /\ Copied
    /\ UpdatesKept

-----------------------------------------------------------------------------
(* Facts about the constants.                                              *)

\* Numbers, and the value of a parameter at the solver's start.
LEMMA ConstantFacts ==
    /\ NumParts \in Nat /\ NumParts > 0 /\ MTU \in Nat /\ 1 \in Parts
    /\ MaxRuns \in Nat /\ MaxLives \in Nat /\ FifoSize \in Nat
    /\ Initial \in Values
    /\ None \notin States /\ None \notin {"server", "publisher"}
    /\ Params \subseteq WriteTags
    /\ Writes \subseteq [tags : SUBSET WriteTags, val : Values]
<1>1. NumParts \in Nat /\ NumParts > 0 /\ MTU \in Nat /\ 1 \in Parts
  BY PublisherAssumption DEF Parts
<1>2. Initial \in Values
  BY SimulinkAssumption DEF Initial
<1> QED
  BY <1>1, <1>2, SimulinkAssumption

-----------------------------------------------------------------------------
(* Publisher::publish.                                                     *)

\* The text ends inside the loop: the empty last part never fits.
LEMMA LastPartFlushes == part = NumParts + 1 => ~Fits
<1>1. size \in Nat
  BY PublisherAssumption DEF size
<1> QED
  BY <1>1 DEF Fits, Count

\* The loop sends every part once, whatever the parts' lengths and the MTU are.
LEMMA PublishStepProgress ==
    ASSUME PublisherTypeOK, Progress, BeginPublish \/ PublishStep \/ EndPublish
    PROVE  PublisherTypeOK' /\ Progress'
<1> USE ConstantFacts DEF PublisherTypeOK, Progress, EachPartSentOnce, LoopDone, Parts
<1>1. CASE BeginPublish
  BY <1>1 DEF BeginPublish
<1>2. CASE PublishWhole
  BY <1>2 DEF PublishWhole, Datagram
<1>3. CASE AddPart
  BY <1>3, LastPartFlushes DEF AddPart
<1>4. CASE Flush
  BY <1>4 DEF Flush, Datagram
<1>5. CASE EndPublish
  BY <1>5 DEF EndPublish
<1> QED
  BY <1>1, <1>2, <1>3, <1>4, <1>5 DEF PublishStep

-----------------------------------------------------------------------------
(* Types.                                                                  *)

\* Every variable keeps its type: the solver's steps.
LEMMA SolverTyped ==
    ASSUME StateTyped, StartSolver \/ SolverStep \/ BeginTerm \/ KillSolver
    PROVE  StateTyped'
<1> USE ConstantFacts DEF StateTyped, Ended, sharedVars, processVars, serverVars, publishVars,
        publisherVars, history, PublisherTypeOK
<1>1. CASE StartSolver
  BY <1>1, EmptySeq, LenProperties DEF StartSolver
<1>2. CASE PublishPoint
  BY <1>2 DEF PublishPoint, Parts
<1>3. CASE PostPublish
  BY <1>3 DEF PostPublish
<1>4. CASE WaitPublish
  BY <1>4 DEF WaitPublish
<1>4a. CASE BeginStep
  BY <1>4a DEF BeginStep
<1>4b. CASE WaitTruth
  BY <1>4b DEF WaitTruth
<1>4e. CASE TermPublish
  BY <1>4e DEF TermPublish
<1>4c. CASE PostTruth
  BY <1>4c DEF PostTruth
<1>4d. CASE BeginTerm
  BY <1>4d DEF BeginTerm
<1>5. CASE WaitUpdates
  BY <1>5 DEF WaitUpdates
<1>6. CASE ApplyUpdate
  <2>1. /\ Head(updatesFifo) \in Update
        /\ Tail(updatesFifo) \in Seq(Update)
        /\ Len(Tail(updatesFifo)) = Len(updatesFifo) - 1
        /\ Len(updatesFifo) \in Nat
    BY <1>6, HeadTailProperties, LenProperties DEF ApplyUpdate
  <2>2. Head(updatesFifo).val \in Values
    BY <2>1 DEF Update
  <2>3. param' \in [Params -> Values]
    BY <1>6, <2>2 DEF ApplyUpdate
  <2> QED
    BY <1>6, <2>1, <2>3 DEF ApplyUpdate
<1>7. CASE PostUpdates
  BY <1>7 DEF PostUpdates
<1>8. CASE TermUpdates
  <2>1. <<>> \in Seq(Update) /\ Len(<<>>) <= FifoSize
    BY EmptySeq
  <2>2. /\ shm' \in [Parts -> States \union {None}]
        /\ publishSem' \in Nat /\ updatesSem' \in Nat
    BY <1>8 DEF TermUpdates
  <2>3. /\ solver' = "done" /\ updatesFifo' = <<>> /\ attached' = FALSE /\ connected' = FALSE
        /\ UNCHANGED <<runs, signals, next, param, provider, lives, mLock, serverVars,
                       publishVars, history>>
    BY <1>8 DEF TermUpdates
  <2> HIDE DEF Ended
  <2>4. solver' \in Ended
    BY <2>3 DEF Ended
  <2> QED
    BY <2>1, <2>2, <2>3, <2>4
<1>9. CASE KillSolver
  <2>1. abandoned' \subseteq {"publish", "updates"}
    BY <1>9 DEF KillSolver, SolverHolds
  <2>2. /\ solver' = "killed" /\ connected' = FALSE
        /\ UNCHANGED <<runs, signals, next, param, sharedVars, provider, lives, attached,
                       mLock, serverVars, publishVars, lastSent, leftover>>
    BY <1>9 DEF KillSolver
  <2>3. solver' \in Ended /\ connected' \in BOOLEAN
    BY <2>2
  <2>4. UNCHANGED <<runs, signals, next, param, shm, publishSem, updatesSem, updatesFifo,
                    provider, lives, attached, mLock, server, request, publisher, copied,
                    message, part, first, sent, lastSent, leftover>>
    BY <2>2
  <2> HIDE DEF Ended
  <2> QED
    BY <2>1, <2>3, <2>4
<1> QED
  BY <1>1, <1>2, <1>3, <1>4, <1>4a, <1>4b, <1>4c, <1>4d, <1>4e, <1>5, <1>6, <1>7, <1>8,
     <1>9 DEF SolverStep

\* The provider's process.
LEMMA ProcessTyped ==
    ASSUME StateTyped, Requesting, StartProvider \/ CtorStep \/ Die
    PROVE  StateTyped' /\ Requesting'
<1> USE ConstantFacts DEF StateTyped, Requesting, Ended, solverVars, sharedVars, serverVars,
        publishVars, publisherVars, history, PublisherTypeOK
<1>1. CASE StartProvider
  BY <1>1 DEF StartProvider
<1>2. CASE CtorWait
  BY <1>2 DEF CtorWait, CanWait
<1>3. CASE CtorPost
  BY <1>3 DEF CtorPost, Posted
<1>4. CASE OpenFifo
  BY <1>4 DEF OpenFifo
<1>5. CASE Die
  <2>1. NoRequest \in [tags : SUBSET WriteTags, val : Values \union {None}]
    BY DEF NoRequest
  <2>2. abandoned' \subseteq {"publish", "updates"}
    BY <1>5 DEF Die, ProviderHolds
  <2>3. part' \in 0 .. NumParts + 2 /\ first' \in 1 .. NumParts + 1 /\ sent' \in [Parts -> Nat]
        /\ copied' \in 0 .. NumParts
    BY <1>5 DEF Die
  <2> QED
    BY <1>5, <2>1, <2>2, <2>3 DEF Die, NoRequest
<1> QED
  BY <1>1, <1>2, <1>3, <1>4, <1>5 DEF CtorStep

\* Its server thread.
LEMMA ServerTyped ==
    ASSUME StateTyped, Requesting, Receive \/ (ServerStep /\ ~WriteBroken)
    PROVE  StateTyped' /\ Requesting'
<1> USE ConstantFacts DEF StateTyped, solverVars, sharedVars, processVars, publishVars,
        publisherVars, history, PublisherTypeOK, Requesting
<1>1. CASE Receive
  BY <1>1 DEF Receive
<1>2. CASE ReadLock
  BY <1>2 DEF ReadLock
<1>3. CASE ReadWait
  BY <1>3 DEF ReadWait, CanWait
<1>4. CASE ReadPost
  BY <1>4 DEF ReadPost, Posted
<1>5. CASE WriteWait
  BY <1>5 DEF WriteWait, CanWait
<1>6. ASSUME NEW t \in WriteTags, WriteTag(t) PROVE StateTyped' /\ Requesting'
  <2>1. [tag |-> t, val |-> request.val] \in Update
    BY <1>6 DEF WriteTag, Update
  <2>2. Len(updatesFifo) \in Nat
    BY LenProperties
  <2>3. updatesFifo' \in Seq(Update) /\ Len(updatesFifo') <= FifoSize
    BY <1>6, <2>1, <2>2, AppendProperties DEF WriteTag
  <2>4. lastSent' \in [Params -> Values]
    BY <1>6 DEF WriteTag
  <2>5. request' \in [tags : SUBSET WriteTags, val : Values \union {None}]
        /\ request'.val = request.val
    BY <1>6 DEF WriteTag
  <2> QED
    BY <1>6, <2>3, <2>4, <2>5 DEF WriteTag
<1>7. NoRequest \in [tags : SUBSET WriteTags, val : Values \union {None}]
      /\ NoRequest.tags = {}
  BY DEF NoRequest
<1>8. CASE WriteFull
  BY <1>7, <1>8 DEF WriteFull, Posted
<1>9. CASE WriteDone
  BY <1>7, <1>9 DEF WriteDone, Posted
<1> QED
  BY <1>1, <1>2, <1>3, <1>4, <1>5, <1>6, <1>8, <1>9 DEF ServerStep

\* Its publishing thread.
LEMMA PublisherTyped ==
    ASSUME StateTyped, Progress, PublisherStep
    PROVE  StateTyped' /\ UNCHANGED request
<1> USE ConstantFacts DEF StateTyped, solverVars, sharedVars, processVars, serverVars,
        publisherVars, history
<1>1. CASE PublishLock
  BY <1>1 DEF PublishLock, PublisherTypeOK
<1>2. CASE DataWait
  BY <1>2 DEF DataWait, CanWait, PublisherTypeOK
<1>3. CASE CopyPoint
  BY <1>3 DEF CopyPoint, PublisherTypeOK, Parts
<1>4. CASE DataPost
  <2>1. PublisherTypeOK'
    BY <1>4, PublishStepProgress DEF DataPost
  <2> QED
    BY <1>4, <2>1 DEF DataPost, Posted
<1>5. CASE SendMessage
  <2>1. PublisherTypeOK'
    BY <1>5, PublishStepProgress DEF SendMessage
  <2> QED
    BY <1>5, <2>1 DEF SendMessage
<1>6. CASE PublishUnlock
  <2>1. PublisherTypeOK'
    BY <1>6, PublishStepProgress DEF PublishUnlock
  <2> QED
    BY <1>6, <2>1 DEF PublishUnlock
<1> QED
  BY <1>1, <1>2, <1>3, <1>4, <1>5, <1>6 DEF PublisherStep

\* All steps keep the types.
LEMMA TypedStep == SInv /\ [Next]_vars => StateTyped' /\ Requesting'
<1> SUFFICES ASSUME SInv, [Next]_vars PROVE StateTyped' /\ Requesting'
  OBVIOUS
<1>0. StateTyped /\ Requesting /\ Progress
  BY DEF SInv
<1>1. CASE StartSolver \/ SolverStep \/ BeginTerm \/ KillSolver
  <2>1. UNCHANGED request
    BY <1>1 DEF StartSolver, SolverStep, PublishPoint, PostPublish, BeginStep, WaitTruth,
                PostTruth, WaitPublish, WaitUpdates,
                ApplyUpdate, PostUpdates, TermUpdates, BeginTerm, TermPublish, KillSolver,
                serverVars
  <2> QED
    BY <1>0, <1>1, <2>1, SolverTyped DEF Requesting
<1>2. CASE StartProvider \/ CtorStep \/ KillProvider \/ WriteBroken
  BY <1>0, <1>2, ProcessTyped DEF KillProvider, WriteBroken
<1>3. CASE Receive \/ (ServerStep /\ ~WriteBroken)
  BY <1>0, <1>3, ServerTyped
<1>4. CASE PublisherStep
  BY <1>0, <1>4, PublisherTyped DEF Requesting
<1>5. CASE UNCHANGED vars
  BY <1>0, <1>5 DEF StateTyped, PublisherTypeOK, Requesting, vars, solverVars, sharedVars,
                    processVars, serverVars, publishVars, publisherVars, history
<1> QED
  BY <1>1, <1>2, <1>3, <1>4, <1>5 DEF Next

-----------------------------------------------------------------------------
(* The semaphores.                                                         *)

\* No step makes a permit but the solver's start.
LEMMA PermitsStep == SInv /\ [Next]_vars => Permits'
<1> SUFFICES ASSUME SInv, [Next]_vars PROVE Permits'
  OBVIOUS
<1>0. /\ Permits /\ publishSem \in Nat /\ updatesSem \in Nat /\ runs \in Nat
      /\ leftover \in BOOLEAN
  BY ConstantFacts DEF SInv, StateTyped
<1> USE <1>0 DEF Permits, Out, N, SolverWrites, ReadsAtStart, ServerReads, PublisherReads,
        SolverApplies, ServerWrites, Ended
<1>1. ASSUME UNCHANGED <<publishSem, updatesSem, runs, solver, provider, server, publisher,
                         leftover>>
      PROVE  Permits'
  BY <1>1
<1>2. CASE StartSolver
  <2>1. /\ UNCHANGED <<publishSem, updatesSem, provider, server, publisher>>
        /\ ~SolverWrites /\ ~SolverApplies /\ SolverWrites' /\ SolverApplies'
        /\ runs' = runs + 1 /\ leftover' = (leftover \/ publishSem > 0 \/ ProviderAcquired)
    BY <1>2 DEF StartSolver, processVars, serverVars, publishVars
  <2>2. Out' = Out + 1 /\ Out' <= runs' /\ updatesSem' + 1 + N(ServerWrites)' <= runs'
    BY <2>1
  <2>3. leftover' => runs' >= 2
    BY <2>1 DEF ProviderAcquired, ProviderReads
  <2>4. ASSUME ~leftover' PROVE Out' <= 1
    <3>0. ~(publishSem > 0) /\ ~ProviderAcquired
      BY <2>1, <2>4
    <3>1. publishSem = 0 /\ ~ReadsAtStart /\ ~ServerReads /\ ~PublisherReads
      BY <3>0 DEF ProviderAcquired, ProviderReads
    <3> HIDE DEF SolverWrites, ReadsAtStart, ServerReads, PublisherReads
    <3>2. Out = 0
      BY <2>1, <3>1
    <3> QED
      BY <2>2, <3>2
  <2> QED
    BY <2>1, <2>2, <2>3, <2>4
<1>3. CASE PostPublish \/ WaitTruth \/ PostTruth \/ WaitPublish \/ TermPublish
  BY <1>3 DEF PostPublish, WaitTruth, PostTruth, WaitPublish, TermPublish, processVars,
              serverVars, publishVars, history
<1>4. CASE BeginStep \/ BeginTerm \/ WaitUpdates \/ PostUpdates \/ TermUpdates
  BY <1>4 DEF BeginStep, BeginTerm, WaitUpdates, PostUpdates, TermUpdates, sharedVars,
              processVars, serverVars, publishVars, history
<1>5. CASE KillSolver
  BY <1>5 DEF KillSolver, sharedVars, serverVars, publishVars
<1>6. CASE StartProvider \/ CtorStep
  BY <1>6 DEF StartProvider, CtorStep, CtorWait, CtorPost, OpenFifo, CanWait, Posted,
              solverVars, sharedVars, serverVars, publishVars, history
<1>7. CASE KillProvider \/ WriteBroken
  BY <1>7 DEF KillProvider, WriteBroken, Die, solverVars, sharedVars
<1>8. CASE Receive \/ ReadLock \/ ReadWait \/ ReadPost
  BY <1>8 DEF Receive, ReadLock, ReadWait, ReadPost, CanWait, Posted, solverVars, sharedVars,
              processVars, publishVars, history
<1>9. CASE WriteWait \/ WriteFull \/ WriteDone
  BY <1>9 DEF WriteWait, WriteFull, WriteDone, CanWait, Posted, solverVars, processVars,
              publishVars, history
<1>10. CASE PublishLock \/ DataWait \/ DataPost \/ PublishUnlock
  BY <1>10 DEF PublishLock, DataWait, DataPost, PublishUnlock, CanWait, Posted, solverVars,
               sharedVars, processVars, serverVars, history
<1>11. CASE \/ PublishPoint \/ ApplyUpdate \/ (\E t \in WriteTags : WriteTag(t))
            \/ CopyPoint \/ SendMessage \/ UNCHANGED vars
  BY <1>1, <1>11
     DEF PublishPoint, ApplyUpdate, WriteTag, CopyPoint, SendMessage, vars, solverVars,
         sharedVars, processVars, serverVars, publishVars, history
<1> QED
  BY <1>2, <1>3, <1>4, <1>5, <1>6, <1>7, <1>8, <1>9, <1>10, <1>11
     DEF Next, SolverStep, ServerStep, PublisherStep

\* Every path that has waited for a semaphore posts it, the error paths included.
LEMMA ReturnedStep == SInv /\ [Next]_vars => Returned'
<1> SUFFICES ASSUME SInv, [Next]_vars PROVE Returned'
  OBVIOUS
<1>0. /\ Returned /\ Threads /\ publishSem \in Nat /\ updatesSem \in Nat
      /\ attached \in BOOLEAN
  BY DEF SInv, StateTyped
<1> USE <1>0 DEF Returned, SolverWrites, ProviderAcquired, ProviderReads, SolverApplies, ServerWrites, Ended
<1>1. ASSUME UNCHANGED <<publishSem, updatesSem, solver, provider, server, publisher,
                         attached, abandoned>>
      PROVE  Returned'
  BY <1>1
<1>2. CASE StartSolver
  BY <1>2 DEF StartSolver
<1>3. CASE PostPublish \/ WaitTruth \/ PostTruth \/ WaitPublish \/ TermPublish
  BY <1>3 DEF PostPublish, WaitTruth, PostTruth, WaitPublish, TermPublish, processVars,
              serverVars, publishVars, history
<1>4. CASE BeginStep \/ BeginTerm \/ WaitUpdates \/ PostUpdates \/ TermUpdates
  BY <1>4 DEF BeginStep, BeginTerm, WaitUpdates, PostUpdates, TermUpdates, sharedVars,
              processVars, serverVars, publishVars, history
<1>5. CASE KillSolver
  BY <1>5 DEF KillSolver
<1>6. CASE StartProvider \/ CtorStep
  BY <1>6 DEF StartProvider, CtorStep, CtorWait, CtorPost, OpenFifo, CanWait, Posted, Threads,
              solverVars, sharedVars, serverVars, publishVars, history
<1>7. CASE KillProvider \/ WriteBroken
  BY <1>7 DEF KillProvider, WriteBroken, Die, ProviderHolds, solverVars, sharedVars
<1>8. CASE Receive \/ ReadLock \/ ReadWait \/ ReadPost
  BY <1>8 DEF Receive, ReadLock, ReadWait, ReadPost, CanWait, Posted, solverVars, sharedVars,
              processVars, publishVars, history
<1>9. CASE WriteWait \/ WriteFull \/ WriteDone
  BY <1>9 DEF WriteWait, WriteFull, WriteDone, CanWait, Posted, solverVars, processVars,
              publishVars, history
<1>10. CASE PublishLock \/ DataWait \/ DataPost \/ PublishUnlock
  BY <1>10 DEF PublishLock, DataWait, DataPost, PublishUnlock, CanWait, Posted, solverVars,
               sharedVars, processVars, serverVars, history
<1>11. CASE \/ PublishPoint \/ ApplyUpdate \/ (\E t \in WriteTags : WriteTag(t))
            \/ CopyPoint \/ SendMessage \/ UNCHANGED vars
  BY <1>1, <1>11
     DEF PublishPoint, ApplyUpdate, WriteTag, CopyPoint, SendMessage, vars, solverVars,
         sharedVars, processVars, serverVars, publishVars, history
<1> QED
  BY <1>2, <1>3, <1>4, <1>5, <1>6, <1>7, <1>8, <1>9, <1>10, <1>11
     DEF Next, SolverStep, ServerStep, PublisherStep

\* mLock is taken and released by the thread that has it.
LEMMA ThreadsStep == SInv /\ [Next]_vars => Threads'
<1> SUFFICES ASSUME SInv, [Next]_vars PROVE Threads'
  OBVIOUS
<1>0. Threads /\ PublisherTypeOK
  BY DEF SInv, StateTyped
<1> USE <1>0, ConstantFacts DEF Threads, PublisherTypeOK
<1>1. ASSUME UNCHANGED <<mLock, server, publisher, part>>, provider # "up" \/ provider' = "up"
      PROVE  Threads'
  BY <1>1
<1>2. CASE \/ StartSolver \/ SolverStep \/ BeginTerm \/ KillSolver
           \/ StartProvider \/ CtorStep \/ UNCHANGED vars
  BY <1>1, <1>2
     DEF StartSolver, SolverStep, PublishPoint, PostPublish, BeginStep, WaitTruth, PostTruth,
         WaitPublish, WaitUpdates, ApplyUpdate, PostUpdates, BeginTerm, TermPublish,
         TermUpdates, KillSolver, StartProvider, CtorStep, CtorWait, CtorPost, OpenFifo, vars,
         processVars, serverVars, publishVars, publisherVars
<1>3. CASE KillProvider \/ WriteBroken
  BY <1>3 DEF KillProvider, WriteBroken, Die
<1>4. CASE Receive \/ WriteWait \/ (\E t \in WriteTags : WriteTag(t)) \/ WriteFull \/ WriteDone
  BY <1>4 DEF Receive, WriteWait, WriteTag, WriteFull, WriteDone, processVars, publishVars,
              publisherVars
<1>5. CASE ReadLock \/ ReadWait \/ ReadPost
  BY <1>5 DEF ReadLock, ReadWait, ReadPost, processVars, publishVars, publisherVars
<1>6. CASE PublishLock \/ DataWait \/ CopyPoint
  BY <1>6 DEF PublishLock, DataWait, CopyPoint, processVars, serverVars, publisherVars
<1>7. CASE DataPost \/ PublishUnlock
  BY <1>7 DEF DataPost, PublishUnlock, BeginPublish, EndPublish, LoopDone, processVars,
              serverVars
<1>8. CASE SendMessage
  BY <1>8 DEF SendMessage, PublishStep, PublishWhole, AddPart, Flush, processVars, serverVars
<1> QED
  BY <1>2, <1>3, <1>4, <1>5, <1>6, <1>7, <1>8 DEF Next, ServerStep, PublisherStep

\* The FIFO that is open has its reader.
LEMMA PipedStep == SInv /\ [Next]_vars => Piped'
<1> SUFFICES ASSUME SInv, [Next]_vars PROVE Piped'
  OBVIOUS
<1>0. Piped
  BY DEF SInv
<1>1. ASSUME UNCHANGED connected, solver' \notin Ended \/ UNCHANGED solver PROVE Piped'
  BY <1>0, <1>1 DEF Piped
<1>2. CASE StartSolver \/ SolverStep \/ BeginTerm \/ KillSolver
  BY <1>0, <1>1, <1>2
     DEF StartSolver, SolverStep, PublishPoint, PostPublish, BeginStep, WaitTruth, PostTruth,
         WaitPublish, WaitUpdates,
         ApplyUpdate, PostUpdates, TermUpdates, BeginTerm, TermPublish, KillSolver,
         processVars, Ended, Piped
<1>3. CASE StartProvider \/ CtorStep \/ KillProvider \/ WriteBroken
  BY <1>1, <1>3
     DEF StartProvider, CtorStep, CtorWait, CtorPost, OpenFifo, KillProvider, WriteBroken, Die,
         solverVars, Piped
<1>4. CASE Receive \/ (ServerStep /\ ~WriteBroken) \/ PublisherStep \/ UNCHANGED vars
  BY <1>1, <1>4
     DEF Receive, ServerStep, ReadLock, ReadWait, ReadPost, WriteWait, WriteTag, WriteFull,
         WriteDone, PublisherStep, PublishLock, DataWait, CopyPoint, DataPost, SendMessage,
         PublishUnlock, vars, solverVars, processVars
<1> QED
  BY <1>2, <1>3, <1>4 DEF Next

\* A publication goes on.
LEMMA ProgressStep == SInv /\ [Next]_vars => Progress'
<1> SUFFICES ASSUME SInv, [Next]_vars PROVE Progress'
  OBVIOUS
<1>0. PublisherTypeOK /\ Progress
  BY DEF SInv, StateTyped
<1>1. ASSUME UNCHANGED publisherVars PROVE Progress'
  BY <1>0, <1>1 DEF publisherVars, Progress, EachPartSentOnce, LoopDone
<1>2. CASE DataPost \/ SendMessage \/ PublishUnlock
  BY <1>0, <1>2, PublishStepProgress DEF DataPost, SendMessage, PublishUnlock
<1>3. CASE KillProvider \/ WriteBroken
  BY <1>0, <1>3, ConstantFacts
     DEF KillProvider, WriteBroken, Die, Progress, EachPartSentOnce, LoopDone
<1>4. CASE StartSolver \/ SolverStep \/ BeginTerm \/ KillSolver \/ StartProvider \/ CtorStep
  BY <1>1, <1>4
     DEF StartSolver, SolverStep, PublishPoint, PostPublish, BeginStep, WaitTruth, PostTruth,
         WaitPublish, WaitUpdates,
         ApplyUpdate, PostUpdates, TermUpdates, BeginTerm, TermPublish, KillSolver,
         StartProvider,
         CtorStep, CtorWait, CtorPost, OpenFifo, publishVars
<1>5. CASE Receive \/ (ServerStep /\ ~WriteBroken) \/ PublishLock \/ DataWait \/ CopyPoint
           \/ UNCHANGED vars
  BY <1>1, <1>5
     DEF Receive, ServerStep, ReadLock, ReadWait, ReadPost, WriteWait, WriteTag, WriteFull,
         WriteDone, PublishLock, DataWait, CopyPoint, vars, publishVars
<1> QED
  BY <1>2, <1>3, <1>4, <1>5 DEF Next, PublisherStep

-----------------------------------------------------------------------------
(* Shared memory.                                                          *)

\* publishState goes through the points in order.
LEMMA WrittenStep == SInv /\ [Next]_vars => Written'
<1> SUFFICES ASSUME SInv, [Next]_vars PROVE Written'
  OBVIOUS
<1>0. Written /\ StateTyped
  BY DEF SInv
<1>1. ASSUME UNCHANGED <<solver, next, shm, signals>> PROVE Written'
  BY <1>0, <1>1 DEF Written
<1>2. CASE PublishPoint
  BY <1>0, <1>2 DEF PublishPoint, Written, StateTyped, Parts
<1>3. CASE StartSolver \/ BeginStep \/ WaitTruth \/ PostTruth \/ WaitPublish
  BY <1>3 DEF StartSolver, BeginStep, WaitTruth, PostTruth, WaitPublish, Written, Parts
<1>4. CASE \/ PostPublish \/ WaitUpdates \/ PostUpdates \/ TermUpdates
           \/ BeginTerm \/ TermPublish \/ KillSolver
  BY <1>4 DEF PostPublish, WaitUpdates, PostUpdates, TermUpdates, BeginTerm, TermPublish,
              KillSolver, Written
<1>5. CASE ApplyUpdate \/ StartProvider \/ CtorStep \/ KillProvider
  BY <1>1, <1>5
     DEF ApplyUpdate, StartProvider, CtorStep, CtorWait, CtorPost, OpenFifo, KillProvider, Die,
         solverVars, sharedVars
<1>6. CASE Receive \/ ServerStep \/ PublisherStep \/ UNCHANGED vars
  BY <1>1, <1>6
     DEF Receive, ServerStep, ReadLock, ReadWait, ReadPost, WriteWait, WriteTag, WriteFull,
         WriteBroken, WriteDone, Die, PublisherStep, PublishLock, DataWait, CopyPoint, DataPost,
         SendMessage, PublishUnlock, vars, solverVars, sharedVars
<1> QED
  BY <1>2, <1>3, <1>4, <1>5, <1>6 DEF Next, SolverStep

\* The solver and the provider are never both at the points, in any run that
\* started with no permit out.
LEMMA Apart ==
    ASSUME SInv, ~leftover
    PROVE  SolverWrites => publishSem = 0 /\ ~ReadsAtStart /\ ~ServerReads /\ ~PublisherReads
<1>1. Permits /\ publishSem \in Nat
  BY DEF SInv, StateTyped
<1> QED
  BY <1>1 DEF Permits, Out, N

\* The semaphore gives access to all points of one state.
LEMMA ConsistentStep == SInv /\ [Next]_vars => Consistent'
<1> SUFFICES ASSUME SInv, [Next]_vars, ~leftover' PROVE Consistent'
  BY DEF Consistent
<1>0. Consistent /\ Written /\ StateTyped /\ publishSem \in Nat
  BY DEF SInv, StateTyped
<1> USE DEF Consistent, Readable, ReadsAtStart, ServerReads, PublisherReads
<1>1. ASSUME UNCHANGED <<leftover, shm>>, Readable' => Readable PROVE Consistent'
  BY <1>0, <1>1
<1>2. CASE StartSolver
  BY <1>0, <1>2 DEF StartSolver, ProviderAcquired, ProviderReads, processVars, serverVars, publishVars, history
<1>3. CASE PublishPoint \/ TermUpdates
  <2>1. SolverWrites /\ ~leftover
    BY <1>3 DEF PublishPoint, TermUpdates, SolverWrites, history
  <2>2. /\ publishSem' = publishSem \/ publishSem' = 0
        /\ UNCHANGED <<server, publisher, provider>>
    BY <1>3 DEF PublishPoint, TermUpdates, processVars, serverVars, publishVars
  <2>3. solver' # "truth"
    BY <1>3 DEF PublishPoint, TermUpdates
  <2> QED
    BY <2>1, <2>2, <2>3, Apart
<1>4. CASE PostPublish
  BY <1>0, <1>4, ConstantFacts DEF PostPublish, Written, history, StateTyped, Parts
<1>5. CASE \/ BeginStep \/ WaitTruth \/ PostTruth \/ WaitPublish
           \/ BeginTerm \/ TermPublish \/ WaitUpdates \/ ApplyUpdate \/ PostUpdates \/ KillSolver
  BY <1>0, <1>1, <1>5
     DEF BeginStep, WaitTruth, PostTruth, WaitPublish, BeginTerm, TermPublish, WaitUpdates,
         ApplyUpdate, PostUpdates, KillSolver, processVars, sharedVars, serverVars,
         publishVars, history
<1>6. CASE StartProvider \/ CtorStep \/ KillProvider \/ WriteBroken
  BY <1>0, <1>1, <1>6
     DEF StartProvider, CtorStep, CtorWait, CtorPost, OpenFifo, CanWait, Posted, KillProvider,
         WriteBroken, Die, solverVars, sharedVars, serverVars, publishVars, history
<1>7. CASE Receive \/ ReadLock \/ ReadWait \/ ReadPost
  BY <1>0, <1>1, <1>7
     DEF Receive, ReadLock, ReadWait, ReadPost, CanWait, Posted, solverVars, sharedVars,
         processVars,
         publishVars, history
<1>8. CASE WriteWait \/ (\E t \in WriteTags : WriteTag(t)) \/ WriteFull \/ WriteDone
  BY <1>0, <1>1, <1>8
     DEF WriteWait, WriteTag, WriteFull, WriteDone, solverVars, processVars, publishVars,
         history
<1>9. CASE PublisherStep \/ UNCHANGED vars
  BY <1>0, <1>1, <1>9
     DEF PublisherStep, PublishLock, DataWait, CopyPoint, DataPost, SendMessage, PublishUnlock,
         CanWait, Posted, vars, solverVars, sharedVars, processVars, serverVars, publishVars,
         history
<1> QED
  BY <1>2, <1>3, <1>4, <1>5, <1>6, <1>7, <1>8, <1>9 DEF Next, SolverStep, ServerStep

\* publishData copies what stays as it is.
LEMMA CopiedStep == SInv /\ [Next]_vars => Copied'
<1> SUFFICES ASSUME SInv, [Next]_vars, ~leftover' PROVE Copied'
  BY DEF Copied
<1>0. Copied /\ StateTyped
  BY DEF SInv, StateTyped
<1> USE DEF Copied, PublisherReads
<1>1. ASSUME ~leftover, UNCHANGED <<shm, publisher, copied, message>> PROVE Copied'
  BY <1>0, <1>1
<1>2. CASE PublishPoint \/ TermUpdates
  <2>1. SolverWrites /\ ~leftover /\ UNCHANGED publisher
    BY <1>2 DEF PublishPoint, TermUpdates, SolverWrites, publishVars, history
  <2> QED
    BY <2>1, Apart
<1>3. CASE DataWait
  BY <1>3 DEF DataWait, Parts
<1>4. CASE CopyPoint
  BY <1>0, <1>4 DEF CopyPoint, StateTyped, Parts, solverVars, sharedVars, history
<1>5. CASE PublishLock \/ DataPost \/ PublishUnlock
  BY <1>5 DEF PublishLock, DataPost, PublishUnlock
<1>6. CASE KillProvider \/ WriteBroken
  BY <1>6 DEF KillProvider, WriteBroken, Die
<1>7. CASE \/ StartSolver \/ PostPublish \/ BeginStep \/ WaitTruth \/ PostTruth
           \/ WaitPublish \/ BeginTerm \/ TermPublish \/ WaitUpdates
           \/ ApplyUpdate \/ PostUpdates \/ KillSolver \/ StartProvider \/ CtorStep
  BY <1>0, <1>1, <1>7
     DEF StartSolver, PostPublish, BeginStep, WaitTruth, PostTruth, WaitPublish, BeginTerm,
         TermPublish, WaitUpdates, ApplyUpdate, PostUpdates, KillSolver, StartProvider,
         CtorStep, CtorWait, CtorPost, OpenFifo,
         solverVars, sharedVars, publishVars, history
<1>8. CASE Receive \/ (ServerStep /\ ~WriteBroken) \/ SendMessage \/ UNCHANGED vars
  BY <1>0, <1>1, <1>8
     DEF Receive, ServerStep, ReadLock, ReadWait, ReadPost, WriteWait, WriteTag, WriteFull,
         WriteDone, SendMessage, vars, solverVars, sharedVars, publishVars, history
<1> QED
  BY <1>2, <1>3, <1>4, <1>5, <1>6, <1>7, <1>8 DEF Next, SolverStep, PublisherStep

-----------------------------------------------------------------------------
(* Updates.                                                                *)

\* applyUpdates takes the first update: the last one of a parameter stays last,
\* or it has become the parameter's value.
LEMMA ApplyKeeps ==
    ASSUME StateTyped, UpdatesKept, ApplyUpdate
    PROVE  UpdatesKept'
<1> DEFINE u == Head(updatesFifo)
<1>1. /\ updatesFifo \in Seq(Update) /\ updatesFifo # <<>>
      /\ updatesFifo' = Tail(updatesFifo) /\ UNCHANGED <<lastSent, solver>>
      /\ param' = IF u.tag \in Params THEN [param EXCEPT ![u.tag] = u.val] ELSE param
      /\ solver = "apply"
  BY DEF ApplyUpdate, StateTyped, history
<1>2. /\ Len(updatesFifo) \in Nat /\ Len(updatesFifo) > 0
      /\ DOMAIN updatesFifo = 1 .. Len(updatesFifo)
      /\ DOMAIN updatesFifo' = 1 .. Len(updatesFifo) - 1
      /\ \A i \in 1 .. Len(updatesFifo) - 1 : updatesFifo'[i] = updatesFifo[i + 1]
      /\ u = updatesFifo[1]
  BY <1>1, HeadTailProperties, LenProperties, EmptySeq
<1>3. SUFFICES ASSUME NEW t \in Params
               PROVE  IF Pending(t)' = {}
                      THEN param'[t] = lastSent[t]
                      ELSE \E i \in Pending(t)' : /\ \A j \in Pending(t)' : j <= i
                                                  /\ updatesFifo'[i].val = lastSent[t]
  BY <1>1 DEF UpdatesKept
<1>4. IF Pending(t) = {}
      THEN param[t] = lastSent[t]
      ELSE \E i \in Pending(t) : /\ \A j \in Pending(t) : j <= i
                                 /\ updatesFifo[i].val = lastSent[t]
  BY <1>1 DEF UpdatesKept, Ended
<1>5. /\ \A i \in Pending(t)' : i + 1 \in Pending(t) /\ i \in Nat \ {0}
      /\ \A i \in Pending(t) : i \in Nat /\ (i = 1 \/ i - 1 \in Pending(t)')
      /\ 1 \in Pending(t) <=> u.tag = t
  BY <1>2 DEF Pending
<1>6. param \in [Params -> Values]
  BY DEF StateTyped
<1>7. CASE Pending(t) = {}
  <2>1. Pending(t)' = {} /\ u.tag # t
    BY <1>5, <1>7
  <2> QED
    BY <1>1, <1>4, <1>6, <1>7, <2>1
<1>8. CASE Pending(t) # {}
  <2>1. PICK i \in Pending(t) : /\ \A j \in Pending(t) : j <= i
                               /\ updatesFifo[i].val = lastSent[t]
    BY <1>4, <1>8
  <2>2. CASE i = 1
    <3>1. Pending(t)' = {}
      BY <1>5, <2>1, <2>2
    <3>2. u.tag = t /\ u.val = lastSent[t]
      BY <1>2, <1>5, <2>1, <2>2
    <3>3. param'[t] = lastSent[t]
      BY <1>1, <1>6, <3>2
    <3> QED
      BY <3>1, <3>3
  <2>3. CASE i # 1
    <3>1. i - 1 \in Pending(t)' /\ i \in Nat /\ i - 1 \in 1 .. Len(updatesFifo) - 1
      BY <1>2, <1>5, <2>1, <2>3 DEF Pending
    <3>2. updatesFifo'[i - 1] = updatesFifo[i]
      BY <1>2, <3>1
    <3>3. \A j \in Pending(t)' : j <= i - 1
      BY <1>5, <2>1, <3>1
    <3> QED
      BY <2>1, <3>1, <3>2, <3>3
  <2> QED
    BY <2>2, <2>3
<1> QED
  BY <1>7, <1>8

\* write adds the newest value at the end.
LEMMA WriteKeeps ==
    ASSUME StateTyped, Requesting, UpdatesKept, Piped, NEW w \in WriteTags, WriteTag(w)
    PROVE  UpdatesKept'
<1> DEFINE u == [tag |-> w, val |-> request.val]
           n == Len(updatesFifo)
<1>1. /\ updatesFifo \in Seq(Update)
      /\ updatesFifo' = Append(updatesFifo, u) /\ UNCHANGED <<param, solver>>
      /\ lastSent' = IF w \in Params THEN [lastSent EXCEPT ![w] = request.val] ELSE lastSent
      /\ u \in Update /\ connected /\ lastSent \in [Params -> Values]
  BY DEF WriteTag, StateTyped, Requesting, Update, solverVars
<1>2. /\ n \in Nat
      /\ DOMAIN updatesFifo = 1 .. n /\ DOMAIN updatesFifo' = 1 .. n + 1
      /\ \A i \in 1 .. n : updatesFifo'[i] = updatesFifo[i]
      /\ updatesFifo'[n + 1] = u
  BY <1>1, AppendProperties, LenProperties
<1>3. SUFFICES ASSUME NEW t \in Params
               PROVE  IF Pending(t)' = {}
                      THEN param'[t] = lastSent'[t]
                      ELSE \E i \in Pending(t)' : /\ \A j \in Pending(t)' : j <= i
                                                  /\ updatesFifo'[i].val = lastSent'[t]
  BY DEF UpdatesKept
<1>4. IF Pending(t) = {}
      THEN param[t] = lastSent[t]
      ELSE \E i \in Pending(t) : /\ \A j \in Pending(t) : j <= i
                                 /\ updatesFifo[i].val = lastSent[t]
  BY <1>1 DEF UpdatesKept, Piped
<1>5. CASE t = w
  <2>1. n + 1 \in Pending(t)' /\ \A j \in Pending(t)' : j <= n + 1
    BY <1>2, <1>5 DEF Pending
  <2>2. updatesFifo'[n + 1].val = lastSent'[t]
    BY <1>1, <1>2, <1>5
  <2> QED
    BY <2>1, <2>2
<1>6. CASE t # w
  <2>1. Pending(t)' = Pending(t)
    BY <1>2, <1>6 DEF Pending
  <2>2. lastSent'[t] = lastSent[t]
    BY <1>1, <1>6
  <2>3. \A i \in Pending(t) : updatesFifo'[i] = updatesFifo[i]
    BY <1>2 DEF Pending
  <2> QED
    BY <1>1, <1>4, <2>1, <2>2, <2>3
<1> QED
  BY <1>5, <1>6

\* Every step keeps the updates.
LEMMA UpdatesKeptStep == SInv /\ [Next]_vars => UpdatesKept'
<1> SUFFICES ASSUME SInv, [Next]_vars PROVE UpdatesKept'
  OBVIOUS
<1>0. StateTyped /\ Requesting /\ Piped /\ UpdatesKept
  BY DEF SInv
<1>1. ASSUME UNCHANGED <<param, updatesFifo, lastSent>>,
             solver' \in Ended \/ solver \notin Ended \/ UNCHANGED solver
      PROVE  UpdatesKept'
  BY <1>0, <1>1 DEF UpdatesKept, Pending
<1>2. CASE StartSolver
  BY <1>2 DEF StartSolver, UpdatesKept, Pending
<1>3. CASE ApplyUpdate
  BY <1>0, <1>3, ApplyKeeps
<1>4. ASSUME NEW t \in WriteTags, WriteTag(t) PROVE UpdatesKept'
  BY <1>0, <1>4, WriteKeeps
<1>5. CASE TermUpdates
  BY <1>5 DEF TermUpdates, UpdatesKept, Ended
<1>6. CASE \/ PublishPoint \/ PostPublish \/ BeginStep \/ WaitTruth \/ PostTruth
           \/ WaitPublish \/ WaitUpdates \/ PostUpdates
           \/ BeginTerm \/ TermPublish \/ KillSolver
  BY <1>1, <1>6
     DEF PublishPoint, PostPublish, BeginStep, WaitTruth, PostTruth, WaitPublish, WaitUpdates,
         PostUpdates, BeginTerm, TermPublish, KillSolver, Ended, sharedVars, history
<1>7. CASE StartProvider \/ CtorStep \/ KillProvider \/ Receive
  BY <1>1, <1>7
     DEF StartProvider, CtorStep, CtorWait, CtorPost, OpenFifo, KillProvider, Die, Receive,
         solverVars, sharedVars, history
<1>8. CASE ReadLock \/ ReadWait \/ ReadPost \/ WriteWait \/ WriteFull \/ WriteBroken \/ WriteDone
  BY <1>1, <1>8
     DEF ReadLock, ReadWait, ReadPost, WriteWait, WriteFull, WriteBroken, Die, WriteDone,
         solverVars, sharedVars, history
<1>9. CASE PublisherStep \/ UNCHANGED vars
  BY <1>1, <1>9
     DEF PublisherStep, PublishLock, DataWait, CopyPoint, DataPost, SendMessage, PublishUnlock,
         vars, solverVars, sharedVars, history
<1> QED
  BY <1>2, <1>3, <1>4, <1>5, <1>6, <1>7, <1>8, <1>9 DEF Next, SolverStep, ServerStep

-----------------------------------------------------------------------------
(* The theorems.                                                           *)

\* The invariant holds at the start.
LEMMA InitSInv == Init => SInv
<1> SUFFICES ASSUME Init PROVE SInv
  OBVIOUS
<1> USE ConstantFacts DEF Init, PublisherInit
<1>1. StateTyped
  <2>1. updatesFifo \in Seq(Update) /\ Len(updatesFifo) <= FifoSize
    BY EmptySeq
  <2>2. request \in [tags : SUBSET WriteTags, val : Values \union {None}]
    BY DEF NoRequest
  <2>3. PublisherTypeOK
    BY DEF PublisherTypeOK
  <2>4. /\ copied \in 0 .. NumParts /\ next \in 1 .. NumParts + 1
        /\ runs \in 0 .. MaxRuns /\ lives \in 0 .. MaxLives
    OBVIOUS
  <2>5. /\ param \in [Params -> Values] /\ lastSent \in [Params -> Values]
        /\ shm \in [Parts -> States \union {None}]
        /\ message \in [Parts -> States \union {None}]
    OBVIOUS
  <2> QED
    BY <2>1, <2>2, <2>3, <2>4, <2>5 DEF StateTyped, Ended
<1>1a. Returned /\ Threads
  BY DEF Returned, Threads, Ended
<1>2. Requesting /\ Piped
  BY DEF Requesting, Piped, NoRequest
<1>3. Permits
  BY DEF Permits, Out, N, SolverWrites, ReadsAtStart, ServerReads, PublisherReads,
         SolverApplies,
         ServerWrites
<1>4. Progress
  BY DEF Progress, EachPartSentOnce, LoopDone
<1>5. Written /\ Consistent /\ Copied
  BY DEF Written, Consistent, Readable, Copied, ReadsAtStart, ServerReads, PublisherReads
<1>6. UpdatesKept
  BY DEF UpdatesKept, Ended
<1> QED
  BY <1>1, <1>1a, <1>2, <1>3, <1>4, <1>5, <1>6 DEF SInv

\* The inductive invariant of the solver and the provider.
THEOREM SimulinkInvariant == Spec => []SInv
<1>1. SInv /\ [Next]_vars => SInv'
  BY TypedStep, PermitsStep, ReturnedStep, ThreadsStep, PipedStep, ProgressStep, WrittenStep,
     ConsistentStep, CopiedStep,
     UpdatesKeptStep DEF SInv
<1> QED
  BY <1>1, InitSInv, PTL DEF Spec

\* The variables keep their types, and neither init nor the error paths post a
\* semaphore more often than it was acquired.
THEOREM SimulinkTypeCorrect == Spec => []TypeOK
<1>1. SInv => TypeOK
  <2> SUFFICES ASSUME SInv PROVE TypeOK
    OBVIOUS
  <2>1. StateTyped /\ Permits /\ publishSem \in Nat /\ updatesSem \in Nat /\ runs \in Nat
    BY ConstantFacts DEF SInv, StateTyped
  <2> QED
    BY <2>1 DEF TypeOK, Permits, Out, N
<1> QED
  BY <1>1, SimulinkInvariant, PTL

\* However often the solver is killed, terminated and started again, the provider
\* never reads the points while the solver writes them, unless the solver was
\* started with a permit of an earlier run still out: never in its first run.
THEOREM PointsExclusive ==
    Spec => []((~leftover => ExclusiveAccess) /\ (runs <= 1 => ~leftover))
<1>1. SInv => (~leftover => ExclusiveAccess) /\ (runs <= 1 => ~leftover)
  <2> SUFFICES ASSUME SInv
               PROVE  (~leftover => ExclusiveAccess) /\ (runs <= 1 => ~leftover)
    OBVIOUS
  <2>1. ~leftover => ExclusiveAccess
    BY Apart DEF ExclusiveAccess, ProviderReads, ReadsAtStart, ServerReads, PublisherReads
  <2>2. (leftover => runs >= 2) /\ runs \in Nat
    BY ConstantFacts DEF SInv, Permits, StateTyped
  <2> QED
    BY <2>1, <2>2
<1> QED
  BY <1>1, SimulinkInvariant, PTL

\* The solver never waits for ever for a semaphore that nobody can post, but in
\* term's circle, or when a process was killed that had one.
THEOREM SemaphoresReturn == Spec => []NoDeadlock
<1>1. SInv => NoDeadlock
  <2> SUFFICES ASSUME SInv, solver \notin Ended, abandoned = {}, ~SolverCan, ~TermDeadlock
               PROVE  \/ provider = "attach" \/ ServerCan
                      \/ PublisherCan /\ (publisher = "reading" \/ server = "writing")
    BY DEF NoDeadlock
  <2>1. StateTyped /\ Returned /\ Threads
    BY DEF SInv
  <2>2. publisher = "reading" => PublisherCan
    BY <2>1 DEF PublisherCan, Threads, StateTyped, PublisherTypeOK
  <2>3. publisher = "publishing" => PublisherCan
    BY <2>1, ConstantFacts DEF PublisherCan, Threads, StateTyped, PublisherTypeOK
  <2>4. solver \in {"waittruth", "waitpublish", "waitterm", "waitupdates", "term"}
    BY <2>1 DEF StateTyped, SolverCan
  <2>5. CASE solver \in {"waittruth", "waitpublish", "waitterm"}
    <3>1. ProviderAcquired
      BY <2>1, <2>5 DEF Returned, SolverCan, SolverWrites, StateTyped
    <3> QED
      BY <2>2, <3>1 DEF ProviderAcquired, ProviderReads, ServerCan
  <2>6. CASE solver \in {"waitupdates", "term"}
    <3>1. attached /\ server = "writing"
      BY <2>1, <2>6 DEF Returned, SolverCan, SolverApplies, ServerWrites, StateTyped
    <3>2. CASE request.tags = {} \/ mLock = None
      BY <3>1, <3>2 DEF ServerCan
    <3>3. CASE request.tags # {} /\ mLock # None
      <4>1. mLock = "publisher" /\ publisher # "sleep" /\ provider = "up"
        BY <2>1, <3>1, <3>3 DEF Threads, StateTyped
      <4>2. CASE publisher = "waitpublish"
        <5>1. solver = "waitupdates"
          BY <2>6, <3>1, <3>3, <4>1, <4>2 DEF TermDeadlock
        <5>2. publishSem > 0
          BY <2>1, <3>1, <4>1, <4>2, <5>1 DEF Returned, SolverWrites, ProviderAcquired, ProviderReads, Ended
        <5> QED
          BY <3>1, <4>2, <5>2 DEF PublisherCan, CanWait
      <4> QED
        BY <2>1, <2>2, <2>3, <3>1, <4>1, <4>2 DEF StateTyped
    <3> QED
      BY <3>2, <3>3
  <2> QED
    BY <2>4, <2>5, <2>6
<1> QED
  BY <1>1, SimulinkInvariant, PTL

\* While a solver runs, the last value its FIFO was given for a parameter is the
\* last one waiting there or the parameter's value, for any size of the FIFO, any
\* writes, and however often either process was killed and started before.
THEOREM UpdatesAreKept == Spec => []UpdatesKept
<1>1. SInv => UpdatesKept
  BY DEF SInv
<1> QED
  BY <1>1, SimulinkInvariant, PTL

\* A publication that has been sent holds every point exactly once, for all
\* lengths of points and every MTU.
THEOREM PublicationsComplete == Spec => []EachPartSentOnce
<1>1. SInv => EachPartSentOnce
  BY DEF SInv, Progress
<1> QED
  BY <1>1, SimulinkInvariant, PTL

-----------------------------------------------------------------------------
(* Publications are snapshots of the simulation.                           *)

\* Abbreviations for the abstract variables.
Publication == IF publisher = "publishing" THEN message ELSE [p \in Parts |-> None]

\* A step with no permit left over is a step of the abstract specification, or
\* leaves its variables alone.
LEMMA SnapshotStep ==
    ASSUME SInv, ~leftover, [Next]_vars
    PROVE  [OneState!SnapshotNext]_<<shm[1], Publication>>
<1>0. StateTyped /\ Consistent /\ Copied
  BY DEF SInv
<1> USE DEF OneState!SnapshotNext, Publication
<1>1. CASE PublishPoint
  <2>1. UNCHANGED Publication /\ (shm'[1] = shm[1] \/ shm'[1] \in States)
    BY <1>0, <1>1, ConstantFacts DEF PublishPoint, StateTyped, publishVars
  <2> QED
    BY <2>1 DEF OneState!Advance
<1>2. CASE TermUpdates
  <2>1. UNCHANGED Publication /\ shm'[1] = None
    BY <1>2, ConstantFacts DEF TermUpdates, publishVars
  <2> QED
    BY <2>1 DEF OneState!Advance
<1>3. CASE DataPost
  <2>1. /\ \A p \in Parts : message[p] = shm[1]
        /\ shm[1] \in States
    BY <1>0, <1>3 DEF DataPost, Copied, Consistent, Readable, PublisherReads, Parts
  <2>2. Publication' = message /\ message = [p \in Parts |-> shm[1]]
    BY <1>0, <1>3, <2>1 DEF DataPost, StateTyped
  <2>3. shm[1] # None /\ UNCHANGED shm[1]
    BY <1>3, <2>1, ConstantFacts DEF DataPost
  <2> QED
    BY <2>2, <2>3 DEF OneState!Publish
<1>4. CASE PublishUnlock \/ KillProvider \/ WriteBroken
  <2>1. UNCHANGED shm /\ publisher' = "sleep"
    BY <1>4 DEF PublishUnlock, KillProvider, WriteBroken, Die, sharedVars
  <2> QED
    BY <2>1 DEF OneState!Conclude, OneState!Nothing
<1>5. ASSUME UNCHANGED shm, UNCHANGED Publication
      PROVE  UNCHANGED <<shm[1], Publication>>
  BY <1>5
<1>6. CASE PublishLock \/ DataWait \/ CopyPoint \/ SendMessage \/ UNCHANGED vars
  BY <1>5, <1>6
     DEF PublishLock, DataWait, CopyPoint, SendMessage, vars, sharedVars, publishVars
<1>7. CASE \/ StartSolver \/ PostPublish \/ BeginStep \/ WaitTruth \/ PostTruth
           \/ WaitPublish \/ BeginTerm \/ TermPublish \/ WaitUpdates
           \/ ApplyUpdate \/ PostUpdates \/ KillSolver \/ StartProvider \/ CtorStep
  BY <1>5, <1>7
     DEF StartSolver, PostPublish, BeginStep, WaitTruth, PostTruth, WaitPublish, BeginTerm,
         TermPublish, WaitUpdates, ApplyUpdate, PostUpdates, KillSolver, StartProvider,
         CtorStep, CtorWait, CtorPost, OpenFifo,
         sharedVars, publishVars
<1>8. CASE Receive \/ (ServerStep /\ ~WriteBroken)
  BY <1>5, <1>8
     DEF Receive, ServerStep, ReadLock, ReadWait, ReadPost, WriteWait, WriteTag, WriteFull,
         WriteDone, sharedVars, publishVars
<1> QED
  BY <1>1, <1>2, <1>3, <1>4, <1>6, <1>7, <1>8 DEF Next, SolverStep, PublisherStep

\* Through all runs of the solver that started with no permit out, what the
\* provider publishes are snapshots of the simulation: the semaphores implement
\* the abstract specification.
THEOREM SnapshotsPublished == Spec /\ []~leftover => PublishesSnapshots
<1>1. Init => OneState!SnapshotInit
  BY ConstantFacts DEF Init, OneState!SnapshotInit, OneState!Nothing
<1>2. SInv /\ ~leftover /\ [Next]_vars
        => [OneState!SnapshotNext]_<<shm[1], IF publisher = "publishing" THEN message
                                            ELSE [p \in Parts |-> None]>>
  BY SnapshotStep DEF Publication
<1> QED
  BY <1>1, <1>2, SimulinkInvariant, PTL DEF Spec, PublishesSnapshots, OneState!SnapshotSpec
=============================================================================
