----------------------- MODULE SessionRecorder_proofs -----------------------
(***************************************************************************)
(* Proofs about SessionRecorder for every number of items, chunks and      *)
(* sessions.  What the raw recorder inside it does is taken from the       *)
(* theorems about RawLogRecorder.                                          *)
(***************************************************************************)
EXTENDS SessionRecorder, SequenceTheorems, FiniteSetTheorems, TLAPS

RawProofs == INSTANCE RawLogRecorder_proofs
  WITH recording <- rawRecording, queue <- rawQueue, streamOpen <- rawStreamOpen,
       broken <- rawBroken, file <- rawFile, worker <- rawWorker, hand <- rawHand,
       stop <- rawStop, caller <- rawCaller, restart <- rawRestart,
       accepted <- rawAccepted, lost <- rawLost, arrived <- rawArrived, starts <- rawStarts,
       ReceiveTime <- [c \in 1..MaxChunks |-> 0]   \* only its reader looks at the times

\* Who may exist beside whom while start() or stop() is under way.
ThreadsInv ==
  /\ caller = "idle" <=> routing # "caller"
  /\ producer = "forward" <=> routing = "producer"
  /\ producer = "forward" => recording
  /\ recording => caller \in {"idle", "spawn"}
  /\ caller = "idle" => (recording <=> worker # "none")
  /\ caller = "spawn" => recording
  /\ caller \notin {"idle", "stopRaw", "rawStopping", "join"} => worker = "none"
  /\ stop <=> caller = "join"

\* The raw recorder starts and stops inside start() and stop(), and records as they do.
RawInv ==
  /\ rawCaller # "idle" => \/ caller = "rawStopping" /\ ~rawRestart
                           \/ caller = "rawStarting" /\ rawRestart
  /\ caller \in {"idle", "spawn"} => (rawRecording <=> recording)
  /\ rawRecording => caller \in {"idle", "spawn", "stopRaw", "rawStarting"}

\* What is open, and what may still be on its way, while no worker runs.
FilesInv ==
  /\ caller = "idle" => (filesOpen <=> recording)
  /\ caller \in {"complete", "prepare"} => ~filesOpen
  /\ caller \in {"initialize", "startRaw", "rawStarting", "spawn"} => filesOpen
  /\ ~recording /\ worker \in {"none", "exited"} => queue = <<>>
  /\ worker = "exited" => ~recording

ControlInv == TypeOK /\ ThreadsInv /\ RawInv /\ FilesInv

\* What was counted is what was recorded.
InSession ==
  caller = "complete" \/ (filesOpen /\ caller \in {"idle", "spawn", "stopRaw", "rawStopping", "join", "joined"})
ForwardedInv ==
  /\ caller \in {"initialize", "startRaw", "rawStarting"} => rawChunks = 0
  /\ caller = "rawStarting" /\ rawRecording => rawAccepted = <<>>
  /\ InSession => rawChunks = Len(rawAccepted) + (IF producer = "forward" THEN 1 ELSE 0)
WrittenInv == dropped = 0 => \A k \in Counted : counts[k] = Cardinality(Written(k))

\* A completed session stays as it was until start() prepares the next one.
SealedInv ==
  metadata.status = "completed" =>
    /\ ~recording /\ worker = "none" /\ ~rawRecording /\ rawWorker = "none" /\ ~filesOpen
    /\ caller \in {"idle", "stopRaw", "rawStopping", "join", "joined", "prepare"}
    /\ metadata = Metadata("completed") /\ rawChunks = Len(rawAccepted)

\* What was accepted is in the files, in the worker's hand or in the queue.
TakenInv == dropped = 0 => taken = (files \o hand) \o queue

IInv == ControlInv /\ ForwardedInv /\ WrittenInv /\ SealedInv /\ TakenInv
-----------------------------------------------------------------------------
(* The raw recorder *)

LEMMA RawSteps == [Next]_vars => [Raw!Next]_(Raw!vars)
<1> SUFFICES ASSUME [Next]_vars PROVE Raw!Next \/ UNCHANGED rawVars
  BY DEF rawVars, Raw!vars, Raw!shared, Raw!stream, Raw!thread, Raw!history
<1> USE DEF Raw!Next, Raw!CallerStep
<1>1. CASE UNCHANGED vars
  BY <1>1 DEF vars
<1>2. CASE CountRaw \/ (\E kind \in Kinds : EnqueueItem(kind)) \/ (\E start \in BOOLEAN : Begin(start))
  BY <1>2 DEF CountRaw, EnqueueItem, Begin
<1>3. CASE ForwardRaw
  BY <1>3 DEF ForwardRaw
<1>4. CASE CallerStep
  BY <1>4 DEF CallerStep, StopRaw, RequestStop, Join, CloseFiles, Complete, Refuse, Prepare,
     Initialize, StartRaw, RawStarted, Fail, Spawn
<1>5. CASE RawStep \/ RawWorkerStep
  BY <1>5 DEF RawStep, RawWorkerStep
<1>6. CASE WorkerStep
  BY <1>6 DEF WorkerStep, Sleep, Exit, Take, WriteItem
<1>7. QED
  BY <1>1, <1>2, <1>3, <1>4, <1>5, <1>6 DEF Next

\* The session recorder uses the raw recorder as its callers may: the raw log of
\* a session is one of RawLogRecorder.
THEOREM RawIsRecorder == Spec => Raw!Spec
<1>1. Init => Raw!Init
  BY DEF Init
<1>2. QED
  BY <1>1, RawSteps, PTL DEF Spec, Raw!Spec

\* RawProofs speaks of the same recorder: its steps are those of Raw, action by action.
LEMMA SameSteps == [Raw!Next]_(Raw!vars) => [RawProofs!Next]_(RawProofs!vars)
<1> USE DEF Raw!shared, RawProofs!shared, Raw!stream, RawProofs!stream, Raw!thread, RawProofs!thread, Raw!history, RawProofs!history
<1>1. Raw!Enqueue => RawProofs!Enqueue
  BY DEF Raw!Enqueue, RawProofs!Enqueue, Raw!MayAccept, RawProofs!MayAccept, Raw!WakeWorker,
     RawProofs!WakeWorker
<1>2. \A first \in BOOLEAN : Raw!Reject(first) => RawProofs!Reject(first)
  BY DEF Raw!Reject, RawProofs!Reject
<1>3. Raw!RequestStop => RawProofs!RequestStop
  BY DEF Raw!RequestStop, RawProofs!RequestStop, Raw!WakeWorker, RawProofs!WakeWorker
<1>4. (Raw!Join => RawProofs!Join) /\ (Raw!Finish => RawProofs!Finish)
  BY DEF Raw!Join, RawProofs!Join, Raw!Finish, RawProofs!Finish, Raw!AfterJoin,
     RawProofs!AfterJoin
<1>5. (Raw!OpenSucceeds \/ Raw!OpenFails) => (RawProofs!OpenSucceeds \/ RawProofs!OpenFails)
  BY DEF Raw!OpenSucceeds, RawProofs!OpenSucceeds, Raw!OpenFails, RawProofs!OpenFails
<1>6. Raw!Spawn => RawProofs!Spawn
  BY DEF Raw!Spawn, RawProofs!Spawn
<1>7. (Raw!Sleep => RawProofs!Sleep) /\ (Raw!Exit => RawProofs!Exit)
  BY DEF Raw!Sleep, RawProofs!Sleep, Raw!Exit, RawProofs!Exit, Raw!ExitDrained,
     RawProofs!ExitDrained
<1>8. Raw!Take => RawProofs!Take
  BY DEF Raw!Take, RawProofs!Take, Raw!Oldest, RawProofs!Oldest
<1>9. Raw!Write => RawProofs!Write
  BY DEF Raw!Write, RawProofs!Write, Raw!Writable, RawProofs!Writable, Raw!MovedOut,
     RawProofs!MovedOut
<1>10. QED
  BY <1>1, <1>2, <1>3, <1>4, <1>5, <1>6, <1>7, <1>8, <1>9 DEF Raw!Next, RawProofs!Next,
     Raw!CallerStep, RawProofs!CallerStep, Raw!WorkerStep, RawProofs!WorkerStep, Raw!vars,
     RawProofs!vars

LEMMA RawSpec == Spec => RawProofs!Spec
<1>1. Raw!Init => RawProofs!Init
  BY DEF Raw!Init, RawProofs!Init
<1>2. QED
  BY <1>1, RawIsRecorder, SameSteps, PTL DEF Raw!Spec, RawProofs!Spec

\* So the raw log of every session keeps the promises of a raw log: also between the
\* sessions, and when start() fails halfway, no accepted chunk vanishes uncounted and
\* the chunks in the file keep their order.
THEOREM RawLogIsSafe == Spec => [](Raw!NothingVanishes /\ Raw!LogIsOrdered)
<1>1. MaxChunks \in Nat /\ MaxStarts \in Nat
  BY BoundsAssumption
<1>2. [c \in 1..MaxChunks |-> 0] \in [1..MaxChunks -> Int]
  OBVIOUS
<1>3. RawProofs!Spec => [](RawProofs!NothingVanishes /\ RawProofs!LogIsOrdered)
  BY <1>1, <1>2, OversizedAssumption, RawProofs!NoChunkVanishes, RawProofs!LogStaysOrdered, PTL
<1>4. RawProofs!NothingVanishes /\ RawProofs!LogIsOrdered => Raw!NothingVanishes /\ Raw!LogIsOrdered
  BY DEF RawProofs!NothingVanishes, RawProofs!LogIsOrdered, RawProofs!Log,
     Raw!NothingVanishes, Raw!LogIsOrdered, Raw!Log
<1>5. QED
  BY <1>3, <1>4, RawSpec, PTL

\* And it is an append-only log, whatever the session around it does.
THEOREM RawLogIsLog == Spec => Raw!ImplementsLog
<1>1. MaxChunks \in Nat /\ MaxStarts \in Nat
  BY BoundsAssumption
<1>2. [c \in 1..MaxChunks |-> 0] \in [1..MaxChunks -> Int]
  OBVIOUS
<1>3. RawProofs!Spec => RawProofs!ImplementsLog
  BY <1>1, <1>2, OversizedAssumption, RawProofs!Implementation
<1>4. RawProofs!Abstract!Init => Raw!Abstract!Init
  BY DEF RawProofs!Abstract!Init, Raw!Abstract!Init, RawProofs!phase, Raw!phase, RawProofs!Log,
     Raw!Log
<1>5. [RawProofs!Abstract!Next]_(RawProofs!Abstract!vars)
      => [Raw!Abstract!Next]_(Raw!Abstract!vars)
  BY DEF RawProofs!Abstract!vars, Raw!Abstract!vars, RawProofs!Abstract!Next, Raw!Abstract!Next,
     RawProofs!Abstract!Open, Raw!Abstract!Open, RawProofs!Abstract!Accept, Raw!Abstract!Accept,
     RawProofs!Abstract!Persist, Raw!Abstract!Persist, RawProofs!Abstract!Lose, Raw!Abstract!Lose,
     RawProofs!Abstract!Seal, Raw!Abstract!Seal, RawProofs!Abstract!Close, Raw!Abstract!Close,
     RawProofs!Abstract!CloseShort, Raw!Abstract!CloseShort, RawProofs!phase, Raw!phase,
     RawProofs!Log, Raw!Log, RawProofs!Chunks, Raw!Chunks
<1>6. QED
  BY <1>3, <1>4, <1>5, RawSpec, PTL DEF RawProofs!ImplementsLog, Raw!ImplementsLog,
     RawProofs!Abstract!Spec, Raw!Abstract!Spec

\* Where the caller and the worker of the raw recorder stand.
LEMMA RawControl == Spec => []RawProofs!ControlInv
<1>1. MaxChunks \in Nat /\ MaxStarts \in Nat
  BY BoundsAssumption
<1>2. RawProofs!Init => RawProofs!ControlInv
  BY <1>1, OversizedAssumption, RawProofs!InitControl
<1>3. RawProofs!ControlInv /\ [RawProofs!Next]_(RawProofs!vars) => RawProofs!ControlInv'
  BY <1>1, OversizedAssumption, RawProofs!ControlStep
<1>4. QED
  BY <1>2, <1>3, RawSpec, PTL DEF RawProofs!Spec
-----------------------------------------------------------------------------
(* The control: types, threads and files *)

LEMMA InitControl == Init => ControlInv
<1> SUFFICES ASSUME Init PROVE ControlInv
  OBVIOUS
<1>1. FlagsOK
  BY Zenon DEF Init, FlagsOK
<1>2. SequencesOK
  BY EmptySeq DEF Init, SequencesOK
<1>3. CountsOK /\ PointsOK
  BY BoundsAssumption DEF Init, CountsOK, PointsOK, Points, NoCounts
<1>4. ThreadsInv /\ RawInv /\ FilesInv
  BY DEF Init, Raw!Init, ThreadsInv, RawInv, FilesInv
<1>5. QED
  BY <1>1, <1>2, <1>3, <1>4 DEF ControlInv, TypeOK

LEMMA ProducerControl ==
  ControlInv /\ (CountRaw \/ ForwardRaw \/ \E kind \in Kinds : EnqueueItem(kind)) => ControlInv'
<1> USE DEF ControlInv, TypeOK, state, thread, control, history, rawVars
<1>1. ASSUME ControlInv, CountRaw PROVE ControlInv'
  <2>1. FlagsOK' /\ SequencesOK'
    BY <1>1, Zenon DEF CountRaw, FlagsOK, SequencesOK
  <2>2. CountsOK' /\ PointsOK'
    BY <1>1 DEF CountRaw, CountsOK, PointsOK, Barrier
  <2>3. ThreadsInv' /\ RawInv' /\ FilesInv'
    BY <1>1 DEF CountRaw, ThreadsInv, RawInv, FilesInv, PointsOK, Barrier
  <2>4. QED
    BY <2>1, <2>2, <2>3
<1>2. ASSUME ControlInv, ForwardRaw PROVE ControlInv'
  <2>1. rawRecording' = rawRecording /\ rawCaller' = rawCaller /\ rawRestart' = rawRestart
    BY <1>2 DEF ForwardRaw, Raw!Enqueue
  <2>2. FlagsOK' /\ SequencesOK'
    BY <1>2, Zenon DEF ForwardRaw, FlagsOK, SequencesOK
  <2>3. CountsOK' /\ PointsOK'
    BY <1>2 DEF ForwardRaw, CountsOK, PointsOK
  <2>4. ThreadsInv' /\ RawInv' /\ FilesInv'
    BY <1>2, <2>1 DEF ForwardRaw, ThreadsInv, RawInv, FilesInv, PointsOK
  <2>5. QED
    BY <2>2, <2>3, <2>4
<1>3. ASSUME ControlInv, NEW kind \in Kinds, EnqueueItem(kind) PROVE ControlInv'
  <2>1. FlagsOK'
    BY <1>3, Zenon DEF EnqueueItem, FlagsOK
  <2>2. SequencesOK'
    <3>1. queue' \in Seq(Kinds) /\ taken' \in Seq(Kinds)
      <4>0. queue \in Seq(Kinds) /\ taken \in Seq(Kinds)
        BY <1>3, Zenon DEF SequencesOK
      <4>1. Append(queue, kind) \in Seq(Kinds) /\ Append(taken, kind) \in Seq(Kinds)
        BY <4>0, AppendProperties
      <4>2. /\ queue' = Append(queue, kind) \/ queue' = queue
            /\ taken' = Append(taken, kind) \/ taken' = taken
        BY <1>3 DEF EnqueueItem
      <4>3. QED
        BY <4>0, <4>1, <4>2
    <3>2. worker' = "write" <=> worker = "write"
      BY <1>3 DEF EnqueueItem, WakeWorker
    <3>3. QED
      BY <1>3, <3>1, <3>2 DEF EnqueueItem, SequencesOK
  <2>3. CountsOK' /\ PointsOK'
    BY <1>3, BoundsAssumption DEF EnqueueItem, CountsOK, PointsOK, WakeWorker
  <2>4. ThreadsInv' /\ RawInv' /\ FilesInv'
    BY <1>3 DEF EnqueueItem, ThreadsInv, RawInv, FilesInv, PointsOK, WakeWorker
  <2>5. QED
    BY <2>1, <2>2, <2>3, <2>4
<1>4. QED
  BY <1>1, <1>2, <1>3

LEMMA WorkerControl == ControlInv /\ WorkerStep => ControlInv'
<1> SUFFICES ASSUME ControlInv, WorkerStep PROVE ControlInv'
  OBVIOUS
<1> USE DEF ControlInv, TypeOK, control, rawVars
<1>1. CASE Sleep \/ Exit
  <2>1. FlagsOK'
    BY <1>1, Zenon DEF Sleep, Exit, FlagsOK, state
  <2>2. SequencesOK' /\ CountsOK' /\ PointsOK'
    BY <1>1 DEF Sleep, Exit, SequencesOK, CountsOK, PointsOK, state, history
  <2>3. ThreadsInv' /\ RawInv' /\ FilesInv'
    BY <1>1 DEF Sleep, Exit, ThreadsInv, RawInv, FilesInv, state
  <2>4. QED
    BY <2>1, <2>2, <2>3
<1>2. CASE Take
  <2>1. FlagsOK'
    BY <1>2, Zenon DEF Take, FlagsOK
  <2>2. Head(queue) \in Kinds /\ Tail(queue) \in Seq(Kinds)
    BY <1>2, HeadTailProperties DEF Take, SequencesOK
  <2>3. SequencesOK' /\ CountsOK' /\ PointsOK'
    BY <1>2, <2>2 DEF Take, SequencesOK, CountsOK, PointsOK, history
  <2>4. ThreadsInv' /\ RawInv' /\ FilesInv'
    BY <1>2 DEF Take, ThreadsInv, RawInv, FilesInv
  <2>5. QED
    BY <2>1, <2>3, <2>4
<1>3. CASE WriteItem
  <2>1. FlagsOK'
    BY <1>3, Zenon DEF WriteItem, FlagsOK
  <2>2. files' \in Seq(Kinds)
    BY <1>3, ConcatProperties DEF WriteItem, SequencesOK
  <2>3. worker' = "run" /\ hand' = <<>> /\ queue' = queue /\ taken' = taken
    BY <1>3 DEF WriteItem, MovedOut
  <2>4. SequencesOK'
    BY <1>3, <2>2, <2>3, EmptySeq DEF SequencesOK
  <2>5. counts' \in [Counted -> Nat] /\ dropped' \in Nat
    BY <1>3 DEF WriteItem, Count, CountsOK
  <2>6. CountsOK' /\ PointsOK'
    BY <1>3, <2>5 DEF WriteItem, CountsOK, PointsOK
  <2>7. ThreadsInv' /\ RawInv' /\ FilesInv'
    BY <1>3 DEF WriteItem, ThreadsInv, RawInv, FilesInv
  <2>8. QED
    BY <2>1, <2>4, <2>6, <2>7
<1>4. QED
  BY <1>1, <1>2, <1>3 DEF WorkerStep

\* The steps the raw recorder takes alone.
LEMMA RawControlStep ==
  RawProofs!ControlInv /\ ControlInv /\ (RawStep \/ RawWorkerStep) => ControlInv'
<1> SUFFICES ASSUME RawProofs!ControlInv, ControlInv, RawStep \/ RawWorkerStep PROVE ControlInv'
  OBVIOUS
<1>1. UNCHANGED <<state, thread, control, history>>
  BY DEF RawStep, RawWorkerStep
<1>2. FlagsOK' /\ SequencesOK'
  BY <1>1, Zenon DEF ControlInv, TypeOK, FlagsOK, SequencesOK, state, thread, control, history
<1>3. CountsOK' /\ PointsOK' /\ ThreadsInv' /\ FilesInv'
  BY <1>1 DEF ControlInv, TypeOK, CountsOK, PointsOK, ThreadsInv, FilesInv, state, thread, control,
     history
<1>4. RawInv'
  <2>1. RawInv /\ recording' = recording /\ caller' = caller
    BY <1>1 DEF ControlInv, state, control
  <2>2. rawCaller = "starting" => rawRestart
    BY DEF RawProofs!ControlInv, RawProofs!ThreadsInv
  <2>3. CASE RawWorkerStep
    BY <2>1, <2>3 DEF RawInv, RawWorkerStep, Raw!WorkerStep, Raw!Sleep, Raw!Exit, Raw!Take, Raw!Write,
       Raw!shared
  <2>4. CASE RawStep
    BY <2>1, <2>2, <2>4 DEF RawInv, RawStep, Raw!RequestStop, Raw!Join, Raw!Finish, Raw!AfterJoin,
       Raw!OpenSucceeds, Raw!OpenFails, Raw!Spawn, Raw!shared
  <2>5. QED
    BY <2>3, <2>4
<1>5. QED
  BY <1>2, <1>3, <1>4 DEF ControlInv, TypeOK

LEMMA StopControl ==
  ControlInv /\ ((\E start \in BOOLEAN : Begin(start)) \/ StopRaw \/ RequestStop \/ Join) => ControlInv'
<1> SUFFICES ASSUME ControlInv,
                    (\E start \in BOOLEAN : Begin(start)) \/ StopRaw \/ RequestStop \/ Join
             PROVE  ControlInv'
  OBVIOUS
<1> USE DEF ControlInv, TypeOK, state, thread, history, rawVars, At, GoTo
<1>1. ASSUME NEW start \in BOOLEAN, Begin(start) PROVE ControlInv'
  <2>1. FlagsOK'
    BY <1>1, Zenon DEF Begin, FlagsOK
  <2>2. SequencesOK' /\ CountsOK' /\ PointsOK'
    BY <1>1 DEF Begin, SequencesOK, CountsOK, PointsOK, Points
  <2>3. ThreadsInv' /\ RawInv' /\ FilesInv'
    BY <1>1 DEF Begin, ThreadsInv, RawInv, FilesInv, PointsOK
  <2>4. QED
    BY <2>1, <2>2, <2>3
<1>2. CASE StopRaw
  <2>1. FlagsOK'
    BY <1>2, Zenon DEF StopRaw, FlagsOK
  <2>2. SequencesOK' /\ CountsOK' /\ PointsOK'
    BY <1>2 DEF StopRaw, SequencesOK, CountsOK, PointsOK, Points
  <2>3. ThreadsInv' /\ RawInv' /\ FilesInv'
    BY <1>2 DEF StopRaw, Raw!Reject, ThreadsInv, RawInv, FilesInv, PointsOK
  <2>4. QED
    BY <2>1, <2>2, <2>3
<1>3. CASE RequestStop
  <2>1. FlagsOK'
    BY <1>3, Zenon DEF RequestStop, FlagsOK
  <2>2. SequencesOK' /\ CountsOK' /\ PointsOK'
    BY <1>3 DEF RequestStop, SequencesOK, CountsOK, PointsOK, Points, WakeWorker
  <2>3. ThreadsInv' /\ RawInv' /\ FilesInv'
    BY <1>3 DEF RequestStop, ThreadsInv, RawInv, FilesInv, PointsOK, WakeWorker
  <2>4. QED
    BY <2>1, <2>2, <2>3
<1>4. CASE Join
  <2>1. FlagsOK'
    BY <1>4, Zenon DEF Join, FlagsOK
  <2>2. SequencesOK' /\ CountsOK' /\ PointsOK'
    BY <1>4 DEF Join, SequencesOK, CountsOK, PointsOK, Points
  <2>3. ThreadsInv' /\ RawInv' /\ FilesInv'
    BY <1>4 DEF Join, ThreadsInv, RawInv, FilesInv, PointsOK
  <2>4. QED
    BY <2>1, <2>2, <2>3
<1>5. QED
  BY <1>1, <1>2, <1>3, <1>4

\* From the end of stop() to the return of start() no worker runs and nothing is recorded.
LEMMA StartControl ==
  ControlInv /\ (CloseFiles \/ Complete \/ Refuse \/ Prepare \/ Initialize) => ControlInv'
<1> SUFFICES ASSUME ControlInv, CloseFiles \/ Complete \/ Refuse \/ Prepare \/ Initialize
             PROVE  ControlInv'
  OBVIOUS
<1> USE DEF ControlInv, TypeOK, state, thread, history, rawVars, At, GoTo, Return
<1>1. CASE CloseFiles
  <2>1. FlagsOK'
    BY <1>1, Zenon DEF CloseFiles, FlagsOK
  <2>2. SequencesOK' /\ CountsOK' /\ PointsOK'
    BY <1>1, EmptySeq DEF CloseFiles, AfterJoin, SequencesOK, CountsOK, PointsOK, Points
  <2>3. ThreadsInv' /\ RawInv' /\ FilesInv'
    BY <1>1 DEF CloseFiles, AfterJoin, ThreadsInv, RawInv, FilesInv, PointsOK
  <2>4. QED
    BY <2>1, <2>2, <2>3
<1>2. CASE Complete
  <2>1. FlagsOK' /\ SequencesOK'
    BY <1>2, Zenon DEF Complete, FlagsOK, SequencesOK
  <2>2. Metadata("completed") \in
          [status : {"recording", "completed"}, raw : Nat, counts : [Counted -> Nat]]
    BY DEF Metadata, CountsOK
  <2>3. CountsOK' /\ PointsOK'
    BY <1>2, <2>2 DEF Complete, CountsOK, PointsOK, Points
  <2>4. ThreadsInv' /\ RawInv' /\ FilesInv'
    BY <1>2 DEF Complete, ThreadsInv, RawInv, FilesInv, PointsOK
  <2>5. QED
    BY <2>1, <2>3, <2>4
<1>3. CASE Refuse
  <2>1. FlagsOK' /\ SequencesOK'
    BY <1>3, Zenon DEF Refuse, FlagsOK, SequencesOK
  <2>2. CountsOK' /\ PointsOK'
    BY <1>3 DEF Refuse, CountsOK, PointsOK, Points
  <2>3. ThreadsInv' /\ RawInv' /\ FilesInv'
    BY <1>3 DEF Refuse, ThreadsInv, RawInv, FilesInv, PointsOK
  <2>4. QED
    BY <2>1, <2>2, <2>3
<1>4. CASE Prepare
  <2>1. FlagsOK'
    BY <1>4, Zenon DEF Prepare, FlagsOK
  <2>2. NoCounts \in [Counted -> Nat]
    BY DEF NoCounts
  <2>3. SequencesOK' /\ CountsOK' /\ PointsOK'
    BY <1>4, <2>2, EmptySeq DEF Prepare, ResetCount, SequencesOK, CountsOK, PointsOK, Points
  <2>4. ThreadsInv' /\ RawInv' /\ FilesInv'
    BY <1>4 DEF Prepare, ThreadsInv, RawInv, FilesInv, PointsOK
  <2>5. QED
    BY <2>1, <2>3, <2>4
<1>5. CASE Initialize
  <2>1. FlagsOK' /\ SequencesOK'
    BY <1>5, Zenon DEF Initialize, FlagsOK, SequencesOK
  <2>2. Metadata("recording") \in
          [status : {"recording", "completed"}, raw : Nat, counts : [Counted -> Nat]]
    BY DEF Metadata, CountsOK
  <2>3. CountsOK' /\ PointsOK'
    BY <1>5, <2>2 DEF Initialize, CountsOK, PointsOK, Points
  <2>4. ThreadsInv' /\ RawInv' /\ FilesInv'
    BY <1>5 DEF Initialize, ThreadsInv, RawInv, FilesInv, PointsOK
  <2>5. QED
    BY <2>1, <2>3, <2>4
<1>6. QED
  BY <1>1, <1>2, <1>3, <1>4, <1>5

LEMMA RunControl ==
  ControlInv /\ (StartRaw \/ RawStarted \/ Fail \/ Spawn) => ControlInv'
<1> SUFFICES ASSUME ControlInv, StartRaw \/ RawStarted \/ Fail \/ Spawn PROVE ControlInv'
  OBVIOUS
<1> USE DEF ControlInv, TypeOK, state, thread, history, rawVars, At, GoTo, Return
<1>1. CASE StartRaw
  <2>1. FlagsOK' /\ SequencesOK'
    BY <1>1, Zenon DEF StartRaw, FlagsOK, SequencesOK
  <2>2. CountsOK' /\ PointsOK'
    BY <1>1 DEF StartRaw, CountsOK, PointsOK, Points
  <2>3. ThreadsInv' /\ RawInv' /\ FilesInv'
    BY <1>1 DEF StartRaw, Raw!Reject, ThreadsInv, RawInv, FilesInv, PointsOK
  <2>4. QED
    BY <2>1, <2>2, <2>3
<1>2. CASE RawStarted
  <2>1. FlagsOK' /\ SequencesOK'
    BY <1>2, Zenon DEF RawStarted, FlagsOK, SequencesOK
  <2>2. CountsOK' /\ PointsOK'
    BY <1>2 DEF RawStarted, CountsOK, PointsOK, Points
  <2>3. ThreadsInv' /\ RawInv' /\ FilesInv'
    BY <1>2 DEF RawStarted, ThreadsInv, RawInv, FilesInv, PointsOK
  <2>4. QED
    BY <2>1, <2>2, <2>3
<1>3. CASE Fail
  <2>1. FlagsOK' /\ SequencesOK'
    BY <1>3, Zenon DEF Fail, Closed, FlagsOK, SequencesOK
  <2>2. CountsOK' /\ PointsOK'
    BY <1>3 DEF Fail, CountsOK, PointsOK, Points
  <2>3. ThreadsInv' /\ RawInv' /\ FilesInv'
    BY <1>3 DEF Fail, Closed, ThreadsInv, RawInv, FilesInv, PointsOK
  <2>4. QED
    BY <2>1, <2>2, <2>3
<1>4. CASE Spawn
  <2>1. FlagsOK'
    BY <1>4, Zenon DEF Spawn, FlagsOK
  <2>2. SequencesOK' /\ CountsOK' /\ PointsOK'
    BY <1>4 DEF Spawn, SequencesOK, CountsOK, PointsOK, Points, ThreadsInv
  <2>3. ThreadsInv' /\ RawInv' /\ FilesInv'
    BY <1>4 DEF Spawn, ThreadsInv, RawInv, FilesInv, PointsOK
  <2>4. QED
    BY <2>1, <2>2, <2>3
<1>5. QED
  BY <1>1, <1>2, <1>3, <1>4

LEMMA ControlStep == RawProofs!ControlInv /\ ControlInv /\ [Next]_vars => ControlInv'
<1>1. ControlInv /\ UNCHANGED vars => ControlInv'
  BY DEF ControlInv, TypeOK, FlagsOK, SequencesOK, CountsOK, PointsOK, ThreadsInv, RawInv, FilesInv,
     vars, rawVars, state, thread, control, history, Metadata
<1>2. QED
  BY <1>1, ProducerControl, WorkerControl, RawControlStep, StopControl, StartControl, RunControl
     DEF Next, CallerStep

LEMMA ControlHolds == Spec => [](RawProofs!ControlInv /\ ControlInv)
BY RawControl, InitControl, ControlStep, PTL DEF Spec

\* Every variable keeps its type, whatever the number of items, chunks and sessions.
THEOREM TypeCorrect == Spec => []TypeOK
<1>1. ControlInv => TypeOK
  BY DEF ControlInv
<1>2. QED
  BY <1>1, ControlHolds, PTL

\* However start() fails, and whatever the workers were doing when stop() began, the
\* call returns with both workers gone and every file closed.
THEOREM FailuresAreClean == Spec => []FailureIsClean
<1>1. RawProofs!ControlInv /\ ControlInv => FailureIsClean
  <2> SUFFICES ASSUME RawProofs!ControlInv, ControlInv, caller = "idle", ~recording
               PROVE  /\ ~filesOpen /\ worker = "none"
                      /\ ~rawRecording /\ rawWorker = "none" /\ ~rawStreamOpen
    BY DEF FailureIsClean
  <2>1. ~filesOpen /\ worker = "none" /\ ~rawRecording /\ rawCaller = "idle"
    BY DEF ControlInv, ThreadsInv, RawInv, FilesInv
  <2>2. rawWorker = "none" /\ ~rawStreamOpen
    BY <2>1 DEF RawProofs!ControlInv, RawProofs!ThreadsInv, RawProofs!StreamInv
  <2>3. QED
    BY <2>1, <2>2
<1>2. QED
  BY <1>1, ControlHolds, PTL
-----------------------------------------------------------------------------
(* What was counted is what was recorded *)

\* Where a sequence holds a kind; a record more of it is a place more.
Places(seq, kind) == {i \in DOMAIN seq : seq[i] = kind}

LEMMA OneMore ==
  ASSUME NEW S, NEW seq \in Seq(S), NEW item \in S, NEW kind
  PROVE  /\ Cardinality(Places(seq, kind)) \in Nat
         /\ Cardinality(Places(seq \o <<item>>, kind)) =
              Cardinality(Places(seq, kind)) + (IF item = kind THEN 1 ELSE 0)
<1> DEFINE longer == seq \o <<item>>
           before == Places(seq, kind)
           after  == Places(longer, kind)
           next   == Len(seq) + 1
<1>1. Len(seq) \in Nat /\ DOMAIN seq = 1..Len(seq)
  BY LenProperties
<1>2. longer = Append(seq, item)
  BY AppendIsConcat
<1>3. /\ longer \in Seq(S) /\ Len(longer) = next /\ longer[next] = item
      /\ \A i \in 1..Len(seq) : longer[i] = seq[i]
  BY <1>2, AppendProperties
<1>4. DOMAIN longer = 1..next
  BY <1>3, LenProperties
<1>5. IsFiniteSet(before)
  <2>1. IsFiniteSet(1..Len(seq))
    BY <1>1, FS_Interval
  <2>2. QED
    BY <1>1, <2>1, FS_Subset DEF Places
<1> HIDE DEF longer
<1>6. after = IF item = kind THEN before \cup {next} ELSE before
  BY <1>1, <1>3, <1>4 DEF Places
<1>7. next \notin before
  BY <1>1 DEF Places
<1>8. /\ Cardinality(before) \in Nat
      /\ Cardinality(before \cup {next}) = Cardinality(before) + 1
  BY <1>5, <1>7, FS_AddElement, FS_CardinalityType
<1>9. Cardinality(after) = Cardinality(before) + (IF item = kind THEN 1 ELSE 0)
  <2> HIDE DEF before, after
  <2>1. CASE item = kind
    BY <1>6, <1>8, <2>1
  <2>2. CASE item # kind
    BY <1>6, <1>8, <2>2
  <2>3. QED
    BY <2>1, <2>2
<1>10. QED
  BY <1>8, <1>9 DEF longer

LEMMA StepWritten == ControlInv /\ WrittenInv /\ [Next]_vars => WrittenInv'
<1> SUFFICES ASSUME ControlInv, WrittenInv, [Next]_vars PROVE WrittenInv'
  OBVIOUS
<1>1. CASE UNCHANGED <<files, counts, dropped>>
  BY <1>1 DEF WrittenInv, Written
<1>2. CASE Prepare
  <2>1. counts' = [k \in Counted |-> 0] /\ files' = <<>>
    BY <1>2 DEF Prepare, NoCounts
  <2>2. \A k \in Counted : Written(k)' = {}
    BY <2>1 DEF Written
  <2>3. QED
    BY <2>1, <2>2, FS_EmptySet DEF WrittenInv
<1>3. CASE WriteItem
  <2>1. CASE dropped' = dropped + 1
    BY <2>1 DEF WrittenInv, ControlInv, TypeOK, CountsOK
  <2>2. CASE files' = files \o hand /\ dropped' = dropped
    <3> SUFFICES ASSUME dropped = 0, NEW k \in Counted PROVE counts'[k] = Cardinality(Written(k)')
      BY <2>2 DEF WrittenInv
    <3>1. files \in Seq(Kinds) /\ hand \in Seq(Kinds) /\ Len(hand) = 1
      BY <1>3 DEF WriteItem, ControlInv, TypeOK, SequencesOK
    <3>2. PICK item \in Kinds : hand = <<item>> /\ hand[1] = item
      BY <3>1, ElementOfSeq
    <3>3. /\ Cardinality(Written(k)) \in Nat
          /\ Cardinality(Written(k)') = Cardinality(Written(k)) + (IF item = k THEN 1 ELSE 0)
      <4>1. files' = files \o <<item>>
        BY <2>2, <3>2
      <4>2. PICK old \in Seq(Kinds) : old = files
        BY <3>1
      <4>3. Written(k) = Places(old, k) /\ Written(k)' = Places(old \o <<item>>, k)
        BY <4>1, <4>2 DEF Written, Places
      <4>4. QED
        BY <4>3, OneMore
    <3>4. counts'[k] = counts[k] + (IF item = k THEN 1 ELSE 0)
      BY <1>3, <3>2 DEF WriteItem, Count, ControlInv, TypeOK, CountsOK
    <3>5. QED
      BY <3>3, <3>4 DEF WrittenInv
  <2>3. QED
    BY <1>3, <2>1, <2>2 DEF WriteItem
<1>4. QED
  BY <1>1, <1>2, <1>3 DEF Next, CountRaw, ForwardRaw, EnqueueItem, Begin, CallerStep, StopRaw,
     RequestStop, Join, CloseFiles, Complete, Refuse, Initialize, StartRaw, RawStarted, Fail, Spawn,
     RawStep, RawWorkerStep, WorkerStep, Sleep, Exit, Take, vars, state, history

LEMMA StepTaken == ControlInv /\ TakenInv /\ [Next]_vars => TakenInv'
<1> SUFFICES ASSUME ControlInv, TakenInv, [Next]_vars PROVE TakenInv'
  OBVIOUS
<1>1. /\ queue \in Seq(Kinds) /\ files \in Seq(Kinds) /\ hand \in Seq(Kinds)
      /\ Len(hand) = IF worker = "write" THEN 1 ELSE 0
      /\ taken \in Seq(Kinds) /\ dropped \in Nat
  BY DEF ControlInv, TypeOK, SequencesOK, CountsOK
<1>2. CASE UNCHANGED <<files, hand, queue, taken, dropped>>
  BY <1>2 DEF TakenInv
<1>3. ASSUME NEW kind \in Kinds, EnqueueItem(kind) PROVE TakenInv'
  <2>1. UNCHANGED <<files, hand, dropped>>
    BY <1>3 DEF EnqueueItem, state
  <2>2. CASE ~recording
    BY <1>3, <2>1, <2>2 DEF EnqueueItem, TakenInv
  <2>3. CASE recording
    <3>1. queue' = Append(queue, kind) /\ taken' = Append(taken, kind)
      BY <1>3, <2>3 DEF EnqueueItem
    <3>2. Append((files \o hand) \o queue, kind) = (files \o hand) \o Append(queue, kind)
      <4>1. PICK front \in Seq(Kinds) : front = files \o hand
        BY <1>1, ConcatProperties
      <4>2. PICK rest \in Seq(Kinds) : rest = queue
        BY <1>1
      <4>3. Append(front \o rest, kind) = front \o Append(rest, kind)
        OBVIOUS
      <4>. QED
        BY <4>1, <4>2, <4>3
    <3>. QED
      BY <2>1, <3>1, <3>2 DEF TakenInv
  <2>. QED
    BY <2>2, <2>3
<1>4. CASE CloseFiles
  <2>1. UNCHANGED <<files, hand, taken, dropped>> /\ queue' = <<>>
    BY <1>4 DEF CloseFiles, thread, history
  <2>2. queue = <<>>
    BY <1>4, Zenon DEF CloseFiles, AfterJoin, ControlInv, ThreadsInv, FilesInv
  <2>. QED
    BY <2>1, <2>2 DEF TakenInv
<1>5. CASE Prepare
  <2>1. worker = "none" /\ hand' = hand /\ queue' = <<>> /\ files' = <<>> /\ taken' = <<>>
    BY <1>5 DEF Prepare, At, thread, ControlInv, ThreadsInv
  <2>2. hand = <<>>
    BY <1>1, <2>1
  <2>3. (<<>> \o <<>>) \o <<>> = <<>>
    OBVIOUS
  <2>. QED
    BY <2>1, <2>2, <2>3 DEF TakenInv
<1>6. CASE Take
  <2>1. /\ UNCHANGED <<files, taken, dropped>> /\ worker = "run" /\ queue # <<>>
        /\ hand' = <<Head(queue)>> /\ queue' = Tail(queue)
    BY <1>6 DEF Take, history
  <2>2. hand = <<>>
    BY <1>1, <2>1
  <2>3. (files \o <<>>) \o queue = (files \o <<Head(queue)>>) \o Tail(queue)
    BY <1>1, <2>1
  <2>. QED
    BY <2>1, <2>2, <2>3 DEF TakenInv
<1>7. CASE WriteItem
  <2>1. hand' = <<>> /\ UNCHANGED <<queue, taken>>
    BY <1>7 DEF WriteItem, MovedOut
  <2>2. CASE dropped' = dropped + 1
    BY <1>1, <2>2 DEF TakenInv
  <2>3. CASE files' = files \o hand /\ dropped' = dropped
    <3>1. ((files \o hand) \o <<>>) \o queue = (files \o hand) \o queue
      BY <1>1
    <3>. QED
      BY <2>1, <2>3, <3>1 DEF TakenInv
  <2>. QED
    BY <1>7, <2>2, <2>3 DEF WriteItem
<1>. QED
  BY <1>2, <1>3, <1>4, <1>5, <1>6, <1>7 DEF Next, CountRaw, ForwardRaw, Begin, CallerStep, StopRaw,
     RequestStop, Join, Complete, Refuse, Initialize, StartRaw, RawStarted, Fail, Spawn,
     RawStep, RawWorkerStep, WorkerStep, Sleep, Exit, vars, state, thread, history

\* Which steps of the raw recorder forget or accept chunks.
LEMMA RawAccepts ==
  ASSUME RawProofs!ControlInv, ControlInv, RawStep \/ RawWorkerStep
  PROVE  \/ rawAccepted' = rawAccepted /\ (rawRecording' => rawRecording)
         \/ rawAccepted' = <<>> /\ caller = "rawStarting"
<1>1. CASE RawWorkerStep
  BY <1>1 DEF RawWorkerStep, Raw!WorkerStep, Raw!Sleep, Raw!Exit, Raw!Take, Raw!Write, Raw!shared,
     Raw!history
<1>2. CASE RawStep /\ ~Raw!OpenSucceeds
  BY <1>2 DEF RawStep, Raw!RequestStop, Raw!Join, Raw!Finish, Raw!OpenFails, Raw!Spawn, Raw!shared,
     Raw!history
<1>3. CASE Raw!OpenSucceeds
  BY <1>3 DEF Raw!OpenSucceeds, RawProofs!ControlInv, RawProofs!ThreadsInv, ControlInv, RawInv
<1>4. QED
  BY <1>1, <1>2, <1>3

LEMMA StepForwarded ==
  RawProofs!ControlInv /\ ControlInv /\ ForwardedInv /\ [Next]_vars => ForwardedInv'
<1> SUFFICES ASSUME RawProofs!ControlInv, ControlInv, ForwardedInv, [Next]_vars PROVE ForwardedInv'
  OBVIOUS
<1>t. /\ rawChunks \in Nat /\ caller \in Points /\ producer \in {"idle", "forward"}
      /\ Len(rawAccepted) \in Nat
  BY LenProperties DEF ControlInv, TypeOK, CountsOK, PointsOK, RawProofs!ControlInv, RawProofs!TypeOK,
     RawProofs!SequencesOK
<1>1. CASE CountRaw
  <2>1. /\ caller = "idle" /\ producer = "idle" /\ producer' = "forward"
        /\ rawChunks' = rawChunks + 1
        /\ UNCHANGED <<caller, filesOpen, rawRecording, rawAccepted>>
    BY <1>1 DEF CountRaw, rawVars, ControlInv, ThreadsInv
  <2>2. QED
    BY <1>t, <2>1 DEF ForwardedInv, InSession
<1>2. CASE ForwardRaw
  <2>1. /\ caller = "idle" /\ producer = "forward" /\ producer' = "idle" /\ rawRecording
        /\ UNCHANGED <<caller, filesOpen, rawChunks>>
    BY <1>2 DEF ForwardRaw, state, ControlInv, ThreadsInv, RawInv
  <2>2. rawAccepted' = Append(rawAccepted, rawArrived')
    BY <1>2, <2>1 DEF ForwardRaw, Raw!Enqueue, Raw!MayAccept
  <2>3. Len(rawAccepted') = Len(rawAccepted) + 1
    <3>1. rawAccepted \in Seq(Nat) /\ rawArrived' \in Nat
      <4>1. rawArrived' = rawArrived + 1
        BY <1>2 DEF ForwardRaw, Raw!Enqueue
      <4>2. rawAccepted \in Seq(1..MaxChunks) /\ rawArrived \in Nat
        BY BoundsAssumption DEF RawProofs!ControlInv, RawProofs!TypeOK, RawProofs!SequencesOK,
           RawProofs!Chunks
      <4>3. QED
        BY <4>1, <4>2, BoundsAssumption, SeqMonotonic
    <3>2. QED
      BY <2>2, <3>1, AppendProperties
  <2>4. QED
    BY <1>t, <2>1, <2>3 DEF ForwardedInv, InSession
<1>3. CASE RawStep \/ RawWorkerStep
  <2>1. UNCHANGED <<caller, filesOpen, rawChunks, producer>>
    BY <1>3 DEF RawStep, RawWorkerStep, state, control
  <2>2. QED
    BY <1>3, <2>1, RawAccepts DEF ForwardedInv, InSession
<1>4. CASE (\E kind \in Kinds : EnqueueItem(kind)) \/ WorkerStep \/ UNCHANGED vars
  <2>1. UNCHANGED <<caller, filesOpen, rawChunks, producer, rawAccepted, rawRecording>>
    BY <1>4 DEF EnqueueItem, WorkerStep, Sleep, Exit, Take, WriteItem, vars, rawVars, state, control
  <2>2. QED
    BY <2>1 DEF ForwardedInv, InSession
<1>5. CASE (\E start \in BOOLEAN : Begin(start)) \/ StopRaw \/ RequestStop \/ Join \/ CloseFiles
           \/ Complete \/ Refuse
  <2>1. /\ UNCHANGED <<rawChunks, producer, rawAccepted>>
        /\ caller' \notin {"initialize", "startRaw", "rawStarting"}
        /\ InSession' => InSession
    BY <1>5 DEF Begin, StopRaw, Raw!Reject, Raw!history, RequestStop, Join, CloseFiles, AfterJoin,
       Complete, Refuse, At, GoTo, Return, InSession, rawVars, state, ControlInv, ThreadsInv, FilesInv
  <2>2. QED
    BY <2>1 DEF ForwardedInv
<1>6. CASE Prepare
  <2>1. rawChunks' = 0 /\ caller' \in {"initialize", "idle"} /\ (caller' = "idle" => ~filesOpen')
    BY <1>6 DEF Prepare, ResetCount, GoTo, Return
  <2>2. QED
    BY <2>1 DEF ForwardedInv, InSession
<1>7. CASE Initialize \/ StartRaw
  <2>1. /\ UNCHANGED <<rawChunks, producer>> /\ ~rawRecording'
        /\ caller \in {"initialize", "startRaw"} /\ caller' \in {"startRaw", "failed", "rawStarting"}
    BY <1>7 DEF Initialize, StartRaw, Raw!Reject, At, GoTo, rawVars, state, ControlInv, RawInv
  <2>2. QED
    BY <2>1 DEF ForwardedInv, InSession
<1>8. CASE RawStarted
  <2>1. /\ UNCHANGED <<rawChunks, producer, rawAccepted>> /\ caller = "rawStarting"
        /\ caller' \in {"spawn", "failed"} /\ (caller' = "spawn" => rawRecording)
        /\ producer = "idle"
    BY <1>t, <1>8 DEF RawStarted, At, GoTo, rawVars, ControlInv, ThreadsInv
  <2>2. rawChunks = 0 /\ (caller' = "spawn" => rawAccepted = <<>>)
    BY <2>1 DEF ForwardedInv
  <2>3. QED
    BY <2>1, <2>2, EmptySeq DEF ForwardedInv, InSession
<1>9. CASE Fail \/ Spawn
  <2>1. /\ UNCHANGED <<rawChunks, producer, rawAccepted>> /\ caller' = "idle"
        /\ filesOpen' => filesOpen /\ caller = "spawn"
    BY <1>9 DEF Fail, Closed, Spawn, At, Return, rawVars, state
  <2>2. QED
    BY <2>1 DEF ForwardedInv, InSession
<1>10. QED
  BY <1>1, <1>2, <1>3, <1>4, <1>5, <1>6, <1>7, <1>8, <1>9 DEF Next, CallerStep

LEMMA StepSealed ==
  ASSUME RawProofs!ControlInv, ControlInv, ForwardedInv, SealedInv, [Next]_vars
  PROVE  SealedInv'
<1> DEFINE Completed == metadata.status = "completed"
<1>1. CASE Completed /\ metadata' = metadata
  <2>1. /\ ~recording /\ worker = "none" /\ ~rawRecording /\ rawWorker = "none" /\ ~filesOpen
        /\ caller \in {"idle", "stopRaw", "rawStopping", "join", "joined", "prepare"}
        /\ metadata = [status |-> "completed", raw |-> rawChunks, counts |-> counts]
        /\ rawChunks = Len(rawAccepted)
    BY <1>1 DEF SealedInv, Metadata
  <2>2. /\ producer = "idle" /\ rawCaller # "spawn" /\ rawCaller # "starting"
        /\ caller # "rawStarting"
    BY <2>1 DEF ControlInv, TypeOK, PointsOK, ThreadsInv, RawInv, RawProofs!ControlInv,
       RawProofs!ThreadsInv
  <2>3. CASE UNCHANGED vars
    BY <2>1, <2>3 DEF vars, state, thread, control, rawVars, SealedInv, Metadata
  <2>4. CASE (\E kind \in Kinds : EnqueueItem(kind)) \/ \E start \in BOOLEAN : Begin(start)
    BY <2>1, <2>4 DEF EnqueueItem, Begin, rawVars, thread, control, SealedInv, Metadata
  <2>5. CASE RawStep \/ RawWorkerStep
    <3>1. /\ rawWorker' = "none" /\ ~rawRecording' /\ rawAccepted' = rawAccepted
      BY <2>1, <2>2, <2>5 DEF RawStep, RawWorkerStep, Raw!RequestStop, Raw!Join, Raw!Finish,
         Raw!OpenSucceeds, Raw!OpenFails, Raw!Spawn, Raw!WorkerStep, Raw!Sleep, Raw!Exit, Raw!Take,
         Raw!Write, Raw!shared, Raw!thread, Raw!history
    <3>2. UNCHANGED <<state, thread, control>>
      BY <2>5 DEF RawStep, RawWorkerStep
    <3>3. QED
      BY <2>1, <3>1, <3>2 DEF state, thread, control, SealedInv, Metadata
  <2>6. CASE StopRaw \/ RequestStop \/ Join
    BY <2>1, <2>6 DEF StopRaw, Raw!Reject, Raw!thread, Raw!history, RequestStop, Join, At, GoTo,
       state, thread, rawVars, SealedInv, Metadata
  <2>7. CASE CloseFiles \/ Refuse
    BY <2>1, <2>7 DEF CloseFiles, AfterJoin, Refuse, At, GoTo, Return, state, thread, rawVars,
       SealedInv, Metadata
  <2>8. CASE CountRaw \/ ForwardRaw \/ WorkerStep \/ Complete \/ Initialize \/ StartRaw \/ RawStarted
             \/ Fail \/ Spawn
    BY <2>1, <2>2, <2>8 DEF CountRaw, ForwardRaw, WorkerStep, Sleep, Exit, Take, WriteItem, Complete,
       Initialize, StartRaw, RawStarted, Fail, Spawn, At
  <2>9. CASE Prepare
    BY <1>1, <2>9 DEF Prepare, NoMetadata
  <2>10. QED
    BY <2>3, <2>4, <2>5, <2>6, <2>7, <2>8, <2>9 DEF Next, CallerStep
<1>2. CASE ~Completed /\ metadata' = metadata
  BY <1>2 DEF SealedInv
<1>3. CASE metadata' # metadata
  <2>1. CASE Complete
    <3>1. /\ metadata' = Metadata("completed") /\ caller = "complete" /\ caller' \in {"prepare", "idle"}
          /\ UNCHANGED <<rawChunks, counts, rawAccepted, rawRecording, rawWorker, recording, worker,
                         filesOpen>>
      BY <1>3, <2>1 DEF Complete, At, GoTo, Return, rawVars, thread
    <3>2. rawChunks = Len(rawAccepted) /\ ~recording /\ worker = "none" /\ ~filesOpen
      <4>1. producer # "forward"
        BY <3>1 DEF ControlInv, ThreadsInv
      <4>2. QED
        BY <3>1, <4>1, LenProperties DEF ForwardedInv, InSession, ControlInv, ThreadsInv, FilesInv,
           RawProofs!ControlInv, RawProofs!TypeOK, RawProofs!SequencesOK
    <3>3. ~rawRecording /\ rawWorker = "none"
      BY <3>1 DEF ControlInv, RawInv, RawProofs!ControlInv, RawProofs!ThreadsInv
    <3>4. QED
      BY <3>1, <3>2, <3>3 DEF SealedInv, Metadata
  <2>2. CASE Initialize \/ Prepare
    BY <1>3, <2>2 DEF Initialize, Prepare, NoMetadata, Metadata, SealedInv
  <2>3. QED
    BY <1>3, <2>1, <2>2 DEF Next, CountRaw, ForwardRaw, EnqueueItem, Begin, CallerStep, StopRaw,
       RequestStop, Join, CloseFiles, Refuse, StartRaw, RawStarted, Fail, Spawn, RawStep,
       RawWorkerStep, WorkerStep, Sleep, Exit, Take, WriteItem, vars, state
<1>4. QED
  BY <1>1, <1>2, <1>3

LEMMA AlwaysIInv == Spec => [](RawProofs!ControlInv /\ IInv)
<1>1. Init => ForwardedInv /\ WrittenInv /\ SealedInv /\ TakenInv
  <2> SUFFICES ASSUME Init PROVE ForwardedInv /\ WrittenInv /\ SealedInv /\ TakenInv
    OBVIOUS
  <2>1. ForwardedInv /\ SealedInv
    BY DEF Init, Raw!Init, ForwardedInv, InSession, SealedInv, NoMetadata
  <2>2. counts = [k \in Counted |-> 0] /\ \A k \in Counted : Written(k) = {}
    BY DEF Init, NoCounts, Written
  <2>3. WrittenInv
    BY <2>2, FS_EmptySet DEF WrittenInv
  <2>4. TakenInv
    BY DEF Init, TakenInv
  <2>5. QED
    BY <2>1, <2>3, <2>4
<1>2. QED
  BY <1>1, ControlHolds, StepForwarded, StepWritten, StepSealed, StepTaken, PTL DEF Spec, IInv

\* A metadata.json that says "completed" tells the truth, whatever a disk or a caller
\* did while the session was recorded and however many sessions there were before: what the
\* session accepted is in its files and its raw log unless a write failed, and is counted.
THEOREM CompletedIsRight == Spec => []CompletedIsTrue
<1>1. RawProofs!ControlInv /\ Raw!NothingVanishes /\ IInv => CompletedIsTrue
  <2> SUFFICES ASSUME RawProofs!ControlInv, Raw!NothingVanishes, IInv,
                      metadata.status = "completed"
               PROVE  /\ rawQueue = <<>> /\ rawHand = <<>> /\ queue = <<>> /\ hand = <<>>
                      /\ metadata.raw = Len(rawAccepted)
                      /\ rawLost = 0 => rawFile = rawAccepted
                      /\ dropped = 0 =>
                           /\ files = taken
                           /\ \A k \in Counted : metadata.counts[k] = Cardinality(Written(k))
    BY DEF CompletedIsTrue
  <2>1. /\ ~recording /\ worker = "none" /\ ~rawRecording /\ rawWorker = "none"
        /\ metadata = [status |-> "completed", raw |-> rawChunks, counts |-> counts]
        /\ rawChunks = Len(rawAccepted)
    BY DEF IInv, SealedInv, Metadata
  <2>2. queue = <<>> /\ hand = <<>> /\ files \in Seq(Kinds)
    BY <2>1, EmptySeq DEF IInv, ControlInv, TypeOK, SequencesOK, FilesInv
  <2>3. rawQueue = <<>> /\ rawHand = <<>> /\ rawFile \in Seq(RawProofs!Chunks)
    BY <2>1, EmptySeq DEF RawProofs!ControlInv, RawProofs!TypeOK, RawProofs!SequencesOK,
       RawProofs!StreamInv
  <2>4. rawLost = 0 => rawFile = rawAccepted
    <3>1. (rawFile \o <<>>) \o <<>> = rawFile
      BY <2>3
    <3>. QED
      BY <2>3, <3>1 DEF Raw!NothingVanishes, Raw!Log
  <2>5. dropped = 0 => files = taken
    <3>1. (files \o <<>>) \o <<>> = files
      BY <2>2
    <3>. QED
      BY <2>2, <3>1 DEF IInv, TakenInv
  <2>6. QED
    BY <2>1, <2>2, <2>3, <2>4, <2>5 DEF IInv, WrittenInv
<1>2. QED
  BY <1>1, AlwaysIInv, RawLogIsSafe, PTL
=============================================================================
