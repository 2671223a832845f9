--------------------------- MODULE SessionRecorder ---------------------------
(***************************************************************************)
(* The session recorder: src/src/core/src/session_recorder.cpp around the  *)
(* RawLogRecorder it owns, called the way serial_session.cpp calls it.     *)
(*                                                                         *)
(* Raw chunks are counted under mutex_ and then forwarded to the raw       *)
(* recorder outside it; samples, frames, events and protocol snapshots go  *)
(* through a queue to a second worker, which writes files no lock guards.  *)
(* SerialSession holds routingMutex_ around start(), stop() and every      *)
(* enqueueRaw(), but not around the enqueueing of items.                   *)
(***************************************************************************)
EXTENDS Naturals, Sequences, FiniteSets

CONSTANTS Kinds,       \* kinds of items: samples, frames, events, snapshots
          Uncounted,   \* the kinds metadata.json has no count for: snapshots
          MaxItems,    \* bound: items offered
          MaxChunks, Oversized, MaxStarts   \* those of RawLogRecorder

ASSUME KindsAssumption == Uncounted \subseteq Kinds
ASSUME BoundsAssumption == MaxItems \in Nat /\ MaxChunks \in Nat /\ MaxStarts \in Nat
ASSUME OversizedAssumption == Oversized \subseteq 1..MaxChunks

VARIABLES
  rawRecording, rawQueue, rawStreamOpen, rawBroken, rawFile, rawWorker, rawHand, rawStop,
  rawCaller, rawRestart, rawAccepted, rawLost, rawArrived, rawStarts,   \* rawRecorder_
  recording, queue,   \* guarded by mutex_
  rawChunks,          \* chunks counted by enqueueRaw()
  counts,             \* samples_, framesCount_, eventsCount_
  filesOpen,          \* values_, frames_ and events_ are open
  files,              \* what they and protocol/ hold, in the order it was written
  metadata,           \* the metadata.json of directory_
  worker, hand, stop, \* run()
  routing,            \* who holds routingMutex_: "free", "producer", "caller"
  producer,           \* whether a producer is inside enqueueRaw()
  caller, starting,   \* where start() or stop() stands, and which of them it is
  offered,            \* history: items offered so far
  taken,              \* history: items this session accepted, in order
  dropped             \* history: items of this session a failing disk lost

rawVars == <<rawRecording, rawQueue, rawStreamOpen, rawBroken, rawFile, rawWorker, rawHand,
             rawStop, rawCaller, rawRestart, rawAccepted, rawLost, rawArrived, rawStarts>>
state == <<recording, queue, rawChunks, counts, filesOpen, files, metadata>>
thread == <<worker, hand, stop>>
control == <<routing, producer, caller, starting>>
history == <<offered, taken, dropped>>
vars == <<rawVars, state, thread, control, history>>

Raw == INSTANCE RawLogRecorder
  WITH recording <- rawRecording, queue <- rawQueue, streamOpen <- rawStreamOpen,
       broken <- rawBroken, file <- rawFile, worker <- rawWorker, hand <- rawHand,
       stop <- rawStop, caller <- rawCaller, restart <- rawRestart,
       accepted <- rawAccepted, lost <- rawLost, arrived <- rawArrived, starts <- rawStarts

Counted == Kinds \ Uncounted
NoCounts == [k \in Counted |-> 0]
NoMetadata == [status |-> "none"]

Init ==
  /\ Raw!Init
  /\ recording = FALSE /\ queue = <<>>
  /\ rawChunks = 0 /\ counts = NoCounts
  /\ filesOpen = FALSE /\ files = <<>> /\ metadata = NoMetadata
  /\ worker = "none" /\ hand = <<>> /\ stop = FALSE
  /\ routing = "free" /\ producer = "idle" /\ caller = "idle" /\ starting = FALSE
  /\ offered = 0 /\ taken = <<>> /\ dropped = 0

-----------------------------------------------------------------------------
(* Producers *)

\* enqueueRaw(): the chunk is counted under mutex_ and forwarded after it, both
\* with routingMutex_ held.
NoBarrier == "free"
Barrier == "producer"

CountRaw ==
  /\ routing = "free" /\ producer = "idle" /\ recording /\ rawArrived < MaxChunks
  /\ rawChunks' = rawChunks + 1
  /\ producer' = "forward" /\ routing' = Barrier
  /\ UNCHANGED <<rawVars, recording, queue, counts, filesOpen, files, metadata, thread, caller,
                 starting, history>>

ForwardRaw ==
  /\ producer = "forward"
  /\ Raw!Enqueue
  /\ producer' = "idle"
  /\ routing' = IF routing = "producer" THEN "free" ELSE routing
  /\ UNCHANGED <<state, thread, caller, starting, history>>

NoWake == worker
WakeWorker == IF worker = "asleep" THEN "run" ELSE worker

\* enqueueSample(), enqueueFrame(), enqueueEvent() and updateProtocolSnapshot().
EnqueueItem(kind) ==
  /\ offered < MaxItems
  /\ offered' = offered + 1
  /\ IF recording
     THEN queue' = Append(queue, kind) /\ taken' = Append(taken, kind) /\ worker' = WakeWorker
     ELSE UNCHANGED <<queue, taken, worker>>
  /\ UNCHANGED <<rawVars, recording, rawChunks, counts, filesOpen, files, metadata, hand, stop,
                 control, dropped>>

-----------------------------------------------------------------------------
(* The caller: start() begins with stop() *)

At(point) == caller = point
GoTo(point) == caller' = point /\ UNCHANGED <<routing, starting, producer>>
Return == caller' = "idle" /\ routing' = "free" /\ UNCHANGED <<starting, producer>>

\* stop() first rejects new items, then stops the raw recorder.
Begin(start) ==
  /\ caller = "idle" /\ routing = "free"
  /\ start => rawStarts < MaxStarts
  /\ recording' = FALSE
  /\ caller' = "stopRaw" /\ routing' = "caller" /\ starting' = start
  /\ UNCHANGED <<rawVars, queue, rawChunks, counts, filesOpen, files, metadata, thread, producer,
                 history>>

StopRaw == At("stopRaw") /\ Raw!Reject(FALSE) /\ GoTo("rawStopping")
           /\ UNCHANGED <<state, thread, history>>

\* The steps of the raw recorder inside its own stop() and start().
RawStep ==
  /\ Raw!RequestStop \/ Raw!Join \/ Raw!Finish \/ Raw!OpenSucceeds \/ Raw!OpenFails \/ Raw!Spawn
  /\ UNCHANGED <<state, thread, control, history>>

RequestStop ==
  /\ At("rawStopping") /\ rawCaller = "idle"
  /\ IF worker = "none"
     THEN GoTo("joined") /\ UNCHANGED <<worker, stop>>
     ELSE GoTo("join") /\ stop' = TRUE /\ worker' = WakeWorker
  /\ UNCHANGED <<rawVars, state, hand, history>>

Join ==
  /\ At("join") /\ worker = "exited"
  /\ worker' = "none" /\ stop' = FALSE
  /\ GoTo("joined")
  /\ UNCHANGED <<rawVars, state, hand, history>>

BeforeJoin == caller \in {"join", "joined"}
AfterJoin == caller = "joined"

\* The locked section that ends a session; the metadata is completed if there was one.
CloseFiles ==
  /\ AfterJoin
  /\ filesOpen' = FALSE /\ queue' = <<>>
  /\ IF filesOpen THEN GoTo("complete")
     ELSE IF starting THEN GoTo("prepare") ELSE Return
  /\ UNCHANGED <<rawVars, recording, rawChunks, counts, files, metadata, thread, history>>

\* writeMetadata(): the counts are read under mutex_; the file may be refused.
Metadata(status) == [status |-> status, raw |-> rawChunks, counts |-> counts]

Complete ==
  /\ At("complete")
  /\ metadata' \in {metadata, Metadata("completed")}
  /\ IF starting THEN GoTo("prepare") ELSE Return
  /\ UNCHANGED <<rawVars, recording, queue, rawChunks, counts, filesOpen, files, thread, history>>

\* The directory is not empty or cannot be made: start() changes nothing.
Refuse ==
  /\ At("prepare") /\ Return
  /\ UNCHANGED <<rawVars, state, thread, history>>

\* The locked section of start() for a new directory.
ResetCount == 0
Prepare ==
  /\ At("prepare")
  /\ rawChunks' = ResetCount /\ counts' = NoCounts /\ queue' = <<>>
  /\ files' = <<>> /\ metadata' = NoMetadata /\ taken' = <<>> /\ dropped' = 0
  /\ \/ filesOpen' = TRUE /\ GoTo("initialize")
     \/ filesOpen' = FALSE /\ Return
  /\ UNCHANGED <<rawVars, recording, thread, offered>>

\* The configuration files and the first metadata.json are written.
Initialize ==
  /\ At("initialize")
  /\ \/ metadata' = Metadata("recording") /\ GoTo("startRaw")
     \/ metadata' = metadata /\ GoTo("failed")
  /\ UNCHANGED <<rawVars, recording, queue, rawChunks, counts, filesOpen, files, thread, history>>

StartRaw == At("startRaw") /\ Raw!Reject(TRUE) /\ GoTo("rawStarting")
            /\ UNCHANGED <<state, thread, history>>

RawStarted ==
  /\ At("rawStarting") /\ rawCaller = "idle"
  /\ IF rawRecording THEN GoTo("spawn") /\ recording' = TRUE
                     ELSE GoTo("failed") /\ UNCHANGED recording
  /\ UNCHANGED <<rawVars, queue, rawChunks, counts, filesOpen, files, metadata, thread, history>>

\* A failed start closes the files and leaves its metadata.json behind.
LeftOpen == filesOpen
Closed == FALSE
Fail ==
  /\ At("failed") /\ Return
  /\ filesOpen' = Closed
  /\ UNCHANGED <<rawVars, recording, queue, rawChunks, counts, files, metadata, thread, history>>

Spawn ==
  /\ At("spawn") /\ Return
  /\ worker' = "run"
  /\ UNCHANGED <<rawVars, state, hand, stop, history>>

CallerStep == \/ StopRaw \/ RequestStop \/ Join \/ CloseFiles \/ Complete \/ Refuse \/ Prepare
              \/ Initialize \/ StartRaw \/ RawStarted \/ Fail \/ Spawn

-----------------------------------------------------------------------------
(* The workers *)

RawWorkerStep == Raw!WorkerStep /\ UNCHANGED <<state, thread, control, history>>

Sleep ==
  /\ worker = "run" /\ queue = <<>> /\ ~stop
  /\ worker' = "asleep"
  /\ UNCHANGED <<rawVars, state, hand, stop, control, history>>

Exit ==
  /\ worker = "run" /\ queue = <<>> /\ stop
  /\ worker' = "exited"
  /\ UNCHANGED <<rawVars, state, hand, stop, control, history>>

Take ==
  /\ worker = "run" /\ queue # <<>>
  /\ hand' = <<Head(queue)>> /\ queue' = Tail(queue)
  /\ worker' = "write"
  /\ UNCHANGED <<rawVars, recording, rawChunks, counts, filesOpen, files, metadata, stop, control,
                 history>>

\* writeItem(): written with no lock held, then counted whether or not the disk
\* took it.
Count(kind) == IF kind \in Counted THEN [counts EXCEPT ![kind] = @ + 1] ELSE counts
MovedOut == <<>>
WriteItem ==
  /\ worker = "write"
  /\ \/ files' = files \o hand /\ UNCHANGED dropped
     \/ dropped' = dropped + 1 /\ UNCHANGED files
  /\ counts' = Count(hand[1])
  /\ hand' = MovedOut /\ worker' = "run"
  /\ UNCHANGED <<rawVars, recording, queue, rawChunks, filesOpen, metadata, stop, control, offered,
                 taken>>

WorkerStep == Sleep \/ Exit \/ Take \/ WriteItem

Next == \/ CountRaw \/ ForwardRaw \/ (\E kind \in Kinds : EnqueueItem(kind))
        \/ (\E start \in BOOLEAN : Begin(start)) \/ CallerStep \/ RawStep
        \/ RawWorkerStep \/ WorkerStep

\* Both workers are scheduled, a caller inside start() or stop() goes on, and so
\* does a producer inside enqueueRaw().
Fairness == /\ WF_vars(WorkerStep) /\ WF_vars(RawWorkerStep)
            /\ WF_vars(CallerStep) /\ WF_vars(RawStep) /\ WF_vars(ForwardRaw)

Spec == Init /\ [][Next]_vars
FairSpec == Spec /\ Fairness

-----------------------------------------------------------------------------
(* What a recorded session promises *)

Points == {"idle", "stopRaw", "rawStopping", "join", "joined", "complete", "prepare",
           "initialize", "startRaw", "rawStarting", "failed", "spawn"}

FlagsOK ==
  /\ recording \in BOOLEAN /\ filesOpen \in BOOLEAN /\ stop \in BOOLEAN /\ starting \in BOOLEAN
SequencesOK ==
  /\ queue \in Seq(Kinds) /\ files \in Seq(Kinds) /\ taken \in Seq(Kinds)
  /\ hand \in Seq(Kinds) /\ Len(hand) = (IF worker = "write" THEN 1 ELSE 0)
CountsOK ==
  /\ rawChunks \in Nat /\ counts \in [Counted -> Nat] /\ offered \in 0..MaxItems /\ dropped \in Nat
  /\ metadata \in {NoMetadata} \cup
       [status : {"recording", "completed"}, raw : Nat, counts : [Counted -> Nat]]
PointsOK ==
  /\ worker \in {"none", "run", "asleep", "write", "exited"}
  /\ routing \in {"free", "producer", "caller"} /\ producer \in {"idle", "forward"}
  /\ caller \in Points
TypeOK == FlagsOK /\ SequencesOK /\ CountsOK /\ PointsOK

\* Where the records of a kind are in the files.
Written(kind) == {i \in DOMAIN files : files[i] = kind}

\* A metadata.json that says "completed" describes a session nobody writes to any more.  Unless
\* the disk failed, its raw log is every chunk and its files are every item that the session
\* accepted, in that order; its chunk count is the number of chunks the raw recorder was given, and
\* its item counts are those of the records in the files.
CompletedIsTrue ==
  metadata.status = "completed" =>
    /\ rawQueue = <<>> /\ rawHand = <<>> /\ queue = <<>> /\ hand = <<>>
    /\ metadata.raw = Len(rawAccepted)
    /\ rawLost = 0 => rawFile = rawAccepted
    /\ dropped = 0 => /\ files = taken
                      /\ \A k \in Counted : metadata.counts[k] = Cardinality(Written(k))

\* A start that failed leaves neither recorder running and no file open.
FailureIsClean ==
  caller = "idle" /\ ~recording =>
    ~filesOpen /\ worker = "none" /\ ~rawRecording /\ rawWorker = "none" /\ ~rawStreamOpen

\* start() and stop() return.
CallReturns == (caller # "idle") ~> (caller = "idle")
=============================================================================
