--------------------------- MODULE RawLogRecorder ---------------------------
(***************************************************************************)
(* The raw log recorder: src/src/core/src/raw_log_recorder.cpp and the     *)
(* stream of raw_log_writer.cpp.                                           *)
(*                                                                         *)
(* Producers enqueue chunks; one worker takes them out under mutex_ and    *)
(* writes each under mutex_ again, so a chunk is in the worker's hand      *)
(* between the two.  One caller starts and stops the recorder; stop() and  *)
(* start() are the steps between their unlocks and the join.               *)
(***************************************************************************)
EXTENDS Naturals, Sequences

CONSTANTS MaxChunks,    \* bound: chunks accepted in the life of the recorder
          Oversized,    \* chunks beyond the source id or payload limit
          MaxStarts     \* bound: logs opened

ASSUME ChunksAssumption == MaxChunks \in Nat /\ MaxStarts \in Nat
ASSUME OversizedAssumption == Oversized \subseteq 1..MaxChunks

VARIABLES
  recording, queue,   \* guarded by mutex_
  streamOpen,         \* output_.is_open()
  broken,             \* output_ is in a failed state: it stays so until it is closed
  file,               \* the complete records of the log
  worker, hand,       \* where run() stands, and the chunk in its hand
  stop,               \* stop_requested() of the worker's token
  caller, restart,    \* where the caller stands, and whether stop() belongs to start()
  \* history
  accepted,           \* chunks enqueue() accepted since the last start()
  lost,               \* how many of them were not written
  arrived, starts     \* chunks offered and logs opened so far

shared == <<recording, queue>>
stream == <<streamOpen, broken, file>>
thread == <<worker, hand, stop>>
history == <<accepted, lost, arrived, starts>>
vars == <<shared, stream, thread, caller, restart, history>>

Chunks == 1..MaxChunks

Init ==
  /\ recording = FALSE /\ queue = <<>>
  /\ streamOpen = FALSE /\ broken = FALSE /\ file = <<>>
  /\ worker = "none" /\ hand = <<>> /\ stop = FALSE
  /\ caller = "idle" /\ restart = FALSE
  /\ accepted = <<>> /\ lost = 0 /\ arrived = 0 /\ starts = 0

-----------------------------------------------------------------------------
(* Producers *)

NoWake == worker
WakeWorker == IF worker = "asleep" THEN "run" ELSE worker

Always == TRUE
MayAccept == recording

\* enqueue() of the next chunk: dropped unless the recorder is recording.
Enqueue ==
  /\ arrived < MaxChunks
  /\ arrived' = arrived + 1
  /\ IF MayAccept
     THEN /\ queue' = Append(queue, arrived')
          /\ accepted' = Append(accepted, arrived')
          /\ worker' = WakeWorker
     ELSE UNCHANGED <<queue, accepted, worker>>
  /\ UNCHANGED <<recording, stream, hand, stop, caller, restart, lost, starts>>

-----------------------------------------------------------------------------
(* The caller: start() begins with stop() *)

\* The first locked section of stop(): new chunks are rejected.
Reject(first) ==
  /\ caller = "idle"
  /\ first => starts < MaxStarts
  /\ recording' = FALSE
  /\ caller' = "stopping" /\ restart' = first
  /\ UNCHANGED <<queue, stream, thread, history>>

RequestStop ==
  /\ caller = "stopping"
  /\ IF worker = "none"
     THEN caller' = "joined" /\ UNCHANGED <<worker, stop>>
     ELSE caller' = "join" /\ stop' = TRUE /\ worker' = WakeWorker
  /\ UNCHANGED <<shared, stream, hand, restart, history>>

Join ==
  /\ caller = "join" /\ worker = "exited"
  /\ worker' = "none" /\ stop' = FALSE
  /\ caller' = "joined"
  /\ UNCHANGED <<shared, stream, hand, restart, history>>

\* The last locked section of stop(): the queue is emptied and the stream is
\* flushed and closed; a device that fails the flush keeps only a beginning of
\* the file, and nobody looks at the result of close().
BeforeJoin == caller \in {"join", "joined"}
AfterJoin == caller = "joined"
Finish ==
  /\ AfterJoin
  /\ queue' = <<>>
  /\ streamOpen' = FALSE /\ broken' = FALSE
  /\ caller' = IF restart THEN "starting" ELSE "idle"
  /\ \E kept \in 0..Len(file) :
       /\ streamOpen \/ kept = Len(file)
       /\ file' = SubSeq(file, 1, kept)
       /\ lost' = lost + Len(file) - kept
  /\ UNCHANGED <<recording, thread, restart, accepted, arrived, starts>>

\* The locked section of start(): the file is truncated and recording begins.
OpenSucceeds ==
  /\ caller = "starting"
  /\ streamOpen' = TRUE /\ broken' = FALSE /\ file' = <<>>
  /\ recording' = TRUE
  /\ caller' = "spawn"
  /\ starts' = starts + 1
  /\ accepted' = <<>> /\ lost' = 0
  /\ UNCHANGED <<queue, thread, restart, arrived>>

OpenFails ==
  /\ caller = "starting"
  /\ caller' = "idle"
  /\ UNCHANGED <<shared, stream, thread, restart, history>>

Spawn ==
  /\ caller = "spawn"
  /\ worker' = "run"
  /\ caller' = "idle"
  /\ UNCHANGED <<shared, stream, hand, stop, restart, history>>

CallerStep == \/ \E first \in BOOLEAN : Reject(first)
              \/ RequestStop \/ Join \/ Finish \/ OpenSucceeds \/ OpenFails \/ Spawn

-----------------------------------------------------------------------------
(* The worker *)

Sleep ==
  /\ worker = "run" /\ queue = <<>> /\ ~stop
  /\ worker' = "asleep"
  /\ UNCHANGED <<shared, stream, hand, stop, caller, restart, history>>

\* Both loops of run() end on an empty queue; the second one drains it.
ExitEarly == stop
ExitDrained == stop /\ queue = <<>>
Exit ==
  /\ worker = "run" /\ ExitDrained
  /\ worker' = "exited"
  /\ UNCHANGED <<shared, stream, hand, stop, caller, restart, history>>

Newest == queue[Len(queue)]
Oldest == Head(queue)
Take ==
  /\ worker = "run" /\ queue # <<>>
  /\ hand' = <<Oldest>>
  /\ queue' = Tail(queue)
  /\ worker' = "write"
  /\ UNCHANGED <<recording, stream, stop, caller, restart, history>>

MovedOut == <<>>

\* writeChunk(): the record is appended; refused when it is too large; or the
\* device fails, which leaves the stream broken until it is closed.
Writable == streamOpen /\ ~broken /\ hand[1] \notin Oversized
Write ==
  /\ worker = "write"
  /\ \/ /\ Writable
        /\ file' = file \o hand
        /\ UNCHANGED <<broken, lost>>
     \/ /\ ~Writable
        /\ lost' = lost + 1
        /\ UNCHANGED <<file, broken>>
     \/ /\ Writable
        /\ broken' = TRUE
        /\ lost' = lost + 1
        /\ UNCHANGED file
  /\ hand' = MovedOut
  /\ worker' = "run"
  /\ UNCHANGED <<shared, streamOpen, stop, caller, restart, accepted, arrived, starts>>

WorkerStep == Sleep \/ Exit \/ Take \/ Write

Next == Enqueue \/ CallerStep \/ WorkerStep

\* The worker is scheduled, and a caller inside start() or stop() goes on.
Fairness == /\ WF_vars(WorkerStep)
            /\ WF_vars(RequestStop) /\ WF_vars(Join) /\ WF_vars(Finish)
            /\ WF_vars(OpenSucceeds \/ OpenFails) /\ WF_vars(Spawn)

Spec == Init /\ [][Next]_vars
FairSpec == Spec /\ Fairness

-----------------------------------------------------------------------------
(* What the recorder promises *)

FlagsOK ==
  /\ recording \in BOOLEAN /\ streamOpen \in BOOLEAN /\ broken \in BOOLEAN
  /\ stop \in BOOLEAN /\ restart \in BOOLEAN

SequencesOK ==
  /\ queue \in Seq(Chunks) /\ file \in Seq(Chunks) /\ accepted \in Seq(Chunks)
  /\ hand \in Seq(Chunks) /\ Len(hand) = (IF worker = "write" THEN 1 ELSE 0)
  /\ lost \in Nat /\ arrived \in 0..MaxChunks /\ starts \in 0..MaxStarts

PointsOK ==
  /\ worker \in {"none", "run", "asleep", "write", "exited"}
  /\ caller \in {"idle", "stopping", "join", "joined", "starting", "spawn"}

TypeOK == FlagsOK /\ SequencesOK /\ PointsOK

\* Everything on its way to the disk, and on it, oldest first.
Log == file \o hand \o queue

\* Every chunk accepted since start() is in the file or on its way there or was
\* counted as lost; without a fault the log is exactly what was accepted.
NothingVanishes ==
  /\ Len(accepted) = lost + Len(Log)
  /\ lost = 0 => Log = accepted

\* Even with faults, chunks reach the file in the order they were accepted,
\* none of them twice, and none of an earlier log.
LogIsOrdered == \A i, j \in DOMAIN Log : i < j => Log[i] < Log[j]

\* When stop() has returned no worker is left to touch the closed stream, and
\* nothing is on its way.
StoppedIsQuiet ==
  caller = "idle" /\ ~recording =>
    /\ worker = "none" /\ ~streamOpen
    /\ queue = <<>> /\ hand = <<>>

\* start() and stop() return: a sleeping worker sees the stop request.
CallReturns == (caller # "idle") ~> (caller = "idle")

\* The recorder implements an append-only log.
phase == IF recording THEN "accepting" ELSE IF streamOpen THEN "sealed" ELSE "closed"

Abstract == INSTANCE AppendLog
  WITH Records <- Chunks, phase <- phase, log <- Log, written <- Len(file), lost <- lost

ImplementsLog == Abstract!Spec
=============================================================================
