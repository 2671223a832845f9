------------------------- MODULE ProcessingPipeline -------------------------
(***************************************************************************)
(* The processing pipeline: src/src/core/src/processing_pipeline.cpp and   *)
(* the line assembly of csv_stream_parser.cpp.                             *)
(*                                                                         *)
(* Producers push chunks into one queue; one worker takes them out, feeds  *)
(* the parser of the chunk's source and hands every unit it completes (a   *)
(* CSV line or a binary frame) to the handlers.  A client thread replaces  *)
(* parser configurations while chunks are queued or in the worker's hand,  *)
(* and waits in flush().  The sections under queueMutex_ and parserMutex_  *)
(* are one action each.                                                    *)
(*                                                                         *)
(* A chunk carries its source, its sequence number and the shape of its    *)
(* payload; a unit is the list of chunks its bytes came from.              *)
(***************************************************************************)
EXTENDS Naturals, Sequences, SequencesExt, Functions

CONSTANTS Sources,       \* source identifiers
          FieldSets,     \* CSV field name lists
          Protocols,     \* protocol definitions
          NoProtocol,    \* std::nullopt of a protocolDefinition
          Inherit,       \* a source without a configuration of its own
          MaxChunks,     \* bound: chunks pushed
          MaxSwitches,   \* bound: configuration calls
          MaxPending     \* kMaximumLineLength, in chunks

ASSUME NoProtocolAssumption == NoProtocol \notin Protocols
ASSUME BoundsAssumption ==
  MaxChunks \in Nat /\ MaxSwitches \in Nat /\ MaxPending \in Nat \ {0}

VARIABLES
  queue, processing,   \* guarded by queueMutex_
  default, override,   \* fieldNames_ and protocolDefinition_, sourceConfigurations_
  parsers,             \* sourceParsers_
  worker, chunk,       \* where run() stands, and the chunk in its hand
  found,               \* the units of that chunk still to be handed out
  stop,                \* the destructor has requested the stop
  client,              \* the client: "idle", or inside flush()
  switches,            \* configuration calls made so far
  \* history
  pushed,              \* chunks pushed, per source
  sent,                \* those of them that are tx chunks
  done,                \* the last chunk the worker finished with, per source
  cleared,             \* pushed[s] when the queue was last cleared
  line                 \* the last unit completed, per source

config == <<default, override, parsers>>
history == <<pushed, sent, done, cleared, line>>
vars == <<queue, processing, config, worker, chunk, found, stop, client, switches, history>>

\* "part" has no end of a unit, "end" is the end of one, "next" also holds the
\* beginning of the following one, and "tx" is a chunk that was sent.
Shapes == {"part", "end", "next", "tx"}
Chunk == [src : Sources, seq : Nat \ {0}, shape : Shapes]
Configuration == [fields : FieldSets, protocol : Protocols \cup {NoProtocol}]
Unit == [src : Sources, chunks : Seq(Nat)]
Parser == [exists : {TRUE}, configuration : Configuration, pending : Seq(Nat)]
NoParser == [exists |-> FALSE]
NoChunk == [src |-> "none"]

Init ==
  /\ queue = <<>> /\ processing = FALSE
  /\ default \in [fields : FieldSets, protocol : {NoProtocol}]
  /\ override = [s \in Sources |-> Inherit]
  /\ parsers = [s \in Sources |-> NoParser]
  /\ worker = "idle" /\ chunk = NoChunk /\ found = <<>> /\ stop = FALSE
  /\ client = "idle" /\ switches = 0
  /\ pushed = [s \in Sources |-> 0] /\ done = [s \in Sources |-> 0]
  /\ sent = [s \in Sources |-> {}]
  /\ cleared = [s \in Sources |-> 0]
  /\ line = [s \in Sources |-> <<>>]

-----------------------------------------------------------------------------
(* Producers *)

\* The condition variable queueReady_ wakes a worker that found nothing.
NoWake == worker
WakeWorker == IF worker = "asleep" THEN "idle" ELSE worker

\* The bound on the chunks of all sources.
Room == FoldFunction(+, 0, pushed) < MaxChunks

\* push() of the next chunk of source s.
Push(s, shape) ==
  /\ ~stop /\ Room
  /\ pushed' = [pushed EXCEPT ![s] = @ + 1]
  /\ queue' = Append(queue, [src |-> s, seq |-> pushed[s] + 1, shape |-> shape])
  /\ worker' = WakeWorker
  /\ sent' = IF shape = "tx" THEN [sent EXCEPT ![s] = @ \cup {pushed[s] + 1}] ELSE sent
  /\ UNCHANGED <<processing, config, chunk, found, stop, client, switches, done, cleared,
                 line>>

-----------------------------------------------------------------------------
(* The client: configuration calls and flush() *)

MaySwitch == client = "idle" /\ ~stop /\ switches < MaxSwitches

\* The configuration a chunk of source s is parsed with.
Resolved(s) == IF override[s] = Inherit THEN default ELSE override[s]

AllParsersGone == [s \in Sources |-> NoParser]
KeepParsers(s) == parsers
ParserGone(s) == [parsers EXCEPT ![s] = NoParser]

\* What every other switch does besides: it clears the queue of all sources.
ClearQueue ==
  /\ switches' = switches + 1
  /\ queue' = <<>>
  /\ cleared' = pushed
  /\ UNCHANGED <<processing, worker, chunk, found, stop, client, pushed, sent, done, line>>

\* setFieldNames() leaves the queue alone.
SetFieldNames(names) ==
  /\ MaySwitch
  /\ switches' = switches + 1
  /\ default' = [default EXCEPT !.fields = names]
  /\ parsers' = AllParsersGone
  /\ UNCHANGED <<queue, processing, override, worker, chunk, found, stop, client, history>>

\* setProtocolDefinition(), and clearProtocolDefinition() for NoProtocol.
SetProtocolDefinition(definition) ==
  /\ MaySwitch
  /\ default' = [default EXCEPT !.protocol = definition]
  /\ parsers' = AllParsersGone
  /\ UNCHANGED override
  /\ ClearQueue

SetSourceConfiguration(s, configuration) ==
  /\ MaySwitch
  /\ override' = [override EXCEPT ![s] = configuration]
  /\ parsers' = ParserGone(s)
  /\ UNCHANGED default
  /\ ClearQueue

ClearSourceConfiguration(s) ==
  /\ MaySwitch
  /\ override' = [override EXCEPT ![s] = Inherit]
  /\ parsers' = ParserGone(s)
  /\ UNCHANGED default
  /\ ClearQueue

\* setQualifyFieldNames() changes how samples are named, not how bytes are parsed,
\* and clears the queue and the parsers all the same.
SetQualifyFieldNames ==
  /\ MaySwitch
  /\ parsers' = AllParsersGone
  /\ UNCHANGED <<default, override>>
  /\ ClearQueue

\* resetParsers() forgets half lines and half frames, not the queue.
ResetParsers ==
  /\ MaySwitch
  /\ switches' = switches + 1
  /\ parsers' = AllParsersGone
  /\ UNCHANGED <<queue, processing, default, override, worker, chunk, found, stop, client,
                 history>>

\* The predicate flush() waits for.
Idle == queue = <<>> /\ ~processing

Flush ==
  /\ client \in {"idle", "flush"} /\ ~stop
  /\ client' = IF Idle THEN "idle" ELSE "flushWait"
  /\ UNCHANGED <<queue, processing, config, worker, chunk, found, stop, switches, history>>

\* The destructor: the worker drains the queue before it exits.
RequestStop ==
  /\ client = "idle" /\ ~stop
  /\ stop' = TRUE
  /\ worker' = WakeWorker
  /\ UNCHANGED <<queue, processing, config, chunk, found, client, switches, history>>

ClientStep ==
  \/ \E names \in FieldSets : SetFieldNames(names)
  \/ \E definition \in Protocols \cup {NoProtocol} : SetProtocolDefinition(definition)
  \/ \E s \in Sources, configuration \in Configuration : SetSourceConfiguration(s, configuration)
  \/ \E s \in Sources : ClearSourceConfiguration(s)
  \/ SetQualifyFieldNames \/ ResetParsers \/ Flush \/ RequestStop

-----------------------------------------------------------------------------
(* The worker *)

Sleep ==
  /\ worker = "idle" /\ queue = <<>> /\ ~stop
  /\ worker' = "asleep"
  /\ UNCHANGED <<queue, processing, config, chunk, found, stop, client, switches, history>>

ExitEarly == stop
ExitDrained == stop /\ queue = <<>>

Exit ==
  /\ worker = "idle" /\ ExitDrained
  /\ worker' = "exited"
  /\ UNCHANGED <<queue, processing, config, chunk, found, stop, client, switches, history>>

NotBusy == FALSE
Busy == TRUE
Newest == Last(queue)
Oldest == Head(queue)

\* The first locked section: take a chunk and mark it as being processed.
Take ==
  /\ worker = "idle" /\ queue # <<>>
  /\ chunk' = Oldest
  /\ queue' = Tail(queue)
  /\ processing' = Busy
  /\ worker' = IF chunk'.shape = "tx" THEN "finish" ELSE "parse"
  /\ UNCHANGED <<config, found, stop, client, switches, history>>

\* The parser of the chunk's source, created on first use.
ParserOf(s) == IF parsers[s] = NoParser
               THEN [exists |-> TRUE, configuration |-> Resolved(s), pending |-> <<>>]
               ELSE parsers[s]

\* The CSV parser is fed when the configuration has no protocol, the frame
\* parser when it was made with the parser; each keeps what it cannot finish.
Fed(p) == Resolved(chunk.src).protocol = NoProtocol \/ p.configuration.protocol # NoProtocol

\* A line that grows beyond the limit without an end is forgotten.
Grown(p) == IF Len(p.pending) >= MaxPending THEN <<>> ELSE Append(p.pending, chunk.seq)

Assemble(p) ==
  CASE chunk.shape = "part" -> [pending |-> Grown(p), units |-> <<>>]
    [] chunk.shape = "end"  -> [pending |-> <<>>, units |-> <<Append(p.pending, chunk.seq)>>]
    [] chunk.shape = "next" -> [pending |-> <<chunk.seq>>,
                                units |-> <<Append(p.pending, chunk.seq)>>]

\* The section under parserMutex_: configuration lookup and consumption.
Parse ==
  /\ worker = "parse"
  /\ LET s == chunk.src
         p == ParserOf(s)
         result == IF Fed(p) THEN Assemble(p) ELSE [pending |-> p.pending, units |-> <<>>]
     IN /\ parsers' = [parsers EXCEPT ![s] = [p EXCEPT !.pending = result.pending]]
        /\ found' = [i \in DOMAIN result.units |-> [src |-> s, chunks |-> result.units[i]]]
        /\ line' = IF result.units = <<>> THEN line
                   ELSE [line EXCEPT ![s] = Last(result.units)]
        /\ worker' = IF result.units = <<>> THEN "finish" ELSE "emit"
  /\ UNCHANGED <<queue, processing, default, override, chunk, stop, client, switches, pushed,
                 sent, done, cleared>>

\* The handlers run for one unit, with no lock held.
Emit ==
  /\ worker = "emit"
  /\ found' = Tail(found)
  /\ worker' = IF Len(found) = 1 THEN "finish" ELSE "emit"
  /\ UNCHANGED <<queue, processing, config, chunk, stop, client, switches, history>>

\* queueIdle_ wakes a client that waits in flush().
NotifyIdle == IF queue = <<>> /\ client = "flushWait" THEN "flush" ELSE client

Finish ==
  /\ worker = "finish"
  /\ processing' = FALSE
  /\ chunk' = NoChunk
  /\ worker' = "idle"
  /\ client' = NotifyIdle
  /\ done' = [done EXCEPT ![chunk.src] = chunk.seq]
  /\ UNCHANGED <<queue, config, found, stop, switches, pushed, sent, cleared, line>>

WorkerStep == Sleep \/ Exit \/ Take \/ Parse \/ Emit \/ Finish

Next == (\E s \in Sources, shape \in Shapes : Push(s, shape)) \/ ClientStep \/ WorkerStep

\* The worker thread is scheduled, and a client woken inside flush() looks again.
Fairness == WF_vars(WorkerStep) /\ WF_vars(client = "flush" /\ Flush)

Spec == Init /\ [][Next]_vars
FairSpec == Spec /\ Fairness

-----------------------------------------------------------------------------
(* What the pipeline promises *)

WorkerPoints == {"idle", "asleep", "parse", "emit", "finish", "exited"}
Holds == worker \in {"parse", "emit", "finish"}

ConfigurationOK ==
  /\ default \in Configuration
  /\ override \in [Sources -> Configuration \cup {Inherit}]
  /\ parsers \in [Sources -> Parser \cup {NoParser}]

ThreadsOK ==
  /\ worker \in WorkerPoints /\ processing \in BOOLEAN /\ (processing <=> Holds)
  /\ chunk \in (IF Holds THEN Chunk ELSE {NoChunk})
  /\ worker \in {"parse", "emit"} => chunk.shape # "tx"
  /\ found \in Seq(Unit) /\ Len(found) = (IF worker = "emit" THEN 1 ELSE 0)
  /\ stop \in BOOLEAN /\ client \in {"idle", "flush", "flushWait"}

HistoryOK ==
  /\ pushed \in [Sources -> Nat] /\ done \in [Sources -> Nat] /\ cleared \in [Sources -> Nat]
  /\ sent \in [Sources -> SUBSET Nat] /\ line \in [Sources -> Seq(Nat)]

\* Each variable keeps its type; the flag flush() looks at is that of a chunk in hand.
TypeOK == queue \in Seq(Chunk) /\ switches \in Nat /\ ConfigurationOK /\ ThreadsOK /\ HistoryOK

\* A source's parser, which captured its field names and protocol when it was
\* created, is never used after a call that changes what the source is parsed
\* with: every such call removes the parsers it concerns.
ParserMatchesConfiguration ==
  \A s \in Sources : parsers[s] # NoParser => parsers[s].configuration = Resolved(s)

\* The chunks of a source that are still to be finished: the one in hand and those queued.
QueuedOf(s) == {i \in DOMAIN queue : queue[i].src = s}
InHandOf(s) == IF Holds /\ chunk.src = s THEN {chunk.seq} ELSE {}
Waiting(s) == InHandOf(s) \cup {queue[i].seq : i \in QueuedOf(s)}

\* Chunks of one source are handled in the order they were pushed, each once,
\* and only a configuration call that clears the queue ever drops one.
Ordered(s) ==
  /\ \A n \in Waiting(s) : done[s] < n
  /\ \A n \in InHandOf(s), i \in QueuedOf(s) : n < queue[i].seq
  /\ \A i, j \in QueuedOf(s) : i < j => queue[i].seq < queue[j].seq
Accounted(s) ==
  \A n \in (done[s] + 1)..pushed[s] : n \in Waiting(s) \/ n <= cleared[s]
NothingLost == \A s \in Sources : Ordered(s) /\ Accounted(s)

\* The bytes two neighbours of a unit leave out are bytes that were sent, or
\* that a configuration call dropped from the queue.
Between(s, seq, i) == {n \in (seq[i] + 1)..(seq[i + 1] - 1) : n \notin sent[s]}
GapsOnlyAtSwitches ==
  \A s \in Sources : \A i \in 1..(Len(line[s]) - 1) :
    /\ line[s][i] < line[s][i + 1]
    /\ \A n \in Between(s, line[s], i) : n <= cleared[s]

\* flush() returns only when the handlers of every chunk pushed so far have run.
FlushIsABarrier ==
  [][client = "flush" /\ client' = "idle" =>
       \A s \in Sources : pushed[s] = done[s] \/ pushed[s] <= cleared[s]]_vars

\* flush() returns although the queue may be empty while a chunk is in hand.
FlushReturns == (client = "flush" \/ client = "flushWait") ~> (client = "idle")

\* The destructor's join returns: a sleeping worker sees the stop request.
StopReturns == stop ~> (worker = "exited")

\* Both notifications that a caller of the pipeline waits for arrive.
CallsReturn == FlushReturns /\ StopReturns

\* A unit is made of contiguous received bytes of its source: "interleaved
\* arrival never splices" (docs/ARCHITECTURE.md:77).
LinesContiguous ==
  \A s \in Sources : \A i \in 1..(Len(line[s]) - 1) : Between(s, line[s], i) = {}
=============================================================================
