# TLA+ verification of Lab Debugger

Lab Debugger is a desktop program (C++20, Qt 6) that reads data of robots and
laboratory devices from serial ports, the network and a remote ROS 2 agent, parses
it, plots it, derives and alerts on it, records it, and replays what was recorded
or imported. This directory holds a TLA+ model of the program, the TLC
configurations that check it, and TLAPS proofs about ten of its components.
Paths below are relative to `src/`.

    tlc -workers 2 -config ReplaySource.cfg ReplaySource.tla      # one run
    tlapm ReplaySession_proofs.tla                                # one proof module

`PROJECT.json` holds the same facts for tools: the components, the runs with
their properties, the lines each definition stands for, a mutation for each
property, the hazards of the code and the finding.

## 1. Inventory

### 1.1 The system

    agent (ROS) ══TCP══▶ RemoteAgentSource ──samples, chunks──────────────┐
    serial, TCP, UDP ──signals──▶ SourceManager ──chunks──┐               │
                                                          ▼               ▼
    log ──▶ ReplaySource ──chunks──▶ SerialSession callbacks (routingMutex_)
                                       │ raw                  │ chunks
                                       ▼                      ▼
                                  SessionRecorder ◀─values─ ProcessingPipeline (worker)
                                  (worker + RawLogRecorder)   │ samples
                                                              ▼
                                       curves, alerts, derived fields, health rules
    rosbag2 directory ──import thread──▶ a session's directory ──▶ replay

| Component (code) | State | Operations | Hard behaviours | Model |
|---|---|---|---|---|
| `ReplaySource` (`src/core/src/replay_source.cpp`) | cursor, pause, end, version, reader | open, close, pause, resume, setSpeed, seek; worker | read and published with no lock held; wake-ups; join | `ReplaySource`, modelled and proved |
| `RawLogRecorder`, `RawLogWriter` | queue, stream, counters | start, stop, enqueue; worker | failing stream, restart, drain on stop | `RawLogRecorder`, refines `AppendLog`, modelled and proved |
| `RawLogReader` | index of the records | open with recovery, lowerBound, read | a log that ends anywhere | `RawLogRecovery`, partly |
| `ProcessingPipeline`, `CsvStreamParser` | queue, parser per source | push, flush, resets, switches, destructor; worker | chunk taken under one lock and parsed under another; barriers | `ProcessingPipeline`, partly; proved |
| Frame parser, protocol definition, decoder, checksum | bytes and pieces of an unfinished frame | consume, validate, decode | resynchronisation, chunk boundaries | `FrameStream`, `ProtocolDefinition`, partly; proved |
| `SessionRecorder` | queue, files, metadata, counters | start, stop, five enqueues; worker | two workers, partial failures of start | `SessionRecorder`, modelled and proved |
| `SerialSession`: recording | recorder, declared sources, `routingMutex_`, frozen rules | startSession, stopSession, connects, parser and rule changes, callbacks | barriers by lock and flush, two-part batches, clocks that are measured meanwhile | `RecordingSession`, partly; proved |
| `SerialSession`: replay | replay, curves, tables of rules, routing mode | openReplaySession, closeReplay, seek, pause, resume | seek and close against two workers; a table refused half way | `ReplaySession`, `SessionRestore`, partly; proved |
| `SerialSession`: live sources | listed sources, shown states | connect, disconnect, remove, subscribe | posted signals cross calls | `LiveSources`, partly; proved |
| `SerialSession`: analysis | curves, engines | sample handlers, configuration, resets | two producing threads, three locks | `SampleAnalysis`, partly; proved |
| `TimeSeriesStore`, `RingBuffer` | ring per curve | append, clear, copyRange, bounds | wrap-around, late points | `TimeSeries`, partly; proved |
| `ThresholdAlertEngine` | state per rule | consumeBatch, resetValues, setDefinitions | hysteresis, duration | `ThresholdAlerts`, modelled and proved |
| `HealthAlertEngine` | watches, error windows | observe, evaluate, arm, disarm | clock read before the lock, on three threads, and set back | `FrameHealth`, `LiveSources`, partly; error windows proved |
| `DerivedFieldEngine` | order, latest values, aliases, function states | setDefinitions, consumeBatch, resetValues | dependencies, ambiguous aliases | `DerivedFields`, partly |
| `ClockSync`, `TimeAlignment` | rules, clocks | align, snapshotRules, addSample | inheritance by descent, freeze | `TimeAlignment`, partly; proved |
| `SourceManager`, `NetworkSource`, `SerialSource` | sources, sockets, ports | add, remove, open, close; Qt callbacks | callback copied under a lock and run outside it; error and close in either order | `LiveSources`, partly |
| `RemoteAgentSource` (`src/adapters/remote_agent/`) | connection, timers, desired subscriptions | connect, subscribe, frames, timers | handshake timeout, reconnection, resubscription | `RemoteAgentSource`, partly; proved as `AgentLink` |
| Agent (`agent/ros2/lab_debug_agent/`) | session, client, subscriptions, catalogs | accept, handshake, requests, publish | two sending threads, callbacks of old subscriptions | `AgentServer`, partly; proved as `AgentLink` |
| rosbag2 import, and its thread in `SerialSession` | stage, temporary tree, cancellation | inspect, import, cancel, destructor | the bag or the destination changes meanwhile | `RosbagImport`, partly; proved |
| Agent codec, ROS and CDR field mappers, protocol JSON loader | none | pure functions | | not modelled |
| UI queues, timeline, CSV export, logger, mock source, widgets | none that others depend on | | | not modelled |

### 1.2 Hazards

`PROJECT.json` lists the places where this code could go wrong in a way a test
would hardly reach, each at its line, with the properties that watch it: work
done between two critical sections; barriers; threads that wait for each other;
failures half way; posted signals that cross calls; clocks read outside the lock
they are used under; timers that race answers; files and directories that change
while they are read. Three have no property, and say why: the half line that
`leaveReplayForLiveSource()` leaves to the live data (replay and live data are in two
modules), a sample in flight while curves and engines are reset, and an accept loop that
has ended. Where the properties of a hazard catch only a part of it, its note says which.

## 2. Modules

| Module | What it models | Kind |
|---|---|---|
| `ReplaySource` | the client and the worker of a replay | component, proofs in `ReplaySession_proofs` |
| `AppendLog` | what a raw log promises | abstract specification |
| `RawLogRecorder`, `RawLogRecorder_proofs` | stream, queue, worker, start and stop; `INSTANCE AppendLog WITH ...` | component, proofs |
| `RawLogRecovery` (`MC...`) | the same, with what the reader recovers of the file wherever it ends | composition |
| `ProcessingPipeline`, `..._proofs` | queue, parsers, switches, flush, destructor, worker | component, proofs |
| `SessionRecorder`, `..._proofs` | the session's worker around `Raw == INSTANCE RawLogRecorder` | composition, proofs |
| `TimeAlignment` | rules, clocks and the time a sample is given | operators |
| `RecordingSession`, `..._proofs` | sources, `routingMutex_`, pipeline, the recorder's two streams, the frozen time axis | composition, proofs, those of `TimeAlignment` among them |
| `SessionRestore` | the files a replay reads and the tables it replaces or puts back | part of the next |
| `ReplaySession`, `..._proofs` | the GUI around `ReplaySource`, which it extends, pipeline and curves | composition, proofs |
| `RemoteAgentSource`, `AgentServer` | the two ends of an agent's connection | components |
| `AgentLink` (`MC...`), `..._proofs` | both, joined by connections that break | composition, proofs |
| `LiveSources` (`MC...`), `..._proofs` | I/O threads, `SourceManager`, what the window shows, the watch on silence | composition, proofs |
| `TimeSeries`, `ThresholdAlerts`, `DerivedFields` | a curve and the two engines | operators, proofs in `ProcessingPipeline_proofs` |
| `SampleAnalysis` (`MC...`) | the three under two producing threads and the GUI's resets | composition, proofs in `ProcessingPipeline_proofs` |
| `ProtocolDefinition` | what a frame protocol may be; measuring, verifying and decoding a frame | operators |
| `FrameStream` | `FrameStreamParser::consume()` | component, proofs in `LiveSources_proofs` |
| `FrameHealth` (`MC...`) | its events, and the errors of the I/O thread, for a rate rule that is evaluated and reset | composition, proofs in `LiveSources_proofs` |
| `RosbagImport` (`MC...`), `..._proofs` | inspection and import on their thread, and the GUI around it | component, proofs |

Conventions: a section under a mutex is one action; what runs with no lock held is
at least one action of its own; the program counters of the threads are variables
(`worker`, `client`, `gui`, ...). A blocked wait on a condition variable is a control
point that only a notification leaves, so a forgotten `notify` shows as a liveness
violation. Variables called *history* in the declarations are not in the code and
only record what happened, for the properties to speak of. Constants called *bound*
are bounds. An operator that a mutation puts in the place of another stands above it.

### 2.1 ReplaySource

`Pause`, `Resume`, `SetSpeed`, `Seek(p)` are the methods of the same names.
`Close(first)`, `RequestStop`, `Join`, `CloseReader` are the steps of `close()`;
`open()` is a `Close(TRUE)` that ends in `OpenSucceeds` or `OpenFails`. The worker's
`run()` is `OuterExit`, `OuterWait`, `OuterStart`, `InnerBreak`, `InnerNext`,
`TimedWaitEnds`, `Read` and `ReadFailed` (no lock held), `CommitSkips`, `Commit` (the
second look at the cursor) and `Publish` (no lock held). Records are their indices.
Time is abstracted: a timed wait may end whenever nothing interrupts it; kept of it
is the base a wait is computed from (`wBase`), which a seek must move.

### 2.2 RawLogRecorder, AppendLog, RawLogRecovery

`AppendLog` opens, accepts, persists or loses the oldest record, seals, and closes
only when nothing accepted is left (or, in `CloseShort`, when the device keeps less
than was written). `RawLogRecorder` has what the code has instead: the queue, the
chunk in the worker's hand, the stream and its failed state, the oversized records
that `RawLogWriter` refuses, start and stop with their joins. Under the refinement
`log` is file, hand and queue together, and the phase follows from `recording` and
`streamOpen`.

`RawLogRecovery` cuts that file into cells (two for the header that `RawLogWriter::open()`
writes, and for a record two halves of a marker, the rest of its header and its data) and
lets it end at any of them, in any reachable state. `Scanned` is `RawLogReader::open()`: a
file that ends in its own header is refused (`raw_log_reader.cpp:56-61`); of any other the
whole records are found and a cut one is reported (`docs/SESSION_FORMAT.md:65`), by a loop
that compares the file's size before it skips the data. `Timeline` gives the records their
times as the code does, each from the one before. A cell of a header stands for several
bytes, since `open()` treats all of them alike.

### 2.3 ProcessingPipeline

A chunk is its source, its number and its shape: whether it ends a line or frame
and begins the next one. A unit that a parser finds is the list of the chunks its
bytes came from, so a splice is a list with a gap. `Push` is the producer;
`SetFieldNames`, `SetProtocolDefinition`, `SetSourceConfiguration`,
`ClearSourceConfiguration`, `SetQualifyFieldNames`, `ResetParsers`, `Flush` and
`RequestStop` (the destructor) are the calls of the application; the worker is `Take`
(under `queueMutex_`), `Parse` (under `parserMutex_`), `Emit` (the handlers, no lock)
and `Finish` (under `queueMutex_` again). `MaxPending` is the limit on a line without
an end.

### 2.4 SessionRecorder

`Raw == INSTANCE RawLogRecorder` supplies the second worker: `start()` and `stop()` of
the session call its start and stop. Failures of `start()` are choices at each of its
steps. The `Uncounted` kinds are those for which `metadata.json` has no count.

### 2.5 RecordingSession and TimeAlignment

A local chunk is recorded and pushed under `routingMutex_`; the worker takes, parses
and records its lines without it. A batch of the agent is two calls: the raw chunk,
then its samples. `startSession()` lists the sources, freezes the rules, takes the lock,
flushes and opens; `stopSession()` closes the gates and drains. The alignment rules
are `TimeAlignment`'s: the nearest ancestor's entry counts, a rule without a positive
result falls back to the source's time or that of arrival. `Measure` and `UpdateClock`
are the two steps of the clock handler, the test of `timeAlignmentFrozen_` and what
follows it; an estimate is any of `Estimates`, one of which is so large that `configure()`
refuses the frozen rules (`Accepted`, `LockRefused`). A connect is two steps, with the GUI
`"leaving"` in between: `leaveReplayForLiveSource()` drops the freeze, in a recording too,
and `Connect` closes the source and asks it to open. A new identity of the agent, which
clears its clock (`serial_session.cpp:807`), is left out: under frozen rules it changes no
time. Left out too is `resetMeasurements()`, which changes only what is shown.

### 2.6 ReplaySession and SessionRestore

`ReplaySource`, which the module extends, supplies the worker and its controls; its
publication (`Deliver`) takes `routingMutex_` and pushes. The GUI's calls are `Seek...`
(pause, lock, flush, move, resume), `Close...` and `Open...`. In `SessionRestore` an open
reads nine files, each of which may be missing or refused, sets parsers and routing on the
way, and then replaces four tables in `Order`, putting back those already replaced when
one refuses. What a table holds is abstracted to whose it is, the user's or the session's.

### 2.7 RemoteAgentSource, AgentServer, AgentLink

A connection is two sequences of numbered frames that break together. The client is
one thread, so a call, a socket signal or a timer is one action; all recovery goes
through `FailConnection`. The agent has two threads: the server's (accept, hello,
receive, act, close, reset, forget) and the node's callbacks. Either builds a catalog
in steps (read the graph, stamp a revision, store it) and takes `sessionIoMutex_` to
number and send a frame. Between two clients the session is reset before the node
drops the subscriptions, as in the code.

### 2.8 LiveSources

A GUI call is a list of steps for the GUI thread, a signal one for an I/O thread;
opening and closing are blocking invocations. Signals change `armed` (the rules of
silence) on the I/O thread and post a state that the GUI shows later, while calls reset
and arm the same rules source by source. `ConnectLocal`, `Disconnect`,
`RemoveLocalSource`, `ConnectRemoteAgent`, `Subscribe`, `OpenReplaySession` and
`CloseReplay` are the session's methods.

### 2.9 SampleAnalysis and its engines

The worker and the agent's thread each take a batch through three locks: curves and
alerts, derived fields, curves and alerts of what was derived. The GUI changes
configurations, and in `startSession()` resets the engines behind its barrier; `gui` is
what is left of its call, a list of steps. What a batch does to the curves, the rules and
the derived fields is a recursive function of its samples (`Plottings`, `Judgings`,
`Takings`, `Evaluations`). A sample carries who produced it; that of a derived one is
"derived".
`TimeSeries` has the ring with its slots and the `ordered` flag; `ThresholdAlerts` judges
a sample; `DerivedFields` has order, aliases that become ambiguous, and `derivative()`
with its state. The properties compare each engine with a definition over the whole
history since its last reset.

### 2.10 ProtocolDefinition, FrameStream, FrameHealth

`ValidProtocol` is `validateProtocol()`; `FrameStream` assumes it of its definitions.
`HandleChunk` is a whole `consume()`: search for the header, limits, length, checksum,
one byte given up on damage, and the pieces from which an event gets its chunk. `Turn` is
one turn of its loop; `Turns`, a recursive function, repeats it once more than there are
bytes, since a turn that goes on has taken one, and `Parsed` is where it ends. A chunk that
is longer than four frames is refused with all that was buffered (`RefuseChunk`); one that
does not fit behind the buffer costs the buffer and is parsed (`Crowded`).
Radix-3 bytes, and checksums and lengths of one byte, keep the cases and not their
number.

`FrameHealth` has the three threads that meet in the error-rate rule. The processing thread
stamps and enters an error for every event that is no frame (`StampError`, `ObserveError`),
the I/O thread one for every error it reports (`SourceFails`, `ObserveSourceError`), and the
GUI thread reads the clock and evaluates (`StartEvaluation`, `Evaluate`) or resets the rule
(`ResetRule`: `resetValues()`, `disarm()`, `setDefinitions()`). Each reads the clock before it
takes the lock, so errors are entered out of order. The clock is the system's and may be set
back: a reading is any of `1..MaxTime`. What was entered before a reset does not count; a late
`ObserveError` may still enter an error that was stamped before one. Not in it:
`processHealthAlerts()` does nothing while a session is replayed.

### 2.11 RosbagImport

The bag's owner may add a message, also an old one, and anybody may create the
destination at any moment; a query sees a database as it is when it begins. The stages
are count, count everything (only if `metadata.yaml` gives a count to compare with),
select, compare, merge and publish, with cancellation polled where the code polls it.
The catalog names every topic a database lists, those without a message too (`Listed`).
The result is posted to the GUI thread, which may be cancelling, recording, replaying or
joining in its destructor, and which may handle it before the worker has gone (`Exit`).

A destination that somebody creates is an empty directory or anything else. The check at the
start refuses both; `rename()` at the end refuses only what is not an empty directory
(`MayRename`). So `TakenIsKept` is about what stands there when an import begins. An empty
directory that appears after the check is replaced by the session; where the platform
refuses that, the import fails (`IOFails`).

## 3. Runs

`CHECK_DEADLOCK FALSE` everywhere: the program may rest, when no source delivers,
nobody uses a control, or a bound is reached. Waiting that should end is a liveness
property. No symmetry, no state constraints.

| Run | Distinct states | Question and answer |
|---|---|---|
| `replay_source` | 78,053 | Each record once, pause holds, reader safe, end exact, playback and `close()` end. Holds. |
| `raw_recorder` | 4,055 | Nothing vanishes, implements `AppendLog`; whole records are recovered wherever the file ends, in times that never go back. Holds. |
| `pipeline` | 510,058 | The configured parser is used, nothing is lost but at a switch, `flush()` is a barrier, it and the destructor return. Holds. |
| `session_recorder` | 37,070 | Completed metadata is true, a failed start leaves nothing, calls return. Holds. |
| `recording_session` | 683,930 | Raw and values end at the same place, freezing moves no time, calls return. Holds. |
| `recording_alignment` | violation | An estimate checked before the freeze and stored after it moves the time axis (section 5). |
| `replay_session` | 775,156 | Curves follow the cursor, the configuration is one session's, no GUI call deadlocks. Holds. |
| `agent_link` | 577,226 | No self-made protocol error, one reconnection at a time, both ends agree on subscriptions, the client recovers. Holds. |
| `live_sources` | 2,210,485 | The window comes to show the truth, open is watched, removed is not. Holds. |
| `sample_analysis` | 821,929 | Curves, alerts and derived fields are those of their samples; engines see what is recorded. Holds. |
| `frame_health` | 2,217,504 | Frames do not depend on the cuts, every byte once with its chunk; the error-rate rule sees the errors of its window, in whatever order they are entered and whatever the clock does. Holds. |
| `rosbag_import` | 445,719 | A published session is whole, nothing is left of others, what is found at the destination is kept, tasks end. Holds. |

### 3.1 Bounds and why they are enough

- `replay_source`: three records let a seek go forward, backward and past the end with
  something before and after it; seven version bumps put several controls inside one
  read, wait and publish. The proofs remove both bounds for the safety properties.
- `raw_recorder`: five chunks over two starts, one oversized: buffer, failure, restart
  with leftovers, a file cut in any of its cells, its header included, receive times that
  go back.
- `pipeline`: two sources are what interference needs; three chunks allow one queued,
  one in hand and a half line; one switch may fall into any section of the worker.
- `session_recorder`: two items, two raw chunks, two starts; one counted and one
  uncounted kind stand for the five.
- `recording_session`: one local source and the agent, three chunks, two sessions (a
  leftover of the first could reach the second), two switches, one estimate, which may be
  one that the freeze refuses. `recording_alignment` has two estimates, one session and one
  switch, which is spent on the first connect: no reconnect plays a part in its violation.
- `replay_session`: three records, lines that end inside (`Ends`), eleven controls:
  enough for two opens with everything an open replaces, and seeks between.
- `agent_link`: two connections, of which one may fail, and three events: a subscription
  restored on a second session, with frames of the first still under way. Two types of
  one topic, of which the agent serves one; a backlog of two.
- `live_sources`: one source of each kind, so that two I/O threads may cross a call about
  the third; five events: connect, lose, reconnect, restart rules, open a replay.
- `sample_analysis`: a ring of two points overflows with three samples, which take two
  times, so that they come late, and values that breach, recover and are not finite;
  two configurations, one with an alias that becomes ambiguous and a chain.
- `frame_health`: the bounds are given by definition. Under two of them the health rule
  stands still (no I/O errors, one reading of the clock): five bytes between two clearings
  hold a frame, a false header and the rest of one; two protocols, a chunk longer than the
  limit of the buffer and one that only fits without what is buffered. Under the third,
  `Foreign`, all that arrives is garbage: two bytes and a refused chunk are up to three
  errors of the processing thread, the I/O thread adds some while fewer than two have been
  entered; three readings of the clock and a window of one, so that an error may lie
  before, in and after it; a list of two. The proofs are for any values of these
  constants. `Consume` lets the buffer be cleared only before the first event; the lemmas
  on a clearing (`RefusalKeeps`, `AcceptKeeps`) hold at any time.
- `rosbag_import`: two databases with equal times across them, a damaged and an unknown
  message, two that are added meanwhile, one of them older than what its database holds;
  two tasks, so that one follows a cancelled one.

### 3.2 Fairness

Threads of the program are weakly fair: the operating system runs a thread that can go
on, and mutexes are held for bounded sections. A call that has begun goes on to its
end. Nobody is obliged to begin one: no fairness on pushes, opens, pauses, seeks,
session starts, imports or cancellations. A timed wait has an end because its delay is
finite; a Qt timer that is running fires. In `AgentLink` the client's timers and socket
signals and the agent's two threads are fair, a connection that can be made is made,
and the network may break at most `MaxFailures` times: `Recovers` says that after the
last failure the client gets there. It excepts an agent whose accept loop has ended
over an error (`tcp_server.cpp:177`), which is for good. Strong fairness is not used.

## 4. Proofs

The proofs of the state machines need no bound: they hold for all constants that meet
the modules' named `ASSUME`s, which TLC evaluates in the runs. None of the properties
is inductive; each module says what has to be added. Every inductive invariant was
checked by TLC on the constants of the run before it was proved. A proof has a lemma
per action, or per group of actions that do the same to the invariant, and under it a
step per conjunct.

| Theorem | States | Code |
|---|---|---|
| `ReplaySession_proofs!ReplayIsExact`, `PauseIsSafe`, `EndIsTrue`, `ReaderIsSafe`, `DelaysAreSafe`, `ReplayTypes` | `ExactlyOnce`, `PauseHolds`, `EndIsExact`, `WorkerNeedsReader`, ... | `ReplaySource` |
| `RawLogRecorder_proofs!NoChunkVanishes`, `LogStaysOrdered`, `StopIsQuiet`, `Implementation`, `RecoveryIsPlayable`, `TypeCorrect` | `NothingVanishes`, `ImplementsLog`, `RecoveredIsPlayable`, ... | `RawLogRecorder`, `RawLogReader` |
| `ProcessingPipeline_proofs!ParsersMatch`, `NothingIsLost`, `FlushWaits`, `GapsAreSwitches`, `TypeCorrect` | `ParserMatchesConfiguration`, `NothingLost`, `FlushIsABarrier`, `GapsOnlyAtSwitches` | `ProcessingPipeline` |
| `SessionRecorder_proofs!RawIsRecorder`, `RawLogIsSafe`, `RawLogIsLog`, `FailuresAreClean`, `CompletedIsRight`, `TypeCorrect` | `Raw!Spec`, `Raw!ImplementsLog`, `FailureIsClean`, `CompletedIsTrue` | `SessionRecorder` |
| `ReplaySession_proofs!ReplayIsSource`, `ReplayIsSafe`, `CurvesAreRight`, `ConfigurationIsOne` | `Spec` of `ReplaySource`, `CurvesFollowCursor`, `OneConfiguration` | replay in `SerialSession` |
| `AgentLink_proofs!ProtocolIsKept`, `TimersAreRight`, `SubscriptionsDoAgree`, `TypeCorrect` | `ProtocolHolds`, `TimersMatchState`, `SubscriptionsAgree` | `RemoteAgentSource` and the agent |
| `LiveSources_proofs!WindowShowsTruth`, `OpenStaysWatched`, `RemovedStaysUnwatched` | `ShownIsTrue`, `OpenIsWatched`, `RemovedIsUnwatched` | live sources in `SerialSession` |
| `LiveSources_proofs!ByteTheorem`, `FrameTheorem` | `EveryByteOnce`, `FramesMatchStream` | `FrameStreamParser` |
| `LiveSources_proofs!WindowTheorem`, `HealthInvariance` | `RuleSeesTheWindow`, `HealthInv` | error rates in `HealthAlertEngine` |
| `RecordingSession_proofs!BarriersCutBothLogs`, `FreezeIsKept`, `TypeCorrect` | `ValuesMatchRaw`, `FreezeKeepsTimes` | recording in `SerialSession` |
| `RecordingSession_proofs!FreezeKeepsAlignment`, `EstimateIsNear` | two facts about the operators of `TimeAlignment` | `TimeAlignment`, `ClockSync` |
| `ProcessingPipeline_proofs!SeriesTheorem`, `AlertTheorem`, `RecordTheorem`, `AnalysisIsInvariant` | `SeriesIsTail`, `AlertIsSustained`, `EnginesSeeTheRecord` | curves, alerts, recording of live samples |
| `RosbagImport_proofs!PublishedSessionIsWhole`, `TemporaryIsRemoved`, `DestinationIsKept`, `TasksAreSerial`, `ImportTypes` | `PublishedIsWhole`, `NothingLeftBehind`, `TakenIsKept`, `OneTask` | rosbag2 import |

### 4.1 ReplaySource and RawLogRecorder

The first part of `ReplaySession_proofs` is about `ReplaySource` alone. Its invariant adds:

- `ThreadsInv`, which control points of the two threads and which flags go together:
  while a worker runs, the reader is open; a closing client has cleared `open`;
- `CursorInv`, what the worker's locals have to do with the shared cursor: if the
  version is still the one it saw, so is the base, and the record it waits for, reads
  or commits is the cursor's;
- `SeenInv`, that the records seen and the one being published make up the distance
  from the start to the cursor, whether or not the replay is open;
- `EndIsExact` and `HoldInv`, the end flag and the pause in terms of the control points:
  a replay that is not resumed is paused, with at most one record admitted or about
  to be.

That of `RawLogRecorder_proofs` has `ThreadsInv` (who may exist beside whom while start()
or stop() is under way), `StreamInv` (what is open, and what may still be on its way, when
no worker runs) and `ArrivedInv` (nothing is in the log before it arrived), beside the
properties themselves. The refinement is proved action by action: each step is an
action of `AppendLog` or a stutter under the mapping.

`RecoveryIsPlayable` has two parts. `RecoveryIsExact` is about `open()` of the reader, a
recursive function over the cells of a file. `ToFind` says in closed form what it should
find from each cell behind the header on: every fourth cell begins a record. It solves the
equation of the function (`StepFinds`), and a function that solves it is `ToFind` from the
end of the file backwards (`ScanFinds`, by `Induction`). A cut file is the cells of its
whole records and a rest (`RecordsOfCells`), and the log without a loss is what was
accepted, by `NothingVanishes`. `RecoveredTimesGrow` solves the recurrence of the
timeline: the time of a record is the latest time of reception so far (`TimelineIsLatest`,
by `Induction`), and that never goes back (`SortedTimeline`).

### 4.2 ProcessingPipeline

`ParsersMatch` needs only that the worker holds a chunk under the configuration it was
parsed with. `NothingIsLost` adds `CountsInv` (no count of a source runs ahead of what was
pushed); it is about whole chunks, not about what a parser makes of them, and says that
what waits of a source, in the queue and in the worker's hand, is everything after the
last chunk that was finished or dropped, in order. `FlushWaits` is an action property, and
follows. For `GapsAreSwitches`, `SentInv` and `SkippedInv` say what the worker may step
over, and `UnitsInv` that what a parser keeps and what it hands on are lists in which only
sent or dropped chunks are missing between two neighbours.

### 4.3 SessionRecorder

`RawIsRecorder`: every step is one of `RawLogRecorder` or leaves the raw recorder alone.
So the theorems about that module hold here too; `RawProofs`, an instance of
`RawLogRecorder_proofs`, makes them available: `RawLogIsSafe` and `RawLogIsLog`, that the
raw log of a session implements `AppendLog`, are two of them said of a session. On top,
`ThreadsInv`, `RawInv` and `FilesInv` say who exists and what is open at each step of
start() and stop(), which gives `FailuresAreClean`. `CompletedIsRight` needs the counts:
`ForwardedInv` (what was counted was accepted, but for a chunk being forwarded),
`WrittenInv`, and `SealedInv`, that nothing moves any more once the metadata says
completed.

### 4.4 ReplaySession

`ReplayIsSource`: whatever GUI, callback and pipeline do, the replay inside sees only steps
of `ReplaySource`; its invariant is then a fact here too. `CurvesAreRight`
adds `ClientInv` (when the GUI is inside a call of the replay) and `PlayedInv`: series,
pending, hand and queue, put one behind the other, are `stale` followed by `seen`, which
the replay's invariant ties to the cursor. The curves are a list of lists; what flattening
does to it is proved by induction over sets of numbers. `ConfigurationIsOne` has
`RestoreInv`: `TablesInv` (at the i-th table, those before it are the session's and the
others as they were), `FrozenInv` (the time axis is frozen with the first table) and
`RoutingInv` (routing and parsers are the session's once they were read).

### 4.5 AgentLink

`ProtocolIsKept` is about numbers: each end accepts frames whose numbers grow, the opening
frame first. `ClientInv` says which fields of the client go together, timers included
(`TimersAreRight`); `ServerInv`, that a numbered frame is sent by the thread that holds
`sessionIoMutex_` and that the session is idle between two clients; `QueueInv`, that
connections are accepted in the order they were made, and one that is up is served or
waits. `ToAgentInv` and `ToClientInv` say that what is on its way is a `Stream` that
continues what its receiver has seen and ends below the number the sender gives next
(`NextNumber`: that of the frame in hand while the mutex is held). `consume()` takes any
number of frames in one section; `HandledByFrame` unrolls the recursive function, and what
it keeps is shown frame by frame with `Induction`.

`SubscriptionsDoAgree` adds `AskedInv`. `After(asks, wanted)` is the set of keys wanted by
who wanted some and then asked for more: of every key the last word counts. While client
and agent are joined, `After` of the frames still on their way to the agent, applied to
`After` of what its session has put down to be done, applied to what it holds (subscribed
or refused), is what the client desires; before the handshake the agent holds nothing. A
command appends to the one side what it changes on the other; consuming a frame moves it
from the wire to the session, and doing it moves it to what is held (`AfterAppend`,
`AfterHead`); a reconnection empties both ends, and the client that is ready again asks
for everything. When nothing is under way, `After` is the identity, and the property is
what remains.

### 4.6 LiveSources

The invariant is one statement for each source, and a few about the call under way:

- `IoInv`: what the I/O thread has still to say agrees with its port: if that is up, a
  state to be stored or posted is "open", and is followed by arming and posting. When
  nothing is left to be stored, `open_` is what the port is;
- `MadeInv`: what close() asks (`isOpen()` of a port, `endpointCreated_` of a socket) is
  enough to know that there is nothing to close;
- `CallInv`: the steps of a call are well formed (a reset is followed by arming every
  source or is the last; a source is opened after it was closed or added, forgotten after
  it was detached), and about sources that are listed; what is to be opened, detached or
  forgotten is `Shut`;
- `ReplayInv`: in a replay, and before a reset that ends a call, every source is shut or
  the call still has to close it;
- `WatchInv` and `TopicInv`: what is open is watched, or its thread, the call or a posted
  state will see to it;
- `ShownInv`: the last word about a listed source is true: one its thread still has to
  post, the last one in the queue, or the one shown. A source being reopened is excepted
  until "opening" is posted, since its old states may still arrive.

At rest, nothing is left in the threads, the call and the queue, and the three properties
are what remains of these.

### 4.7 RecordingSession and TimeAlignment

`BarriersCutBothLogs` is about two logs that different threads write: the sources the raw
one, the worker the values. `LogsInv` ties them together at every moment. While a session
is recorded, the lines recorded, followed by the ends of lines in the worker's hand and
in the queue, are the ends of lines in the raw log; when none is, the two agree as they
are. A chunk enters the raw log and the queue in one section under `routingMutex_`; taking,
parsing and handing out move it along; `flush()` leaves the hand and the queue empty where a
recording begins or ends, and a change of parsers, which empties the queue, is refused in
between. `UnitInv` says that the line being handed out ends with the chunk in hand. What
an agent delivers is in neither list. `Among` picks the elements of a sequence that are in
a set; it is a recursive function, and what it does to an append, a head and a
concatenation is proved with `Induction`.

`FreezeIsKept` follows from a fact about `TimeAlignment` alone. `FreezeKeepsAlignment`: writing
the clocks into the rules and then forgetting the clocks changes the time of no sample,
for every table and lineage. It needs the hypothesis that the sample's source and the
source its rule is for look at the same clock: with a clock configured for a descendant
of the rule's source, the freeze would change times, since one offset is written per rule.
In `RecordingSession` only the agent has a clock, and it is no descendant (`FrozenTimes`).
`EstimateIsNear`: one measurement of the agent's clock is off by at most half of the round
trip, up to a unit, whatever the delays on the two ways.

### 4.8 RosbagImport

`PublishedSessionIsWhole` holds for bags of any length in any number of databases, which may
grow at every step. The invariant says of the merge under way what the theorem says of
its end:

- `OrderInv`: every database and every cursor is in the order of (time, row);
- `UnreadInv`: until the merge begins the log is empty and the cursors are as they started;
- `OfferedInv`: what the cursors started with is what is written and what they still hold;
- `LogInv`: the log is in order and numbered, and each of its records comes before
  everything the cursors still hold;
- `CountInv`: the counts are those of the log; `DeliveredInv`: at "publish" every cursor is
  empty and the log as long as what was counted;
- `TaskInv`: one task at a time, and the closures posted.

The step that needs an argument is one turn of the merge (`Merging`). That `ComesFirst` has a
least element among the heads of the cursors (`Earliest`) is proved by taking the least time
and then the least file; each cursor being in order, that head comes before the rest of
every cursor. What a query selects is in order because `Of`, a recursive function, keeps
the order of its list (`OfOrder`, by `Induction` over its steps). A grown bag changes no
cursor: a query that has begun sees its own snapshot. `DestinationIsKept` needs
`KeptInv`: once an import has found the place taken, no import is between its check and its
rename, nor will one be. Assumed of the constants: the
databases are `1..n`, and the bag is in order at first.

### 4.9 SampleAnalysis, TimeSeries and ThresholdAlerts

The second part of `ProcessingPipeline_proofs`. The invariant, `AnalysisInv`, compares each
of the engines with the whole history of what it was given:

- `CurvesInv`: of every curve, `RingInv`. `SlotsHold` says which slot of the ring holds which
  of the points given since it was cleared, before and after the wrap; `ordered` implies that
  the times of all these points ascend;
- `AlertsInv`: of every rule, `RuleInv`: it is active exactly if `ShouldBeActive` says so of
  the samples judged; its last time is the latest it considered; and if it is not active,
  `since` is the time from which on the breach is unbroken, or 0 if there is none;
- `RecordInv`: a sample occurs in what is recorded as often as in what the rules judged and,
  if it was not derived, in what the derived fields were fed, plus as often as the two
  threads still hold it between the two (`JudgedInv`, `FedInv`);
- `LockInv`: who holds `routingMutex_`, by the position of the agent's thread and by what is
  left of the GUI's call; past its flush the worker is at rest;
- `GuiInv`, `ThreadsInv`, `DerivedInv` and the types: what may be left of a call, what a
  thread holds where, that an engine's values, states and order fit its definitions.

`SeriesTheorem` needs what sorting does. The reference `StablySorted` is a definition by
place (how many points come before this one), which is a permutation, keeps the order of
equal times (`SortedStays`), and begins and ends with the least and the greatest time
(`SortedEnds`, `MinMax`). `copyRange()` of a ring that is not `ordered` sorts;
one that is `ordered` is cut by its bounds, which gives the same list only if the times
ascend, and that is what `RingInv` keeps. `AlertTheorem` splits a
batch into samples by `Induction`, and each into a sample in time, which extends the
history (`TimelySample`), and one that comes late, which the engine and `ShouldBeActive`
ignore alike (`LateSample`). Assumed of the constants: the ring has a place, times are
positive, and a rule's hysteresis and duration are naturals.

### 4.10 FrameStream and FrameHealth

The second part of `LiveSources_proofs`. `ByteTheorem` and `FrameTheorem` hold for any valid
definitions, any chunks and streams of any length. The invariant, `StreamInv`, is one
statement, `LoopInv`, about all that arrived since the buffer was last cleared. It is also
what every turn of the loop keeps (`TurnKeeps`), so that a call of `consume()` is `Induction`
over its turns (`ParsedKeeps`):

- the bytes of the stream are those the events took and then those in the buffer;
- `Covers`: the pieces that are left name, for each byte in the buffer, the chunk that
  brought it; cutting bytes off the front keeps that (`CoversDrop`), since the pieces used
  up are those whose sum is at most what was cut;
- every event names the chunk of the first byte it took, and what it says of the offset
  where that byte stands is what the whole stream says (`JudgedAt`).

The last clause compares verdicts given at different times, and needs that a verdict once
given stands, whatever arrives later: `VerdictStands`. The length is read from bytes that are
there, a frame is judged when it is whole, and what may still become a frame is "more". The
bytes before a header, given up in one piece, are each no place where a header could begin:
up to the first header because none was found, and before half of one because that half is
the longest end of the buffer that a header can begin with (`PartialIs`). That the loop stops
only where the whole stream has no verdict yet either is `Unfinished`, which also bounds
what waits below one frame.

`FrameTheorem` then needs that the offsets of the events are exactly those a parser with the
whole stream in front of it comes to: each is reached (`StartsAreReached`, by `Induction`
along the events), and nothing else is, up to what garbage skips byte by byte
(`ReachedAreStarts`, along the stream).

`WindowTheorem` compares a list of `errorCount` times with all errors entered since the last
reset. An evaluation forgets what it finds too old, for good even if the clock is then set
back; so an error counts at a time if it is in the window of that time and was in that of the
latest evaluation since it was entered (`InWindow`). `HealthInv` says, for an evaluation at
any time, that the list has as many of the times that would count then (`Fresh`) as the
history, or that both have `errorCount` (`Agreed`): what is too old for one time is too old
for every later one, and what a full list pushed out was the oldest. `SortedIs`,
`EnteredKeeps` and `WindowedKeeps` are what happens to the list, `KnownGrows` and
`KnownJudged` what happens to the history; a reset empties both (`NothingKnown`). Errors
come with times of two threads, read before the lock, so that a new one may lie anywhere
in the list. Assumed of the constants: the definitions are
valid (`ValidProtocol`) and typed, chunks are not empty (`frame_stream_parser.cpp:64`), the
count is positive (`health_alert_engine.cpp:91-99`). `Induction` over naturals is proved in the
module, from the well-foundedness of `<`; it speaks of a set, and so needs no operator as
a parameter.

### 4.11 What is only model-checked

Liveness under fairness is out of the prover's reach. `DerivedIsCurrent` compares the
derived fields with a recursion along their dependencies over sets of inputs (`FoldSet`,
`SelectSeq`); that the engine's state is of its type is proved, what it computes is checked.
`AgentTimesAreFrozen` of `RecordingSession` is violated (section 5).

## 5. Findings

`recording_alignment` shows that an estimate of the agent's clock may pass the test of
`timeAlignmentFrozen_` (`src/app/serial_session.cpp:503`) before `startSession()` sets
the flag and snapshots the rules, and be stored after it: recorded values then have a
time the recorded rules do not give them (`docs/REMOTE_AGENT_PROTOCOL.md:132`).

The freeze has a second leak, which needs no race: every connect and reconnect calls
`leaveReplayForLiveSource()`, which clears `timeAlignmentFrozen_` (887) before it asks whether
a replay is to be left (888), and a recording admits these calls for its own sources. After a
reconnect the clock handler stores every estimate again. `RecordingIsFrozen` in the table
below says so; the run has one connect only, and shows the race.

Eight other statements of the documents or tests are kept as definitions that no run
checks; each is violated under the constants of the module's run when it is added to
its configuration:

| Definition | What the code does |
|---|---|
| `ReplaySource!SeekAllowsReplay` | A failed read ends the replay even when a seek came first (`replay_source.cpp:229`; `tests/test_core.cpp:1191`). |
| `ProcessingPipeline!LinesContiguous` | A switch for one source drops the queued chunks of all and the half line of one (`processing_pipeline.cpp:88`; `docs/ARCHITECTURE.md:77`). |
| `RecordingSession!RecordingIsFrozen` | A reconnect in a recording drops the freeze of the time axis (`serial_session.cpp:887`; `docs/REMOTE_AGENT_PROTOCOL.md:132`). |
| `RecordingSession!AgentValuesMatchRaw` | A stop can cut an agent's batch between its raw part and its values (`serial_session.cpp:2013`; `docs/ROADMAP.md:49`). |
| `RecordingSession!ReplayReproduces` | A recording begins with the half lines of before (`serial_session.cpp:1970`; `docs/SOURCE_PARSERS.md:49`). |
| `ReplaySession!SeekCutsLines` | A record committed before a seek is published after its barrier (`serial_session.cpp:3072`; `docs/SESSION_FORMAT.md:74`). |
| `AgentLink!CatalogsGoForward` | Two threads publish catalogs, and the one built first may be sent last (`ros_agent_node.cpp:89-93` against `310-323`; `docs/REMOTE_AGENT_PROTOCOL.md:58`). |
| `LiveSources!UnsubscribedIsUnwatched` | A message that the agent sent before it read the cancellation arms the rule again (`serial_session.cpp:1310-1322`; `docs/MARKERS_ALERTS.md:47`). |

Two more, met while modelling `SessionRestore`: an `openReplaySession()` that is refused
leaves the parsers cleared or replaced, though it puts the tables of rules back; and a
session without `csv_fields.txt` is replayed with the user's default CSV names.

## 6. Not modelled

- Contents of files and messages, wording and layout, numbers parsed from text, CDR
  decoding and field mapping, the codec of the agent protocol, loading of JSON: pure
  functions of one input. What a definition may be after loading is `ValidProtocol`.
- The widgets, and the bounded queues the window drains on a timer, which drop the rest
  by intent; the timeline and the markers.
- Writes to a source. The listener's start and stop in the agent. Corrupt (not cut)
  markers and lengths in a log.
- Min-max reduction of a curve for painting; of expressions, all but a sum and
  `derivative()`; the choice among the last sixteen clock measurements; the elapse of
  the window of silence; limits on sizes in an import.
- A call that sets a handler: each is made once, before any source opens.

## 7. Plan

1. Proofs: that a sum of a derived field is that of its inputs' latest values.
2. `leaveReplayForLiveSource()` with its data: replay and live chunks in one pipeline.
3. The analysis of replayed samples: the replay branches of `SampleAnalysis`.
