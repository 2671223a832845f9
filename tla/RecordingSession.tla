-------------------------- MODULE RecordingSession --------------------------
(***************************************************************************)
(* Recording a session of live sources: the routing callbacks,             *)
(* startSession, stopSession and the source controls of                    *)
(* src/src/app/serial_session.cpp, with the processing pipeline and the    *)
(* recorder they drive.                                                    *)
(*                                                                         *)
(* Each source delivers from its own thread.  A local source's chunk is    *)
(* routed to the recorder and to the pipeline under routingMutex_, whose   *)
(* handlers later record what they parse without that lock.  The remote    *)
(* agent delivers a batch as two calls, the raw chunk and then its values. *)
(* The GUI thread starts and stops sessions while holding routingMutex_.   *)
(* ProcessingPipeline and SessionRecorder model the two parts in detail;   *)
(* here a chunk's processing is four steps and the recorder two logs.      *)
(*                                                                         *)
(* Every value is given a time by the alignment rules (TimeAlignment).     *)
(* startSession() freezes them, with what is then known of the agent's     *)
(* clock, and writes them beside the recording, unless the clock is so far *)
(* off that the engine refuses them; the agent's thread goes on measuring  *)
(* that clock.  Every connect and reconnect undoes the freeze on its way   *)
(* out of a replay, in a recording as well.                                *)
(***************************************************************************)
EXTENDS Integers, Sequences, SequencesExt

CONSTANTS Local,         \* keys of serial and network sources
          Agent,         \* remoteAgentSourceKey
          Estimates,     \* how far the agent's clock may be found ahead
          MaxChunks,     \* bound: chunks and batches received
          MaxSessions,   \* bound: sessions started
          MaxSwitches,   \* bound: connects, changes of parsers and of alignment
          MaxEstimates   \* bound: measurements of the agent's clock

ASSUME AgentAssumption == Agent \notin Local
ASSUME EstimatesAssumption == Estimates \subseteq Int \ {0}
ASSUME BoundsAssumption == MaxChunks \in Nat /\ MaxSessions \in Nat /\ MaxSwitches \in Nat /\ MaxEstimates \in Nat

VARIABLES
  connecting, open,   \* the sources asked to open, and those that are open
  gui,                \* where the GUI thread stands in a connect, startSession() or stopSession()
  chosen,             \* openSourceKeys of the startSession() in progress
  declared,           \* recordingSourceKeys_
  recording,          \* recorder_.isRecording()
  raw, values,        \* the raw log and the values of the session's directory
  queue, hand,        \* the pipeline: its queue, the chunk being processed
  unit,               \* the line the pipeline is about to hand out
  pending,            \* the half line of each source's parser
  batch,              \* the batch the agent has delivered the raw chunk of
  aligned,            \* the time its values were given, 0 before that
  rules, clocks,      \* timeAlignment_: its rules and the clocks it knows
  frozen,             \* timeAlignmentFrozen_
  estimate,           \* the clock the agent's thread is about to report, 0 for none
  kept,               \* the rules startSession() has frozen, the session's time_alignment.json
  received, sessions, switches, estimates   \* bounds

Sources == Local \cup {Agent}
sourceVars == <<connecting, open, batch, received, switches>>
agentVars == <<aligned, estimate, estimates>>
alignmentVars == <<rules, clocks, frozen, kept>>
guiVars == <<gui, chosen, sessions>>
sessionVars == <<declared, recording, raw, values>>
pipelineVars == <<queue, hand, unit, pending>>
vars == <<sourceVars, agentVars, alignmentVars, guiVars, sessionVars, pipelineVars>>

\* A chunk ends a line or it does not; a line is the list of the chunks its
\* bytes came from.
Chunk == [src : Sources, id : 1..MaxChunks, ends : BOOLEAN]
Line == Seq(Chunk)

\* A topic inherits the rules and the clock of its agent.  Every value has the same
\* time of its own; the offsets tell apart by what it was aligned.
Topic == "topic"
ASSUME TopicAssumption == Topic \notin Sources

Channel(s) == IF s = Agent THEN Topic ELSE s
Lineages == [id \in Sources \cup {Topic} |-> IF id = Topic THEN <<Topic, Agent>> ELSE <<id>>]
Alignment == INSTANCE TimeAlignment WITH Lineage <- Lineages
SourceTime == 50
TimeOf(table, known, s) == Alignment!Align(table, known, Channel(s), SourceTime, SourceTime)

ByClock == [s \in Sources |->
  IF s = Agent THEN [mode |-> "remote_clock", offset |-> Alignment!none]
  ELSE [mode |-> "manual", offset |-> 10]]
NoRules == [s \in {} |-> 0]
NoClocks == [s \in {} |-> 0]

Init ==
  /\ connecting = {} /\ open = {} /\ batch = <<>> /\ received = 0 /\ switches = 0
  /\ gui = "idle" /\ chosen = {} /\ sessions = 0
  /\ declared = {} /\ recording = FALSE /\ raw = <<>> /\ values = <<>>
  /\ queue = <<>> /\ hand = <<>> /\ unit = <<>> /\ pending = [s \in Local |-> <<>>]
  /\ aligned = 0 /\ estimate = 0 /\ estimates = 0
  /\ rules = ByClock /\ clocks = NoClocks /\ frozen = FALSE /\ kept = NoRules

-----------------------------------------------------------------------------
(* The sources *)

\* routingMutex_ is held by the GUI while it waits for the pipeline.
RoutingFree == gui \in {"idle", "leaving", "listed", "starting"}

\* Undeclared sources keep out of a recording, whatever they feed otherwise.
Routed(s) == ~recording \/ s \in declared

\* The data callback for a local source.
Receive(s, ends) ==
  /\ s \in open /\ RoutingFree /\ received < MaxChunks
  /\ received' = received + 1
  /\ LET chunk == [src |-> s, id |-> received', ends |-> ends]
     IN /\ raw' = IF recording /\ s \in declared THEN Append(raw, chunk) ELSE raw
        /\ queue' = IF Routed(s) THEN Append(queue, chunk) ELSE queue
  /\ UNCHANGED <<connecting, open, batch, switches, agentVars, alignmentVars, guiVars, declared,
                 recording, values, hand, unit, pending>>

\* The agent's batch, first the data callback, which never feeds the pipeline ...
ReceiveBatch ==
  /\ Agent \in open /\ RoutingFree /\ batch = <<>> /\ estimate = 0 /\ received < MaxChunks
  /\ received' = received + 1
  /\ batch' = <<[src |-> Agent, id |-> received', ends |-> TRUE]>>
  /\ raw' = IF recording /\ Agent \in declared THEN raw \o batch' ELSE raw
  /\ UNCHANGED <<connecting, open, switches, agentVars, alignmentVars, guiVars, declared, recording,
                 values, pipelineVars>>

\* ... then the samples callback: aligned without the lock, recorded with it.
AlignSamples ==
  /\ batch # <<>> /\ aligned = 0
  /\ aligned' = TimeOf(rules, clocks, Agent)
  /\ UNCHANGED <<sourceVars, estimate, estimates, alignmentVars, guiVars, sessionVars, pipelineVars>>

DeliverSamples ==
  /\ aligned # 0 /\ RoutingFree
  /\ values' = IF recording /\ Agent \in declared
               THEN Append(values, [line |-> batch, time |-> aligned]) ELSE values
  /\ batch' = <<>> /\ aligned' = 0
  /\ UNCHANGED <<connecting, open, received, switches, estimate, estimates, alignmentVars, guiVars,
                 declared, recording, raw, pipelineVars>>

\* A Pong: the clock callback of the same thread looks at timeAlignmentFrozen_ ...
Measure ==
  /\ Agent \in open /\ batch = <<>> /\ estimate = 0 /\ estimates < MaxEstimates
  /\ ~frozen
  /\ estimates' = estimates + 1 /\ estimate' \in Estimates
  /\ UNCHANGED <<sourceVars, aligned, alignmentVars, guiVars, sessionVars, pipelineVars>>

\* ... and then updates the clock.
UpdateClock ==
  /\ estimate # 0
  /\ clocks' = [s \in {Agent} |-> estimate] /\ estimate' = 0
  /\ UNCHANGED <<sourceVars, aligned, estimates, rules, frozen, kept, guiVars, sessionVars,
                 pipelineVars>>

-----------------------------------------------------------------------------
(* The GUI thread *)

MaySwitch == gui = "idle" /\ switches < MaxSwitches
Switched == switches' = switches + 1
OutsideCallbacks(s) == s = Agent => batch = <<>> /\ estimate = 0

\* connectSerial(), connectNetwork(), connectRemoteAgent() and the reconnects: a
\* recording admits only its own sources.  leaveReplayForLiveSource() drops the freeze of
\* the alignment before it looks whether there is a replay to leave ...
Admitted(s) == recording => s \in declared
LeaveReplay ==
  /\ MaySwitch /\ Switched
  /\ \E s \in Sources : Admitted(s)
  /\ frozen' = FALSE /\ gui' = "leaving"
  /\ UNCHANGED <<connecting, open, batch, received, agentVars, rules, clocks, kept, chosen, sessions,
                 sessionVars, pipelineVars>>

\* ... and the source is closed, which waits for its callbacks, and asked to open.
Connect(s) ==
  /\ gui = "leaving" /\ gui' = "idle"
  /\ Admitted(s) /\ OutsideCallbacks(s)
  /\ connecting' = connecting \cup {s} /\ open' = open \ {s}
  /\ UNCHANGED <<batch, received, switches, agentVars, alignmentVars, chosen, sessions, sessionVars,
                 pipelineVars>>

\* The source becomes open on its own thread, whenever its peer answers ...
Opened(s) ==
  /\ s \in connecting
  /\ connecting' = connecting \ {s} /\ open' = open \cup {s}
  /\ UNCHANGED <<batch, received, switches, agentVars, alignmentVars, guiVars, sessionVars, pipelineVars>>

\* ... and is gone when the user or the peer closes it, but never inside one of
\* its own callbacks.
Closed(s) ==
  /\ s \in open \/ s \in connecting
  /\ OutsideCallbacks(s)
  /\ connecting' = connecting \ {s} /\ open' = open \ {s}
  /\ UNCHANGED <<batch, received, switches, agentVars, alignmentVars, guiVars, sessionVars, pipelineVars>>

\* setSourceCsvFields() and its kin: refused while recording; the pipeline
\* forgets its queue and the source's parser.
AnyTime == TRUE
Unfrozen == ~recording
Reconfigure(s) ==
  /\ MaySwitch /\ Switched /\ Unfrozen
  /\ queue' = <<>>
  /\ pending' = [pending EXCEPT ![s] = <<>>]
  /\ UNCHANGED <<connecting, open, batch, received, agentVars, alignmentVars, guiVars, sessionVars,
                 hand, unit>>

\* setTimeAlignmentRules(): refused while recording, and by configure() beyond its limit;
\* the clocks are forgotten.
SetTimeAlignmentRules(table) ==
  /\ MaySwitch /\ Switched /\ Unfrozen /\ Alignment!Accepted(table)
  /\ rules' = table /\ clocks' = NoClocks
  /\ UNCHANGED <<connecting, open, batch, received, agentVars, frozen, kept, guiVars, sessionVars,
                 pipelineVars>>

\* startSession(): the open sources are listed before the lock is taken.
ListSources ==
  /\ gui = "idle" /\ open # {} /\ sessions < MaxSessions
  /\ gui' = "listed" /\ chosen' = open /\ sessions' = sessions + 1
  /\ UNCHANGED <<sourceVars, agentVars, alignmentVars, sessionVars, pipelineVars>>

\* So is the alignment frozen ...
Freeze ==
  /\ gui = "listed" /\ gui' = "starting"
  /\ frozen' = TRUE /\ kept' = Alignment!SnapshotRules(rules, clocks)
  /\ UNCHANGED <<sourceVars, agentVars, rules, clocks, chosen, sessions, sessionVars, pipelineVars>>

\* ... which is put in force under it: configure() forgets the clocks.
LockToStart ==
  /\ gui = "starting" /\ gui' = "startFlush" /\ Alignment!Accepted(kept)
  /\ rules' = kept /\ clocks' = NoClocks
  /\ UNCHANGED <<sourceVars, agentVars, frozen, kept, chosen, sessions, sessionVars, pipelineVars>>

\* A clock too far off: the call gives up, whatever is being recorded.
LockRefused ==
  /\ gui = "starting" /\ gui' = "idle" /\ ~Alignment!Accepted(kept)
  /\ frozen' = FALSE
  /\ UNCHANGED <<sourceVars, agentVars, rules, clocks, kept, chosen, sessions, sessionVars, pipelineVars>>

\* stopSession()
LockToStop ==
  /\ gui = "idle" /\ recording
  /\ gui' = "stopFlush"
  /\ UNCHANGED <<sourceVars, agentVars, alignmentVars, chosen, sessions, sessionVars, pipelineVars>>

\* flush() returns when the pipeline has nothing queued and nothing in hand.
AnyMoment == TRUE
Flushed == queue = <<>> /\ hand = <<>>

\* recorder_.start(), which ends a recording in progress first.
StartSucceeds ==
  /\ gui = "startFlush" /\ Flushed
  /\ declared' = chosen /\ recording' = TRUE /\ raw' = <<>> /\ values' = <<>>
  /\ gui' = "idle"
  /\ UNCHANGED <<sourceVars, agentVars, alignmentVars, chosen, sessions, pipelineVars>>

StartFails ==
  /\ gui = "startFlush" /\ Flushed
  /\ declared' = {} /\ recording' = FALSE
  /\ frozen' = FALSE /\ gui' = "idle"
  /\ UNCHANGED <<sourceVars, agentVars, rules, clocks, kept, chosen, sessions, raw, values, pipelineVars>>

StopSession ==
  /\ gui = "stopFlush" /\ Flushed
  /\ recording' = FALSE /\ declared' = {}
  /\ frozen' = FALSE /\ gui' = "idle"
  /\ UNCHANGED <<sourceVars, agentVars, rules, clocks, kept, chosen, sessions, raw, values, pipelineVars>>

SessionStep == Freeze \/ LockToStart \/ LockRefused \/ StartSucceeds \/ StartFails \/ StopSession

-----------------------------------------------------------------------------
(* The pipeline's worker *)

Take ==
  /\ hand = <<>> /\ queue # <<>>
  /\ hand' = <<Head(queue)>> /\ queue' = Tail(queue)
  /\ UNCHANGED <<sourceVars, agentVars, alignmentVars, guiVars, sessionVars, unit, pending>>

\* The parser of the chunk's source, up to the end of a line.
Parse ==
  /\ hand # <<>> /\ unit = <<>>
  /\ LET chunk == hand[1]
         grown == Append(pending[chunk.src], chunk)
     IN IF chunk.ends
        THEN /\ unit' = grown /\ pending' = [pending EXCEPT ![chunk.src] = <<>>]
             /\ UNCHANGED hand
        ELSE /\ pending' = [pending EXCEPT ![chunk.src] = grown] /\ hand' = <<>>
             /\ UNCHANGED unit
  /\ UNCHANGED <<sourceVars, agentVars, alignmentVars, guiVars, sessionVars, queue>>

\* The values are aligned and the sample handlers run on the worker, without routingMutex_.
HandlersRoute == RoutingFree
HandlersFree == TRUE
Emitted == <<>>
Emit ==
  /\ unit # <<>> /\ HandlersFree
  /\ LET value == [line |-> unit, time |-> TimeOf(rules, clocks, Last(unit).src)]
     IN values' = IF recording THEN Append(values, value) ELSE values
  /\ unit' = Emitted /\ hand' = <<>>
  /\ UNCHANGED <<sourceVars, agentVars, alignmentVars, guiVars, declared, recording, raw, queue, pending>>

WorkerStep == Take \/ Parse \/ Emit

Next == \/ (\E s \in Local, ends \in BOOLEAN : Receive(s, ends))
        \/ ReceiveBatch \/ AlignSamples \/ DeliverSamples \/ Measure \/ UpdateClock
        \/ LeaveReplay \/ (\E s \in Sources : Connect(s) \/ Opened(s) \/ Closed(s))
        \/ (\E s \in Local : Reconfigure(s))
        \/ (\E table \in {ByClock, NoRules} : SetTimeAlignmentRules(table))
        \/ ListSources \/ LockToStop \/ SessionStep \/ WorkerStep

\* The worker is scheduled and a GUI inside startSession() or stopSession()
\* goes on; nobody has to connect, to send or to record.
Fairness == WF_vars(WorkerStep) /\ WF_vars(SessionStep)

Spec == Init /\ [][Next]_vars
FairSpec == Spec /\ Fairness

-----------------------------------------------------------------------------
(* What a recorded session promises *)

\* The elements of a sequence that are in a set, in their order.
Among(s, S) ==
  LET first[n \in 0..Len(s)] ==    \* those of the first n
        IF n = 0 THEN <<>> ELSE IF s[n] \in S THEN Append(first[n - 1], s[n]) ELSE first[n - 1]
  IN first[Len(s)]

LocalChunk == [src : Local, id : 1..MaxChunks, ends : BOOLEAN]
LocalEnd == [src : Local, id : 1..MaxChunks, ends : {TRUE}]

\* The local chunks of the session that end a line, and the last ones of the lines recorded.
ReceivedEnds == Among(raw, LocalEnd)
LastChunks == [i \in DOMAIN values |-> Last(values[i].line)]
RecordedEnds == Among(LastChunks, LocalChunk)

\* When no session is being recorded, the directory of the last one has one
\* recorded line for every received chunk that ended a line, in that order: the
\* barriers of startSession() and stopSession() cut both logs at the same place.
\* While one is recorded its values never run ahead of its raw log.
ValuesMatchRaw ==
  /\ gui = "idle" /\ ~recording => RecordedEnds = ReceivedEnds
  /\ recording => IsPrefix(RecordedEnds, ReceivedEnds)

\* Freezing does not move the time axis: the frozen rules, without any clock, give each
\* source the times it was given before.
FreezeKeepsTimes ==
  [][gui = "listed" /\ gui' = "starting" =>
       \A s \in Sources : TimeOf(kept', NoClocks, s) = TimeOf(rules, clocks, s)]_vars

\* The time the rules written beside the recording give a source: what a replay computes.
KeptTime(s) == TimeOf(kept, NoClocks, s)

\* "When a session starts, the current rules and corrections are frozen; Ping/Pong during
\* the recording only leave diagnostic events and do not change the session's time axis"
\* (docs/REMOTE_AGENT_PROTOCOL.md:132).
AgentTimesAreFrozen ==
  recording => \A i \in DOMAIN values :
    values[i].line[1].src = Agent => values[i].time = KeptTime(Agent)

\* The same sentence, of the freeze itself: what a session froze at its start stays frozen
\* while it is recorded.
RecordingIsFrozen == recording => frozen

\* startSession() and stopSession() return although they wait for the pipeline
\* while they keep every source out.
CallReturns == (gui \notin {"idle", "leaving"}) ~> (gui = "idle")

\* "The stop barrier keeps received raw data and parsed values consistent at the
\* tail" (docs/ROADMAP.md:49), for the batches of the agent as well.
AgentValuesMatchRaw ==
  gui = "idle" /\ ~recording =>
    \A i \in DOMAIN raw : raw[i].src = Agent => \E j \in DOMAIN values : values[j].line = <<raw[i]>>

\* "To keep the raw record and its deterministic replay consistent"
\* (docs/SOURCE_PARSERS.md:49): every byte of a recorded line of a parsed source
\* is in the raw log, so that replaying it can produce the line again.
ReplayReproduces ==
  \A i \in DOMAIN values : \A j \in DOMAIN values[i].line :
    values[i].line[j].src \in Local => Contains(raw, values[i].line[j])
=============================================================================
