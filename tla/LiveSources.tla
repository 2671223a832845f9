----------------------------- MODULE LiveSources -----------------------------
(***************************************************************************)
(* The live sources of SerialSession and what watches them: the sources    *)
(* with an I/O thread each (serial_source.cpp, network_source.cpp,         *)
(* remote_agent_source.cpp), SourceManager, which forwards their signals,  *)
(* the state the window shows, and the watch HealthAlertEngine keeps on    *)
(* their silence.                                                          *)
(*                                                                         *)
(* A GUI call is a list of steps the GUI thread takes one after the other; *)
(* a signal is a list of steps its I/O thread takes.  opening and closing  *)
(* are blocking invocations: the I/O thread runs them between two of its   *)
(* own signals, and the GUI goes on when the steps they lead to are done.  *)
(* A TCP server and a UDP socket open at once and close like a serial      *)
(* port, and are not told apart from one.                                  *)
(***************************************************************************)
EXTENDS Integers, Sequences, SequencesExt, FiniteSets

CONSTANTS Keys,       \* the sources, by their key
          Kind,       \* of each: "serial", "client" (a TCP client) or "agent"
          topic,      \* the subscription one makes at the agent
          MaxLocal,   \* maximumLocalSources
          MaxEvents   \* bound: calls of the user and signals from outside

ASSUME KeysAssumption ==
  IsFiniteSet(Keys) /\ Keys # {} /\ "nobody" \notin Keys   \* there is always the agent
ASSUME KindAssumption ==
  Kind \in [Keys -> {"serial", "client", "agent"}] /\ topic \notin Keys
ASSUME MaxAssumption == MaxLocal \in Nat /\ MaxEvents \in Nat

Local == {k \in Keys : Kind[k] # "agent"}
Agents == Keys \ Local
States == {"closed", "opening", "open", "closing", "error"}

VARIABLES
  listed,      \* serialSources_ and networkSources_
  managed,     \* SourceManager: the sources it knows, with its callbacks set
  port,        \* per source, on its I/O thread: "none", "connecting", "open"
  created,     \* endpointCreated_
  isOpen,      \* open_
  io,          \* per source, what its thread has still to do
  call, waits, \* the steps left of the GUI call, and the thread it waits for
  queue,       \* states posted to the GUI thread
  shown,       \* localSourceStates_
  replaying, subscribed,
  serving,     \* the agent has the subscription
  armed,       \* HealthAlertEngine: inactivity rules that watch, by source or topic
  eventCount

sourceVars == <<listed, managed, port, created, isOpen>>
vars == <<sourceVars, io, call, waits, queue, shown, replaying, subscribed, serving, armed,
          eventCount>>

Step == [do : {"store", "arm", "post"}, state : States]
          \cup [do : {"observe", "observeTopic"}]
GuiStep == [do : {"reset", "arm", "add", "close", "closing", "open", "opening", "detach", "forget"},
            key : Keys]

Init ==
  /\ listed = {} /\ managed = Agents
  /\ port = [k \in Keys |-> "none"]
  /\ created = [k \in Keys |-> FALSE] /\ isOpen = [k \in Keys |-> FALSE]
  /\ io = [k \in Keys |-> <<>>]
  /\ call = <<>> /\ waits = "nobody" /\ queue = <<>>
  /\ shown = [k \in Keys |-> "closed"]
  /\ replaying = FALSE /\ subscribed = FALSE /\ serving = FALSE /\ armed = {} /\ eventCount = 0

Happens == eventCount < MaxEvents /\ eventCount' = eventCount + 1
AnyKey == CHOOSE k \in Keys : TRUE
-----------------------------------------------------------------------------
(* What an I/O thread does. *)

(* onState_: the flag, the callback of SourceManager and the session, the posted event. *)
Publishing(state) ==
  LET step(do) == [do |-> do, state |-> state]
  IN IF state = "open" THEN <<step("store"), step("arm"), step("post")>>
                       ELSE <<step("store"), step("post")>>

Posted(k, state) ==
  IF k \in managed THEN Append(queue, [key |-> k, state |-> state]) ELSE queue

IoStep(k) ==
  /\ io[k] # <<>>
  /\ LET step == Head(io[k])
     IN /\ isOpen' = IF step.do = "store"
                       THEN [isOpen EXCEPT ![k] = step.state = "open"] ELSE isOpen
        /\ armed' = CASE step.do \in {"arm", "observe"} /\ k \in managed -> armed \cup {k}
                      [] step.do = "observeTopic" -> armed \cup {topic}
                      [] OTHER -> armed
        /\ queue' = IF step.do = "post" THEN Posted(k, step.state) ELSE queue
  /\ io' = [io EXCEPT ![k] = Tail(@)]
  /\ UNCHANGED <<listed, managed, port, created, call, waits, shown, replaying,
                 subscribed, serving, eventCount>>

(* A signal from outside, handled between two others. *)
SignalOf(k, from, to, steps) ==
  /\ Happens
  /\ io[k] = <<>> /\ port[k] = from
  /\ port' = [port EXCEPT ![k] = to]
  /\ io' = [io EXCEPT ![k] = steps]
  /\ UNCHANGED <<listed, managed, created, isOpen, call, waits, queue, shown, replaying,
                 subscribed, armed>>

Signal(k, from, to, steps) == SignalOf(k, from, to, steps) /\ UNCHANGED serving

(* The agent's hello; the subscriptions are restored. *)
Connected(k) ==
  /\ SignalOf(k, "connecting", "open", Publishing("open"))
  /\ serving' = IF Kind[k] = "agent" THEN subscribed ELSE serving

(* The agent tries again, a TCP client does not. *)
ConnectFailed(k) ==
  IF Kind[k] = "agent" THEN Signal(k, "connecting", "connecting", Publishing("opening"))
                       ELSE Signal(k, "connecting", "none", Publishing("error"))

(* A TCP client reports an error and then the end, or only the end. *)
Lost(k) ==
  CASE Kind[k] = "serial" -> Signal(k, "open", "none", Publishing("error"))
    [] Kind[k] = "agent" -> Signal(k, "open", "connecting", Publishing("opening"))
    [] Kind[k] = "client" ->
         \E reported \in {<<>>, Publishing("error")} :
           Signal(k, "open", "none", reported \o Publishing("closed"))

Received(k) ==
  Signal(k, "open", "open",
         IF Kind[k] = "agent" /\ serving THEN <<[do |-> "observe"], [do |-> "observeTopic"]>>
                                         ELSE <<[do |-> "observe"]>>)

(* The agent has read the cancellation. *)
CancellationRead ==
  /\ serving /\ ~subscribed
  /\ serving' = FALSE
  /\ UNCHANGED <<sourceVars, io, call, waits, queue, shown, replaying, subscribed, armed, eventCount>>

-----------------------------------------------------------------------------
(* The steps of a GUI call. *)

Do(do, k) == [do |-> do, key |-> k]
GuiStepDone(k, then) == call' = then \o Tail(call) /\ waits' = k
Invoked(k, steps) == io' = [io EXCEPT ![k] = steps]

(* close() of a serial port asks whether it is open, the others whether they were made. *)
ToClose(k) == IF Kind[k] = "serial" THEN isOpen[k] ELSE created[k]
Opened(k, state) ==
  /\ port' = [port EXCEPT ![k] = CASE state = "error" -> "none"
                                   [] state = "open" /\ Kind[k] = "serial" -> "open"
                                   [] OTHER -> "connecting"]
  /\ created' = [created EXCEPT ![k] = Kind[k] # "serial" /\ state # "error"]
  /\ Invoked(k, IF state = "error" \/ Kind[k] = "serial"
                  THEN Publishing(state)
                  ELSE IF Kind[k] = "agent" THEN Publishing("opening") ELSE <<>>)

Invoking == IF waits = "nobody" THEN FALSE ELSE io[waits] # <<>>
Idle == call = <<>> /\ ~Invoking
Ready(do) == call # <<>> /\ ~Invoking /\ Head(call).do = do
This == Head(call).key

ResetRules ==
  /\ Ready("reset")
  /\ armed' = {}
  /\ GuiStepDone("nobody", <<>>)
  /\ UNCHANGED <<sourceVars, io, queue, shown, replaying, subscribed, serving, eventCount>>

(* armHealthAlertTargets(), one source of it. *)
Watched(k) == {k} \cup IF Kind[k] = "agent" /\ subscribed THEN {topic} ELSE {}
ArmIfOpen ==
  /\ Ready("arm")
  /\ armed' = IF isOpen[This] /\ (This \in listed \/ Kind[This] = "agent")
                THEN armed \cup Watched(This) ELSE armed
  /\ GuiStepDone("nobody", <<>>)
  /\ UNCHANGED <<sourceVars, io, queue, shown, replaying, subscribed, serving, eventCount>>

Add ==
  /\ Ready("add")
  /\ managed' = managed \cup {This}
  /\ listed' = listed \cup {This}
  /\ shown' = [shown EXCEPT ![This] = "closed"]
  /\ GuiStepDone("nobody", <<>>)
  /\ UNCHANGED <<port, created, isOpen, io, queue, replaying, subscribed, serving, armed, eventCount>>

CloseSource ==
  /\ Ready("close")
  /\ created' = [created EXCEPT ![This] = FALSE]
  /\ GuiStepDone("nobody", IF ToClose(This) THEN <<Do("closing", This)>> ELSE <<>>)
  /\ UNCHANGED <<listed, managed, port, isOpen, io, queue, shown, replaying, subscribed, serving,
                 armed, eventCount>>

(* closePort(), closeEndpoint(); a connected socket that is aborted announces its end too. *)
Closing ==
  /\ Ready("closing") /\ io[This] = <<>>
  /\ port' = [port EXCEPT ![This] = "none"]
  /\ Invoked(This, IF Kind[This] = "serial" /\ port[This] = "none" THEN Publishing("closed")
                   ELSE Publishing("closing") \o Publishing("closed"))
  /\ GuiStepDone(This, <<>>)
  /\ UNCHANGED <<listed, managed, created, isOpen, queue, shown, replaying, subscribed, serving,
                 armed, eventCount>>

OpenSource ==
  /\ Ready("open")
  /\ queue' = Posted(This, "opening")
  /\ created' = [created EXCEPT ![This] = FALSE]
  /\ GuiStepDone("nobody", <<Do("opening", This)>>)
  /\ UNCHANGED <<listed, managed, port, isOpen, io, shown, replaying, subscribed, serving, armed, eventCount>>

Opening ==
  /\ Ready("opening") /\ io[This] = <<>>
  /\ \E state \in {"open", "error"} : Opened(This, state)
  /\ GuiStepDone(This, <<>>)
  /\ UNCHANGED <<listed, managed, isOpen, queue, shown, replaying, subscribed, serving, armed, eventCount>>

(* SourceManager::remove(), after close(). *)
Detach ==
  /\ Ready("detach")
  /\ managed' = managed \ {This}
  /\ GuiStepDone("nobody", <<>>)
  /\ UNCHANGED <<listed, port, created, isOpen, io, queue, shown, replaying, subscribed, serving,
                 armed, eventCount>>

(* The rest of removeLocalSource(): the source is deleted, its rules disarmed. *)
Forget ==
  /\ Ready("forget")
  /\ listed' = listed \ {This}
  /\ shown' = [shown EXCEPT ![This] = "closed"]
  /\ armed' = armed \ {This}
  /\ GuiStepDone("nobody", <<>>)
  /\ UNCHANGED <<managed, port, created, isOpen, io, queue, replaying, subscribed, serving, eventCount>>

-----------------------------------------------------------------------------
(* The calls of the window. *)

ForAll(do) == [i \in DOMAIN SetToSeq(Keys) |-> Do(do, SetToSeq(Keys)[i])]
ResetAndArm == <<Do("reset", AnyKey)>> \o ForAll("arm")
LeavingReplay == IF replaying THEN ResetAndArm ELSE <<>>

Call(steps) ==
  /\ Happens /\ Idle
  /\ call' = steps /\ waits' = "nobody"
  /\ UNCHANGED <<sourceVars, io, queue, shown, armed>>

(* connect of a known source, reconnect: closed first, whatever its state. *)
Reopened(k) == LeavingReplay \o <<Do("close", k), Do("open", k)>>

ConnectLocal(k) ==
  /\ k \in Local
  /\ k \in listed \/ Cardinality(listed) < MaxLocal
  /\ Call(IF k \in listed THEN Reopened(k) ELSE LeavingReplay \o <<Do("add", k), Do("open", k)>>)
  /\ replaying' = FALSE
  /\ UNCHANGED <<subscribed, serving>>

ConnectRemoteAgent(k) ==
  /\ k \in Agents
  /\ Call(Reopened(k))
  /\ replaying' = FALSE
  /\ UNCHANGED <<subscribed, serving>>

Disconnect(k) ==
  /\ k \in listed \cup Agents
  /\ Call(<<Do("close", k)>>)
  /\ UNCHANGED <<replaying, subscribed, serving>>

ForgottenFirst(k) == <<Do("forget", k), Do("close", k), Do("detach", k)>>
RemovalOf(k) == <<Do("close", k), Do("detach", k), Do("forget", k)>>
RemoveLocalSource(k) ==
  /\ k \in listed
  /\ Call(RemovalOf(k))
  /\ UNCHANGED <<replaying, subscribed, serving>>

(* setHealthAlertRules(), resetParserDependentState(): the rules start anew. *)
NotArmed == <<Do("reset", AnyKey)>>
RulesRestarted == ResetAndArm
RestartRules ==
  /\ Call(RulesRestarted)
  /\ UNCHANGED <<replaying, subscribed, serving>>

OpenReplaySession(succeeds) ==
  /\ Call(ForAll("close") \o <<Do("reset", AnyKey)>>)
  /\ replaying' = succeeds
  /\ UNCHANGED <<subscribed, serving>>

CloseReplay ==
  /\ replaying
  /\ Call(ResetAndArm)
  /\ replaying' = FALSE
  /\ UNCHANGED <<subscribed, serving>>

(* The frame is sent on the agent's thread before the session notes the subscription. *)
Subscribe ==
  /\ Happens /\ Idle
  /\ \E k \in Agents : isOpen[k] /\ io[k] = <<>>
  /\ subscribed' = TRUE /\ serving' = TRUE
  /\ armed' = armed \cup {topic}
  /\ UNCHANGED <<sourceVars, io, call, waits, queue, shown, replaying>>

Unsubscribe ==
  /\ Happens /\ Idle /\ subscribed
  /\ \E k \in Agents : isOpen[k] /\ io[k] = <<>>
  /\ subscribed' = FALSE
  /\ armed' = armed \ {topic}
  /\ UNCHANGED <<sourceVars, io, call, waits, queue, shown, replaying, serving>>

(* A posted state arrives.  The rules of the topics are armed here, not by the signal. *)
ErrorHidden(k, state) ==
  IF k \in listed /\ state # "error" THEN [shown EXCEPT ![k] = state] ELSE shown
Shown(k, state) == IF k \in listed THEN [shown EXCEPT ![k] = state] ELSE shown
Deliver ==
  /\ Idle /\ queue # <<>>
  /\ LET k == Head(queue).key
         state == Head(queue).state
     IN /\ shown' = Shown(k, state)
        /\ armed' = IF Kind[k] = "agent" /\ state = "open" /\ subscribed
                      THEN armed \cup {topic} ELSE armed
  /\ queue' = Tail(queue)
  /\ UNCHANGED <<sourceVars, io, call, waits, replaying, subscribed, serving, eventCount>>

Gui ==
  \/ ResetRules \/ ArmIfOpen \/ Add \/ CloseSource \/ Closing \/ OpenSource \/ Opening
  \/ Detach \/ Forget \/ Deliver

Next ==
  \/ Gui
  \/ \E k \in Keys : IoStep(k) \/ Connected(k) \/ ConnectFailed(k) \/ Lost(k) \/ Received(k)
  \/ \E k \in Keys : ConnectLocal(k) \/ ConnectRemoteAgent(k) \/ Disconnect(k) \/ RemoveLocalSource(k)
  \/ CancellationRead \/ RestartRules \/ CloseReplay \/ Subscribe \/ Unsubscribe
  \/ \E succeeds \in BOOLEAN : OpenReplaySession(succeeds)

Spec == Init /\ [][Next]_vars

-----------------------------------------------------------------------------
(* When everything posted has arrived and nobody is at work, the window shows a source  *)
(* as open if and only if it is: also after reconnections, errors that cross a close,   *)
(* and a source removed and listed again while its last states were still posted.       *)
Quiet(k) == Idle /\ io[k] = <<>> /\ \A i \in DOMAIN queue : queue[i].key # k
ShownIsTrue == \A k \in listed : Quiet(k) => (shown[k] = "open") = isOpen[k]

(* However the signals of the I/O threads cross a restart of the rules or the end of a  *)
(* replay, a source that is open is watched, and so is a topic subscribed to.           *)
OpenIsWatched ==
  /\ \A k \in Keys : Idle /\ ~replaying /\ io[k] = <<>> /\ isOpen[k] => k \in armed
  /\ \A k \in Agents : Quiet(k) /\ ~replaying /\ isOpen[k] /\ subscribed => topic \in armed

(* A source that was removed is watched no longer: no signal of it comes after that. *)
RemovedIsUnwatched == \A k \in Local \ listed : Idle => k \notin armed /\ ~isOpen[k]

(* docs/MARKERS_ALERTS.md says that cancelling the last subscription of a topic ends    *)
(* its watch.                                                                           *)
UnsubscribedIsUnwatched == ~subscribed => topic \notin armed
==============================================================================
