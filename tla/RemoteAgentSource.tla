-------------------------- MODULE RemoteAgentSource --------------------------
(***************************************************************************)
(* The client of a remote agent: RemoteAgentWorker in                      *)
(* src/src/adapters/remote_agent/src/remote_agent_source.cpp, which lives  *)
(* in the thread "Remote Agent I/O".  The calls of RemoteAgentSource are   *)
(* blocking invocations on that thread and the signals of the socket and   *)
(* the timers are delivered on it, so each of them is one action.          *)
(*                                                                         *)
(* The endpoint stays the same, so open() never clears the subscriptions.  *)
(* All capabilities are negotiated.  A write to a connected socket is      *)
(* buffered by Qt and accepted in full.  A timer fires at any time.        *)
(***************************************************************************)
EXTENDS Integers, Sequences, SequencesExt

CONSTANTS Keys,            \* topic and type pairs one can subscribe to
          MaxConnections,  \* bound: TCP connections established
          MaxFailures,     \* bound: refused connects, broken connections, late hellos
          MaxEvents,       \* bound: calls of the user, pings, messages, graph changes
          Backlog          \* what the listening socket holds: listen(descriptor, 1)

VARIABLES
  client,       \* the worker's fields, see ClientType
  wire,         \* per connection: is it up, and the frames under way in each direction
  backlog,      \* connections the agent has not accepted yet
  connections,  \* how many connections there have been; the last one is the client's
  failures, events

none == -1

FrameTypes == {"hello", "helloAck", "catalog", "subscribe", "unsubscribe", "sample",
               "error", "ping", "pong", "catalogRequest"}

(* Three of the messages name a key, the others carry a number if anything. *)
Frame ==
  {f \in [type : FrameTypes, seq : Nat, arg : Keys \cup Nat] :
     IF f.type \in {"subscribe", "unsubscribe", "sample"} THEN f.arg \in Keys
                                                        ELSE f.arg \in Nat}

ClientType ==
  [state : {"disconnected", "awaitingHello", "ready", "error"},
   desiredOpen : BOOLEAN, autoReconnect : BOOLEAN,
   socket : {"none", "connecting", "connected", "closed"},
   handshakeTimer : BOOLEAN, reconnectTimer : BOOLEAN,
   lastInbound : Nat \cup {none}, outbound : Nat,
   desired : SUBSET Keys, revision : Nat]

WireType == [up : BOOLEAN, toServer : Seq(Frame), toClient : Seq(Frame)]

(* The messages <<type, arg>> as frames, numbered from first on. *)
Framed(messages, first) ==
  [i \in DOMAIN messages |->
     [type |-> messages[i][1], seq |-> first + i - 1, arg |-> messages[i][2]]]

ClientInit ==
  client = [state |-> "disconnected", desiredOpen |-> FALSE, autoReconnect |-> FALSE,
            socket |-> "none", handshakeTimer |-> FALSE, reconnectTimer |-> FALSE,
            lastInbound |-> none, outbound |-> 0, desired |-> {}, revision |-> 0]

Connected == client.socket = "connected"

(* socket_->abort() and delete: the peer is told, what is under way to the client is lost. *)
SocketAborted ==
  IF Connected THEN [wire EXCEPT ![connections].up = FALSE, ![connections].toClient = <<>>]
               ELSE wire

(* sendFrame() for each message of the list, on a socket that is connected. *)
Sent(messages) ==
  IF wire[connections].up
    THEN [wire EXCEPT ![connections].toServer = @ \o Framed(messages, client.outbound)]
    ELSE wire

(* startConnection(): a new socket that begins to connect. *)
ConnectionStarted(c) ==
  [c EXCEPT !.socket = "connecting", !.lastInbound = none, !.outbound = 0,
            !.state = "disconnected", !.reconnectTimer = FALSE]

TimerKept(c) ==
  [c EXCEPT !.desiredOpen = FALSE, !.handshakeTimer = FALSE, !.socket = "none",
            !.lastInbound = none, !.state = "disconnected"]

(* closeEndpoint(): the timers and the socket are deleted. *)
EndpointClosed(c) ==
  [c EXCEPT !.desiredOpen = FALSE, !.handshakeTimer = FALSE, !.reconnectTimer = FALSE,
            !.socket = "none", !.lastInbound = none, !.state = "disconnected"]

NotScheduled(c) == [c EXCEPT !.handshakeTimer = FALSE, !.state = "disconnected"]

ReconnectScheduled(c) ==
  IF c.reconnectTimer THEN c
  ELSE [c EXCEPT !.handshakeTimer = FALSE, !.state = "disconnected", !.reconnectTimer = TRUE]

(* recoverTransport(): retry, or report an error or a closed connection. *)
Recovered(c, errorWithoutReconnect) ==
  CASE ~c.desiredOpen \/ c.state = "error" -> c
    [] c.desiredOpen /\ c.state # "error" /\ c.autoReconnect ->
         ReconnectScheduled(c)
    [] OTHER ->
         [c EXCEPT !.state = IF errorWithoutReconnect THEN "error" ELSE "disconnected"]

(* failFatal(): a violation of the protocol is not retried. *)
FailedForGood(c) ==
  [c EXCEPT !.state = "error", !.handshakeTimer = FALSE, !.reconnectTimer = FALSE,
            !.socket = "closed"]

Fails == failures < MaxFailures /\ failures' = failures + 1
Happens == events < MaxEvents /\ events' = events + 1
-----------------------------------------------------------------------------
(* The calls of the application. *)

(* open(), also of an endpoint that is open; refused when a setting is empty.  The bound *)
(* keeps a connection for every failure to come.                                        *)
Open(valid, auto) ==
  /\ Happens
  /\ connections + MaxFailures - failures < MaxConnections
  /\ client' = IF valid
       THEN ConnectionStarted([EndpointClosed(client) EXCEPT !.desiredOpen = TRUE,
                                                             !.autoReconnect = auto])
       ELSE [EndpointClosed(client) EXCEPT !.state = "error"]
  /\ wire' = SocketAborted
  /\ UNCHANGED <<backlog, connections, failures>>

Close ==
  /\ client # EndpointClosed(client)
  /\ client' = EndpointClosed(client)
  /\ wire' = SocketAborted
  /\ UNCHANGED <<backlog, connections, failures, events>>

(* Refused with an error, and nothing else, unless the handshake is ready. *)
Command(type, arg, desired) ==
  /\ Happens
  /\ client.state = "ready"
  /\ wire' = Sent(<< <<type, arg>> >>)
  /\ client' = [client EXCEPT !.outbound = @ + 1, !.desired = desired]
  /\ UNCHANGED <<backlog, connections, failures>>

RequestTopicCatalog == Command("catalogRequest", 0, client.desired)
Subscribe(k) == Command("subscribe", k, client.desired \cup {k})
Unsubscribe(k) == Command("unsubscribe", k, client.desired \ {k})

-----------------------------------------------------------------------------
(* The signals of the socket and of the timers. *)

ConnectSucceeds ==
  /\ client.socket = "connecting"
  /\ connections < MaxConnections /\ Len(backlog) < Backlog
  /\ connections' = connections + 1
  /\ backlog' = Append(backlog, connections')
  /\ wire' = [wire EXCEPT ![connections'].up = TRUE]
  /\ client' = [client EXCEPT !.socket = "connected", !.state = "awaitingHello",
                              !.handshakeTimer = TRUE]
  /\ UNCHANGED <<failures, events>>

(* errorOccurred while connecting; the agent cannot be reached, or Qt gives up. *)
ConnectFails ==
  /\ client.socket = "connecting"
  /\ Fails
  /\ client' = Recovered([client EXCEPT !.socket = "closed"], TRUE)
  /\ UNCHANGED <<wire, backlog, connections, events>>

(* The connection is gone: an orderly end is only a disconnected signal, any other is *)
(* preceded by errorOccurred.  Bytes that have not been read may be lost.             *)
ConnectionLost(orderly) ==
  /\ Connected /\ ~wire[connections].up
  /\ LET c == [client EXCEPT !.socket = "closed"]
         e == IF orderly THEN c ELSE Recovered(c, TRUE)
         d == [e EXCEPT !.handshakeTimer = FALSE]
     IN client' = IF ~d.desiredOpen \/ d.state = "error" \/ d.reconnectTimer
                    THEN d ELSE Recovered(d, d.state = "awaitingHello")
  /\ wire' = [wire EXCEPT ![connections].toClient = <<>>]
  /\ UNCHANGED <<backlog, connections, failures, events>>

(* The five seconds are over before a hello came: abort() ends in disconnected, which *)
(* finds the reconnection scheduled or the error reported.                            *)
HandshakeTimeout ==
  /\ client.handshakeTimer
  /\ Fails
  /\ client' = [Recovered(client, TRUE) EXCEPT !.socket = "closed", !.handshakeTimer = FALSE]
  /\ wire' = SocketAborted
  /\ UNCHANGED <<backlog, connections, events>>

ReconnectTimeout ==
  /\ client.reconnectTimer
  /\ client' = IF client.desiredOpen THEN ConnectionStarted(client) ELSE client
  /\ wire' = SocketAborted
  /\ UNCHANGED <<backlog, connections, failures, events>>

(* requestClockSync(); the nonce and the estimate it leads to are left out. *)
ClockSyncTimeout == Command("ping", 0, client.desired)

-----------------------------------------------------------------------------
(* processFrame(): the next frame of the stream. *)

HasInput == Connected /\ wire[connections].toClient # <<>>
Input == Head(wire[connections].toClient)
InOrder == client.lastInbound = none \/ Input.seq > client.lastInbound
Taken(w) == [w EXCEPT ![connections].toClient = Tail(@)]

(* The client c has handled the frame and sends the messages. *)
Answers(c, messages) ==
  /\ client' = [c EXCEPT !.lastInbound = Input.seq, !.outbound = @ + Len(messages)]
  /\ wire' = Taken(Sent(messages))
  /\ UNCHANGED <<backlog, connections, failures, events>>

Breaks ==
  /\ client' = [FailedForGood(client) EXCEPT
                  !.lastInbound = IF InOrder THEN Input.seq ELSE @]
  /\ wire' = SocketAborted
  /\ UNCHANGED <<backlog, connections, failures, events>>

(* acceptHello(): acknowledge, ask for the catalog, restore the subscriptions in the *)
(* order of a hash table, measure the clock.                                         *)
Greeting(order) ==
  << <<"helloAck", 0>>, <<"catalogRequest", 0>> >>
    \o [i \in DOMAIN order |-> <<"subscribe", order[i]>>] \o << <<"ping", 0>> >>

AcceptHello ==
  \E order \in SetToSeqs(client.desired) :
    Answers([client EXCEPT !.handshakeTimer = FALSE, !.state = "ready"], Greeting(order))

HandleFrame ==
  \/ /\ Input.type = "catalog"
     /\ Answers([client EXCEPT !.revision = Input.arg], <<>>)
  \/ /\ Input.type \in {"sample", "error", "pong"}
     /\ Answers(client, <<>>)
  \/ /\ Input.type = "ping"
     /\ Answers(client, << <<"pong", Input.arg>> >>)

(* A hello first, then only what an agent sends, in sequence. *)
Expected ==
  /\ InOrder
  /\ \/ client.state = "awaitingHello" /\ Input.type = "hello"
     \/ client.state = "ready" /\ Input.type \in {"catalog", "sample", "error", "ping", "pong"}

ReadFrame ==
  /\ HasInput
  /\ IF ~Expected THEN Breaks
     ELSE IF Input.type = "hello" THEN AcceptHello ELSE HandleFrame

ClientStep ==
  \/ \E valid, auto \in BOOLEAN : Open(valid, auto)
  \/ Close
  \/ RequestTopicCatalog
  \/ \E k \in Keys : Subscribe(k) \/ Unsubscribe(k)
  \/ ConnectSucceeds \/ ConnectFails
  \/ \E orderly \in BOOLEAN : ConnectionLost(orderly)
  \/ HandshakeTimeout \/ ReconnectTimeout \/ ClockSyncTimeout
  \/ ReadFrame

ClientFairness ==
  /\ WF_<<client, wire, backlog, connections>>(ConnectSucceeds)
  /\ WF_<<client, wire>>(\E orderly \in BOOLEAN : ConnectionLost(orderly))
  /\ WF_<<client, wire>>(ReconnectTimeout)
  /\ WF_<<client, wire>>(ReadFrame)
==============================================================================
