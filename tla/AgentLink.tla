------------------------------ MODULE AgentLink ------------------------------
(***************************************************************************)
(* A remote agent and its client joined by TCP connections.  A connection  *)
(* may break at any moment; until then it delivers in order.               *)
(***************************************************************************)
EXTENDS Integers, Sequences

CONSTANTS Keys, TopicOf, MaxConnections, MaxFailures, MaxEvents, Backlog

ASSUME BoundsAssumption == MaxConnections \in Nat /\ MaxFailures \in Nat /\ MaxEvents \in Nat
ASSUME BacklogAssumption == Backlog \in Nat \ {0}
ASSUME TopicsAssumption == DOMAIN TopicOf = Keys

VARIABLES client, wire, backlog, connections, failures, events,
          server, session, io, job, node, graph, refused

Client == INSTANCE RemoteAgentSource
Agent == INSTANCE AgentServer

clientVars == <<client, connections>>
serverVars == <<server, session, io, job, node, graph, refused>>
vars == <<clientVars, wire, backlog, failures, events, serverVars>>

Init ==
  /\ Client!ClientInit
  /\ Agent!ServerInit
  /\ wire = [c \in 1..MaxConnections |-> [up |-> FALSE, toServer |-> <<>>, toClient |-> <<>>]]
  /\ backlog = <<>>
  /\ connections = 0 /\ failures = 0 /\ events = 0

(* Every variable keeps its type. *)
TypeOK ==
  /\ client \in Client!ClientType
  /\ wire \in [1..MaxConnections -> Client!WireType]
  /\ backlog \in Seq(1..MaxConnections)
  /\ connections \in 0..MaxConnections
  /\ failures \in Nat /\ events \in Nat
  /\ server \in Agent!ServerType
  /\ session \in Agent!SessionType
  /\ io \in {"free"} \cup Agent!Threads
  /\ job \in [Agent!Threads -> Agent!JobType]
  /\ node \in Agent!NodeType
  /\ graph \subseteq Keys /\ refused \subseteq Keys

(* The network breaks a connection: the agent reads no more of it. *)
Break ==
  /\ connections > 0 /\ wire[connections].up
  /\ failures < MaxFailures /\ failures' = failures + 1
  /\ wire' = [wire EXCEPT ![connections].up = FALSE]
  /\ UNCHANGED <<clientVars, backlog, events, serverVars>>

Next ==
  \/ Client!ClientStep /\ UNCHANGED serverVars
  \/ Agent!ServerStep /\ UNCHANGED clientVars
  \/ Break

Spec == Init /\ [][Next]_vars
FairSpec == Spec /\ Client!ClientFairness /\ Agent!ServerFairness

(* Neither end ever accuses the other: whatever the threads of the agent interleave, the *)
(* numbers of its frames only grow and the handshake comes first, so that an open client *)
(* that reconnects never ends in the error that is not retried.                          *)
ProtocolHolds ==
  /\ session.state # "error"
  /\ client.desiredOpen /\ client.autoReconnect => client.state # "error"

(* However timeouts, errors and disconnects of one connection follow each other, one    *)
(* reconnection is scheduled: never beside a live attempt, and always when there is none. *)
TimersMatchState ==
  /\ client.handshakeTimer => client.state = "awaitingHello"
  /\ client.reconnectTimer =>
       /\ client.desiredOpen /\ client.state = "disconnected"
       /\ ~client.handshakeTimer
  /\ client.desiredOpen /\ client.autoReconnect /\ client.state = "disconnected" =>
       (client.socket = "connecting") # client.reconnectTimer

(* When nothing is under way the agent serves what the client wants, but for what it     *)
(* refused: also after reconnections, which restore the subscriptions on a new session.  *)
Settled ==
  /\ client.state = "ready" /\ wire[connections].up
  /\ server.at = "recv" /\ server.client = connections
  /\ wire[connections].toServer = <<>>
SubscriptionsAgree == Settled => node.subscriptions = client.desired \ refused

(* A client that is to stay connected gets there after any failures, unless the agent's  *)
(* listening thread has ended over an error of accept().                                 *)
Wanted == client.desiredOpen /\ client.autoReconnect
Recovers == Wanted ~> (client.state = "ready" \/ ~Wanted \/ server.at = "ended")

(* What docs/REMOTE_AGENT_PROTOCOL.md says of graphRevision, that it changes            *)
(* monotonically: the catalogs one connection delivers never go back.                    *)
CatalogsGoForward ==
  [][connections' = connections => client'.revision >= client.revision]_vars
==============================================================================
