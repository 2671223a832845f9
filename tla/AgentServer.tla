----------------------------- MODULE AgentServer -----------------------------
(***************************************************************************)
(* The agent that runs beside ROS: the thread of AgentTcpServer            *)
(* (tcp_server.cpp), its ServerSession (remote_agent_session.cpp) and      *)
(* RosAgentNode (ros_agent_node.cpp).                                      *)
(*                                                                         *)
(* Two threads send frames.  The server's thread accepts one client after  *)
(* another, reads its frames and answers them; the callbacks of the node   *)
(* (graph timer, heartbeat, messages) exclude each other, being of one     *)
(* callback group.  Either takes sessionIoMutex_ to number a frame and to  *)
(* send it, and builds a catalog with no lock held but for its number.     *)
(***************************************************************************)
EXTENDS Integers, Sequences

CONSTANTS Keys, TopicOf,   \* topic and type pairs, and the topic of each
          MaxConnections, MaxFailures, MaxEvents

VARIABLES
  wire, backlog, failures, events,   \* see RemoteAgentSource
  server,      \* run(): where it stands, its client, the actions left, a fatal error
  session,     \* ServerSession
  io,          \* who holds sessionIoMutex_: "free", "server", "ros"
  job,         \* per thread, the publication under way
  node,        \* subscriptions_, lastSentRevision_, catalogRevision_, catalogSignature_
  graph,       \* the topics that exist in ROS
  refused      \* history: the keys whose last Subscribe of this session failed

none == -1
Threads == {"server", "ros"}
NoJob == [at |-> "none", type |-> "none", arg |-> 0, seen |-> {}, seq |-> 0]

Request ==
  {a \in [type : {"catalogRequest", "subscribe", "unsubscribe"}, arg : Keys \cup Nat] :
     a.type # "catalogRequest" => a.arg \in Keys}

ServerType ==
  [at : {"accept", "hello", "recv", "act", "close", "reset", "forget", "ended"},
   client : 0..MaxConnections, fatal : BOOLEAN, todo : Seq(Request)]

SessionType == [state : {"idle", "awaitingHelloAck", "ready", "error"},
                lastInbound : Nat \cup {none}, outbound : Nat]

JobType ==
  {j \in [at : {"none", "read", "stamp", "store", "want", "send"},
          type : {"none", "catalog", "sample", "error", "ping"},
          arg : Keys \cup Nat, seen : SUBSET Keys, seq : Nat] :
     IF j.type = "sample" THEN j.arg \in Keys ELSE j.arg \in Nat}

NodeType == [subscriptions : SUBSET Keys, lastSent : Nat, revision : Nat,
             signature : SUBSET Keys]

IdleSession == [state |-> "idle", lastInbound |-> none, outbound |-> 0]

ServerInit ==
  /\ server = [at |-> "accept", client |-> 0, fatal |-> FALSE, todo |-> <<>>]
  /\ session = IdleSession
  /\ io = "free"
  /\ job = [t \in Threads |-> NoJob]
  /\ node = [subscriptions |-> {}, lastSent |-> 0, revision |-> 0, signature |-> {}]
  /\ graph = Keys
  /\ refused = {}

Fails == failures < MaxFailures /\ failures' = failures + 1
Happens == events < MaxEvents /\ events' = events + 1

(* sendEncoded(): frames on a connection that is down vanish. *)
Delivered(frames) ==
  IF wire[server.client].up THEN [wire EXCEPT ![server.client].toClient = @ \o frames]
                            ELSE wire

(* sessionIoMutex_ is not taken. *)
NoMutex == TRUE
IoFree == io = "free"
-----------------------------------------------------------------------------
(* run() and serveClient(). *)

Accept ==
  /\ server.at = "accept" /\ backlog # <<>>
  /\ server' = [server EXCEPT !.at = "hello", !.client = Head(backlog)]
  /\ backlog' = Tail(backlog)
  /\ UNCHANGED <<wire, failures, events, session, io, job, node, graph, refused>>

(* Any error of accept() ends the thread. *)
AcceptFails ==
  /\ server.at = "accept" /\ Fails
  /\ server' = [server EXCEPT !.at = "ended"]
  /\ UNCHANGED <<wire, backlog, events, session, io, job, node, graph, refused>>

(* session_.start(), and its hello sent; a failure of send() ends this client. *)
SayHello(sent) ==
  /\ server.at = "hello" /\ IoFree
  /\ sent \/ ~wire[server.client].up
  /\ session' = [state |-> "awaitingHelloAck", lastInbound |-> none, outbound |-> 1]
  /\ wire' = IF sent THEN Delivered(<< [type |-> "hello", seq |-> 0, arg |-> 0] >>) ELSE wire
  /\ server' = [server EXCEPT !.at = IF sent THEN "recv" ELSE "close"]
  /\ UNCHANGED <<backlog, failures, events, io, job, node, graph, refused>>

(* consume(): one frame after another, until one is fatal.  r is the session, the *)
(* answers to send and the actions to take.                                       *)
Allowed(s, f) ==
  /\ s.lastInbound = none \/ f.seq > s.lastInbound
  /\ \/ s.state = "awaitingHelloAck" /\ f.type = "helloAck"
     \/ /\ s.state = "ready"
        /\ f.type \in {"catalogRequest", "subscribe", "unsubscribe", "ping", "pong"}

Answered(r, type, arg) ==
  [r EXCEPT !.session.outbound = @ + 1,
            !.send = Append(@, [type |-> type, seq |-> r.session.outbound, arg |-> arg])]

Consumed(r, f) ==
  LET seen == [r EXCEPT !.session.lastInbound = f.seq]
  IN CASE r.session.state = "error" -> r
       [] r.session.state # "error" /\ ~Allowed(r.session, f) ->
            Answered([r EXCEPT !.session.state = "error"], "error", 0)
       [] OTHER ->
            CASE f.type = "helloAck" -> [seen EXCEPT !.session.state = "ready"]
              [] f.type = "ping" -> Answered(seen, "pong", f.arg)
              [] f.type = "pong" -> seen
              [] OTHER -> [seen EXCEPT !.todo = Append(@, [type |-> f.type, arg |-> f.arg])]

(* What is left when the session s has consumed the first n of the frames. *)
Handled(s, frames, n) ==
  LET after[i \in 0..n] ==
        IF i = 0 THEN [session |-> s, send |-> <<>>, todo |-> <<>>]
                 ELSE Consumed(after[i - 1], frames[i])
  IN after[n]

(* recv() returns some of the frames that arrived; consume() and the answers are one *)
(* section of sessionIoMutex_.                                                       *)
Receive(n, sent) ==
  /\ server.at = "recv" /\ IoFree
  /\ n \in 1..Len(wire[server.client].toServer)
  /\ sent \/ ~wire[server.client].up
  /\ LET r == Handled(session, wire[server.client].toServer, n)
         w == IF sent THEN Delivered(r.send) ELSE wire
     IN /\ session' = r.session
        /\ wire' = [w EXCEPT ![server.client].toServer = SubSeq(@, n + 1, Len(@))]
        /\ server' = IF r.send # <<>> /\ ~sent
             THEN [server EXCEPT !.at = "close"]
             ELSE [server EXCEPT !.at = "act", !.todo = r.todo,
                                 !.fatal = r.session.state = "error"]
  /\ UNCHANGED <<backlog, failures, events, io, job, node, graph, refused>>

(* recv() returns 0 or an error; what the client sent last may be lost. *)
ClientGone ==
  /\ server.at = "recv" /\ ~wire[server.client].up
  /\ server' = [server EXCEPT !.at = "close"]
  /\ UNCHANGED <<wire, backlog, failures, events, session, io, job, node, graph, refused>>

CloseClient ==
  /\ server.at = "close"
  /\ server' = [at |-> "reset", client |-> 0, fatal |-> FALSE, todo |-> <<>>]
  /\ wire' = [wire EXCEPT ![server.client].up = FALSE, ![server.client].toServer = <<>>]
  /\ UNCHANGED <<backlog, failures, events, session, io, job, node, graph, refused>>

ResetSession ==
  /\ server.at = "reset" /\ IoFree
  /\ session' = IdleSession
  /\ server' = [server EXCEPT !.at = "forget"]
  /\ UNCHANGED <<wire, backlog, failures, events, io, job, node, graph, refused>>

ForgetsNothing ==
  /\ server.at = "forget"
  /\ node' = [node EXCEPT !.lastSent = 0]
  /\ refused' = {}
  /\ server' = [server EXCEPT !.at = "accept"]
  /\ UNCHANGED <<wire, backlog, failures, events, session, io, job, graph>>

(* onClientDisconnected *)
ClearSubscriptions ==
  /\ server.at = "forget"
  /\ node' = [node EXCEPT !.lastSent = 0, !.subscriptions = {}]
  /\ refused' = {}
  /\ server' = [server EXCEPT !.at = "accept"]
  /\ UNCHANGED <<wire, backlog, failures, events, session, io, job, graph>>

-----------------------------------------------------------------------------
(* processAction(): one action after another, each with the publication it needs. *)

Acting == server.at = "act" /\ job["server"].at = "none"
JobOf(t, j) == job' = [job EXCEPT ![t] = j]
Action == Head(server.todo)
Done == server' = [server EXCEPT !.todo = Tail(@)]

ActionsDone ==
  /\ Acting /\ server.todo = <<>>
  /\ server' = [server EXCEPT !.at = IF server.fatal THEN "close" ELSE "recv"]
  /\ UNCHANGED <<wire, backlog, failures, events, session, io, job, node, graph, refused>>

CatalogRequested ==
  /\ Acting /\ server.todo # <<>> /\ Action.type = "catalogRequest"
  /\ JobOf("server", [NoJob EXCEPT !.at = "read", !.type = "catalog"])
  /\ Done
  /\ UNCHANGED <<wire, backlog, failures, events, session, io, node, graph, refused>>

(* subscribeTopic(): not without the topic, and no two types of one topic. *)
Subscribable(k) ==
  /\ k \in graph
  /\ \A active \in node.subscriptions : TopicOf[active] = TopicOf[k] => active = k

SubscribeTopic ==
  /\ Acting /\ server.todo # <<>> /\ Action.type = "subscribe"
  /\ IF Subscribable(Action.arg)
       THEN /\ node' = [node EXCEPT !.subscriptions = @ \cup {Action.arg}]
            /\ refused' = refused \ {Action.arg}
            /\ UNCHANGED job
       ELSE /\ JobOf("server", [NoJob EXCEPT !.at = "want", !.type = "error"])
            /\ refused' = refused \cup ({Action.arg} \ node.subscriptions)
            /\ UNCHANGED node
  /\ Done
  /\ UNCHANGED <<wire, backlog, failures, events, session, io, graph>>

UnsubscribeTopic ==
  /\ Acting /\ server.todo # <<>> /\ Action.type = "unsubscribe"
  /\ IF Action.arg \in node.subscriptions
       THEN node' = [node EXCEPT !.subscriptions = @ \ {Action.arg}] /\ UNCHANGED job
       ELSE /\ JobOf("server", [NoJob EXCEPT !.at = "want", !.type = "error"])
            /\ UNCHANGED node
  /\ refused' = refused \ {Action.arg}
  /\ Done
  /\ UNCHANGED <<wire, backlog, failures, events, session, io, graph>>
-----------------------------------------------------------------------------
(* The callbacks of the node. *)

ClientReady == server.client # 0 /\ session.state = "ready"
Called(j) ==
  /\ job["ros"].at = "none"
  /\ JobOf("ros", j)
  /\ UNCHANGED <<wire, backlog, failures, server, session, io, node, graph, refused>>

RefreshGraph ==
  /\ Happens /\ ClientReady
  /\ Called([NoJob EXCEPT !.at = "read", !.type = "catalog"])

Heartbeat ==
  /\ Happens /\ ClientReady
  /\ Called([NoJob EXCEPT !.at = "want", !.type = "ping"])

HandleSerializedMessage(k) ==
  /\ Happens /\ k \in node.subscriptions
  /\ Called([NoJob EXCEPT !.at = "want", !.type = "sample", !.arg = k])

(* A topic appears in ROS or disappears. *)
GraphChanges(k) ==
  /\ Happens
  /\ graph' = IF k \in graph THEN graph \ {k} ELSE graph \cup {k}
  /\ UNCHANGED <<wire, backlog, failures, server, session, io, job, node, refused>>

-----------------------------------------------------------------------------
(* The steps of a publication by thread t. *)

(* buildCatalog(): the graph is read with no lock held ... *)
ReadGraph(t) ==
  /\ job[t].at = "read"
  /\ JobOf(t, [job[t] EXCEPT !.at = "stamp", !.seen = graph])
  /\ UNCHANGED <<wire, backlog, failures, events, server, session, io, node, graph, refused>>

(* ... and numbered under catalogMutex_; refreshGraph() only publishes a new number. *)
StampCatalog(t) ==
  /\ job[t].at = "stamp"
  /\ LET new == node.revision = 0 \/ job[t].seen # node.signature
         revision == IF new THEN node.revision + 1 ELSE node.revision
     IN /\ node' = [node EXCEPT !.revision = revision, !.signature = job[t].seen]
        /\ JobOf(t, IF t = "ros" /\ revision = node.lastSent THEN NoJob
                    ELSE [NoJob EXCEPT !.at = IF t = "server" THEN "store" ELSE "want",
                                       !.type = "catalog", !.arg = revision])
  /\ UNCHANGED <<wire, backlog, failures, events, server, session, io, graph, refused>>

(* The request's callback stores the number before it is sent, refreshGraph() after. *)
StoreRevision(t) ==
  /\ job[t].at = "store"
  /\ node' = [node EXCEPT !.lastSent = job[t].arg]
  /\ JobOf(t, IF t = "server" THEN [job[t] EXCEPT !.at = "want"] ELSE NoJob)
  /\ UNCHANGED <<wire, backlog, failures, events, server, session, io, graph, refused>>

(* A catalog is followed by its field catalog; here they are one frame with two numbers. *)
Width(type) == IF type = "catalog" THEN 2 ELSE 1

(* publishCatalog(), publishSample(), publishError(), publishPing(): the frame is made *)
(* and numbered under sessionIoMutex_, unless the session is not ready.                *)
MakeFrame(t) ==
  /\ job[t].at = "want" /\ IoFree
  /\ IF session.state = "ready"
       THEN /\ io' = t
            /\ session' = [session EXCEPT !.outbound = @ + Width(job[t].type)]
            /\ JobOf(t, [job[t] EXCEPT !.at = "send", !.seq = session.outbound])
       ELSE /\ JobOf(t, NoJob)
            /\ UNCHANGED <<io, session>>
  /\ UNCHANGED <<wire, backlog, failures, events, server, node, graph, refused>>

(* Sent, or not: the client is closed, its connection is down or takes too long.  What *)
(* a timeout leaves of a frame fails its checksum, and the client's decoder skips it.   *)
SendFrame(t) ==
  /\ job[t].at = "send"
  /\ io' = "free"
  /\ \/ /\ server.client # 0
        /\ wire' = Delivered(<< [type |-> job[t].type, seq |-> job[t].seq,
                                 arg |-> job[t].arg] >>)
        /\ JobOf(t, IF t = "ros" /\ job[t].type = "catalog"
                      THEN [job[t] EXCEPT !.at = "store"] ELSE NoJob)
        /\ UNCHANGED failures
     \/ /\ JobOf(t, NoJob)
        /\ IF server.client = 0 \/ ~wire[server.client].up THEN UNCHANGED failures ELSE Fails
        /\ UNCHANGED wire
  /\ UNCHANGED <<backlog, events, server, session, node, graph, refused>>

ServerThread ==
  \/ Accept
  \/ \E sent \in BOOLEAN :
       \/ SayHello(sent)
       \/ server.client # 0
            /\ \E n \in 1..Len(wire[server.client].toServer) : Receive(n, sent)
  \/ ClientGone \/ CloseClient \/ ResetSession \/ ClearSubscriptions
  \/ ActionsDone \/ CatalogRequested \/ SubscribeTopic \/ UnsubscribeTopic

Publication(t) ==
  ReadGraph(t) \/ StampCatalog(t) \/ StoreRevision(t) \/ MakeFrame(t) \/ SendFrame(t)

ServerStep ==
  \/ ServerThread \/ AcceptFails
  \/ RefreshGraph \/ Heartbeat
  \/ \E k \in Keys : HandleSerializedMessage(k) \/ GraphChanges(k)
  \/ \E t \in Threads : Publication(t)

ServerFairness ==
  /\ WF_<<wire, backlog, server, session, job, node>>(ServerThread)
  /\ \A t \in Threads : WF_<<io, job>>(Publication(t))
==============================================================================
