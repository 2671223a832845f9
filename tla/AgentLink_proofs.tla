-------------------------- MODULE AgentLink_proofs --------------------------
(***************************************************************************)
(* What is promised of a remote agent and its client for any subscriptions *)
(* and any number of connections, failures and events.                     *)
(***************************************************************************)
EXTENDS AgentLink, WellFoundedInduction, FiniteSetTheorems, TLAPS

-----------------------------------------------------------------------------
(* Induction, with the set of the numbers for which a statement holds. *)

LEMMA LeastMember ==
  ASSUME NEW S \in SUBSET Nat, S # {}
  PROVE  \E m \in S : \A k \in S : m <= k
<1>1. \E m \in S : \A k \in S : ~(<<k, m>> \in OpToRel(<, Nat))
  BY WFMin, NatLessThanWellFounded, Zenon
<1>2. PICK m \in S : \A k \in S : ~(<<k, m>> \in OpToRel(<, Nat))
  BY <1>1
<1>3. \A k \in S : ~(k < m)
  BY <1>2, Zenon DEF OpToRel
<1>. QED
  BY <1>3, SMT

LEMMA Induction ==
  ASSUME NEW S \in SUBSET Nat, 0 \in S, \A n \in S : n + 1 \in S
  PROVE  \A n \in Nat : n \in S
<1>. SUFFICES ASSUME Nat \ S # {} PROVE FALSE
  OBVIOUS
<1>1. PICK m \in Nat \ S : \A k \in Nat \ S : m <= k
  BY LeastMember
<1>2. m - 1 \in S
  BY <1>1
<1>. QED
  BY <1>1, <1>2

-----------------------------------------------------------------------------
(* What a session makes of the frames it is given. *)

Start(s) == [session |-> s, send |-> <<>>, todo |-> <<>>]

(* The results after every one of n frames: the last of them is Handled. *)
Results(after, s, frames, n) ==
  /\ after[0] = Start(s)
  /\ \A i \in 1..n : after[i] = Agent!Consumed(after[i - 1], frames[i])
  /\ Agent!Handled(s, frames, n) = after[n]

LEMMA HandledByFrame ==
  ASSUME NEW s, NEW frames, NEW n \in Nat
  PROVE  \E after : Results(after, s, frames, n)
<1>. DEFINE Is(f, m) == f = [i \in 0..m |-> IF i = 0 THEN Start(s)
                                           ELSE Agent!Consumed(f[i - 1], frames[i])]
            S == {m \in Nat : \E f : Is(f, m)}
<1>1. 0 \in S
  <2>. DEFINE f == [i \in 0..0 |-> Start(s)]
  <2>1. Is(f, 0)
    OBVIOUS
  <2>. QED
    BY <2>1
<1>2. ASSUME NEW m \in S PROVE m + 1 \in S
  <2>1. PICK f : Is(f, m)
    OBVIOUS
  <2>. DEFINE g == [i \in 0..(m + 1) |-> IF i <= m THEN f[i]
                                         ELSE Agent!Consumed(f[m], frames[m + 1])]
  <2>2. \A i \in 0..(m + 1) : g[i] = IF i = 0 THEN Start(s)
                                     ELSE Agent!Consumed(g[i - 1], frames[i])
    BY <2>1
  <2>3. Is(g, m + 1)
    BY <2>2
  <2>. HIDE DEF g, Is
  <2>. QED
    BY <2>3
<1>3. n \in S
  <2>. HIDE DEF S
  <2>1. S \in SUBSET Nat
    BY DEF S
  <2>. QED
    BY <1>1, <1>2, <2>1, Induction
<1>. DEFINE after == CHOOSE f : Is(f, n)
<1>4. Is(after, n)
  BY <1>3
<1>5. Agent!Handled(s, frames, n) = after[n]
  BY DEF Agent!Handled, Start
<1>. HIDE DEF after
<1>6. /\ after[0] = Start(s)
      /\ \A i \in 1..n : after[i] = Agent!Consumed(after[i - 1], frames[i])
  BY <1>4
<1>. QED
  BY <1>5, <1>6 DEF Results

-----------------------------------------------------------------------------
(* Frames on their way. *)

FromClient == {"catalogRequest", "subscribe", "unsubscribe", "ping", "pong"}
FromAgent == {"catalog", "sample", "error", "ping", "pong"}

(* What a receiver that has seen the number last accepts: numbers that grow, and an *)
(* opening frame first unless it has been received.                                 *)
Stream(frames, last, opening, open, types) ==
  /\ \A i \in DOMAIN frames :
       /\ frames[i].seq > last
       /\ frames[i].type \in IF i = 1 /\ ~open THEN {opening} ELSE types
  /\ \A i, j \in DOMAIN frames : i < j => frames[i].seq < frames[j].seq

Below(frames, n) == \A i \in DOMAIN frames : frames[i].seq < n

(* Frames of some types, numbered from first on and below n. *)
Numbered(frames, first, n, types) ==
  /\ \A i \in DOMAIN frames : frames[i].seq >= first /\ frames[i].seq < n /\ frames[i].type \in types
  /\ \A i, j \in DOMAIN frames : i < j => frames[i].seq < frames[j].seq

LEMMA StreamGrows ==
  ASSUME NEW frames \in Seq(Client!Frame), NEW more \in Seq(Client!Frame),
         NEW last \in Int, NEW opening, NEW open \in BOOLEAN, NEW types,
         NEW first \in Nat, NEW n \in Nat,
         Stream(frames, last, opening, open, types), Below(frames, first), last < first,
         Numbered(more, first, n, types), open \/ frames # <<>> \/ more = <<>>
  PROVE  Stream(frames \o more, last, opening, open, types)
<1>. DEFINE s == frames \o more
<1>1. /\ s \in Seq(Client!Frame) /\ Len(s) = Len(frames) + Len(more)
      /\ \A i \in 1..Len(s) : s[i] = IF i <= Len(frames) THEN frames[i] ELSE more[i - Len(frames)]
  OBVIOUS
<1>2. /\ DOMAIN frames = 1..Len(frames) /\ DOMAIN more = 1..Len(more) /\ DOMAIN s = 1..Len(s)
      /\ Len(frames) \in Nat /\ Len(more) \in Nat
      /\ frames # <<>> => Len(frames) > 0
      /\ \A i \in DOMAIN frames : frames[i].seq \in Nat
      /\ \A i \in DOMAIN more : more[i].seq \in Nat
  BY <1>1 DEF Client!Frame, Client!FrameTypes
<1>. HIDE DEF s
<1>3. ASSUME NEW i \in DOMAIN s
      PROVE s[i].seq > last /\ s[i].type \in IF i = 1 /\ ~open THEN {opening} ELSE types
  <2>1. CASE i <= Len(frames)
    BY <1>1, <1>2, <2>1 DEF Stream
  <2>2. CASE i > Len(frames)
    <3>1. i - Len(frames) \in DOMAIN more /\ s[i] = more[i - Len(frames)]
      BY <1>1, <1>2, <2>2
    <3>2. ~(i = 1 /\ ~open)
      BY <1>2, <2>2, <3>1
    <3>. QED
      BY <1>2, <3>1, <3>2 DEF Numbered
  <2>. QED
    BY <1>2, <2>1, <2>2
<1>4. ASSUME NEW i \in DOMAIN s, NEW j \in DOMAIN s, i < j
      PROVE s[i].seq < s[j].seq
  <2>1. CASE j <= Len(frames)
    BY <1>1, <1>2, <1>4, <2>1 DEF Stream
  <2>2. CASE i <= Len(frames) /\ j > Len(frames)
    <3>1. s[i].seq < first
      BY <1>1, <1>2, <2>2 DEF Below
    <3>2. j - Len(frames) \in DOMAIN more /\ s[j] = more[j - Len(frames)]
      BY <1>1, <1>2, <2>2
    <3>3. s[j].seq >= first
      BY <3>2 DEF Numbered
    <3>. QED
      BY <1>1, <1>2, <2>2, <3>1, <3>2, <3>3
  <2>3. CASE i > Len(frames)
    <3>1. i - Len(frames) \in DOMAIN more /\ s[i] = more[i - Len(frames)]
      <4>1. i \in 1..Len(s) /\ ~(i <= Len(frames))
        BY <1>2, <2>3
      <4>2. s[i] = more[i - Len(frames)]
        BY <1>1, <4>1
      <4>. QED
        BY <1>1, <1>2, <4>1, <4>2
    <3>2. j > Len(frames) /\ i - Len(frames) < j - Len(frames)
      BY <1>2, <1>4, <2>3
    <3>3. j - Len(frames) \in DOMAIN more /\ s[j] = more[j - Len(frames)]
      BY <1>1, <1>2, <3>2
    <3>. QED
      BY <3>1, <3>2, <3>3 DEF Numbered
  <2>. QED
    BY <1>2, <2>1, <2>2, <2>3
<1>. QED
  BY <1>3, <1>4 DEF Stream, s

LEMMA BelowGrows ==
  ASSUME NEW frames \in Seq(Client!Frame), NEW more \in Seq(Client!Frame), NEW types,
         NEW first \in Nat, NEW n \in Nat, first <= n,
         Below(frames, first), Numbered(more, first, n, types)
  PROVE  Below(frames \o more, n)
<1>. DEFINE s == frames \o more
<1>1. /\ Len(s) = Len(frames) + Len(more) /\ DOMAIN s = 1..Len(s)
      /\ \A i \in 1..Len(s) : s[i] = IF i <= Len(frames) THEN frames[i] ELSE more[i - Len(frames)]
      /\ Len(frames) \in Nat /\ Len(more) \in Nat
      /\ DOMAIN frames = 1..Len(frames) /\ DOMAIN more = 1..Len(more)
      /\ \A i \in DOMAIN frames : frames[i].seq \in Nat
  BY DEF Client!Frame, Client!FrameTypes
<1>. HIDE DEF s
<1>2. ASSUME NEW i \in DOMAIN s PROVE s[i].seq < n
  <2>1. CASE i <= Len(frames)
    BY <1>1, <2>1 DEF Below
  <2>2. CASE i > Len(frames)
    <3>1. i - Len(frames) \in DOMAIN more /\ s[i] = more[i - Len(frames)]
      BY <1>1, <2>2
    <3>. QED
      BY <3>1 DEF Numbered
  <2>. QED
    BY <1>1, <2>1, <2>2
<1>. QED
  BY <1>2 DEF Below, s

(* The frames that are left when the first n of them have been taken. *)
LEMMA StreamShrinks ==
  ASSUME NEW frames \in Seq(Client!Frame), NEW n \in 1..Len(frames),
         NEW last, NEW opening, NEW open, NEW types,
         Stream(frames, last, opening, open, types)
  PROVE  LET rest == SubSeq(frames, n + 1, Len(frames))
         IN /\ Stream(rest, frames[n].seq, opening, TRUE, types)
            /\ \A m : Below(frames, m) => Below(rest, m)
<1>. DEFINE rest == SubSeq(frames, n + 1, Len(frames))
<1>1. /\ Len(frames) \in Nat /\ n \in Nat /\ n > 0 /\ n <= Len(frames)
      /\ DOMAIN frames = 1..Len(frames)
  OBVIOUS
<1>2. DOMAIN rest = 1..(Len(frames) - n)
  OBVIOUS
<1>3. ASSUME NEW i \in 1..(Len(frames) - n)
      PROVE  rest[i] = frames[n + i] /\ n + i \in DOMAIN frames /\ n + i # 1 /\ n + i > n
  <2>1. n + i \in 1..Len(frames) /\ n + i # 1 /\ n + i > n
    BY <1>1
  <2>2. rest[i] = frames[n + i]
    BY <1>1
  <2>. QED
    BY <1>1, <2>1, <2>2
<1>. HIDE DEF rest
<1>4. ASSUME NEW i \in DOMAIN rest
      PROVE rest[i].seq > frames[n].seq /\ rest[i].type \in types
  BY <1>1, <1>2, <1>3 DEF Stream
<1>5. ASSUME NEW i \in DOMAIN rest, NEW j \in DOMAIN rest, i < j
      PROVE rest[i].seq < rest[j].seq
  <2>1. n + i < n + j
    BY <1>1, <1>2, <1>5
  <2>. QED
    BY <1>2, <1>3, <2>1 DEF Stream
<1>6. Stream(rest, frames[n].seq, opening, TRUE, types)
  BY <1>4, <1>5 DEF Stream
<1>7. \A m : Below(frames, m) => Below(rest, m)
  BY <1>2, <1>3 DEF Below
<1>. QED
  BY <1>6, <1>7 DEF rest

-----------------------------------------------------------------------------
(* What consume() returns. *)

Result == [session : Agent!SessionType, send : Seq(Client!Frame), todo : Seq(Agent!Request)]

LEMMA SessionSteps ==
  ASSUME NEW s \in Agent!SessionType
  PROVE  /\ s.outbound \in Nat
         /\ [s EXCEPT !.outbound = @ + 1] \in Agent!SessionType
         /\ [s EXCEPT !.state = "error"] \in Agent!SessionType
         /\ \A seq \in Nat : /\ [s EXCEPT !.lastInbound = seq] \in Agent!SessionType
                             /\ [s EXCEPT !.lastInbound = seq, !.state = "ready"] \in Agent!SessionType
<1>1. s.outbound \in Nat
  BY DEF Agent!SessionType
<1>2. [s EXCEPT !.outbound = @ + 1] \in Agent!SessionType
  BY DEF Agent!SessionType
<1>3. [s EXCEPT !.state = "error"] \in Agent!SessionType
  BY DEF Agent!SessionType
<1>4. ASSUME NEW seq \in Nat PROVE [s EXCEPT !.lastInbound = seq] \in Agent!SessionType
  BY DEF Agent!SessionType
<1>5. ASSUME NEW seq \in Nat
      PROVE [s EXCEPT !.lastInbound = seq, !.state = "ready"] \in Agent!SessionType
  BY DEF Agent!SessionType
<1>. QED
  BY <1>1, <1>2, <1>3, <1>4, <1>5

LEMMA AnsweredType ==
  ASSUME NEW r \in Result, NEW type \in {"error", "pong"}, NEW arg \in Nat
  PROVE  Agent!Answered(r, type, arg) \in Result
<1>. DEFINE f == [type |-> type, seq |-> r.session.outbound, arg |-> arg]
<1>1. r.session \in Agent!SessionType /\ r.send \in Seq(Client!Frame)
  BY DEF Result
<1>2. f \in Client!Frame
  BY <1>1, SessionSteps DEF Client!Frame, Client!FrameTypes
<1>3. Agent!Answered(r, type, arg)
        = [r EXCEPT !.session = [r.session EXCEPT !.outbound = @ + 1], !.send = Append(@, f)]
  BY DEF Agent!Answered, Result
<1>4. [r.session EXCEPT !.outbound = @ + 1] \in Agent!SessionType
  BY <1>1, SessionSteps
<1>. HIDE DEF f
<1>5. Append(r.send, f) \in Seq(Client!Frame)
  BY <1>1, <1>2
<1>. QED
  BY <1>3, <1>4, <1>5 DEF Result

LEMMA ConsumedType ==
  ASSUME NEW r \in Result, NEW f \in Client!Frame
  PROVE  Agent!Consumed(r, f) \in Result
<1>. DEFINE seen == [r EXCEPT !.session = [r.session EXCEPT !.lastInbound = f.seq]]
<1>1. r.session \in Agent!SessionType /\ f.seq \in Nat
  BY DEF Result, Client!Frame
<1>2. seen \in Result
  BY <1>1, SessionSteps DEF Result
<1>3. CASE r.session.state = "error"
  BY <1>3 DEF Agent!Consumed
<1>4. CASE r.session.state # "error" /\ ~Agent!Allowed(r.session, f)
  <2>1. [r EXCEPT !.session = [r.session EXCEPT !.state = "error"]] \in Result
    BY <1>1, SessionSteps DEF Result
  <2>2. Agent!Consumed(r, f)
          = Agent!Answered([r EXCEPT !.session = [r.session EXCEPT !.state = "error"]], "error", 0)
    BY <1>4 DEF Agent!Consumed, Result
  <2>. QED
    BY <2>1, <2>2, AnsweredType
<1>5. CASE r.session.state # "error" /\ Agent!Allowed(r.session, f)
  <2>1. f.type \in {"helloAck", "catalogRequest", "subscribe", "unsubscribe", "ping", "pong"}
    BY <1>5 DEF Agent!Allowed
  <2>2. CASE f.type = "helloAck"
    <3>1. Agent!Consumed(r, f) = [r EXCEPT !.session = [r.session EXCEPT !.lastInbound = f.seq,
                                                                         !.state = "ready"]]
      BY <1>5, <2>2 DEF Agent!Consumed, Result, Agent!SessionType
    <3>. QED
      BY <1>1, <3>1, SessionSteps DEF Result
  <2>3. CASE f.type = "ping"
    <3>1. Agent!Consumed(r, f) = Agent!Answered(seen, "pong", f.arg)
      BY <1>5, <2>3 DEF Agent!Consumed, Result
    <3>2. f.arg \in Nat
      BY <2>3 DEF Client!Frame, Client!FrameTypes
    <3>. HIDE DEF seen
    <3>. QED
      BY <1>2, <3>1, <3>2, AnsweredType
  <2>4. CASE f.type = "pong"
    <3>1. Agent!Consumed(r, f) = seen
      BY <1>5, <2>4 DEF Agent!Consumed, Result
    <3>. QED
      BY <1>2, <3>1
  <2>5. CASE f.type \in {"catalogRequest", "subscribe", "unsubscribe"}
    <3>. DEFINE a == [type |-> f.type, arg |-> f.arg]
    <3>1. a \in Agent!Request
      BY <2>5 DEF Client!Frame, Client!FrameTypes, Agent!Request
    <3>2. Agent!Consumed(r, f) = [seen EXCEPT !.todo = Append(@, a)]
      BY <1>5, <2>5 DEF Agent!Consumed, Result
    <3>. HIDE DEF seen, a
    <3>3. Append(seen.todo, a) \in Seq(Agent!Request)
      BY <1>2, <3>1 DEF Result
    <3>. QED
      BY <1>2, <3>2, <3>3 DEF Result
  <2>. QED
    BY <2>1, <2>2, <2>3, <2>4, <2>5
<1>. QED
  BY <1>3, <1>4, <1>5

LEMMA WithSession ==
  ASSUME NEW r \in Result, NEW s
  PROVE  LET q == [r EXCEPT !.session = s]
         IN /\ q.session = s /\ q.send = r.send /\ q.todo = r.todo
            /\ q = [session |-> q.session, send |-> q.send, todo |-> q.todo]
<1>1. r = [session |-> r.session, send |-> r.send, todo |-> r.todo]
  BY DEF Result
<1>2. [r EXCEPT !.session = s] = [session |-> s, send |-> r.send, todo |-> r.todo]
  BY <1>1
<1>. QED
  BY <1>2

(* A frame that is allowed is noted; a ping is answered, a request is put down. *)
LEMMA ConsumedAllowed ==
  ASSUME NEW r \in Result, NEW f \in Client!Frame, r.session.state # "error",
         Agent!Allowed(r.session, f), r.session.state # "ready" => f.type = "helloAck"
  PROVE  LET q == Agent!Consumed(r, f)
         IN /\ q.session.lastInbound = f.seq /\ q.session.state = "ready"
            /\ q.session.outbound = r.session.outbound + IF f.type = "ping" THEN 1 ELSE 0
            /\ q.send = IF f.type = "ping"
                 THEN Append(r.send, [type |-> "pong", seq |-> r.session.outbound, arg |-> f.arg])
                 ELSE r.send
            /\ q.todo = IF f.type \in {"catalogRequest", "subscribe", "unsubscribe"}
                 THEN Append(r.todo, [type |-> f.type, arg |-> f.arg]) ELSE r.todo
<1>. DEFINE seen == [r EXCEPT !.session = [r.session EXCEPT !.lastInbound = f.seq]]
<1>1. r.session \in Agent!SessionType /\ f.seq \in Nat /\ r.session.outbound \in Nat
  <2>1. r.session \in Agent!SessionType /\ f.seq \in Nat
    BY DEF Result, Client!Frame
  <2>. QED
    BY <2>1, SessionSteps
<1>2. /\ seen.session = [r.session EXCEPT !.lastInbound = f.seq]
      /\ seen.send = r.send /\ seen.todo = r.todo
      /\ seen = [session |-> seen.session, send |-> seen.send, todo |-> seen.todo]
  BY WithSession
<1>3. seen.session = [state |-> r.session.state, lastInbound |-> f.seq,
                      outbound |-> r.session.outbound]
  BY <1>1, <1>2 DEF Agent!SessionType
<1>4. f.type \in {"helloAck", "catalogRequest", "subscribe", "unsubscribe", "ping", "pong"}
  BY DEF Agent!Allowed
<1>5. CASE f.type = "helloAck"
  <2>1. Agent!Consumed(r, f) = [seen EXCEPT !.session = [seen.session EXCEPT !.state = "ready"]]
    BY <1>5 DEF Agent!Consumed, Result
  <2>. HIDE DEF seen
  <2>2. [seen.session EXCEPT !.state = "ready"]
           = [state |-> "ready", lastInbound |-> f.seq, outbound |-> r.session.outbound]
    BY <1>3
  <2>3. Agent!Consumed(r, f)
          = [session |-> [seen.session EXCEPT !.state = "ready"], send |-> r.send, todo |-> r.todo]
    BY <1>2, <2>1
  <2>. QED
    BY <1>1, <1>5, <2>2, <2>3
<1>6. CASE f.type = "ping"
  <2>1. Agent!Consumed(r, f) = Agent!Answered(seen, "pong", f.arg)
    BY <1>6 DEF Agent!Consumed, Result
  <2>. HIDE DEF seen
  <2>2. Agent!Consumed(r, f)
          = [session |-> [seen.session EXCEPT !.outbound = @ + 1],
             send |-> Append(r.send, [type |-> "pong", seq |-> seen.session.outbound, arg |-> f.arg]),
             todo |-> r.todo]
    BY <1>2, <2>1 DEF Agent!Answered
  <2>3. [seen.session EXCEPT !.outbound = @ + 1]
          = [state |-> r.session.state, lastInbound |-> f.seq, outbound |-> r.session.outbound + 1]
    BY <1>1, <1>3
  <2>4. seen.session.outbound = r.session.outbound
    BY <1>3
  <2>. HIDE DEF seen
  <2>5. r.session.state = "ready"
    BY <1>6
  <2>. QED
    BY <1>6, <2>2, <2>3, <2>4, <2>5
<1>7. CASE f.type = "pong"
  <2>1. Agent!Consumed(r, f) = seen
    BY <1>7 DEF Agent!Consumed, Result
  <2>. QED
    BY <1>1, <1>2, <1>3, <1>7, <2>1
<1>8. CASE f.type \in {"catalogRequest", "subscribe", "unsubscribe"}
  <2>1. Agent!Consumed(r, f) = [seen EXCEPT !.todo = Append(@, [type |-> f.type, arg |-> f.arg])]
    BY <1>8 DEF Agent!Consumed, Result
  <2>. HIDE DEF seen
  <2>. QED
    BY <1>1, <1>2, <1>3, <1>8, <2>1
<1>. QED
  BY <1>4, <1>5, <1>6, <1>7, <1>8

LEMMA HandledType ==
  ASSUME NEW s \in Agent!SessionType, NEW frames \in Seq(Client!Frame),
         NEW n \in 0..Len(frames)
  PROVE  Agent!Handled(s, frames, n) \in Result
<1>0. PICK after : Results(after, s, frames, n)
  <2>1. n \in Nat
    OBVIOUS
  <2>. QED
    BY <2>1, HandledByFrame
<1>1. /\ after[0] = Start(s)
      /\ \A i \in 1..n : after[i] = Agent!Consumed(after[i - 1], frames[i])
      /\ Agent!Handled(s, frames, n) = after[n]
  BY <1>0 DEF Results
<1>. DEFINE S == {i \in Nat : i <= n => after[i] \in Result}
<1>2. 0 \in S
  <2>1. Start(s) \in Result
    BY DEF Start, Result
  <2>. QED
    BY <1>1, <2>1
<1>3. ASSUME NEW i \in S PROVE i + 1 \in S
  <2>. SUFFICES ASSUME i + 1 <= n PROVE after[i + 1] \in Result
    OBVIOUS
  <2>1. after[i] \in Result /\ i + 1 \in 1..n /\ frames[i + 1] \in Client!Frame
    OBVIOUS
  <2>2. after[i + 1] = Agent!Consumed(after[i], frames[i + 1])
    BY <1>1, <2>1
  <2>. QED
    BY <2>1, <2>2, ConsumedType
<1>4. n \in S
  <2>1. S \in SUBSET Nat
    OBVIOUS
  <2>. HIDE DEF S
  <2>. QED
    BY <1>2, <1>3, <2>1, Induction
<1>. QED
  BY <1>1, <1>4

(* A session that is served the stream of a client has no reason to complain, and   *)
(* answers with numbers of its own.                                                 *)
LEMMA HandledStream ==
  ASSUME NEW s \in Agent!SessionType, NEW frames \in Seq(Client!Frame),
         NEW n \in 1..Len(frames), s.state \in {"awaitingHelloAck", "ready"},
         Stream(frames, s.lastInbound, "helloAck", s.state = "ready", FromClient)
  PROVE  LET r == Agent!Handled(s, frames, n)
         IN /\ r.session.state = "ready"
            /\ r.session.lastInbound = frames[n].seq
            /\ r.session.outbound >= s.outbound
            /\ Numbered(r.send, s.outbound, r.session.outbound, {"pong"})
<1>0. PICK after : Results(after, s, frames, n)
  <2>1. n \in Nat
    OBVIOUS
  <2>. QED
    BY <2>1, HandledByFrame
<1>1. /\ after[0] = Start(s)
      /\ \A i \in 1..n : after[i] = Agent!Consumed(after[i - 1], frames[i])
      /\ Agent!Handled(s, frames, n) = after[n]
  BY <1>0 DEF Results
<1>. DEFINE OK(r, i) ==
       /\ r \in Result
       /\ IF i = 0 THEN r.session.state = s.state /\ r.session.lastInbound = s.lastInbound
                   ELSE r.session.state = "ready" /\ r.session.lastInbound = frames[i].seq
       /\ r.session.outbound >= s.outbound
       /\ Numbered(r.send, s.outbound, r.session.outbound, {"pong"})
<1>2. OK(after[0], 0)
  BY <1>1 DEF Start, Result, Numbered, Agent!SessionType
<1>3. ASSUME NEW i \in Nat, i + 1 <= n, OK(after[i], i) PROVE OK(after[i + 1], i + 1)
  <2>. DEFINE r == after[i]
              f == frames[i + 1]
              q == Agent!Consumed(r, f)
              seen == [r EXCEPT !.session.lastInbound = f.seq]
  <2>1. i + 1 \in 1..n /\ i + 1 \in DOMAIN frames /\ f \in Client!Frame /\ after[i + 1] = q
    BY <1>1, <1>3
  <2>2. q \in Result
    BY <1>3, <2>1, ConsumedType
  <2>3. r.session.lastInbound = -1 \/ f.seq > r.session.lastInbound
    BY <1>3, <2>1 DEF Stream
  <2>4. f.type \in IF i = 0 /\ s.state # "ready" THEN {"helloAck"} ELSE FromClient
    BY <2>1 DEF Stream
  <2>5. Agent!Allowed(r.session, f) /\ r.session.state # "error"
    BY <1>3, <2>3, <2>4 DEF Agent!Allowed, Agent!none, FromClient
  <2>6. r.session.state # "ready" => f.type = "helloAck"
    BY <1>3, <2>4
  <2>. HIDE DEF r, f
  <2>7. /\ q.session.lastInbound = f.seq /\ q.session.state = "ready"
        /\ q.session.outbound = r.session.outbound + IF f.type = "ping" THEN 1 ELSE 0
        /\ q.send = IF f.type = "ping"
             THEN Append(r.send, [type |-> "pong", seq |-> r.session.outbound, arg |-> f.arg])
             ELSE r.send
    <3>1. r \in Result /\ f \in Client!Frame
      BY <1>3, <2>1 DEF r, f
    <3>. QED
      BY <2>5, <2>6, <3>1, ConsumedAllowed
  <2>8. /\ r.session.outbound \in Nat /\ s.outbound \in Nat /\ r.send \in Seq(Client!Frame)
        /\ r.session.outbound >= s.outbound
        /\ Numbered(r.send, s.outbound, r.session.outbound, {"pong"})
    BY <1>3 DEF r, Result, Agent!SessionType
  <2>9. q.session.outbound >= s.outbound
    BY <2>7, <2>8
  <2>10. Numbered(q.send, s.outbound, q.session.outbound, {"pong"})
    <3>1. CASE f.type # "ping"
      BY <2>7, <2>8, <3>1
    <3>2. CASE f.type = "ping"
      <4>1. /\ DOMAIN q.send = 1..(Len(r.send) + 1) /\ DOMAIN r.send = 1..Len(r.send)
            /\ Len(r.send) \in Nat
            /\ \A k \in 1..Len(r.send) : q.send[k] = r.send[k]
            /\ q.send[Len(r.send) + 1]
                 = [type |-> "pong", seq |-> r.session.outbound, arg |-> f.arg]
        BY <2>7, <2>8, <3>2
      <4>2. \A k \in 1..Len(r.send) : r.send[k].seq \in Nat
        BY <2>8 DEF Client!Frame, Client!FrameTypes
      <4>3. q.session.outbound = r.session.outbound + 1
        BY <2>7, <3>2
      <4>4. ASSUME NEW k \in DOMAIN q.send
            PROVE /\ q.send[k].seq >= s.outbound /\ q.send[k].seq < q.session.outbound
                  /\ q.send[k].type = "pong"
        <5>1. CASE k \in 1..Len(r.send)
          <6>1. /\ r.send[k].seq >= s.outbound /\ r.send[k].seq < r.session.outbound
                /\ r.send[k].type = "pong"
            BY <2>8, <4>1, <5>1 DEF Numbered
          <6>2. q.send[k] = r.send[k]
            BY <4>1, <5>1
          <6>3. r.send[k].seq \in Nat
            BY <4>2, <5>1
          <6>. HIDE DEF q
          <6>. QED
            BY <2>8, <4>3, <6>1, <6>2, <6>3
        <5>2. CASE k = Len(r.send) + 1
          <6>1. q.send[k].seq = r.session.outbound /\ q.send[k].type = "pong"
            BY <4>1, <5>2
          <6>. HIDE DEF q
          <6>. QED
            BY <2>8, <4>3, <6>1
        <5>. QED
          BY <4>1, <5>1, <5>2
      <4>5. ASSUME NEW k \in DOMAIN q.send, NEW m \in DOMAIN q.send, k < m
            PROVE q.send[k].seq < q.send[m].seq
        <5>1. k \in 1..Len(r.send)
          BY <4>1, <4>5
        <5>2. CASE m \in 1..Len(r.send)
          BY <2>8, <4>1, <4>5, <5>1, <5>2 DEF Numbered
        <5>3. CASE m = Len(r.send) + 1
          BY <2>8, <4>1, <5>1, <5>3 DEF Numbered
        <5>. QED
          BY <4>1, <5>2, <5>3
      <4>. QED
        BY <4>4, <4>5 DEF Numbered
    <3>. QED
      BY <3>1, <3>2
  <2>. QED
    BY <2>1, <2>2, <2>7, <2>9, <2>10 DEF r, f
<1>. DEFINE S == {i \in Nat : i <= n => OK(after[i], i)}
<1>4. n \in S
  <2>. HIDE DEF OK
  <2>1. S \in SUBSET Nat /\ 0 \in S
    BY <1>2
  <2>2. \A i \in S : i + 1 \in S
    BY <1>3
  <2>. HIDE DEF S
  <2>. QED
    BY <2>1, <2>2, Induction
<1>. QED
  BY <1>1, <1>4

-----------------------------------------------------------------------------
(* The inductive invariant. *)

(* A socket that is connected belongs to an attempt that is wanted and not to be repeated. *)
ClientInv ==
  /\ Client!Connected =>
       /\ client.desiredOpen /\ ~client.reconnectTimer
       /\ client.state \in {"awaitingHello", "ready"}
       /\ connections # 0
  /\ client.state \in {"awaitingHello", "ready"} => Client!Connected
  /\ client.socket = "connecting" =>
       /\ client.desiredOpen /\ client.state = "disconnected" /\ ~client.reconnectTimer
       /\ client.lastInbound = Client!none
  /\ client.desiredOpen /\ client.autoReconnect => client.state # "error"
  /\ TimersMatchState
  /\ IsFiniteSet(client.desired)

Serving == {"recv", "act", "close"}

(* A frame that has its number is sent by the one thread that holds sessionIoMutex_, and *)
(* only to the client it was made for: between two clients no frame is under way.        *)
ServerInv ==
  /\ server.client # 0 <=> server.at \in Serving \cup {"hello"}
  /\ server.at \in {"accept", "hello", "forget", "ended"} =>
       session = Agent!IdleSession /\ io = "free"
  /\ server.at \in Serving \cup {"reset"} => session.state \in {"awaitingHelloAck", "ready"}
  /\ io # "free" =>
       job[io].at = "send" /\ job[io].seq < session.outbound /\ session.state = "ready"
  /\ \A t \in Agent!Threads :
       /\ job[t].at = "send" => io = t
       /\ job[t].at \in {"want", "send"} => job[t].type \in FromAgent
       /\ job[t].at = "store" => job[t].type = "catalog"

(* Connections are accepted in the order they were made; one that is up is served or waits. *)
QueueInv ==
  /\ server.client <= connections
  /\ \A i \in DOMAIN backlog : server.client < backlog[i] /\ backlog[i] <= connections
  /\ \A i, j \in DOMAIN backlog : i < j => backlog[i] < backlog[j]
  /\ \A c \in 1..MaxConnections :
       wire[c].up => c = server.client \/ \E i \in DOMAIN backlog : backlog[i] = c

(* A connection of which the agent has sent nothing yet. *)
Fresh(c) ==
  \/ c > connections
  \/ \E i \in DOMAIN backlog : backlog[i] = c
  \/ server.at = "hello" /\ server.client = c

(* The number the next frame of the agent will bear. *)
NextNumber == IF io = "free" THEN session.outbound ELSE job[io].seq

(* What is on its way to the agent continues what its session has seen. *)
ToAgentInv ==
  /\ \A c \in 1..MaxConnections :
       Fresh(c) => wire[c].toServer = <<>> /\ wire[c].toClient = <<>>
  /\ server.at \in Serving =>
       /\ Stream(wire[server.client].toServer, session.lastInbound, "helloAck",
                 session.state = "ready", FromClient)
       /\ Below(wire[server.client].toClient, NextNumber)

(* What is on its way to the client continues what it has seen. *)
ToClientInv ==
  Client!Connected =>
    /\ client.state = "awaitingHello" =>
         wire[connections].toServer = <<>> /\ client.lastInbound = Client!none
    /\ Fresh(connections) => client.state = "awaitingHello"
    /\ Stream(wire[connections].toClient, client.lastInbound, "hello", client.state = "ready",
              FromAgent)
    /\ Below(wire[connections].toServer, client.outbound)
    /\ client.state = "ready" /\ wire[connections].up =>
         session.state = "ready" \/ wire[connections].toServer # <<>>
    /\ server.at \in Serving /\ server.client = connections =>
         /\ session.lastInbound < client.outbound
         /\ client.lastInbound < NextNumber
         /\ client.state = "awaitingHello" => session.state = "awaitingHelloAck"

IInv == TypeOK /\ ClientInv /\ ServerInv /\ QueueInv /\ ToAgentInv /\ ToClientInv

-----------------------------------------------------------------------------
(* The client on its own. *)

LEMMA ExpectedInput ==
  ASSUME TypeOK, ClientInv, ToClientInv, Client!HasInput
  PROVE  /\ Client!Expected
         /\ Client!Input \in Client!Frame
         /\ Client!Input.seq > client.lastInbound
         /\ Client!Input.type = "hello" => client.state = "awaitingHello"
         /\ Client!Input.type # "hello" => client.state = "ready" /\ Client!Input.type \in FromAgent
<1>. DEFINE frames == wire[connections].toClient
            f == Client!Input
<1>1. connections \in 1..MaxConnections
  BY DEF TypeOK, ClientInv, Client!HasInput
<1>2. frames \in Seq(Client!Frame) /\ frames # <<>> /\ f = frames[1] /\ 1 \in DOMAIN frames
  BY <1>1 DEF TypeOK, Client!WireType, Client!HasInput, Client!Input
<1>3. f \in Client!Frame
  BY <1>2
<1>4. Stream(frames, client.lastInbound, "hello", client.state = "ready", FromAgent)
  BY DEF ToClientInv, Client!HasInput
<1>5. f.seq > client.lastInbound /\ f.type \in IF client.state # "ready" THEN {"hello"} ELSE FromAgent
  BY <1>2, <1>4 DEF Stream
<1>6. client.state \in {"awaitingHello", "ready"}
  BY DEF ClientInv, Client!HasInput
<1>. HIDE DEF frames, f
<1>. QED
  BY <1>3, <1>5, <1>6 DEF Client!Expected, Client!InOrder, FromAgent, f

LEMMA ClientFields ==
  ASSUME client \in Client!ClientType
  PROVE  /\ client = [state |-> client.state, desiredOpen |-> client.desiredOpen,
                    autoReconnect |-> client.autoReconnect, socket |-> client.socket,
                    handshakeTimer |-> client.handshakeTimer,
                    reconnectTimer |-> client.reconnectTimer,
                    lastInbound |-> client.lastInbound, outbound |-> client.outbound,
                    desired |-> client.desired, revision |-> client.revision]
         /\ client.state \in {"disconnected", "awaitingHello", "ready", "error"}
         /\ client.desiredOpen \in BOOLEAN /\ client.autoReconnect \in BOOLEAN
         /\ client.socket \in {"none", "connecting", "connected", "closed"}
         /\ client.handshakeTimer \in BOOLEAN /\ client.reconnectTimer \in BOOLEAN
         /\ client.lastInbound \in Nat \cup {-1} /\ client.outbound \in Nat
         /\ client.desired \in SUBSET Keys /\ client.revision \in Nat
  BY DEF Client!ClientType, Client!none

Message == {m \in Client!FrameTypes \X (Keys \cup Nat) :
              IF m[1] \in {"subscribe", "unsubscribe", "sample"} THEN m[2] \in Keys ELSE m[2] \in Nat}

LEMMA FramedMessages ==
  ASSUME NEW messages \in Seq(Message), NEW first \in Nat
  PROVE  LET frames == Client!Framed(messages, first)
         IN /\ frames \in Seq(Client!Frame)
            /\ DOMAIN frames = DOMAIN messages /\ DOMAIN messages = 1..Len(messages)
            /\ Len(frames) = Len(messages)
            /\ \A i \in 1..Len(messages) :
                 /\ frames[i].type = messages[i][1] /\ frames[i].arg = messages[i][2]
                 /\ frames[i].seq = first + i - 1
<1>. DEFINE frames == Client!Framed(messages, first)
            n == Len(messages)
<1>1. n \in Nat /\ DOMAIN messages = 1..n
  OBVIOUS
<1>2. frames = [i \in 1..n |-> [type |-> messages[i][1], seq |-> first + i - 1,
                               arg |-> messages[i][2]]]
  BY <1>1, Zenon DEF Client!Framed
<1>3. ASSUME NEW i \in 1..n
      PROVE  [type |-> messages[i][1], seq |-> first + i - 1, arg |-> messages[i][2]]
               \in Client!Frame
  <2>1. messages[i] \in Message
    BY <1>1
  <2>2. /\ messages[i][1] \in Client!FrameTypes /\ messages[i][2] \in Keys \cup Nat
        /\ IF messages[i][1] \in {"subscribe", "unsubscribe", "sample"}
             THEN messages[i][2] \in Keys ELSE messages[i][2] \in Nat
    BY <2>1 DEF Message
  <2>3. first + i - 1 \in Nat
    BY <1>1
  <2>. QED
    BY <2>2, <2>3 DEF Client!Frame
<1>. HIDE DEF frames, n
<1>4. frames \in [1..n -> Client!Frame]
  BY <1>2, <1>3
<1>5. frames \in Seq(Client!Frame) /\ Len(frames) = n
  BY <1>1, <1>4
<1>. QED
  BY <1>1, <1>2, <1>4, <1>5 DEF frames, n

LEMMA FramedNumbered ==
  ASSUME NEW messages \in Seq(Message), NEW first \in Nat, NEW types,
         \A i \in DOMAIN messages : messages[i][1] \in types
  PROVE  Numbered(Client!Framed(messages, first), first, first + Len(messages), types)
<1>. DEFINE frames == Client!Framed(messages, first)
<1>1. /\ DOMAIN frames = 1..Len(messages) /\ DOMAIN messages = 1..Len(messages)
      /\ \A i \in 1..Len(messages) :
           frames[i].type = messages[i][1] /\ frames[i].seq = first + i - 1
  BY FramedMessages
<1>2. Len(messages) \in Nat
  OBVIOUS
<1>. HIDE DEF frames
<1>. QED
  BY <1>1, <1>2 DEF Numbered, frames

LEMMA FramedStream ==
  ASSUME NEW messages \in Seq(Message), NEW first \in Nat, NEW last \in Int, last < first,
         NEW opening, NEW types,
         \A i \in DOMAIN messages :
           messages[i][1] \in IF i = 1 THEN {opening} ELSE types
  PROVE  /\ Stream(Client!Framed(messages, first), last, opening, FALSE, types)
         /\ Below(Client!Framed(messages, first), first + Len(messages))
<1>. DEFINE frames == Client!Framed(messages, first)
<1>1. /\ DOMAIN frames = 1..Len(messages) /\ DOMAIN messages = 1..Len(messages)
      /\ \A i \in 1..Len(messages) :
           frames[i].type = messages[i][1] /\ frames[i].seq = first + i - 1
  BY FramedMessages
<1>2. Len(messages) \in Nat
  OBVIOUS
<1>. HIDE DEF frames
<1>3. Stream(frames, last, opening, FALSE, types)
  BY <1>1, <1>2 DEF Stream
<1>4. Below(frames, first + Len(messages))
  BY <1>1, <1>2 DEF Below
<1>. QED
  BY <1>3, <1>4 DEF frames

LEMMA Concatenation ==
  ASSUME NEW S, NEW a \in Seq(S), NEW b \in Seq(S)
  PROVE  /\ a \o b \in Seq(S) /\ Len(a \o b) = Len(a) + Len(b)
         /\ \A i \in 1..(Len(a) + Len(b)) :
              (a \o b)[i] = IF i <= Len(a) THEN a[i] ELSE b[i - Len(a)]
  OBVIOUS

LEMMA GreetingMessages ==
  ASSUME NEW desired \in SUBSET Keys, IsFiniteSet(desired), NEW order \in Client!SetToSeqs(desired)
  PROVE  /\ Client!Greeting(order) \in Seq(Message)
         /\ order \in Seq(desired)
         /\ Len(Client!Greeting(order)) = Len(order) + 3
         /\ Client!Greeting(order)[1] = <<"helloAck", 0>>
         /\ Client!Greeting(order)[2] = <<"catalogRequest", 0>>
         /\ \A i \in 1..Len(order) : Client!Greeting(order)[i + 2] = <<"subscribe", order[i]>>
         /\ Client!Greeting(order)[Len(order) + 3] = <<"ping", 0>>
<1>0. Client!Cardinality(desired) = Cardinality(desired)
  BY DEF Cardinality, Client!Cardinality
<1>1. order \in [1..Cardinality(desired) -> desired] /\ Cardinality(desired) \in Nat
  BY <1>0, FS_CardinalityType DEF Client!SetToSeqs
<1>2. order \in Seq(desired) /\ DOMAIN order = 1..Len(order) /\ Len(order) \in Nat
  BY <1>1
<1>. DEFINE subs == [i \in DOMAIN order |-> <<"subscribe", order[i]>>]
            two == << <<"helloAck", 0>>, <<"catalogRequest", 0>> >>
<1>3. \A k \in Keys : <<"subscribe", k>> \in Message
  BY DEF Message, Client!FrameTypes
<1>4. subs \in Seq(Message) /\ Len(subs) = Len(order)
  <2>1. \A i \in 1..Len(order) : order[i] \in Keys
    BY <1>2
  <2>2. subs \in [1..Len(order) -> Message]
    BY <1>2, <1>3, <2>1
  <2>. HIDE DEF subs
  <2>. QED
    BY <1>2, <2>2
<1>5. two \in Seq(Message) /\ Len(two) = 2 /\ <<"ping", 0>> \in Message
  <2>1. <<"helloAck", 0>> \in Message /\ <<"catalogRequest", 0>> \in Message
    BY DEF Message, Client!FrameTypes
  <2>2. <<"ping", 0>> \in Message
    BY DEF Message, Client!FrameTypes
  <2>. QED
    BY <2>1, <2>2
<1>6. \A i \in 1..Len(order) : subs[i] = <<"subscribe", order[i]>>
  BY <1>2
<1>7. two[1] = <<"helloAck", 0>> /\ two[2] = <<"catalogRequest", 0>>
  OBVIOUS
<1>8. Client!Greeting(order) = two \o subs \o << <<"ping", 0>> >>
  BY DEF Client!Greeting
<1>. HIDE DEF subs, two
<1>9. /\ two \o subs \in Seq(Message) /\ Len(two \o subs) = Len(order) + 2
      /\ (two \o subs)[1] = two[1] /\ (two \o subs)[2] = two[2]
      /\ \A i \in 1..Len(order) : (two \o subs)[i + 2] = subs[i]
  <2>1. two \o subs \in Seq(Message) /\ Len(two \o subs) = Len(order) + 2
    BY <1>2, <1>4, <1>5, Concatenation
  <2>2. \A j \in 1..(Len(order) + 2) :
          (two \o subs)[j] = IF j <= 2 THEN two[j] ELSE subs[j - 2]
    <3>1. \A j \in 1..(Len(two) + Len(subs)) :
            (two \o subs)[j] = IF j <= Len(two) THEN two[j] ELSE subs[j - Len(two)]
      <4>1. two \in Seq(Message) /\ subs \in Seq(Message)
        BY <1>4, <1>5
      <4>. QED
        BY <4>1, Concatenation
    <3>2. Len(two) = 2 /\ Len(subs) = Len(order) /\ Len(two) + Len(subs) = Len(order) + 2
      BY <1>2, <1>4, <1>5
    <3>. QED
      BY <3>1, <3>2
  <2>3. \A i \in 1..Len(order) : i + 2 \in 1..(Len(order) + 2) /\ ~(i + 2 <= 2) /\ i + 2 - 2 = i
    BY <1>2
  <2>4. 1 \in 1..(Len(order) + 2) /\ 2 \in 1..(Len(order) + 2)
    BY <1>2
  <2>. QED
    BY <2>1, <2>2, <2>3, <2>4
<1>. DEFINE both == two \o subs
<1>10. both \in Seq(Message) /\ Len(both) = Len(order) + 2 /\ Client!Greeting(order) = both \o << <<"ping", 0>> >>
  BY <1>8, <1>9
<1>11. /\ both[1] = two[1] /\ both[2] = two[2]
       /\ \A i \in 1..Len(order) : both[i + 2] = subs[i]
  BY <1>9
<1>. HIDE DEF both
<1>. DEFINE last == <<"ping", 0>>
<1>12. last \in Message
  BY <1>5
<1>. HIDE DEF last
<1>13. /\ both \o <<last>> \in Seq(Message) /\ Len(both \o <<last>>) = Len(order) + 3
       /\ \A i \in 1..(Len(order) + 2) : (both \o <<last>>)[i] = both[i]
       /\ (both \o <<last>>)[Len(order) + 3] = last
  BY <1>2, <1>10, <1>12
<1>14. Client!Greeting(order) = both \o <<last>>
  BY <1>10 DEF last
<1>15. /\ Client!Greeting(order)[1] = both[1] /\ Client!Greeting(order)[2] = both[2]
       /\ \A i \in 1..Len(order) : Client!Greeting(order)[i + 2] = both[i + 2]
  BY <1>2, <1>13, <1>14
<1>. QED
  BY <1>2, <1>6, <1>7, <1>11, <1>13, <1>14, <1>15 DEF last

LEMMA ReadFrameClient ==
  ASSUME TypeOK, ClientInv, ToClientInv, Client!ReadFrame
  PROVE  \E n \in Nat, last \in Nat, revision \in Nat :
           client' = [state |-> "ready", desiredOpen |-> client.desiredOpen,
                      autoReconnect |-> client.autoReconnect, socket |-> client.socket,
                      handshakeTimer |-> FALSE, reconnectTimer |-> client.reconnectTimer,
                      lastInbound |-> last, outbound |-> client.outbound + n,
                      desired |-> client.desired, revision |-> revision]
<1>1. /\ Client!Expected
      /\ Client!Input \in Client!Frame
      /\ Client!Input.type = "hello" => client.state = "awaitingHello"
      /\ Client!Input.type # "hello" => client.state = "ready"
  BY ExpectedInput DEF Client!ReadFrame
<1>2. Client!Input.seq \in Nat /\ (Client!Input.type = "catalog" => Client!Input.arg \in Nat)
  BY <1>1 DEF Client!Frame
<1>. DEFINE Built(n, last, revision) ==
       client' = [state |-> "ready", desiredOpen |-> client.desiredOpen,
                  autoReconnect |-> client.autoReconnect, socket |-> client.socket,
                  handshakeTimer |-> FALSE, reconnectTimer |-> client.reconnectTimer,
                  lastInbound |-> last, outbound |-> client.outbound + n,
                  desired |-> client.desired, revision |-> revision]
<1>3. CASE Client!AcceptHello
  <2>1. PICK order \in Client!SetToSeqs(client.desired) :
          Client!Answers([client EXCEPT !.handshakeTimer = FALSE, !.state = "ready"], Client!Greeting(order))
    BY <1>3 DEF Client!AcceptHello
  <2>2. Len(Client!Greeting(order)) \in Nat
    BY GreetingMessages, ClientFields DEF TypeOK, ClientInv
  <2>3. Built(Len(Client!Greeting(order)), Client!Input.seq, client.revision)
    BY <2>1, ClientFields DEF TypeOK, Client!Answers
  <2>. QED
    BY <1>2, <2>2, <2>3, ClientFields DEF TypeOK
<1>4. CASE Client!HandleFrame
  <2>0. client.state = "ready" /\ client.handshakeTimer = FALSE
    BY <1>1, <1>4, ClientFields DEF Client!HandleFrame, ClientInv, TimersMatchState, TypeOK
  <2>1. CASE Client!Input.type = "catalog"
    <3>1. Client!Answers([client EXCEPT !.revision = Client!Input.arg], <<>>)
      BY <1>4, <2>1 DEF Client!HandleFrame
    <3>2. Built(0, Client!Input.seq, Client!Input.arg)
      BY <2>0, <3>1, ClientFields DEF TypeOK, Client!Answers
    <3>. QED
      BY <1>2, <2>1, <3>2
  <2>2. CASE Client!Input.type \in {"sample", "error", "pong"}
    <3>1. Client!Answers(client, <<>>)
      BY <1>4, <2>2 DEF Client!HandleFrame
    <3>2. Built(0, Client!Input.seq, client.revision)
      BY <2>0, <3>1, ClientFields DEF TypeOK, Client!Answers
    <3>. QED
      BY <1>2, <3>2, ClientFields DEF TypeOK
  <2>3. CASE Client!Input.type = "ping"
    <3>1. Client!Answers(client, << <<"pong", Client!Input.arg>> >>)
      BY <1>4, <2>3 DEF Client!HandleFrame
    <3>2. Built(1, Client!Input.seq, client.revision)
      BY <2>0, <3>1, ClientFields DEF TypeOK, Client!Answers
    <3>. QED
      BY <1>2, <3>2, ClientFields DEF TypeOK
  <2>. QED
    BY <1>4, <2>1, <2>2, <2>3 DEF Client!HandleFrame
<1>. QED
  BY <1>1, <1>3, <1>4 DEF Client!ReadFrame

LEMMA ClientRemains ==
  ASSUME TypeOK, ClientInv, ToClientInv, Client!ClientStep
  PROVE  client' \in Client!ClientType /\ connections' \in 0..MaxConnections /\ ClientInv'
<1>0. /\ client = [state |-> client.state, desiredOpen |-> client.desiredOpen,
                 autoReconnect |-> client.autoReconnect, socket |-> client.socket,
                 handshakeTimer |-> client.handshakeTimer,
                 reconnectTimer |-> client.reconnectTimer,
                 lastInbound |-> client.lastInbound, outbound |-> client.outbound,
                 desired |-> client.desired, revision |-> client.revision]
      /\ client.state \in {"disconnected", "awaitingHello", "ready", "error"}
      /\ client.desiredOpen \in BOOLEAN /\ client.autoReconnect \in BOOLEAN
      /\ client.socket \in {"none", "connecting", "connected", "closed"}
      /\ client.handshakeTimer \in BOOLEAN /\ client.reconnectTimer \in BOOLEAN
      /\ client.lastInbound \in Nat \cup {-1} /\ client.outbound \in Nat
      /\ client.desired \in SUBSET Keys /\ client.revision \in Nat
      /\ connections \in Nat /\ connections \in 0..MaxConnections
  BY ClientFields DEF TypeOK
<1>. DEFINE Kept == client' \in Client!ClientType /\ connections' \in 0..MaxConnections /\ ClientInv'
<1>1. ASSUME NEW valid \in BOOLEAN, NEW auto \in BOOLEAN, Client!Open(valid, auto)
      PROVE  Kept
  <2>1. CASE valid
    <3>1. client' = [state |-> "disconnected", desiredOpen |-> TRUE, autoReconnect |-> auto,
                    socket |-> "connecting", handshakeTimer |-> FALSE,
                    reconnectTimer |-> FALSE, lastInbound |-> -1, outbound |-> 0,
                    desired |-> client.desired, revision |-> client.revision]
      BY <1>0, <1>1, <2>1 DEF Client!Open, Client!EndpointClosed, Client!ConnectionStarted, Client!none
    <3>2. client' \in Client!ClientType
      BY <1>0, <1>0, <1>1, <2>1, <3>1 DEF Client!ClientType, Client!none
    <3>3. connections' \in 0..MaxConnections
      BY <1>0, <1>1, <2>1 DEF Client!Open
    <3>4. IsFiniteSet(client'.desired)
      BY <1>0, <1>1, <2>1, <3>1 DEF ClientInv
    <3>5. ClientInv'
      BY <3>1, <3>4 DEF ClientInv, TimersMatchState, Client!Connected, Client!Open, Client!none
    <3>. QED
      BY <3>2, <3>3, <3>5
  <2>2. CASE ~valid
    <3>1. client' = [state |-> "error", desiredOpen |-> FALSE,
                    autoReconnect |-> client.autoReconnect, socket |-> "none",
                    handshakeTimer |-> FALSE, reconnectTimer |-> FALSE, lastInbound |-> -1,
                    outbound |-> client.outbound, desired |-> client.desired,
                    revision |-> client.revision]
      BY <1>0, <1>1, <2>2 DEF Client!Open, Client!EndpointClosed, Client!none
    <3>2. client' \in Client!ClientType
      BY <1>0, <1>0, <1>1, <2>2, <3>1 DEF Client!ClientType, Client!none
    <3>3. connections' \in 0..MaxConnections
      BY <1>0, <1>1, <2>2 DEF Client!Open
    <3>4. IsFiniteSet(client'.desired)
      BY <1>0, <1>1, <2>2, <3>1 DEF ClientInv
    <3>5. ClientInv'
      BY <1>0, <1>1, <2>2, <3>1, <3>4 DEF ClientInv, TimersMatchState, Client!Connected, Client!Open
    <3>. QED
      BY <3>2, <3>3, <3>5
  <2>. QED
    BY <2>1, <2>2
<1>2. CASE Client!Close
  <2>1. client' = [state |-> "disconnected", desiredOpen |-> FALSE,
                  autoReconnect |-> client.autoReconnect, socket |-> "none",
                  handshakeTimer |-> FALSE, reconnectTimer |-> FALSE, lastInbound |-> -1,
                  outbound |-> client.outbound, desired |-> client.desired,
                  revision |-> client.revision]
    BY <1>0, <1>2 DEF Client!Close, Client!EndpointClosed, Client!none
  <2>2. client' \in Client!ClientType
    BY <1>0, <1>0, <1>2, <2>1 DEF Client!ClientType, Client!none
  <2>3. connections' \in 0..MaxConnections
    BY <1>0, <1>2 DEF Client!Close
  <2>4. IsFiniteSet(client'.desired)
    BY <1>0, <1>2, <2>1 DEF ClientInv
  <2>5. ClientInv'
    BY <1>0, <1>2, <2>1, <2>4 DEF ClientInv, TimersMatchState, Client!Connected, Client!Close
  <2>. QED
    BY <2>2, <2>3, <2>5
<1>3. ASSUME NEW type, NEW arg, NEW desired \in SUBSET Keys, IsFiniteSet(desired),
             Client!Command(type, arg, desired)
      PROVE  Kept
  <2>1. client' = [state |-> client.state, desiredOpen |-> client.desiredOpen,
                  autoReconnect |-> client.autoReconnect, socket |-> client.socket,
                  handshakeTimer |-> client.handshakeTimer,
                  reconnectTimer |-> client.reconnectTimer,
                  lastInbound |-> client.lastInbound, outbound |-> client.outbound + 1,
                  desired |-> desired, revision |-> client.revision]
    BY <1>0, <1>3 DEF Client!Command
  <2>2. client' \in Client!ClientType
    BY <1>0, <1>0, <1>3, <2>1 DEF Client!ClientType, Client!none
  <2>3. connections' \in 0..MaxConnections
    BY <1>0, <1>3 DEF Client!Command
  <2>4. IsFiniteSet(client'.desired)
    BY <1>0, <1>3, <2>1 DEF ClientInv
  <2>5. ClientInv'
    BY <1>0, <1>3, <2>1, <2>4 DEF ClientInv, TimersMatchState, Client!Connected, Client!Command
  <2>. QED
    BY <2>2, <2>3, <2>5
<1>4. CASE Client!RequestTopicCatalog \/ Client!ClockSyncTimeout
  <2>1. client.desired \in SUBSET Keys /\ IsFiniteSet(client.desired)
    BY <1>0 DEF ClientInv
  <2>. QED
    BY <1>3, <1>4, <2>1 DEF Client!RequestTopicCatalog, Client!ClockSyncTimeout
<1>5. ASSUME NEW k \in Keys, Client!Subscribe(k) \/ Client!Unsubscribe(k)
      PROVE  Kept
  <2>1. /\ client.desired \cup {k} \in SUBSET Keys /\ IsFiniteSet(client.desired \cup {k})
        /\ client.desired \ {k} \in SUBSET Keys /\ IsFiniteSet(client.desired \ {k})
    BY <1>0, FS_AddElement, FS_RemoveElement DEF ClientInv
  <2>. QED
    BY <1>3, <1>5, <2>1 DEF Client!Subscribe, Client!Unsubscribe
<1>6. CASE Client!ConnectSucceeds
  <2>1. client' = [state |-> "awaitingHello", desiredOpen |-> client.desiredOpen,
                  autoReconnect |-> client.autoReconnect, socket |-> "connected",
                  handshakeTimer |-> TRUE, reconnectTimer |-> client.reconnectTimer,
                  lastInbound |-> client.lastInbound, outbound |-> client.outbound,
                  desired |-> client.desired, revision |-> client.revision]
    BY <1>0, <1>6, BoundsAssumption DEF Client!ConnectSucceeds
  <2>2. client' \in Client!ClientType
    BY <1>0, <1>0, <1>6, BoundsAssumption, <2>1 DEF Client!ClientType, Client!none
  <2>3. connections' \in 0..MaxConnections
    BY <1>0, <1>6, BoundsAssumption DEF Client!ConnectSucceeds
  <2>4. IsFiniteSet(client'.desired)
    BY <1>0, <1>6, BoundsAssumption, <2>1 DEF ClientInv
  <2>5. ClientInv'
    BY <1>0, <1>6, BoundsAssumption, <2>1, <2>4 DEF ClientInv, TimersMatchState, Client!Connected, Client!ConnectSucceeds
  <2>. QED
    BY <2>2, <2>3, <2>5
<1>7. CASE Client!ConnectFails
  <2>0. /\ client.socket = "connecting" /\ client.desiredOpen /\ client.state = "disconnected"
        /\ ~client.reconnectTimer /\ ~client.handshakeTimer
    BY <1>7 DEF Client!ConnectFails, ClientInv, TimersMatchState
  <2>1. CASE client.autoReconnect
    <3>1. client' = [state |-> "disconnected", desiredOpen |-> TRUE, autoReconnect |-> TRUE,
                    socket |-> "closed", handshakeTimer |-> FALSE, reconnectTimer |-> TRUE,
                    lastInbound |-> client.lastInbound, outbound |-> client.outbound,
                    desired |-> client.desired, revision |-> client.revision]
      BY <1>0, <1>7, <2>0, <2>1 DEF Client!ConnectFails, Client!Recovered, Client!ReconnectScheduled, ClientInv, TimersMatchState
    <3>2. client' \in Client!ClientType
      BY <1>0, <1>0, <1>7, <2>0, <2>1, <3>1 DEF Client!ClientType, Client!none
    <3>3. connections' \in 0..MaxConnections
      BY <1>0, <1>7, <2>0, <2>1 DEF Client!ConnectFails
    <3>4. IsFiniteSet(client'.desired)
      BY <1>0, <1>7, <2>0, <2>1, <3>1 DEF ClientInv
    <3>5. ClientInv'
      BY <3>1, <3>4 DEF ClientInv, TimersMatchState, Client!Connected, Client!ConnectFails
    <3>. QED
      BY <3>2, <3>3, <3>5
  <2>2. CASE ~client.autoReconnect
    <3>1. client' = [state |-> "error", desiredOpen |-> TRUE, autoReconnect |-> FALSE,
                    socket |-> "closed", handshakeTimer |-> FALSE,
                    reconnectTimer |-> FALSE, lastInbound |-> client.lastInbound,
                    outbound |-> client.outbound, desired |-> client.desired,
                    revision |-> client.revision]
      BY <1>0, <1>7, <2>0, <2>2 DEF Client!ConnectFails, Client!Recovered
    <3>2. client' \in Client!ClientType
      BY <1>0, <1>0, <1>7, <2>0, <2>2, <3>1 DEF Client!ClientType, Client!none
    <3>3. connections' \in 0..MaxConnections
      BY <1>0, <1>7, <2>0, <2>2 DEF Client!ConnectFails
    <3>4. IsFiniteSet(client'.desired)
      BY <1>0, <1>7, <2>0, <2>2, <3>1 DEF ClientInv
    <3>5. ClientInv'
      BY <3>1, <3>4 DEF ClientInv, TimersMatchState, Client!Connected, Client!ConnectFails
    <3>. QED
      BY <3>2, <3>3, <3>5
  <2>. QED
    BY <2>1, <2>2
<1>8. ASSUME NEW orderly \in BOOLEAN, Client!ConnectionLost(orderly)
      PROVE  Kept
  <2>0. /\ client.socket = "connected" /\ client.desiredOpen /\ ~client.reconnectTimer
        /\ client.state \in {"awaitingHello", "ready"}
    BY <1>8 DEF Client!ConnectionLost, ClientInv, Client!Connected
  <2>1. CASE client.autoReconnect
    <3>1. client' = [state |-> "disconnected", desiredOpen |-> TRUE, autoReconnect |-> TRUE,
                    socket |-> "closed", handshakeTimer |-> FALSE, reconnectTimer |-> TRUE,
                    lastInbound |-> client.lastInbound, outbound |-> client.outbound,
                    desired |-> client.desired, revision |-> client.revision]
      BY <1>0, <1>8, <2>0, <2>1 DEF Client!ConnectionLost, Client!Recovered, Client!ReconnectScheduled
    <3>2. client' \in Client!ClientType
      BY <1>0, <1>0, <1>8, <2>0, <2>1, <3>1 DEF Client!ClientType, Client!none
    <3>3. connections' \in 0..MaxConnections
      BY <1>0, <1>8, <2>0, <2>1 DEF Client!ConnectionLost
    <3>4. IsFiniteSet(client'.desired)
      BY <1>0, <1>8, <2>0, <2>1, <3>1 DEF ClientInv
    <3>5. ClientInv'
      BY <3>1, <3>4 DEF ClientInv, TimersMatchState, Client!Connected, Client!ConnectionLost
    <3>. QED
      BY <3>2, <3>3, <3>5
  <2>2. CASE ~client.autoReconnect
    <3>1. client' = [
                    state |-> IF orderly /\ client.state = "ready" THEN "disconnected" ELSE "error",
                    desiredOpen |-> TRUE, autoReconnect |-> FALSE, socket |-> "closed",
                    handshakeTimer |-> FALSE, reconnectTimer |-> FALSE,
                    lastInbound |-> client.lastInbound, outbound |-> client.outbound,
                    desired |-> client.desired, revision |-> client.revision]
      BY <1>0, <1>8, <2>0, <2>2 DEF Client!ConnectionLost, Client!Recovered
    <3>2. client' \in Client!ClientType
      BY <1>0, <1>0, <1>8, <2>0, <2>2, <3>1 DEF Client!ClientType, Client!none
    <3>3. connections' \in 0..MaxConnections
      BY <1>0, <1>8, <2>0, <2>2 DEF Client!ConnectionLost
    <3>4. IsFiniteSet(client'.desired)
      BY <1>0, <1>8, <2>0, <2>2, <3>1 DEF ClientInv
    <3>5. ClientInv'
      BY <3>1, <3>4 DEF ClientInv, TimersMatchState, Client!Connected, Client!ConnectionLost
    <3>. QED
      BY <3>2, <3>3, <3>5
  <2>. QED
    BY <2>1, <2>2
<1>9. CASE Client!HandshakeTimeout
  <2>0. /\ client.socket = "connected" /\ client.desiredOpen /\ ~client.reconnectTimer
        /\ client.state = "awaitingHello"
    BY <1>9 DEF Client!HandshakeTimeout, ClientInv, TimersMatchState, Client!Connected
  <2>1. CASE client.autoReconnect
    <3>1. client' = [state |-> "disconnected", desiredOpen |-> TRUE, autoReconnect |-> TRUE,
                    socket |-> "closed", handshakeTimer |-> FALSE, reconnectTimer |-> TRUE,
                    lastInbound |-> client.lastInbound, outbound |-> client.outbound,
                    desired |-> client.desired, revision |-> client.revision]
      BY <1>0, <1>9, <2>0, <2>1 DEF Client!HandshakeTimeout, Client!Recovered, Client!ReconnectScheduled
    <3>2. client' \in Client!ClientType
      BY <1>0, <1>0, <1>9, <2>0, <2>1, <3>1 DEF Client!ClientType, Client!none
    <3>3. connections' \in 0..MaxConnections
      BY <1>0, <1>9, <2>0, <2>1 DEF Client!HandshakeTimeout
    <3>4. IsFiniteSet(client'.desired)
      BY <1>0, <1>9, <2>0, <2>1, <3>1 DEF ClientInv
    <3>5. ClientInv'
      BY <3>1, <3>4 DEF ClientInv, TimersMatchState, Client!Connected, Client!HandshakeTimeout
    <3>. QED
      BY <3>2, <3>3, <3>5
  <2>2. CASE ~client.autoReconnect
    <3>1. client' = [state |-> "error", desiredOpen |-> TRUE, autoReconnect |-> FALSE,
                    socket |-> "closed", handshakeTimer |-> FALSE,
                    reconnectTimer |-> FALSE, lastInbound |-> client.lastInbound,
                    outbound |-> client.outbound, desired |-> client.desired,
                    revision |-> client.revision]
      BY <1>0, <1>9, <2>0, <2>2 DEF Client!HandshakeTimeout, Client!Recovered
    <3>2. client' \in Client!ClientType
      BY <1>0, <1>0, <1>9, <2>0, <2>2, <3>1 DEF Client!ClientType, Client!none
    <3>3. connections' \in 0..MaxConnections
      BY <1>0, <1>9, <2>0, <2>2 DEF Client!HandshakeTimeout
    <3>4. IsFiniteSet(client'.desired)
      BY <1>0, <1>9, <2>0, <2>2, <3>1 DEF ClientInv
    <3>5. ClientInv'
      BY <3>1, <3>4 DEF ClientInv, TimersMatchState, Client!Connected, Client!HandshakeTimeout
    <3>. QED
      BY <3>2, <3>3, <3>5
  <2>. QED
    BY <2>1, <2>2
<1>10. CASE Client!ReconnectTimeout
  <2>0. client.desiredOpen /\ ~client.handshakeTimer
    BY <1>10 DEF Client!ReconnectTimeout, ClientInv, TimersMatchState
  <2>1. client' = [state |-> "disconnected", desiredOpen |-> client.desiredOpen,
                  autoReconnect |-> client.autoReconnect, socket |-> "connecting",
                  handshakeTimer |-> client.handshakeTimer, reconnectTimer |-> FALSE,
                  lastInbound |-> -1, outbound |-> 0, desired |-> client.desired,
                  revision |-> client.revision]
    BY <1>0, <1>10, <2>0 DEF Client!ReconnectTimeout, Client!ConnectionStarted, Client!none
  <2>2. client' \in Client!ClientType
    BY <1>0, <1>0, <1>10, <2>0, <2>1 DEF Client!ClientType, Client!none
  <2>3. connections' \in 0..MaxConnections
    BY <1>0, <1>10, <2>0 DEF Client!ReconnectTimeout
  <2>4. IsFiniteSet(client'.desired)
    BY <1>0, <1>10, <2>0, <2>1 DEF ClientInv
  <2>5. ClientInv'
    BY <1>0, <1>10, <2>0, <2>1, <2>4 DEF ClientInv, TimersMatchState, Client!Connected, Client!ReconnectTimeout, Client!none
  <2>. QED
    BY <2>2, <2>3, <2>5
<1>11. CASE Client!ReadFrame
  <2>1. PICK n \in Nat, last \in Nat, revision \in Nat :
          client' = [state |-> "ready", desiredOpen |-> client.desiredOpen,
                     autoReconnect |-> client.autoReconnect, socket |-> client.socket,
                     handshakeTimer |-> FALSE, reconnectTimer |-> client.reconnectTimer,
                     lastInbound |-> last, outbound |-> client.outbound + n,
                     desired |-> client.desired, revision |-> revision]
    BY <1>11, ReadFrameClient
  <2>2. connections' = connections /\ Client!Connected
    BY <1>11 DEF Client!ReadFrame, Client!Breaks, Client!AcceptHello, Client!HandleFrame, Client!Answers,
         Client!HasInput
  <2>3. client' \in Client!ClientType /\ IsFiniteSet(client'.desired)
    BY <1>0, <2>1 DEF Client!ClientType, Client!none, ClientInv
  <2>4. client.socket = "connected" /\ client.desiredOpen /\ ~client.reconnectTimer /\ connections # 0
    BY <2>2 DEF ClientInv, Client!Connected
  <2>5. ClientInv'
    BY <1>0, <2>1, <2>2, <2>3, <2>4 DEF ClientInv, TimersMatchState, Client!Connected
  <2>. QED
    BY <1>0, <2>2, <2>3, <2>5
<1>. QED
  BY <1>1, <1>2, <1>4, <1>5, <1>6, <1>7, <1>8, <1>9, <1>10, <1>11 DEF Client!ClientStep

-----------------------------------------------------------------------------
(* The client and the wire. *)

LEMMA WireFields ==
  ASSUME wire \in [1..MaxConnections -> Client!WireType], NEW c \in 1..MaxConnections
  PROVE  /\ wire[c] \in Client!WireType /\ wire[c].up \in BOOLEAN
         /\ wire[c].toServer \in Seq(Client!Frame) /\ wire[c].toClient \in Seq(Client!Frame)
  BY DEF Client!WireType

(* A connection r whose fields are up, toServer and toClient. *)
IsConn(r, up, toServer, toClient) ==
  /\ r \in Client!WireType
  /\ r.up = up /\ r.toServer = toServer /\ r.toClient = toClient

LEMMA ConnUpdates ==
  ASSUME NEW r \in Client!WireType, NEW up \in BOOLEAN,
         NEW to \in Seq(Client!Frame), NEW from \in Seq(Client!Frame)
  PROVE  /\ IsConn([r EXCEPT !.up = up], up, r.toServer, r.toClient)
         /\ IsConn([r EXCEPT !.toServer = to], r.up, to, r.toClient)
         /\ IsConn([r EXCEPT !.toClient = from], r.up, r.toServer, from)
         /\ IsConn([r EXCEPT !.up = up, !.toServer = to], up, to, r.toClient)
         /\ IsConn([r EXCEPT !.up = up, !.toClient = from], up, r.toServer, from)
<1>1. /\ [r EXCEPT !.up = up] \in Client!WireType
      /\ [r EXCEPT !.toServer = to] \in Client!WireType
      /\ [r EXCEPT !.toClient = from] \in Client!WireType
  BY DEF Client!WireType
<1>2. [r EXCEPT !.up = up, !.toServer = to] \in Client!WireType
  BY DEF Client!WireType
<1>3. [r EXCEPT !.up = up, !.toClient = from] \in Client!WireType
  BY DEF Client!WireType
<1>4. IsConn([r EXCEPT !.up = up], up, r.toServer, r.toClient)
  BY <1>1 DEF Client!WireType, IsConn
<1>5. IsConn([r EXCEPT !.toServer = to], r.up, to, r.toClient)
  BY <1>1 DEF Client!WireType, IsConn
<1>6. IsConn([r EXCEPT !.toClient = from], r.up, r.toServer, from)
  BY <1>1 DEF Client!WireType, IsConn
<1>7. IsConn([r EXCEPT !.up = up, !.toServer = to], up, to, r.toClient)
  BY <1>2 DEF Client!WireType, IsConn
<1>8. IsConn([r EXCEPT !.up = up, !.toClient = from], up, r.toServer, from)
  BY <1>3 DEF Client!WireType, IsConn
<1>. QED
  BY <1>4, <1>5, <1>6, <1>7, <1>8

(* The wire w is the wire but for the connection c. *)
Changed(w, c, up, toServer, toClient) ==
  /\ w \in [1..MaxConnections -> Client!WireType]
  /\ IsConn(w[c], up, toServer, toClient)
  /\ \A d \in 1..MaxConnections : d # c => w[d] = wire[d]

LEMMA WireUpdated ==
  ASSUME wire \in [1..MaxConnections -> Client!WireType], NEW c \in 1..MaxConnections,
         NEW r, NEW up, NEW toServer, NEW toClient, IsConn(r, up, toServer, toClient)
  PROVE  Changed([wire EXCEPT ![c] = r], c, up, toServer, toClient)
  BY DEF Changed, IsConn

LEMMA WireUpdates ==
  ASSUME wire \in [1..MaxConnections -> Client!WireType], NEW c \in 1..MaxConnections,
         NEW up \in BOOLEAN, NEW to \in Seq(Client!Frame), NEW from \in Seq(Client!Frame)
  PROVE  /\ Changed([wire EXCEPT ![c].up = up], c, up, wire[c].toServer, wire[c].toClient)
         /\ Changed([wire EXCEPT ![c].toServer = to], c, wire[c].up, to, wire[c].toClient)
         /\ Changed([wire EXCEPT ![c].toClient = from], c, wire[c].up, wire[c].toServer, from)
         /\ Changed([wire EXCEPT ![c].up = up, ![c].toServer = to], c, up, to, wire[c].toClient)
         /\ Changed([wire EXCEPT ![c].up = up, ![c].toClient = from], c, up, wire[c].toServer, from)
<1>. DEFINE r == wire[c]
<1>1. r \in Client!WireType
  OBVIOUS
<1>2. /\ [wire EXCEPT ![c].up = up] = [wire EXCEPT ![c] = [r EXCEPT !.up = up]]
      /\ [wire EXCEPT ![c].toServer = to] = [wire EXCEPT ![c] = [r EXCEPT !.toServer = to]]
      /\ [wire EXCEPT ![c].toClient = from] = [wire EXCEPT ![c] = [r EXCEPT !.toClient = from]]
      /\ [wire EXCEPT ![c].up = up, ![c].toServer = to]
           = [wire EXCEPT ![c] = [r EXCEPT !.up = up, !.toServer = to]]
      /\ [wire EXCEPT ![c].up = up, ![c].toClient = from]
           = [wire EXCEPT ![c] = [r EXCEPT !.up = up, !.toClient = from]]
  OBVIOUS
<1>. HIDE DEF r
<1>3. /\ Changed([wire EXCEPT ![c] = [r EXCEPT !.up = up]], c, up, r.toServer, r.toClient)
      /\ Changed([wire EXCEPT ![c] = [r EXCEPT !.toServer = to]], c, r.up, to, r.toClient)
      /\ Changed([wire EXCEPT ![c] = [r EXCEPT !.toClient = from]], c, r.up, r.toServer, from)
      /\ Changed([wire EXCEPT ![c] = [r EXCEPT !.up = up, !.toServer = to]], c, up, to, r.toClient)
      /\ Changed([wire EXCEPT ![c] = [r EXCEPT !.up = up, !.toClient = from]],
                 c, up, r.toServer, from)
  BY <1>1, ConnUpdates, WireUpdated
<1>. QED
  BY <1>2, <1>3 DEF r
(* Nothing new is under way. *)
Shrunk(w) ==
  /\ w \in [1..MaxConnections -> Client!WireType]
  /\ \A c \in 1..MaxConnections :
       /\ w[c].toServer = wire[c].toServer
       /\ w[c].toClient \in {wire[c].toClient, <<>>}
       /\ w[c].up => wire[c].up

LEMMA ChangedShrinks ==
  ASSUME wire \in [1..MaxConnections -> Client!WireType], NEW c \in 1..MaxConnections,
         NEW w, NEW up, up => wire[c].up, Changed(w, c, up, wire[c].toServer, <<>>)
  PROVE  Shrunk(w)
  BY DEF Changed, IsConn, Shrunk

LEMMA AbortedShrinks ==
  ASSUME TypeOK, ClientInv
  PROVE  Shrunk(Client!SocketAborted) /\ Shrunk(wire)
<1>1. Shrunk(wire)
  BY DEF TypeOK, Shrunk
<1>2. CASE Client!Connected
  <2>1. connections \in 1..MaxConnections
    BY <1>2 DEF TypeOK, ClientInv
  <2>2. <<>> \in Seq(Client!Frame) /\ FALSE \in BOOLEAN
    OBVIOUS
  <2>3. Changed(Client!SocketAborted, connections, FALSE, wire[connections].toServer, <<>>)
    BY <1>2, <2>1, <2>2, WireUpdates DEF Client!SocketAborted, TypeOK
  <2>. QED
    BY <1>1, <2>1, <2>3, ChangedShrinks DEF TypeOK
<1>3. CASE ~Client!Connected
  BY <1>1, <1>3 DEF Client!SocketAborted
<1>. QED
  BY <1>1, <1>2, <1>3

(* The socket is not connected afterwards, whatever it was, and nothing is sent. *)
Quiet ==
  /\ Shrunk(wire') /\ ~Client!Connected'
  /\ UNCHANGED <<backlog, connections, serverVars>>

LEMMA QuietKeeps ==
  ASSUME IInv, Quiet
  PROVE  QueueInv' /\ ToAgentInv' /\ ToClientInv'
<1>1. QueueInv'
  BY DEF IInv, QueueInv, Quiet, Shrunk, serverVars
<1>2. ToClientInv'
  BY DEF Quiet, ToClientInv
<1>3. ToAgentInv'
  <2>1. ASSUME NEW c \in 1..MaxConnections, Fresh(c)'
        PROVE wire'[c].toServer = <<>> /\ wire'[c].toClient = <<>>
    <3>1. Fresh(c)
      BY <2>1 DEF Fresh, Quiet, serverVars
    <3>2. wire[c].toServer = <<>> /\ wire[c].toClient = <<>>
      BY <3>1 DEF IInv, ToAgentInv
    <3>. QED
      BY <3>2 DEF Quiet, Shrunk
  <2>2. ASSUME server'.at \in Serving
        PROVE /\ Stream(wire'[server'.client].toServer, session'.lastInbound, "helloAck",
                        session'.state = "ready", FromClient)
              /\ Below(wire'[server'.client].toClient, NextNumber')
    <3>1. server' = server /\ session' = session /\ NextNumber' = NextNumber
      BY DEF Quiet, serverVars, NextNumber
    <3>2. server.client \in 1..MaxConnections
      BY <2>2, <3>1 DEF IInv, ServerInv, TypeOK, Agent!ServerType
    <3>3. /\ Stream(wire[server.client].toServer, session.lastInbound, "helloAck",
                    session.state = "ready", FromClient)
          /\ Below(wire[server.client].toClient, NextNumber)
      BY <2>2, <3>1 DEF IInv, ToAgentInv
    <3>4. /\ wire'[server.client].toServer = wire[server.client].toServer
          /\ wire'[server.client].toClient \in {wire[server.client].toClient, <<>>}
      BY <3>2 DEF Quiet, Shrunk
    <3>5. Below(<<>>, NextNumber)
      BY DEF Below
    <3>. QED
      BY <3>1, <3>3, <3>4, <3>5
  <2>. QED
    BY <2>1, <2>2 DEF ToAgentInv
<1>. QED
  BY <1>1, <1>2, <1>3

LEMMA LostShrinks ==
  ASSUME TypeOK, ClientInv, Client!Connected
  PROVE  Shrunk([wire EXCEPT ![connections].toClient = <<>>])
<1>1. connections \in 1..MaxConnections
  BY DEF TypeOK, ClientInv
<1>2. <<>> \in Seq(Client!Frame) /\ wire[connections].up \in BOOLEAN
  BY <1>1, WireFields DEF TypeOK
<1>3. Changed([wire EXCEPT ![connections].toClient = <<>>], connections,
              wire[connections].up, wire[connections].toServer, <<>>)
  BY <1>1, <1>2, WireUpdates DEF TypeOK
<1>. QED
  BY <1>1, <1>3, ChangedShrinks DEF TypeOK

LEMMA QuietSteps ==
  ASSUME IInv, UNCHANGED serverVars,
         \/ \E valid, auto \in BOOLEAN : Client!Open(valid, auto)
         \/ Client!Close \/ Client!ConnectFails \/ Client!HandshakeTimeout \/ Client!ReconnectTimeout
         \/ \E orderly \in BOOLEAN : Client!ConnectionLost(orderly)
  PROVE  Quiet
<1>1. Shrunk(Client!SocketAborted) /\ Shrunk(wire)
  BY AbortedShrinks DEF IInv
<1>2. client \in Client!ClientType /\ ClientInv
  BY DEF IInv, TypeOK
<1>3. ASSUME NEW valid \in BOOLEAN, NEW auto \in BOOLEAN, Client!Open(valid, auto) PROVE Quiet
  BY <1>1, <1>2, <1>3 DEF Client!Open, Quiet, Client!Connected, Client!EndpointClosed,
     Client!ConnectionStarted, Client!ClientType
<1>4. CASE Client!Close
  BY <1>1, <1>2, <1>4 DEF Client!Close, Quiet, Client!Connected, Client!EndpointClosed, Client!ClientType
<1>5. CASE Client!ConnectFails
  BY <1>1, <1>2, <1>5 DEF Client!ConnectFails, Quiet, Client!Connected, Client!Recovered,
     Client!ReconnectScheduled, Client!ClientType
<1>6. CASE Client!HandshakeTimeout
  BY <1>1, <1>2, <1>6 DEF Client!HandshakeTimeout, Quiet, Client!Connected, Client!Recovered,
     Client!ReconnectScheduled, Client!ClientType
<1>7. CASE Client!ReconnectTimeout
  BY <1>1, <1>2, <1>7 DEF Client!ReconnectTimeout, Quiet, Client!Connected, Client!ConnectionStarted,
     Client!ClientType, ClientInv, TimersMatchState
<1>8. ASSUME NEW orderly \in BOOLEAN, Client!ConnectionLost(orderly) PROVE Quiet
  <2>1. Shrunk([wire EXCEPT ![connections].toClient = <<>>])
    BY <1>8, LostShrinks DEF IInv, Client!ConnectionLost
  <2>2. client'.socket = "closed"
    BY <1>2, <1>8 DEF Client!ConnectionLost, Client!Recovered, Client!ReconnectScheduled,
       Client!ClientType
  <2>. QED
    BY <1>8, <2>1, <2>2 DEF Client!ConnectionLost, Quiet, Client!Connected
<1>. QED
  BY <1>3, <1>4, <1>5, <1>6, <1>7, <1>8

LEMMA StreamTail ==
  ASSUME NEW frames \in Seq(Client!Frame), frames # <<>>,
         NEW last, NEW opening, NEW open, NEW types,
         Stream(frames, last, opening, open, types)
  PROVE  /\ Tail(frames) \in Seq(Client!Frame)
         /\ Stream(Tail(frames), frames[1].seq, opening, TRUE, types)
         /\ \A m : Below(frames, m) => Below(Tail(frames), m)
<1>1. Tail(frames) = SubSeq(frames, 2, Len(frames)) /\ Tail(frames) \in Seq(Client!Frame)
  OBVIOUS
<1>2. 1 \in 1..Len(frames) /\ 1 + 1 = 2
  OBVIOUS
<1>3. LET rest == SubSeq(frames, 1 + 1, Len(frames))
      IN /\ Stream(rest, frames[1].seq, opening, TRUE, types)
         /\ \A m : Below(frames, m) => Below(rest, m)
  BY <1>2, StreamShrinks
<1>. QED
  BY <1>1, <1>2, <1>3

LEMMA Appending ==
  ASSUME NEW S, NEW s \in Seq(S), NEW e \in S
  PROVE  /\ Append(s, e) \in Seq(S)
         /\ DOMAIN s = 1..Len(s) /\ Len(s) \in Nat /\ DOMAIN Append(s, e) = 1..(Len(s) + 1)
         /\ \A i \in 1..Len(s) : Append(s, e)[i] = s[i] /\ s[i] \in S
         /\ Append(s, e)[Len(s) + 1] = e
  OBVIOUS

LEMMA ConnectKeeps ==
  ASSUME IInv, Client!ConnectSucceeds, UNCHANGED serverVars
  PROVE  /\ wire' \in [1..MaxConnections -> Client!WireType]
         /\ backlog' \in Seq(1..MaxConnections)
         /\ QueueInv' /\ ToAgentInv' /\ ToClientInv'
<1>. DEFINE c == connections + 1
<1>1. /\ c \in 1..MaxConnections /\ connections \in Nat /\ connections' = c
      /\ backlog' = Append(backlog, c) /\ backlog \in Seq(1..MaxConnections)
      /\ wire' = [wire EXCEPT ![c].up = TRUE]
      /\ client' = [client EXCEPT !.socket = "connected", !.state = "awaitingHello",
                                  !.handshakeTimer = TRUE]
      /\ server.client \in Nat /\ server.client <= connections
  BY BoundsAssumption DEF IInv, TypeOK, QueueInv, Client!ConnectSucceeds, Agent!ServerType
<1>2. server' = server /\ session' = session /\ NextNumber' = NextNumber
  BY DEF serverVars, NextNumber
<1>3. wire[c].toServer = <<>> /\ wire[c].toClient = <<>>
  BY <1>1 DEF IInv, ToAgentInv, Fresh
<1>4. Changed(wire', c, TRUE, <<>>, <<>>)
  <2>1. /\ <<>> \in Seq(Client!Frame) /\ TRUE \in BOOLEAN
        /\ wire \in [1..MaxConnections -> Client!WireType]
    BY DEF IInv, TypeOK
  <2>. QED
    BY <1>1, <1>3, <2>1, WireUpdates
<1>5. wire' \in [1..MaxConnections -> Client!WireType] /\ backlog' \in Seq(1..MaxConnections)
  BY <1>1, <1>4 DEF Changed
<1>6. /\ DOMAIN backlog = 1..Len(backlog) /\ Len(backlog) \in Nat
      /\ DOMAIN backlog' = 1..(Len(backlog) + 1)
      /\ \A i \in 1..Len(backlog) : backlog'[i] = backlog[i] /\ backlog[i] \in Nat
      /\ backlog'[Len(backlog) + 1] = c
  <2>. HIDE DEF c
  <2>. DEFINE S == 1..MaxConnections
  <2>1. c \in S /\ backlog \in Seq(S) /\ backlog' = Append(backlog, c)
    BY <1>1
  <2>2. /\ DOMAIN backlog = 1..Len(backlog) /\ Len(backlog) \in Nat
        /\ DOMAIN Append(backlog, c) = 1..(Len(backlog) + 1)
        /\ \A i \in 1..Len(backlog) :
             Append(backlog, c)[i] = backlog[i] /\ backlog[i] \in S
        /\ Append(backlog, c)[Len(backlog) + 1] = c
    <3>. HIDE DEF S
    <3>. QED
      BY <2>1, Appending
  <2>3. \A x \in S : x \in Nat
    BY BoundsAssumption
  <2>. QED
    BY <2>1, <2>2, <2>3
<1>7. /\ \A i \in DOMAIN backlog : server.client < backlog[i] /\ backlog[i] <= connections
      /\ \A i, j \in DOMAIN backlog : i < j => backlog[i] < backlog[j]
  BY DEF IInv, QueueInv
<1>8. ASSUME NEW d \in 1..MaxConnections, d # c
      PROVE  wire'[d] = wire[d] /\ (Fresh(d)' => Fresh(d))
  <2>1. wire'[d] = wire[d]
    BY <1>4, <1>8 DEF Changed
  <2>2. Fresh(d)' => Fresh(d)
    BY <1>1, <1>2, <1>6, <1>8 DEF Fresh
  <2>. QED
    BY <2>1, <2>2
<1>. HIDE DEF c
<1>9. QueueInv'
  <2>1. server'.client <= connections'
    BY <1>1, <1>2 DEF c
  <2>2. ASSUME NEW i \in DOMAIN backlog'
        PROVE server'.client < backlog'[i] /\ backlog'[i] <= connections'
    <3>1. CASE i \in 1..Len(backlog)
      <4>1. server.client < backlog[i] /\ backlog[i] <= connections /\ backlog'[i] = backlog[i]
            /\ backlog[i] \in Nat
        BY <1>6, <1>7, <3>1
      <4>. QED
        BY <1>1, <1>2, <4>1 DEF c
    <3>2. CASE i = Len(backlog) + 1
      BY <1>1, <1>2, <1>6, <3>2 DEF c
    <3>. QED
      BY <1>6, <3>1, <3>2
  <2>3. ASSUME NEW i \in DOMAIN backlog', NEW j \in DOMAIN backlog', i < j
        PROVE backlog'[i] < backlog'[j]
    <3>1. i \in 1..Len(backlog) /\ i \in DOMAIN backlog
      BY <1>6, <2>3
    <3>2. CASE j \in 1..Len(backlog)
      BY <1>6, <1>7, <2>3, <3>1, <3>2
    <3>3. CASE j = Len(backlog) + 1
      <4>1. backlog'[i] = backlog[i] /\ backlog[i] <= connections /\ backlog[i] \in Nat
            /\ backlog'[j] = c
        BY <1>6, <1>7, <3>1, <3>3
      <4>. QED
        BY <1>1, <4>1 DEF c
    <3>. QED
      BY <1>6, <3>2, <3>3
  <2>4. ASSUME NEW d \in 1..MaxConnections, wire'[d].up
        PROVE d = server'.client \/ \E i \in DOMAIN backlog' : backlog'[i] = d
    <3>1. CASE d = c
      BY <1>6, <3>1
    <3>2. CASE d # c
      <4>1. wire[d].up
        BY <1>8, <2>4, <3>2
      <4>2. d = server.client \/ \E i \in DOMAIN backlog : backlog[i] = d
        BY <4>1 DEF IInv, QueueInv
      <4>. QED
        BY <1>2, <1>6, <4>2
    <3>. QED
      BY <3>1, <3>2
  <2>. QED
    BY <2>1, <2>2, <2>3, <2>4 DEF QueueInv
<1>10. ToAgentInv'
  <2>1. ASSUME NEW d \in 1..MaxConnections, Fresh(d)'
        PROVE wire'[d].toServer = <<>> /\ wire'[d].toClient = <<>>
    <3>1. CASE d = c
      BY <1>4, <3>1 DEF Changed, IsConn
    <3>2. CASE d # c
      BY <1>8, <2>1, <3>2 DEF IInv, ToAgentInv
    <3>. QED
      BY <3>1, <3>2
  <2>2. server.at \in Serving => wire'[server.client] = wire[server.client]
    <3>1. server.at \in Serving => server.client \in 1..MaxConnections /\ server.client # c
      BY <1>1 DEF c, IInv, ServerInv, TypeOK, Agent!ServerType
    <3>. QED
      BY <1>8, <3>1
  <2>. QED
    BY <1>2, <2>1, <2>2 DEF ToAgentInv, IInv
<1>11. ToClientInv'
  <2>1. client'.state = "awaitingHello" /\ client'.lastInbound = Client!none
    BY <1>1 DEF IInv, TypeOK, ClientInv, Client!ConnectSucceeds, Client!ClientType
  <2>2. wire'[c].toServer = <<>> /\ wire'[c].toClient = <<>>
    BY <1>4 DEF Changed, IsConn
  <2>3. server'.client # c
    BY <1>1, <1>2 DEF c
  <2>. QED
    BY <1>1, <2>1, <2>2, <2>3 DEF ToClientInv, Stream, Below
<1>. QED
  BY <1>5, <1>9, <1>10, <1>11

-----------------------------------------------------------------------------
(* The client, ready from now on, sends frames if the connection is up, and leaves rest. *)
Talks(frames, rest) ==
  /\ Client!Connected /\ Client!Connected' /\ client'.state = "ready"
  /\ client.state = "ready" \/ wire[connections].toClient # <<>>
  /\ UNCHANGED <<backlog, connections, serverVars>>
  /\ Changed(wire', connections, wire[connections].up,
             IF wire[connections].up THEN wire[connections].toServer \o frames
                                     ELSE wire[connections].toServer, rest)
  /\ client'.outbound \in Nat /\ client.outbound <= client'.outbound
  /\ Stream(rest, client'.lastInbound, "hello", TRUE, FromAgent)
  /\ server.at \in Serving /\ server.client = connections =>
       client'.lastInbound < NextNumber /\ Below(rest, NextNumber)
  /\ \/ client.state = "ready"
          /\ Numbered(frames, client.outbound, client'.outbound, FromClient)
     \/ /\ client.state = "awaitingHello" /\ frames # <<>> /\ Below(frames, client'.outbound)
        /\ \A last \in Int : last < client.outbound =>
             Stream(frames, last, "helloAck", FALSE, FromClient)

LEMMA EmptyConcatenation ==
  ASSUME NEW S, NEW s \in Seq(S), NEW t \in Seq(S)
  PROVE  /\ <<>> \o s = s /\ s \o t \in Seq(S)
         /\ s # <<>> \/ t # <<>> => s \o t # <<>>
<1>1. <<>> \o s = s /\ s \o t \in Seq(S)
  OBVIOUS
<1>2. Len(s \o t) = Len(s) + Len(t) /\ Len(s) \in Nat /\ Len(t) \in Nat
  OBVIOUS
<1>3. (s # <<>> => Len(s) > 0) /\ (t # <<>> => Len(t) > 0) /\ Len(<<>>) = 0
  OBVIOUS
<1>. QED
  BY <1>1, <1>2, <1>3

LEMMA TalkKeeps ==
  ASSUME IInv, NEW frames \in Seq(Client!Frame), NEW rest \in Seq(Client!Frame),
         Talks(frames, rest)
  PROVE  wire' \in [1..MaxConnections -> Client!WireType] /\ QueueInv' /\ ToAgentInv' /\ ToClientInv'
<1>. DEFINE c == connections
            to == wire[c].toServer
            up == wire[c].up
            sent == IF up THEN to \o frames ELSE to
<1>1. c \in 1..MaxConnections /\ c \in Nat
  BY DEF IInv, TypeOK, ClientInv, Talks
<1>2. /\ to \in Seq(Client!Frame) /\ up \in BOOLEAN /\ wire[c].toClient \in Seq(Client!Frame)
  BY <1>1, WireFields DEF IInv, TypeOK
<1>3. /\ wire' \in [1..MaxConnections -> Client!WireType]
      /\ wire'[c].up = up /\ wire'[c].toServer = sent /\ wire'[c].toClient = rest
      /\ \A d \in 1..MaxConnections : d # c => wire'[d] = wire[d]
  BY DEF Talks, Changed, IsConn
<1>4. /\ server' = server /\ session' = session /\ backlog' = backlog /\ connections' = c
      /\ NextNumber' = NextNumber /\ \A d : Fresh(d)' = Fresh(d)
  BY DEF Talks, serverVars, NextNumber, Fresh
<1>5. ~Fresh(c)
  BY <1>1 DEF Talks, IInv, ToClientInv, ToAgentInv
<1>6. /\ client.state \in {"awaitingHello", "ready"}
      /\ client.outbound \in Nat /\ session.lastInbound \in Int
  BY DEF Talks, IInv, ClientInv, TypeOK, Client!ClientType, Agent!SessionType, Agent!none
<1>7. /\ client.state = "awaitingHello" => to = <<>>
      /\ Below(to, client.outbound)
      /\ client.state = "ready" /\ up => session.state = "ready" \/ to # <<>>
      /\ server.at \in Serving /\ server.client = c =>
           /\ session.lastInbound < client.outbound
           /\ client.state = "awaitingHello" => session.state = "awaitingHelloAck"
  BY DEF IInv, ToClientInv, Talks
<1>8. /\ client'.outbound \in Nat /\ client.outbound <= client'.outbound
      /\ client.state = "ready" => Numbered(frames, client.outbound, client'.outbound, FromClient)
      /\ client.state = "awaitingHello" =>
           /\ frames # <<>> /\ Below(frames, client'.outbound)
           /\ \A last \in Int : last < client.outbound =>
                Stream(frames, last, "helloAck", FALSE, FromClient)
  BY DEF Talks
<1>. HIDE DEF c, to, up
<1>9. /\ <<>> \o frames = frames /\ to \o frames \in Seq(Client!Frame)
      /\ to # <<>> \/ frames # <<>> => to \o frames # <<>>
  BY <1>2, EmptyConcatenation
<1>10. Below(sent, client'.outbound)
  <2>1. Below(to, client'.outbound)
    <3>1. \A i \in DOMAIN to : to[i].seq \in Nat
      BY <1>2 DEF Client!Frame, Client!FrameTypes
    <3>. QED
      BY <1>6, <1>7, <1>8, <3>1 DEF Below
  <2>2. CASE client.state = "ready"
    <3>1. Below(to \o frames, client'.outbound)
      BY <1>2, <1>6, <1>7, <1>8, <2>2, BelowGrows
    <3>. QED
      BY <2>1, <3>1
  <2>3. CASE client.state = "awaitingHello"
    BY <1>7, <1>8, <1>9, <2>1, <2>3
  <2>. QED
    BY <1>6, <2>2, <2>3
<1>11. QueueInv'
  <2>1. ASSUME NEW d \in 1..MaxConnections, wire'[d].up PROVE wire[d].up
    BY <1>3, <2>1 DEF c, up
  <2>. QED
    BY <1>4, <2>1 DEF IInv, QueueInv, c
<1>12. ToAgentInv'
  <2>1. ASSUME NEW d \in 1..MaxConnections, Fresh(d)'
        PROVE wire'[d].toServer = <<>> /\ wire'[d].toClient = <<>>
    <3>1. d # c /\ Fresh(d)
      BY <1>4, <1>5, <2>1
    <3>. QED
      BY <1>3, <3>1 DEF IInv, ToAgentInv
  <2>2. ASSUME server.at \in Serving
        PROVE /\ Stream(wire'[server.client].toServer, session.lastInbound, "helloAck",
                        session.state = "ready", FromClient)
              /\ Below(wire'[server.client].toClient, NextNumber)
    <3>0. server.client \in 1..MaxConnections
      BY <2>2 DEF IInv, ServerInv, TypeOK, Agent!ServerType
    <3>1. /\ Stream(wire[server.client].toServer, session.lastInbound, "helloAck",
                    session.state = "ready", FromClient)
          /\ Below(wire[server.client].toClient, NextNumber)
      BY <2>2 DEF IInv, ToAgentInv
    <3>2. CASE server.client # c
      BY <1>3, <3>0, <3>1, <3>2
    <3>3. CASE server.client = c
      <4>1. Below(rest, NextNumber)
        BY <2>2, <3>3 DEF Talks, c
      <4>2. Stream(to, session.lastInbound, "helloAck", session.state = "ready", FromClient)
        BY <3>1, <3>3 DEF to
      <4>3. session.lastInbound < client.outbound
        BY <1>7, <2>2, <3>3
      <4>4. Stream(sent, session.lastInbound, "helloAck", session.state = "ready", FromClient)
        <5>1. CASE ~up
          BY <4>2, <5>1
        <5>2. CASE up /\ client.state = "ready"
          <6>. DEFINE open == session.state = "ready"
          <6>1. open \in BOOLEAN /\ (open \/ to # <<>>)
            BY <1>7, <5>2
          <6>2. Stream(to, session.lastInbound, "helloAck", open, FromClient)
            BY <4>2
          <6>. HIDE DEF open
          <6>3. Stream(to \o frames, session.lastInbound, "helloAck", open, FromClient)
            BY <1>2, <1>6, <1>7, <1>8, <4>3, <5>2, <6>1, <6>2, StreamGrows
          <6>. QED
            BY <5>2, <6>3 DEF open
        <5>3. CASE up /\ client.state = "awaitingHello"
          <6>1. (session.state = "ready") = FALSE /\ sent = frames
            BY <1>7, <1>9, <2>2, <3>3, <5>3
          <6>2. Stream(frames, session.lastInbound, "helloAck", FALSE, FromClient)
            BY <1>6, <1>8, <4>3, <5>3
          <6>. QED
            BY <6>1, <6>2
        <5>. QED
          BY <1>2, <1>6, <5>1, <5>2, <5>3
      <4>. QED
        BY <1>3, <3>3, <4>1, <4>4
    <3>. QED
      BY <3>2, <3>3
  <2>. QED
    BY <1>4, <2>1, <2>2 DEF ToAgentInv
<1>13. ToClientInv'
  <2>1. client'.state = "ready" /\ Stream(rest, client'.lastInbound, "hello", TRUE, FromAgent)
    BY DEF Talks
  <2>2. up => session.state = "ready" \/ sent # <<>>
    BY <1>6, <1>7, <1>8, <1>9
  <2>3. server.at \in Serving /\ server.client = c =>
          session.lastInbound < client'.outbound /\ client'.lastInbound < NextNumber
    BY <1>6, <1>7, <1>8 DEF Talks, c
  <2>. HIDE DEF sent
  <2>4. (client'.state = "ready") = TRUE
    BY <2>1
  <2>. QED
    BY <1>3, <1>4, <1>5, <1>10, <2>1, <2>2, <2>3, <2>4 DEF ToClientInv
<1>. QED
  BY <1>3, <1>11, <1>12, <1>13

LEMMA SentChanges ==
  ASSUME TypeOK, connections \in 1..MaxConnections, NEW messages \in Seq(Message)
  PROVE  LET c == connections
             frames == Client!Framed(messages, client.outbound)
             sent == IF wire[c].up THEN wire[c].toServer \o frames ELSE wire[c].toServer
         IN /\ Changed(Client!Sent(messages), c, wire[c].up, sent, wire[c].toClient)
            /\ wire[c].toClient # <<>> =>
                 Changed(Client!Taken(Client!Sent(messages)), c, wire[c].up, sent,
                         Tail(wire[c].toClient))
<1>. DEFINE c == connections
            frames == Client!Framed(messages, client.outbound)
            sent == IF wire[c].up THEN wire[c].toServer \o frames ELSE wire[c].toServer
            from == wire[c].toClient
            w == Client!Sent(messages)
<1>1. /\ wire \in [1..MaxConnections -> Client!WireType] /\ client.outbound \in Nat
      /\ wire[c] \in Client!WireType /\ wire[c].up \in BOOLEAN
      /\ wire[c].toServer \in Seq(Client!Frame) /\ from \in Seq(Client!Frame)
  BY WireFields DEF TypeOK, Client!ClientType
<1>2. frames \in Seq(Client!Frame)
  BY <1>1, FramedMessages
<1>. HIDE DEF frames
<1>3. wire[c].toServer \o frames \in Seq(Client!Frame)
  BY <1>1, <1>2, EmptyConcatenation
<1>4. Changed(w, c, wire[c].up, sent, from)
  <2>1. CASE wire[c].up
    <3>1. w = [wire EXCEPT ![c].toServer = wire[c].toServer \o frames]
      BY <2>1 DEF Client!Sent, frames
    <3>. QED
      BY <1>1, <1>3, <2>1, <3>1, WireUpdates
  <2>2. CASE ~wire[c].up
    <3>1. w = wire
      BY <2>2 DEF Client!Sent
    <3>. QED
      BY <1>1, <2>2, <3>1 DEF Changed, IsConn
  <2>. QED
    BY <2>1, <2>2
<1>5. ASSUME from # <<>>
      PROVE  Changed(Client!Taken(w), c, wire[c].up, sent, Tail(from))
  <2>1. /\ w \in [1..MaxConnections -> Client!WireType] /\ w[c] \in Client!WireType
        /\ w[c].up = wire[c].up /\ w[c].toServer = sent /\ w[c].toClient = from
        /\ \A d \in 1..MaxConnections : d # c => w[d] = wire[d]
    BY <1>4 DEF Changed, IsConn
  <2>2. Tail(from) \in Seq(Client!Frame)
    BY <1>1, <1>5
  <2>. HIDE DEF w, sent, from
  <2>3. IsConn([w[c] EXCEPT !.toClient = Tail(from)], w[c].up, w[c].toServer, Tail(from))
    <3>1. w[c].toServer \in Seq(Client!Frame) /\ w[c].up \in BOOLEAN
      BY <2>1 DEF Client!WireType
    <3>. QED
      BY <2>1, <2>2, <3>1, ConnUpdates
  <2>4. Client!Taken(w) = [w EXCEPT ![c] = [w[c] EXCEPT !.toClient = Tail(from)]]
    BY <2>1 DEF Client!Taken
  <2>. QED
    BY <2>1, <2>3, <2>4 DEF Changed, IsConn
<1>. QED
  BY <1>4, <1>5 DEF frames

LEMMA CommandTalks ==
  ASSUME IInv, UNCHANGED serverVars, NEW type \in {"catalogRequest", "subscribe", "unsubscribe", "ping"},
         NEW arg, <<type, arg>> \in Message, NEW desired, Client!Command(type, arg, desired)
  PROVE  \E frames, rest \in Seq(Client!Frame) : Talks(frames, rest)
<1>. DEFINE c == connections
            messages == << <<type, arg>> >>
            frames == Client!Framed(messages, client.outbound)
            rest == wire[c].toClient
<1>1. /\ client.state = "ready" /\ Client!Connected /\ c \in 1..MaxConnections
      /\ client.outbound \in Nat /\ client \in Client!ClientType
      /\ wire[c].toServer \in Seq(Client!Frame) /\ rest \in Seq(Client!Frame)
  BY WireFields DEF Client!Command, IInv, ClientInv, TypeOK, Client!ClientType
<1>2. /\ client'.outbound = client.outbound + 1 /\ client'.lastInbound = client.lastInbound
      /\ client'.state = "ready" /\ Client!Connected' /\ wire' = Client!Sent(messages)
      /\ UNCHANGED <<backlog, connections, serverVars>>
  BY <1>1 DEF Client!Command, Client!ClientType, Client!Connected
<1>3. messages \in Seq(Message) /\ Len(messages) = 1 /\ DOMAIN messages = 1..1
      /\ \A i \in DOMAIN messages : messages[i][1] \in FromClient
  BY DEF FromClient
<1>. HIDE DEF messages
<1>4. /\ frames \in Seq(Client!Frame)
      /\ Numbered(frames, client.outbound, client'.outbound, FromClient)
  BY <1>1, <1>2, <1>3, FramedMessages, FramedNumbered
<1>5. Changed(wire', c, wire[c].up,
              IF wire[c].up THEN wire[c].toServer \o frames ELSE wire[c].toServer, rest)
  BY <1>1, <1>2, <1>3, SentChanges DEF IInv
<1>6. /\ Stream(rest, client.lastInbound, "hello", client.state = "ready", FromAgent)
      /\ server.at \in Serving /\ server.client = c =>
           client.lastInbound < NextNumber /\ Below(rest, NextNumber)
  BY <1>1 DEF IInv, ToClientInv, ToAgentInv
<1>7. (client.state = "ready") = TRUE /\ client'.outbound \in Nat /\ client.outbound <= client'.outbound
  BY <1>1, <1>2
<1>. HIDE DEF frames, rest
<1>8. Stream(rest, client'.lastInbound, "hello", TRUE, FromAgent)
  BY <1>2, <1>6, <1>7
<1>9. Talks(frames, rest)
  BY <1>1, <1>2, <1>4, <1>5, <1>6, <1>7, <1>8 DEF Talks, c
<1>. QED
  BY <1>1, <1>4, <1>9 DEF rest

LEMMA AnswerTalks ==
  ASSUME IInv, UNCHANGED serverVars, Client!HasInput, NEW d, NEW messages \in Seq(Message),
         Client!Answers(d, messages), client'.state = "ready", client'.socket = "connected",
         client'.outbound = client.outbound + Len(messages), client'.lastInbound = Client!Input.seq,
         \/ client.state = "ready" /\ \A i \in DOMAIN messages : messages[i][1] \in FromClient
         \/ /\ client.state = "awaitingHello" /\ messages # <<>>
            /\ \A i \in DOMAIN messages : messages[i][1] \in IF i = 1 THEN {"helloAck"} ELSE FromClient
  PROVE  \E frames, rest \in Seq(Client!Frame) : Talks(frames, rest)
<1>. DEFINE c == connections
            frames == Client!Framed(messages, client.outbound)
            from == wire[c].toClient
            rest == Tail(from)
<1>1. /\ Client!Connected /\ c \in 1..MaxConnections
      /\ client.outbound \in Nat /\ from # <<>> /\ Len(messages) \in Nat
      /\ wire[c].toServer \in Seq(Client!Frame) /\ from \in Seq(Client!Frame)
  BY WireFields DEF Client!HasInput, IInv, ClientInv, TypeOK, Client!ClientType
<1>2. /\ client'.outbound = client.outbound + Len(messages) /\ client'.lastInbound = from[1].seq
      /\ client'.state = "ready" /\ Client!Connected' /\ wire' = Client!Taken(Client!Sent(messages))
      /\ UNCHANGED <<backlog, connections, serverVars>>
  BY <1>1 DEF Client!Answers, Client!ClientType, Client!Connected, Client!Input
<1>3. /\ frames \in Seq(Client!Frame) /\ Len(frames) = Len(messages)
  BY <1>1, FramedMessages
<1>4. \/ client.state = "ready" /\ Numbered(frames, client.outbound, client'.outbound, FromClient)
      \/ /\ client.state = "awaitingHello" /\ frames # <<>> /\ Below(frames, client'.outbound)
         /\ \A last \in Int : last < client.outbound =>
              Stream(frames, last, "helloAck", FALSE, FromClient)
  <2>1. CASE client.state = "ready" /\ \A i \in DOMAIN messages : messages[i][1] \in FromClient
    BY <1>1, <1>2, <2>1, FramedNumbered
  <2>2. CASE /\ client.state = "awaitingHello" /\ messages # <<>>
             /\ \A i \in DOMAIN messages : messages[i][1] \in IF i = 1 THEN {"helloAck"} ELSE FromClient
    <3>1. Len(frames) # 0
      BY <1>3, <2>2
    <3>2. frames # <<>>
      BY <3>1
    <3>3. \A last \in Int : last < client.outbound =>
            /\ Stream(frames, last, "helloAck", FALSE, FromClient)
            /\ Below(frames, client.outbound + Len(messages))
      BY <1>1, <2>2, FramedStream
    <3>4. -1 \in Int /\ -1 < client.outbound
      BY <1>1
    <3>. HIDE DEF frames
    <3>. QED
      BY <1>2, <2>2, <3>2, <3>3, <3>4
  <2>. QED
    BY <2>1, <2>2
<1>5. Changed(wire', c, wire[c].up,
              IF wire[c].up THEN wire[c].toServer \o frames ELSE wire[c].toServer, rest)
  BY <1>1, <1>2, SentChanges DEF IInv
<1>6. /\ rest \in Seq(Client!Frame)
      /\ Stream(rest, from[1].seq, "hello", TRUE, FromAgent)
      /\ \A m : Below(from, m) => Below(rest, m)
  <2>1. Stream(from, client.lastInbound, "hello", client.state = "ready", FromAgent)
    BY <1>1 DEF IInv, ToClientInv
  <2>. HIDE DEF from
  <2>. QED
    BY <1>1, <2>1, StreamTail
<1>7. server.at \in Serving /\ server.client = c =>
           from[1].seq < NextNumber /\ Below(from, NextNumber)
  <2>1. 1 \in DOMAIN from
    BY <1>1
  <2>. QED
    BY <2>1 DEF IInv, ToAgentInv, Below
<1>8. client.outbound <= client'.outbound /\ client'.outbound \in Nat
  BY <1>1, <1>2
<1>9. client.state = "ready" \/ from # <<>>
  BY <1>1
<1>. HIDE DEF frames, rest
<1>10. Talks(frames, rest)
  BY <1>1, <1>2, <1>4, <1>5, <1>6, <1>7, <1>8, <1>9 DEF Talks, c
<1>. QED
  BY <1>3, <1>6, <1>10

LEMMA ReadFrameTalks ==
  ASSUME IInv, UNCHANGED serverVars, Client!ReadFrame
  PROVE  \E frames, rest \in Seq(Client!Frame) : Talks(frames, rest)
<1>1. /\ Client!HasInput /\ Client!Expected /\ Client!Input \in Client!Frame
      /\ Client!Input.type = "hello" => client.state = "awaitingHello"
      /\ Client!Input.type # "hello" => client.state = "ready"
  BY ExpectedInput DEF Client!ReadFrame, IInv
<1>2. client \in Client!ClientType /\ client.socket = "connected"
  BY <1>1 DEF IInv, TypeOK, Client!HasInput, Client!Connected
<1>3. CASE Client!Input.type = "hello"
  <2>1. PICK order \in Client!SetToSeqs(client.desired) :
          Client!Answers([client EXCEPT !.handshakeTimer = FALSE, !.state = "ready"],
                         Client!Greeting(order))
    BY <1>1, <1>3 DEF Client!ReadFrame, Client!AcceptHello
  <2>. DEFINE d == [client EXCEPT !.handshakeTimer = FALSE, !.state = "ready"]
              g == Client!Greeting(order)
  <2>2. client.desired \in SUBSET Keys /\ IsFiniteSet(client.desired)
    BY <1>2 DEF IInv, ClientInv, Client!ClientType
  <2>3. /\ g \in Seq(Message) /\ order \in Seq(client.desired) /\ Len(g) = Len(order) + 3
        /\ g[1] = <<"helloAck", 0>> /\ g[2] = <<"catalogRequest", 0>>
        /\ \A i \in 1..Len(order) : g[i + 2] = <<"subscribe", order[i]>>
        /\ g[Len(order) + 3] = <<"ping", 0>>
    <3>. HIDE DEF g
    <3>. QED
      BY <2>2, GreetingMessages DEF g
  <2>4. Len(g) \in Nat
    BY <2>3
  <2>. HIDE DEF g
  <2>5. client' = [state |-> "ready", desiredOpen |-> client.desiredOpen,
                  autoReconnect |-> client.autoReconnect, socket |-> client.socket,
                  handshakeTimer |-> FALSE, reconnectTimer |-> client.reconnectTimer,
                  lastInbound |-> Client!Input.seq, outbound |-> client.outbound + Len(g),
                  desired |-> client.desired, revision |-> client.revision]
    BY <1>2, <2>1, ClientFields DEF Client!Answers, g
  <2>6. Len(order) \in Nat /\ DOMAIN g = 1..(Len(order) + 3) /\ g # <<>>
    <3>1. Len(order) \in Nat
      BY <2>3
    <3>2. DOMAIN g = 1..(Len(order) + 3)
      BY <2>3
    <3>3. Len(<<>>) = 0 /\ Len(order) + 3 # 0
      BY <3>1
    <3>. QED
      BY <2>3, <3>1, <3>2, <3>3
  <2>. HIDE DEF d
  <2>7. ASSUME NEW i \in DOMAIN g
        PROVE g[i][1] \in IF i = 1 THEN {"helloAck"} ELSE FromClient
    <3>1. CASE i = 1
      BY <2>3, <3>1
    <3>2. CASE i = 2
      BY <2>3, <3>2 DEF FromClient
    <3>3. CASE i = Len(order) + 3
      BY <2>3, <2>6, <3>3 DEF FromClient
    <3>4. CASE i \in 3..(Len(order) + 2)
      <4>1. i - 2 \in 1..Len(order) /\ (i - 2) + 2 = i /\ i # 1
        BY <2>6, <3>4
      <4>2. g[i] = <<"subscribe", order[i - 2]>>
        BY <2>3, <4>1
      <4>. QED
        BY <4>1, <4>2 DEF FromClient
    <3>. QED
      BY <2>6, <3>1, <3>2, <3>3, <3>4
  <2>. QED
    <3>1. Client!Answers(d, g) /\ client.state = "awaitingHello"
      BY <1>1, <1>3, <2>1 DEF d, g
    <3>. QED
      BY <1>1, <1>2, <2>3, <2>5, <2>6, <2>7, <3>1, AnswerTalks
<1>4. CASE Client!Input.type # "hello"
  <2>0. client.state = "ready" /\ client.outbound \in Nat
    BY <1>1, <1>2, <1>4 DEF Client!ClientType
  <2>1. Client!HandleFrame
    BY <1>1, <1>4 DEF Client!ReadFrame
  <2>2. <<>> \in Seq(Message) /\ DOMAIN <<>> = {}
    OBVIOUS
  <2>3. CASE Client!Input.type = "catalog"
    <3>. DEFINE d == [client EXCEPT !.revision = Client!Input.arg]
    <3>1. Client!Answers(d, <<>>)
      BY <2>1, <2>3 DEF Client!HandleFrame
    <3>2. Client!Input.arg \in Nat
      BY <1>1, <2>3 DEF Client!Frame
    <3>3. /\ client'.state = "ready" /\ client'.socket = "connected"
          /\ client'.outbound = client.outbound + Len(<<>>)
          /\ client'.lastInbound = Client!Input.seq
      BY <1>2, <2>0, <3>1 DEF Client!ClientType, Client!Answers
    <3>. HIDE DEF d
    <3>. QED
      BY <1>1, <2>0, <2>2, <3>1, <3>3, AnswerTalks
  <2>4. CASE Client!Input.type \in {"sample", "error", "pong"}
    <3>1. Client!Answers(client, <<>>)
      BY <2>1, <2>4 DEF Client!HandleFrame
    <3>2. /\ client'.state = "ready" /\ client'.socket = "connected"
          /\ client'.outbound = client.outbound + Len(<<>>)
          /\ client'.lastInbound = Client!Input.seq
      BY <1>2, <2>0, <3>1 DEF Client!ClientType, Client!Answers
    <3>. QED
      BY <1>1, <2>0, <2>2, <3>1, <3>2, AnswerTalks
  <2>5. CASE Client!Input.type = "ping"
    <3>. DEFINE m == <<"pong", Client!Input.arg>>
    <3>1. Client!Answers(client, <<m>>)
      BY <2>1, <2>5 DEF Client!HandleFrame
    <3>2. Client!Input.arg \in Nat
      BY <1>1, <2>5 DEF Client!Frame
    <3>3. m \in Message /\ m[1] = "pong"
      BY <3>2 DEF Message, Client!FrameTypes
    <3>. HIDE DEF m
    <3>4. <<m>> \in Seq(Message) /\ \A i \in DOMAIN <<m>> : <<m>>[i][1] \in FromClient
      BY <3>3 DEF FromClient
    <3>5. /\ client'.state = "ready" /\ client'.socket = "connected"
          /\ client'.outbound = client.outbound + Len(<<m>>)
          /\ client'.lastInbound = Client!Input.seq
      BY <1>2, <2>0, <3>1 DEF Client!ClientType, Client!Answers
    <3>. QED
      BY <1>1, <2>0, <3>1, <3>4, <3>5, AnswerTalks
  <2>. QED
    BY <2>1, <2>3, <2>4, <2>5 DEF Client!HandleFrame
<1>. QED
  BY <1>3, <1>4

LEMMA ClientKeeps ==
  ASSUME IInv, Client!ClientStep, UNCHANGED serverVars
  PROVE  IInv'
<1>1. client' \in Client!ClientType /\ connections' \in 0..MaxConnections /\ ClientInv'
  BY ClientRemains DEF IInv
<1>2. failures' \in Nat /\ events' \in Nat
  <2>1. failures \in Nat /\ events \in Nat
    BY DEF IInv, TypeOK
  <2>2. \/ failures' = failures \/ failures' = failures + 1
    BY DEF Client!ClientStep, Client!Open, Client!Close, Client!RequestTopicCatalog,
       Client!Subscribe, Client!Unsubscribe, Client!Command, Client!ConnectSucceeds,
       Client!ConnectFails, Client!ConnectionLost, Client!HandshakeTimeout,
       Client!ReconnectTimeout, Client!ClockSyncTimeout, Client!ReadFrame, Client!Breaks,
       Client!AcceptHello, Client!HandleFrame, Client!Answers, Client!Fails
  <2>3. \/ events' = events \/ events' = events + 1
    BY DEF Client!ClientStep, Client!Open, Client!Close, Client!RequestTopicCatalog,
       Client!Subscribe, Client!Unsubscribe, Client!Command, Client!ConnectSucceeds,
       Client!ConnectFails, Client!ConnectionLost, Client!HandshakeTimeout,
       Client!ReconnectTimeout, Client!ClockSyncTimeout, Client!ReadFrame, Client!Breaks,
       Client!AcceptHello, Client!HandleFrame, Client!Answers, Client!Happens
  <2>. QED
    BY <2>1, <2>2, <2>3
<1>3. ServerInv' /\ server' = server /\ session' = session /\ io' = io /\ job' = job
      /\ node' = node /\ graph' = graph /\ refused' = refused
  BY DEF IInv, ServerInv, serverVars, Agent!Threads
<1>. DEFINE Rest == /\ wire' \in [1..MaxConnections -> Client!WireType]
                    /\ backlog' \in Seq(1..MaxConnections)
                    /\ QueueInv' /\ ToAgentInv' /\ ToClientInv'
<1>4. ASSUME Quiet PROVE Rest
  BY <1>4, QuietKeeps DEF Quiet, Shrunk, IInv, TypeOK
<1>5. ASSUME \E frames, rest \in Seq(Client!Frame) : Talks(frames, rest) PROVE Rest
  BY <1>5, TalkKeeps DEF Talks, IInv, TypeOK
<1>6. Rest
  <2>1. CASE \/ \E valid, auto \in BOOLEAN : Client!Open(valid, auto)
             \/ Client!Close \/ Client!ConnectFails \/ Client!HandshakeTimeout
             \/ Client!ReconnectTimeout
             \/ \E orderly \in BOOLEAN : Client!ConnectionLost(orderly)
    BY <1>4, <2>1, QuietSteps
  <2>2. CASE Client!ConnectSucceeds
    BY <2>2, ConnectKeeps
  <2>3. CASE Client!RequestTopicCatalog \/ Client!ClockSyncTimeout
    <3>1. <<"catalogRequest", 0>> \in Message /\ <<"ping", 0>> \in Message
      BY DEF Message, Client!FrameTypes
    <3>. QED
      BY <1>5, <2>3, <3>1, CommandTalks DEF Client!RequestTopicCatalog, Client!ClockSyncTimeout
  <2>4. ASSUME NEW k \in Keys, Client!Subscribe(k) \/ Client!Unsubscribe(k) PROVE Rest
    <3>1. <<"subscribe", k>> \in Message /\ <<"unsubscribe", k>> \in Message
      BY DEF Message, Client!FrameTypes
    <3>. QED
      BY <1>5, <2>4, <3>1, CommandTalks DEF Client!Subscribe, Client!Unsubscribe
  <2>5. CASE Client!ReadFrame
    BY <1>5, <2>5, ReadFrameTalks
  <2>. HIDE DEF Rest
  <2>. QED
    BY <2>1, <2>2, <2>3, <2>4, <2>5 DEF Client!ClientStep
<1>7. TypeOK'
  BY <1>1, <1>2, <1>3, <1>6 DEF TypeOK, IInv
<1>. QED
  BY <1>1, <1>3, <1>6, <1>7 DEF IInv

LEMMA BreakKeeps ==
  ASSUME IInv, Break
  PROVE  IInv'
<1>. DEFINE c == connections
<1>1. /\ c \in 1..MaxConnections /\ wire \in [1..MaxConnections -> Client!WireType]
      /\ wire[c].toServer \in Seq(Client!Frame) /\ wire[c].toClient \in Seq(Client!Frame)
  BY WireFields DEF IInv, TypeOK, Break
<1>2. /\ UNCHANGED <<client, connections, backlog, events, server, session, io, job, node, graph, refused>>
      /\ failures' \in Nat /\ wire' = [wire EXCEPT ![c].up = FALSE]
  BY DEF Break, clientVars, serverVars, IInv, TypeOK
<1>3. Changed(wire', c, FALSE, wire[c].toServer, wire[c].toClient)
  BY <1>1, <1>2, WireUpdates
<1>4. /\ wire' \in [1..MaxConnections -> Client!WireType]
      /\ \A d \in 1..MaxConnections :
           /\ wire'[d].toServer = wire[d].toServer /\ wire'[d].toClient = wire[d].toClient
           /\ wire'[d].up => wire[d].up
  BY <1>3 DEF Changed, IsConn
<1>5. TypeOK'
  BY <1>2, <1>4 DEF IInv, TypeOK
<1>6. ClientInv' /\ ServerInv'
  BY <1>2 DEF IInv, ClientInv, TimersMatchState, Client!Connected, ServerInv, Agent!Threads
<1>7. QueueInv'
  BY <1>2, <1>4 DEF IInv, QueueInv
<1>8. NextNumber' = NextNumber /\ \A d : Fresh(d)' = Fresh(d)
  BY <1>2 DEF NextNumber, Fresh
<1>9. ToAgentInv'
  <2>1. server.at \in Serving => server.client \in 1..MaxConnections
    BY DEF IInv, ServerInv, TypeOK, Agent!ServerType
  <2>. QED
    BY <1>2, <1>4, <1>8, <2>1 DEF IInv, ToAgentInv
<1>10. ToClientInv'
  <2>1. Client!Connected' = Client!Connected
    BY <1>2 DEF Client!Connected
  <2>. QED
    BY <1>1, <1>2, <1>4, <1>8, <2>1 DEF IInv, ToClientInv
<1>. QED
  BY <1>5, <1>6, <1>7, <1>9, <1>10 DEF IInv

-----------------------------------------------------------------------------
(* The steps of the agent. *)

LEMMA ThreadCases ==
  ASSUME Agent!ServerThread
  PROVE  \/ Agent!Accept \/ Agent!ClientGone \/ Agent!CloseClient \/ Agent!ResetSession
         \/ Agent!ClearSubscriptions \/ Agent!ActionsDone
         \/ Agent!CatalogRequested \/ Agent!SubscribeTopic \/ Agent!UnsubscribeTopic
         \/ \E sent \in BOOLEAN : Agent!SayHello(sent)
         \/ \E sent \in BOOLEAN : server.client # 0
               /\ \E n \in 1..Len(wire[server.client].toServer) : Agent!Receive(n, sent)
  BY Zenon DEF Agent!ServerThread

LEMMA StepCases ==
  ASSUME Agent!ServerStep
  PROVE  \/ Agent!ServerThread \/ Agent!AcceptFails \/ Agent!RefreshGraph \/ Agent!Heartbeat
         \/ \E k \in Keys : Agent!HandleSerializedMessage(k)
         \/ \E k \in Keys : Agent!GraphChanges(k)
         \/ \E t \in Agent!Threads : Agent!Publication(t)
  BY Zenon DEF Agent!ServerStep

-----------------------------------------------------------------------------
(* The agent keeps its types. *)

ServerPlaces == {"accept", "hello", "recv", "act", "close", "reset", "forget", "ended"}

LEMMA ServerUpdates ==
  ASSUME NEW s \in Agent!ServerType
  PROVE  /\ s.at \in ServerPlaces /\ s.client \in 0..MaxConnections /\ s.fatal \in BOOLEAN
         /\ s.todo \in Seq(Agent!Request)
         /\ \A at \in ServerPlaces : [s EXCEPT !.at = at] \in Agent!ServerType
         /\ \A todo \in Seq(Agent!Request) : [s EXCEPT !.todo = todo] \in Agent!ServerType
  BY DEF Agent!ServerType, ServerPlaces

JobPlaces == {"none", "read", "stamp", "store", "want", "send"}

LEMMA NewJob ==
  ASSUME NEW at \in JobPlaces, NEW type \in {"none", "catalog", "error", "ping"}
  PROVE  /\ Agent!NoJob \in Agent!JobType
         /\ [Agent!NoJob EXCEPT !.at = at, !.type = type] \in Agent!JobType
  BY DEF Agent!NoJob, Agent!JobType, JobPlaces

LEMMA NewCatalogJob ==
  ASSUME NEW at \in JobPlaces, NEW type \in {"catalog"}, NEW n \in Nat
  PROVE  [Agent!NoJob EXCEPT !.at = at, !.type = type, !.arg = n] \in Agent!JobType
  BY DEF Agent!NoJob, Agent!JobType, JobPlaces

LEMMA NewSampleJob ==
  ASSUME NEW at \in {"want"}, NEW type \in {"sample"}, NEW k \in Keys
  PROVE  [Agent!NoJob EXCEPT !.at = at, !.type = type, !.arg = k] \in Agent!JobType
  BY DEF Agent!NoJob, Agent!JobType

LEMMA JobUpdates ==
  ASSUME NEW j \in Agent!JobType, NEW at \in JobPlaces, NEW seen \in SUBSET Keys, NEW seq \in Nat
  PROVE  /\ [j EXCEPT !.at = at, !.seen = seen] \in Agent!JobType
         /\ [j EXCEPT !.at = at, !.seq = seq] \in Agent!JobType
         /\ [j EXCEPT !.at = at] \in Agent!JobType
<1>1. [j EXCEPT !.at = at, !.seen = seen] \in Agent!JobType
  BY DEF Agent!JobType, JobPlaces
<1>2. [j EXCEPT !.at = at, !.seq = seq] \in Agent!JobType
  BY DEF Agent!JobType, JobPlaces
<1>3. [j EXCEPT !.at = at] \in Agent!JobType
  BY DEF Agent!JobType, JobPlaces
<1>. QED
  BY <1>1, <1>2, <1>3

LEMMA JobFields ==
  ASSUME NEW j \in Agent!JobType
  PROVE  /\ j.at \in JobPlaces /\ j.type \in {"none", "catalog", "sample", "error", "ping"}
         /\ j.seen \in SUBSET Keys /\ j.seq \in Nat
         /\ IF j.type = "sample" THEN j.arg \in Keys ELSE j.arg \in Nat
  BY DEF Agent!JobType, JobPlaces

(* A step of thread t with its job. *)
LEMMA JobChanged ==
  ASSUME job \in [Agent!Threads -> Agent!JobType], NEW t \in Agent!Threads, NEW j, Agent!JobOf(t, j)
  PROVE  /\ job'[t] = j /\ \A u \in Agent!Threads : u # t => job'[u] = job[u]
         /\ j \in Agent!JobType => job' \in [Agent!Threads -> Agent!JobType]
  BY DEF Agent!JobOf

(* What a step of the agent does to the job of a thread. *)
JobsKept == job' \in [Agent!Threads -> Agent!JobType]

LEMMA CallbackJobs ==
  ASSUME TypeOK, Agent!RefreshGraph \/ Agent!Heartbeat \/ \E k \in Keys : Agent!HandleSerializedMessage(k)
  PROVE  /\ JobsKept /\ job["ros"].at = "none"
         /\ job'["server"] = job["server"]
         /\ job'["ros"].at \in {"read", "want"}
         /\ job'["ros"].type \in FromAgent
<1>. DEFINE Made(j) == /\ j \in Agent!JobType /\ j.at \in {"read", "want"} /\ j.type \in FromAgent
<1>1. Made([Agent!NoJob EXCEPT !.at = "read", !.type = "catalog"])
  <2>1. [Agent!NoJob EXCEPT !.at = "read", !.type = "catalog"] \in Agent!JobType
    BY NewJob, Zenon DEF JobPlaces
  <2>. QED
    BY <2>1 DEF Agent!NoJob, FromAgent
<1>2. Made([Agent!NoJob EXCEPT !.at = "want", !.type = "ping"])
  <2>1. [Agent!NoJob EXCEPT !.at = "want", !.type = "ping"] \in Agent!JobType
    BY NewJob, Zenon DEF JobPlaces
  <2>. QED
    BY <2>1 DEF Agent!NoJob, FromAgent
<1>3. ASSUME NEW k \in Keys PROVE Made([Agent!NoJob EXCEPT !.at = "want", !.type = "sample", !.arg = k])
  <2>1. [Agent!NoJob EXCEPT !.at = "want", !.type = "sample", !.arg = k] \in Agent!JobType
    BY NewSampleJob, Zenon
  <2>. QED
    BY <2>1 DEF Agent!NoJob, FromAgent
<1>4. \E j : Made(j) /\ Agent!Called(j)
  <2>1. CASE Agent!RefreshGraph
    BY <1>1, <2>1, Zenon DEF Agent!RefreshGraph
  <2>2. CASE Agent!Heartbeat
    BY <1>2, <2>2, Zenon DEF Agent!Heartbeat
  <2>3. ASSUME NEW k \in Keys, Agent!HandleSerializedMessage(k) PROVE \E j : Made(j) /\ Agent!Called(j)
    BY <1>3, <2>3, Zenon DEF Agent!HandleSerializedMessage
  <2>. QED
    BY <2>1, <2>2, <2>3
<1>5. PICK j : Made(j) /\ Agent!Called(j)
  BY <1>4
<1>6. job["ros"].at = "none" /\ Agent!JobOf("ros", j)
  BY <1>5 DEF Agent!Called
<1>7. "ros" \in Agent!Threads /\ "server" \in Agent!Threads /\ job \in [Agent!Threads -> Agent!JobType]
  BY DEF Agent!Threads, TypeOK
<1>8. /\ job'["ros"] = j /\ job'["server"] = job["server"]
      /\ j \in Agent!JobType => job' \in [Agent!Threads -> Agent!JobType]
  BY <1>6, <1>7, JobChanged
<1>. QED
  BY <1>5, <1>6, <1>8 DEF JobsKept

LEMMA PublicationJobs ==
  ASSUME TypeOK, ServerInv, NEW t \in Agent!Threads, Agent!Publication(t)
  PROVE  /\ JobsKept /\ \A u \in Agent!Threads : u # t => job'[u] = job[u]
         /\ job'[t].at \in {"want", "send"} => job'[t].type \in FromAgent
         /\ job'[t].at = "store" => job'[t].type = "catalog"
         /\ job'[t].at = "send" => Agent!MakeFrame(t)
<1>1. /\ job \in [Agent!Threads -> Agent!JobType] /\ job[t] \in Agent!JobType
      /\ graph \in SUBSET Keys /\ session.outbound \in Nat /\ node.revision \in Nat
  BY DEF TypeOK, Agent!SessionType, Agent!NodeType
<1>2. /\ job[t].at \in {"want", "send"} => job[t].type \in FromAgent
      /\ job[t].at = "store" => job[t].type = "catalog"
  BY DEF ServerInv
<1>. DEFINE Good(j) == /\ j \in Agent!JobType
                       /\ j.at \in {"want", "send"} => j.type \in FromAgent
                       /\ j.at = "store" => j.type = "catalog"
                       /\ j.at = "send" => Agent!MakeFrame(t)
<1>3. Agent!NoJob \in Agent!JobType
  BY NewJob, Zenon DEF JobPlaces
<1>4. Good(Agent!NoJob)
  BY <1>3 DEF Agent!NoJob
<1>5. \E j : Good(j) /\ Agent!JobOf(t, j)
  <2>1. CASE Agent!ReadGraph(t)
    <3>. DEFINE j == [job[t] EXCEPT !.at = "stamp", !.seen = graph]
    <3>1. Agent!JobOf(t, j)
      BY <2>1 DEF Agent!ReadGraph
    <3>2. j \in Agent!JobType
      <4>1. "stamp" \in JobPlaces
        BY DEF JobPlaces
      <4>. QED
        BY <1>1, <4>1, JobUpdates, Zenon
    <3>3. j.at = "stamp"
      BY <1>1 DEF Agent!JobType
    <3>. QED
      BY <3>1, <3>2, <3>3
  <2>2. CASE Agent!StampCatalog(t)
    <3>1. PICK n \in Nat, at \in {"store", "want"} :
            \/ Agent!JobOf(t, Agent!NoJob)
            \/ Agent!JobOf(t, [Agent!NoJob EXCEPT !.at = at, !.type = "catalog", !.arg = n])
      <4>. DEFINE n == IF node.revision = 0 \/ job[t].seen # node.signature
                         THEN node.revision + 1 ELSE node.revision
                  at == IF t = "server" THEN "store" ELSE "want"
      <4>1. \/ Agent!JobOf(t, Agent!NoJob)
            \/ Agent!JobOf(t, [Agent!NoJob EXCEPT !.at = at, !.type = "catalog", !.arg = n])
        BY <2>2 DEF Agent!StampCatalog
      <4>2. n \in Nat /\ at \in {"store", "want"}
        BY <1>1
      <4>. HIDE DEF n, at
      <4>. QED
        BY <4>1, <4>2
    <3>. DEFINE j == [Agent!NoJob EXCEPT !.at = at, !.type = "catalog", !.arg = n]
    <3>2. j \in Agent!JobType
      <4>1. at \in JobPlaces
        BY DEF JobPlaces
      <4>. QED
        BY <4>1, NewCatalogJob, Zenon
    <3>3. j.at = at /\ j.type = "catalog"
      BY DEF Agent!NoJob
    <3>4. Good(j)
      BY <3>2, <3>3 DEF FromAgent
    <3>. HIDE DEF Good
    <3>. QED
      BY <1>4, <3>1, <3>4
  <2>3. CASE Agent!StoreRevision(t)
    <3>. DEFINE j == [job[t] EXCEPT !.at = "want"]
    <3>1. Agent!JobOf(t, j) \/ Agent!JobOf(t, Agent!NoJob)
      BY <2>3 DEF Agent!StoreRevision
    <3>2. j \in Agent!JobType
      <4>1. "want" \in JobPlaces /\ {} \in SUBSET Keys /\ 0 \in Nat
        BY DEF JobPlaces
      <4>. QED
        BY <1>1, <4>1, JobUpdates, Zenon
    <3>3. j.at = "want" /\ j.type = "catalog"
      BY <1>1, <1>2, <2>3 DEF Agent!JobType, Agent!StoreRevision
    <3>4. Good(j)
      BY <3>2, <3>3 DEF FromAgent
    <3>. HIDE DEF Good
    <3>. QED
      BY <1>4, <3>1, <3>4
  <2>4. CASE Agent!MakeFrame(t)
    <3>. DEFINE j == [job[t] EXCEPT !.at = "send", !.seq = session.outbound]
    <3>1. Agent!JobOf(t, j) \/ Agent!JobOf(t, Agent!NoJob)
      BY <2>4 DEF Agent!MakeFrame
    <3>2. j \in Agent!JobType
      <4>1. "send" \in JobPlaces /\ {} \in SUBSET Keys
        BY DEF JobPlaces
      <4>. QED
        BY <1>1, <4>1, JobUpdates, Zenon
    <3>3. j.at = "send" /\ j.type \in FromAgent
      BY <1>1, <1>2, <2>4 DEF Agent!JobType, Agent!MakeFrame
    <3>4. Good(j)
      BY <2>4, <3>2, <3>3
    <3>. HIDE DEF Good
    <3>. QED
      BY <1>4, <3>1, <3>4
  <2>5. CASE Agent!SendFrame(t)
    <3>. DEFINE j == [job[t] EXCEPT !.at = "store"]
    <3>1. \/ Agent!JobOf(t, Agent!NoJob)
          \/ job[t].type = "catalog" /\ Agent!JobOf(t, j)
      BY <2>5 DEF Agent!SendFrame
    <3>2. j \in Agent!JobType
      <4>1. "store" \in JobPlaces /\ {} \in SUBSET Keys /\ 0 \in Nat
        BY DEF JobPlaces
      <4>. QED
        BY <1>1, <4>1, JobUpdates, Zenon
    <3>3. j.at = "store" /\ j.type = job[t].type
      BY <1>1 DEF Agent!JobType
    <3>4. job[t].type = "catalog" => Good(j)
      BY <3>2, <3>3
    <3>. HIDE DEF Good
    <3>. QED
      BY <1>4, <3>1, <3>4
  <2>. QED
    BY <2>1, <2>2, <2>3, <2>4, <2>5 DEF Agent!Publication
<1>6. PICK j : Good(j) /\ Agent!JobOf(t, j)
  BY <1>5
<1>7. job'[t] = j /\ (\A u \in Agent!Threads : u # t => job'[u] = job[u]) /\ JobsKept
  BY <1>1, <1>6, JobChanged DEF JobsKept
<1>. QED
  BY <1>6, <1>7

LEMMA ActionJobs ==
  ASSUME TypeOK, Agent!CatalogRequested \/ Agent!SubscribeTopic \/ Agent!UnsubscribeTopic
  PROVE  /\ JobsKept /\ job["server"].at = "none"
         /\ job'["ros"] = job["ros"]
         /\ job'["server"].at \in {"none", "read", "want"}
         /\ job'["server"].at = "want" => job'["server"].type \in FromAgent
<1>1. "ros" \in Agent!Threads /\ "server" \in Agent!Threads /\ job \in [Agent!Threads -> Agent!JobType]
  BY DEF Agent!Threads, TypeOK
<1>2. job["server"].at = "none"
  BY DEF Agent!CatalogRequested, Agent!SubscribeTopic, Agent!UnsubscribeTopic, Agent!Acting
<1>. DEFINE Made(j) == /\ j \in Agent!JobType /\ j.at \in {"read", "want"} /\ j.type \in FromAgent
<1>3. Made([Agent!NoJob EXCEPT !.at = "read", !.type = "catalog"])
  <2>1. [Agent!NoJob EXCEPT !.at = "read", !.type = "catalog"] \in Agent!JobType
    BY NewJob, Zenon DEF JobPlaces
  <2>. QED
    BY <2>1 DEF Agent!NoJob, FromAgent
<1>4. Made([Agent!NoJob EXCEPT !.at = "want", !.type = "error"])
  <2>1. [Agent!NoJob EXCEPT !.at = "want", !.type = "error"] \in Agent!JobType
    BY NewJob, Zenon DEF JobPlaces
  <2>. QED
    BY <2>1 DEF Agent!NoJob, FromAgent
<1>5. job' = job \/ \E j : Made(j) /\ Agent!JobOf("server", j)
  <2>1. CASE Agent!CatalogRequested
    BY <1>3, <2>1, Zenon DEF Agent!CatalogRequested
  <2>2. CASE Agent!SubscribeTopic
    <3>1. job' = job \/ Agent!JobOf("server", [Agent!NoJob EXCEPT !.at = "want", !.type = "error"])
      BY <2>2 DEF Agent!SubscribeTopic
    <3>. QED
      BY <1>4, <3>1, Zenon
  <2>3. CASE Agent!UnsubscribeTopic
    <3>1. job' = job \/ Agent!JobOf("server", [Agent!NoJob EXCEPT !.at = "want", !.type = "error"])
      BY <2>3 DEF Agent!UnsubscribeTopic
    <3>. QED
      BY <1>4, <3>1, Zenon
  <2>. QED
    BY <2>1, <2>2, <2>3
<1>6. CASE job' = job
  BY <1>1, <1>2, <1>6 DEF JobsKept
<1>7. ASSUME NEW j, Made(j), Agent!JobOf("server", j)
      PROVE /\ JobsKept /\ job'["ros"] = job["ros"]
            /\ job'["server"].at \in {"none", "read", "want"}
            /\ job'["server"].at = "want" => job'["server"].type \in FromAgent
  <2>1. /\ job'["server"] = j /\ job'["ros"] = job["ros"]
        /\ j \in Agent!JobType => job' \in [Agent!Threads -> Agent!JobType]
    BY <1>1, <1>7, JobChanged
  <2>. QED
    BY <1>7, <2>1 DEF JobsKept
<1>. QED
  BY <1>2, <1>5, <1>6, <1>7

LEMMA ServerJobs ==
  ASSUME TypeOK, ServerInv, Agent!ServerStep
  PROVE  /\ JobsKept
         /\ \A t \in Agent!Threads :
              /\ job'[t].at = "send" => job'[t] = job[t] \/ Agent!MakeFrame(t)
              /\ job[t].at = "send" => job'[t] = job[t] \/ Agent!SendFrame(t)
              /\ job'[t].at \in {"want", "send"} => job'[t].type \in FromAgent
              /\ job'[t].at = "store" => job'[t].type = "catalog"
<1>. DEFINE Good(t) == /\ job'[t].at = "send" => job'[t] = job[t] \/ Agent!MakeFrame(t)
                       /\ job[t].at = "send" => job'[t] = job[t] \/ Agent!SendFrame(t)
                       /\ job'[t].at \in {"want", "send"} => job'[t].type \in FromAgent
                       /\ job'[t].at = "store" => job'[t].type = "catalog"
            Goal == JobsKept /\ \A t \in Agent!Threads : Good(t)
<1>1. /\ Agent!Threads = {"server", "ros"} /\ job \in [Agent!Threads -> Agent!JobType]
      /\ \A t \in Agent!Threads : /\ job[t].at \in {"want", "send"} => job[t].type \in FromAgent
                                  /\ job[t].at = "store" => job[t].type = "catalog"
  BY DEF Agent!Threads, TypeOK, ServerInv
<1>2. ASSUME job' = job PROVE Goal
  BY <1>1, <1>2 DEF JobsKept
<1>3. ASSUME \/ Agent!RefreshGraph \/ Agent!Heartbeat
             \/ \E k \in Keys : Agent!HandleSerializedMessage(k)
      PROVE  Goal
  <2>1. /\ JobsKept /\ job["ros"].at = "none" /\ job'["server"] = job["server"]
        /\ job'["ros"].at \in {"read", "want"} /\ job'["ros"].type \in FromAgent
    BY <1>3, CallbackJobs
  <2>. QED
    BY <1>1, <2>1
<1>4. ASSUME Agent!CatalogRequested \/ Agent!SubscribeTopic \/ Agent!UnsubscribeTopic PROVE Goal
  <2>1. /\ JobsKept /\ job["server"].at = "none" /\ job'["ros"] = job["ros"]
        /\ job'["server"].at \in {"none", "read", "want"}
        /\ job'["server"].at = "want" => job'["server"].type \in FromAgent
    BY <1>4, ActionJobs
  <2>. QED
    BY <1>1, <2>1
<1>5. ASSUME NEW t \in Agent!Threads, Agent!Publication(t) PROVE Goal
  <2>1. /\ JobsKept /\ \A u \in Agent!Threads : u # t => job'[u] = job[u]
        /\ job'[t].at \in {"want", "send"} => job'[t].type \in FromAgent
        /\ job'[t].at = "store" => job'[t].type = "catalog"
        /\ job'[t].at = "send" => Agent!MakeFrame(t)
    BY <1>5, PublicationJobs
  <2>2. job[t].at = "send" => Agent!SendFrame(t)
    BY <1>5 DEF Agent!Publication, Agent!ReadGraph, Agent!StampCatalog, Agent!StoreRevision,
       Agent!MakeFrame
  <2>. QED
    BY <1>1, <2>1, <2>2
<1>6. ASSUME \/ Agent!Accept \/ Agent!ClientGone \/ Agent!CloseClient \/ Agent!ResetSession
             \/ Agent!ClearSubscriptions \/ Agent!ActionsDone \/ Agent!AcceptFails
      PROVE  Goal
  <2>1. job' = job
    BY <1>6 DEF Agent!Accept, Agent!ClientGone, Agent!CloseClient, Agent!ResetSession,
       Agent!ClearSubscriptions, Agent!ActionsDone, Agent!AcceptFails
  <2>. QED
    BY <1>2, <2>1
<1>7. ASSUME NEW sent \in BOOLEAN, NEW n, Agent!SayHello(sent) \/ Agent!Receive(n, sent) PROVE Goal
  <2>1. job' = job
    BY <1>7 DEF Agent!SayHello, Agent!Receive
  <2>. QED
    BY <1>2, <2>1
<1>8. ASSUME NEW k \in Keys, Agent!GraphChanges(k) PROVE Goal
  <2>1. job' = job
    BY <1>8 DEF Agent!GraphChanges
  <2>. QED
    BY <1>2, <2>1
<1>. HIDE DEF Goal
<1>9. ASSUME Agent!ServerThread PROVE Goal
  BY <1>4, <1>6, <1>7, <1>9, ThreadCases
<1>10. Goal
  BY <1>3, <1>5, <1>6, <1>8, <1>9, StepCases
<1>. QED
  BY <1>10 DEF Goal

-----------------------------------------------------------------------------
(* The agent keeps its part of the invariant. *)

LEMMA IoSteps ==
  ASSUME Agent!ServerStep, \A t \in Agent!Threads : ~Agent!MakeFrame(t) /\ ~Agent!SendFrame(t)
  PROVE  io' = io /\ (io # "free" => session' = session)
<1>1. CASE Agent!ServerThread
  BY <1>1 DEF Agent!ServerThread, Agent!Accept, Agent!SayHello, Agent!Receive, Agent!ClientGone,
     Agent!CloseClient, Agent!ResetSession, Agent!ClearSubscriptions, Agent!ActionsDone,
     Agent!CatalogRequested, Agent!SubscribeTopic, Agent!UnsubscribeTopic, Agent!IoFree
<1>2. CASE \/ Agent!AcceptFails \/ Agent!RefreshGraph \/ Agent!Heartbeat
           \/ \E k \in Keys : Agent!HandleSerializedMessage(k) \/ Agent!GraphChanges(k)
  BY <1>2 DEF Agent!AcceptFails, Agent!RefreshGraph, Agent!Heartbeat,
     Agent!HandleSerializedMessage, Agent!GraphChanges, Agent!Called
<1>3. ASSUME NEW t \in Agent!Threads, Agent!Publication(t) PROVE io' = io /\ session' = session
  BY <1>3 DEF Agent!Publication, Agent!ReadGraph, Agent!StampCatalog, Agent!StoreRevision
<1>. QED
  BY <1>1, <1>2, <1>3 DEF Agent!ServerStep

LEMMA MadeFrame ==
  ASSUME TypeOK, ServerInv, NEW t \in Agent!Threads, Agent!MakeFrame(t)
  PROVE  /\ io = "free" /\ server' = server /\ wire' = wire /\ backlog' = backlog
         /\ session' \in Agent!SessionType
         /\ session'.state = session.state /\ session'.lastInbound = session.lastInbound
         /\ \A u \in Agent!Threads : u # t => job'[u] = job[u]
         /\ IF session.state = "ready"
              THEN /\ io' = t /\ job'[t].at = "send" /\ job'[t].seq = session.outbound
                   /\ job'[t].seq < session'.outbound
              ELSE io' = "free" /\ job'[t].at = "none" /\ session' = session
<1>1. /\ job \in [Agent!Threads -> Agent!JobType] /\ session \in Agent!SessionType
      /\ session.outbound \in Nat
  BY DEF TypeOK, Agent!SessionType
<1>2. CASE session.state = "ready"
  <2>. DEFINE n == session.outbound + Agent!Width(job[t].type)
  <2>1. n \in Nat /\ session.outbound < n
    BY <1>1 DEF Agent!Width
  <2>. HIDE DEF n
  <2>2. /\ io' = t /\ session' = [session EXCEPT !.outbound = n]
        /\ Agent!JobOf(t, [job[t] EXCEPT !.at = "send", !.seq = session.outbound])
    BY <1>2 DEF Agent!MakeFrame, n
  <2>3. /\ session' \in Agent!SessionType /\ session'.state = session.state
        /\ session'.lastInbound = session.lastInbound /\ session'.outbound = n
    BY <1>1, <2>1, <2>2 DEF Agent!SessionType
  <2>4. /\ job'[t] = [job[t] EXCEPT !.at = "send", !.seq = session.outbound]
        /\ \A u \in Agent!Threads : u # t => job'[u] = job[u]
    BY <1>1, <2>2, JobChanged
  <2>5. job'[t].at = "send" /\ job'[t].seq = session.outbound
    BY <1>1, <2>4 DEF Agent!JobType
  <2>. QED
    BY <1>2, <2>1, <2>2, <2>3, <2>4, <2>5 DEF Agent!MakeFrame, Agent!IoFree
<1>3. CASE session.state # "ready"
  <2>1. Agent!JobOf(t, Agent!NoJob) /\ io' = io /\ session' = session /\ io = "free"
    BY <1>3 DEF Agent!MakeFrame, Agent!IoFree
  <2>2. job'[t] = Agent!NoJob /\ \A u \in Agent!Threads : u # t => job'[u] = job[u]
    BY <1>1, <2>1, JobChanged
  <2>. QED
    BY <1>1, <1>3, <2>1, <2>2 DEF Agent!MakeFrame, Agent!NoJob
<1>. QED
  BY <1>2, <1>3

LEMMA SentFrame ==
  ASSUME TypeOK, ServerInv, NEW t \in Agent!Threads, Agent!SendFrame(t)
  PROVE  /\ io = t /\ job[t].at = "send" /\ io' = "free" /\ session.state = "ready"
         /\ job[t].seq < session.outbound /\ job[t].type \in FromAgent
         /\ UNCHANGED <<server, session, backlog>>
         /\ \A u \in Agent!Threads : u # t => job'[u] = job[u]
         /\ job'[t].at # "send"
<1>1. /\ job \in [Agent!Threads -> Agent!JobType] /\ job[t] \in Agent!JobType /\ t # "free"
  BY DEF TypeOK, Agent!Threads
<1>2. /\ io = t /\ job[t].at = "send" /\ job[t].type \in FromAgent
  BY DEF ServerInv, Agent!SendFrame
<1>3. job[t].seq < session.outbound /\ session.state = "ready"
  BY <1>1, <1>2 DEF ServerInv
<1>4. PICK j : Agent!JobOf(t, j) /\ j.at # "send"
  <2>1. Agent!NoJob.at # "send" /\ [job[t] EXCEPT !.at = "store"].at # "send"
    BY <1>1 DEF Agent!NoJob, Agent!JobType
  <2>2. Agent!JobOf(t, Agent!NoJob) \/ Agent!JobOf(t, [job[t] EXCEPT !.at = "store"])
    BY DEF Agent!SendFrame
  <2>. QED
    BY <2>1, <2>2, Zenon
<1>5. job'[t] = j /\ \A u \in Agent!Threads : u # t => job'[u] = job[u]
  BY <1>1, <1>4, JobChanged
<1>. QED
  BY <1>2, <1>3, <1>4, <1>5 DEF Agent!SendFrame

LEMMA Dequeuing ==
  ASSUME NEW S, NEW s \in Seq(S), s # <<>>
  PROVE  /\ Head(s) \in S /\ Head(s) = s[1] /\ Tail(s) \in Seq(S)
         /\ Len(s) \in Nat \ {0} /\ DOMAIN s = 1..Len(s) /\ DOMAIN Tail(s) = 1..(Len(s) - 1)
         /\ \A i \in 1..(Len(s) - 1) : Tail(s)[i] = s[i + 1]
  OBVIOUS

LEMMA NextClient ==
  ASSUME TypeOK, Agent!Accept
  PROVE  /\ Head(backlog) \in 1..MaxConnections /\ Head(backlog) = backlog[1]
         /\ Tail(backlog) \in Seq(1..MaxConnections)
         /\ Len(backlog) \in Nat \ {0} /\ DOMAIN backlog = 1..Len(backlog)
         /\ DOMAIN Tail(backlog) = 1..(Len(backlog) - 1)
         /\ \A i \in 1..(Len(backlog) - 1) : Tail(backlog)[i] = backlog[i + 1]
<1>. DEFINE S == 1..MaxConnections
<1>1. backlog \in Seq(S) /\ backlog # <<>>
  BY DEF Agent!Accept, TypeOK
<1>. HIDE DEF S
<1>2. /\ Head(backlog) \in S /\ Head(backlog) = backlog[1]
      /\ Tail(backlog) \in Seq(S)
      /\ Len(backlog) \in Nat \ {0} /\ DOMAIN backlog = 1..Len(backlog)
      /\ DOMAIN Tail(backlog) = 1..(Len(backlog) - 1)
      /\ \A i \in 1..(Len(backlog) - 1) : Tail(backlog)[i] = backlog[i + 1]
  BY <1>1, Dequeuing
<1>. QED
  BY <1>2 DEF S

(* What Receive makes of the session, and of what is under way. *)
LEMMA Received ==
  ASSUME IInv, NEW n, NEW sent, Agent!Receive(n, sent)
  PROVE  LET c == server.client
             frames == wire[c].toServer
             r == Agent!Handled(session, frames, n)
         IN /\ c \in 1..MaxConnections /\ n \in 1..Len(frames) /\ io = "free" /\ server.at = "recv"
            /\ wire[c].up \in BOOLEAN /\ frames \in Seq(Client!Frame)
            /\ wire[c].toClient \in Seq(Client!Frame)
            /\ r \in Result
            /\ session' = r.session /\ session' \in Agent!SessionType
            /\ session'.state = "ready" /\ session'.lastInbound = frames[n].seq
            /\ session.outbound \in Nat /\ session'.outbound \in Nat
            /\ session'.outbound >= session.outbound
            /\ r.send \in Seq(Client!Frame)
            /\ Numbered(r.send, session.outbound, session'.outbound, {"pong"})
<1>. DEFINE c == server.client
            frames == wire[c].toServer
            r == Agent!Handled(session, frames, n)
<1>1. /\ server.at = "recv" /\ io = "free" /\ n \in 1..Len(frames) /\ session' = r.session
  BY DEF Agent!Receive, Agent!IoFree
<1>2. c \in 1..MaxConnections
  BY <1>1 DEF IInv, ServerInv, TypeOK, Agent!ServerType, Serving
<1>3. /\ wire[c].up \in BOOLEAN /\ frames \in Seq(Client!Frame) /\ wire[c].toClient \in Seq(Client!Frame)
  BY <1>2, WireFields DEF IInv, TypeOK
<1>4. /\ session \in Agent!SessionType /\ session.state \in {"awaitingHelloAck", "ready"}
      /\ Stream(frames, session.lastInbound, "helloAck", session.state = "ready", FromClient)
  BY <1>1 DEF IInv, TypeOK, ServerInv, ToAgentInv, Serving
<1>. HIDE DEF frames, c
<1>5. r \in Result
  <2>1. n \in 0..Len(frames)
    BY <1>1, <1>3
  <2>. QED
    BY <1>3, <1>4, <2>1, HandledType
<1>6. /\ r.session.state = "ready"
      /\ r.session.lastInbound = frames[n].seq
      /\ r.session.outbound >= session.outbound
      /\ Numbered(r.send, session.outbound, r.session.outbound, {"pong"})
  BY <1>1, <1>3, <1>4, HandledStream
<1>. HIDE DEF r
<1>7. /\ r.session \in Agent!SessionType /\ r.send \in Seq(Client!Frame)
  BY <1>5 DEF Result
<1>8. session.outbound \in Nat /\ r.session.outbound \in Nat
  BY <1>4, <1>7 DEF Agent!SessionType
<1>. QED
  BY <1>1, <1>2, <1>3, <1>5, <1>6, <1>7, <1>8 DEF frames, c, r

Idle == {"accept", "hello", "forget", "ended"}

LEMMA PlaceKept ==
  ASSUME IInv, Agent!ServerStep
  PROVE  /\ server'.client # 0 <=> server'.at \in Serving \cup {"hello"}
         /\ server'.at \in Idle => session' = Agent!IdleSession /\ io' = "free"
         /\ server'.at \in Serving \cup {"reset"} => session'.state \in {"awaitingHelloAck", "ready"}
<1>. DEFINE Goal == /\ server'.client # 0 <=> server'.at \in Serving \cup {"hello"}
                    /\ server'.at \in Idle => session' = Agent!IdleSession /\ io' = "free"
                    /\ server'.at \in Serving \cup {"reset"} =>
                         session'.state \in {"awaitingHelloAck", "ready"}
<1>1. /\ server \in Agent!ServerType /\ server.client \in Nat /\ session \in Agent!SessionType
      /\ server.client # 0 <=> server.at \in Serving \cup {"hello"}
      /\ server.at \in Idle => session = Agent!IdleSession /\ io = "free"
      /\ server.at \in Serving \cup {"reset"} => session.state \in {"awaitingHelloAck", "ready"}
  BY DEF IInv, TypeOK, ServerInv, Idle, Agent!ServerType
<1>2. ASSUME Agent!Accept PROVE Goal
  <2>1. Head(backlog) # 0
    BY <1>2, NextClient DEF IInv
  <2>. QED
    BY <1>1, <1>2, <2>1 DEF Agent!Accept, Serving, Idle, Agent!ServerType
<1>3. ASSUME \/ Agent!ClientGone \/ Agent!ActionsDone \/ Agent!CatalogRequested
             \/ Agent!SubscribeTopic \/ Agent!UnsubscribeTopic
      PROVE  Goal
  <2>1. session' = session /\ server.at \in Serving /\ server'.at \in Serving
        /\ server'.client = server.client
    BY <1>1, <1>3 DEF Agent!ClientGone, Agent!ActionsDone, Agent!CatalogRequested,
       Agent!SubscribeTopic, Agent!UnsubscribeTopic, Agent!Acting, Agent!Done, Serving,
       Agent!ServerType
  <2>. QED
    BY <1>1, <2>1 DEF Serving, Idle
<1>4. ASSUME Agent!CloseClient PROVE Goal
  BY <1>1, <1>4 DEF Agent!CloseClient, Serving, Idle
<1>5. ASSUME Agent!ResetSession PROVE Goal
  BY <1>1, <1>5 DEF Agent!ResetSession, Serving, Idle, Agent!ServerType, Agent!IoFree
<1>6. ASSUME Agent!ClearSubscriptions PROVE Goal
  BY <1>1, <1>6 DEF Agent!ClearSubscriptions, Serving, Idle, Agent!ServerType
<1>7. ASSUME NEW sent \in BOOLEAN, Agent!SayHello(sent) PROVE Goal
  <2>1. /\ server'.at \in Serving /\ server'.client = server.client /\ server.at = "hello"
        /\ session'.state = "awaitingHelloAck"
    BY <1>1, <1>7 DEF Agent!SayHello, Agent!ServerType, Serving
  <2>. QED
    BY <1>1, <2>1 DEF Serving, Idle
<1>8. ASSUME NEW sent, NEW n, Agent!Receive(n, sent) PROVE Goal
  <2>1. /\ server'.at \in Serving /\ server'.client = server.client /\ server.at = "recv"
    BY <1>1, <1>8 DEF Agent!Receive, Agent!ServerType, Serving
  <2>2. session'.state = "ready"
    BY <1>8, Received
  <2>. QED
    BY <1>1, <2>1, <2>2 DEF Serving, Idle
<1>9. ASSUME Agent!AcceptFails PROVE Goal
  BY <1>1, <1>9 DEF Agent!AcceptFails, Serving, Idle, Agent!ServerType
<1>10. ASSUME \/ Agent!RefreshGraph \/ Agent!Heartbeat
              \/ \E k \in Keys : Agent!HandleSerializedMessage(k)
              \/ \E k \in Keys : Agent!GraphChanges(k)
       PROVE  Goal
  <2>1. server' = server /\ session' = session /\ io' = io
    BY <1>10 DEF Agent!RefreshGraph, Agent!Heartbeat, Agent!HandleSerializedMessage,
       Agent!GraphChanges, Agent!Called
  <2>. QED
    BY <1>1, <2>1
<1>11. ASSUME NEW t \in Agent!Threads, Agent!Publication(t) PROVE Goal
  <2>1. CASE Agent!ReadGraph(t) \/ Agent!StampCatalog(t) \/ Agent!StoreRevision(t)
    <3>1. server' = server /\ session' = session /\ io' = io
      BY <2>1 DEF Agent!ReadGraph, Agent!StampCatalog, Agent!StoreRevision
    <3>. QED
      BY <1>1, <3>1
  <2>2. CASE Agent!MakeFrame(t)
    <3>1. /\ server' = server /\ session'.state = session.state /\ io = "free"
          /\ session.state # "ready" => io' = "free" /\ session' = session
      BY <2>2, MadeFrame DEF IInv
    <3>. QED
      BY <1>1, <3>1 DEF Agent!IdleSession
  <2>3. CASE Agent!SendFrame(t)
    <3>1. server' = server /\ session' = session /\ io' = "free"
      BY <2>3 DEF Agent!SendFrame
    <3>. QED
      BY <1>1, <3>1
  <2>. QED
    BY <1>11, <2>1, <2>2, <2>3 DEF Agent!Publication
<1>. HIDE DEF Goal
<1>12. ASSUME Agent!ServerThread PROVE Goal
  BY <1>2, <1>3, <1>4, <1>5, <1>6, <1>7, <1>8, <1>12, ThreadCases
<1>13. Goal
  BY <1>9, <1>10, <1>11, <1>12, StepCases
<1>. QED
  BY <1>13 DEF Goal

LEMMA ServerInvKept ==
  ASSUME IInv, Agent!ServerStep
  PROVE  ServerInv'
<1>1. /\ \A t \in Agent!Threads : job[t].at = "send" => io = t
      /\ io # "free" => job[io].at = "send" /\ job[io].seq < session.outbound
                        /\ session.state = "ready"
      /\ io \in {"free"} \cup Agent!Threads /\ "free" \notin Agent!Threads
  BY DEF IInv, ServerInv, TypeOK, Agent!Threads
<1>2. \A t \in Agent!Threads :
        /\ job'[t].at = "send" => job'[t] = job[t] \/ Agent!MakeFrame(t)
        /\ job[t].at = "send" => job'[t] = job[t] \/ Agent!SendFrame(t)
        /\ job'[t].at \in {"want", "send"} => job'[t].type \in FromAgent
        /\ job'[t].at = "store" => job'[t].type = "catalog"
  BY ServerJobs DEF IInv
<1>3. /\ io' # "free" => job'[io'].at = "send" /\ job'[io'].seq < session'.outbound
                         /\ session'.state = "ready"
      /\ \A t \in Agent!Threads : job'[t].at = "send" => io' = t
  <2>1. CASE \E t \in Agent!Threads : Agent!MakeFrame(t)
    <3>1. PICK t \in Agent!Threads : Agent!MakeFrame(t)
      BY <2>1
    <3>2. /\ io = "free" /\ session'.state = session.state
          /\ \A u \in Agent!Threads : u # t => job'[u] = job[u]
          /\ IF session.state = "ready"
               THEN /\ io' = t /\ job'[t].at = "send" /\ job'[t].seq = session.outbound
                    /\ job'[t].seq < session'.outbound
               ELSE io' = "free" /\ job'[t].at = "none" /\ session' = session
      BY <3>1, MadeFrame DEF IInv
    <3>. QED
      BY <1>1, <3>2
  <2>2. CASE \E t \in Agent!Threads : Agent!SendFrame(t)
    <3>1. PICK t \in Agent!Threads : Agent!SendFrame(t)
      BY <2>2
    <3>2. /\ io = t /\ io' = "free" /\ \A u \in Agent!Threads : u # t => job'[u] = job[u]
          /\ job'[t].at # "send"
      BY <3>1, SentFrame DEF IInv
    <3>. QED
      BY <1>1, <3>2
  <2>3. CASE \A t \in Agent!Threads : ~Agent!MakeFrame(t) /\ ~Agent!SendFrame(t)
    <3>1. io' = io /\ (io # "free" => session' = session)
      BY <2>3, IoSteps
    <3>. QED
      BY <1>1, <1>2, <2>3, <3>1
  <2>. QED
    BY <2>1, <2>2, <2>3
<1>. QED
  BY <1>2, <1>3, PlaceKept DEF ServerInv, Idle, Agent!Threads, Agent!IdleSession

-----------------------------------------------------------------------------
(* The types of the agent's variables. *)

LEMMA NodeUpdates ==
  ASSUME NEW n \in Agent!NodeType, NEW subscriptions \in SUBSET Keys, NEW signature \in SUBSET Keys,
         NEW sent \in Nat, NEW revision \in Nat
  PROVE  /\ n.subscriptions \in SUBSET Keys /\ n.revision \in Nat
         /\ [n EXCEPT !.subscriptions = subscriptions] \in Agent!NodeType
         /\ [n EXCEPT !.lastSent = sent] \in Agent!NodeType
         /\ [n EXCEPT !.lastSent = sent, !.subscriptions = subscriptions] \in Agent!NodeType
         /\ [n EXCEPT !.revision = revision, !.signature = signature] \in Agent!NodeType
<1>1. /\ n.subscriptions \in SUBSET Keys /\ n.revision \in Nat
      /\ [n EXCEPT !.subscriptions = subscriptions] \in Agent!NodeType
      /\ [n EXCEPT !.lastSent = sent] \in Agent!NodeType
  BY DEF Agent!NodeType
<1>2. [n EXCEPT !.lastSent = sent, !.subscriptions = subscriptions] \in Agent!NodeType
  BY DEF Agent!NodeType
<1>3. [n EXCEPT !.revision = revision, !.signature = signature] \in Agent!NodeType
  BY DEF Agent!NodeType
<1>. QED
  BY <1>1, <1>2, <1>3

LEMMA ServerMoves ==
  ASSUME NEW s \in Agent!ServerType, NEW at \in ServerPlaces, NEW c \in 0..MaxConnections,
         NEW todo \in Seq(Agent!Request), NEW fatal \in BOOLEAN
  PROVE  /\ [s EXCEPT !.at = at, !.client = c] \in Agent!ServerType
         /\ [s EXCEPT !.at = at, !.todo = todo, !.fatal = fatal] \in Agent!ServerType
<1>1. [s EXCEPT !.at = at, !.client = c] \in Agent!ServerType
  BY DEF Agent!ServerType, ServerPlaces
<1>2. [s EXCEPT !.at = at, !.todo = todo, !.fatal = fatal] \in Agent!ServerType
  BY DEF Agent!ServerType, ServerPlaces
<1>. QED
  BY <1>1, <1>2

LEMMA NextAction ==
  ASSUME server \in Agent!ServerType, server.todo # <<>>
  PROVE  /\ Agent!Action \in Agent!Request /\ Tail(server.todo) \in Seq(Agent!Request)
         /\ Agent!Action.type \in {"subscribe", "unsubscribe"} => Agent!Action.arg \in Keys
<1>1. server.todo \in Seq(Agent!Request)
  BY ServerUpdates
<1>2. Head(server.todo) \in Agent!Request /\ Tail(server.todo) \in Seq(Agent!Request)
  BY <1>1, Dequeuing
<1>. QED
  BY <1>2 DEF Agent!Request, Agent!Action

ServerTypes ==
  /\ server' \in Agent!ServerType
  /\ node' \in Agent!NodeType
  /\ graph' \subseteq Keys /\ refused' \subseteq Keys

LEMMA ThreadTypes ==
  ASSUME IInv, Agent!ServerThread
  PROVE  ServerTypes
<1>1. /\ server \in Agent!ServerType /\ node \in Agent!NodeType /\ node.subscriptions \in SUBSET Keys
      /\ graph \subseteq Keys /\ refused \subseteq Keys
      /\ {} \in SUBSET Keys /\ 0 \in Nat
      /\ server.todo \in Seq(Agent!Request) /\ server.client \in 0..MaxConnections
      /\ server.fatal \in BOOLEAN /\ 0 \in 0..MaxConnections
  <2>1. /\ server \in Agent!ServerType /\ node \in Agent!NodeType
        /\ graph \subseteq Keys /\ refused \subseteq Keys
    BY DEF IInv, TypeOK
  <2>2. node.subscriptions \in SUBSET Keys
    BY <2>1 DEF Agent!NodeType
  <2>3. /\ server.todo \in Seq(Agent!Request) /\ server.client \in 0..MaxConnections
        /\ server.fatal \in BOOLEAN
    BY <2>1, ServerUpdates
  <2>. QED
    BY <2>1, <2>2, <2>3, BoundsAssumption
<1>2. \A at \in ServerPlaces : [server EXCEPT !.at = at] \in Agent!ServerType
  BY <1>1, ServerUpdates
<1>3. /\ "accept" \in ServerPlaces /\ "hello" \in ServerPlaces /\ "recv" \in ServerPlaces
      /\ "act" \in ServerPlaces /\ "close" \in ServerPlaces /\ "forget" \in ServerPlaces
      /\ "ended" \in ServerPlaces
  BY DEF ServerPlaces
<1>4. ASSUME Agent!Accept PROVE ServerTypes
  <2>1. Head(backlog) \in 0..MaxConnections
    <3>1. Head(backlog) \in 1..MaxConnections
      BY <1>4, NextClient DEF IInv
    <3>. QED
      BY <3>1
  <2>2. [server EXCEPT !.at = "hello", !.client = Head(backlog)] \in Agent!ServerType
    BY <1>1, <1>3, <2>1, ServerMoves, Zenon
  <2>. QED
    BY <1>1, <1>4, <2>2 DEF Agent!Accept, ServerTypes
<1>5. ASSUME Agent!ClientGone \/ Agent!ActionsDone \/ Agent!ResetSession PROVE ServerTypes
  <2>1. \E at \in ServerPlaces : server' = [server EXCEPT !.at = at]
    BY <1>3, <1>5 DEF Agent!ClientGone, Agent!ActionsDone, Agent!ResetSession
  <2>2. node' = node /\ graph' = graph /\ refused' = refused
    BY <1>5 DEF Agent!ClientGone, Agent!ActionsDone, Agent!ResetSession
  <2>. QED
    BY <1>1, <1>2, <2>1, <2>2 DEF ServerTypes
<1>6. ASSUME Agent!CloseClient PROVE ServerTypes
  <2>1. [at |-> "reset", client |-> 0, fatal |-> FALSE, todo |-> <<>>] \in Agent!ServerType
    BY <1>1 DEF Agent!ServerType
  <2>. QED
    BY <1>1, <1>6, <2>1 DEF Agent!CloseClient, ServerTypes
<1>7. ASSUME Agent!ClearSubscriptions PROVE ServerTypes
  <2>1. [node EXCEPT !.lastSent = 0, !.subscriptions = {}] \in Agent!NodeType
    BY <1>1, NodeUpdates, Zenon
  <2>. QED
    BY <1>1, <1>2, <1>3, <1>7, <2>1 DEF Agent!ClearSubscriptions, ServerTypes
<1>8. ASSUME NEW sent, Agent!SayHello(sent) PROVE ServerTypes
  <2>1. \E at \in ServerPlaces : server' = [server EXCEPT !.at = at]
    BY <1>3, <1>8 DEF Agent!SayHello
  <2>2. node' = node /\ graph' = graph /\ refused' = refused
    BY <1>8 DEF Agent!SayHello
  <2>. QED
    BY <1>1, <1>2, <2>1, <2>2 DEF ServerTypes
<1>9. ASSUME NEW sent, NEW n, Agent!Receive(n, sent) PROVE ServerTypes
  <2>. DEFINE r == Agent!Handled(session, wire[server.client].toServer, n)
              fatal == r.session.state = "error"
  <2>1. r \in Result
    BY <1>9, Received
  <2>. HIDE DEF r
  <2>2. r.todo \in Seq(Agent!Request) /\ fatal \in BOOLEAN
    BY <2>1 DEF Result
  <2>. HIDE DEF fatal
  <2>3. [server EXCEPT !.at = "act", !.todo = r.todo, !.fatal = fatal] \in Agent!ServerType
    BY <1>1, <1>3, <2>2, ServerMoves, Zenon
  <2>4. \/ server' = [server EXCEPT !.at = "close"]
        \/ server' = [server EXCEPT !.at = "act", !.todo = r.todo, !.fatal = fatal]
    BY <1>9 DEF Agent!Receive, r, fatal
  <2>5. node' = node /\ graph' = graph /\ refused' = refused
    BY <1>9 DEF Agent!Receive
  <2>. QED
    BY <1>1, <1>2, <1>3, <2>3, <2>4, <2>5 DEF ServerTypes
<1>10. ASSUME Agent!CatalogRequested \/ Agent!SubscribeTopic \/ Agent!UnsubscribeTopic
       PROVE  ServerTypes
  <2>1. server.todo # <<>> /\ server' = [server EXCEPT !.todo = Tail(server.todo)] /\ graph' = graph
    BY <1>10 DEF Agent!CatalogRequested, Agent!SubscribeTopic, Agent!UnsubscribeTopic, Agent!Done
  <2>2. /\ Tail(server.todo) \in Seq(Agent!Request)
        /\ Agent!Action.type \in {"subscribe", "unsubscribe"} => Agent!Action.arg \in Keys
    BY <1>1, <2>1, NextAction
  <2>3. server' \in Agent!ServerType
    BY <1>1, <2>1, <2>2, ServerUpdates
  <2>4. refused' \subseteq Keys
    BY <1>1, <1>10, <2>2 DEF Agent!CatalogRequested, Agent!SubscribeTopic, Agent!UnsubscribeTopic
  <2>5. \/ node' = node
        \/ /\ Agent!Action.arg \in Keys
           /\ \/ node' = [node EXCEPT !.subscriptions = node.subscriptions \cup {Agent!Action.arg}]
              \/ node' = [node EXCEPT !.subscriptions = node.subscriptions \ {Agent!Action.arg}]
    BY <1>10, <2>2 DEF Agent!CatalogRequested, Agent!SubscribeTopic, Agent!UnsubscribeTopic
  <2>6. Agent!Action.arg \in Keys =>
          /\ node.subscriptions \cup {Agent!Action.arg} \in SUBSET Keys
          /\ node.subscriptions \ {Agent!Action.arg} \in SUBSET Keys
    BY <1>1
  <2>7. node' \in Agent!NodeType
    BY <1>1, <2>5, <2>6, NodeUpdates
  <2>. QED
    BY <1>1, <2>1, <2>3, <2>4, <2>7 DEF ServerTypes
<1>. QED
  BY <1>4, <1>5, <1>6, <1>7, <1>8, <1>9, <1>10, ThreadCases

LEMMA StepTypes ==
  ASSUME IInv, Agent!ServerStep
  PROVE  ServerTypes
<1>1. /\ server \in Agent!ServerType /\ node \in Agent!NodeType
      /\ graph \subseteq Keys /\ refused \subseteq Keys
      /\ node.revision \in Nat /\ 0 \in Nat /\ {} \in SUBSET Keys
  BY DEF IInv, TypeOK, Agent!NodeType
<1>2. ASSUME Agent!AcceptFails PROVE ServerTypes
  <2>1. [server EXCEPT !.at = "ended"] \in Agent!ServerType
    BY <1>1, ServerUpdates DEF ServerPlaces
  <2>. QED
    BY <1>1, <1>2, <2>1 DEF Agent!AcceptFails, ServerTypes
<1>3. ASSUME \/ Agent!RefreshGraph \/ Agent!Heartbeat
             \/ \E k \in Keys : Agent!HandleSerializedMessage(k)
      PROVE  ServerTypes
  <2>1. server' = server /\ node' = node /\ graph' = graph /\ refused' = refused
    BY <1>3 DEF Agent!RefreshGraph, Agent!Heartbeat, Agent!HandleSerializedMessage, Agent!Called
  <2>. QED
    BY <1>1, <2>1 DEF ServerTypes
<1>4. ASSUME NEW k \in Keys, Agent!GraphChanges(k) PROVE ServerTypes
  BY <1>1, <1>4 DEF Agent!GraphChanges, ServerTypes
<1>5. ASSUME NEW t \in Agent!Threads, Agent!Publication(t) PROVE ServerTypes
  <2>1. server' = server /\ graph' = graph /\ refused' = refused
    BY <1>5 DEF Agent!Publication, Agent!ReadGraph, Agent!StampCatalog, Agent!StoreRevision,
       Agent!MakeFrame, Agent!SendFrame
  <2>2. /\ job[t] \in Agent!JobType
        /\ job[t].at = "store" => job[t].type = "catalog"
    BY DEF IInv, TypeOK, ServerInv
  <2>3. job[t].seen \in SUBSET Keys /\ (job[t].at = "store" => job[t].arg \in Nat)
    BY <2>2, JobFields
  <2>4. node' \in Agent!NodeType
    <3>1. CASE Agent!ReadGraph(t) \/ Agent!MakeFrame(t) \/ Agent!SendFrame(t)
      BY <1>1, <3>1 DEF Agent!ReadGraph, Agent!MakeFrame, Agent!SendFrame
    <3>2. CASE Agent!StampCatalog(t)
      <4>. DEFINE new == node.revision = 0 \/ job[t].seen # node.signature
                  revision == IF new THEN node.revision + 1 ELSE node.revision
      <4>1. revision \in Nat
        BY <1>1
      <4>2. node' = [node EXCEPT !.revision = revision, !.signature = job[t].seen]
        BY <3>2 DEF Agent!StampCatalog
      <4>. HIDE DEF revision
      <4>. QED
        BY <1>1, <2>3, <4>1, <4>2, NodeUpdates
    <3>3. CASE Agent!StoreRevision(t)
      <4>1. node' = [node EXCEPT !.lastSent = job[t].arg] /\ job[t].arg \in Nat
        BY <2>3, <3>3 DEF Agent!StoreRevision
      <4>. QED
        BY <1>1, <4>1, NodeUpdates
    <3>. QED
      BY <1>5, <3>1, <3>2, <3>3 DEF Agent!Publication
  <2>. QED
    BY <1>1, <2>1, <2>4 DEF ServerTypes
<1>. QED
  BY <1>2, <1>3, <1>4, <1>5, ThreadTypes, StepCases

LEMMA CountsKept ==
  ASSUME TypeOK, Agent!ServerStep
  PROVE  failures' \in Nat /\ events' \in Nat
<1>1. failures \in Nat /\ events \in Nat
  BY DEF TypeOK
<1>2. ASSUME Agent!ServerThread PROVE failures' = failures /\ events' = events
  BY <1>2, ThreadCases DEF Agent!Accept, Agent!SayHello, Agent!Receive, Agent!ClientGone,
     Agent!CloseClient, Agent!ResetSession, Agent!ClearSubscriptions, Agent!ActionsDone,
     Agent!CatalogRequested, Agent!SubscribeTopic, Agent!UnsubscribeTopic
<1>3. ASSUME \/ Agent!AcceptFails \/ Agent!RefreshGraph \/ Agent!Heartbeat
             \/ \E k \in Keys : Agent!HandleSerializedMessage(k)
             \/ \E k \in Keys : Agent!GraphChanges(k)
      PROVE  failures' \in Nat /\ events' \in Nat
  <2>1. failures' = failures \/ failures' = failures + 1
    BY <1>3 DEF Agent!AcceptFails, Agent!RefreshGraph, Agent!Heartbeat,
       Agent!HandleSerializedMessage, Agent!GraphChanges, Agent!Called, Agent!Fails
  <2>2. events' = events \/ events' = events + 1
    BY <1>3 DEF Agent!AcceptFails, Agent!RefreshGraph, Agent!Heartbeat,
       Agent!HandleSerializedMessage, Agent!GraphChanges, Agent!Called, Agent!Happens
  <2>. QED
    BY <1>1, <2>1, <2>2
<1>4. ASSUME NEW t \in Agent!Threads, Agent!Publication(t)
      PROVE  (failures' = failures \/ failures' = failures + 1) /\ events' = events
  BY <1>4 DEF Agent!Publication, Agent!ReadGraph, Agent!StampCatalog, Agent!StoreRevision,
       Agent!MakeFrame, Agent!SendFrame, Agent!Fails
<1>. QED
  BY <1>1, <1>2, <1>3, <1>4, StepCases

-----------------------------------------------------------------------------
(* The agent and the wire. *)

LEMMA NextNumberType ==
  ASSUME TypeOK
  PROVE  NextNumber \in Nat
<1>1. session.outbound \in Nat /\ \A t \in Agent!Threads : job[t].seq \in Nat
  BY DEF TypeOK, Agent!SessionType, Agent!JobType
<1>2. io = "free" \/ io \in Agent!Threads
  BY DEF TypeOK
<1>. QED
  BY <1>1, <1>2 DEF NextNumber

LEMMA BelowMore ==
  ASSUME NEW frames \in Seq(Client!Frame), NEW m \in Nat, NEW n \in Nat, m <= n, Below(frames, m)
  PROVE  Below(frames, n)
<1>1. \A i \in DOMAIN frames : frames[i].seq \in Nat
  BY DEF Client!Frame, Client!FrameTypes
<1>. QED
  BY <1>1 DEF Below

(* A connection that is up is the one that is served, or the client waits for its hello. *)
LEMMA UpOrWaiting ==
  ASSUME IInv, Client!Connected, wire[connections].up, server.client # connections
  PROVE  client.state = "awaitingHello"
<1>1. connections \in 1..MaxConnections
  BY DEF IInv, TypeOK, ClientInv
<1>2. \E i \in DOMAIN backlog : backlog[i] = connections
  BY <1>1 DEF IInv, QueueInv
<1>. QED
  BY <1>2 DEF IInv, ToClientInv, Fresh

(* A step of the agent that the wire does not see. *)
Silent ==
  /\ UNCHANGED <<wire, backlog, clientVars>>
  /\ server'.client = server.client
  /\ server'.at \in Serving => server.at \in Serving
  /\ server'.at = "hello" => server.at = "hello"
  /\ \/ /\ session'.state = session.state /\ session'.lastInbound = session.lastInbound
        /\ NextNumber <= NextNumber'
     \/ server.client = 0

LEMMA SilentKeeps ==
  ASSUME IInv, TypeOK', Silent
  PROVE  QueueInv' /\ ToAgentInv' /\ ToClientInv'
<1>1. NextNumber \in Nat /\ NextNumber' \in Nat
  <2>1. NextNumber \in Nat
    BY NextNumberType DEF IInv
  <2>2. NextNumber' \in Nat
    <3>1. session'.outbound \in Nat /\ \A t \in Agent!Threads : job'[t].seq \in Nat
      BY DEF TypeOK, Agent!SessionType, Agent!JobType
    <3>2. io' = "free" \/ io' \in Agent!Threads
      BY DEF TypeOK
    <3>. QED
      BY <3>1, <3>2 DEF NextNumber
  <2>. QED
    BY <2>1, <2>2
<1>2. /\ client' = client /\ connections' = connections /\ wire' = wire /\ backlog' = backlog
      /\ server'.client = server.client /\ Client!Connected' = Client!Connected
      /\ \A c : Fresh(c)' => Fresh(c)
  BY DEF Silent, clientVars, Client!Connected, Fresh
<1>3. QueueInv'
  BY <1>2 DEF IInv, QueueInv
<1>4. ASSUME server'.at \in Serving
      PROVE  /\ server.at \in Serving /\ server.client # 0 /\ server.client \in 1..MaxConnections
             /\ session'.state = session.state /\ session'.lastInbound = session.lastInbound
             /\ NextNumber <= NextNumber'
  BY <1>4 DEF Silent, IInv, ServerInv, TypeOK, Agent!ServerType
<1>5. ToAgentInv'
  <2>1. ASSUME server'.at \in Serving
        PROVE  Below(wire[server.client].toClient, NextNumber')
    <3>1. wire[server.client].toClient \in Seq(Client!Frame)
      BY <1>4, <2>1, WireFields DEF IInv, TypeOK
    <3>2. Below(wire[server.client].toClient, NextNumber)
      BY <1>4, <2>1 DEF IInv, ToAgentInv
    <3>. QED
      BY <1>1, <1>4, <2>1, <3>1, <3>2, BelowMore
  <2>. QED
    BY <1>2, <1>4, <2>1 DEF IInv, ToAgentInv
<1>6. ToClientInv'
  <2>. SUFFICES ASSUME Client!Connected PROVE ToClientInv'
    BY <1>2 DEF ToClientInv
  <2>1. client.state = "ready" /\ wire[connections].up =>
          session'.state = "ready" \/ wire[connections].toServer # <<>>
    <3>1. CASE server.client = 0
      <4>1. connections # 0
        BY DEF IInv, ClientInv
      <4>. QED
        BY <3>1, <4>1, UpOrWaiting
    <3>2. CASE server.client # 0
      BY <3>2 DEF Silent, IInv, ToClientInv
    <3>. QED
      BY <3>1, <3>2
  <2>2. client.lastInbound \in Int
    BY DEF IInv, TypeOK, Client!ClientType, Client!none
  <2>. QED
    BY <1>1, <1>2, <1>4, <2>1, <2>2 DEF IInv, ToClientInv
<1>. QED
  BY <1>3, <1>5, <1>6

(* A step of the agent that leaves to and from under way on the connection it serves. *)
Serves(to, from) ==
  /\ UNCHANGED <<backlog, clientVars>>
  /\ server.client # 0 /\ server'.client = server.client /\ server'.at \in Serving
  /\ Changed(wire', server.client, wire[server.client].up, to, from)
  /\ Stream(to, session'.lastInbound, "helloAck", session'.state = "ready", FromClient)
  /\ Below(from, NextNumber')
  /\ Client!Connected /\ server.client = connections =>
       /\ client.state = "awaitingHello" => to = <<>> /\ session'.state = "awaitingHelloAck"
       /\ Stream(from, client.lastInbound, "hello", client.state = "ready", FromAgent)
       /\ Below(to, client.outbound)
       /\ client.state = "ready" /\ wire[connections].up => session'.state = "ready" \/ to # <<>>
       /\ session'.lastInbound < client.outbound
       /\ client.lastInbound < NextNumber'

LEMMA ServesKeeps ==
  ASSUME IInv, NEW to, NEW from, Serves(to, from)
  PROVE  wire' \in [1..MaxConnections -> Client!WireType] /\ QueueInv' /\ ToAgentInv' /\ ToClientInv'
<1>0. server.client \in 1..MaxConnections /\ connections \in Nat
  BY DEF IInv, TypeOK, Agent!ServerType, Serves
<1>. PICK c \in 1..MaxConnections : c = server.client
  BY <1>0
<1>1. c \in 1..MaxConnections /\ c \in Nat /\ connections \in Nat
  BY <1>0
<1>2. /\ wire' \in [1..MaxConnections -> Client!WireType]
      /\ wire'[c].up = wire[c].up /\ wire'[c].toServer = to /\ wire'[c].toClient = from
      /\ \A d \in 1..MaxConnections : d # c => wire'[d] = wire[d]
  BY DEF Serves, Changed, IsConn
<1>3. /\ client' = client /\ connections' = connections /\ backlog' = backlog
      /\ server'.client = c /\ server'.at \in Serving /\ Client!Connected' = Client!Connected
  BY DEF Serves, clientVars, Client!Connected
<1>4. /\ c <= connections
      /\ \A i \in DOMAIN backlog : c < backlog[i] /\ backlog[i] <= connections
      /\ \A i \in DOMAIN backlog : backlog[i] \in Nat
  <2>1. backlog \in Seq(1..MaxConnections)
    BY DEF IInv, TypeOK
  <2>. DEFINE S == 1..MaxConnections
  <2>2. \A i \in DOMAIN backlog : backlog[i] \in S
    <3>. HIDE DEF S
    <3>1. backlog \in Seq(S)
      BY <2>1 DEF S
    <3>. QED
      BY <3>1
  <2>. QED
    BY <2>2 DEF IInv, QueueInv
<1>5. ~Fresh(c)' /\ \A d : Fresh(d)' => Fresh(d)
  <2>1. server'.at # "hello"
    BY <1>3 DEF Serving
  <2>. QED
    BY <1>1, <1>3, <1>4, <2>1 DEF Fresh
<1>6. QueueInv'
  <2>1. \A d \in 1..MaxConnections : wire'[d].up => wire[d].up
    BY <1>2
  <2>. QED
    BY <1>3, <2>1 DEF IInv, QueueInv
<1>7. ToAgentInv'
  <2>1. ASSUME NEW d \in 1..MaxConnections, Fresh(d)'
        PROVE wire'[d].toServer = <<>> /\ wire'[d].toClient = <<>>
    <3>1. d # c /\ Fresh(d)
      BY <1>5, <2>1
    <3>. QED
      BY <1>2, <3>1 DEF IInv, ToAgentInv
  <2>2. /\ Stream(wire'[c].toServer, session'.lastInbound, "helloAck", session'.state = "ready",
                  FromClient)
        /\ Below(wire'[c].toClient, NextNumber')
    BY <1>2 DEF Serves
  <2>. QED
    BY <1>3, <2>1, <2>2 DEF ToAgentInv
<1>8. ToClientInv'
  <2>. SUFFICES ASSUME Client!Connected PROVE ToClientInv'
    BY <1>3 DEF ToClientInv
  <2>0. connections \in 1..MaxConnections
    BY DEF IInv, TypeOK, ClientInv
  <2>1. CASE c = connections
    <3>1. /\ client.state = "awaitingHello" => to = <<>> /\ session'.state = "awaitingHelloAck"
          /\ Stream(from, client.lastInbound, "hello", client.state = "ready", FromAgent)
          /\ Below(to, client.outbound)
          /\ client.state = "ready" /\ wire[connections].up => session'.state = "ready" \/ to # <<>>
          /\ session'.lastInbound < client.outbound
          /\ client.lastInbound < NextNumber'
      BY <2>1 DEF Serves
    <3>2. client.state = "awaitingHello" => client.lastInbound = Client!none
      BY DEF IInv, ToClientInv
    <3>3. /\ wire'[connections].toServer = to /\ wire'[connections].toClient = from
          /\ wire'[connections].up = wire[connections].up /\ ~Fresh(connections)'
      BY <1>2, <1>3, <1>5, <2>1 DEF Fresh
    <3>. QED
      BY <1>3, <3>1, <3>2, <3>3 DEF ToClientInv
  <2>2. CASE c # connections
    <3>1. wire'[connections] = wire[connections]
      BY <1>2, <2>0, <2>2
    <3>2. ~(client.state = "ready" /\ wire[connections].up)
      BY <2>2, UpOrWaiting
    <3>. QED
      BY <1>3, <1>5, <2>2, <3>1, <3>2 DEF IInv, ToClientInv
  <2>. QED
    BY <2>1, <2>2
<1>. QED
  BY <1>2, <1>6, <1>7, <1>8

LEMMA NumberKept ==
  ASSUME IInv, Agent!ServerStep, session' = session,
         \A t \in Agent!Threads : ~Agent!MakeFrame(t) /\ ~Agent!SendFrame(t)
  PROVE  NextNumber <= NextNumber'
<1>1. io' = io
  BY IoSteps
<1>2. io \in {"free"} \cup Agent!Threads /\ (io # "free" => job[io].at = "send")
  BY DEF IInv, TypeOK, ServerInv
<1>3. io # "free" => job'[io] = job[io]
  BY <1>2, ServerJobs DEF IInv
<1>4. NextNumber' = NextNumber /\ NextNumber \in Nat
  BY <1>1, <1>3, NextNumberType DEF NextNumber, IInv
<1>. QED
  BY <1>4

LEMMA SilentSteps ==
  ASSUME IInv, UNCHANGED clientVars, Agent!ServerStep, UNCHANGED <<wire, backlog>>,
         \A sent \in BOOLEAN : ~Agent!SayHello(sent) /\ \A n : ~Agent!Receive(n, sent),
         ~Agent!CloseClient, ~Agent!Accept
  PROVE  Silent
<1>1. /\ server \in Agent!ServerType
      /\ server.client # 0 <=> server.at \in Serving \cup {"hello"}
      /\ session.outbound \in Nat
  BY DEF IInv, TypeOK, ServerInv, Agent!SessionType
<1>2. ASSUME NEW t \in Agent!Threads, Agent!MakeFrame(t) PROVE Silent
  <2>1. /\ io = "free" /\ server' = server
        /\ session' \in Agent!SessionType
        /\ session'.state = session.state /\ session'.lastInbound = session.lastInbound
        /\ IF session.state = "ready"
             THEN io' = t /\ job'[t].seq = session.outbound
             ELSE io' = "free" /\ session' = session
    BY <1>2, MadeFrame DEF IInv
  <2>2. NextNumber = session.outbound /\ NextNumber' = session.outbound
    BY <2>1 DEF NextNumber, Agent!Threads
  <2>. QED
    BY <1>1, <2>1, <2>2 DEF Silent
<1>3. ASSUME NEW t \in Agent!Threads, Agent!SendFrame(t) PROVE Silent
  <2>1. /\ io = t /\ io' = "free" /\ job[t].seq < session.outbound /\ job[t].seq \in Nat
        /\ UNCHANGED <<server, session>>
    BY <1>3, SentFrame DEF IInv, TypeOK, Agent!JobType
  <2>2. NextNumber = job[t].seq /\ NextNumber' = session.outbound
    BY <2>1 DEF NextNumber, Agent!Threads
  <2>. QED
    BY <1>1, <2>1, <2>2 DEF Silent
<1>4. CASE \A t \in Agent!Threads : ~Agent!MakeFrame(t) /\ ~Agent!SendFrame(t)
  <2>1. ASSUME \/ Agent!ClientGone \/ Agent!ActionsDone \/ Agent!CatalogRequested
               \/ Agent!SubscribeTopic \/ Agent!UnsubscribeTopic
        PROVE  Silent
    <3>1. session' = session /\ server'.client = server.client /\ server.at \in Serving
          /\ server'.at \in Serving
      BY <1>1, <2>1 DEF Agent!ClientGone, Agent!ActionsDone, Agent!CatalogRequested,
         Agent!SubscribeTopic, Agent!UnsubscribeTopic, Agent!Acting, Agent!Done, Serving,
         Agent!ServerType
    <3>2. NextNumber <= NextNumber'
      BY <1>4, <3>1, NumberKept
    <3>. QED
      BY <3>1, <3>2 DEF Silent, Serving
  <2>2. ASSUME Agent!ResetSession PROVE Silent
    BY <1>1, <2>2 DEF Agent!ResetSession, Silent, Serving, Agent!ServerType
  <2>3. ASSUME Agent!ClearSubscriptions \/ Agent!AcceptFails PROVE Silent
    BY <1>1, <2>3 DEF Agent!ClearSubscriptions, Agent!AcceptFails, Silent, Serving, Agent!ServerType
  <2>4. ASSUME server' = server, session' = session PROVE Silent
    <3>1. NextNumber <= NextNumber'
      BY <1>4, <2>4, NumberKept
    <3>. QED
      BY <2>4, <3>1 DEF Silent
  <2>5. ASSUME \/ Agent!RefreshGraph \/ Agent!Heartbeat
               \/ \E k \in Keys : Agent!HandleSerializedMessage(k)
               \/ \E k \in Keys : Agent!GraphChanges(k)
        PROVE  Silent
    BY <2>4, <2>5 DEF Agent!RefreshGraph, Agent!Heartbeat, Agent!HandleSerializedMessage,
       Agent!GraphChanges, Agent!Called
  <2>6. ASSUME NEW t \in Agent!Threads, Agent!Publication(t) PROVE Silent
    BY <1>4, <2>4, <2>6 DEF Agent!Publication, Agent!ReadGraph, Agent!StampCatalog,
       Agent!StoreRevision
  <2>7. ASSUME Agent!ServerThread PROVE Silent
    BY <2>1, <2>2, <2>3, <2>7, ThreadCases
  <2>. QED
    BY <2>3, <2>5, <2>6, <2>7, StepCases
<1>. QED
  BY <1>2, <1>3, <1>4

LEMMA AcceptKeeps ==
  ASSUME IInv, UNCHANGED clientVars, Agent!Accept
  PROVE  QueueInv' /\ ToAgentInv' /\ ToClientInv'
<1>0. /\ Head(backlog) \in 1..MaxConnections /\ Head(backlog) = backlog[1]
      /\ Len(backlog) \in Nat \ {0} /\ DOMAIN backlog = 1..Len(backlog)
      /\ DOMAIN Tail(backlog) = 1..(Len(backlog) - 1)
      /\ \A i \in 1..(Len(backlog) - 1) : Tail(backlog)[i] = backlog[i + 1]
  BY NextClient DEF IInv
<1>. PICK c \in 1..MaxConnections : c = Head(backlog)
  BY <1>0
<1>. DEFINE n == Len(backlog)
<1>1. /\ n \in Nat \ {0} /\ backlog[1] = c /\ DOMAIN backlog = 1..n /\ DOMAIN backlog' = 1..(n - 1)
      /\ \A i \in 1..(n - 1) : backlog'[i] = backlog[i + 1]
  BY <1>0 DEF Agent!Accept
<1>2. /\ server'.at = "hello" /\ server'.client = c /\ server.at = "accept" /\ server.client = 0
      /\ wire' = wire /\ session' = session /\ client' = client /\ connections' = connections
      /\ Client!Connected' = Client!Connected
  BY <1>0 DEF Agent!Accept, clientVars, IInv, TypeOK, ServerInv, Agent!ServerType, Serving,
     Client!Connected
<1>3. /\ \A i \in 1..n : backlog[i] <= connections
      /\ \A i, j \in 1..n : i < j => backlog[i] < backlog[j]
      /\ \A d \in 1..MaxConnections : wire[d].up => \E i \in 1..n : backlog[i] = d
  <2>1. /\ \A i \in DOMAIN backlog : backlog[i] <= connections
        /\ \A i, j \in DOMAIN backlog : i < j => backlog[i] < backlog[j]
        /\ \A d \in 1..MaxConnections :
             wire[d].up => d = server.client \/ \E i \in DOMAIN backlog : backlog[i] = d
    BY DEF IInv, QueueInv
  <2>2. \A d \in 1..MaxConnections : d # 0
    OBVIOUS
  <2>. HIDE DEF n
  <2>. QED
    BY <1>1, <1>2, <2>1, <2>2
<1>. HIDE DEF n
<1>4. \A d : Fresh(d)' => Fresh(d)
  BY <1>1, <1>2 DEF Fresh
<1>5. QueueInv'
  <2>1. server'.client <= connections'
    BY <1>1, <1>2, <1>3
  <2>2. ASSUME NEW i \in DOMAIN backlog'
        PROVE server'.client < backlog'[i] /\ backlog'[i] <= connections'
    BY <1>1, <1>2, <1>3
  <2>3. ASSUME NEW i \in DOMAIN backlog', NEW j \in DOMAIN backlog', i < j
        PROVE backlog'[i] < backlog'[j]
    BY <1>1, <1>3, <2>3
  <2>4. ASSUME NEW d \in 1..MaxConnections, wire'[d].up
        PROVE d = server'.client \/ \E i \in DOMAIN backlog' : backlog'[i] = d
    <3>1. PICK i \in 1..n : backlog[i] = d
      BY <1>2, <1>3, <2>4
    <3>2. CASE i = 1
      BY <1>1, <1>2, <3>1, <3>2
    <3>3. CASE i # 1
      <4>1. i - 1 \in 1..(n - 1) /\ (i - 1) + 1 = i
        BY <1>1, <3>3
      <4>2. backlog'[i - 1] = d
        BY <1>1, <3>1, <4>1
      <4>. QED
        BY <1>1, <4>1, <4>2
    <3>. QED
      BY <3>2, <3>3
  <2>. QED
    BY <2>1, <2>2, <2>3, <2>4 DEF QueueInv
<1>6. ToAgentInv'
  BY <1>2, <1>4 DEF IInv, ToAgentInv, Serving
<1>7. ToClientInv'
  <2>1. Fresh(connections)' => Fresh(connections)
    BY <1>1, <1>2 DEF Fresh
  <2>2. client.state = "ready" /\ wire[connections].up /\ Client!Connected =>
          session.state = "ready" \/ wire[connections].toServer # <<>>
    BY DEF IInv, ToClientInv
  <2>. QED
    BY <1>2, <2>1, <2>2 DEF IInv, ToClientInv, Serving
<1>. QED
  BY <1>5, <1>6, <1>7

LEMMA CloseKeeps ==
  ASSUME IInv, UNCHANGED clientVars, Agent!CloseClient
  PROVE  wire' \in [1..MaxConnections -> Client!WireType] /\ QueueInv' /\ ToAgentInv' /\ ToClientInv'
<1>0. server.client \in 1..MaxConnections
  BY DEF IInv, TypeOK, ServerInv, Agent!ServerType, Agent!CloseClient, Serving
<1>. PICK c \in 1..MaxConnections : c = server.client
  BY <1>0
<1>1. Changed(wire', c, FALSE, <<>>, wire[c].toClient)
  <2>1. /\ wire \in [1..MaxConnections -> Client!WireType] /\ FALSE \in BOOLEAN
        /\ <<>> \in Seq(Client!Frame) /\ wire[c].toClient \in Seq(Client!Frame)
    BY WireFields DEF IInv, TypeOK
  <2>2. wire' = [wire EXCEPT ![c].up = FALSE, ![c].toServer = <<>>]
    BY DEF Agent!CloseClient
  <2>. QED
    BY <2>1, <2>2, WireUpdates
<1>2. /\ wire' \in [1..MaxConnections -> Client!WireType]
      /\ ~wire'[c].up /\ wire'[c].toServer = <<>> /\ wire'[c].toClient = wire[c].toClient
      /\ \A d \in 1..MaxConnections : d # c => wire'[d] = wire[d]
  BY <1>1 DEF Changed, IsConn
<1>3. /\ server'.at = "reset" /\ server'.client = 0 /\ backlog' = backlog /\ session' = session
      /\ client' = client /\ connections' = connections /\ server.at = "close"
      /\ Client!Connected' = Client!Connected
  BY DEF Agent!CloseClient, clientVars, Client!Connected
<1>4. /\ \A i \in DOMAIN backlog : c < backlog[i] /\ backlog[i] <= connections
      /\ \A i, j \in DOMAIN backlog : i < j => backlog[i] < backlog[j]
      /\ \A d \in 1..MaxConnections :
           wire[d].up => d = c \/ \E i \in DOMAIN backlog : backlog[i] = d
      /\ connections \in Nat
  BY DEF IInv, QueueInv, TypeOK
<1>5. \A i \in DOMAIN backlog : backlog[i] \in Nat
  <2>. DEFINE S == 1..MaxConnections
  <2>1. \A i \in DOMAIN backlog : backlog[i] \in S
    <3>1. backlog \in Seq(S)
      BY DEF IInv, TypeOK
    <3>. HIDE DEF S
    <3>. QED
      BY <3>1
  <2>. QED
    BY <2>1
<1>6. \A d : Fresh(d)' => Fresh(d)
  BY <1>3 DEF Fresh
<1>7. QueueInv'
  <2>1. \A i \in DOMAIN backlog : 0 < backlog[i]
    BY <1>4, <1>5
  <2>2. \A d \in 1..MaxConnections : wire'[d].up => wire[d].up /\ d # c
    BY <1>2
  <2>. QED
    BY <1>3, <1>4, <2>1, <2>2 DEF QueueInv
<1>8. ToAgentInv'
  <2>1. ASSUME NEW d \in 1..MaxConnections, Fresh(d)'
        PROVE wire'[d].toServer = <<>> /\ wire'[d].toClient = <<>>
    BY <1>2, <1>6, <2>1 DEF IInv, ToAgentInv
  <2>. QED
    BY <1>3, <2>1 DEF ToAgentInv, Serving
<1>9. ToClientInv'
  <2>. SUFFICES ASSUME Client!Connected PROVE ToClientInv'
    BY <1>3 DEF ToClientInv
  <2>0. connections \in 1..MaxConnections
    BY DEF IInv, TypeOK, ClientInv
  <2>1. Fresh(connections)' => Fresh(connections)
    BY <1>3 DEF Fresh
  <2>2. wire'[connections].toClient = wire[connections].toClient
    BY <1>2, <2>0
  <2>3. wire'[connections].toServer \in {<<>>, wire[connections].toServer}
        /\ (wire'[connections].up => wire[connections].up /\ connections # c
              /\ wire'[connections].toServer = wire[connections].toServer)
    BY <1>2, <2>0
  <2>4. Below(wire'[connections].toServer, client.outbound)
    <3>1. Below(<<>>, client.outbound)
      BY DEF Below
    <3>. QED
      BY <2>3, <3>1 DEF IInv, ToClientInv
  <2>. QED
    BY <1>3, <2>1, <2>2, <2>3, <2>4 DEF IInv, ToClientInv, Serving
<1>. QED
  BY <1>2, <1>7, <1>8, <1>9

LEMMA HelloServes ==
  ASSUME IInv, UNCHANGED clientVars, NEW sent \in BOOLEAN, Agent!SayHello(sent)
  PROVE  \E from : Serves(<<>>, from)
<1>1. /\ server.client \in 1..MaxConnections /\ server.at = "hello" /\ server \in Agent!ServerType
  BY DEF IInv, TypeOK, ServerInv, Agent!ServerType, Agent!SayHello, Serving
<1>. PICK c \in 1..MaxConnections : c = server.client
  BY <1>1
<1>2. /\ wire \in [1..MaxConnections -> Client!WireType] /\ wire[c].up \in BOOLEAN
      /\ wire[c].toServer = <<>> /\ wire[c].toClient = <<>>
      /\ Client!Connected /\ c = connections => client.state = "awaitingHello"
  <2>1. Fresh(c)
    BY <1>1 DEF Fresh
  <2>2. wire \in [1..MaxConnections -> Client!WireType]
    BY DEF IInv, TypeOK
  <2>. QED
    BY <1>1, <2>1, <2>2, WireFields DEF IInv, ToAgentInv, ToClientInv, Fresh
<1>3. /\ io' = "free" /\ session' = [state |-> "awaitingHelloAck", lastInbound |-> -1, outbound |-> 1]
      /\ server'.at \in Serving /\ server'.client = server.client /\ UNCHANGED <<backlog, clientVars>>
      /\ NextNumber' = 1
  BY <1>1 DEF Agent!SayHello, Agent!IoFree, Agent!none, Agent!ServerType, Serving, NextNumber
<1>. DEFINE f == [type |-> "hello", seq |-> 0, arg |-> 0]
            from == IF sent /\ wire[c].up THEN <<f>> ELSE <<>>
<1>4. f \in Client!Frame /\ f.seq = 0 /\ f.type = "hello"
  BY DEF Client!Frame, Client!FrameTypes
<1>5. Changed(wire', c, wire[c].up, <<>>, from)
  <2>. HIDE DEF f
  <2>1. CASE sent /\ wire[c].up
    <3>1. wire' = [wire EXCEPT ![c].toClient = wire[c].toClient \o <<f>>]
      BY <2>1 DEF Agent!SayHello, Agent!Delivered, f
    <3>2. wire[c].toClient \o <<f>> = <<f>> /\ <<f>> \in Seq(Client!Frame)
      BY <1>2, <1>4
    <3>3. Changed(wire', c, wire[c].up, wire[c].toServer, <<f>>)
      BY <1>2, <3>1, <3>2, WireUpdates
    <3>. QED
      BY <1>2, <2>1, <3>3
  <2>2. CASE ~(sent /\ wire[c].up)
    <3>1. wire' = wire
      BY <2>2 DEF Agent!SayHello, Agent!Delivered
    <3>2. wire[c] \in Client!WireType
      BY <1>2
    <3>. QED
      BY <1>2, <2>2, <3>1, <3>2 DEF Changed, IsConn
  <2>. QED
    BY <2>1, <2>2
<1>6. Stream(<<>>, session'.lastInbound, "helloAck", session'.state = "ready", FromClient)
      /\ Below(<<>>, client.outbound)
  BY DEF Stream, Below
<1>. HIDE DEF f
<1>7. /\ \A i \in DOMAIN from : i = 1 /\ from[i] = f
  <2>1. DOMAIN <<f>> = {1} /\ <<f>>[1] = f /\ DOMAIN <<>> = {}
    OBVIOUS
  <2>. QED
    BY <2>1
<1>. HIDE DEF from
<1>8. Below(from, NextNumber')
  BY <1>3, <1>4, <1>7 DEF Below
<1>9. Client!Connected /\ server.client = connections =>
       /\ client.state = "awaitingHello" => session'.state = "awaitingHelloAck"
       /\ Stream(from, client.lastInbound, "hello", client.state = "ready", FromAgent)
       /\ ~(client.state = "ready")
       /\ session'.lastInbound < client.outbound
       /\ client.lastInbound < NextNumber'
  <2>. SUFFICES ASSUME Client!Connected, c = connections
                PROVE  /\ Stream(from, client.lastInbound, "hello", client.state = "ready", FromAgent)
                       /\ ~(client.state = "ready")
                       /\ -1 < client.outbound /\ client.lastInbound < 1
    BY <1>3
  <2>1. client.state = "awaitingHello" /\ client.lastInbound = -1 /\ client.outbound \in Nat
    BY <1>2 DEF IInv, ToClientInv, TypeOK, Client!ClientType, Client!none
  <2>2. Stream(from, client.lastInbound, "hello", client.state = "ready", FromAgent)
    BY <1>4, <1>7, <2>1 DEF Stream
  <2>. QED
    BY <2>1, <2>2
<1>10. Serves(<<>>, from)
  BY <1>1, <1>3, <1>5, <1>6, <1>8, <1>9 DEF Serves
<1>. QED
  BY <1>10

LEMMA ReceiveServes ==
  ASSUME IInv, UNCHANGED clientVars, NEW sent \in BOOLEAN, NEW n, Agent!Receive(n, sent)
  PROVE  \E to, from : Serves(to, from)
<1>0. server.client \in 1..MaxConnections
  BY Received
<1>. PICK c \in 1..MaxConnections : c = server.client
  BY <1>0
<1>. DEFINE frames == wire[c].toServer
            r == Agent!Handled(session, frames, n)
            up == wire[c].up
            old == wire[c].toClient
            to == SubSeq(frames, n + 1, Len(frames))
            from == IF sent /\ up THEN old \o r.send ELSE old
<1>1. /\ n \in 1..Len(frames) /\ io = "free" /\ server.at = "recv"
      /\ up \in BOOLEAN /\ frames \in Seq(Client!Frame) /\ old \in Seq(Client!Frame)
      /\ session'.state = "ready" /\ session'.lastInbound = frames[n].seq
      /\ session.outbound \in Nat /\ session'.outbound \in Nat
      /\ session'.outbound >= session.outbound
      /\ r.send \in Seq(Client!Frame)
      /\ Numbered(r.send, session.outbound, session'.outbound, {"pong"})
  BY Received
<1>2. /\ server \in Agent!ServerType /\ wire \in [1..MaxConnections -> Client!WireType]
      /\ wire[c] \in Client!WireType
  BY DEF IInv, TypeOK
<1>3. /\ server'.at \in Serving /\ server'.client = c
      /\ UNCHANGED <<backlog, clientVars>> /\ io' = "free"
  BY <1>1, <1>2 DEF Agent!Receive, Agent!ServerType, Serving
<1>4. NextNumber = session.outbound /\ NextNumber' = session'.outbound
  BY <1>1, <1>3 DEF NextNumber
<1>5. /\ Stream(frames, session.lastInbound, "helloAck", session.state = "ready", FromClient)
      /\ Below(old, NextNumber)
  BY <1>1 DEF IInv, ToAgentInv, Serving
<1>. HIDE DEF frames, old, up, r
<1>6. to \in Seq(Client!Frame) /\ old \o r.send \in Seq(Client!Frame)
  BY <1>1
<1>7. Changed(wire', c, up, to, from)
  <2>. DEFINE w == IF sent THEN Agent!Delivered(r.send) ELSE wire
  <2>1. Changed(w, c, up, frames, from)
    <3>1. CASE sent /\ up
      <4>1. w = [wire EXCEPT ![c].toClient = old \o r.send]
        BY <3>1 DEF Agent!Delivered, up, old
      <4>. HIDE DEF w
      <4>2. Changed([wire EXCEPT ![c].toClient = old \o r.send], c, up, frames, old \o r.send)
        <5>. DEFINE new == old \o r.send
        <5>1. new \in Seq(Client!Frame)
          BY <1>6
        <5>. HIDE DEF new
        <5>2. Changed([wire EXCEPT ![c].toClient = new], c, wire[c].up, wire[c].toServer, new)
          BY <1>1, <1>2, <5>1, WireUpdates DEF up
        <5>. QED
          BY <5>2 DEF new, up, frames
      <4>. QED
        BY <3>1, <4>1, <4>2
    <3>2. CASE ~(sent /\ up)
      <4>1. w = wire
        BY <3>2 DEF Agent!Delivered, up
      <4>. QED
        BY <1>2, <3>2, <4>1 DEF Changed, IsConn, frames, up, old
    <3>. QED
      BY <3>1, <3>2
  <2>2. wire' = [w EXCEPT ![c].toServer = SubSeq(w[c].toServer, n + 1, Len(w[c].toServer))]
    BY DEF Agent!Receive, r, frames
  <2>3. /\ w \in [1..MaxConnections -> Client!WireType] /\ w[c] \in Client!WireType
        /\ w[c].up = up /\ w[c].toServer = frames /\ w[c].toClient = from
        /\ \A d \in 1..MaxConnections : d # c => w[d] = wire[d]
    BY <2>1 DEF Changed, IsConn
  <2>. HIDE DEF w, to, from
  <2>4. IsConn([w[c] EXCEPT !.toServer = to], w[c].up, to, w[c].toClient)
    <3>1. w[c].toClient \in Seq(Client!Frame) /\ w[c].up \in BOOLEAN
      BY <2>3 DEF Client!WireType
    <3>. QED
      BY <1>6, <2>3, <3>1, ConnUpdates
  <2>5. wire' = [w EXCEPT ![c] = [w[c] EXCEPT !.toServer = to]]
    BY <2>2, <2>3 DEF to
  <2>. QED
    BY <2>3, <2>4, <2>5 DEF Changed, IsConn
<1>8. /\ Stream(to, session'.lastInbound, "helloAck", TRUE, FromClient)
      /\ \A m : Below(frames, m) => Below(to, m)
  BY <1>1, <1>5, StreamShrinks
<1>9. Below(from, NextNumber')
  <2>1. Below(old, NextNumber')
    BY <1>1, <1>4, <1>5, BelowMore
  <2>2. Below(old \o r.send, NextNumber')
    BY <1>1, <1>4, <1>5, BelowGrows
  <2>. QED
    BY <2>1, <2>2
<1>10. Client!Connected /\ c = connections =>
       /\ client.state = "ready"
       /\ Stream(from, client.lastInbound, "hello", TRUE, FromAgent)
       /\ Below(to, client.outbound)
       /\ session'.lastInbound < client.outbound
       /\ client.lastInbound < NextNumber'
  <2>. SUFFICES ASSUME Client!Connected, c = connections
                PROVE  /\ client.state = "ready"
                       /\ Stream(from, client.lastInbound, "hello", TRUE, FromAgent)
                       /\ Below(to, client.outbound)
                       /\ session'.lastInbound < client.outbound
                       /\ client.lastInbound < NextNumber'
    OBVIOUS
  <2>1. frames # <<>>
    BY <1>1
  <2>2. /\ client.state = "ready" /\ client.lastInbound \in Int
        /\ Stream(old, client.lastInbound, "hello", client.state = "ready", FromAgent)
        /\ Below(frames, client.outbound) /\ client.lastInbound < NextNumber
    BY <1>1, <2>1 DEF IInv, ToClientInv, ClientInv, TypeOK, Client!ClientType, Client!none,
       Serving, frames, old
  <2>3. (client.state = "ready") = TRUE
    BY <2>2
  <2>4. Stream(old, client.lastInbound, "hello", TRUE, FromAgent)
    BY <2>2, <2>3
  <2>5. Numbered(r.send, session.outbound, session'.outbound, FromAgent)
    BY <1>1 DEF Numbered, FromAgent
  <2>6. Stream(old \o r.send, client.lastInbound, "hello", TRUE, FromAgent)
    BY <1>1, <1>4, <1>5, <2>2, <2>4, <2>5, StreamGrows
  <2>7. session'.lastInbound < client.outbound
    BY <1>1, <2>2 DEF Below
  <2>8. client.lastInbound < NextNumber'
    BY <1>1, <1>4, <2>2
  <2>. QED
    BY <1>8, <2>2, <2>4, <2>6, <2>7, <2>8
<1>11. (session'.state = "ready") = TRUE
  BY <1>1
<1>. HIDE DEF to, from
<1>12. Stream(to, session'.lastInbound, "helloAck", session'.state = "ready", FromClient)
  BY <1>8, <1>11
<1>13. Client!Connected /\ c = connections =>
         Stream(from, client.lastInbound, "hello", client.state = "ready", FromAgent)
  <2>. SUFFICES ASSUME Client!Connected, c = connections
                PROVE  Stream(from, client.lastInbound, "hello", client.state = "ready", FromAgent)
    OBVIOUS
  <2>1. (client.state = "ready") = TRUE /\ Stream(from, client.lastInbound, "hello", TRUE, FromAgent)
    BY <1>10
  <2>. QED
    BY <2>1
<1>14. Changed(wire', server.client, wire[server.client].up, to, from)
  BY <1>7 DEF up
<1>15. Client!Connected /\ c = connections =>
         /\ client.state = "awaitingHello" => to = <<>> /\ session'.state = "awaitingHelloAck"
         /\ Stream(from, client.lastInbound, "hello", client.state = "ready", FromAgent)
         /\ Below(to, client.outbound)
         /\ client.state = "ready" /\ wire[connections].up => session'.state = "ready" \/ to # <<>>
         /\ session'.lastInbound < client.outbound
         /\ client.lastInbound < NextNumber'
  <2>. SUFFICES ASSUME Client!Connected, c = connections
                PROVE  /\ client.state # "awaitingHello" /\ session'.state = "ready"
                       /\ Stream(from, client.lastInbound, "hello", client.state = "ready", FromAgent)
                       /\ Below(to, client.outbound)
                       /\ session'.lastInbound < client.outbound
                       /\ client.lastInbound < NextNumber'
    BY Zenon
  <2>1. client.state # "awaitingHello" /\ session'.state = "ready"
    BY <1>1, <1>10
  <2>. QED
    BY <1>10, <1>13, <2>1
<1>16. server.client # 0 /\ server'.client = server.client
  BY <1>0, <1>3
<1>17. Serves(to, from)
  BY <1>3, <1>9, <1>12, <1>14, <1>15, <1>16, Zenon DEF Serves
<1>. QED
  BY <1>17

LEMMA SendServes ==
  ASSUME IInv, UNCHANGED clientVars, NEW t \in Agent!Threads, Agent!SendFrame(t)
  PROVE  wire' = wire \/ \E to, from : Serves(to, from)
<1>. SUFFICES ASSUME wire' # wire PROVE \E to, from : Serves(to, from)
  OBVIOUS
<1>1. /\ io = t /\ io' = "free" /\ session.state = "ready" /\ job[t].seq < session.outbound
      /\ job[t].type \in FromAgent /\ UNCHANGED <<server, session, backlog>>
  BY SentFrame DEF IInv
<1>. DEFINE f == [type |-> job[t].type, seq |-> job[t].seq, arg |-> job[t].arg]
<1>2. /\ server.client # 0 /\ wire' = Agent!Delivered(<<f>>)
  BY DEF Agent!SendFrame
<1>3. /\ server \in Agent!ServerType /\ wire \in [1..MaxConnections -> Client!WireType]
      /\ job[t] \in Agent!JobType /\ session.outbound \in Nat
  BY DEF IInv, TypeOK, Agent!SessionType
<1>4. f \in Client!Frame /\ f.seq = job[t].seq /\ f.type = job[t].type /\ job[t].seq \in Nat
  BY <1>1, <1>3, JobFields DEF Client!Frame, Client!FrameTypes, FromAgent
<1>5. NextNumber = job[t].seq /\ NextNumber' = session.outbound
  BY <1>1 DEF NextNumber, Agent!Threads
<1>6. server.client \in 1..MaxConnections /\ server.at \in Serving
  <2>1. server.at # "hello"
    BY <1>1 DEF IInv, ServerInv, Agent!IdleSession
  <2>. QED
    BY <1>2, <1>3, <2>1 DEF IInv, ServerInv, Agent!ServerType
<1>. PICK c \in 1..MaxConnections : c = server.client
  BY <1>6
<1>. DEFINE to == wire[c].toServer
            old == wire[c].toClient
            more == <<f>>
            from == old \o more
<1>. HIDE DEF f
<1>7. /\ to \in Seq(Client!Frame) /\ old \in Seq(Client!Frame) /\ more \in Seq(Client!Frame)
      /\ DOMAIN more = {1} /\ more[1] = f /\ wire[c].up \in BOOLEAN
  BY <1>3, <1>4, WireFields
<1>. HIDE DEF more, old
<1>8. from \in Seq(Client!Frame)
  BY <1>7
<1>9. wire[c].up /\ wire' = [wire EXCEPT ![c].toClient = from]
  BY <1>2 DEF Agent!Delivered, more, old
<1>10. Changed(wire', c, wire[c].up, to, from)
  BY <1>3, <1>8, <1>9, WireUpdates
<1>11. Numbered(more, job[t].seq, session.outbound, FromAgent)
  BY <1>1, <1>3, <1>4, <1>7 DEF Numbered
<1>12. /\ Stream(to, session.lastInbound, "helloAck", session.state = "ready", FromClient)
       /\ Below(old, NextNumber)
  BY <1>6 DEF IInv, ToAgentInv, old
<1>13. Below(from, NextNumber')
  BY <1>1, <1>3, <1>4, <1>5, <1>7, <1>11, <1>12, BelowGrows
<1>14. Client!Connected /\ c = connections =>
       /\ client.state = "ready"
       /\ Stream(from, client.lastInbound, "hello", client.state = "ready", FromAgent)
       /\ Below(to, client.outbound)
       /\ session.lastInbound < client.outbound
       /\ client.lastInbound < NextNumber'
  <2>. SUFFICES ASSUME Client!Connected, c = connections
                PROVE  /\ client.state = "ready"
                       /\ Stream(from, client.lastInbound, "hello", client.state = "ready", FromAgent)
                       /\ Below(to, client.outbound)
                       /\ session.lastInbound < client.outbound
                       /\ client.lastInbound < NextNumber'
    OBVIOUS
  <2>1. /\ client.state = "ready" /\ client.lastInbound \in Int
        /\ Stream(old, client.lastInbound, "hello", client.state = "ready", FromAgent)
        /\ Below(to, client.outbound) /\ session.lastInbound < client.outbound
        /\ client.lastInbound < NextNumber
    BY <1>1, <1>6 DEF IInv, ToClientInv, ClientInv, TypeOK, Client!ClientType, Client!none, old
  <2>. DEFINE open == client.state = "ready"
  <2>2. open = TRUE /\ Stream(old, client.lastInbound, "hello", open, FromAgent)
    BY <2>1
  <2>. HIDE DEF open
  <2>3. Stream(old \o more, client.lastInbound, "hello", open, FromAgent)
    BY <1>3, <1>4, <1>5, <1>7, <1>11, <1>12, <2>1, <2>2, StreamGrows
  <2>4. client.lastInbound < NextNumber'
    BY <1>1, <1>3, <1>4, <1>5, <2>1
  <2>. QED
    BY <2>1, <2>3, <2>4 DEF open
<1>. HIDE DEF from, to
<1>15. Serves(to, from)
  BY <1>1, <1>6, <1>10, <1>12, <1>13, <1>14 DEF Serves
<1>. QED
  BY <1>15

LEMMA ServerCases ==
  ASSUME IInv, UNCHANGED clientVars, Agent!ServerStep
  PROVE  \/ Agent!Accept
         \/ Agent!CloseClient
         \/ \E to, from : Serves(to, from)
         \/ Silent
<1>. DEFINE Said == \E sent \in BOOLEAN : Agent!SayHello(sent) \/ \E n : Agent!Receive(n, sent)
            Goal == \/ Agent!Accept \/ Agent!CloseClient
                    \/ \E to, from : Serves(to, from)
                    \/ Silent
<1>1. ASSUME Said PROVE Goal
  BY <1>1, HelloServes, ReceiveServes
<1>2. CASE Agent!Accept \/ Agent!CloseClient
  BY <1>2
<1>3. ASSUME ~Said, ~Agent!Accept, ~Agent!CloseClient PROVE UNCHANGED backlog
  <2>1. CASE Agent!ServerThread
    BY <1>3, <2>1, ThreadCases DEF Agent!ClientGone, Agent!ResetSession,
       Agent!ClearSubscriptions, Agent!ActionsDone, Agent!CatalogRequested,
       Agent!SubscribeTopic, Agent!UnsubscribeTopic
  <2>2. CASE Agent!AcceptFails \/ Agent!RefreshGraph \/ Agent!Heartbeat
             \/ \E k \in Keys : Agent!HandleSerializedMessage(k) \/ Agent!GraphChanges(k)
    BY <2>2 DEF Agent!AcceptFails, Agent!RefreshGraph, Agent!Heartbeat,
       Agent!HandleSerializedMessage, Agent!GraphChanges, Agent!Called
  <2>3. CASE \E t \in Agent!Threads : Agent!Publication(t)
    BY <2>3 DEF Agent!Publication, Agent!ReadGraph, Agent!StampCatalog,
       Agent!StoreRevision, Agent!MakeFrame, Agent!SendFrame
  <2>. QED
    BY <2>1, <2>2, <2>3, StepCases, Zenon
<1>4. ASSUME ~Said, ~Agent!Accept, ~Agent!CloseClient, wire' = wire PROVE Goal
  <2>1. \A sent \in BOOLEAN : ~Agent!SayHello(sent) /\ \A n : ~Agent!Receive(n, sent)
    BY <1>4, Zenon
  <2>2. UNCHANGED <<wire, backlog>>
    BY <1>3, <1>4
  <2>3. Silent
    BY <1>4, <2>1, <2>2, SilentSteps
  <2>. QED
    BY <2>3
<1>5. ASSUME ~Said, ~Agent!Accept, ~Agent!CloseClient, wire' # wire PROVE Goal
  <2>1. \E t \in Agent!Threads : Agent!SendFrame(t)
    <3>1. ~Agent!ServerThread
      BY <1>5, ThreadCases DEF Agent!ClientGone, Agent!ResetSession,
         Agent!ClearSubscriptions, Agent!ActionsDone, Agent!CatalogRequested,
         Agent!SubscribeTopic, Agent!UnsubscribeTopic
    <3>2. ~(\/ Agent!AcceptFails \/ Agent!RefreshGraph \/ Agent!Heartbeat
            \/ \E k \in Keys : Agent!HandleSerializedMessage(k) \/ Agent!GraphChanges(k))
      BY <1>5 DEF Agent!AcceptFails, Agent!RefreshGraph, Agent!Heartbeat,
         Agent!HandleSerializedMessage, Agent!GraphChanges, Agent!Called
    <3>3. PICK t \in Agent!Threads : Agent!Publication(t)
      BY <3>1, <3>2, StepCases, Zenon
    <3>4. ~(Agent!ReadGraph(t) \/ Agent!StampCatalog(t) \/ Agent!StoreRevision(t)
            \/ Agent!MakeFrame(t))
      BY <1>5 DEF Agent!ReadGraph, Agent!StampCatalog, Agent!StoreRevision, Agent!MakeFrame
    <3>. QED
      BY <3>3, <3>4 DEF Agent!Publication
  <2>. QED
    BY <1>5, <2>1, SendServes
<1>. QED
  BY <1>1, <1>2, <1>4, <1>5

LEMMA SessionTypes ==
  ASSUME IInv, Agent!ServerStep
  PROVE  session' \in Agent!SessionType /\ io' \in {"free"} \cup Agent!Threads
<1>. DEFINE Goal == session' \in Agent!SessionType /\ io' \in {"free"} \cup Agent!Threads
<1>0. /\ session \in Agent!SessionType /\ io \in {"free"} \cup Agent!Threads
      /\ TypeOK /\ ServerInv
  BY DEF IInv, TypeOK
<1>1. ASSUME NEW t \in Agent!Threads, Agent!MakeFrame(t) PROVE Goal
  <2>1. session' \in Agent!SessionType
    BY <1>0, <1>1, MadeFrame
  <2>2. io' \in {t, "free"}
    BY <1>0, <1>1, MadeFrame
  <2>. QED
    BY <2>1, <2>2
<1>2. ASSUME NEW t \in Agent!Threads, Agent!SendFrame(t) PROVE Goal
  BY <1>0, <1>2, SentFrame
<1>3. ASSUME \A t \in Agent!Threads : ~Agent!MakeFrame(t) /\ ~Agent!SendFrame(t) PROVE Goal
  <2>1. io' = io
    BY <1>3, IoSteps
  <2>2. session' \in Agent!SessionType
    <3>1. ASSUME NEW sent \in BOOLEAN, Agent!SayHello(sent) PROVE session' \in Agent!SessionType
      <4>1. session' = [state |-> "awaitingHelloAck", lastInbound |-> Agent!none, outbound |-> 1]
        BY <3>1 DEF Agent!SayHello
      <4>. QED
        BY <4>1 DEF Agent!SessionType
    <3>2. ASSUME NEW sent \in BOOLEAN, NEW n, Agent!Receive(n, sent)
          PROVE session' \in Agent!SessionType
      BY <3>2, Received
    <3>3. ASSUME Agent!ResetSession PROVE session' \in Agent!SessionType
      BY <3>3 DEF Agent!ResetSession, Agent!IdleSession, Agent!SessionType
    <3>4. ASSUME Agent!Accept \/ Agent!ClientGone \/ Agent!CloseClient
                 \/ Agent!ClearSubscriptions \/ Agent!ActionsDone \/ Agent!CatalogRequested
                 \/ Agent!SubscribeTopic \/ Agent!UnsubscribeTopic
          PROVE session' \in Agent!SessionType
      BY <1>0, <3>4 DEF Agent!Accept, Agent!ClientGone, Agent!CloseClient,
         Agent!ClearSubscriptions, Agent!ActionsDone, Agent!CatalogRequested,
         Agent!SubscribeTopic, Agent!UnsubscribeTopic
    <3>5. ASSUME Agent!ServerThread PROVE session' \in Agent!SessionType
      BY <3>1, <3>2, <3>3, <3>4, <3>5, ThreadCases, Zenon
    <3>6. ASSUME \/ Agent!AcceptFails \/ Agent!RefreshGraph \/ Agent!Heartbeat
                 \/ \E k \in Keys : Agent!HandleSerializedMessage(k)
                 \/ \E k \in Keys : Agent!GraphChanges(k)
          PROVE session' \in Agent!SessionType
      BY <1>0, <3>6 DEF Agent!AcceptFails, Agent!RefreshGraph, Agent!Heartbeat,
         Agent!HandleSerializedMessage, Agent!GraphChanges, Agent!Called
    <3>7. ASSUME NEW t \in Agent!Threads, Agent!Publication(t) PROVE session' \in Agent!SessionType
      BY <1>0, <1>3, <3>7 DEF Agent!Publication, Agent!ReadGraph, Agent!StampCatalog,
         Agent!StoreRevision
    <3>. QED
      BY <3>5, <3>6, <3>7, StepCases, Zenon
  <2>. QED
    BY <1>0, <2>1, <2>2
<1>. QED
  BY <1>1, <1>2, <1>3

LEMMA ServerKeeps ==
  ASSUME IInv, Agent!ServerStep, UNCHANGED clientVars
  PROVE  IInv'
<1>1. wire' \in [1..MaxConnections -> Client!WireType] /\ backlog' \in Seq(1..MaxConnections)
  <2>0. /\ wire \in [1..MaxConnections -> Client!WireType] /\ backlog \in Seq(1..MaxConnections)
        /\ TypeOK
    BY DEF IInv, TypeOK
  <2>1. CASE Agent!Accept
    <3>1. backlog' = Tail(backlog) /\ wire' = wire
      BY <2>1 DEF Agent!Accept
    <3>. QED
      BY <2>0, <2>1, <3>1, NextClient
  <2>2. CASE Agent!CloseClient
    <3>1. backlog' = backlog
      BY <2>2 DEF Agent!CloseClient
    <3>. QED
      BY <2>0, <2>2, <3>1, CloseKeeps
  <2>3. ASSUME NEW to, NEW from, Serves(to, from)
        PROVE  wire' \in [1..MaxConnections -> Client!WireType] /\ backlog' \in Seq(1..MaxConnections)
    <3>1. backlog' = backlog
      BY <2>3 DEF Serves
    <3>. QED
      BY <2>0, <2>3, <3>1, ServesKeeps
  <2>4. CASE Silent
    BY <2>0, <2>4 DEF Silent
  <2>. QED
    BY <2>1, <2>2, <2>3, <2>4, ServerCases
<1>2. TypeOK'
  <2>1. session' \in Agent!SessionType /\ io' \in {"free"} \cup Agent!Threads
    BY SessionTypes
  <2>2. job' \in [Agent!Threads -> Agent!JobType]
    BY ServerJobs DEF IInv, JobsKept
  <2>3. ServerTypes
    BY StepTypes
  <2>4. failures' \in Nat /\ events' \in Nat
    BY CountsKept DEF IInv
  <2>5. client' \in Client!ClientType /\ connections' \in 0..MaxConnections
    BY DEF IInv, TypeOK, clientVars
  <2>. QED
    BY <1>1, <2>1, <2>2, <2>3, <2>4, <2>5 DEF TypeOK, ServerTypes
<1>3. ClientInv'
  BY DEF IInv, ClientInv, clientVars, TimersMatchState, Client!Connected
<1>4. ServerInv'
  BY ServerInvKept
<1>5. QueueInv' /\ ToAgentInv' /\ ToClientInv'
  BY <1>2, ServerCases, AcceptKeeps, CloseKeeps, ServesKeeps, SilentKeeps
<1>. QED
  BY <1>2, <1>3, <1>4, <1>5 DEF IInv

-----------------------------------------------------------------------------
(* The invariant is inductive. *)

LEMMA InitOK ==
  ASSUME Init
  PROVE  IInv
<1>. USE BoundsAssumption
<1>1. /\ client = [state |-> "disconnected", desiredOpen |-> FALSE, autoReconnect |-> FALSE,
                   socket |-> "none", handshakeTimer |-> FALSE, reconnectTimer |-> FALSE,
                   lastInbound |-> -1, outbound |-> 0, desired |-> {}, revision |-> 0]
      /\ connections = 0
  BY DEF Init, Client!ClientInit, Client!none
<1>2. client \in Client!ClientType
  BY <1>1 DEF Client!ClientType, Client!none
<1>3. wire \in [1..MaxConnections -> Client!WireType] /\ \A c \in 1..MaxConnections : ~wire[c].up
  BY DEF Init, Client!WireType
<1>4. \A c \in 1..MaxConnections : wire[c].toServer = <<>> /\ wire[c].toClient = <<>>
  BY DEF Init
<1>5. /\ server.at = "accept" /\ server.client = 0 /\ server \in Agent!ServerType
      /\ session = Agent!IdleSession /\ session \in Agent!SessionType /\ io = "free"
  BY DEF Init, Agent!ServerInit, Agent!ServerType, Agent!IdleSession, Agent!SessionType, Agent!none
<1>6. /\ job = [t \in Agent!Threads |-> Agent!NoJob] /\ Agent!NoJob \in Agent!JobType
      /\ \A t \in Agent!Threads : job[t].at = "none"
  BY DEF Init, Agent!ServerInit, Agent!NoJob, Agent!JobType
<1>7. node \in Agent!NodeType /\ graph \subseteq Keys /\ refused \subseteq Keys
  BY DEF Init, Agent!ServerInit, Agent!NodeType
<1>8. backlog = <<>> /\ failures = 0 /\ events = 0
  BY DEF Init
<1>9. TypeOK
  <2>1. job \in [Agent!Threads -> Agent!JobType] /\ io \in {"free"} \cup Agent!Threads
    BY <1>5, <1>6
  <2>2. backlog \in Seq(1..MaxConnections) /\ connections \in 0..MaxConnections
        /\ failures \in Nat /\ events \in Nat
    BY <1>1, <1>8
  <2>. QED
    BY <1>2, <1>3, <1>5, <1>7, <2>1, <2>2 DEF TypeOK
<1>10. ClientInv
  <2>1. IsFiniteSet(client.desired)
    BY <1>1, FS_EmptySet
  <2>. QED
    BY <1>1, <2>1 DEF ClientInv, TimersMatchState, Client!Connected
<1>11. ServerInv
  BY <1>5, <1>6 DEF ServerInv, Serving
<1>12. QueueInv
  BY <1>1, <1>3, <1>5, <1>8 DEF QueueInv
<1>13. ToAgentInv /\ ToClientInv
  BY <1>1, <1>4, <1>5 DEF ToAgentInv, ToClientInv, Serving, Client!Connected
<1>. QED
  BY <1>9, <1>10, <1>11, <1>12, <1>13 DEF IInv

LEMMA StutterKeeps ==
  ASSUME IInv, UNCHANGED vars
  PROVE  IInv'
<1>1. /\ UNCHANGED <<client, connections, wire, backlog, failures, events>>
      /\ UNCHANGED <<server, session, io, job, node, graph, refused>>
  BY DEF vars, clientVars, serverVars
<1>2. TypeOK'
  BY <1>1 DEF IInv, TypeOK
<1>3. ClientInv'
  BY <1>1 DEF IInv, ClientInv, TimersMatchState, Client!Connected
<1>4. ServerInv'
  BY <1>1 DEF IInv, ServerInv
<1>5. QueueInv'
  BY <1>1 DEF IInv, QueueInv
<1>6. ToAgentInv' /\ ToClientInv'
  <2>1. /\ NextNumber' = NextNumber /\ Client!Connected' = Client!Connected
        /\ \A c : Fresh(c)' = Fresh(c)
    BY <1>1 DEF NextNumber, Client!Connected, Fresh
  <2>2. ToAgentInv'
    BY <1>1, <2>1 DEF IInv, ToAgentInv
  <2>3. ToClientInv'
    BY <1>1, <2>1 DEF IInv, ToClientInv, Fresh
  <2>. QED
    BY <2>2, <2>3
<1>. QED
  BY <1>2, <1>3, <1>4, <1>5, <1>6 DEF IInv

LEMMA Inductive == Spec => []IInv
<1>1. Init => IInv
  BY InitOK
<1>2. IInv /\ [Next]_vars => IInv'
  BY ClientKeeps, ServerKeeps, BreakKeeps, StutterKeeps, Zenon DEF Next
<1>. QED
  BY <1>1, <1>2, PTL DEF Spec

-----------------------------------------------------------------------------

(* Every variable of the client, the agent and the wire between them keeps its type. *)
THEOREM TypeCorrect == Spec => []TypeOK
<1>1. IInv => TypeOK
  BY DEF IInv
<1>. QED
  BY <1>1, Inductive, PTL

(* consume() of ServerSession never ends the session in its error state, and handleFrame() *)
(* of RemoteAgentWorker never ends a client that reconnects in the state that is not       *)
(* retried: neither end accuses the other, however the agent's two threads interleave.     *)
THEOREM ProtocolIsKept == Spec => []ProtocolHolds
<1>1. IInv => ProtocolHolds
  <2>. SUFFICES ASSUME IInv PROVE ProtocolHolds
    OBVIOUS
  <2>1. server.at \in ServerPlaces
    BY ServerUpdates DEF IInv, TypeOK
  <2>2. session.state # "error"
    <3>1. CASE server.at \in Serving \cup {"reset"}
      BY <3>1 DEF IInv, ServerInv
    <3>2. CASE server.at \in {"accept", "hello", "forget", "ended"}
      BY <3>2 DEF IInv, ServerInv, Agent!IdleSession
    <3>. QED
      BY <2>1, <3>1, <3>2 DEF ServerPlaces, Serving
  <2>. QED
    BY <2>2 DEF IInv, ClientInv, ProtocolHolds
<1>. QED
  BY <1>1, Inductive, PTL

(* The handshake timer runs only while a hello is awaited and the reconnection timer only *)
(* while nothing else is under way; a client that is to reconnect always has one of the   *)
(* two, a connection attempt or the timer, never both (scheduleReconnect() and the slots  *)
(* of the socket).                                                                        *)
THEOREM TimersAreRight == Spec => []TimersMatchState
<1>1. IInv => TimersMatchState
  BY DEF IInv, ClientInv
<1>. QED
  BY <1>1, Inductive, PTL

-----------------------------------------------------------------------------
(* What the client asked for, and what of it the agent has heard. *)

(* The places of a sequence of frames or requests that are about the key k. *)
About(asks, k) ==
  {i \in DOMAIN asks : asks[i].type \in {"subscribe", "unsubscribe"} /\ asks[i].arg = k}

(* The keys wanted by who wanted some keys and then asked for these things: of every key *)
(* the last one counts.                                                                  *)
After(asks, wanted) ==
  {k \in Keys :
     \/ k \in wanted /\ About(asks, k) = {}
     \/ \E i \in About(asks, k) :
          asks[i].type = "subscribe" /\ \A j \in About(asks, k) : j <= i}

(* The same of one of them. *)
AfterOne(ask, wanted) ==
  CASE ask.type = "subscribe" -> wanted \cup {ask.arg}
    [] ask.type = "unsubscribe" -> wanted \ {ask.arg}
    [] OTHER -> wanted

LEMMA AfterNothing ==
  ASSUME NEW wanted \in SUBSET Keys
  PROVE  After(<<>>, wanted) = wanted
<1>1. \A k : About(<<>>, k) = {}
  BY DEF About
<1>. QED
  BY <1>1 DEF After

LEMMA AfterOneType ==
  ASSUME NEW ask, ask.type \in {"subscribe", "unsubscribe"} => ask.arg \in Keys,
         NEW wanted \in SUBSET Keys
  PROVE  AfterOne(ask, wanted) \in SUBSET Keys
  BY DEF AfterOne

LEMMA AfterAppend ==
  ASSUME NEW T, NEW asks \in Seq(T), NEW ask \in T, NEW wanted \in SUBSET Keys,
         ask.type \in {"subscribe", "unsubscribe"} => ask.arg \in Keys
  PROVE  After(Append(asks, ask), wanted) = AfterOne(ask, After(asks, wanted))
<1>. DEFINE more == Append(asks, ask)
            n == Len(asks)
<1>1. /\ n \in Nat /\ DOMAIN asks = 1..n /\ DOMAIN more = 1..(n + 1)
      /\ \A i \in 1..n : more[i] = asks[i]
      /\ more[n + 1] = ask
  BY Appending
<1>. HIDE DEF more, n
<1>2. ASSUME NEW k \in Keys
      PROVE  k \in After(more, wanted) <=> k \in AfterOne(ask, After(asks, wanted))
  <2>1. CASE ask.type \in {"subscribe", "unsubscribe"} /\ ask.arg = k
    <3>1. n + 1 \in About(more, k) /\ \A j \in About(more, k) : j <= n + 1
      BY <1>1, <2>1 DEF About
    <3>2. k \in After(more, wanted) <=> ask.type = "subscribe"
      <4>1. \A i \in About(more, k) : n + 1 <= i => i = n + 1
        BY <1>1 DEF About
      <4>. QED
        BY <1>1, <3>1, <4>1 DEF After
    <3>. QED
      BY <1>2, <2>1, <3>2 DEF AfterOne
  <2>2. CASE ~(ask.type \in {"subscribe", "unsubscribe"} /\ ask.arg = k)
    <3>1. About(more, k) = About(asks, k)
      <4>1. \A i \in 1..(n + 1) : i \in About(more, k) <=> i \in About(asks, k)
        <5>1. \A i \in 1..n : i \in About(more, k) <=> i \in About(asks, k)
          BY <1>1 DEF About
        <5>2. n + 1 \notin About(more, k) /\ n + 1 \notin About(asks, k)
          BY <1>1, <2>2 DEF About
        <5>. QED
          BY <1>1, <5>1, <5>2
      <4>2. About(more, k) \subseteq 1..(n + 1) /\ About(asks, k) \subseteq 1..(n + 1)
        BY <1>1 DEF About
      <4>. QED
        BY <4>1, <4>2
    <3>2. \A i \in About(asks, k) : more[i] = asks[i]
      BY <1>1 DEF About
    <3>3. k \in After(more, wanted) <=> k \in After(asks, wanted)
      BY <3>1, <3>2 DEF After
    <3>. QED
      BY <2>2, <3>3 DEF AfterOne
  <2>. QED
    BY <2>1, <2>2
<1>3. After(asks, wanted) \in SUBSET Keys /\ After(more, wanted) \in SUBSET Keys
  BY DEF After
<1>4. AfterOne(ask, After(asks, wanted)) \in SUBSET Keys
  BY <1>3, AfterOneType
<1>. QED
  BY <1>2, <1>3, <1>4 DEF more

LEMMA AfterHead ==
  ASSUME NEW T, NEW asks \in Seq(T), asks # <<>>, NEW wanted \in SUBSET Keys,
         asks[1].type \in {"subscribe", "unsubscribe"} => asks[1].arg \in Keys
  PROVE  After(asks, wanted) = After(Tail(asks), AfterOne(asks[1], wanted))
<1>. DEFINE rest == Tail(asks)
            n == Len(asks)
            ask == asks[1]
            then == AfterOne(ask, wanted)
<1>1. /\ n \in Nat \ {0} /\ DOMAIN asks = 1..n /\ DOMAIN rest = 1..(n - 1)
      /\ \A i \in 1..(n - 1) : rest[i] = asks[i + 1]
  BY Dequeuing
<1>2. then \in SUBSET Keys
  BY AfterOneType
<1>. HIDE DEF rest, n
<1>3. ASSUME NEW k \in Keys
      PROVE  k \in After(asks, wanted) <=> k \in After(rest, then)
  <2>1. \A i \in 1..(n - 1) : i \in About(rest, k) <=> i + 1 \in About(asks, k)
    BY <1>1 DEF About
  <2>2. 1 \in About(asks, k) <=> ask.type \in {"subscribe", "unsubscribe"} /\ ask.arg = k
    BY <1>1 DEF About
  <2>3. About(rest, k) \subseteq 1..(n - 1) /\ About(asks, k) \subseteq 1..n
    BY <1>1 DEF About
  <2>4. CASE About(rest, k) = {}
    <3>1. About(asks, k) \subseteq {1}
      <4>1. ASSUME NEW i \in About(asks, k), i # 1 PROVE FALSE
        <5>1. i - 1 \in 1..(n - 1) /\ (i - 1) + 1 = i
          BY <1>1, <2>3, <4>1
        <5>2. i - 1 \in About(rest, k)
          BY <2>1, <4>1, <5>1
        <5>. QED
          BY <2>4, <5>2
      <4>. QED
        BY <4>1
    <3>2. k \in After(rest, then) <=> k \in then
      BY <2>4 DEF After
    <3>3. CASE 1 \in About(asks, k)
      <4>1. About(asks, k) = {1}
        BY <3>1, <3>3
      <4>2. k \in After(asks, wanted) <=> ask.type = "subscribe"
        BY <4>1 DEF After
      <4>3. k \in then <=> ask.type = "subscribe"
        BY <2>2, <3>3 DEF AfterOne
      <4>. QED
        BY <3>2, <4>2, <4>3
    <3>4. CASE 1 \notin About(asks, k)
      <4>1. About(asks, k) = {}
        BY <3>1, <3>4
      <4>2. k \in After(asks, wanted) <=> k \in wanted
        BY <4>1 DEF After
      <4>3. k \in then <=> k \in wanted
        BY <2>2, <3>4 DEF AfterOne
      <4>. QED
        BY <3>2, <4>2, <4>3
    <3>. QED
      BY <3>3, <3>4
  <2>5. CASE About(rest, k) # {}
    <3>1. About(asks, k) # {}
      BY <2>1, <2>3, <2>5
    <3>2. ASSUME NEW i \in About(rest, k), rest[i].type = "subscribe",
                 \A j \in About(rest, k) : j <= i
          PROVE  k \in After(asks, wanted)
      <4>1. i \in 1..(n - 1) /\ i + 1 \in About(asks, k) /\ asks[i + 1].type = "subscribe"
        BY <1>1, <2>1, <2>3, <3>2
      <4>2. ASSUME NEW j \in About(asks, k) PROVE j <= i + 1
        <5>1. j \in 1..n
          BY <2>3
        <5>2. CASE j = 1
          BY <4>1, <5>2
        <5>3. CASE j # 1
          <6>1. j - 1 \in 1..(n - 1) /\ (j - 1) + 1 = j
            BY <1>1, <5>1, <5>3
          <6>2. j - 1 <= i
            BY <2>1, <3>2, <6>1
          <6>. QED
            BY <1>1, <4>1, <5>1, <6>2
        <5>. QED
          BY <5>2, <5>3
      <4>. QED
        BY <4>1, <4>2 DEF After
    <3>3. ASSUME NEW i \in About(asks, k), asks[i].type = "subscribe",
                 \A j \in About(asks, k) : j <= i
          PROVE  k \in After(rest, then)
      <4>1. PICK m \in About(rest, k) : TRUE
        BY <2>5
      <4>2. m \in 1..(n - 1) /\ m + 1 \in About(asks, k) /\ m + 1 <= i /\ i \in 1..n
        BY <2>1, <2>3, <3>3
      <4>3. i - 1 \in 1..(n - 1) /\ (i - 1) + 1 = i
        BY <1>1, <4>2
      <4>4. i - 1 \in About(rest, k) /\ rest[i - 1].type = "subscribe"
        BY <1>1, <2>1, <3>3, <4>3
      <4>5. ASSUME NEW j \in About(rest, k) PROVE j <= i - 1
        <5>1. j \in 1..(n - 1) /\ j + 1 <= i
          BY <2>1, <2>3, <3>3
        <5>. QED
          BY <1>1, <4>2, <5>1
      <4>. QED
        BY <4>4, <4>5 DEF After
    <3>. QED
      BY <2>5, <3>1, <3>2, <3>3 DEF After
  <2>. QED
    BY <2>4, <2>5
<1>4. After(asks, wanted) \in SUBSET Keys /\ After(rest, then) \in SUBSET Keys
  BY DEF After
<1>. QED
  BY <1>3, <1>4 DEF rest

LEMMA Remainder ==
  ASSUME NEW T, NEW s \in Seq(T), NEW i \in Nat, i < Len(s)
  PROVE  LET rest == SubSeq(s, i + 1, Len(s))
         IN /\ rest \in Seq(T) /\ rest # <<>> /\ rest[1] = s[i + 1]
            /\ Tail(rest) = SubSeq(s, (i + 1) + 1, Len(s))
<1>. DEFINE rest == SubSeq(s, i + 1, Len(s))
            next == SubSeq(s, (i + 1) + 1, Len(s))
            n == Len(s)
<1>1. n \in Nat /\ i + 1 \in 1..n
  OBVIOUS
<1>2. rest \in Seq(T) /\ Len(rest) = n - i /\ rest[1] = s[i + 1]
      /\ \A j \in 1..(n - i) : rest[j] = s[i + j]
  BY <1>1
<1>3. next \in Seq(T) /\ Len(next) = n - i - 1
      /\ \A j \in 1..(n - i - 1) : next[j] = s[i + j + 1]
  BY <1>1
<1>. HIDE DEF rest, next, n
<1>4. rest # <<>>
  <2>1. Len(rest) # 0
    BY <1>1, <1>2
  <2>2. Len(<<>>) = 0
    OBVIOUS
  <2>. QED
    BY <2>1, <2>2
<1>5. /\ Tail(rest) \in Seq(T) /\ DOMAIN Tail(rest) = 1..(n - i - 1)
      /\ \A j \in 1..(n - i - 1) : Tail(rest)[j] = rest[j + 1]
  <2>1. /\ Tail(rest) \in Seq(T) /\ DOMAIN Tail(rest) = 1..(Len(rest) - 1)
        /\ \A j \in 1..(Len(rest) - 1) : Tail(rest)[j] = rest[j + 1]
    BY <1>2, <1>4, Dequeuing
  <2>. QED
    BY <1>2, <2>1
<1>6. \A j \in 1..(n - i - 1) : Tail(rest)[j] = next[j]
  <2>. TAKE j \in 1..(n - i - 1)
  <2>1. j + 1 \in 1..(n - i) /\ i + (j + 1) = i + j + 1
    BY <1>1
  <2>. QED
    BY <1>2, <1>3, <1>5, <2>1
<1>7. Len(Tail(rest)) = n - i - 1
  <2>1. Len(Tail(rest)) = Len(rest) - 1
    BY <1>2, <1>4
  <2>. QED
    BY <1>2, <2>1
<1>8. Tail(rest) = next
  <2>. DEFINE t == Tail(rest)
  <2>1. t \in Seq(T) /\ Len(t) = Len(next) /\ \A j \in 1..Len(t) : t[j] = next[j]
    BY <1>3, <1>5, <1>6, <1>7
  <2>. HIDE DEF t
  <2>2. t = next
    BY <1>3, <2>1
  <2>. QED
    BY <2>2 DEF t
<1>. QED
  BY <1>2, <1>4, <1>8 DEF rest, next, n

(* The requests a session makes of the frames it is given ask for the same as they do. *)
LEMMA HandledAsks ==
  ASSUME NEW s \in Agent!SessionType, NEW frames \in Seq(Client!Frame),
         NEW n \in 1..Len(frames), s.state \in {"awaitingHelloAck", "ready"},
         Stream(frames, s.lastInbound, "helloAck", s.state = "ready", FromClient),
         NEW wanted \in SUBSET Keys
  PROVE  After(SubSeq(frames, n + 1, Len(frames)), After(Agent!Handled(s, frames, n).todo, wanted))
           = After(frames, wanted)
<1>0. PICK after : Results(after, s, frames, n)
  <2>1. n \in Nat
    OBVIOUS
  <2>. QED
    BY <2>1, HandledByFrame
<1>1. /\ after[0] = Start(s)
      /\ \A i \in 1..n : after[i] = Agent!Consumed(after[i - 1], frames[i])
      /\ Agent!Handled(s, frames, n) = after[n]
  BY <1>0 DEF Results
<1>. DEFINE rest(i) == SubSeq(frames, i + 1, Len(frames))
            OK(r, i) ==
              /\ r \in Result
              /\ IF i = 0 THEN r.session.state = s.state /\ r.session.lastInbound = s.lastInbound
                          ELSE r.session.state = "ready" /\ r.session.lastInbound = frames[i].seq
              /\ After(rest(i), After(r.todo, wanted)) = After(frames, wanted)
<1>2. OK(after[0], 0)
  <2>1. after[0] \in Result /\ after[0].session = s /\ after[0].todo = <<>>
    BY <1>1 DEF Start, Result, Agent!SessionType
  <2>2. rest(0) = frames
    OBVIOUS
  <2>3. After(after[0].todo, wanted) = wanted
    BY <2>1, AfterNothing
  <2>. QED
    BY <2>1, <2>2, <2>3
<1>3. ASSUME NEW i \in Nat, i + 1 <= n, OK(after[i], i) PROVE OK(after[i + 1], i + 1)
  <2>. DEFINE r == after[i]
              f == frames[i + 1]
              q == Agent!Consumed(r, f)
              now == After(r.todo, wanted)
  <2>1. i + 1 \in 1..n /\ i + 1 \in DOMAIN frames /\ f \in Client!Frame /\ after[i + 1] = q
    BY <1>1, <1>3
  <2>2. r \in Result /\ q \in Result
    BY <1>3, <2>1, ConsumedType
  <2>3. r.session.lastInbound = -1 \/ f.seq > r.session.lastInbound
    BY <1>3, <2>1 DEF Stream
  <2>4. f.type \in IF i = 0 /\ s.state # "ready" THEN {"helloAck"} ELSE FromClient
    BY <2>1 DEF Stream
  <2>5. Agent!Allowed(r.session, f) /\ r.session.state # "error"
    BY <1>3, <2>3, <2>4 DEF Agent!Allowed, Agent!none, FromClient
  <2>6. r.session.state # "ready" => f.type = "helloAck"
    BY <1>3, <2>4
  <2>7. After(rest(i), now) = After(frames, wanted)
    BY <1>3
  <2>. HIDE DEF r, f, rest, now
  <2>8. /\ q.session.lastInbound = f.seq /\ q.session.state = "ready"
        /\ q.todo = IF f.type \in {"catalogRequest", "subscribe", "unsubscribe"}
             THEN Append(r.todo, [type |-> f.type, arg |-> f.arg]) ELSE r.todo
    BY <2>1, <2>2, <2>5, <2>6, ConsumedAllowed
  <2>9. f.type \in {"subscribe", "unsubscribe"} => f.arg \in Keys
    BY <2>1 DEF Client!Frame
  <2>10. r.todo \in Seq(Agent!Request) /\ now \in SUBSET Keys
    BY <2>2 DEF Result, After, now
  <2>. HIDE DEF q
  <2>11. After(q.todo, wanted) = AfterOne(f, now)
    <3>1. CASE f.type \in {"catalogRequest", "subscribe", "unsubscribe"}
      <4>. DEFINE a == [type |-> f.type, arg |-> f.arg]
      <4>1. a.type = f.type /\ a.arg = f.arg
        OBVIOUS
      <4>2. a \in Agent!Request
        BY <2>1, <3>1 DEF Client!Frame, Agent!Request
      <4>3. q.todo = Append(r.todo, a)
        BY <2>8, <3>1
      <4>. HIDE DEF a
      <4>4. After(Append(r.todo, a), wanted) = AfterOne(a, now)
        BY <2>9, <2>10, <4>1, <4>2, AfterAppend DEF now
      <4>5. AfterOne(a, now) = AfterOne(f, now)
        BY <4>1 DEF AfterOne
      <4>. QED
        BY <4>3, <4>4, <4>5
    <3>2. CASE f.type \notin {"catalogRequest", "subscribe", "unsubscribe"}
      <4>1. AfterOne(f, now) = now
        BY <3>2 DEF AfterOne
      <4>. QED
        BY <2>8, <3>2, <4>1 DEF now
    <3>. QED
      BY <3>1, <3>2
  <2>12. /\ rest(i) \in Seq(Client!Frame) /\ rest(i) # <<>> /\ rest(i)[1] = f
         /\ Tail(rest(i)) = rest(i + 1)
    <3>1. i < Len(frames)
      BY <2>1
    <3>. QED
      BY <3>1, Remainder DEF rest, f
  <2>13. After(rest(i), now) = After(rest(i + 1), AfterOne(f, now))
    BY <2>9, <2>10, <2>12, AfterHead
  <2>14. After(rest(i + 1), After(q.todo, wanted)) = After(frames, wanted)
    BY <2>7, <2>11, <2>13
  <2>15. i + 1 # 0
    OBVIOUS
  <2>. QED
    BY <2>1, <2>2, <2>8, <2>14, <2>15 DEF f
<1>. DEFINE S == {i \in Nat : i <= n => OK(after[i], i)}
<1>4. n \in S
  <2>. HIDE DEF OK
  <2>1. S \in SUBSET Nat /\ 0 \in S
    BY <1>2
  <2>2. \A i \in S : i + 1 \in S
    BY <1>3
  <2>. HIDE DEF S
  <2>. QED
    BY <2>1, <2>2, Induction
<1>5. OK(after[n], n)
  BY <1>4
<1>. QED
  BY <1>1, <1>5

(* What a client restores is what it wants. *)
LEMMA GreetingAsks ==
  ASSUME NEW desired \in SUBSET Keys, IsFiniteSet(desired), NEW order \in Client!SetToSeqs(desired),
         NEW first \in Nat
  PROVE  After(Client!Framed(Client!Greeting(order), first), {}) = desired
<1>. DEFINE g == Client!Greeting(order)
            frames == Client!Framed(g, first)
            n == Len(order)
<1>1. /\ g \in Seq(Message) /\ order \in Seq(desired) /\ Len(g) = n + 3
      /\ g[1] = <<"helloAck", 0>> /\ g[2] = <<"catalogRequest", 0>>
      /\ \A i \in 1..n : g[i + 2] = <<"subscribe", order[i]>>
      /\ g[n + 3] = <<"ping", 0>>
  <2>. HIDE DEF g
  <2>. QED
    BY GreetingMessages DEF g
<1>2. /\ \A k \in desired : \E i \in 1..n : order[i] = k
      /\ \A i, j \in 1..n : i # j => order[i] # order[j]
  <2>. DEFINE m == Cardinality(desired)
  <2>1. Client!Cardinality(desired) = m
    BY DEF Cardinality, Client!Cardinality
  <2>2. order \in [1..m -> desired] /\ \A i, j \in 1..m : i # j => order[i] # order[j]
    BY <2>1 DEF Client!SetToSeqs
  <2>3. m \in Nat /\ IsFiniteSet(1..m) /\ Cardinality(1..m) = m
    <3>1. m \in Nat
      BY FS_CardinalityType
    <3>2. 1 \in Int /\ m \in Int
      BY <3>1
    <3>3. IsFiniteSet(1..m) /\ Cardinality(1..m) = IF 1 > m THEN 0 ELSE m - 1 + 1
      BY <3>2, FS_Interval
    <3>. QED
      BY <3>1, <3>3
  <2>4. order \in Injection(1..m, desired)
    BY <2>2 DEF Injection, IsInjective
  <2>. HIDE DEF m
  <2>5. order \in Surjection(1..m, desired)
    BY <2>3, <2>4, FS_Injection DEF m
  <2>6. n = m
    BY <2>2, <2>3
  <2>. QED
    BY <2>2, <2>5, <2>6 DEF Surjection
<1>3. n \in Nat /\ \A i \in 1..n : order[i] \in desired
  BY <1>1
<1>. HIDE DEF g, n
<1>4. /\ DOMAIN frames = 1..(n + 3)
      /\ \A i \in 1..(n + 3) : frames[i].type = g[i][1] /\ frames[i].arg = g[i][2]
  BY <1>1, FramedMessages
<1>. HIDE DEF frames
<1>5. ASSUME NEW k \in Keys
      PROVE  About(frames, k) = {i \in 3..(n + 2) : order[i - 2] = k}
  <2>1. \A i \in 1..n : frames[i + 2].type = "subscribe" /\ frames[i + 2].arg = order[i]
    BY <1>1, <1>3, <1>4
  <2>2. \A i \in 3..(n + 2) : frames[i].type = "subscribe" /\ frames[i].arg = order[i - 2]
    <3>1. \A i \in 3..(n + 2) : i - 2 \in 1..n /\ (i - 2) + 2 = i
      BY <1>3
    <3>. QED
      BY <2>1, <3>1
  <2>3. frames[1].type = "helloAck" /\ frames[2].type = "catalogRequest" /\ frames[n + 3].type = "ping"
    BY <1>1, <1>3, <1>4
  <2>4. \A i \in 1..(n + 3) : i \in 3..(n + 2) \/ i = 1 \/ i = 2 \/ i = n + 3
    BY <1>3
  <2>5. 3..(n + 2) \subseteq 1..(n + 3)
    BY <1>3
  <2>. QED
    BY <1>4, <2>2, <2>3, <2>4, <2>5 DEF About
<1>6. ASSUME NEW k \in Keys PROVE k \in After(frames, {}) <=> k \in desired
  <2>1. ASSUME k \in After(frames, {}) PROVE k \in desired
    <3>1. PICK i \in About(frames, k) : TRUE
      BY <2>1 DEF After
    <3>2. i - 2 \in 1..n /\ order[i - 2] = k
      BY <1>3, <1>5, <3>1
    <3>. QED
      BY <1>3, <3>2
  <2>2. ASSUME k \in desired PROVE k \in After(frames, {})
    <3>1. PICK i \in 1..n : order[i] = k
      BY <1>2, <2>2
    <3>2. \A a, b \in 1..n : order[a] = k /\ order[b] = k => a = b
      BY <1>2
    <3>3. About(frames, k) = {i + 2}
      <4>1. i + 2 \in About(frames, k)
        <5>1. i + 2 \in 3..(n + 2) /\ (i + 2) - 2 = i
          BY <1>3
        <5>. QED
          BY <1>5, <3>1, <5>1
      <4>2. ASSUME NEW j \in About(frames, k) PROVE j = i + 2
        <5>1. j \in 3..(n + 2) /\ order[j - 2] = k
          BY <1>5, <4>2
        <5>2. j - 2 \in 1..n
          BY <1>3, <5>1
        <5>3. j - 2 = i
          BY <3>1, <3>2, <5>1, <5>2
        <5>. QED
          BY <1>3, <5>1, <5>3
      <4>. QED
        BY <4>1, <4>2
    <3>4. frames[i + 2].type = "subscribe" /\ i + 2 <= i + 2
      <4>1. i + 2 \in 1..(n + 3) /\ g[i + 2] = <<"subscribe", order[i]>>
        BY <1>1, <1>3
      <4>. QED
        BY <1>4, <4>1
    <3>. QED
      BY <3>3, <3>4 DEF After
  <2>. QED
    BY <2>1, <2>2
<1>. QED
  BY <1>6 DEF After, frames, g

-----------------------------------------------------------------------------
(* The second invariant: what the agent holds, and what it is still to hear. *)

(* What the agent serves or has refused. *)
Held == node.subscriptions \cup refused

(* A client that is ready and the agent, on a connection that is up. *)
Joined ==
  /\ client.state = "ready" /\ wire[connections].up
  /\ server.at \in {"recv", "act"} /\ server.client = connections

(* What the client asked for is held, put down to be done or under way. *)
AskedInv ==
  /\ node.subscriptions \cap refused = {}
  /\ server.at \in {"recv", "reset", "forget"} => server.todo = <<>>
  /\ (\/ server.at \in {"accept", "hello"}
      \/ server.at \in {"recv", "act"} /\ session.state # "ready") =>
       Held = {} /\ server.todo = <<>>
  /\ Joined => After(wire[connections].toServer, After(server.todo, Held)) = client.desired

LEMMA HeldType ==
  ASSUME IInv
  PROVE  /\ Held \in SUBSET Keys /\ \A asks, wanted : After(asks, wanted) \in SUBSET Keys
         /\ node.subscriptions \in SUBSET Keys /\ refused \in SUBSET Keys
<1>1. node.subscriptions \in SUBSET Keys /\ refused \in SUBSET Keys
  BY DEF IInv, TypeOK, Agent!NodeType
<1>. QED
  BY <1>1 DEF Held, After

(* While the client waits for its hello the agent knows of nothing it wants. *)
LEMMA Unheard ==
  ASSUME IInv, AskedInv, Client!Connected, client.state = "awaitingHello",
         server.client = connections, server.at \in {"recv", "act"}
  PROVE  Held = {} /\ server.todo = <<>>
<1>1. session.state = "awaitingHelloAck"
  BY DEF IInv, ToClientInv, Serving
<1>. QED
  BY <1>1 DEF AskedInv

-----------------------------------------------------------------------------
(* The steps of the client and of the network. *)

LEMMA Elements ==
  ASSUME NEW S, NEW s \in Seq(S)
  PROVE  \A i \in 1..Len(s) : s[i] \in S
  OBVIOUS

LEMMA AddingOne ==
  ASSUME NEW S, NEW s \in Seq(S), NEW t \in Seq(S), Len(t) = 1
  PROVE  t[1] \in S /\ s \o t = Append(s, t[1])
<1>1. t[1] \in S
  BY Elements
<1>. DEFINE e == t[1]
            a == Append(s, e)
            b == s \o t
            n == Len(s)
<1>. HIDE DEF e
<1>2. /\ a \in Seq(S) /\ n \in Nat /\ DOMAIN a = 1..(n + 1)
      /\ \A i \in 1..n : a[i] = s[i]
      /\ a[n + 1] = e
  BY <1>1, Appending DEF e
<1>3. /\ b \in Seq(S) /\ Len(b) = n + Len(t)
      /\ \A i \in 1..(n + Len(t)) : b[i] = IF i <= n THEN s[i] ELSE t[i - n]
  BY Concatenation
<1>. HIDE DEF a, b, n
<1>4. Len(b) = n + 1 /\ \A i \in 1..n : b[i] = s[i]
  BY <1>2, <1>3
<1>5. b[n + 1] = e
  <2>1. n + 1 \in 1..(n + Len(t)) /\ ~(n + 1 <= n) /\ (n + 1) - n = 1
    BY <1>2
  <2>. QED
    BY <1>3, <2>1 DEF e
<1>6. Len(a) = n + 1
  BY <1>2
<1>7. \A i \in 1..(n + 1) : a[i] = b[i]
  BY <1>2, <1>4, <1>5
<1>8. a = b
  BY <1>2, <1>3, <1>4, <1>6, <1>7
<1>. QED
  BY <1>1, <1>8 DEF a, b, e

LEMMA JoinedClient ==
  ASSUME IInv, AskedInv, UNCHANGED serverVars,
         Joined' => After(wire'[connections'].toServer, After(server.todo, Held)) = client'.desired
  PROVE  AskedInv'
<1>1. server' = server /\ session' = session /\ node' = node /\ refused' = refused /\ Held' = Held
  BY DEF serverVars, Held
<1>. QED
  BY <1>1 DEF AskedInv

(* The client asks for one thing more. *)
LEMMA CommandAsks ==
  ASSUME IInv, AskedInv, UNCHANGED serverVars,
         NEW type \in {"catalogRequest", "subscribe", "unsubscribe", "ping"}, NEW arg,
         <<type, arg>> \in Message,
         Client!Command(type, arg, AfterOne([type |-> type, arg |-> arg], client.desired))
  PROVE  AskedInv'
<1>. DEFINE c == connections
            m == <<type, arg>>
            messages == <<m>>
            frames == Client!Framed(messages, client.outbound)
            to == wire[c].toServer
            now == After(server.todo, Held)
            ask == [type |-> type, arg |-> arg]
<1>. SUFFICES ASSUME Joined'
              PROVE  After(wire'[connections'].toServer, now) = client'.desired
  BY JoinedClient
<1>1. /\ client.state = "ready" /\ c \in 1..MaxConnections /\ client \in Client!ClientType
      /\ client.outbound \in Nat /\ to \in Seq(Client!Frame)
  BY WireFields DEF Client!Command, IInv, ClientInv, TypeOK, Client!ClientType
<1>2. /\ client'.desired = AfterOne(ask, client.desired) /\ connections' = connections
      /\ wire' = Client!Sent(messages) /\ server' = server
  BY <1>1 DEF Client!Command, Client!ClientType, serverVars
<1>3. m \in Message /\ m[1] = type /\ m[2] = arg
  OBVIOUS
<1>. HIDE DEF m
<1>4. messages \in Seq(Message) /\ Len(messages) = 1 /\ messages[1] = m
  BY <1>3
<1>. HIDE DEF messages
<1>5. Changed(wire', c, wire[c].up, IF wire[c].up THEN to \o frames ELSE to, wire[c].toClient)
  BY <1>1, <1>2, <1>4, SentChanges DEF IInv
<1>6. /\ frames \in Seq(Client!Frame) /\ Len(frames) = 1
      /\ frames[1].type = type /\ frames[1].arg = arg
  BY <1>1, <1>3, <1>4, FramedMessages
<1>. HIDE DEF frames, to
<1>. DEFINE f == frames[1]
<1>7. f \in Client!Frame /\ to \o frames = Append(to, f)
  <2>1. to \in Seq(Client!Frame)
    BY <1>1 DEF to
  <2>. QED
    BY <1>6, <2>1, AddingOne
<1>8. wire'[c].up = wire[c].up /\ wire[c].up
      /\ wire'[c].toServer = Append(to, f)
  BY <1>2, <1>5, <1>7 DEF Changed, IsConn, Joined
<1>9. Joined
  BY <1>1, <1>2, <1>8 DEF Joined
<1>10. After(to, now) = client.desired
  BY <1>9 DEF AskedInv, to
<1>11. now \in SUBSET Keys
  BY HeldType
<1>12. f.type = type /\ f.arg = arg /\ (type \in {"subscribe", "unsubscribe"} => arg \in Keys)
  BY <1>3, <1>6 DEF Message
<1>. HIDE DEF f, now
<1>13. After(Append(to, f), now) = AfterOne(f, client.desired)
  BY <1>1, <1>7, <1>10, <1>11, <1>12, AfterAppend DEF to
<1>14. AfterOne(f, client.desired) = AfterOne(ask, client.desired)
  BY <1>12 DEF AfterOne
<1>. QED
  BY <1>2, <1>8, <1>13, <1>14

(* A frame of the agent is answered with what is no request of a topic. *)
LEMMA AnswerAsks ==
  ASSUME IInv, AskedInv, UNCHANGED serverVars, Client!HasInput, client.state = "ready",
         NEW d, NEW messages, Client!Answers(d, messages), client'.desired = client.desired,
         messages = <<>> \/ \E m \in Message : messages = <<m>> /\ m[1] = "pong"
  PROVE  AskedInv'
<1>. DEFINE c == connections
            frames == Client!Framed(messages, client.outbound)
            to == wire[c].toServer
            now == After(server.todo, Held)
<1>. SUFFICES ASSUME Joined'
              PROVE  After(wire'[connections'].toServer, now) = client'.desired
  BY JoinedClient
<1>1. /\ c \in 1..MaxConnections /\ client.outbound \in Nat /\ to \in Seq(Client!Frame)
      /\ wire[c].toClient # <<>>
  BY WireFields DEF Client!HasInput, IInv, ClientInv, TypeOK, Client!ClientType
<1>2. /\ connections' = connections /\ server' = server
      /\ wire' = Client!Taken(Client!Sent(messages))
  BY DEF Client!Answers, serverVars
<1>3. messages \in Seq(Message)
  <2>1. CASE messages = <<>>
    BY <2>1
  <2>2. ASSUME NEW m \in Message, messages = <<m>> PROVE messages \in Seq(Message)
    BY <2>2
  <2>. QED
    BY <2>1, <2>2
<1>4. Changed(wire', c, wire[c].up, IF wire[c].up THEN to \o frames ELSE to, Tail(wire[c].toClient))
  BY <1>1, <1>2, <1>3, SentChanges DEF IInv
<1>5. wire'[c].up = wire[c].up /\ wire[c].up /\ wire'[c].toServer = to \o frames
  BY <1>2, <1>4 DEF Changed, IsConn, Joined
<1>6. Joined
  BY <1>2, <1>5 DEF Joined
<1>7. After(to, now) = client.desired /\ now \in SUBSET Keys
  BY <1>6, HeldType DEF AskedInv
<1>8. /\ frames \in Seq(Client!Frame) /\ Len(frames) = Len(messages)
      /\ \A i \in 1..Len(messages) : frames[i].type = messages[i][1]
  BY <1>1, <1>3, FramedMessages
<1>. HIDE DEF now, frames, to
<1>9. CASE messages = <<>>
  <2>1. Len(frames) = 0
    BY <1>8, <1>9
  <2>2. frames = <<>>
    BY <1>8, <2>1
  <2>3. to \o frames = to
    BY <1>1, <2>2
  <2>. QED
    BY <1>2, <1>5, <1>7, <2>3
<1>10. ASSUME NEW m \in Message, messages = <<m>>, m[1] = "pong"
       PROVE  After(wire'[connections'].toServer, now) = client'.desired
  <2>. DEFINE f == frames[1]
  <2>1. Len(messages) = 1 /\ messages[1] = m
    BY <1>10
  <2>2. Len(frames) = 1 /\ f.type = "pong"
    BY <1>8, <1>10, <2>1
  <2>3. f \in Client!Frame /\ to \o frames = Append(to, f)
    <3>1. to \in Seq(Client!Frame)
      BY <1>1 DEF to
    <3>. QED
      BY <1>8, <2>2, <3>1, AddingOne
  <2>. HIDE DEF f
  <2>5. After(Append(to, f), now) = AfterOne(f, client.desired)
    BY <1>1, <1>7, <2>2, <2>3, AfterAppend
  <2>6. AfterOne(f, client.desired) = client.desired
    BY <2>2 DEF AfterOne
  <2>. QED
    BY <1>2, <1>5, <2>3, <2>5, <2>6
<1>. QED
  BY <1>9, <1>10

(* A client that is greeted asks for all it wants. *)
LEMMA HelloAsks ==
  ASSUME IInv, AskedInv, UNCHANGED serverVars, Client!HasInput, client.state = "awaitingHello",
         Client!AcceptHello
  PROVE  AskedInv'
<1>. DEFINE c == connections
            to == wire[c].toServer
            now == After(server.todo, Held)
<1>. SUFFICES ASSUME Joined'
              PROVE  After(wire'[connections'].toServer, now) = client'.desired
  BY JoinedClient
<1>1. /\ c \in 1..MaxConnections /\ client.outbound \in Nat /\ to = <<>>
      /\ wire[c].toClient # <<>> /\ client \in Client!ClientType
      /\ client.desired \in SUBSET Keys /\ IsFiniteSet(client.desired)
  BY DEF Client!HasInput, IInv, ClientInv, ToClientInv, TypeOK, Client!ClientType
<1>2. PICK order \in Client!SetToSeqs(client.desired) :
          Client!Answers([client EXCEPT !.handshakeTimer = FALSE, !.state = "ready"],
                         Client!Greeting(order))
  BY DEF Client!AcceptHello
<1>. DEFINE g == Client!Greeting(order)
            frames == Client!Framed(g, client.outbound)
<1>3. /\ connections' = connections /\ server' = server /\ client'.desired = client.desired
      /\ wire' = Client!Taken(Client!Sent(g))
  BY <1>1, <1>2, ClientFields DEF Client!Answers, serverVars
<1>. HIDE DEF g
<1>4. g \in Seq(Message)
  BY <1>1, GreetingMessages DEF g
<1>5. Changed(wire', c, wire[c].up, IF wire[c].up THEN to \o frames ELSE to, Tail(wire[c].toClient))
  BY <1>1, <1>3, <1>4, SentChanges DEF IInv
<1>6. frames \in Seq(Client!Frame)
  BY <1>1, <1>4, FramedMessages
<1>7. wire'[c].toServer = to \o frames
  BY <1>3, <1>5 DEF Changed, IsConn, Joined
<1>. HIDE DEF frames
<1>8. to \o frames = frames
  BY <1>1, <1>6
<1>9. Held = {} /\ server.todo = <<>>
  BY <1>3, Unheard DEF Joined, Client!HasInput
<1>10. now = {}
  BY <1>9, AfterNothing
<1>11. After(frames, {}) = client.desired
  BY <1>1, GreetingAsks DEF frames, g
<1>. HIDE DEF now, to
<1>. QED
  BY <1>3, <1>7, <1>8, <1>10, <1>11

LEMMA ClientAsks ==
  ASSUME IInv, IInv', AskedInv, UNCHANGED serverVars, Client!ClientStep
  PROVE  AskedInv'
<1>1. CASE \/ \E valid, auto \in BOOLEAN : Client!Open(valid, auto)
           \/ Client!Close \/ Client!ConnectFails \/ Client!HandshakeTimeout
           \/ Client!ReconnectTimeout
           \/ \E orderly \in BOOLEAN : Client!ConnectionLost(orderly)
  <2>1. ~Client!Connected'
    BY <1>1, QuietSteps DEF Quiet
  <2>2. ~Joined'
    BY <2>1 DEF Joined, IInv, ClientInv
  <2>. QED
    BY <2>2, JoinedClient
<1>2. CASE Client!ConnectSucceeds
  <2>1. client'.state = "awaitingHello"
    BY <1>2 DEF Client!ConnectSucceeds, IInv, TypeOK, Client!ClientType
  <2>. QED
    BY <2>1, JoinedClient DEF Joined
<1>3. CASE Client!RequestTopicCatalog \/ Client!ClockSyncTimeout
  <2>1. \A type \in {"catalogRequest", "ping"} :
          /\ <<type, 0>> \in Message
          /\ AfterOne([type |-> type, arg |-> 0], client.desired) = client.desired
    BY DEF Message, Client!FrameTypes, AfterOne
  <2>. QED
    BY <1>3, <2>1, CommandAsks DEF Client!RequestTopicCatalog, Client!ClockSyncTimeout
<1>4. ASSUME NEW k \in Keys, Client!Subscribe(k) \/ Client!Unsubscribe(k) PROVE AskedInv'
  <2>1. /\ <<"subscribe", k>> \in Message /\ <<"unsubscribe", k>> \in Message
        /\ AfterOne([type |-> "subscribe", arg |-> k], client.desired) = client.desired \cup {k}
        /\ AfterOne([type |-> "unsubscribe", arg |-> k], client.desired) = client.desired \ {k}
    BY DEF Message, Client!FrameTypes, AfterOne
  <2>. QED
    BY <1>4, <2>1, CommandAsks DEF Client!Subscribe, Client!Unsubscribe
<1>5. CASE Client!ReadFrame
  <2>1. /\ Client!HasInput /\ Client!Expected /\ Client!Input \in Client!Frame
        /\ Client!Input.type = "hello" => client.state = "awaitingHello"
        /\ Client!Input.type # "hello" => client.state = "ready"
    BY <1>5, ExpectedInput DEF Client!ReadFrame, IInv
  <2>2. CASE Client!Input.type = "hello"
    BY <1>5, <2>1, <2>2, HelloAsks DEF Client!ReadFrame
  <2>3. CASE Client!Input.type # "hello"
    <3>1. Client!HandleFrame /\ client.state = "ready" /\ client \in Client!ClientType
      BY <1>5, <2>1, <2>3 DEF Client!ReadFrame, IInv, TypeOK
    <3>2. CASE Client!Input.type = "catalog"
      <4>. DEFINE d == [client EXCEPT !.revision = Client!Input.arg]
      <4>1. Client!Answers(d, <<>>) /\ client'.desired = client.desired
        BY <3>1, <3>2 DEF Client!HandleFrame, Client!Answers, Client!ClientType
      <4>. HIDE DEF d
      <4>. QED
        BY <2>1, <3>1, <4>1, AnswerAsks
    <3>3. CASE Client!Input.type \in {"sample", "error", "pong"}
      <4>1. Client!Answers(client, <<>>) /\ client'.desired = client.desired
        BY <3>1, <3>3 DEF Client!HandleFrame, Client!Answers, Client!ClientType
      <4>. QED
        BY <2>1, <3>1, <4>1, AnswerAsks
    <3>4. CASE Client!Input.type = "ping"
      <4>. DEFINE m == <<"pong", Client!Input.arg>>
      <4>1. Client!Answers(client, <<m>>) /\ client'.desired = client.desired
        BY <3>1, <3>4 DEF Client!HandleFrame, Client!Answers, Client!ClientType
      <4>2. m \in Message /\ m[1] = "pong"
        BY <2>1, <3>4 DEF Message, Client!FrameTypes, Client!Frame
      <4>. HIDE DEF m
      <4>. QED
        BY <2>1, <3>1, <4>1, <4>2, AnswerAsks
    <3>. QED
      BY <3>1, <3>2, <3>3, <3>4 DEF Client!HandleFrame
  <2>. QED
    BY <2>2, <2>3
<1>. QED
  BY <1>1, <1>2, <1>3, <1>4, <1>5 DEF Client!ClientStep

LEMMA BreakAsks ==
  ASSUME IInv, AskedInv, Break
  PROVE  AskedInv'
<1>1. /\ connections \in 1..MaxConnections /\ wire \in [1..MaxConnections -> Client!WireType]
      /\ wire[connections] \in Client!WireType
  BY DEF IInv, TypeOK, Break
<1>2. ~wire'[connections'].up
  <2>1. connections' = connections /\ wire' = [wire EXCEPT ![connections].up = FALSE]
    BY DEF Break, clientVars
  <2>. QED
    BY <1>1, <2>1 DEF Client!WireType
<1>3. UNCHANGED serverVars /\ ~Joined'
  BY <1>2 DEF Break, Joined
<1>. QED
  BY <1>3, JoinedClient

-----------------------------------------------------------------------------
(* The steps of the agent. *)

(* The agent leaves alone what it holds, and what of the client is on its way. *)
LEMMA UnmovedAsks ==
  ASSUME IInv, AskedInv, UNCHANGED <<clientVars, server>>,
         UNCHANGED <<node.subscriptions, refused, session.state>>,
         \A c \in 1..MaxConnections :
           wire'[c].up = wire[c].up /\ wire'[c].toServer = wire[c].toServer
  PROVE  AskedInv'
<1>1. /\ server' = server /\ refused' = refused /\ client' = client /\ connections' = connections
      /\ Held' = Held /\ session'.state = session.state
      /\ node'.subscriptions = node.subscriptions
  BY DEF clientVars, Held
<1>2. Joined' => Joined /\ wire'[connections].toServer = wire[connections].toServer
  <2>1. Joined' => connections \in 1..MaxConnections
    BY <1>1 DEF Joined, IInv, ClientInv, TypeOK
  <2>. QED
    BY <1>1, <2>1 DEF Joined
<1>. QED
  BY <1>1, <1>2 DEF AskedInv

LEMMA PublicationAsks ==
  ASSUME IInv, AskedInv, UNCHANGED clientVars, NEW t \in Agent!Threads, Agent!Publication(t)
  PROVE  AskedInv'
<1>1. UNCHANGED <<server, refused>>
  BY DEF Agent!Publication, Agent!ReadGraph, Agent!StampCatalog, Agent!StoreRevision,
     Agent!MakeFrame, Agent!SendFrame
<1>2. session'.state = session.state
  <2>1. session \in Agent!SessionType
    BY DEF IInv, TypeOK
  <2>. QED
    BY <2>1 DEF Agent!Publication, Agent!ReadGraph, Agent!StampCatalog, Agent!StoreRevision,
       Agent!MakeFrame, Agent!SendFrame, Agent!SessionType
<1>3. node'.subscriptions = node.subscriptions
  <2>1. node \in Agent!NodeType
    BY DEF IInv, TypeOK
  <2>. QED
    BY <2>1 DEF Agent!Publication, Agent!ReadGraph, Agent!StampCatalog, Agent!StoreRevision,
       Agent!MakeFrame, Agent!SendFrame, Agent!NodeType
<1>4. \A c \in 1..MaxConnections : wire'[c].up = wire[c].up /\ wire'[c].toServer = wire[c].toServer
  <2>1. \/ wire' = wire
        \/ \E frames : wire' = Agent!Delivered(frames)
    BY DEF Agent!Publication, Agent!ReadGraph, Agent!StampCatalog, Agent!StoreRevision,
       Agent!MakeFrame, Agent!SendFrame
  <2>2. ASSUME NEW frames, wire' = Agent!Delivered(frames)
        PROVE  \A c \in 1..MaxConnections :
                 wire'[c].up = wire[c].up /\ wire'[c].toServer = wire[c].toServer
    <3>1. wire \in [1..MaxConnections -> Client!WireType]
      BY DEF IInv, TypeOK
    <3>. QED
      BY <2>2, <3>1 DEF Agent!Delivered, Client!WireType
  <2>. QED
    BY <2>1, <2>2
<1>. QED
  BY <1>1, <1>2, <1>3, <1>4, UnmovedAsks

LEMMA CallbackAsks ==
  ASSUME IInv, AskedInv, UNCHANGED clientVars,
         \/ Agent!RefreshGraph \/ Agent!Heartbeat
         \/ \E k \in Keys : Agent!HandleSerializedMessage(k)
         \/ \E k \in Keys : Agent!GraphChanges(k)
  PROVE  AskedInv'
<1>1. UNCHANGED <<server, refused, session, node, wire>>
  BY DEF Agent!RefreshGraph, Agent!Heartbeat, Agent!HandleSerializedMessage, Agent!GraphChanges,
     Agent!Called
<1>. QED
  BY <1>1, UnmovedAsks

(* One action of those to be done: what is to be held of the rest stays the same. *)
LEMMA ActionAsks ==
  ASSUME IInv, AskedInv, UNCHANGED clientVars, UNCHANGED <<wire, session>>,
         Agent!Acting, server.todo # <<>>, Agent!Done,
         Held' = AfterOne(Agent!Action, Held), node'.subscriptions \cap refused' = {}
  PROVE  AskedInv'
<1>1. /\ server \in Agent!ServerType /\ server.at = "act"
  BY DEF IInv, TypeOK, Agent!Acting
<1>2. server'.at = "act" /\ server'.client = server.client /\ server'.todo = Tail(server.todo)
  BY <1>1 DEF Agent!Done, Agent!ServerType
<1>3. session.state = "ready"
  BY <1>1 DEF AskedInv
<1>4. /\ server.todo \in Seq(Agent!Request) /\ server.todo[1] = Agent!Action
      /\ Agent!Action.type \in {"subscribe", "unsubscribe"} => Agent!Action.arg \in Keys
  <2>1. server.todo \in Seq(Agent!Request)
    BY <1>1, ServerUpdates
  <2>2. Head(server.todo) = server.todo[1]
    BY <2>1
  <2>. QED
    BY <1>1, <2>1, <2>2, NextAction DEF Agent!Action
<1>5. After(server.todo, Held) = After(server'.todo, Held')
  <2>1. Held \in SUBSET Keys
    BY HeldType
  <2>. QED
    BY <1>2, <1>4, <2>1, AfterHead
<1>6. Joined' => Joined
  BY <1>1, <1>2 DEF Joined, clientVars
<1>7. /\ connections' = connections /\ client' = client /\ wire' = wire /\ session' = session
  BY DEF clientVars
<1>. QED
  BY <1>2, <1>3, <1>5, <1>6, <1>7 DEF AskedInv

LEMMA SubscribeAsks ==
  ASSUME IInv, AskedInv, UNCHANGED clientVars,
         Agent!CatalogRequested \/ Agent!SubscribeTopic \/ Agent!UnsubscribeTopic
  PROVE  AskedInv'
<1>. DEFINE a == Agent!Action
<1>1. /\ node \in Agent!NodeType /\ node.subscriptions \cap refused = {}
  BY DEF IInv, TypeOK, AskedInv
<1>2. UNCHANGED <<wire, session>> /\ Agent!Acting /\ server.todo # <<>> /\ Agent!Done
  BY DEF Agent!CatalogRequested, Agent!SubscribeTopic, Agent!UnsubscribeTopic
<1>3. Held' = AfterOne(a, Held) /\ node'.subscriptions \cap refused' = {}
  <2>1. CASE Agent!CatalogRequested
    <3>1. UNCHANGED <<node, refused>> /\ a.type = "catalogRequest"
      BY <2>1 DEF Agent!CatalogRequested
    <3>. QED
      BY <1>1, <3>1 DEF Held, AfterOne
  <2>2. CASE Agent!SubscribeTopic
    <3>1. a.type = "subscribe"
      BY <2>2 DEF Agent!SubscribeTopic
    <3>2. CASE Agent!Subscribable(a.arg)
      <4>1. /\ node'.subscriptions = node.subscriptions \cup {a.arg}
            /\ refused' = refused \ {a.arg}
        BY <1>1, <2>2, <3>2 DEF Agent!SubscribeTopic, Agent!NodeType
      <4>. QED
        BY <1>1, <3>1, <4>1 DEF Held, AfterOne
    <3>3. CASE ~Agent!Subscribable(a.arg)
      <4>1. node' = node /\ refused' = refused \cup ({a.arg} \ node.subscriptions)
        BY <2>2, <3>3 DEF Agent!SubscribeTopic
      <4>. QED
        BY <1>1, <3>1, <4>1 DEF Held, AfterOne
    <3>. QED
      BY <3>2, <3>3
  <2>3. CASE Agent!UnsubscribeTopic
    <3>1. a.type = "unsubscribe" /\ refused' = refused \ {a.arg}
      BY <2>3 DEF Agent!UnsubscribeTopic
    <3>2. node'.subscriptions = node.subscriptions \ {a.arg}
      BY <1>1, <2>3 DEF Agent!UnsubscribeTopic, Agent!NodeType
    <3>. QED
      BY <1>1, <3>1, <3>2 DEF Held, AfterOne
  <2>. QED
    BY <2>1, <2>2, <2>3
<1>. QED
  BY <1>2, <1>3, ActionAsks

(* Frames become requests: nothing is lost of what they ask for. *)
LEMMA ReceiveAsks ==
  ASSUME IInv, AskedInv, UNCHANGED clientVars, NEW sent \in BOOLEAN, NEW n, Agent!Receive(n, sent)
  PROVE  AskedInv'
<1>0. server.client \in 1..MaxConnections
  BY Received
<1>. PICK c \in 1..MaxConnections : c = server.client
  BY <1>0
<1>. DEFINE frames == wire[c].toServer
            r == Agent!Handled(session, frames, n)
            rest == SubSeq(frames, n + 1, Len(frames))
<1>1. /\ n \in 1..Len(frames) /\ server.at = "recv" /\ frames \in Seq(Client!Frame)
      /\ session'.state = "ready" /\ r \in Result
  BY Received
<1>2. /\ session \in Agent!SessionType /\ session.state \in {"awaitingHelloAck", "ready"}
      /\ Stream(frames, session.lastInbound, "helloAck", session.state = "ready", FromClient)
  BY <1>1 DEF IInv, TypeOK, ServerInv, ToAgentInv, Serving
<1>3. /\ server \in Agent!ServerType /\ wire \in [1..MaxConnections -> Client!WireType]
      /\ client' = client /\ connections' = connections
      /\ node' = node /\ refused' = refused /\ Held' = Held
  BY DEF IInv, TypeOK, clientVars, Agent!Receive, Held
<1>4. server' = IF r.send # <<>> /\ ~sent
             THEN [server EXCEPT !.at = "close"]
             ELSE [server EXCEPT !.at = "act", !.todo = r.todo,
                                 !.fatal = r.session.state = "error"]
  BY DEF Agent!Receive
<1>5. wire'[c].up = wire[c].up /\ wire'[c].toServer = rest
  <2>. DEFINE w == IF sent THEN Agent!Delivered(r.send) ELSE wire
  <2>1. wire' = [w EXCEPT ![c].toServer = SubSeq(w[c].toServer, n + 1, Len(w[c].toServer))]
    BY DEF Agent!Receive
  <2>. HIDE DEF r, frames
  <2>2. /\ DOMAIN w = 1..MaxConnections /\ w[c].up = wire[c].up /\ w[c].toServer = frames
        /\ w[c] = [up |-> w[c].up, toServer |-> w[c].toServer, toClient |-> w[c].toClient]
    BY <1>3 DEF Agent!Delivered, Client!WireType, frames
  <2>. HIDE DEF w
  <2>. QED
    BY <2>1, <2>2 DEF frames
<1>. HIDE DEF frames, r
<1>6. CASE server'.at = "close"
  BY <1>3, <1>6 DEF AskedInv, Joined
<1>7. CASE server'.at # "close"
  <2>1. server'.at = "act" /\ server'.todo = r.todo /\ server'.client = c
    BY <1>3, <1>4, <1>7 DEF Agent!ServerType
  <2>2. Joined' => After(wire'[connections].toServer, After(server'.todo, Held)) = client.desired
    <3>. SUFFICES ASSUME Joined'
                  PROVE  After(wire'[connections].toServer, After(server'.todo, Held)) = client.desired
      OBVIOUS
    <3>1. c = connections
      BY <1>3, <2>1 DEF Joined
    <3>2. Joined
      BY <1>1, <1>3, <1>5, <3>1 DEF Joined
    <3>3. server.todo = <<>> /\ After(frames, After(server.todo, Held)) = client.desired
      BY <1>1, <3>1, <3>2 DEF AskedInv, frames
    <3>4. Held \in SUBSET Keys
      BY HeldType
    <3>5. After(frames, Held) = client.desired
      BY <3>3, <3>4, AfterNothing
    <3>6. After(rest, After(r.todo, Held)) = After(frames, Held)
      BY <1>1, <1>2, <3>4, HandledAsks DEF r
    <3>. HIDE DEF rest
    <3>. QED
      BY <1>5, <2>1, <3>1, <3>5, <3>6
  <2>. QED
    BY <1>1, <1>3, <2>1, <2>2 DEF AskedInv
<1>. QED
  BY <1>6, <1>7

LEMMA ThreadAsks ==
  ASSUME IInv, IInv', AskedInv, UNCHANGED clientVars, Agent!ServerThread
  PROVE  AskedInv'
<1>1. server \in Agent!ServerType /\ node \in Agent!NodeType
      /\ client' = client /\ connections' = connections
  BY DEF IInv, TypeOK, clientVars
<1>2. CASE Agent!Accept
  <2>1. /\ server.at = "accept" /\ server'.at = "hello" /\ server'.todo = server.todo
        /\ UNCHANGED <<node, refused>>
    BY <1>1, <1>2 DEF Agent!Accept, Agent!ServerType
  <2>. QED
    BY <2>1 DEF AskedInv, Held, Joined
<1>3. ASSUME NEW sent \in BOOLEAN, Agent!SayHello(sent) PROVE AskedInv'
  <2>1. /\ server.at = "hello" /\ server'.at \in {"recv", "close"} /\ server'.todo = server.todo
        /\ server'.client = server.client /\ UNCHANGED <<node, refused>>
    BY <1>1, <1>3 DEF Agent!SayHello, Agent!ServerType
  <2>2. ~Joined'
    <3>. SUFFICES ASSUME Joined' PROVE FALSE
      OBVIOUS
    <3>1. client.state = "ready" /\ server.client = connections
      BY <1>1, <2>1 DEF Joined
    <3>2. Client!Connected /\ Fresh(connections)
      BY <2>1, <3>1 DEF IInv, ClientInv, Fresh
    <3>. QED
      BY <3>1, <3>2 DEF IInv, ToClientInv
  <2>. QED
    BY <2>1, <2>2 DEF AskedInv, Held
<1>4. ASSUME NEW sent \in BOOLEAN, NEW n, Agent!Receive(n, sent) PROVE AskedInv'
  BY <1>4, ReceiveAsks
<1>5. CASE Agent!ClientGone
  <2>1. server'.at = "close" /\ UNCHANGED <<node, refused>>
    BY <1>1, <1>5 DEF Agent!ClientGone, Agent!ServerType
  <2>. QED
    BY <2>1 DEF AskedInv, Joined
<1>6. CASE Agent!CloseClient
  <2>1. server'.at = "reset" /\ server'.todo = <<>> /\ UNCHANGED <<node, refused>>
    BY <1>6 DEF Agent!CloseClient
  <2>. QED
    BY <2>1 DEF AskedInv, Joined
<1>7. CASE Agent!ResetSession
  <2>1. /\ server.at = "reset" /\ server'.at = "forget" /\ server'.todo = server.todo
        /\ UNCHANGED <<node, refused>>
    BY <1>1, <1>7 DEF Agent!ResetSession, Agent!ServerType
  <2>. QED
    BY <2>1 DEF AskedInv, Joined
<1>8. CASE Agent!ClearSubscriptions
  <2>1. /\ server.at = "forget" /\ server'.at = "accept" /\ server'.todo = server.todo
        /\ node'.subscriptions = {} /\ refused' = {}
    BY <1>1, <1>8 DEF Agent!ClearSubscriptions, Agent!ServerType, Agent!NodeType
  <2>. QED
    BY <2>1 DEF AskedInv, Held, Joined
<1>9. CASE Agent!ActionsDone
  <2>1. /\ server.at = "act" /\ server.todo = <<>> /\ server'.at \in {"recv", "close"}
        /\ server'.todo = server.todo /\ server'.client = server.client
        /\ UNCHANGED <<node, refused, wire, session>>
    BY <1>1, <1>9 DEF Agent!ActionsDone, Agent!Acting, Agent!ServerType
  <2>2. Joined' => Joined
    BY <1>1, <2>1 DEF Joined
  <2>. QED
    BY <1>1, <2>1, <2>2 DEF AskedInv, Held
<1>10. CASE Agent!CatalogRequested \/ Agent!SubscribeTopic \/ Agent!UnsubscribeTopic
  BY <1>10, SubscribeAsks
<1>. QED
  BY <1>2, <1>3, <1>4, <1>5, <1>6, <1>7, <1>8, <1>9, <1>10, ThreadCases, Zenon

LEMMA ServerAsks ==
  ASSUME IInv, IInv', AskedInv, UNCHANGED clientVars, Agent!ServerStep
  PROVE  AskedInv'
<1>1. CASE Agent!AcceptFails
  <2>1. server'.at = "ended" /\ UNCHANGED <<node, refused>>
    BY <1>1 DEF Agent!AcceptFails, Agent!ServerType, IInv, TypeOK
  <2>. QED
    BY <2>1 DEF AskedInv, Joined
<1>. QED
  BY <1>1, ThreadAsks, CallbackAsks, PublicationAsks, StepCases, Zenon

LEMMA AskedInit ==
  ASSUME Init
  PROVE  AskedInv
<1>1. /\ node.subscriptions = {} /\ refused = {} /\ server.at = "accept" /\ server.todo = <<>>
  BY DEF Init, Agent!ServerInit
<1>. QED
  BY <1>1 DEF AskedInv, Held, Joined

LEMMA AskedStutter ==
  ASSUME AskedInv, UNCHANGED vars
  PROVE  AskedInv'
<1>1. UNCHANGED <<client, connections, wire, server, session, node, refused>>
  BY DEF vars, clientVars, serverVars
<1>. QED
  BY <1>1 DEF AskedInv, Held, Joined

LEMMA AskedAlways == Spec => []AskedInv
<1>1. Init => AskedInv
  BY AskedInit
<1>2. IInv /\ IInv' /\ AskedInv /\ [Next]_vars => AskedInv'
  BY ClientAsks, ServerAsks, BreakAsks, AskedStutter, Zenon DEF Next
<1>. QED
  BY <1>1, <1>2, Inductive, PTL DEF Spec

(* When the client is ready, nothing of it is under way and the agent waits for more, the *)
(* node has exactly the subscriptions the client wants, but for those it refused: each    *)
(* subscribe and unsubscribe it ever sent on this connection, and those acceptHello()     *)
(* restored after a reconnection, took effect in their order (processAction()).           *)
THEOREM SubscriptionsDoAgree == Spec => []SubscriptionsAgree
<1>1. IInv /\ AskedInv => SubscriptionsAgree
  <2>. SUFFICES ASSUME IInv, AskedInv, Settled PROVE node.subscriptions = client.desired \ refused
    BY DEF SubscriptionsAgree
  <2>1. Joined /\ server.todo = <<>> /\ wire[connections].toServer = <<>>
    BY DEF Settled, Joined, AskedInv
  <2>2. After(<<>>, After(<<>>, Held)) = client.desired
    BY <2>1 DEF AskedInv
  <2>3. Held = client.desired
    BY <2>2, HeldType, AfterNothing
  <2>. QED
    BY <2>3 DEF Held, AskedInv
<1>. QED
  BY <1>1, Inductive, AskedAlways, PTL
==============================================================================
