------------------------- MODULE LiveSources_proofs -------------------------
(***************************************************************************)
(* Proofs about the live sources for any set of sources of any kinds, and  *)
(* any number of calls and signals.                                        *)
(* Second part, from "Numbers" on: the bytes of a source for any protocol  *)
(* that is accepted and any cut of the stream into chunks, and the rule on *)
(* their errors for any count and window.                                  *)
(***************************************************************************)
EXTENDS LiveSources, FrameHealth, FiniteSetTheorems, SequenceTheorems, WellFoundedInduction, TLAPS

TypeInv ==
  /\ listed \in SUBSET Local /\ managed \in SUBSET Keys
  /\ port \in [Keys -> {"none", "connecting", "open"}]
  /\ created \in [Keys -> BOOLEAN] /\ isOpen \in [Keys -> BOOLEAN]
  /\ io \in [Keys -> Seq(Step)]
  /\ call \in Seq(GuiStep) /\ waits \in Keys \cup {"nobody"}
  /\ queue \in Seq([key : Keys, state : States])
  /\ shown \in [Keys -> States]
  /\ replaying \in BOOLEAN /\ subscribed \in BOOLEAN
  /\ armed \in SUBSET (Keys \cup {topic})
  /\ eventCount \in Nat

\* What a thread has still to do agrees with what its port has come to: a port that is up
\* is announced, watched and shown as open, one that is down as anything else.
Stating == {"store", "post"}
Brings(s, do) == \E i \in DOMAIN s : s[i].do = do
Follows(s, i, do) == \E j \in DOMAIN s : j > i /\ s[j].do = do
Agrees(s, up) ==
  \A i \in DOMAIN s :
    /\ s[i].do \in Stating => (s[i].state = "open" <=> up)
    /\ s[i].do \notin Stating => up
    /\ s[i].do = "store" /\ up => Follows(s, i, "arm") /\ Follows(s, i, "post")

IsUp(k) == port[k] = "open"
IoInv(k) ==
  /\ Agrees(io[k], IsUp(k))
  /\ Brings(io[k], "store") \/ (isOpen[k] <=> IsUp(k))
  /\ Kind[k] = "serial" => port[k] # "connecting"

\* The source is closed, or will be when the steps the GUI waits for are done.
Shut(k) == port[k] = "none" /\ (isOpen[k] => waits = k)

\* What close() asks is enough to know that there is nothing to close.
HeadIs(do, k) == call # <<>> /\ Head(call).do = do /\ Head(call).key = k
MadeInv(k) ==
  IF Kind[k] = "serial" THEN IsUp(k) => isOpen[k] \/ waits = k
                        ELSE created[k] \/ Shut(k) \/ HeadIs("closing", k)

\* The steps of a call, in which an order is kept.
At(c, i, dos, k) == c[i].do \in dos /\ c[i].key = k
Calls(c, dos, k) == \E i \in DOMAIN c : At(c, i, dos, k)
WellFormedAt(c, i, do, k) ==
  /\ do = "reset" /\ i < Len(c) => \A j \in Keys : \E n \in DOMAIN c : n > i /\ At(c, n, {"arm"}, j)
  /\ do = "add" => i + 1 = Len(c) /\ At(c, i + 1, {"open"}, k)
  /\ do = "closing" => i = 1
  /\ do = "open" => i = Len(c) /\ (i = 1 \/ At(c, i - 1, {"close", "closing", "add"}, k))
  /\ do = "opening" => i = 1 /\ Len(c) = 1
  /\ do = "detach" => /\ i + 1 = Len(c) /\ At(c, i + 1, {"forget"}, k)
                      /\ i = 1 \/ At(c, i - 1, {"close", "closing"}, k)
  /\ do = "forget" => i = Len(c) /\ (i = 1 \/ At(c, i - 1, {"detach"}, k))
WellFormed(c) == \A i \in DOMAIN c : WellFormedAt(c, i, c[i].do, c[i].key)

\* What the steps of the call still to come are about.
MeantAt(i, do, k) ==
  /\ do = "add" => k \in Local \ listed
  /\ do \in {"open", "opening"} =>
       ~replaying /\ (k \in listed \cup Agents \/ (i > 1 /\ At(call, i - 1, {"add"}, k)))
  /\ do \in {"detach", "forget"} => k \in listed
MeantInv == \A i \in DOMAIN call : MeantAt(i, call[i].do, call[i].key)
Prepared ==
  call # <<>> /\ Head(call).do \in {"open", "opening", "detach", "forget"} => Shut(Head(call).key)
CallInv ==
  WellFormed(call) /\ MeantInv /\ Prepared

\* A source is managed as long as it is listed, but for the last step of its removal.
ManagedInv == managed = {k \in Agents \cup listed : k \in Local => ~HeadIs("forget", k)}

\* In a replay, and before the rules are reset for one, no source stays open.
Dooming == replaying \/ (call # <<>> /\ call[Len(call)].do = "reset")
ReplayInv == Dooming => \A k \in Keys : Shut(k) \/ Calls(call, {"close", "closing"}, k)

UnlistedInv == \A k \in Local \ listed : Shut(k) /\ ~isOpen[k] /\ k \notin armed

\* What is open is watched, or will be by a step that is still to come.
WatchInv(k) ==
  ~replaying /\ isOpen[k] => k \in armed \/ Brings(io[k], "arm") \/ Calls(call, {"arm"}, k)
TopicInv(k) ==
  k \in Agents /\ ~replaying /\ isOpen[k] /\ subscribed =>
    \/ topic \in armed \/ Calls(call, {"arm"}, k)
    \/ Brings(io[k], "post") /\ IsUp(k)
    \/ \E i \in DOMAIN queue : queue[i].key = k /\ queue[i].state = "open"

\* The last word about a source is true: one still to be posted, one on its way, or the
\* one that is shown.
Tells(k, state) == state = "open" <=> IsUp(k)
LastQueued(q, i, k) == q[i].key = k /\ \A j \in DOMAIN q : j > i => q[j].key # k
ShownInv(k) ==
  k \in listed \cap managed /\ ~Calls(call, {"open"}, k) =>
    \/ Brings(io[k], "post")
    \/ \E i \in DOMAIN queue : LastQueued(queue, i, k) /\ Tells(k, queue[i].state)
    \/ (\A i \in DOMAIN queue : queue[i].key # k) /\ Tells(k, shown[k])

KeyInv(k) == IoInv(k) /\ MadeInv(k) /\ WatchInv(k) /\ TopicInv(k) /\ ShownInv(k)
Inv ==
  /\ TypeInv /\ CallInv /\ ManagedInv /\ ReplayInv /\ UnlistedInv
  /\ \A k \in Keys : KeyInv(k)

-----------------------------------------------------------------------------
(* Lists of steps *)

\* The three or two steps of a published state.
Saying(do, state) == [do |-> do, state |-> state]
LEMMA PublishingIs ==
  ASSUME NEW state \in States
  PROVE  /\ state = "open" =>
              Publishing(state) = <<Saying("store", state), Saying("arm", state), Saying("post", state)>>
         /\ state # "open" => Publishing(state) = <<Saying("store", state), Saying("post", state)>>
  BY DEF Publishing, Saying

LEMMA PublishingUp ==
  ASSUME NEW p, DOMAIN p = 1 .. 3,
         p[1].do = "store", p[2].do = "arm", p[3].do = "post",
         p[1].state = "open", p[2].state = "open", p[3].state = "open"
  PROVE  Agrees(p, TRUE) /\ Brings(p, "store") /\ Brings(p, "post")
<1>1. Brings(p, "store") /\ Brings(p, "post")
  BY DEF Brings
<1>2. Follows(p, 1, "arm") /\ Follows(p, 1, "post")
  BY DEF Follows
<1>. QED
  BY <1>1, <1>2 DEF Agrees, Stating

LEMMA PublishingDown ==
  ASSUME NEW p, DOMAIN p = 1 .. 2, p[1].do = "store", p[2].do = "post",
         p[1].state # "open", p[2].state # "open"
  PROVE  Agrees(p, FALSE) /\ Brings(p, "store") /\ Brings(p, "post")
  BY DEF Brings, Agrees, Stating

\* A published state agrees with a port that is up exactly if it is "open".
LEMMA PublishingAgrees ==
  ASSUME NEW state \in States
  PROVE  /\ Publishing(state) \in Seq(Step) /\ Publishing(state) # <<>>
         /\ Agrees(Publishing(state), state = "open")
         /\ Brings(Publishing(state), "store") /\ Brings(Publishing(state), "post")
<1>. DEFINE p == Publishing(state)
<1>1. CASE state = "open"
  <2>1. p = <<Saying("store", state), Saying("arm", state), Saying("post", state)>>
    BY <1>1, PublishingIs
  <2>2. p \in Seq(Step) /\ p # <<>> /\ DOMAIN p = 1 .. 3
    BY <2>1 DEF Saying, Step, States
  <2>3. p[1] = Saying("store", state) /\ p[2] = Saying("arm", state) /\ p[3] = Saying("post", state)
    BY <2>1
  <2>. HIDE DEF p
  <2>4. Agrees(p, TRUE) /\ Brings(p, "store") /\ Brings(p, "post")
    <3>. /\ p[1].do = "store" /\ p[2].do = "arm" /\ p[3].do = "post"
         /\ p[1].state = "open" /\ p[2].state = "open" /\ p[3].state = "open"
      BY <1>1, <2>3 DEF Saying
    <3>. QED
      BY <2>2, PublishingUp
  <2>. QED
    BY <1>1, <2>2, <2>4 DEF p
<1>2. CASE state # "open"
  <2>1. p = <<Saying("store", state), Saying("post", state)>>
    BY <1>2, PublishingIs
  <2>2. p \in Seq(Step) /\ p # <<>> /\ DOMAIN p = 1 .. 2
    BY <2>1 DEF Saying, Step, States
  <2>3. p[1] = Saying("store", state) /\ p[2] = Saying("post", state)
    BY <2>1
  <2>. HIDE DEF p
  <2>4. Agrees(p, FALSE) /\ Brings(p, "store") /\ Brings(p, "post")
    <3>. /\ p[1].do = "store" /\ p[2].do = "post" /\ p[1].state # "open" /\ p[2].state # "open"
      BY <1>2, <2>3 DEF Saying
    <3>. QED
      BY <2>2, PublishingDown
  <2>. QED
    BY <1>2, <2>2, <2>4 DEF p
<1>. QED
  BY <1>1, <1>2

\* One state after the other, neither of them "open".
LEMMA PublishingBoth ==
  ASSUME NEW s \in Seq(Step), NEW t \in Seq(Step), Agrees(s, FALSE), Agrees(t, FALSE),
         Brings(t, "store"), Brings(t, "post"), t # <<>>
  PROVE  /\ s \o t \in Seq(Step) /\ s \o t # <<>>
         /\ Agrees(s \o t, FALSE) /\ Brings(s \o t, "store") /\ Brings(s \o t, "post")
<1>. DEFINE c == s \o t
<1>1. /\ c \in Seq(Step) /\ Len(c) = Len(s) + Len(t)
      /\ \A i \in 1 .. Len(s) : c[i] = s[i]
      /\ \A i \in 1 .. Len(t) : c[Len(s) + i] = t[i]
      /\ \A i \in 1 .. Len(c) : i > Len(s) => c[i] = t[i - Len(s)]
  OBVIOUS
<1>2. Len(s) \in Nat /\ Len(t) \in Nat /\ DOMAIN c = 1 .. Len(c) /\ DOMAIN s = 1 .. Len(s) /\ DOMAIN t = 1 .. Len(t)
  BY <1>1
<1>. HIDE DEF c
<1>3. Agrees(c, FALSE)
  <2>. SUFFICES ASSUME NEW i \in DOMAIN c
                PROVE  c[i].do \in Stating /\ c[i].state # "open"
    BY DEF Agrees
  <2>1. CASE i <= Len(s)
    BY <1>1, <1>2, <2>1 DEF Agrees
  <2>2. CASE i > Len(s)
    <3>. i - Len(s) \in DOMAIN t /\ c[i] = t[i - Len(s)]
      BY <1>1, <1>2, <2>2
    <3>. QED
      BY DEF Agrees
  <2>. QED
    BY <1>2, <2>1, <2>2
<1>4. ASSUME NEW do, Brings(t, do) PROVE Brings(c, do)
  <2>1. PICK i \in DOMAIN t : t[i].do = do
    BY <1>4 DEF Brings
  <2>2. Len(s) + i \in DOMAIN c /\ c[Len(s) + i].do = do
    BY <1>1, <1>2, <2>1
  <2>. QED
    BY <2>2 DEF Brings
<1>5. c # <<>>
  BY <1>1, <1>2
<1>. QED
  BY <1>1, <1>3, <1>4, <1>5 DEF c

\* What is left after the first step.
LEMMA TailAgrees ==
  ASSUME NEW s \in Seq(Step), s # <<>>, NEW up \in BOOLEAN, Agrees(s, up)
  PROVE  /\ Tail(s) \in Seq(Step) /\ Agrees(Tail(s), up)
         /\ \A do : Brings(s, do) /\ Head(s).do # do => Brings(Tail(s), do)
         /\ Head(s).do \in Stating => (Head(s).state = "open" <=> up)
         /\ Head(s).do \notin Stating => up
         /\ Head(s).do = "store" /\ up => Brings(Tail(s), "arm") /\ Brings(Tail(s), "post")
<1>. DEFINE t == Tail(s)
<1>1. /\ t \in Seq(Step) /\ Len(t) = Len(s) - 1 /\ Len(s) \in Nat \ {0} /\ s[1] = Head(s)
      /\ DOMAIN s = 1 .. Len(s) /\ DOMAIN t = 1 .. Len(t)
      /\ \A i \in 1 .. Len(t) : t[i] = s[i + 1]
  OBVIOUS
<1>. HIDE DEF t
<1>2. \A j \in DOMAIN s : j > 1 => j - 1 \in DOMAIN t /\ t[j - 1] = s[j]
  BY <1>1
<1>3. \A i \in DOMAIN t : i + 1 \in DOMAIN s
  BY <1>1
<1>4. ASSUME NEW i \in DOMAIN t, NEW do, Follows(s, i + 1, do) PROVE Follows(t, i, do)
  <2>1. PICK j \in DOMAIN s : j > i + 1 /\ s[j].do = do
    BY <1>4 DEF Follows
  <2>2. j > 1 /\ j - 1 > i
    BY <1>1, <2>1
  <2>. QED
    BY <1>2, <2>1, <2>2 DEF Follows
<1>5. ASSUME NEW do, Follows(s, 1, do) PROVE Brings(t, do)
  BY <1>2, <1>5 DEF Follows, Brings
<1>6. Agrees(t, up)
  BY <1>1, <1>3, <1>4 DEF Agrees
<1>7. \A do : Brings(s, do) /\ Head(s).do # do => Brings(t, do)
  <2>. SUFFICES ASSUME NEW do, Brings(s, do), Head(s).do # do PROVE Brings(t, do)
    OBVIOUS
  <2>1. PICK j \in DOMAIN s : s[j].do = do
    BY DEF Brings
  <2>2. j > 1
    BY <1>1, <2>1
  <2>. QED
    BY <1>2, <2>1, <2>2 DEF Brings
<1>8. 1 \in DOMAIN s
  BY <1>1
<1>. QED
  BY <1>1, <1>5, <1>6, <1>7, <1>8 DEF Agrees, t

\* What received data announces.
LEMMA ObservingAgrees ==
  ASSUME NEW s \in {<<[do |-> "observe"]>>, <<[do |-> "observe"], [do |-> "observeTopic"]>>}
  PROVE  s \in Seq(Step) /\ s # <<>> /\ Agrees(s, TRUE)
<1>1. CASE s = <<[do |-> "observe"]>>
  <2>1. s \in Seq(Step) /\ s # <<>> /\ DOMAIN s = 1 .. 1 /\ s[1].do = "observe"
    BY <1>1 DEF Step
  <2>. QED
    BY <2>1 DEF Agrees, Stating
<1>2. CASE s = <<[do |-> "observe"], [do |-> "observeTopic"]>>
  <2>1. /\ s \in Seq(Step) /\ s # <<>> /\ DOMAIN s = 1 .. 2
        /\ s[1].do = "observe" /\ s[2].do = "observeTopic"
    BY <1>2 DEF Step
  <2>. QED
    BY <2>1 DEF Agrees, Stating
<1>. QED
  BY <1>1, <1>2

LEMMA Concat ==
  ASSUME NEW S, NEW s \in Seq(S), NEW t \in Seq(S)
  PROVE  /\ s \o t \in Seq(S) /\ Len(s \o t) = Len(s) + Len(t)
         /\ Len(s) \in Nat /\ Len(t) \in Nat
         /\ DOMAIN s = 1 .. Len(s) /\ DOMAIN t = 1 .. Len(t) /\ DOMAIN (s \o t) = 1 .. Len(s \o t)
         /\ \A i \in 1 .. Len(s) : (s \o t)[i] = s[i]
         /\ \A i \in 1 .. Len(t) : (s \o t)[Len(s) + i] = t[i]
  OBVIOUS

LEMMA DoIsStep ==
  \A k \in Keys : \A do \in {"reset", "arm", "add", "close", "closing", "open", "opening",
                             "detach", "forget"} :
    Do(do, k) \in GuiStep /\ Do(do, k).do = do /\ Do(do, k).key = k
  BY DEF Do, GuiStep

\* One step for each source.
LEMMA ForAllDoes ==
  ASSUME NEW do \in {"arm", "close"}
  PROVE  /\ ForAll(do) \in Seq(GuiStep) /\ ForAll(do) # <<>>
         /\ \A i \in DOMAIN ForAll(do) : ForAll(do)[i].do = do
         /\ \A k \in Keys : \E i \in DOMAIN ForAll(do) : ForAll(do)[i] = Do(do, k)
<1>. DEFINE n == Cardinality(Keys) f == SetToSeq(Keys)
<1>1. n \in Nat /\ ExistsBijection(1 .. n, Keys)
  BY KeysAssumption, FS_CardinalityType
<1>2. f \in [1 .. n -> Keys] /\ \A a, b \in 1 .. n : f[a] = f[b] => a = b
  <2>1. PICK g \in Bijection(1 .. n, Keys) : TRUE
    BY <1>1 DEF ExistsBijection
  <2>2. g \in [1 .. n -> Keys] /\ \A a, b \in DOMAIN g : g[a] = g[b] => a = b
    BY <2>1 DEF Bijection, Injection, IsInjective
  <2>3. \E h \in [1 .. n -> Keys] : IsInjective(h)
    BY <2>2 DEF IsInjective
  <2>4. f \in [1 .. n -> Keys] /\ IsInjective(f)
    BY <2>3 DEF SetToSeq
  <2>. QED
    BY <2>4 DEF IsInjective
<1>3. IsFiniteSet(1 .. n) /\ Cardinality(1 .. n) = n
  BY <1>1, FS_Interval
<1>4. f \in Surjection(1 .. n, Keys)
  <2>1. f \in Injection(1 .. n, Keys)
    BY <1>2 DEF Injection, IsInjective
  <2>. QED
    BY <1>3, <2>1, KeysAssumption, FS_Injection
<1>5. \A k \in Keys : \E i \in 1 .. n : f[i] = k
  BY <1>4 DEF Surjection
<1>. DEFINE s == [i \in DOMAIN f |-> Do(do, f[i])]
<1>6. DOMAIN f = 1 .. n
  BY <1>2
<1>7. /\ DOMAIN s = 1 .. n
      /\ \A i \in 1 .. n : s[i] = Do(do, f[i]) /\ f[i] \in Keys
  BY <1>2, <1>6
<1>. HIDE DEF n, f
<1>8. s \in [1 .. n -> GuiStep]
  BY <1>7, DoIsStep
<1>9. s \in Seq(GuiStep)
  BY <1>1, <1>8
<1>10. s # <<>>
  <2>1. \A k \in Keys : \E i \in 1 .. n : TRUE
    BY <1>5
  <2>2. 1 \in DOMAIN s
    BY <1>1, <1>7, <2>1, KeysAssumption
  <2>. QED
    BY <2>2
<1>11. /\ \A i \in DOMAIN s : s[i].do = do
       /\ \A k \in Keys : \E i \in DOMAIN s : s[i] = Do(do, k)
  BY <1>5, <1>7, DoIsStep
<1>12. s = ForAll(do)
  BY DEF ForAll, f
<1>. HIDE DEF s
<1>. QED
  BY <1>9, <1>10, <1>11, <1>12

LEMMA AnyKeyIsKey == AnyKey \in Keys
  BY KeysAssumption DEF AnyKey

LEMMA Arming ==
  /\ ResetAndArm \in Seq(GuiStep) /\ Len(ResetAndArm) > 1
  /\ ResetAndArm[1].do = "reset"
  /\ \A i \in 2 .. Len(ResetAndArm) : ResetAndArm[i].do = "arm"
  /\ \A k \in Keys : \E i \in 2 .. Len(ResetAndArm) : ResetAndArm[i] = Do("arm", k)
<1>. DEFINE a == ForAll("arm") r == <<Do("reset", AnyKey)>>
<1>1. /\ a \in Seq(GuiStep) /\ a # <<>> /\ \A i \in DOMAIN a : a[i].do = "arm"
      /\ \A k \in Keys : \E i \in DOMAIN a : a[i] = Do("arm", k)
  BY ForAllDoes
<1>2. r \in Seq(GuiStep) /\ Len(r) = 1 /\ r[1].do = "reset"
  BY AnyKeyIsKey, DoIsStep
<1>3. ResetAndArm = r \o a
  BY DEF ResetAndArm
<1>. HIDE DEF a, r
<1>4. /\ Len(a) \in Nat \ {0} /\ DOMAIN a = 1 .. Len(a)
      /\ Len(r \o a) = Len(a) + 1 /\ r \o a \in Seq(GuiStep)
      /\ \A i \in 1 .. Len(a) : (r \o a)[i + 1] = a[i]
      /\ \A i \in 2 .. Len(a) + 1 : (r \o a)[i] = a[i - 1]
      /\ (r \o a)[1] = r[1]
  <2>1. Len(a) \in Nat \ {0}
    BY <1>1
  <2>2. /\ r \o a \in Seq(GuiStep) /\ Len(r \o a) = Len(a) + 1 /\ DOMAIN a = 1 .. Len(a)
        /\ \A i \in 1 .. Len(a) : (r \o a)[1 + i] = a[i]
        /\ (r \o a)[1] = r[1]
    <3>1. /\ r \o a \in Seq(GuiStep) /\ Len(r \o a) = Len(r) + Len(a) /\ DOMAIN a = 1 .. Len(a)
          /\ \A i \in 1 .. Len(a) : (r \o a)[Len(r) + i] = a[i]
          /\ \A i \in 1 .. Len(r) : (r \o a)[i] = r[i]
      <4>. r \in Seq(GuiStep) /\ a \in Seq(GuiStep)
        BY <1>1, <1>2
      <4>. QED
        BY Concat
    <3>2. Len(r) = 1 /\ 1 \in 1 .. 1
      BY <1>2
    <3>. QED
      BY <2>1, <3>1, <3>2
  <2>3. ASSUME NEW i \in 2 .. Len(a) + 1 PROVE (r \o a)[i] = a[i - 1]
    <3>. DEFINE m == i - 1
    <3>. m \in 1 .. Len(a) /\ 1 + m = i
      BY <2>1
    <3>. HIDE DEF m
    <3>1. (r \o a)[i] = a[m]
      BY <2>2
    <3>. QED
      BY <3>1 DEF m
  <2>. QED
    BY <2>1, <2>2, <2>3
<1>5. \A k \in Keys : \E i \in 2 .. Len(r \o a) : (r \o a)[i] = Do("arm", k)
  <2>. TAKE k \in Keys
  <2>1. PICK i \in DOMAIN a : a[i] = Do("arm", k)
    BY <1>1
  <2>2. i + 1 \in 2 .. Len(r \o a) /\ (r \o a)[i + 1] = Do("arm", k)
    BY <1>4, <2>1
  <2>. QED
    BY <2>2
<1>6. \A i \in 2 .. Len(r \o a) : (r \o a)[i].do = "arm"
  <2>. TAKE i \in 2 .. Len(r \o a)
  <2>1. i - 1 \in DOMAIN a /\ (r \o a)[i] = a[i - 1]
    BY <1>4
  <2>. QED
    BY <1>1, <2>1
<1>7. Len(r \o a) > 1 /\ (r \o a)[1].do = "reset" /\ r \o a \in Seq(GuiStep)
  BY <1>2, <1>4
<1>. QED
  BY <1>3, <1>5, <1>6, <1>7

\* The calls as they begin.
LEMMA ArmingIsWellFormed == WellFormed(ResetAndArm)
<1>. DEFINE c == ResetAndArm
<1>1. /\ c \in Seq(GuiStep) /\ Len(c) > 1 /\ c[1].do = "reset"
      /\ \A i \in 2 .. Len(c) : c[i].do = "arm"
      /\ \A k \in Keys : \E i \in 2 .. Len(c) : c[i] = Do("arm", k)
  BY Arming
<1>2. DOMAIN c = 1 .. Len(c) /\ Len(c) \in Nat
  BY <1>1
<1>. HIDE DEF c
<1>3. WellFormedAt(c, 1, c[1].do, c[1].key)
  <2>1. \A j \in Keys : \E n \in DOMAIN c : n > 1 /\ At(c, n, {"arm"}, j)
    BY <1>1, <1>2, DoIsStep DEF At
  <2>. QED
    BY <1>1, <2>1 DEF WellFormedAt
<1>4. \A i \in 2 .. Len(c) : WellFormedAt(c, i, c[i].do, c[i].key)
  BY <1>1 DEF WellFormedAt
<1>5. WellFormed(c)
  BY <1>2, <1>3, <1>4 DEF WellFormed
<1>. QED
  BY <1>5 DEF c

LEMMA Pair ==
  ASSUME NEW k \in Keys, NEW do \in {"close", "add"}
  PROVE  LET c == <<Do(do, k), Do("open", k)>>
         IN  /\ c \in Seq(GuiStep) /\ Len(c) = 2 /\ c[1] = Do(do, k) /\ c[2] = Do("open", k)
             /\ WellFormed(c)
<1>. DEFINE c == <<Do(do, k), Do("open", k)>>
<1>1. c \in Seq(GuiStep) /\ Len(c) = 2 /\ c[1] = Do(do, k) /\ c[2] = Do("open", k) /\ DOMAIN c = 1 .. 2
  BY DoIsStep
<1>. HIDE DEF c
<1>2. c[1].do = do /\ c[1].key = k /\ c[2].do = "open" /\ c[2].key = k
  BY <1>1, DoIsStep
<1>3. WellFormed(c)
  BY <1>1, <1>2 DEF WellFormed, WellFormedAt, At
<1>. QED
  BY <1>1, <1>3 DEF c

\* A connection that ends a replay.
LEMMA LeavingPair ==
  ASSUME NEW k \in Keys, NEW do \in {"close", "add"}
  PROVE  LET c == ResetAndArm \o <<Do(do, k), Do("open", k)>>
         IN  /\ c \in Seq(GuiStep) /\ Len(c) > 3 /\ c[1].do = "reset"
             /\ \A i \in 2 .. Len(c) - 2 : c[i].do = "arm"
             /\ c[Len(c) - 1] = Do(do, k) /\ c[Len(c)] = Do("open", k)
             /\ WellFormed(c)
<1>. DEFINE a == ResetAndArm b == <<Do(do, k), Do("open", k)>> c == a \o b
<1>1. /\ a \in Seq(GuiStep) /\ Len(a) > 1 /\ a[1].do = "reset"
      /\ \A i \in 2 .. Len(a) : a[i].do = "arm"
      /\ \A j \in Keys : \E i \in 2 .. Len(a) : a[i] = Do("arm", j)
  BY Arming
<1>2. b \in Seq(GuiStep) /\ Len(b) = 2 /\ b[1] = Do(do, k) /\ b[2] = Do("open", k)
  BY Pair
<1>. HIDE DEF a, b
<1>3. /\ c \in Seq(GuiStep) /\ Len(c) = Len(a) + 2 /\ Len(a) \in Nat /\ DOMAIN c = 1 .. Len(c)
      /\ \A i \in 1 .. Len(a) : c[i] = a[i]
      /\ c[Len(a) + 1] = b[1] /\ c[Len(a) + 2] = b[2]
  <2>1. /\ c \in Seq(GuiStep) /\ Len(c) = Len(a) + Len(b) /\ Len(a) \in Nat /\ DOMAIN c = 1 .. Len(c)
        /\ \A i \in 1 .. Len(a) : c[i] = a[i]
        /\ \A i \in 1 .. Len(b) : c[Len(a) + i] = b[i]
    <3>. a \in Seq(GuiStep) /\ b \in Seq(GuiStep)
      BY <1>1, <1>2
    <3>. QED
      BY Concat
  <2>2. Len(b) = 2 /\ 1 \in 1 .. 2 /\ 2 \in 1 .. 2
    BY <1>2
  <2>. HIDE DEF c
  <2>. QED
    BY <2>1, <2>2
<1>. HIDE DEF c
<1>4. /\ Len(c) > 3 /\ c[1].do = "reset"
      /\ \A i \in 2 .. Len(c) - 2 : c[i].do = "arm"
      /\ c[Len(c) - 1] = Do(do, k) /\ c[Len(c)] = Do("open", k)
  <2>1. Len(a) \in Nat /\ Len(a) > 1 /\ Len(c) = Len(a) + 2
    BY <1>1, <1>3
  <2>2. Len(c) > 3 /\ c[1].do = "reset"
    <3>1. 1 \in 1 .. Len(a)
      BY <2>1
    <3>2. c[1] = a[1]
      BY <1>3, <3>1
    <3>. QED
      BY <1>1, <2>1, <3>2
  <2>3. ASSUME NEW i \in 2 .. Len(c) - 2 PROVE c[i].do = "arm"
    <3>1. i \in 2 .. Len(a) /\ i \in 1 .. Len(a)
      BY <2>1
    <3>. QED
      BY <1>1, <1>3, <3>1
  <2>4. c[Len(c) - 1] = Do(do, k) /\ c[Len(c)] = Do("open", k)
    <3>1. Len(c) - 1 = Len(a) + 1
      BY <2>1
    <3>. QED
      BY <1>2, <1>3, <3>1
  <2>. QED
    BY <2>2, <2>3, <2>4
<1>5. WellFormedAt(c, 1, c[1].do, c[1].key)
  <2>1. \A j \in Keys : \E n \in DOMAIN c : n > 1 /\ At(c, n, {"arm"}, j)
    <3>. TAKE j \in Keys
    <3>1. PICK i \in 2 .. Len(a) : a[i] = Do("arm", j)
      BY <1>1
    <3>2. i \in DOMAIN c /\ i > 1 /\ c[i] = Do("arm", j)
      BY <1>3, <3>1
    <3>. QED
      BY <3>2, DoIsStep DEF At
  <2>. QED
    BY <1>4, <2>1 DEF WellFormedAt
<1>6. \A i \in 2 .. Len(c) - 2 : WellFormedAt(c, i, c[i].do, c[i].key)
  BY <1>4 DEF WellFormedAt
<1>7. /\ c[Len(c) - 1].do = do /\ c[Len(c) - 1].key = k
      /\ c[Len(c)].do = "open" /\ c[Len(c)].key = k
  BY <1>4, DoIsStep
<1>8. WellFormedAt(c, Len(c) - 1, do, k) /\ WellFormedAt(c, Len(c), "open", k)
  BY <1>3, <1>4, <1>7 DEF WellFormedAt, At
<1>9. WellFormed(c)
  <2>. SUFFICES ASSUME NEW i \in 1 .. Len(c) PROVE WellFormedAt(c, i, c[i].do, c[i].key)
    BY <1>3 DEF WellFormed
  <2>1. i = 1 \/ i \in 2 .. Len(c) - 2 \/ i = Len(c) - 1 \/ i = Len(c)
    BY <1>3
  <2>. QED
    BY <1>5, <1>6, <1>7, <1>8, <2>1
<1>. QED
  BY <1>3, <1>4, <1>9 DEF c, a, b

LEMMA Removal ==
  ASSUME NEW k \in Keys
  PROVE  LET c == RemovalOf(k)
         IN  /\ c \in Seq(GuiStep) /\ Len(c) = 3
             /\ c[1] = Do("close", k) /\ c[2] = Do("detach", k) /\ c[3] = Do("forget", k)
             /\ WellFormed(c)
<1>. DEFINE c == RemovalOf(k)
<1>1. /\ c \in Seq(GuiStep) /\ Len(c) = 3 /\ DOMAIN c = 1 .. 3
      /\ c[1] = Do("close", k) /\ c[2] = Do("detach", k) /\ c[3] = Do("forget", k)
  BY DoIsStep DEF RemovalOf
<1>. HIDE DEF c
<1>2. /\ c[1].do = "close" /\ c[1].key = k /\ c[2].do = "detach" /\ c[2].key = k
      /\ c[3].do = "forget" /\ c[3].key = k
  BY <1>1, DoIsStep
<1>3. WellFormed(c)
  BY <1>1, <1>2 DEF WellFormed, WellFormedAt, At
<1>. QED
  BY <1>1, <1>3 DEF c

LEMMA ClosingAll ==
  LET c == ForAll("close") \o <<Do("reset", AnyKey)>>
  IN  /\ c \in Seq(GuiStep) /\ Len(c) > 1 /\ c[Len(c)].do = "reset"
      /\ \A i \in 1 .. Len(c) - 1 : c[i].do = "close"
      /\ \A k \in Keys : Calls(c, {"close", "closing"}, k)
      /\ WellFormed(c)
<1>. DEFINE a == ForAll("close") r == <<Do("reset", AnyKey)>> c == a \o r
<1>1. /\ a \in Seq(GuiStep) /\ a # <<>> /\ \A i \in DOMAIN a : a[i].do = "close"
      /\ \A k \in Keys : \E i \in DOMAIN a : a[i] = Do("close", k)
  BY ForAllDoes
<1>2. r \in Seq(GuiStep) /\ Len(r) = 1 /\ r[1].do = "reset"
  BY AnyKeyIsKey, DoIsStep
<1>. HIDE DEF a, r
<1>3. /\ c \in Seq(GuiStep) /\ Len(c) = Len(a) + 1 /\ Len(a) \in Nat \ {0} /\ DOMAIN c = 1 .. Len(c)
      /\ \A i \in 1 .. Len(a) : c[i] = a[i]
      /\ c[Len(a) + 1] = r[1] /\ DOMAIN a = 1 .. Len(a)
  <2>1. Len(a) \in Nat \ {0}
    BY <1>1
  <2>2. /\ c \in Seq(GuiStep) /\ Len(c) = Len(a) + Len(r) /\ DOMAIN c = 1 .. Len(c) /\ DOMAIN a = 1 .. Len(a)
        /\ \A i \in 1 .. Len(a) : c[i] = a[i]
        /\ \A i \in 1 .. Len(r) : c[Len(a) + i] = r[i]
    <3>. a \in Seq(GuiStep) /\ r \in Seq(GuiStep)
      BY <1>1, <1>2
    <3>. QED
      BY Concat
  <2>3. Len(r) = 1 /\ 1 \in 1 .. 1
    BY <1>2
  <2>. HIDE DEF c
  <2>. QED
    BY <2>1, <2>2, <2>3
<1>. HIDE DEF c
<1>4. Len(c) > 1 /\ c[Len(c)].do = "reset" /\ \A i \in 1 .. Len(c) - 1 : c[i].do = "close"
  BY <1>1, <1>2, <1>3
<1>5. \A k \in Keys : Calls(c, {"close", "closing"}, k)
  <2>. TAKE k \in Keys
  <2>1. PICK i \in DOMAIN a : a[i] = Do("close", k)
    BY <1>1
  <2>2. i \in DOMAIN c /\ c[i] = Do("close", k)
    BY <1>3, <2>1
  <2>. QED
    BY <2>2, DoIsStep DEF Calls, At
<1>6. WellFormed(c)
  <2>1. \A i \in 1 .. Len(c) - 1 : WellFormedAt(c, i, c[i].do, c[i].key)
    BY <1>4 DEF WellFormedAt
  <2>2. WellFormedAt(c, Len(c), c[Len(c)].do, c[Len(c)].key)
    BY <1>3, <1>4 DEF WellFormedAt
  <2>. QED
    BY <1>3, <2>1, <2>2 DEF WellFormed
<1>. QED
  BY <1>3, <1>4, <1>5, <1>6 DEF c, a, r
-----------------------------------------------------------------------------
(* A step of a call *)

LEMMA TailIs ==
  ASSUME NEW c \in Seq(GuiStep), c # <<>>
  PROVE  /\ <<>> \o Tail(c) = Tail(c) /\ Tail(c) \in Seq(GuiStep)
         /\ Len(c) \in Nat \ {0} /\ Len(Tail(c)) = Len(c) - 1
         /\ DOMAIN c = 1 .. Len(c) /\ DOMAIN Tail(c) = 1 .. Len(c) - 1
         /\ \A i \in 1 .. Len(c) - 1 : Tail(c)[i] = c[i + 1]
         /\ Head(c) = c[1] /\ c[1] \in GuiStep
         /\ Tail(c) # <<>> => Len(c) > 1 /\ Head(Tail(c)) = c[2]
  OBVIOUS

LEMMA ReplacedIs ==
  ASSUME NEW c \in Seq(GuiStep), c # <<>>, NEW x \in GuiStep
  PROVE  /\ <<x>> \o Tail(c) \in Seq(GuiStep) /\ Len(<<x>> \o Tail(c)) = Len(c)
         /\ DOMAIN (<<x>> \o Tail(c)) = 1 .. Len(c)
         /\ (<<x>> \o Tail(c))[1] = x /\ Head(<<x>> \o Tail(c)) = x /\ <<x>> \o Tail(c) # <<>>
         /\ \A i \in 2 .. Len(c) : (<<x>> \o Tail(c))[i] = c[i]
<1>. DEFINE s == <<x>> t == Tail(c) d == s \o t
<1>1. s \in Seq(GuiStep) /\ Len(s) = 1 /\ s[1] = x
  OBVIOUS
<1>2. /\ t \in Seq(GuiStep) /\ Len(c) \in Nat \ {0} /\ Len(t) = Len(c) - 1
      /\ \A i \in 1 .. Len(t) : t[i] = c[i + 1]
  BY TailIs
<1>. HIDE DEF s, t
<1>3. /\ d \in Seq(GuiStep) /\ Len(d) = Len(s) + Len(t) /\ DOMAIN d = 1 .. Len(d)
      /\ \A i \in 1 .. Len(s) : d[i] = s[i]
      /\ \A i \in 1 .. Len(t) : d[Len(s) + i] = t[i]
  <2>. s \in Seq(GuiStep) /\ t \in Seq(GuiStep)
    BY <1>1, <1>2
  <2>. QED
    BY Concat
<1>. HIDE DEF d
<1>4. Len(d) = Len(c) /\ d[1] = x
  BY <1>1, <1>2, <1>3
<1>5. ASSUME NEW i \in 2 .. Len(c) PROVE d[i] = c[i]
  <2>. DEFINE m == i - 1
  <2>. m \in 1 .. Len(t) /\ 1 + m = i /\ m + 1 = i
    BY <1>2
  <2>. HIDE DEF m
  <2>1. d[i] = t[m] /\ t[m] = c[i]
    BY <1>1, <1>2, <1>3
  <2>. QED
    BY <2>1
<1>6. d # <<>> /\ Head(d) = d[1]
  BY <1>2, <1>3, <1>4
<1>. QED
  BY <1>3, <1>4, <1>5, <1>6 DEF d, s, t

LEMMA TailWellFormed ==
  ASSUME NEW c \in Seq(GuiStep), c # <<>>, WellFormed(c)
  PROVE  WellFormed(Tail(c))
<1>. DEFINE t == Tail(c)
<1>1. /\ Len(c) \in Nat \ {0} /\ Len(t) = Len(c) - 1
      /\ DOMAIN c = 1 .. Len(c) /\ DOMAIN t = 1 .. Len(c) - 1
      /\ \A i \in 1 .. Len(c) - 1 : t[i] = c[i + 1]
  BY TailIs
<1>. HIDE DEF t
<1>. SUFFICES ASSUME NEW i \in DOMAIN t PROVE WellFormedAt(t, i, t[i].do, t[i].key)
  BY DEF WellFormed, t
<1>. DEFINE do == t[i].do k == t[i].key
<1>2. i \in 1 .. Len(t) /\ i + 1 \in DOMAIN c /\ i + 1 > 1
  BY <1>1
<1>3. WellFormedAt(c, i + 1, do, k)
  BY <1>1, <1>2 DEF WellFormed
<1>4. ASSUME NEW n \in DOMAIN c, n > 1 PROVE n - 1 \in DOMAIN t /\ t[n - 1] = c[n]
  BY <1>1, <1>4
<1>. HIDE DEF do, k
<1>5. do = "reset" /\ i < Len(t) => \A j \in Keys : \E n \in DOMAIN t : n > i /\ At(t, n, {"arm"}, j)
  <2>. SUFFICES ASSUME do = "reset", i < Len(t), NEW j \in Keys
                PROVE  \E n \in DOMAIN t : n > i /\ At(t, n, {"arm"}, j)
    OBVIOUS
  <2>1. PICK n \in DOMAIN c : n > i + 1 /\ At(c, n, {"arm"}, j)
    BY <1>1, <1>3 DEF WellFormedAt
  <2>2. n > 1 /\ n - 1 > i
    BY <1>1, <2>1
  <2>3. n - 1 \in DOMAIN t /\ t[n - 1] = c[n]
    BY <1>4, <2>2
  <2>. QED
    BY <2>1, <2>2, <2>3 DEF At
<1>6. \A dos, j : i > 1 /\ At(c, i, dos, j) => At(t, i - 1, dos, j)
  BY <1>1, <1>2, <1>4 DEF At
<1>7. \A dos, j : i + 1 \in DOMAIN t /\ At(c, i + 2, dos, j) => At(t, i + 1, dos, j)
  BY <1>1 DEF At
<1>8. (i + 1) - 1 = i /\ (i + 1) + 1 = i + 2 /\ i \in Nat \ {0}
  BY <1>1
<1>9. do = "add" => i + 1 = Len(t) /\ At(t, i + 1, {"open"}, k)
  BY <1>1, <1>2, <1>3, <1>7, <1>8 DEF WellFormedAt
<1>10. do # "closing" /\ do # "opening"
  BY <1>1, <1>2, <1>3 DEF WellFormedAt
<1>11. do = "open" => i = Len(t) /\ (i = 1 \/ At(t, i - 1, {"close", "closing", "add"}, k))
  BY <1>1, <1>2, <1>3, <1>6, <1>8 DEF WellFormedAt
<1>12. do = "detach" => /\ i + 1 = Len(t) /\ At(t, i + 1, {"forget"}, k)
                        /\ i = 1 \/ At(t, i - 1, {"close", "closing"}, k)
  BY <1>1, <1>2, <1>3, <1>6, <1>7, <1>8 DEF WellFormedAt
<1>13. do = "forget" => i = Len(t) /\ (i = 1 \/ At(t, i - 1, {"detach"}, k))
  BY <1>1, <1>2, <1>3, <1>6, <1>8 DEF WellFormedAt
<1>14. WellFormedAt(t, i, do, k)
  BY <1>5, <1>9, <1>10, <1>11, <1>12, <1>13 DEF WellFormedAt
<1>. QED
  BY <1>14 DEF do, k

\* A step that goes on in a second one.
LEMMA ReplacedWellFormed ==
  ASSUME NEW c \in Seq(GuiStep), c # <<>>, WellFormed(c),
         NEW k \in Keys, Head(c).key = k, NEW do,
         \/ Head(c).do = "close" /\ do = "closing"
         \/ Head(c).do = "open" /\ do = "opening"
  PROVE  WellFormed(<<Do(do, k)>> \o Tail(c))
<1>. DEFINE d == <<Do(do, k)>> \o Tail(c)
<1>0. Do(do, k) \in GuiStep /\ Do(do, k).do = do /\ Do(do, k).key = k
  BY DoIsStep
<1>1. /\ Len(d) = Len(c) /\ DOMAIN d = 1 .. Len(c) /\ DOMAIN c = 1 .. Len(c)
      /\ Len(c) \in Nat \ {0} /\ d[1] = Do(do, k)
      /\ \A i \in 2 .. Len(c) : d[i] = c[i]
      /\ Head(c) = c[1]
  BY <1>0, ReplacedIs, TailIs
<1>. HIDE DEF d
<1>. SUFFICES ASSUME NEW i \in 1 .. Len(c) PROVE WellFormedAt(d, i, d[i].do, d[i].key)
  BY <1>1 DEF WellFormed, d
<1>2. WellFormedAt(c, i, c[i].do, c[i].key)
  BY <1>1 DEF WellFormed
<1>3. CASE i = 1
  BY <1>0, <1>1, <1>2, <1>3 DEF WellFormedAt
<1>4. CASE i > 1
  <2>1. d[i] = c[i]
    BY <1>1, <1>4
  <2>2. ASSUME NEW n \in 2 .. Len(c), NEW dos, NEW j PROVE At(c, n, dos, j) <=> At(d, n, dos, j)
    BY <1>1, <2>2 DEF At
  <2>3. \A n \in 1 .. Len(c) : \A dos, j :
          /\ At(c, n, dos, j) /\ n > 1 => At(d, n, dos, j)
          /\ At(c, n, dos, j) /\ n = 1 => c[1].do \in dos /\ j = k
    BY <1>1, <2>2 DEF At
  <2>4. c[1].do = "close" => do = "closing"
    BY <1>1
  <2>5. ASSUME NEW n \in 1 .. Len(c), NEW j, NEW dos \in {{"close", "closing"}, {"close", "closing", "add"}},
               At(c, n, dos, j)
        PROVE  At(d, n, dos, j)
    <3>1. CASE n = 1
      BY <1>0, <1>1, <2>3, <2>5, <3>1 DEF At
    <3>. QED
      BY <2>3, <2>5, <3>1
  <2>6. i - 1 \in 1 .. Len(c)
    BY <1>1, <1>4
  <2>7. \A dos, j : i < Len(c) /\ At(c, i + 1, dos, j) => At(d, i + 1, dos, j)
    BY <1>1, <1>4, <2>3
  <2>. DEFINE do2 == c[i].do k2 == c[i].key
  <2>8. WellFormedAt(c, i, do2, k2)
    BY <1>2
  <2>. HIDE DEF do2, k2
  <2>9. do2 = "reset" /\ i < Len(d) => \A j \in Keys : \E n \in DOMAIN d : n > i /\ At(d, n, {"arm"}, j)
    BY <1>1, <1>4, <2>3, <2>8 DEF WellFormedAt
  <2>10. /\ do2 = "add" => i + 1 = Len(d) /\ At(d, i + 1, {"open"}, k2)
         /\ do2 # "closing" /\ do2 # "opening"
    <3>1. i < Len(c) /\ At(c, i + 1, {"open"}, k2) => At(d, i + 1, {"open"}, k2)
      BY <2>7
    <3>2. i + 1 = Len(c) => i < Len(c)
      BY <1>1
    <3>3. do2 # "closing" /\ do2 # "opening"
      BY <1>4, <2>8 DEF WellFormedAt
    <3>4. do2 = "add" => i + 1 = Len(c) /\ At(c, i + 1, {"open"}, k2)
      BY <2>8 DEF WellFormedAt
    <3>. QED
      BY <1>1, <3>1, <3>2, <3>3, <3>4
  <2>11. do2 = "open" => i = Len(d) /\ (i = 1 \/ At(d, i - 1, {"close", "closing", "add"}, k2))
    BY <1>1, <1>4, <2>5, <2>6, <2>8 DEF WellFormedAt
  <2>12. do2 = "detach" => /\ i + 1 = Len(d) /\ At(d, i + 1, {"forget"}, k2)
                           /\ i = 1 \/ At(d, i - 1, {"close", "closing"}, k2)
    <3>1. At(c, i - 1, {"close", "closing"}, k2) => At(d, i - 1, {"close", "closing"}, k2)
      BY <2>5, <2>6
    <3>2. i < Len(c) /\ At(c, i + 1, {"forget"}, k2) => At(d, i + 1, {"forget"}, k2)
      BY <2>7
    <3>3. i + 1 = Len(c) => i < Len(c)
      BY <1>1
    <3>. QED
      BY <1>1, <1>4, <2>8, <3>1, <3>2, <3>3 DEF WellFormedAt
  <2>13. do2 = "forget" => i = Len(d) /\ (i = 1 \/ At(d, i - 1, {"detach"}, k2))
    <3>1. At(c, i - 1, {"detach"}, k2) => i - 1 > 1
      BY <1>1, <2>3, <2>6
    <3>. QED
      BY <1>1, <1>4, <2>3, <2>6, <2>8, <3>1 DEF WellFormedAt
  <2>14. WellFormedAt(d, i, do2, k2)
    BY <2>9, <2>10, <2>11, <2>12, <2>13 DEF WellFormedAt
  <2>. QED
    BY <2>1, <2>14 DEF do2, k2
<1>. QED
  BY <1>1, <1>3, <1>4

LEMMA CallsLeft ==
  ASSUME NEW c \in Seq(GuiStep), c # <<>>, NEW dos, NEW k
  PROVE  /\ Calls(c, dos, k) <=> At(c, 1, dos, k) \/ Calls(Tail(c), dos, k)
         /\ \A x \in GuiStep :
              Calls(<<x>> \o Tail(c), dos, k) <=> (x.do \in dos /\ x.key = k) \/ Calls(Tail(c), dos, k)
<1>. DEFINE t == Tail(c)
<1>1. /\ Len(c) \in Nat \ {0} /\ DOMAIN c = 1 .. Len(c) /\ DOMAIN t = 1 .. Len(c) - 1
      /\ \A i \in 1 .. Len(c) - 1 : t[i] = c[i + 1]
  BY TailIs
<1>. HIDE DEF t
<1>2. \A i \in 2 .. Len(c) : i - 1 \in DOMAIN t /\ t[i - 1] = c[i]
  BY <1>1
<1>3. Calls(c, dos, k) <=> At(c, 1, dos, k) \/ Calls(t, dos, k)
  <2>1. ASSUME Calls(c, dos, k) PROVE At(c, 1, dos, k) \/ Calls(t, dos, k)
    <3>1. PICK i \in DOMAIN c : At(c, i, dos, k)
      BY <2>1 DEF Calls
    <3>2. CASE i = 1
      BY <3>1, <3>2
    <3>3. CASE i > 1
      BY <1>1, <1>2, <3>1, <3>3 DEF Calls, At
    <3>. QED
      BY <1>1, <3>2, <3>3
  <2>2. ASSUME Calls(t, dos, k) PROVE Calls(c, dos, k)
    <3>1. PICK i \in DOMAIN t : At(t, i, dos, k)
      BY <2>2 DEF Calls
    <3>2. i + 1 \in DOMAIN c /\ c[i + 1] = t[i]
      BY <1>1
    <3>. QED
      BY <3>1, <3>2 DEF Calls, At
  <2>3. At(c, 1, dos, k) => Calls(c, dos, k)
    BY <1>1 DEF Calls
  <2>. QED
    BY <2>1, <2>2, <2>3
<1>4. ASSUME NEW x \in GuiStep
      PROVE  Calls(<<x>> \o Tail(c), dos, k) <=> (x.do \in dos /\ x.key = k) \/ Calls(t, dos, k)
  <2>. DEFINE d == <<x>> \o Tail(c)
  <2>1. DOMAIN d = 1 .. Len(c) /\ d[1] = x /\ \A i \in 2 .. Len(c) : d[i] = c[i]
    BY ReplacedIs
  <2>. HIDE DEF d
  <2>2. ASSUME Calls(d, dos, k) PROVE (x.do \in dos /\ x.key = k) \/ Calls(t, dos, k)
    <3>1. PICK i \in DOMAIN d : At(d, i, dos, k)
      BY <2>2 DEF Calls
    <3>2. CASE i = 1
      BY <2>1, <3>1, <3>2 DEF At
    <3>3. CASE i > 1
      BY <1>1, <1>2, <2>1, <3>1, <3>3 DEF Calls, At
    <3>. QED
      BY <1>1, <2>1, <3>2, <3>3
  <2>3. ASSUME Calls(t, dos, k) PROVE Calls(d, dos, k)
    <3>1. PICK i \in DOMAIN t : At(t, i, dos, k)
      BY <2>3 DEF Calls
    <3>2. i + 1 \in 2 .. Len(c) /\ c[i + 1] = t[i]
      BY <1>1
    <3>3. i + 1 \in DOMAIN d /\ d[i + 1] = t[i]
      BY <1>1, <2>1, <3>2
    <3>. QED
      BY <3>1, <3>3 DEF Calls, At
  <2>4. x.do \in dos /\ x.key = k => Calls(d, dos, k)
    BY <1>1, <2>1 DEF Calls, At
  <2>. QED
    BY <2>2, <2>3, <2>4 DEF d
<1>. QED
  BY <1>3, <1>4 DEF t

\* What can come next in a call.
LEMMA NextHead ==
  ASSUME NEW c \in Seq(GuiStep), c # <<>>, WellFormed(c), Tail(c) # <<>>
  PROVE  /\ Head(Tail(c)).do \notin {"opening", "closing"}
         /\ Head(Tail(c)).do = "open" =>
              Head(c).do \in {"close", "closing", "add"} /\ Head(Tail(c)).key = Head(c).key
         /\ Head(Tail(c)).do = "detach" =>
              Head(c).do \in {"close", "closing"} /\ Head(Tail(c)).key = Head(c).key
         /\ Head(Tail(c)).do = "forget" =>
              Head(c).do = "detach" /\ Head(Tail(c)).key = Head(c).key
<1>1. /\ Len(c) \in Nat \ {0} /\ DOMAIN c = 1 .. Len(c) /\ Len(c) > 1
      /\ Head(c) = c[1] /\ Head(Tail(c)) = c[2]
  BY TailIs
<1>2. WellFormedAt(c, 2, c[2].do, c[2].key)
  BY <1>1 DEF WellFormed
<1>3. 2 # 1 /\ 2 - 1 = 1
  OBVIOUS
<1>. QED
  BY <1>1, <1>2, <1>3 DEF WellFormedAt, At
-----------------------------------------------------------------------------
(* What every step of a call keeps *)

\* When the GUI waits for nobody, the thread it waited for has said everything.
LEMMA Settled ==
  ASSUME TypeInv, ~Invoking, NEW k \in Keys, IoInv(k), waits = k
  PROVE  isOpen[k] <=> IsUp(k)
<1>1. io[k] = <<>>
  BY KeysAssumption DEF Invoking
<1>. QED
  BY <1>1 DEF IoInv, Brings

LEMMA ShutIsClosed ==
  ASSUME TypeInv, ~Invoking, NEW k \in Keys, IoInv(k), Shut(k)
  PROVE  port[k] = "none" /\ ~isOpen[k] /\ ~IsUp(k)
  BY Settled DEF Shut, IsUp

LEMMA ShutStays ==
  ASSUME TypeInv, ~Invoking, NEW k \in Keys, IoInv(k), Shut(k),
         isOpen' = isOpen, port'[k] = "none"
  PROVE  Shut(k)' /\ ~isOpen'[k]
  BY ShutIsClosed DEF Shut

LEMMA MadeStays ==
  ASSUME TypeInv, ~Invoking, NEW k \in Keys, IoInv(k), MadeInv(k), ~HeadIs("closing", k),
         isOpen' = isOpen, port'[k] = port[k], Kind[k] = "serial" \/ created'[k] = created[k]
  PROVE  MadeInv(k)'
<1>1. CASE Kind[k] = "serial"
  BY <1>1, Settled DEF MadeInv, IsUp
<1>2. CASE Kind[k] # "serial"
  <2>1. Shut(k) => Shut(k)'
    BY ShutStays DEF Shut
  <2>. QED
    BY <1>2, <2>1 DEF MadeInv
<1>. QED
  BY <1>1, <1>2

LEMMA IoStays ==
  ASSUME NEW k \in Keys, IoInv(k), isOpen' = isOpen, port'[k] = port[k], io'[k] = io[k]
  PROVE  IoInv(k)'
  BY DEF IoInv, IsUp

\* The step at the head is done and the next one is due.
LEMMA Consuming ==
  ASSUME TypeInv, CallInv, call # <<>>, NEW w, GuiStepDone(w, <<>>)
  PROVE  /\ call' = Tail(call) /\ call' \in Seq(GuiStep) /\ waits' = w
         /\ WellFormed(call')
         /\ Head(call) = call[1] /\ Head(call) \in GuiStep
         /\ \A dos, k : Calls(call', dos, k) => Calls(call, dos, k)
         /\ \A dos, k : Calls(call, dos, k) => At(call, 1, dos, k) \/ Calls(call', dos, k)
         /\ replaying' = replaying /\ Dooming' => Dooming
<1>1. call \in Seq(GuiStep) /\ WellFormed(call)
  BY DEF TypeInv, CallInv
<1>2. call' = Tail(call) /\ call' \in Seq(GuiStep) /\ waits' = w
  BY <1>1, TailIs DEF GuiStepDone
<1>3. WellFormed(call') /\ Head(call) = call[1] /\ Head(call) \in GuiStep
  BY <1>1, <1>2, TailIs, TailWellFormed
<1>4. \A dos, k : Calls(call, dos, k) <=> At(call, 1, dos, k) \/ Calls(call', dos, k)
  BY <1>1, <1>2, CallsLeft
<1>5. ASSUME replaying' = replaying, Dooming' PROVE Dooming
  <2>1. CASE replaying
    BY <2>1 DEF Dooming
  <2>2. CASE call' # <<>> /\ call'[Len(call')].do = "reset"
    <3>1. /\ Len(call) \in Nat \ {0} /\ Len(call') = Len(call) - 1
          /\ \A i \in 1 .. Len(call) - 1 : call'[i] = call[i + 1]
          /\ Len(call') > 0
      BY <1>1, <1>2, <2>2, TailIs
    <3>. DEFINE m == Len(call')
    <3>2. m \in 1 .. Len(call) - 1 /\ m + 1 = Len(call)
      BY <3>1
    <3>3. call'[m] = call[m + 1]
      BY <3>1, <3>2
    <3>. QED
      BY <2>2, <3>2, <3>3 DEF Dooming
  <2>. QED
    BY <1>5, <2>1, <2>2 DEF Dooming
<1>. QED
  BY <1>2, <1>3, <1>4, <1>5

LEMMA MeantStays ==
  ASSUME TypeInv, CallInv, call # <<>>, call' = Tail(call), Head(call).do # "add",
         listed' = listed, replaying' = replaying
  PROVE  MeantInv'
<1>. DEFINE d == call'
<1>1. /\ Len(call) \in Nat \ {0} /\ DOMAIN call = 1 .. Len(call) /\ DOMAIN d = 1 .. Len(call) - 1
      /\ \A i \in 1 .. Len(call) - 1 : d[i] = call[i + 1]
      /\ Head(call) = call[1]
  BY TailIs DEF TypeInv
<1>. HIDE DEF d
<1>. SUFFICES ASSUME NEW i \in DOMAIN d, NEW do, do = d[i].do, NEW k, k = d[i].key
              PROVE  /\ do = "add" => k \in Local \ listed
                     /\ do \in {"open", "opening"} =>
                          ~replaying /\ (k \in listed \cup Agents \/ (i > 1 /\ At(d, i - 1, {"add"}, k)))
                     /\ do \in {"detach", "forget"} => k \in listed
  BY DEF MeantInv, MeantAt, d
<1>2. i + 1 \in DOMAIN call /\ d[i] = call[i + 1] /\ (i + 1) - 1 = i /\ i \in 1 .. Len(call) - 1
  BY <1>1
<1>3. MeantAt(i + 1, do, k)
  BY <1>2 DEF CallInv, MeantInv
<1>4. \A dos, j : i > 1 /\ At(call, i, dos, j) => At(d, i - 1, dos, j)
  <2>1. i > 1 => i - 1 \in 1 .. Len(call) - 1 /\ (i - 1) + 1 = i
    BY <1>1
  <2>. QED
    BY <1>1, <2>1 DEF At
<1>5. At(call, i, {"add"}, k) => i > 1 /\ At(d, i - 1, {"add"}, k)
  <2>1. ASSUME At(call, i, {"add"}, k) PROVE i # 1
    BY <1>1, <2>1 DEF At
  <2>. QED
    BY <1>1, <1>4, <2>1
<1>. QED
  BY <1>2, <1>3, <1>5 DEF MeantAt

\* After these steps the next one asks for no source that is closed.
LEMMA PreparedStays ==
  ASSUME TypeInv, CallInv, call # <<>>, call' = Tail(call), Head(call).do \in {"reset", "arm", "forget"}
  PROVE  Prepared'
<1>1. call \in Seq(GuiStep) /\ WellFormed(call)
  BY DEF TypeInv, CallInv
<1>2. CASE Tail(call) = <<>>
  BY <1>2 DEF Prepared
<1>3. CASE Tail(call) # <<>>
  <2>1. Head(call').do \notin {"open", "opening", "detach", "forget", "closing"}
    BY <1>1, <1>3, NextHead
  <2>. QED
    BY <2>1 DEF Prepared
<1>. QED
  BY <1>2, <1>3

LEMMA NoForgetting ==
  ASSUME TypeInv, CallInv, call # <<>>, call' = Tail(call), Head(call).do # "detach"
  PROVE  \A k : ~HeadIs("forget", k)'
<1>1. call \in Seq(GuiStep) /\ WellFormed(call)
  BY DEF TypeInv, CallInv
<1>. QED
  BY <1>1, NextHead DEF HeadIs

LEMMA ManagedStays ==
  ASSUME ManagedInv, managed' = managed, listed' = listed,
         \A k : ~HeadIs("forget", k), \A k : ~HeadIs("forget", k)'
  PROVE  ManagedInv'
  BY DEF ManagedInv

-----------------------------------------------------------------------------
(* The steps that restart the rules *)

LEMMA RulesStep ==
  ASSUME Inv, call # <<>>, ~Invoking, Head(call).do \in {"reset", "arm"},
         GuiStepDone("nobody", <<>>),
         UNCHANGED <<sourceVars, io, queue, shown, replaying, subscribed, serving, eventCount>>,
         armed' \in SUBSET (Keys \cup {topic}),
         \A k \in Local \ listed : ~isOpen[k] => k \notin armed',
         \A k \in Keys : WatchInv(k)' /\ TopicInv(k)'
  PROVE  Inv'
<1>. USE DEF Inv, sourceVars
<1>1. /\ call' = Tail(call) /\ call' \in Seq(GuiStep) /\ waits' = "nobody"
      /\ WellFormed(call')
      /\ Head(call) = call[1]
      /\ \A dos, k : Calls(call', dos, k) => Calls(call, dos, k)
      /\ \A dos, k : Calls(call, dos, k) => At(call, 1, dos, k) \/ Calls(call', dos, k)
      /\ Dooming' => Dooming
  BY Consuming
<1>2. \A k \in Keys : IoInv(k) /\ MadeInv(k) /\ ShownInv(k)
  BY DEF KeyInv
<1>3. TypeInv'
  BY <1>1 DEF TypeInv
<1>4. CallInv'
  <2>1. Prepared' /\ MeantInv'
    BY <1>1, MeantStays, PreparedStays
  <2>. QED
    BY <1>1, <2>1 DEF CallInv
<1>5. ManagedInv'
  BY <1>1, NoForgetting, ManagedStays DEF HeadIs
<1>6. \A k \in Keys : Shut(k) => Shut(k)' /\ ~isOpen'[k]
  <2>. TAKE k \in Keys
  <2>. HAVE Shut(k)
  <2>. QED
    BY <1>2, ShutStays DEF Shut
<1>7. ReplayInv'
  <2>1. \A k : ~At(call, 1, {"close", "closing"}, k)
    BY <1>1 DEF At
  <2>. QED
    BY <1>1, <1>6, <2>1 DEF ReplayInv
<1>8. UnlistedInv'
  <2>. SUFFICES ASSUME NEW k \in Local \ listed PROVE Shut(k)' /\ ~isOpen'[k] /\ k \notin armed'
    BY DEF UnlistedInv
  <2>1. k \in Keys /\ Shut(k) /\ ~isOpen[k]
    BY DEF UnlistedInv, Local
  <2>. QED
    BY <1>6, <2>1
<1>9. ASSUME NEW k \in Keys PROVE KeyInv(k)'
  <2>1. IoInv(k)'
    BY <1>2, IoStays
  <2>2. MadeInv(k)'
    BY <1>2, MadeStays DEF HeadIs
  <2>3. ShownInv(k)'
    <3>1. ~At(call, 1, {"open"}, k)
      BY <1>1 DEF At
    <3>2. Calls(call', {"open"}, k) <=> Calls(call, {"open"}, k)
      BY <1>1, <3>1
    <3>3. Tells(k, shown[k])' <=> Tells(k, shown[k])
      BY DEF Tells, IsUp
    <3>4. \A i \in DOMAIN queue : Tells(k, queue[i].state)' <=> Tells(k, queue[i].state)
      BY DEF Tells, IsUp
    <3>. QED
      BY <1>2, <3>2, <3>3, <3>4 DEF ShownInv
  <2>. QED
    BY <2>1, <2>2, <2>3 DEF KeyInv
<1>. QED
  BY <1>3, <1>4, <1>5, <1>7, <1>8, <1>9

LEMMA ResetRulesKeeps == Inv /\ ResetRules => Inv'
<1>. SUFFICES ASSUME Inv, ResetRules PROVE Inv'
  OBVIOUS
<1>. USE DEF Inv
<1>1. /\ call # <<>> /\ ~Invoking /\ Head(call).do = "reset" /\ armed' = {}
      /\ GuiStepDone("nobody", <<>>)
      /\ UNCHANGED <<sourceVars, io, queue, shown, replaying, subscribed, serving, eventCount>>
  BY DEF ResetRules, Ready
<1>2. /\ call' = Tail(call) /\ Head(call) = call[1]
      /\ \A dos, k : Calls(call, dos, k) => At(call, 1, dos, k) \/ Calls(call', dos, k)
  BY <1>1, Consuming
<1>3. ASSUME NEW k \in Keys, ~replaying, isOpen[k] PROVE Calls(call', {"arm"}, k)
  <2>1. call \in Seq(GuiStep) /\ WellFormed(call)
    BY DEF TypeInv, CallInv
  <2>2. Len(call) \in Nat \ {0} /\ DOMAIN call = 1 .. Len(call)
    BY <1>1, <2>1, TailIs
  <2>3. Len(call) # 1
    <3>. SUFFICES ASSUME Len(call) = 1 PROVE FALSE
      OBVIOUS
    <3>1. Dooming
      BY <1>1, <1>2 DEF Dooming
    <3>2. ~Calls(call, {"close", "closing"}, k)
      BY <1>1, <1>2, <2>2 DEF Calls, At
    <3>3. Shut(k)
      BY <3>1, <3>2 DEF ReplayInv
    <3>. QED
      BY <1>1, <1>3, <3>3, ShutIsClosed DEF KeyInv
  <2>4. \E n \in DOMAIN call : n > 1 /\ At(call, n, {"arm"}, k)
    BY <1>1, <1>2, <2>1, <2>2, <2>3 DEF WellFormed, WellFormedAt
  <2>5. Calls(call, {"arm"}, k) /\ ~At(call, 1, {"arm"}, k)
    BY <1>1, <1>2, <2>4 DEF Calls, At
  <2>. QED
    BY <1>2, <2>5
<1>4. \A k \in Keys : WatchInv(k)' /\ TopicInv(k)'
  BY <1>1, <1>3 DEF WatchInv, TopicInv, sourceVars
<1>. QED
  BY <1>1, <1>4, RulesStep

LEMMA ArmIfOpenKeeps == Inv /\ ArmIfOpen => Inv'
<1>. SUFFICES ASSUME Inv, ArmIfOpen PROVE Inv'
  OBVIOUS
<1>. USE DEF Inv
<1>. DEFINE h == Head(call).key
<1>1. /\ call # <<>> /\ ~Invoking /\ Head(call).do = "arm"
      /\ armed' = IF isOpen[h] /\ (h \in listed \/ Kind[h] = "agent") THEN armed \cup Watched(h) ELSE armed
      /\ GuiStepDone("nobody", <<>>)
      /\ UNCHANGED <<sourceVars, io, queue, shown, replaying, subscribed, serving, eventCount>>
  BY DEF ArmIfOpen, Ready, This
<1>2. /\ call' = Tail(call) /\ Head(call) = call[1] /\ Head(call) \in GuiStep
      /\ \A dos, k : Calls(call, dos, k) => At(call, 1, dos, k) \/ Calls(call', dos, k)
  BY <1>1, Consuming
<1>3. h \in Keys /\ Watched(h) \subseteq {h, topic} /\ h \in Watched(h)
  BY <1>2 DEF GuiStep, Watched
<1>4. armed \subseteq armed' /\ armed' \in SUBSET (Keys \cup {topic})
  BY <1>1, <1>3 DEF TypeInv
<1>5. \A k \in Local \ listed : ~isOpen[k] => k \notin armed'
  <2>. SUFFICES ASSUME NEW k \in Local \ listed, ~isOpen[k] PROVE k \notin armed'
    OBVIOUS
  <2>1. k \notin armed /\ k # topic
    BY KindAssumption DEF UnlistedInv, Local
  <2>. QED
    BY <1>1, <1>3, <2>1
<1>6. isOpen[h] => h \in listed \/ Kind[h] = "agent"
  BY <1>3 DEF UnlistedInv, Local
<1>7. ASSUME NEW k \in Keys PROVE WatchInv(k)' /\ TopicInv(k)'
  <2>1. WatchInv(k) /\ TopicInv(k)
    BY DEF KeyInv
  <2>2. Calls(call, {"arm"}, k) => k = h \/ Calls(call', {"arm"}, k)
    BY <1>2 DEF At
  <2>3. WatchInv(k)'
    BY <1>1, <1>3, <1>4, <1>6, <2>1, <2>2 DEF WatchInv, sourceVars
  <2>4. k \in Agents /\ k = h /\ isOpen[k] /\ subscribed => topic \in armed'
    BY <1>1, <1>6 DEF Watched, Agents, Local
  <2>5. TopicInv(k)'
    BY <1>1, <1>4, <2>1, <2>2, <2>4 DEF TopicInv, sourceVars, IsUp
  <2>. QED
    BY <2>3, <2>5
<1>. QED
  BY <1>1, <1>4, <1>5, <1>7, RulesStep
-----------------------------------------------------------------------------
(* The steps that add, close, open and remove a source *)

LEMMA WatchStays ==
  ASSUME NEW k, WatchInv(k), replaying' = replaying, isOpen' = isOpen, k \in armed => k \in armed',
         Brings(io[k], "arm") => Brings(io'[k], "arm"),
         Calls(call, {"arm"}, k) => Calls(call', {"arm"}, k)
  PROVE  WatchInv(k)'
  BY DEF WatchInv

LEMMA TopicStays ==
  ASSUME NEW k, TopicInv(k), replaying' = replaying, isOpen' = isOpen, subscribed' = subscribed,
         topic \in armed => topic \in armed', queue' = queue,
         Brings(io[k], "post") => Brings(io'[k], "post") /\ port'[k] = port[k],
         Calls(call, {"arm"}, k) => Calls(call', {"arm"}, k)
  PROVE  TopicInv(k)'
  BY DEF TopicInv, IsUp

LEMMA ShownStays ==
  ASSUME NEW k, ShownInv(k), k \in listed' \cap managed' => k \in listed \cap managed,
         Calls(call, {"open"}, k) => Calls(call', {"open"}, k),
         port'[k] = "open" <=> port[k] = "open", io'[k] = io[k], queue' = queue, shown'[k] = shown[k]
  PROVE  ShownInv(k)'
<1>1. \A state : Tells(k, state)' <=> Tells(k, state)
  BY DEF Tells, IsUp
<1>. QED
  BY <1>1 DEF ShownInv

LEMMA Apart == \A k \in Keys : (k \in Local <=> k \notin Agents) /\ k # topic /\ k # "nobody"
  BY KindAssumption, KeysAssumption DEF Local, Agents

\* The one step that is left after the head.
LEMMA LastStep ==
  ASSUME TypeInv, CallInv, call # <<>>, call' = Tail(call)
  PROVE  /\ Head(call).do = "add" =>
              call' # <<>> /\ Len(call') = 1 /\ At(call', 1, {"open"}, Head(call).key)
         /\ Head(call).do = "detach" =>
              call' # <<>> /\ Len(call') = 1 /\ At(call', 1, {"forget"}, Head(call).key)
         /\ Head(call).do \in {"open", "opening", "forget"} => call' = <<>> /\ Len(call) = 1
         /\ MeantAt(1, Head(call).do, Head(call).key)
         /\ call' # <<>> => Head(call') = call'[1] /\ MeantAt(2, Head(call').do, Head(call').key)
<1>1. /\ Len(call) \in Nat \ {0} /\ DOMAIN call = 1 .. Len(call) /\ Head(call) = call[1]
      /\ Len(call') = Len(call) - 1 /\ call' \in Seq(GuiStep)
      /\ \A i \in 1 .. Len(call) - 1 : call'[i] = call[i + 1]
      /\ call' # <<>> => Len(call) > 1 /\ Head(call') = call[2]
  BY TailIs DEF TypeInv
<1>2. WellFormedAt(call, 1, Head(call).do, Head(call).key) /\ MeantAt(1, Head(call).do, Head(call).key)
  BY <1>1 DEF CallInv, WellFormed, MeantInv
<1>3. Len(call) = 1 => call' = <<>>
  BY <1>1
<1>4. Len(call) = 2 => call' # <<>> /\ Len(call') = 1 /\ call'[1] = call[2]
  <2>. HAVE Len(call) = 2
  <2>1. Len(call') = 1 /\ 1 \in 1 .. Len(call) - 1 /\ 1 + 1 = 2
    BY <1>1
  <2>2. call'[1] = call[2]
    BY <1>1, <2>1
  <2>3. call' # <<>>
    BY <2>1
  <2>. QED
    BY <2>1, <2>2, <2>3
<1>5. call' # <<>> => MeantAt(2, Head(call').do, Head(call').key) /\ Head(call') = call'[1]
  BY <1>1 DEF CallInv, MeantInv
<1>6. 1 + 1 = 2
  OBVIOUS
<1>. QED
  BY <1>1, <1>2, <1>3, <1>4, <1>5, <1>6 DEF WellFormedAt, At

LEMMA AddKeeps == Inv /\ Add => Inv'
<1>. SUFFICES ASSUME Inv, Add PROVE Inv'
  OBVIOUS
<1>. USE DEF Inv
<1>. DEFINE h == Head(call).key
<1>1. /\ call # <<>> /\ ~Invoking /\ Head(call).do = "add"
      /\ managed' = managed \cup {h} /\ listed' = listed \cup {h}
      /\ shown' = [shown EXCEPT ![h] = "closed"]
      /\ GuiStepDone("nobody", <<>>)
      /\ UNCHANGED <<port, created, isOpen, io, queue, replaying, subscribed, serving, armed, eventCount>>
  BY DEF Add, Ready, This
<1>2. /\ call' = Tail(call) /\ call' \in Seq(GuiStep) /\ waits' = "nobody" /\ WellFormed(call')
      /\ Head(call) = call[1] /\ Head(call) \in GuiStep
      /\ \A dos, k : Calls(call', dos, k) => Calls(call, dos, k)
      /\ \A dos, k : Calls(call, dos, k) => At(call, 1, dos, k) \/ Calls(call', dos, k)
  BY <1>1, Consuming
<1>3. /\ call' # <<>> /\ Len(call') = 1 /\ At(call', 1, {"open"}, h)
      /\ MeantAt(1, "add", h) /\ Head(call') = call'[1] /\ MeantAt(2, Head(call').do, Head(call').key)
  BY <1>1, <1>2, LastStep
<1>4. /\ h \in Local \ listed /\ h \in Keys /\ Head(call').do = "open" /\ Head(call').key = h
      /\ ~replaying
  BY <1>3 DEF MeantAt, Local, At
<1>5. \A k \in Keys : KeyInv(k) /\ IoInv(k) /\ MadeInv(k) /\ WatchInv(k) /\ TopicInv(k) /\ ShownInv(k)
  BY DEF KeyInv
<1>6. \A k \in Keys : Shut(k) => Shut(k)' /\ ~isOpen'[k]
  BY <1>1, <1>5, ShutStays DEF Shut
<1>7. TypeInv'
  BY <1>1, <1>2, <1>4 DEF TypeInv, States
<1>8. CallInv'
  <2>1. Shut(h)'
    BY <1>4, <1>6 DEF UnlistedInv
  <2>2. Prepared'
    BY <1>4, <2>1 DEF Prepared
  <2>3. DOMAIN call' = {1}
    BY <1>2, <1>3
  <2>4. MeantInv'
    BY <1>1, <1>3, <1>4, <2>3 DEF MeantInv, MeantAt
  <2>. QED
    BY <1>2, <2>2, <2>4 DEF CallInv
<1>9. ManagedInv'
  <2>1. \A k : ~HeadIs("forget", k) /\ ~HeadIs("forget", k)'
    BY <1>1, <1>4 DEF HeadIs
  <2>. QED
    BY <1>1, <2>1 DEF ManagedInv
<1>10. ReplayInv'
  BY <1>1, <1>3, <1>4 DEF ReplayInv, Dooming
<1>11. UnlistedInv'
  <2>. SUFFICES ASSUME NEW k \in Local \ listed' PROVE Shut(k)' /\ ~isOpen'[k] /\ k \notin armed'
    BY DEF UnlistedInv
  <2>. k \in Keys /\ Shut(k) /\ k \notin armed
    BY <1>1 DEF UnlistedInv, Local
  <2>. QED
    BY <1>1, <1>6
<1>12. ASSUME NEW k \in Keys PROVE KeyInv(k)'
  <2>1. IoInv(k)' /\ MadeInv(k)'
    BY <1>1, <1>5, IoStays, MadeStays DEF HeadIs
  <2>2. Calls(call, {"arm"}, k) => Calls(call', {"arm"}, k)
    BY <1>1, <1>2 DEF At
  <2>3. WatchInv(k)' /\ TopicInv(k)'
    BY <1>1, <1>5, <2>2, WatchStays, TopicStays
  <2>4. ShownInv(k)'
    <3>1. CASE k = h
      <4>. Calls(call', {"open"}, k)
        BY <1>2, <1>3, <3>1 DEF Calls
      <4>. QED
        BY DEF ShownInv
    <3>2. CASE k # h
      <4>1. Calls(call, {"open"}, k) => Calls(call', {"open"}, k)
        BY <1>1, <1>2 DEF At
      <4>2. shown'[k] = shown[k] /\ (k \in listed' \cap managed' => k \in listed \cap managed)
        BY <1>1, <1>4, <3>2 DEF TypeInv
      <4>. QED
        BY <1>1, <1>5, <4>1, <4>2, ShownStays
    <3>. QED
      BY <3>1, <3>2
  <2>. QED
    BY <2>1, <2>3, <2>4 DEF KeyInv
<1>. QED
  BY <1>7, <1>8, <1>9, <1>10, <1>11, <1>12

LEMMA DetachKeeps == Inv /\ Detach => Inv'
<1>. SUFFICES ASSUME Inv, Detach PROVE Inv'
  OBVIOUS
<1>. USE DEF Inv
<1>. DEFINE h == Head(call).key
<1>1. /\ call # <<>> /\ ~Invoking /\ Head(call).do = "detach" /\ managed' = managed \ {h}
      /\ GuiStepDone("nobody", <<>>)
      /\ UNCHANGED <<listed, port, created, isOpen, io, queue, shown, replaying, subscribed, serving,
                     armed, eventCount>>
  BY DEF Detach, Ready, This
<1>2. /\ call' = Tail(call) /\ call' \in Seq(GuiStep) /\ waits' = "nobody" /\ WellFormed(call')
      /\ Head(call) = call[1] /\ Head(call) \in GuiStep
      /\ \A dos, k : Calls(call', dos, k) => Calls(call, dos, k)
      /\ \A dos, k : Calls(call, dos, k) => At(call, 1, dos, k) \/ Calls(call', dos, k)
      /\ Dooming' => Dooming
  BY <1>1, Consuming
<1>3. /\ call' # <<>> /\ Len(call') = 1 /\ At(call', 1, {"forget"}, h)
      /\ MeantAt(1, "detach", h) /\ Head(call') = call'[1]
  BY <1>1, <1>2, LastStep
<1>4. h \in listed /\ h \in Local /\ h \in Keys /\ Head(call').do = "forget" /\ Head(call').key = h
  BY <1>3 DEF MeantAt, Local, At, TypeInv
<1>5. \A k \in Keys : KeyInv(k) /\ IoInv(k) /\ MadeInv(k) /\ WatchInv(k) /\ TopicInv(k) /\ ShownInv(k)
  BY DEF KeyInv
<1>6. \A k \in Keys : Shut(k) => Shut(k)' /\ ~isOpen'[k]
  BY <1>1, <1>5, ShutStays DEF Shut
<1>7. TypeInv'
  BY <1>1, <1>2 DEF TypeInv
<1>8. CallInv'
  <2>1. Shut(h)'
    BY <1>1, <1>4, <1>6 DEF CallInv, Prepared
  <2>2. Prepared'
    BY <1>4, <2>1 DEF Prepared
  <2>3. MeantInv'
    BY <1>1, <1>2, MeantStays
  <2>. QED
    BY <1>2, <2>2, <2>3 DEF CallInv
<1>9. ManagedInv'
  <2>1. \A k : ~HeadIs("forget", k) /\ (HeadIs("forget", k)' <=> k = h)
    BY <1>1, <1>3, <1>4 DEF HeadIs
  <2>. QED
    BY <1>1, <1>4, <2>1 DEF ManagedInv
<1>10. ReplayInv'
  <2>1. \A k : ~At(call, 1, {"close", "closing"}, k)
    BY <1>1, <1>2 DEF At
  <2>. QED
    BY <1>2, <1>6, <2>1 DEF ReplayInv
<1>11. UnlistedInv'
  <2>. SUFFICES ASSUME NEW k \in Local \ listed' PROVE Shut(k)' /\ ~isOpen'[k] /\ k \notin armed'
    BY DEF UnlistedInv
  <2>. k \in Keys /\ Shut(k) /\ k \notin armed
    BY <1>1 DEF UnlistedInv, Local
  <2>. QED
    BY <1>1, <1>6
<1>12. ASSUME NEW k \in Keys PROVE KeyInv(k)'
  <2>1. IoInv(k)' /\ MadeInv(k)'
    BY <1>1, <1>5, IoStays, MadeStays DEF HeadIs
  <2>2. /\ Calls(call, {"arm"}, k) => Calls(call', {"arm"}, k)
        /\ Calls(call, {"open"}, k) => Calls(call', {"open"}, k)
    BY <1>1, <1>2 DEF At
  <2>3. WatchInv(k)' /\ TopicInv(k)'
    BY <1>1, <1>5, <2>2, WatchStays, TopicStays
  <2>4. ShownInv(k)'
    BY <1>1, <1>5, <2>2, ShownStays
  <2>. QED
    BY <2>1, <2>3, <2>4 DEF KeyInv
<1>. QED
  BY <1>7, <1>8, <1>9, <1>10, <1>11, <1>12

LEMMA ForgetKeeps == Inv /\ Forget => Inv'
<1>. SUFFICES ASSUME Inv, Forget PROVE Inv'
  OBVIOUS
<1>. USE DEF Inv
<1>. DEFINE h == Head(call).key
<1>1. /\ call # <<>> /\ ~Invoking /\ Head(call).do = "forget" /\ listed' = listed \ {h}
      /\ shown' = [shown EXCEPT ![h] = "closed"] /\ armed' = armed \ {h}
      /\ GuiStepDone("nobody", <<>>)
      /\ UNCHANGED <<managed, port, created, isOpen, io, queue, replaying, subscribed, serving, eventCount>>
  BY DEF Forget, Ready, This
<1>2. /\ call' = Tail(call) /\ call' \in Seq(GuiStep) /\ waits' = "nobody" /\ WellFormed(call')
      /\ Head(call) = call[1] /\ Head(call) \in GuiStep
      /\ \A dos, k : Calls(call', dos, k) => Calls(call, dos, k)
      /\ \A dos, k : Calls(call, dos, k) => At(call, 1, dos, k) \/ Calls(call', dos, k)
      /\ Dooming' => Dooming
  BY <1>1, Consuming
<1>3. call' = <<>> /\ MeantAt(1, "forget", h)
  BY <1>1, <1>2, LastStep
<1>4. h \in listed /\ h \in Local /\ h \in Keys
  BY <1>3 DEF MeantAt, Local, TypeInv
<1>5. \A k \in Keys : KeyInv(k) /\ IoInv(k) /\ MadeInv(k) /\ WatchInv(k) /\ TopicInv(k) /\ ShownInv(k)
  BY DEF KeyInv
<1>6. \A k \in Keys : Shut(k) => Shut(k)' /\ ~isOpen'[k]
  BY <1>1, <1>5, ShutStays DEF Shut
<1>7. TypeInv'
  BY <1>1, <1>2, <1>4 DEF TypeInv, States
<1>8. CallInv'
  BY <1>2, <1>3 DEF CallInv, Prepared, MeantInv
<1>9. ManagedInv'
  <2>1. \A k : (HeadIs("forget", k) <=> k = h) /\ ~HeadIs("forget", k)'
    BY <1>1, <1>3 DEF HeadIs
  <2>. QED
    BY <1>1, <1>4, <2>1, Apart DEF ManagedInv
<1>10. ReplayInv'
  <2>1. \A k : ~At(call, 1, {"close", "closing"}, k)
    BY <1>1, <1>2 DEF At
  <2>. QED
    BY <1>2, <1>6, <2>1 DEF ReplayInv
<1>11. Shut(h)
  BY <1>1 DEF CallInv, Prepared
<1>12. UnlistedInv'
  <2>. SUFFICES ASSUME NEW k \in Local \ listed' PROVE Shut(k)' /\ ~isOpen'[k] /\ k \notin armed'
    BY DEF UnlistedInv
  <2>. k \in Keys /\ Shut(k) /\ (k = h \/ k \notin armed)
    BY <1>1, <1>11 DEF UnlistedInv, Local
  <2>. QED
    BY <1>1, <1>6
<1>13. ASSUME NEW k \in Keys PROVE KeyInv(k)'
  <2>1. IoInv(k)' /\ MadeInv(k)'
    BY <1>1, <1>5, IoStays, MadeStays DEF HeadIs
  <2>2. /\ Calls(call, {"arm"}, k) => Calls(call', {"arm"}, k)
        /\ Calls(call, {"open"}, k) => Calls(call', {"open"}, k)
    BY <1>1, <1>2 DEF At
  <2>3. ~isOpen[h] /\ h # topic
    BY <1>1, <1>4, <1>5, <1>11, ShutIsClosed, Apart
  <2>4. TopicInv(k)'
    BY <1>1, <1>5, <2>2, <2>3, TopicStays
  <2>5. WatchInv(k)'
    <3>1. CASE k = h
      BY <1>1, <2>3, <3>1 DEF WatchInv
    <3>2. CASE k # h
      BY <1>1, <1>5, <2>2, <3>2, WatchStays
    <3>. QED
      BY <3>1, <3>2
  <2>6. ShownInv(k)'
    <3>1. CASE k = h
      BY <1>1, <3>1 DEF ShownInv
    <3>2. CASE k # h
      <4>. shown'[k] = shown[k]
        BY <1>1, <3>2 DEF TypeInv
      <4>. QED
        BY <1>1, <1>5, <2>2, ShownStays
    <3>. QED
      BY <3>1, <3>2
  <2>. QED
    BY <2>1, <2>4, <2>5, <2>6 DEF KeyInv
<1>. QED
  BY <1>7, <1>8, <1>9, <1>10, <1>12, <1>13

\* A step that goes on in a second one keeps the rest of the call as it is.
LEMMA Replacing ==
  ASSUME TypeInv, CallInv, call # <<>>, NEW do, NEW w, NEW h, h = Head(call).key,
         \/ Head(call).do = "close" /\ do = "closing"
         \/ Head(call).do = "open" /\ do = "opening" /\ h \in listed \cup Agents /\ ~replaying,
         GuiStepDone(w, <<Do(do, h)>>),
         listed' = listed, replaying' = replaying
  PROVE  /\ call' \in Seq(GuiStep) /\ waits' = w /\ WellFormed(call') /\ MeantInv'
         /\ Head(call) = call[1] /\ Head(call) \in GuiStep
         /\ call' # <<>> /\ Head(call').do = do /\ Head(call').key = h
         /\ \A dos, k : Calls(call', dos, k) <=> (do \in dos /\ k = h) \/ Calls(Tail(call), dos, k)
         /\ \A dos, k : Calls(call, dos, k) <=> At(call, 1, dos, k) \/ Calls(Tail(call), dos, k)
         /\ Len(call') = Len(call) /\ call'[1].do = do
         /\ Dooming' => Dooming
<1>. DEFINE x == Do(do, h)
<1>1. /\ Len(call) \in Nat \ {0} /\ DOMAIN call = 1 .. Len(call)
      /\ Head(call) = call[1] /\ Head(call) \in GuiStep /\ call \in Seq(GuiStep) /\ WellFormed(call)
  BY TailIs DEF TypeInv, CallInv
<1>2. h \in Keys /\ x \in GuiStep /\ x.do = do /\ x.key = h
  BY <1>1, DoIsStep DEF GuiStep
<1>3. call' = <<x>> \o Tail(call) /\ waits' = w
  BY DEF GuiStepDone
<1>4. /\ call' \in Seq(GuiStep) /\ Len(call') = Len(call) /\ DOMAIN call' = 1 .. Len(call)
      /\ call'[1] = x /\ Head(call') = x /\ call' # <<>>
      /\ \A i \in 2 .. Len(call) : call'[i] = call[i]
  BY <1>1, <1>2, <1>3, ReplacedIs
<1>5. WellFormed(call')
  <2>1. /\ Head(call).key = h
        /\ (Head(call).do = "close" /\ do = "closing") \/ (Head(call).do = "open" /\ do = "opening")
    OBVIOUS
  <2>2. WellFormed(<<Do(do, h)>> \o Tail(call))
    BY <1>1, <1>2, <2>1, ReplacedWellFormed
  <2>. QED
    BY <1>3, <2>2
<1>6. MeantInv'
  <2>. SUFFICES ASSUME NEW i \in DOMAIN call', NEW a, a = call'[i].do, NEW k, k = call'[i].key
                PROVE  /\ a = "add" => k \in Local \ listed
                       /\ a \in {"open", "opening"} =>
                            ~replaying /\ (k \in listed \cup Agents \/ (i > 1 /\ At(call', i - 1, {"add"}, k)))
                       /\ a \in {"detach", "forget"} => k \in listed
    BY DEF MeantInv, MeantAt
  <2>1. CASE i = 1
    BY <1>2, <1>4, <2>1
  <2>2. CASE i > 1
    <3>1. a = call[i].do /\ k = call[i].key /\ i \in DOMAIN call
      BY <1>1, <1>4, <2>2
    <3>2. MeantAt(i, a, k)
      BY <3>1 DEF CallInv, MeantInv
    <3>3. At(call, i - 1, {"add"}, k) => At(call', i - 1, {"add"}, k)
      <4>1. i - 1 = 1 \/ i - 1 \in 2 .. Len(call)
        BY <1>1, <2>2, <3>1
      <4>2. ~At(call, 1, {"add"}, k)
        BY <1>1 DEF At
      <4>. QED
        BY <1>4, <4>1, <4>2 DEF At
    <3>. QED
      BY <2>2, <3>2, <3>3 DEF MeantAt
  <2>. QED
    BY <1>4, <2>1, <2>2
<1>7. \A dos, k : /\ Calls(call, dos, k) <=> At(call, 1, dos, k) \/ Calls(Tail(call), dos, k)
                  /\ Calls(call', dos, k) <=> (do \in dos /\ k = h) \/ Calls(Tail(call), dos, k)
  BY <1>1, <1>2, <1>3, CallsLeft
<1>8. Dooming' => Dooming
  <2>. SUFFICES ASSUME ~replaying, call'[Len(call')].do = "reset" PROVE Dooming
    BY DEF Dooming
  <2>1. Len(call) # 1
    BY <1>2, <1>4
  <2>2. Len(call) \in 2 .. Len(call)
    BY <1>1, <2>1
  <2>. QED
    BY <1>4, <2>2 DEF Dooming
<1>. HIDE DEF x
<1>9. call'[1].do = do /\ Head(call').do = do /\ Head(call').key = h
  BY <1>2, <1>4
<1>. QED
  BY <1>1, <1>3, <1>4, <1>5, <1>6, <1>7, <1>8, <1>9

LEMMA ShutIsMade ==
  ASSUME NEW k, Shut(k) PROVE MadeInv(k)
  BY DEF Shut, MadeInv, IsUp

LEMMA CloseSourceKeeps == Inv /\ CloseSource => Inv'
<1>. SUFFICES ASSUME Inv, CloseSource PROVE Inv'
  OBVIOUS
<1>. USE DEF Inv
<1>0. Head(call) \in GuiStep /\ Head(call) = call[1] /\ call # <<>>
  BY TailIs DEF TypeInv, CloseSource, Ready
<1>. PICK h \in Keys : h = Head(call).key
  BY <1>0 DEF GuiStep
<1>1. /\ call # <<>> /\ ~Invoking /\ Head(call).do = "close"
      /\ created' = [created EXCEPT ![h] = FALSE]
      /\ GuiStepDone("nobody", IF ToClose(h) THEN <<Do("closing", h)>> ELSE <<>>)
      /\ UNCHANGED <<listed, managed, port, isOpen, io, queue, shown, replaying, subscribed, serving, armed, eventCount>>
  BY DEF CloseSource, Ready, This
<1>2. Head(call) = call[1] /\ call \in Seq(GuiStep) /\ WellFormed(call)
  BY <1>0 DEF TypeInv, CallInv
<1>3. \A k \in Keys : KeyInv(k) /\ IoInv(k) /\ MadeInv(k) /\ WatchInv(k) /\ TopicInv(k) /\ ShownInv(k)
  BY DEF KeyInv
<1>4. \A k \in Keys : Shut(k) => Shut(k)' /\ ~isOpen'[k]
  BY <1>1, <1>3, ShutStays DEF Shut
<1>5. ~ToClose(h) => Shut(h)
  <2>1. CASE Kind[h] = "serial"
    BY <1>1, <1>2, <1>3, <2>1, Settled DEF ToClose, MadeInv, Shut, IoInv, IsUp, TypeInv
  <2>2. CASE Kind[h] # "serial"
    BY <1>1, <1>2, <1>3, <2>2 DEF ToClose, MadeInv, HeadIs
  <2>. QED
    BY <2>1, <2>2
<1>6. UnlistedInv'
  <2>. SUFFICES ASSUME NEW k \in Local \ listed' PROVE Shut(k)' /\ ~isOpen'[k] /\ k \notin armed'
    BY DEF UnlistedInv
  <2>. k \in Keys /\ Shut(k) /\ k \notin armed
    BY <1>1 DEF UnlistedInv, Local
  <2>. QED
    BY <1>1, <1>4
<1>7. \A k : ~HeadIs("forget", k) /\ ~HeadIs("closing", k)
  BY <1>1 DEF HeadIs
<1>8. \A dos, k : (dos = {"arm"} \/ dos = {"open"}) => ~At(call, 1, dos, k)
  BY <1>1, <1>2 DEF At
<1>9. \A k : At(call, 1, {"close", "closing"}, k) => k = h
  BY <1>1, <1>2 DEF At
<1>10. CASE ~ToClose(h)
  <2>1. /\ call' = Tail(call) /\ call' \in Seq(GuiStep) /\ waits' = "nobody" /\ WellFormed(call')
        /\ \A dos, k : Calls(call', dos, k) => Calls(call, dos, k)
        /\ \A dos, k : Calls(call, dos, k) => At(call, 1, dos, k) \/ Calls(call', dos, k)
        /\ Dooming' => Dooming
    <3>. GuiStepDone("nobody", <<>>)
      BY <1>1, <1>10
    <3>. QED
      BY <1>1, Consuming
  <2>2. TypeInv'
    BY <1>1, <1>2, <2>1 DEF TypeInv
  <2>3. CallInv'
    <3>1. MeantInv'
      BY <1>1, <2>1, MeantStays
    <3>2. Prepared'
      <4>1. CASE call' = <<>>
        BY <4>1 DEF Prepared
      <4>2. CASE call' # <<>>
        <5>1. Head(call').do \in {"open", "opening", "detach", "forget"} => Head(call').key = h
          BY <1>1, <1>2, <2>1, <4>2, NextHead
        <5>2. Shut(h)'
          BY <1>2, <1>4, <1>5, <1>10
        <5>. QED
          BY <5>1, <5>2 DEF Prepared
      <4>. QED
        BY <4>1, <4>2
    <3>. QED
      BY <2>1, <3>1, <3>2 DEF CallInv
  <2>4. ManagedInv'
    BY <1>1, <1>7, <2>1, NoForgetting, ManagedStays
  <2>5. ReplayInv'
    BY <1>4, <1>5, <1>9, <1>10, <2>1 DEF ReplayInv
  <2>6. ASSUME NEW k \in Keys PROVE KeyInv(k)'
    <3>1. IoInv(k)'
      BY <1>1, <1>3, IoStays
    <3>2. MadeInv(k)'
      <4>1. CASE k = h
        <5>. Shut(k)'
          BY <1>4, <1>5, <1>10, <4>1
        <5>. QED
          BY DEF Shut, MadeInv, IsUp
      <4>2. CASE k # h
        <5>. created'[k] = created[k]
          BY <1>1, <4>2 DEF TypeInv
        <5>. QED
          BY <1>1, <1>3, <1>7, MadeStays
      <4>. QED
        BY <4>1, <4>2
    <3>3. /\ Calls(call, {"arm"}, k) => Calls(call', {"arm"}, k)
          /\ Calls(call, {"open"}, k) => Calls(call', {"open"}, k)
      BY <1>8, <2>1
    <3>4. WatchInv(k)' /\ TopicInv(k)' /\ ShownInv(k)'
      BY <1>1, <1>3, <3>3, WatchStays, TopicStays, ShownStays
    <3>. QED
      BY <3>1, <3>2, <3>4 DEF KeyInv
  <2>. QED
    BY <1>6, <2>2, <2>3, <2>4, <2>5, <2>6
<1>11. CASE ToClose(h)
  <2>1. /\ call' \in Seq(GuiStep) /\ waits' = "nobody" /\ WellFormed(call') /\ MeantInv'
        /\ call' # <<>> /\ Head(call').do = "closing" /\ Head(call').key = h
        /\ \A dos, k : Calls(call', dos, k) <=> ("closing" \in dos /\ k = h) \/ Calls(Tail(call), dos, k)
        /\ \A dos, k : Calls(call, dos, k) <=> At(call, 1, dos, k) \/ Calls(Tail(call), dos, k)
        /\ Dooming' => Dooming
    <3>1. GuiStepDone("nobody", <<Do("closing", h)>>) /\ h = Head(call).key
      BY <1>1, <1>11
    <3>2. TypeInv /\ CallInv /\ call # <<>> /\ listed' = listed /\ replaying' = replaying
      BY <1>1
    <3>3. Head(call).do = "close"
      BY <1>1
    <3>. QED
      BY <3>1, <3>2, <3>3, Replacing
  <2>2. TypeInv'
    BY <1>1, <1>2, <2>1 DEF TypeInv
  <2>3. CallInv'
    <3>1. Prepared'
      BY <2>1 DEF Prepared
    <3>. QED
      BY <2>1, <3>1 DEF CallInv
  <2>4. ManagedInv'
    <3>1. \A k : ~HeadIs("forget", k)'
      BY <2>1 DEF HeadIs
    <3>. QED
      BY <1>1, <1>7, <3>1, ManagedStays
  <2>5. ReplayInv'
    BY <1>4, <1>9, <2>1 DEF ReplayInv
  <2>6. ASSUME NEW k \in Keys PROVE KeyInv(k)'
    <3>1. IoInv(k)'
      BY <1>1, <1>3, IoStays
    <3>2. MadeInv(k)'
      <4>1. CASE k = h /\ Kind[k] # "serial"
        BY <2>1, <4>1 DEF MadeInv, HeadIs
      <4>2. CASE k # h \/ Kind[k] = "serial"
        <5>. Kind[k] = "serial" \/ created'[k] = created[k]
          BY <1>1, <4>2 DEF TypeInv
        <5>. QED
          BY <1>1, <1>3, <1>7, MadeStays
      <4>. QED
        BY <4>1, <4>2
    <3>3. /\ Calls(call, {"arm"}, k) => Calls(call', {"arm"}, k)
          /\ Calls(call, {"open"}, k) => Calls(call', {"open"}, k)
      BY <1>8, <2>1
    <3>4. WatchInv(k)' /\ TopicInv(k)' /\ ShownInv(k)'
      BY <1>1, <1>3, <3>3, WatchStays, TopicStays, ShownStays
    <3>. QED
      BY <3>1, <3>2, <3>4 DEF KeyInv
  <2>. QED
    BY <1>6, <2>1, <2>2, <2>3, <2>4, <2>5, <2>6
<1>. QED
  BY <1>10, <1>11

LEMMA ClosingKeeps == Inv /\ Closing => Inv'
<1>. SUFFICES ASSUME Inv, Closing PROVE Inv'
  OBVIOUS
<1>. USE DEF Inv
<1>0. Head(call) \in GuiStep /\ Head(call) = call[1] /\ call # <<>>
  BY TailIs DEF TypeInv, Closing, Ready
<1>. PICK h \in Keys : h = Head(call).key
  BY <1>0 DEF GuiStep
<1>. DEFINE list == IF Kind[h] = "serial" /\ port[h] = "none" THEN Publishing("closed")
                      ELSE Publishing("closing") \o Publishing("closed")
<1>1. /\ ~Invoking /\ Head(call).do = "closing" /\ io[h] = <<>>
      /\ port' = [port EXCEPT ![h] = "none"] /\ io' = [io EXCEPT ![h] = list]
      /\ GuiStepDone(h, <<>>)
      /\ UNCHANGED <<listed, managed, created, isOpen, queue, shown, replaying, subscribed, serving, armed, eventCount>>
  BY DEF Closing, Ready, This, Invoked
<1>2. /\ call' = Tail(call) /\ call' \in Seq(GuiStep) /\ waits' = h /\ WellFormed(call')
      /\ \A dos, k : Calls(call', dos, k) => Calls(call, dos, k)
      /\ \A dos, k : Calls(call, dos, k) => At(call, 1, dos, k) \/ Calls(call', dos, k)
      /\ Dooming' => Dooming
  BY <1>0, <1>1, Consuming
<1>3. list \in Seq(Step) /\ Agrees(list, FALSE) /\ Brings(list, "store") /\ Brings(list, "post")
  <2>1. /\ "closed" \in States /\ "closing" \in States /\ ("closed" = "open") = FALSE /\ ("closing" = "open") = FALSE
    BY DEF States
  <2>2. /\ Publishing("closed") \in Seq(Step) /\ Agrees(Publishing("closed"), FALSE) /\ Publishing("closed") # <<>>
        /\ Brings(Publishing("closed"), "store") /\ Brings(Publishing("closed"), "post")
        /\ Publishing("closing") \in Seq(Step) /\ Agrees(Publishing("closing"), FALSE)
    BY <2>1, PublishingAgrees
  <2>. QED
    BY <2>2, PublishingBoth
<1>. HIDE DEF list
<1>4. /\ port'[h] = "none" /\ io'[h] = list
      /\ \A k \in Keys \ {h} : port'[k] = port[k] /\ io'[k] = io[k]
  BY <1>1 DEF TypeInv
<1>5. \A k \in Keys : KeyInv(k) /\ IoInv(k) /\ MadeInv(k) /\ WatchInv(k) /\ TopicInv(k) /\ ShownInv(k)
  BY DEF KeyInv
<1>6. \A k \in Keys : Shut(k) => ~isOpen'[k]
  BY <1>1, <1>5, ShutIsClosed
<1>7. \A k \in Keys : Shut(k) => Shut(k)'
  BY <1>4, <1>6 DEF Shut
<1>8. port'[h] = "none" /\ waits' = h
  BY <1>2, <1>4
<1>9. \A k \in Keys : k = h => Shut(k)'
  BY <1>8 DEF Shut
<1>10. TypeInv'
  BY <1>1, <1>2, <1>3 DEF TypeInv
<1>11. CallInv'
  <2>1. MeantInv'
    BY <1>0, <1>1, <1>2, MeantStays
  <2>2. Prepared'
    <3>1. CASE call' = <<>>
      BY <3>1 DEF Prepared
    <3>2. CASE call' # <<>>
      <4>1. Head(call').do \in {"open", "opening", "detach", "forget"} => Head(call').key = h
        <5>. call \in Seq(GuiStep) /\ WellFormed(call)
          BY DEF TypeInv, CallInv
        <5>. QED
          BY <1>0, <1>1, <1>2, <3>2, NextHead
      <4>. QED
        BY <1>8, <4>1 DEF Prepared, Shut
    <3>. QED
      BY <3>1, <3>2
  <2>. QED
    BY <1>2, <2>1, <2>2 DEF CallInv
<1>12. ManagedInv'
  <2>1. \A k : ~HeadIs("forget", k)
    BY <1>1 DEF HeadIs
  <2>. QED
    BY <1>0, <1>1, <1>2, <2>1, NoForgetting, ManagedStays
<1>13. ReplayInv'
  <2>1. \A k : At(call, 1, {"close", "closing"}, k) => k = h
    BY <1>0 DEF At
  <2>. QED
    BY <1>2, <1>7, <1>9, <2>1 DEF ReplayInv
<1>14. UnlistedInv'
  <2>. SUFFICES ASSUME NEW k \in Local \ listed' PROVE Shut(k)' /\ ~isOpen'[k] /\ k \notin armed'
    BY DEF UnlistedInv
  <2>. k \in Keys /\ Shut(k) /\ k \notin armed
    BY <1>1 DEF UnlistedInv, Local
  <2>. QED
    BY <1>1, <1>6, <1>7
<1>15. ASSUME NEW k \in Keys PROVE KeyInv(k)'
  <2>1. /\ Calls(call, {"arm"}, k) => Calls(call', {"arm"}, k)
        /\ Calls(call, {"open"}, k) => Calls(call', {"open"}, k)
    BY <1>0, <1>1, <1>2 DEF At
  <2>2. ~Brings(io[h], "arm") /\ ~Brings(io[h], "post")
    BY <1>1 DEF Brings
  <2>3. WatchInv(k)'
    BY <1>1, <1>4, <1>5, <2>1, <2>2, WatchStays
  <2>4. TopicInv(k)'
    BY <1>1, <1>4, <1>5, <2>1, <2>2, TopicStays
  <2>5. CASE k = h
    <3>1. IoInv(k)'
      BY <1>3, <1>4, <2>5 DEF IoInv, IsUp
    <3>2. MadeInv(k)'
      BY <1>8, <2>5 DEF MadeInv, Shut, IsUp
    <3>3. ShownInv(k)'
      BY <1>3, <1>4, <2>5 DEF ShownInv
    <3>. QED
      BY <2>3, <2>4, <3>1, <3>2, <3>3 DEF KeyInv
  <2>6. CASE k # h
    <3>1. port'[k] = port[k] /\ io'[k] = io[k] /\ ~HeadIs("closing", k)
      BY <1>4, <2>6 DEF HeadIs
    <3>2. IoInv(k)' /\ MadeInv(k)'
      BY <1>1, <1>5, <3>1, IoStays, MadeStays
    <3>3. ShownInv(k)'
      BY <1>1, <1>5, <2>1, <3>1, ShownStays
    <3>. QED
      BY <2>3, <2>4, <3>2, <3>3 DEF KeyInv
  <2>. QED
    BY <2>5, <2>6
<1>. QED
  BY <1>10, <1>11, <1>12, <1>13, <1>14, <1>15

\* What is queued after one more state.
LEMMA Queueing ==
  ASSUME TypeInv, NEW k \in Keys, NEW s \in States, queue' = Append(queue, [key |-> k, state |-> s])
  PROVE  /\ queue' \in Seq([key : Keys, state : States])
         /\ \A i \in DOMAIN queue : i \in DOMAIN queue' /\ queue'[i] = queue[i]
         /\ LastQueued(queue', Len(queue) + 1, k) /\ Len(queue) + 1 \in DOMAIN queue'
         /\ queue'[Len(queue) + 1].key = k /\ queue'[Len(queue) + 1].state = s
         /\ \A j \in Keys \ {k} :
              /\ \A i \in DOMAIN queue : LastQueued(queue, i, j) => LastQueued(queue', i, j)
              /\ (\A i \in DOMAIN queue : queue[i].key # j) => \A i \in DOMAIN queue' : queue'[i].key # j
<1>. DEFINE e == [key |-> k, state |-> s]
<1>1. e \in [key : Keys, state : States] /\ e.key = k /\ e.state = s
  OBVIOUS
<1>. HIDE DEF e
<1>2. queue' = Append(queue, e) /\ queue \in Seq([key : Keys, state : States])
  BY DEF e, TypeInv
<1>3. /\ queue' \in Seq([key : Keys, state : States])
      /\ DOMAIN queue' = 1 .. Len(queue) + 1 /\ DOMAIN queue = 1 .. Len(queue) /\ Len(queue) \in Nat
      /\ \A i \in 1 .. Len(queue) : queue'[i] = queue[i]
      /\ queue'[Len(queue) + 1] = e
  BY <1>1, <1>2
<1>. QED
  BY <1>1, <1>3 DEF LastQueued

LEMMA OpenSourceKeeps == Inv /\ OpenSource => Inv'
<1>. SUFFICES ASSUME Inv, OpenSource PROVE Inv'
  OBVIOUS
<1>. USE DEF Inv
<1>0. Head(call) \in GuiStep /\ Head(call) = call[1] /\ call # <<>>
  BY TailIs DEF TypeInv, OpenSource, Ready
<1>. PICK h \in Keys : h = Head(call).key
  BY <1>0 DEF GuiStep
<1>1. /\ ~Invoking /\ Head(call).do = "open"
      /\ queue' = Posted(h, "opening") /\ created' = [created EXCEPT ![h] = FALSE]
      /\ GuiStepDone("nobody", <<Do("opening", h)>>)
      /\ UNCHANGED <<listed, managed, port, isOpen, io, shown, replaying, subscribed, serving, armed, eventCount>>
  BY DEF OpenSource, Ready, This
<1>2. Shut(h) /\ ~replaying /\ h \in listed \cup Agents /\ Len(call) = 1
  <2>1. WellFormedAt(call, 1, "open", h) /\ MeantAt(1, "open", h) /\ Len(call) \in Nat
    BY <1>0, <1>1, TailIs DEF CallInv, WellFormed, MeantInv, TypeInv
  <2>2. Shut(h)
    BY <1>0, <1>1 DEF CallInv, Prepared
  <2>. QED
    BY <2>1, <2>2 DEF WellFormedAt, MeantAt
<1>3. /\ call' \in Seq(GuiStep) /\ waits' = "nobody" /\ WellFormed(call') /\ MeantInv'
      /\ call' # <<>> /\ Head(call').do = "opening" /\ Head(call').key = h
      /\ \A dos, k : Calls(call', dos, k) <=> ("opening" \in dos /\ k = h) \/ Calls(Tail(call), dos, k)
      /\ \A dos, k : Calls(call, dos, k) <=> At(call, 1, dos, k) \/ Calls(Tail(call), dos, k)
      /\ Len(call') = Len(call) /\ call'[1].do = "opening"
  <2>1. GuiStepDone("nobody", <<Do("opening", h)>>) /\ h = Head(call).key /\ Head(call).do = "open"
    BY <1>1
  <2>2. TypeInv /\ CallInv /\ listed' = listed /\ replaying' = replaying
    BY <1>1
  <2>. QED
    BY <1>0, <1>2, <2>1, <2>2, Replacing
<1>4. \A k \in Keys : KeyInv(k) /\ IoInv(k) /\ MadeInv(k) /\ WatchInv(k) /\ TopicInv(k) /\ ShownInv(k)
  BY DEF KeyInv
<1>5. \A k \in Keys : Shut(k) => Shut(k)' /\ ~isOpen'[k]
  BY <1>1, <1>4, ShutStays DEF Shut
<1>6. h \in managed /\ \A k : ~HeadIs("forget", k) /\ ~HeadIs("closing", k)
  BY <1>1, <1>2 DEF ManagedInv, HeadIs
<1>7. queue' = Append(queue, [key |-> h, state |-> "opening"])
  BY <1>1, <1>6 DEF Posted
<1>8. /\ queue' \in Seq([key : Keys, state : States])
      /\ \A i \in DOMAIN queue : i \in DOMAIN queue' /\ queue'[i] = queue[i]
      /\ LastQueued(queue', Len(queue) + 1, h) /\ Len(queue) + 1 \in DOMAIN queue'
      /\ queue'[Len(queue) + 1].state = "opening"
      /\ \A j \in Keys \ {h} :
           /\ \A i \in DOMAIN queue : LastQueued(queue, i, j) => LastQueued(queue', i, j)
           /\ (\A i \in DOMAIN queue : queue[i].key # j) => \A i \in DOMAIN queue' : queue'[i].key # j
  <2>. "opening" \in States
    BY DEF States
  <2>. QED
    BY <1>7, Queueing
<1>9. TypeInv'
  BY <1>1, <1>3, <1>8 DEF TypeInv
<1>10. CallInv'
  <2>1. \A k \in Keys : k = h => Shut(k)'
    BY <1>2, <1>5
  <2>2. Prepared'
    BY <1>3, <2>1 DEF Prepared
  <2>. QED
    BY <1>3, <2>2 DEF CallInv
<1>11. ManagedInv'
  <2>1. \A k : ~HeadIs("forget", k)'
    BY <1>3 DEF HeadIs
  <2>. QED
    BY <1>1, <1>6, <2>1, ManagedStays
<1>12. ReplayInv'
  BY <1>1, <1>2, <1>3 DEF ReplayInv, Dooming
<1>13. UnlistedInv'
  <2>. SUFFICES ASSUME NEW k \in Local \ listed' PROVE Shut(k)' /\ ~isOpen'[k] /\ k \notin armed'
    BY DEF UnlistedInv
  <2>. k \in Keys /\ Shut(k) /\ k \notin armed
    BY <1>1 DEF UnlistedInv, Local
  <2>. QED
    BY <1>1, <1>5
<1>14. ASSUME NEW k \in Keys PROVE KeyInv(k)'
  <2>1. IoInv(k)'
    BY <1>1, <1>4, IoStays
  <2>2. MadeInv(k)'
    <3>1. CASE k = h
      <4>. Shut(k)'
        BY <1>2, <1>5, <3>1
      <4>. QED
        BY DEF Shut, MadeInv, IsUp
    <3>2. CASE k # h
      <4>. created'[k] = created[k]
        BY <1>1, <3>2 DEF TypeInv
      <4>. QED
        BY <1>1, <1>4, <1>6, MadeStays
    <3>. QED
      BY <3>1, <3>2
  <2>3. Calls(call, {"arm"}, k) => Calls(call', {"arm"}, k)
    BY <1>0, <1>1, <1>3 DEF At
  <2>4. WatchInv(k)'
    BY <1>1, <1>4, <2>3, WatchStays
  <2>5. TopicInv(k)'
    <3>1. TopicInv(k)
      BY <1>4
    <3>. QED
      BY <1>1, <1>8, <2>3, <3>1 DEF TopicInv, IsUp
  <2>6. ShownInv(k)'
    <3>1. \A state : Tells(k, state)' <=> Tells(k, state)
      BY <1>1 DEF Tells, IsUp
    <3>2. CASE k = h
      <4>1. ~IsUp(k)
        BY <1>2, <3>2 DEF Shut, IsUp
      <4>2. Tells(k, "opening")'
        BY <3>1, <4>1 DEF Tells
      <4>. QED
        BY <1>8, <3>2, <4>2 DEF ShownInv
    <3>3. CASE k # h
      <4>1. Calls(call, {"open"}, k) => Calls(call', {"open"}, k)
        BY <1>0, <1>3, <3>3 DEF At
      <4>2. k \in Keys \ {h} /\ ShownInv(k)
        BY <1>4, <3>3
      <4>. QED
        BY <1>1, <1>8, <3>1, <4>1, <4>2 DEF ShownInv
    <3>. QED
      BY <3>2, <3>3
  <2>. QED
    BY <2>1, <2>2, <2>4, <2>5, <2>6 DEF KeyInv
<1>. QED
  BY <1>9, <1>10, <1>11, <1>12, <1>13, <1>14

LEMMA OpeningKeeps == Inv /\ Opening => Inv'
<1>. SUFFICES ASSUME Inv, Opening PROVE Inv'
  OBVIOUS
<1>. USE DEF Inv
<1>0. Head(call) \in GuiStep /\ Head(call) = call[1] /\ call # <<>>
  BY TailIs DEF TypeInv, Opening, Ready
<1>. PICK h \in Keys : h = Head(call).key
  BY <1>0 DEF GuiStep
<1>. PICK state \in {"open", "error"} : Opened(h, state)
  BY DEF Opening, This
<1>. DEFINE up == state = "open" /\ Kind[h] = "serial"
            list == IF state = "error" \/ Kind[h] = "serial" THEN Publishing(state)
                      ELSE IF Kind[h] = "agent" THEN Publishing("opening") ELSE <<>>
<1>1. /\ ~Invoking /\ Head(call).do = "opening" /\ io[h] = <<>>
      /\ port' = [port EXCEPT ![h] = CASE state = "error" -> "none" [] up -> "open" [] OTHER -> "connecting"]
      /\ io' = [io EXCEPT ![h] = list]
      /\ created' = [created EXCEPT ![h] = Kind[h] # "serial" /\ state # "error"]
      /\ GuiStepDone(h, <<>>)
      /\ UNCHANGED <<listed, managed, isOpen, queue, shown, replaying, subscribed, serving, armed, eventCount>>
  BY DEF Opening, Opened, Ready, This, Invoked
<1>2. /\ call' = Tail(call) /\ call' \in Seq(GuiStep) /\ waits' = h /\ WellFormed(call')
      /\ \A dos, k : Calls(call, dos, k) => At(call, 1, dos, k) \/ Calls(call', dos, k)
  BY <1>0, <1>1, Consuming
<1>3. call' = <<>> /\ ~replaying /\ h \in listed \cup Agents
  BY <1>0, <1>1, <1>2, LastStep DEF MeantAt
<1>4. \A k \in Keys : KeyInv(k) /\ IoInv(k) /\ MadeInv(k) /\ WatchInv(k) /\ TopicInv(k) /\ ShownInv(k)
  BY DEF KeyInv
<1>5. port[h] = "none" /\ ~isOpen[h]
  <2>. Shut(h)
    BY <1>0, <1>1 DEF CallInv, Prepared
  <2>. QED
    BY <1>1, <1>4, ShutIsClosed
<1>6. /\ list \in Seq(Step) /\ Agrees(list, up)
      /\ list = <<>> \/ (Brings(list, "store") /\ Brings(list, "post"))
      /\ up => Brings(list, "store")
  <2>1. "open" \in States /\ "error" \in States /\ "opening" \in States
    BY DEF States
  <2>2. CASE state = "error" \/ Kind[h] = "serial"
    <3>1. (state = "open") = up
      BY <2>2
    <3>2. list = Publishing(state) /\ state \in States
      BY <2>1, <2>2
    <3>. HIDE DEF list, up
    <3>. QED
      BY <3>1, <3>2, PublishingAgrees
  <2>3. CASE ~(state = "error" \/ Kind[h] = "serial") /\ Kind[h] = "agent"
    <3>1. list = Publishing("opening") /\ up = FALSE /\ ("opening" = "open") = FALSE
      BY <2>3
    <3>. HIDE DEF list, up
    <3>. QED
      BY <2>1, <3>1, PublishingAgrees
  <2>4. CASE ~(state = "error" \/ Kind[h] = "serial") /\ Kind[h] # "agent"
    <3>1. list = <<>> /\ up = FALSE
      BY <2>4
    <3>2. <<>> \in Seq(Step) /\ Agrees(<<>>, up)
      BY DEF Agrees
    <3>. HIDE DEF list, up
    <3>. QED
      BY <3>1, <3>2
  <2>. QED
    BY <2>2, <2>3, <2>4
<1>7. /\ io'[h] = list /\ (port'[h] = "open" <=> up) /\ (Kind[h] = "serial" => port'[h] # "connecting")
      /\ state = "error" => port'[h] = "none"
      /\ \A k \in Keys \ {h} : port'[k] = port[k] /\ io'[k] = io[k] /\ created'[k] = created[k]
      /\ created'[h] = (Kind[h] # "serial" /\ state # "error")
  BY <1>1 DEF TypeInv
<1>8. TypeInv'
  <2>1. io' \in [Keys -> Seq(Step)]
    BY <1>1, <1>6 DEF TypeInv
  <2>2. port' \in [Keys -> {"none", "connecting", "open"}]
    BY <1>1 DEF TypeInv
  <2>. QED
    BY <1>1, <1>2, <2>1, <2>2 DEF TypeInv
<1>. HIDE DEF list
<1>9. CallInv'
  BY <1>2, <1>3 DEF CallInv, MeantInv, Prepared
<1>10. ManagedInv'
  <2>1. \A k : ~HeadIs("forget", k) /\ ~HeadIs("forget", k)'
    BY <1>1, <1>3 DEF HeadIs
  <2>. QED
    BY <1>1, <2>1, ManagedStays
<1>11. ReplayInv'
  BY <1>1, <1>3 DEF ReplayInv, Dooming
<1>12. \A k \in Keys \ {h} : Shut(k) => Shut(k)' /\ ~isOpen'[k]
  <2>. SUFFICES ASSUME NEW k \in Keys \ {h}, Shut(k) PROVE Shut(k)' /\ ~isOpen'[k]
    OBVIOUS
  <2>. port'[k] = "none"
    BY <1>7 DEF Shut
  <2>. QED
    BY <1>1, <1>4, ShutStays
<1>13. UnlistedInv'
  <2>. SUFFICES ASSUME NEW k \in Local \ listed' PROVE Shut(k)' /\ ~isOpen'[k] /\ k \notin armed'
    BY DEF UnlistedInv
  <2>. k \in Keys \ {h} /\ Shut(k) /\ k \notin armed
    BY <1>1, <1>3, Apart DEF UnlistedInv, Local
  <2>. QED
    BY <1>1, <1>12
<1>14. ASSUME NEW k \in Keys PROVE KeyInv(k)'
  <2>1. Calls(call, {"arm"}, k) => Calls(call', {"arm"}, k)
    BY <1>0, <1>1, <1>2 DEF At
  <2>2. CASE k = h
    <3>1. IoInv(k)'
      BY <1>1, <1>5, <1>6, <1>7, <2>2 DEF IoInv, IsUp
    <3>2. MadeInv(k)'
      BY <1>2, <1>7, <2>2 DEF MadeInv, Shut, IsUp
    <3>3. WatchInv(k)' /\ TopicInv(k)'
      BY <1>1, <1>5, <2>2 DEF WatchInv, TopicInv
    <3>4. ShownInv(k)'
      <4>1. CASE Brings(list, "post")
        BY <1>7, <2>2, <4>1 DEF ShownInv
      <4>2. CASE ~Brings(list, "post")
        <5>1. ~up /\ ~Brings(io[k], "post")
          BY <1>1, <1>6, <2>2, <4>2 DEF Brings
        <5>2. \A s : Tells(k, s)' <=> Tells(k, s)
          BY <1>5, <1>7, <2>2, <5>1 DEF Tells, IsUp
        <5>3. ~Calls(call, {"open"}, k)
          <6>1. ~Calls(call', {"open"}, k)
            BY <1>3 DEF Calls
          <6>2. ~At(call, 1, {"open"}, k)
            BY <1>0, <1>1 DEF At
          <6>. QED
            BY <1>2, <6>1, <6>2
        <5>. QED
          BY <1>1, <1>4, <5>1, <5>2, <5>3 DEF ShownInv
      <4>. QED
        BY <4>1, <4>2
    <3>. QED
      BY <3>1, <3>2, <3>3, <3>4 DEF KeyInv
  <2>3. CASE k # h
    <3>1. port'[k] = port[k] /\ io'[k] = io[k] /\ created'[k] = created[k] /\ ~HeadIs("closing", k)
      BY <1>1, <1>7, <2>3 DEF HeadIs
    <3>2. IoInv(k)' /\ MadeInv(k)'
      BY <1>1, <1>4, <3>1, IoStays, MadeStays
    <3>3. Calls(call, {"open"}, k) => Calls(call', {"open"}, k)
      BY <1>0, <1>1, <1>2 DEF At
    <3>4. WatchInv(k)' /\ TopicInv(k)' /\ ShownInv(k)'
      BY <1>1, <1>4, <2>1, <3>1, <3>3, WatchStays, TopicStays, ShownStays
    <3>. QED
      BY <3>2, <3>4 DEF KeyInv
  <2>. QED
    BY <2>2, <2>3
<1>. QED
  BY <1>8, <1>9, <1>10, <1>11, <1>13, <1>14

LEMMA DeliverKeeps == Inv /\ Deliver => Inv'
<1>. SUFFICES ASSUME Inv, Deliver PROVE Inv'
  OBVIOUS
<1>. USE DEF Inv
<1>0. queue # <<>> /\ queue \in Seq([key : Keys, state : States])
  BY DEF Deliver, TypeInv
<1>1. /\ Len(queue) \in Nat \ {0} /\ DOMAIN queue = 1 .. Len(queue) /\ Head(queue) = queue[1]
      /\ Head(queue) \in [key : Keys, state : States]
      /\ Tail(queue) \in Seq([key : Keys, state : States])
      /\ DOMAIN Tail(queue) = 1 .. Len(queue) - 1
      /\ \A i \in 1 .. Len(queue) - 1 : Tail(queue)[i] = queue[i + 1]
  <2>. DEFINE e == [key : Keys, state : States]
  <2>1. queue # <<>> /\ queue \in Seq(e)
    BY <1>0
  <2>. HIDE DEF e
  <2>2. Len(queue) \in Nat \ {0} /\ DOMAIN queue = 1 .. Len(queue) /\ Head(queue) = queue[1]
    BY <2>1
  <2>3. Head(queue) \in e /\ Tail(queue) \in Seq(e) /\ Len(Tail(queue)) = Len(queue) - 1
    BY <2>1
  <2>4. DOMAIN Tail(queue) = 1 .. Len(queue) - 1
    BY <2>2, <2>3
  <2>5. \A i \in 1 .. Len(queue) - 1 : Tail(queue)[i] = queue[i + 1]
    BY <2>1
  <2>. QED
    BY <2>2, <2>3, <2>4, <2>5 DEF e
<1>. PICK h \in Keys : h = Head(queue).key
  BY <1>1
<1>. PICK state \in States : state = Head(queue).state
  BY <1>1
<1>2. /\ call = <<>> /\ ~Invoking
      /\ shown' = IF h \in listed THEN [shown EXCEPT ![h] = state] ELSE shown
      /\ armed' = IF Kind[h] = "agent" /\ state = "open" /\ subscribed THEN armed \cup {topic} ELSE armed
      /\ queue' = Tail(queue)
      /\ UNCHANGED <<listed, managed, port, created, isOpen, io, call, waits, replaying, subscribed, serving, eventCount>>
  BY DEF Deliver, Idle, Shown, sourceVars
<1>3. \A k \in Keys : KeyInv(k) /\ IoInv(k) /\ MadeInv(k) /\ WatchInv(k) /\ TopicInv(k) /\ ShownInv(k)
  BY DEF KeyInv
<1>4. TypeInv'
  BY <1>1, <1>2 DEF TypeInv
<1>5. \A k : Shut(k)' <=> Shut(k)
  BY <1>2 DEF Shut
<1>6. CallInv' /\ ManagedInv' /\ ReplayInv'
  <2>1. MeantInv'
    BY <1>2 DEF MeantInv
  <2>2. WellFormed(call')
    BY <1>2 DEF CallInv
  <2>3. Prepared' /\ ManagedInv'
    BY <1>2 DEF Prepared, ManagedInv, HeadIs
  <2>4. ReplayInv'
    BY <1>2, <1>5 DEF ReplayInv, Dooming
  <2>. QED
    BY <2>1, <2>2, <2>3, <2>4 DEF CallInv
<1>7. UnlistedInv'
  <2>. SUFFICES ASSUME NEW k \in Local \ listed' PROVE Shut(k)' /\ ~isOpen'[k] /\ k \notin armed'
    BY DEF UnlistedInv
  <2>. k \in Keys /\ Shut(k) /\ ~isOpen[k] /\ k \notin armed /\ k # topic
    BY <1>2, Apart DEF UnlistedInv, Local
  <2>. QED
    BY <1>2, <1>5
<1>8. \A i \in DOMAIN queue : i = 1 \/ (i - 1 \in DOMAIN queue' /\ queue'[i - 1] = queue[i])
  BY <1>1, <1>2
<1>9. \A i \in DOMAIN queue' : i + 1 \in DOMAIN queue /\ queue'[i] = queue[i + 1] /\ i + 1 > 1
  BY <1>1, <1>2
<1>10. ASSUME NEW k \in Keys PROVE KeyInv(k)'
  <2>1. IoInv(k)'
    BY <1>2, <1>3, IoStays
  <2>2. MadeInv(k)'
    BY <1>2, <1>3 DEF MadeInv, Shut, IsUp, HeadIs
  <2>3. WatchInv(k)'
    BY <1>2, <1>3, WatchStays
  <2>4. TopicInv(k)'
    <3>. SUFFICES ASSUME k \in Agents, ~replaying, isOpen[k], subscribed, topic \notin armed'
                  PROVE  \/ Calls(call, {"arm"}, k)
                         \/ Brings(io[k], "post") /\ IsUp(k)
                         \/ \E i \in DOMAIN queue' : queue'[i].key = k /\ queue'[i].state = "open"
      BY <1>2 DEF TopicInv, IsUp
    <3>1. TopicInv(k) /\ topic \notin armed
      BY <1>2, <1>3
    <3>2. ASSUME NEW i \in DOMAIN queue, queue[i].key = k, queue[i].state = "open"
          PROVE  i # 1
      <4>. SUFFICES ASSUME i = 1 PROVE FALSE
        OBVIOUS
      <4>. h = k /\ state = "open" /\ Kind[h] = "agent"
        BY <1>1, <3>2 DEF Agents, Local
      <4>. QED
        BY <1>2
    <3>. QED
      BY <1>8, <3>1, <3>2 DEF TopicInv
  <2>5. ShownInv(k)'
    <3>. SUFFICES ASSUME k \in listed \cap managed, ~Calls(call, {"open"}, k), ~Brings(io[k], "post")
                  PROVE  \/ \E i \in DOMAIN queue' : LastQueued(queue', i, k) /\ Tells(k, queue'[i].state)
                         \/ (\A i \in DOMAIN queue' : queue'[i].key # k) /\ Tells(k, shown'[k])
      <4>. \A s : Tells(k, s)' <=> Tells(k, s)
        BY <1>2 DEF Tells, IsUp
      <4>. QED
        BY <1>2 DEF ShownInv
    <3>1. \/ \E i \in DOMAIN queue : LastQueued(queue, i, k) /\ Tells(k, queue[i].state)
          \/ (\A i \in DOMAIN queue : queue[i].key # k) /\ Tells(k, shown[k])
      BY <1>3 DEF ShownInv
    <3>2. ASSUME NEW i \in DOMAIN queue, LastQueued(queue, i, k), Tells(k, queue[i].state), i > 1
          PROVE  \E j \in DOMAIN queue' : LastQueued(queue', j, k) /\ Tells(k, queue'[j].state)
      <4>1. i - 1 \in DOMAIN queue' /\ queue'[i - 1] = queue[i]
        BY <1>8, <3>2
      <4>2. ASSUME NEW j \in DOMAIN queue', j > i - 1 PROVE queue'[j].key # k
        <5>1. j + 1 \in DOMAIN queue /\ queue'[j] = queue[j + 1]
          BY <1>9
        <5>2. i \in Int /\ j \in Int
          BY <1>1, <1>2
        <5>3. j + 1 > i
          BY <4>2, <5>2
        <5>. QED
          BY <3>2, <5>1, <5>3 DEF LastQueued
      <4>. QED
        BY <3>2, <4>1, <4>2 DEF LastQueued
    <3>3. ASSUME LastQueued(queue, 1, k), Tells(k, queue[1].state)
          PROVE  (\A i \in DOMAIN queue' : queue'[i].key # k) /\ Tells(k, shown'[k])
      <4>1. \A i \in DOMAIN queue' : queue'[i].key # k
        BY <1>9, <3>3 DEF LastQueued
      <4>2. h = k /\ state = queue[1].state
        BY <1>1, <3>3 DEF LastQueued
      <4>3. shown'[k] = state
        BY <1>2, <4>2 DEF TypeInv
      <4>. QED
        BY <3>3, <4>1, <4>2, <4>3
    <3>4. ASSUME \A i \in DOMAIN queue : queue[i].key # k, Tells(k, shown[k])
          PROVE  (\A i \in DOMAIN queue' : queue'[i].key # k) /\ Tells(k, shown'[k])
      <4>1. \A i \in DOMAIN queue' : queue'[i].key # k
        BY <1>9, <3>4
      <4>2. h # k
        BY <1>1, <3>4
      <4>3. shown'[k] = shown[k]
        BY <1>2, <4>2 DEF TypeInv
      <4>. QED
        BY <3>4, <4>1, <4>3
    <3>5. \A i \in DOMAIN queue : i = 1 \/ i > 1
      BY <1>1
    <3>. QED
      BY <3>1, <3>2, <3>3, <3>4, <3>5
  <2>. QED
    BY <2>1, <2>2, <2>3, <2>4, <2>5 DEF KeyInv
<1>. QED
  BY <1>4, <1>6, <1>7, <1>10

-----------------------------------------------------------------------------
(* The I/O threads *)

\* What the I/O threads do leaves the call as it is.
LEMMA CallsStay ==
  ASSUME Inv, UNCHANGED <<listed, managed, call, replaying>>,
         \A k \in Keys : Shut(k) => Shut(k)'
  PROVE  CallInv' /\ ManagedInv' /\ ReplayInv'
<1>. USE DEF Inv
<1>1. MeantInv'
  <2>. SUFFICES ASSUME NEW i \in DOMAIN call, NEW a, a = call[i].do, NEW k, k = call[i].key
                PROVE  MeantAt(i, a, k)'
    BY DEF MeantInv
  <2>. MeantAt(i, a, k)
    BY DEF CallInv, MeantInv
  <2>. QED
    BY DEF MeantAt
<1>2. WellFormed(call')
  BY DEF CallInv
<1>3. Prepared'
  <2>. SUFFICES ASSUME call # <<>>, NEW h, h = Head(call).key,
                       Head(call).do \in {"open", "opening", "detach", "forget"}
                PROVE  Shut(h)'
    BY DEF Prepared
  <2>1. h \in Keys
    BY TailIs DEF TypeInv, GuiStep
  <2>. QED
    BY <2>1 DEF CallInv, Prepared
<1>4. ManagedInv'
  BY DEF ManagedInv, HeadIs
<1>5. ReplayInv'
  BY DEF ReplayInv, Dooming
<1>. QED
  BY <1>1, <1>2, <1>3, <1>4, <1>5 DEF CallInv

LEMMA IoStepKeeps == ASSUME NEW h \in Keys PROVE Inv /\ IoStep(h) => Inv'
<1>. SUFFICES ASSUME Inv, IoStep(h) PROVE Inv'
  OBVIOUS
<1>. USE DEF Inv
<1>. DEFINE up == IsUp(h) s == io[h]
<1>. PICK step : step = Head(io[h])
  OBVIOUS
<1>1. /\ s # <<>> /\ s \in Seq(Step) /\ step \in Step
      /\ isOpen' = IF step.do = "store" THEN [isOpen EXCEPT ![h] = step.state = "open"] ELSE isOpen
      /\ armed' = CASE step.do \in {"arm", "observe"} /\ h \in managed -> armed \cup {h}
                    [] step.do = "observeTopic" -> armed \cup {topic}
                    [] OTHER -> armed
      /\ queue' = IF step.do = "post" THEN Posted(h, step.state) ELSE queue
      /\ io' = [io EXCEPT ![h] = Tail(s)]
      /\ UNCHANGED <<listed, managed, port, created, call, waits, shown, replaying,
                     subscribed, serving, eventCount>>
  BY DEF IoStep, TypeInv
<1>2. \A k \in Keys : KeyInv(k) /\ IoInv(k) /\ MadeInv(k) /\ WatchInv(k) /\ TopicInv(k) /\ ShownInv(k)
  BY DEF KeyInv
<1>3. /\ Tail(s) \in Seq(Step) /\ Agrees(Tail(s), up)
      /\ \A do : Brings(s, do) /\ step.do # do => Brings(Tail(s), do)
      /\ step.do \in Stating => (step.state = "open" <=> up)
      /\ step.do \notin Stating => up
      /\ step.do = "store" /\ up => Brings(Tail(s), "arm") /\ Brings(Tail(s), "post")
  <2>1. up \in BOOLEAN /\ Agrees(s, up)
    BY <1>2 DEF IsUp, IoInv
  <2>. HIDE DEF up, s
  <2>. step = Head(s)
    BY DEF s
  <2>. QED
    BY <1>1, <2>1, TailAgrees
<1>4. io'[h] = Tail(s) /\ \A k \in Keys \ {h} : io'[k] = io[k]
  BY <1>1 DEF TypeInv
<1>5. /\ step.do = "store" => isOpen' = [isOpen EXCEPT ![h] = up]
      /\ step.do # "store" => isOpen' = isOpen
  BY <1>1, <1>3 DEF Stating, IsUp
<1>6. \A k \in Keys \ {h} : isOpen'[k] = isOpen[k]
  BY <1>5 DEF TypeInv
<1>7. isOpen'[h] = isOpen[h] \/ (step.do = "store" /\ (isOpen'[h] <=> up))
  BY <1>5 DEF TypeInv
<1>. HIDE DEF s
<1>8. \A k \in Keys : Shut(k) => Shut(k)' /\ (isOpen'[k] => isOpen[k])
  <2>. SUFFICES ASSUME NEW k \in Keys, Shut(k) PROVE port'[k] = "none" /\ (isOpen'[k] => isOpen[k]) /\ waits' = waits
    BY DEF Shut
  <2>1. k = h => ~up
    BY DEF Shut, IsUp
  <2>. QED
    BY <1>1, <1>6, <1>7, <2>1 DEF Shut
<1>9. CallInv' /\ ManagedInv' /\ ReplayInv'
  BY <1>1, <1>8, CallsStay
<1>10. up => h \in listed \cup Agents
  BY DEF UnlistedInv, Shut, IsUp, Agents
<1>11. up => h \in managed
  <2>. SUFFICES ASSUME up, h \notin managed PROVE FALSE
    OBVIOUS
  <2>1. HeadIs("forget", h)
    BY <1>10 DEF ManagedInv
  <2>2. Shut(h)
    BY <2>1 DEF CallInv, Prepared, HeadIs
  <2>. QED
    BY <2>2 DEF Shut, IsUp
<1>12. armed \subseteq armed' /\ armed' \subseteq armed \cup {h, topic} /\ (h \in armed' => h \in armed \/ up \/ h = topic)
  BY <1>1, <1>3 DEF Stating
<1>13. /\ queue' \in Seq([key : Keys, state : States])
       /\ \A i \in DOMAIN queue : i \in DOMAIN queue' /\ queue'[i] = queue[i]
       /\ \A k \in Keys \ {h} :
            /\ \A i \in DOMAIN queue : LastQueued(queue, i, k) => LastQueued(queue', i, k)
            /\ (\A i \in DOMAIN queue : queue[i].key # k) => \A i \in DOMAIN queue' : queue'[i].key # k
       /\ step.do = "post" /\ h \in managed =>
            \E i \in DOMAIN queue' : LastQueued(queue', i, h) /\ queue'[i].state = step.state /\ queue'[i].key = h
       /\ step.do # "post" => queue' = queue
  <2>1. CASE step.do = "post" /\ h \in managed
    <3>1. queue' = Append(queue, [key |-> h, state |-> step.state]) /\ step.state \in States
      BY <1>1, <2>1 DEF Posted, Step
    <3>. QED
      BY <2>1, <3>1, Queueing
  <2>2. CASE ~(step.do = "post" /\ h \in managed)
    <3>1. queue' = queue
      BY <1>1, <2>2 DEF Posted
    <3>. QED
      BY <2>2, <3>1 DEF TypeInv
  <2>. QED
    BY <2>1, <2>2
<1>14. TypeInv'
  <2>1. io' \in [Keys -> Seq(Step)] /\ isOpen' \in [Keys -> BOOLEAN]
    BY <1>1, <1>3, <1>5 DEF TypeInv, IsUp
  <2>2. armed' \in SUBSET (Keys \cup {topic})
    BY <1>12 DEF TypeInv
  <2>. QED
    BY <1>1, <1>13, <2>1, <2>2 DEF TypeInv
<1>15. UnlistedInv'
  <2>. SUFFICES ASSUME NEW k \in Local \ listed' PROVE Shut(k)' /\ ~isOpen'[k] /\ k \notin armed'
    BY DEF UnlistedInv
  <2>1. k \in Keys /\ Shut(k) /\ ~isOpen[k] /\ k \notin armed /\ k # topic
    BY <1>1, Apart DEF UnlistedInv, Local
  <2>2. k = h => ~up
    BY <2>1 DEF Shut, IsUp
  <2>. QED
    BY <1>8, <1>12, <2>1, <2>2
<1>16. ASSUME NEW k \in Keys, k # h PROVE KeyInv(k)'
  <2>1. io'[k] = io[k] /\ isOpen'[k] = isOpen[k] /\ port'[k] = port[k]
    BY <1>1, <1>4, <1>6, <1>16
  <2>2. IoInv(k)'
    BY <1>2, <2>1 DEF IoInv, IsUp
  <2>3. MadeInv(k)'
    BY <1>1, <1>2, <2>1 DEF MadeInv, Shut, IsUp, HeadIs
  <2>4. WatchInv(k)'
    BY <1>1, <1>2, <1>12, <2>1 DEF WatchInv
  <2>5. TopicInv(k)'
    <3>. TopicInv(k)
      BY <1>2
    <3>. QED
      BY <1>1, <1>12, <1>13, <2>1 DEF TopicInv, IsUp
  <2>6. ShownInv(k)'
    <3>0. \A x : Tells(k, x)' <=> Tells(k, x)
      BY <2>1 DEF Tells, IsUp
    <3>1. k \in Keys \ {h} /\ ShownInv(k) /\ shown' = shown /\ listed' = listed /\ managed' = managed /\ call' = call
      BY <1>1, <1>2, <1>16
    <3>. QED
      BY <1>13, <2>1, <3>0, <3>1 DEF ShownInv
  <2>. QED
    BY <2>2, <2>3, <2>4, <2>5, <2>6 DEF KeyInv
<1>17. KeyInv(h)'
  <2>0. (IsUp(h)' <=> up) /\ (\A x : Tells(h, x)' <=> Tells(h, x))
    BY <1>1 DEF Tells, IsUp
  <2>1. IoInv(h)'
    <3>1. Agrees(io'[h], IsUp(h)')
      BY <1>1, <1>3, <1>4 DEF IsUp
    <3>2. Brings(io'[h], "store") \/ (isOpen'[h] <=> IsUp(h)')
      <4>1. CASE step.do = "store"
        BY <1>5, <2>0, <4>1 DEF TypeInv
      <4>2. CASE step.do # "store"
        BY <1>2, <1>3, <1>4, <1>5, <2>0, <4>2 DEF IoInv, s
      <4>. QED
        BY <4>1, <4>2
    <3>. QED
      BY <1>1, <1>2, <3>1, <3>2 DEF IoInv
  <2>2. MadeInv(h)'
    <3>1. CASE Kind[h] = "serial"
      <4>. up => isOpen'[h] \/ waits = h
        BY <1>2, <1>7, <3>1 DEF MadeInv
      <4>. QED
        BY <1>1, <2>0, <3>1 DEF MadeInv
    <3>2. CASE Kind[h] # "serial"
      BY <1>1, <1>2, <1>8, <3>2 DEF MadeInv, HeadIs
    <3>. QED
      BY <3>1, <3>2
  <2>3. WatchInv(h)'
    <3>. SUFFICES ASSUME ~replaying, isOpen'[h] PROVE h \in armed' \/ Brings(Tail(s), "arm") \/ Calls(call, {"arm"}, h)
      BY <1>1, <1>4 DEF WatchInv
    <3>1. CASE step.do = "store"
      BY <1>3, <1>7, <3>1, <1>2, <1>12 DEF WatchInv, s
    <3>2. CASE step.do = "arm"
      BY <1>1, <1>3, <1>11, <3>2 DEF Stating
    <3>3. CASE step.do \notin {"store", "arm"}
      BY <1>2, <1>3, <1>5, <1>12, <3>3 DEF WatchInv, s
    <3>. QED
      BY <3>1, <3>2, <3>3
  <2>4. TopicInv(h)'
    <3>. SUFFICES ASSUME h \in Agents, ~replaying, isOpen'[h], subscribed
                  PROVE  \/ topic \in armed' \/ Calls(call, {"arm"}, h)
                         \/ Brings(Tail(s), "post") /\ up
                         \/ \E i \in DOMAIN queue' : queue'[i].key = h /\ queue'[i].state = "open"
      BY <1>1, <1>4, <2>0 DEF TopicInv
    <3>1. CASE step.do = "store" /\ up
      BY <1>3, <3>1
    <3>2. CASE ~(step.do = "store" /\ up)
      <4>1. isOpen[h]
        BY <1>7, <3>2
      <4>2. \/ topic \in armed' \/ Calls(call, {"arm"}, h)
            \/ Brings(s, "post") /\ up
            \/ \E i \in DOMAIN queue : queue[i].key = h /\ queue[i].state = "open"
        <5>. TopicInv(h)
          BY <1>2
        <5>. QED
          BY <1>12, <4>1 DEF TopicInv, s
      <4>3. CASE step.do = "post" /\ up
        <5>. h \in managed /\ step.state = "open"
          BY <1>3, <1>11, <4>3 DEF Stating
        <5>. QED
          BY <1>13, <4>3
      <4>4. CASE step.do # "post" /\ Brings(s, "post") /\ up
        BY <1>3, <4>4
      <4>. QED
        BY <1>13, <4>2, <4>3, <4>4
    <3>. QED
      BY <3>1, <3>2
  <2>5. ShownInv(h)'
    <3>. SUFFICES ASSUME h \in listed \cap managed, ~Calls(call, {"open"}, h), ~Brings(Tail(s), "post")
                  PROVE  \/ \E i \in DOMAIN queue' : LastQueued(queue', i, h) /\ Tells(h, queue'[i].state)
                         \/ (\A i \in DOMAIN queue' : queue'[i].key # h) /\ Tells(h, shown[h])
      BY <1>1, <1>4, <2>0 DEF ShownInv
    <3>1. CASE step.do = "post"
      <4>. Tells(h, step.state)
        BY <1>3, <3>1 DEF Tells, Stating
      <4>. QED
        BY <1>13, <3>1
    <3>2. CASE step.do # "post"
      <4>1. ~Brings(s, "post") /\ queue' = queue /\ ShownInv(h)
        BY <1>2, <1>3, <1>13, <3>2
      <4>. QED
        BY <4>1 DEF ShownInv, s
    <3>. QED
      BY <3>1, <3>2
  <2>. QED
    BY <2>1, <2>2, <2>3, <2>4, <2>5 DEF KeyInv
<1>. QED
  BY <1>9, <1>14, <1>15, <1>16, <1>17

\* A signal finds its thread with nothing to say and a port that is not closed.
LEMMA SignalKeeps ==
  ASSUME Inv, NEW h \in Keys, NEW from \in {"connecting", "open"},
         NEW to \in {"none", "connecting", "open"}, NEW steps \in Seq(Step),
         SignalOf(h, from, to, steps), Agrees(steps, to = "open"),
         Kind[h] = "serial" => to # "connecting",
         (from = "open" <=> to = "open") \/ (Brings(steps, "store") /\ Brings(steps, "post"))
  PROVE  Inv'
<1>. USE DEF Inv
<1>1. /\ io[h] = <<>> /\ port[h] = from
      /\ port' = [port EXCEPT ![h] = to] /\ io' = [io EXCEPT ![h] = steps]
      /\ eventCount' = eventCount + 1
      /\ UNCHANGED <<listed, managed, created, isOpen, call, waits, queue, shown, replaying,
                     subscribed, armed>>
  BY DEF SignalOf, Happens
<1>2. \A k \in Keys : KeyInv(k) /\ IoInv(k) /\ MadeInv(k) /\ WatchInv(k) /\ TopicInv(k) /\ ShownInv(k)
  BY DEF KeyInv
<1>3. /\ port'[h] = to /\ io'[h] = steps
      /\ \A k \in Keys \ {h} : port'[k] = port[k] /\ io'[k] = io[k]
  BY <1>1 DEF TypeInv
<1>4. ~Shut(h)
  BY <1>1 DEF Shut
<1>5. \A k \in Keys : Shut(k) => Shut(k)'
  BY <1>1, <1>3, <1>4 DEF Shut
<1>6. CallInv' /\ ManagedInv' /\ ReplayInv'
  BY <1>1, <1>5, CallsStay
<1>7. TypeInv'
  BY <1>1 DEF TypeInv
<1>8. UnlistedInv'
  BY <1>1, <1>5 DEF UnlistedInv, Local
<1>9. ASSUME NEW k \in Keys, k # h PROVE KeyInv(k)'
  <2>1. k \in Keys \ {h} /\ port'[k] = port[k] /\ io'[k] = io[k] /\ KeyInv(k)
    BY <1>2, <1>3, <1>9
  <2>2. IoInv(k)' /\ MadeInv(k)'
    BY <1>1, <2>1 DEF KeyInv, IoInv, MadeInv, Shut, IsUp, HeadIs
  <2>3. WatchInv(k)' /\ TopicInv(k)'
    BY <1>1, <2>1 DEF KeyInv, WatchInv, TopicInv, IsUp
  <2>4. ShownInv(k)'
    BY <1>1, <2>1, ShownStays DEF KeyInv
  <2>. QED
    BY <2>2, <2>3, <2>4 DEF KeyInv
<1>10. KeyInv(h)'
  <2>0. /\ IsUp(h)' <=> to = "open"
        /\ IsUp(h) <=> from = "open"
        /\ \A do : ~Brings(io[h], do)
    BY <1>1, <1>3 DEF IsUp, Brings
  <2>1. IoInv(h)'
    <3>1. isOpen'[h] <=> from = "open"
      BY <1>1, <1>2, <2>0 DEF IoInv
    <3>2. Agrees(io'[h], IsUp(h)')
      <4>. IsUp(h)' = (to = "open")
        BY <1>3 DEF IsUp
      <4>. QED
        BY <1>3
    <3>3. Brings(io'[h], "store") \/ (isOpen'[h] <=> IsUp(h)')
      BY <1>3, <2>0, <3>1
    <3>4. Kind[h] = "serial" => port'[h] # "connecting"
      BY <1>3
    <3>. QED
      BY <3>2, <3>3, <3>4 DEF IoInv
  <2>2. MadeInv(h)'
    <3>1. CASE Kind[h] = "serial"
      <4>. from = "open"
        BY <1>1, <1>2, <3>1 DEF IoInv
      <4>. QED
        BY <1>1, <1>2, <2>0, <3>1 DEF MadeInv
    <3>2. CASE Kind[h] # "serial"
      BY <1>1, <1>2, <1>4, <3>2 DEF MadeInv, HeadIs
    <3>. QED
      BY <3>1, <3>2
  <2>3. WatchInv(h)'
    BY <1>1, <1>2, <2>0 DEF WatchInv
  <2>4. TopicInv(h)'
    <3>. TopicInv(h)
      BY <1>2
    <3>. QED
      BY <1>1, <2>0 DEF TopicInv
  <2>5. ShownInv(h)'
    <3>1. CASE Brings(steps, "post")
      BY <1>3, <3>1 DEF ShownInv
    <3>2. CASE from = "open" <=> to = "open"
      <4>1. \A x : Tells(h, x)' <=> Tells(h, x)
        BY <2>0, <3>2 DEF Tells
      <4>2. ShownInv(h) /\ ~Brings(io[h], "post")
        BY <1>2, <2>0
      <4>. QED
        BY <1>1, <4>1, <4>2 DEF ShownInv
    <3>. QED
      BY <3>1, <3>2
  <2>. QED
    BY <2>1, <2>2, <2>3, <2>4, <2>5 DEF KeyInv
<1>. QED
  BY <1>6, <1>7, <1>8, <1>9, <1>10

\* The same of a signal that publishes a state.
LEMMA PublishedKeeps ==
  ASSUME Inv, NEW h \in Keys, NEW from \in {"connecting", "open"},
         NEW to \in {"none", "connecting", "open"}, NEW state \in States,
         SignalOf(h, from, to, Publishing(state)), state = "open" <=> to = "open",
         Kind[h] = "serial" => to # "connecting"
  PROVE  Inv'
<1>1. /\ Publishing(state) \in Seq(Step) /\ Agrees(Publishing(state), state = "open")
      /\ Brings(Publishing(state), "store") /\ Brings(Publishing(state), "post")
  BY PublishingAgrees
<1>2. (state = "open") = (to = "open")
  OBVIOUS
<1>3. Agrees(Publishing(state), to = "open")
  BY <1>1, <1>2
<1>. QED
  BY <1>1, <1>3, SignalKeeps

LEMMA ConnectedKeeps == ASSUME NEW h \in Keys PROVE Inv /\ Connected(h) => Inv'
<1>. SUFFICES ASSUME Inv, Connected(h) PROVE Inv'
  OBVIOUS
<1>1. SignalOf(h, "connecting", "open", Publishing("open"))
  BY DEF Connected
<1>2. "open" \in States
  BY DEF States
<1>. QED
  BY <1>1, <1>2, PublishedKeeps

LEMMA ConnectFailedKeeps == ASSUME NEW h \in Keys PROVE Inv /\ ConnectFailed(h) => Inv'
<1>. SUFFICES ASSUME Inv, ConnectFailed(h) PROVE Inv'
  OBVIOUS
<1>. "opening" \in States /\ "error" \in States
  BY DEF States
<1>1. CASE Kind[h] = "agent"
  <2>. SignalOf(h, "connecting", "connecting", Publishing("opening"))
    BY <1>1 DEF ConnectFailed, Signal
  <2>. QED
    BY <1>1, PublishedKeeps
<1>2. CASE Kind[h] # "agent"
  <2>. SignalOf(h, "connecting", "none", Publishing("error"))
    BY <1>2 DEF ConnectFailed, Signal
  <2>. QED
    BY PublishedKeeps
<1>. QED
  BY <1>1, <1>2

LEMMA LostKeeps == ASSUME NEW h \in Keys PROVE Inv /\ Lost(h) => Inv'
<1>. SUFFICES ASSUME Inv, Lost(h) PROVE Inv'
  OBVIOUS
<1>. "opening" \in States /\ "error" \in States /\ "closed" \in States
  BY DEF States
<1>1. CASE Kind[h] = "serial"
  <2>. SignalOf(h, "open", "none", Publishing("error"))
    BY <1>1 DEF Lost, Signal
  <2>. QED
    BY PublishedKeeps
<1>2. CASE Kind[h] = "agent"
  <2>. SignalOf(h, "open", "connecting", Publishing("opening"))
    BY <1>2 DEF Lost, Signal
  <2>. QED
    BY <1>2, PublishedKeeps
<1>3. CASE Kind[h] = "client"
  <2>1. PICK reported \in {<<>>, Publishing("error")} :
          SignalOf(h, "open", "none", reported \o Publishing("closed"))
    BY <1>3 DEF Lost, Signal
  <2>. DEFINE c == Publishing("closed")
  <2>2. reported \in Seq(Step) /\ Agrees(reported, FALSE)
    <3>1. CASE reported = <<>>
      BY <3>1 DEF Agrees
    <3>2. CASE reported = Publishing("error")
      BY <3>2, PublishingAgrees
    <3>. QED
      BY <3>1, <3>2
  <2>3. c \in Seq(Step) /\ c # <<>> /\ Agrees(c, FALSE) /\ Brings(c, "store") /\ Brings(c, "post")
    BY PublishingAgrees
  <2>. HIDE DEF c
  <2>4. /\ reported \o c \in Seq(Step) /\ Agrees(reported \o c, FALSE)
        /\ Brings(reported \o c, "store") /\ Brings(reported \o c, "post")
    BY <2>2, <2>3, PublishingBoth
  <2>. DEFINE both == reported \o c
  <2>5. SignalOf(h, "open", "none", both) /\ Agrees(both, "none" = "open")
    BY <2>1, <2>4 DEF c
  <2>6. both \in Seq(Step) /\ Brings(both, "store") /\ Brings(both, "post")
    BY <2>4
  <2>. HIDE DEF both
  <2>. QED
    BY <2>5, <2>6, SignalKeeps
<1>. QED
  BY <1>1, <1>2, <1>3, KindAssumption

LEMMA ReceivedKeeps == ASSUME NEW h \in Keys PROVE Inv /\ Received(h) => Inv'
<1>. SUFFICES ASSUME Inv, Received(h) PROVE Inv'
  OBVIOUS
<1>1. PICK s \in {<<[do |-> "observe"]>>, <<[do |-> "observe"], [do |-> "observeTopic"]>>} :
        SignalOf(h, "open", "open", s)
  BY DEF Received, Signal
<1>2. s \in Seq(Step) /\ Agrees(s, "open" = "open")
  BY ObservingAgrees
<1>. QED
  BY <1>1, <1>2, SignalKeeps

-----------------------------------------------------------------------------
(* The calls of the window *)

\* What leaves the sources and the call alone: the watch on the topic is the
\* subscription's.
LEMMA WatchKeeps ==
  ASSUME Inv, UNCHANGED <<sourceVars, io, call, waits, queue, shown, replaying>>,
         eventCount' \in Nat, subscribed' \in BOOLEAN, armed' \in SUBSET (Keys \cup {topic}),
         \A k \in Keys : k \in armed' <=> k \in armed,
         subscribed' => topic \in armed' \/ (subscribed /\ armed' = armed)
  PROVE  Inv'
<1>. USE DEF Inv, sourceVars
<1>1. CallInv' /\ ManagedInv' /\ ReplayInv'
  BY CallsStay DEF Shut
<1>2. TypeInv'
  BY DEF TypeInv
<1>3. UnlistedInv'
  BY DEF UnlistedInv, Shut, Local
<1>4. ASSUME NEW k \in Keys PROVE KeyInv(k)'
  <2>1. KeyInv(k)
    OBVIOUS
  <2>2. IoInv(k)' /\ MadeInv(k)'
    BY <2>1 DEF KeyInv, IoInv, MadeInv, Shut, IsUp, HeadIs
  <2>3. WatchInv(k)'
    BY <2>1 DEF KeyInv, WatchInv
  <2>4. TopicInv(k)'
    BY <2>1 DEF KeyInv, TopicInv, IsUp
  <2>5. ShownInv(k)'
    BY <2>1, ShownStays DEF KeyInv
  <2>. QED
    BY <2>2, <2>3, <2>4, <2>5 DEF KeyInv
<1>. QED
  BY <1>1, <1>2, <1>3, <1>4

LEMMA CancellationKeeps == Inv /\ CancellationRead => Inv'
<1>. SUFFICES ASSUME Inv, CancellationRead PROVE Inv'
  OBVIOUS
<1>1. UNCHANGED <<sourceVars, io, call, waits, queue, shown, replaying, subscribed, armed, eventCount>>
  BY DEF CancellationRead
<1>2. eventCount' \in Nat /\ subscribed' \in BOOLEAN /\ armed' \in SUBSET (Keys \cup {topic})
  BY <1>1 DEF Inv, TypeInv
<1>3. subscribed' => topic \in armed' \/ (subscribed /\ armed' = armed)
  BY <1>1
<1>. QED
  BY <1>1, <1>2, <1>3, WatchKeeps

LEMMA SubscribeKeeps == Inv /\ Subscribe => Inv'
<1>. SUFFICES ASSUME Inv, Subscribe PROVE Inv'
  OBVIOUS
<1>1. /\ eventCount' = eventCount + 1 /\ subscribed' = TRUE /\ armed' = armed \cup {topic}
      /\ UNCHANGED <<sourceVars, io, call, waits, queue, shown, replaying>>
  BY DEF Subscribe, Happens
<1>2. eventCount' \in Nat /\ armed' \in SUBSET (Keys \cup {topic})
  BY <1>1 DEF Inv, TypeInv
<1>. QED
  BY <1>1, <1>2, Apart, WatchKeeps

LEMMA UnsubscribeKeeps == Inv /\ Unsubscribe => Inv'
<1>. SUFFICES ASSUME Inv, Unsubscribe PROVE Inv'
  OBVIOUS
<1>1. /\ eventCount' = eventCount + 1 /\ subscribed' = FALSE /\ armed' = armed \ {topic}
      /\ UNCHANGED <<sourceVars, io, call, waits, queue, shown, replaying>>
  BY DEF Unsubscribe, Happens
<1>2. eventCount' \in Nat /\ armed' \in SUBSET (Keys \cup {topic})
  BY <1>1 DEF Inv, TypeInv
<1>. QED
  BY <1>1, <1>2, Apart, WatchKeeps

\* What the first step of a call, and its last, ask of the sources.
Begins(steps) ==
  /\ steps \in Seq(GuiStep) /\ steps # <<>> /\ WellFormed(steps)
  /\ steps[1].do \in {"close", "add", "reset"}
Promised(steps, up) ==
  \A i \in DOMAIN steps :
    /\ steps[i].do = "add" => steps[i].key \in Local \ listed
    /\ steps[i].do = "open" =>
         up /\ (steps[i].key \in listed \cup Agents \/ (i > 1 /\ At(steps, i - 1, {"add"}, steps[i].key)))
    /\ steps[i].do # "opening"
    /\ steps[i].do \in {"detach", "forget"} => steps[i].key \in listed

LEMMA CallKeeps ==
  ASSUME Inv, NEW steps, Call(steps), Begins(steps), Promised(steps, ~replaying'),
         replaying' \in BOOLEAN, subscribed' = subscribed,
         replaying' \/ steps[Len(steps)].do = "reset" =>
           replaying \/ \A k \in Keys : Calls(steps, {"close", "closing"}, k)
  PROVE  Inv'
<1>. USE DEF Inv
<1>1. /\ call = <<>> /\ ~Invoking /\ call' = steps /\ waits' = "nobody" /\ eventCount' = eventCount + 1
      /\ UNCHANGED <<listed, managed, port, created, isOpen, io, queue, shown, armed>>
  BY DEF Call, Idle, Happens, sourceVars
<1>2. \A k \in Keys : KeyInv(k) /\ IoInv(k) /\ MadeInv(k) /\ WatchInv(k) /\ TopicInv(k) /\ ShownInv(k)
  BY DEF KeyInv
<1>3. \A k \in Keys : Shut(k) => Shut(k)' /\ ~isOpen'[k] /\ ~isOpen[k]
  BY <1>1, <1>2, ShutStays DEF Shut
<1>4. \A dos, k : ~Calls(call, dos, k)
  BY <1>1 DEF Calls
<1>5. replaying => \A k \in Keys : Shut(k)
  BY <1>4 DEF ReplayInv, Dooming
<1>6. TypeInv'
  BY <1>1 DEF TypeInv, Begins
<1>7. Head(steps) = steps[1] /\ steps # <<>>
  BY DEF Begins
<1>8. \A k : ~HeadIs("forget", k)' /\ ~HeadIs("forget", k) /\ ~HeadIs("closing", k)
  BY <1>1, <1>7 DEF HeadIs, Begins
<1>9. CallInv'
  <2>1. MeantInv'
    <3>. SUFFICES ASSUME NEW i \in DOMAIN steps, NEW a, a = steps[i].do, NEW k, k = steps[i].key
                  PROVE  /\ a = "add" => k \in Local \ listed
                         /\ a \in {"open", "opening"} =>
                              ~replaying' /\ (k \in listed \cup Agents \/ (i > 1 /\ At(steps, i - 1, {"add"}, k)))
                         /\ a \in {"detach", "forget"} => k \in listed
      BY <1>1 DEF MeantInv, MeantAt
    <3>. QED
      BY DEF Promised
  <2>2. Prepared'
    BY <1>1, <1>7 DEF Prepared, Begins
  <2>3. WellFormed(call')
    BY <1>1 DEF Begins
  <2>. QED
    BY <2>1, <2>2, <2>3 DEF CallInv
<1>10. ManagedInv'
  BY <1>1, <1>8, ManagedStays
<1>11. ReplayInv'
  BY <1>1, <1>3, <1>5 DEF ReplayInv, Dooming
<1>12. UnlistedInv'
  <2>. SUFFICES ASSUME NEW k \in Local \ listed' PROVE Shut(k)' /\ ~isOpen'[k] /\ k \notin armed'
    BY DEF UnlistedInv
  <2>. k \in Keys /\ Shut(k) /\ k \notin armed
    BY <1>1 DEF UnlistedInv, Local
  <2>. QED
    BY <1>1, <1>3
<1>13. ASSUME NEW k \in Keys PROVE KeyInv(k)'
  <2>1. IoInv(k)' /\ MadeInv(k)'
    BY <1>1, <1>2, <1>8, IoStays, MadeStays
  <2>2. replaying => ~isOpen[k]
    BY <1>3, <1>5
  <2>3. WatchInv(k)'
    BY <1>1, <1>2, <1>4, <2>2 DEF WatchInv
  <2>4. TopicInv(k)'
    <3>. TopicInv(k)
      BY <1>2
    <3>. QED
      BY <1>1, <1>4, <2>2 DEF TopicInv, IsUp
  <2>5. ShownInv(k)'
    BY <1>1, <1>2, <1>4, ShownStays
  <2>. QED
    BY <2>1, <2>3, <2>4, <2>5 DEF KeyInv
<1>. QED
  BY <1>6, <1>9, <1>10, <1>11, <1>12, <1>13

\* A source is closed, or listed, and then opened; a replay is left first.
LEMMA ConnectKeeps ==
  ASSUME Inv, NEW h \in Keys, NEW do \in {"close", "add"},
         do = "close" => h \in listed \cup Agents, do = "add" => h \in Local \ listed,
         Call(LeavingReplay \o <<Do(do, h), Do("open", h)>>),
         replaying' = FALSE, subscribed' = subscribed
  PROVE  Inv'
<1>. DEFINE pair == <<Do(do, h), Do("open", h)>>
<1>0. /\ Do(do, h).do = do /\ Do(do, h).key = h
      /\ Do("open", h).do = "open" /\ Do("open", h).key = h
  BY DoIsStep
<1>1. CASE replaying
  <2>. DEFINE c == ResetAndArm \o pair
  <2>1. /\ c \in Seq(GuiStep) /\ Len(c) > 3 /\ c[1].do = "reset"
        /\ \A i \in 2 .. Len(c) - 2 : c[i].do = "arm"
        /\ c[Len(c) - 1] = Do(do, h) /\ c[Len(c)] = Do("open", h)
        /\ WellFormed(c)
    BY LeavingPair
  <2>2. Call(c)
    BY <1>1 DEF LeavingReplay
  <2>. HIDE DEF c
  <2>3. Len(c) \in Nat /\ DOMAIN c = 1 .. Len(c) /\ c # <<>>
    BY <2>1
  <2>4. Begins(c)
    BY <2>1, <2>3 DEF Begins
  <2>5. Promised(c, ~replaying')
    <3>. SUFFICES ASSUME NEW i \in 1 .. Len(c)
                  PROVE  /\ c[i].do = "add" => c[i].key \in Local \ listed
                         /\ c[i].do = "open" =>
                              c[i].key \in listed \cup Agents \/ (i > 1 /\ At(c, i - 1, {"add"}, c[i].key))
                         /\ c[i].do \notin {"opening", "detach", "forget"}
      BY <2>3 DEF Promised
    <3>1. i = 1 \/ i \in 2 .. Len(c) - 2 \/ i = Len(c) - 1 \/ i = Len(c)
      <4>. Len(c) \in Nat /\ i \in 1 .. Len(c)
        BY <2>3
      <4>. QED
        OBVIOUS
    <3>2. CASE i = 1 \/ i \in 2 .. Len(c) - 2
      <4>. c[i].do \in {"reset", "arm"}
        BY <2>1, <3>2
      <4>. QED
        OBVIOUS
    <3>3. CASE i = Len(c) - 1
      BY <1>0, <2>1, <3>3
    <3>4. CASE i = Len(c)
      <4>1. do = "add" => i > 1 /\ At(c, i - 1, {"add"}, h)
        BY <1>0, <2>1, <3>4 DEF At
      <4>. QED
        BY <1>0, <2>1, <3>4, <4>1
    <3>. QED
      BY <3>1, <3>2, <3>3, <3>4
  <2>. QED
    BY <1>1, <2>2, <2>4, <2>5, CallKeeps
<1>2. CASE ~replaying
  <2>1. /\ pair \in Seq(GuiStep) /\ Len(pair) = 2 /\ pair[1] = Do(do, h) /\ pair[2] = Do("open", h)
        /\ WellFormed(pair)
    BY Pair
  <2>2. Call(pair)
    <3>1. LeavingReplay \o pair = <<>> \o pair
      BY <1>2 DEF LeavingReplay
    <3>2. <<>> \o pair = pair
      BY <2>1
    <3>. QED
      BY <3>1, <3>2
  <2>. HIDE DEF pair
  <2>3. DOMAIN pair = 1 .. 2 /\ pair # <<>>
    <3>. pair \in Seq(GuiStep) /\ Len(pair) = 2
      BY <2>1
    <3>. QED
      OBVIOUS
  <2>4. Begins(pair)
    BY <1>0, <2>1, <2>3 DEF Begins
  <2>5. Promised(pair, ~replaying')
    <3>. SUFFICES ASSUME NEW i \in 1 .. 2
                  PROVE  /\ pair[i].do = "add" => pair[i].key \in Local \ listed
                         /\ pair[i].do = "open" =>
                              \/ pair[i].key \in listed \cup Agents
                              \/ (i > 1 /\ At(pair, i - 1, {"add"}, pair[i].key))
                         /\ pair[i].do \notin {"opening", "detach", "forget"}
      BY <2>3 DEF Promised
    <3>1. CASE i = 1
      BY <1>0, <2>1, <3>1
    <3>2. CASE i = 2
      <4>1. do = "add" => i > 1 /\ At(pair, i - 1, {"add"}, h)
        BY <1>0, <2>1, <3>2 DEF At
      <4>. QED
        BY <1>0, <2>1, <3>2, <4>1
    <3>. QED
      BY <3>1, <3>2
  <2>6. pair[Len(pair)].do # "reset"
    BY <1>0, <2>1
  <2>. QED
    BY <2>2, <2>4, <2>5, <2>6, CallKeeps
<1>. QED
  BY <1>1, <1>2 DEF Inv, TypeInv

LEMMA ConnectLocalKeeps == ASSUME NEW h \in Keys PROVE Inv /\ ConnectLocal(h) => Inv'
<1>. SUFFICES ASSUME Inv, ConnectLocal(h) PROVE Inv'
  OBVIOUS
<1>1. CASE h \in listed
  <2>. Call(LeavingReplay \o <<Do("close", h), Do("open", h)>>) /\ replaying' = FALSE /\ subscribed' = subscribed
    BY <1>1 DEF ConnectLocal, Reopened
  <2>. QED
    BY <1>1, ConnectKeeps
<1>2. CASE h \notin listed
  <2>. Call(LeavingReplay \o <<Do("add", h), Do("open", h)>>) /\ replaying' = FALSE /\ subscribed' = subscribed
    BY <1>2 DEF ConnectLocal
  <2>. h \in Local \ listed
    BY <1>2 DEF ConnectLocal
  <2>. QED
    BY ConnectKeeps
<1>. QED
  BY <1>1, <1>2

LEMMA ConnectRemoteAgentKeeps == ASSUME NEW h \in Keys PROVE Inv /\ ConnectRemoteAgent(h) => Inv'
<1>. SUFFICES ASSUME Inv, ConnectRemoteAgent(h) PROVE Inv'
  OBVIOUS
<1>. /\ Call(LeavingReplay \o <<Do("close", h), Do("open", h)>>) /\ h \in Agents
     /\ replaying' = FALSE /\ subscribed' = subscribed
  BY DEF ConnectRemoteAgent, Reopened
<1>. QED
  BY ConnectKeeps

LEMMA DisconnectKeeps == ASSUME NEW h \in Keys PROVE Inv /\ Disconnect(h) => Inv'
<1>. SUFFICES ASSUME Inv, Disconnect(h) PROVE Inv'
  OBVIOUS
<1>. DEFINE c == <<Do("close", h)>>
<1>1. c \in Seq(GuiStep) /\ DOMAIN c = 1 .. 1 /\ Len(c) = 1 /\ c # <<>> /\ c[1] = Do("close", h)
  BY DoIsStep
<1>2. Call(c) /\ replaying' = replaying /\ subscribed' = subscribed
  BY DEF Disconnect
<1>. HIDE DEF c
<1>3. \A i \in DOMAIN c : c[i].do = "close"
  BY <1>1, DoIsStep
<1>4. WellFormed(c) /\ Promised(c, ~replaying')
  BY <1>3 DEF WellFormed, WellFormedAt, Promised
<1>5. Begins(c) /\ c[Len(c)].do # "reset"
  BY <1>1, <1>3, <1>4 DEF Begins
<1>. QED
  BY <1>2, <1>4, <1>5, CallKeeps DEF Inv, TypeInv

LEMMA RemoveKeeps == ASSUME NEW h \in Keys PROVE Inv /\ RemoveLocalSource(h) => Inv'
<1>. SUFFICES ASSUME Inv, RemoveLocalSource(h) PROVE Inv'
  OBVIOUS
<1>. DEFINE c == RemovalOf(h)
<1>1. /\ c \in Seq(GuiStep) /\ Len(c) = 3 /\ WellFormed(c)
      /\ c[1] = Do("close", h) /\ c[2] = Do("detach", h) /\ c[3] = Do("forget", h)
  BY Removal
<1>2. Call(c) /\ h \in listed /\ replaying' = replaying /\ subscribed' = subscribed
  BY DEF RemoveLocalSource
<1>. HIDE DEF c
<1>3. DOMAIN c = {1, 2, 3} /\ c # <<>>
  BY <1>1
<1>4. /\ c[1].do = "close" /\ c[2].do = "detach" /\ c[3].do = "forget"
      /\ c[1].key = h /\ c[2].key = h /\ c[3].key = h
  BY <1>1, DoIsStep
<1>5. Begins(c) /\ Promised(c, ~replaying') /\ c[Len(c)].do # "reset"
  BY <1>1, <1>2, <1>3, <1>4 DEF Begins, Promised
<1>. QED
  BY <1>2, <1>5, CallKeeps DEF Inv, TypeInv

\* The rules start anew, at once or at the end of a replay.
LEMMA ArmingKeeps ==
  ASSUME Inv, Call(ResetAndArm), replaying' \in BOOLEAN, replaying' => replaying, subscribed' = subscribed
  PROVE  Inv'
<1>. DEFINE c == ResetAndArm
<1>1. /\ c \in Seq(GuiStep) /\ Len(c) > 1 /\ c[1].do = "reset" /\ WellFormed(c)
      /\ \A i \in 2 .. Len(c) : c[i].do = "arm"
  BY Arming, ArmingIsWellFormed
<1>2. Call(c)
  OBVIOUS
<1>. HIDE DEF c
<1>3. Len(c) \in Nat /\ DOMAIN c = 1 .. Len(c) /\ c # <<>> /\ Len(c) \in 2 .. Len(c)
  BY <1>1
<1>4. \A i \in DOMAIN c : c[i].do \in {"reset", "arm"}
  BY <1>1, <1>3
<1>5. Promised(c, ~replaying')
  BY <1>4 DEF Promised
<1>6. Begins(c) /\ c[Len(c)].do = "arm"
  BY <1>1, <1>3 DEF Begins
<1>. QED
  BY <1>2, <1>5, <1>6, CallKeeps

LEMMA RestartRulesKeeps == Inv /\ RestartRules => Inv'
<1>. SUFFICES ASSUME Inv, RestartRules PROVE Inv'
  OBVIOUS
<1>. Call(ResetAndArm) /\ replaying' = replaying /\ subscribed' = subscribed /\ replaying \in BOOLEAN
  BY DEF RestartRules, RulesRestarted, Inv, TypeInv
<1>. QED
  BY ArmingKeeps

LEMMA CloseReplayKeeps == Inv /\ CloseReplay => Inv'
<1>. SUFFICES ASSUME Inv, CloseReplay PROVE Inv'
  OBVIOUS
<1>. Call(ResetAndArm) /\ replaying' = FALSE /\ subscribed' = subscribed
  BY DEF CloseReplay
<1>. QED
  BY ArmingKeeps

LEMMA OpenReplayKeeps == ASSUME NEW succeeds \in BOOLEAN PROVE Inv /\ OpenReplaySession(succeeds) => Inv'
<1>. SUFFICES ASSUME Inv, OpenReplaySession(succeeds) PROVE Inv'
  OBVIOUS
<1>. DEFINE c == ForAll("close") \o <<Do("reset", AnyKey)>>
<1>1. /\ c \in Seq(GuiStep) /\ Len(c) > 1 /\ c[Len(c)].do = "reset" /\ WellFormed(c)
      /\ \A i \in 1 .. Len(c) - 1 : c[i].do = "close"
      /\ \A k \in Keys : Calls(c, {"close", "closing"}, k)
  BY ClosingAll
<1>2. Call(c) /\ replaying' = succeeds /\ subscribed' = subscribed
  BY DEF OpenReplaySession
<1>. HIDE DEF c
<1>3. Len(c) \in Nat /\ DOMAIN c = 1 .. Len(c) /\ c # <<>>
  BY <1>1
<1>4. \A i \in DOMAIN c : c[i].do \in {"reset", "close"}
  <2>. SUFFICES ASSUME NEW i \in 1 .. Len(c) PROVE c[i].do \in {"reset", "close"}
    BY <1>3
  <2>1. i = Len(c) \/ i \in 1 .. Len(c) - 1
    <3>. Len(c) \in Nat /\ i \in 1 .. Len(c)
      BY <1>3
    <3>. QED
      OBVIOUS
  <2>. QED
    BY <1>1, <2>1
<1>5. Promised(c, ~replaying')
  BY <1>4 DEF Promised
<1>6. Begins(c)
  BY <1>1, <1>3 DEF Begins
<1>. QED
  BY <1>1, <1>2, <1>5, <1>6, CallKeeps

-----------------------------------------------------------------------------
(* The session *)

LEMMA InitKeeps == Init => Inv
<1>. SUFFICES ASSUME Init PROVE Inv
  OBVIOUS
<1>. USE DEF Init
<1>1. TypeInv
  <2>1. /\ listed \in SUBSET Local /\ managed \in SUBSET Keys /\ armed \in SUBSET (Keys \cup {topic})
        /\ waits \in Keys \cup {"nobody"} /\ replaying \in BOOLEAN /\ subscribed \in BOOLEAN
        /\ eventCount \in Nat
    BY DEF Agents
  <2>2. /\ port \in [Keys -> {"none", "connecting", "open"}] /\ shown \in [Keys -> States]
        /\ created \in [Keys -> BOOLEAN] /\ isOpen \in [Keys -> BOOLEAN]
    BY DEF States
  <2>3. io \in [Keys -> Seq(Step)] /\ call \in Seq(GuiStep)
    OBVIOUS
  <2>4. queue \in Seq([key : Keys, state : States])
    OBVIOUS
  <2>. QED
    BY <2>1, <2>2, <2>3, <2>4 DEF TypeInv
<1>2. CallInv
  BY DEF CallInv, WellFormed, MeantInv, Prepared
<1>3. ManagedInv /\ ReplayInv
  BY DEF ManagedInv, HeadIs, ReplayInv, Dooming, Agents
<1>4. \A k \in Keys : Shut(k) /\ ~IsUp(k) /\ ~isOpen[k]
  BY DEF Shut, IsUp
<1>5. UnlistedInv
  BY <1>4 DEF UnlistedInv, Local
<1>6. ASSUME NEW k \in Keys PROVE KeyInv(k)
  <2>1. IoInv(k)
    BY <1>4 DEF IoInv, Agrees
  <2>2. MadeInv(k) /\ WatchInv(k) /\ TopicInv(k) /\ ShownInv(k)
    BY <1>4 DEF MadeInv, WatchInv, TopicInv, ShownInv
  <2>. QED
    BY <2>1, <2>2 DEF KeyInv
<1>. QED
  BY <1>1, <1>2, <1>3, <1>5, <1>6 DEF Inv

LEMMA NextKeeps == Inv /\ [Next]_vars => Inv'
<1>. SUFFICES ASSUME Inv, [Next]_vars PROVE Inv'
  OBVIOUS
<1>1. CASE Gui
  BY <1>1, ResetRulesKeeps, ArmIfOpenKeeps, AddKeeps, CloseSourceKeeps, ClosingKeeps, OpenSourceKeeps,
     OpeningKeeps, DetachKeeps, ForgetKeeps, DeliverKeeps DEF Gui
<1>2. ASSUME NEW k \in Keys,
             IoStep(k) \/ Connected(k) \/ ConnectFailed(k) \/ Lost(k) \/ Received(k)
      PROVE  Inv'
  BY <1>2, IoStepKeeps, ConnectedKeeps, ConnectFailedKeeps, LostKeeps, ReceivedKeeps
<1>3. ASSUME NEW k \in Keys,
             ConnectLocal(k) \/ ConnectRemoteAgent(k) \/ Disconnect(k) \/ RemoveLocalSource(k)
      PROVE  Inv'
  BY <1>3, ConnectLocalKeeps, ConnectRemoteAgentKeeps, DisconnectKeeps, RemoveKeeps
<1>4. CASE CancellationRead \/ RestartRules \/ CloseReplay \/ Subscribe \/ Unsubscribe
  BY <1>4, CancellationKeeps, RestartRulesKeeps, CloseReplayKeeps, SubscribeKeeps, UnsubscribeKeeps
<1>5. ASSUME NEW succeeds \in BOOLEAN, OpenReplaySession(succeeds) PROVE Inv'
  BY <1>5, OpenReplayKeeps
<1>6. CASE UNCHANGED vars
  <2>1. UNCHANGED <<sourceVars, io, call, waits, queue, shown, replaying, subscribed, armed, eventCount>>
    BY <1>6 DEF vars
  <2>2. eventCount' \in Nat /\ subscribed' \in BOOLEAN /\ armed' \in SUBSET (Keys \cup {topic})
    BY <2>1 DEF Inv, TypeInv
  <2>3. subscribed' => topic \in armed' \/ (subscribed /\ armed' = armed)
    BY <2>1
  <2>. QED
    BY <2>1, <2>2, <2>3, WatchKeeps
<1>. QED
  BY <1>1, <1>2, <1>3, <1>4, <1>5, <1>6 DEF Next

\* What the invariant says of a session that is at rest.
LEMMA RestIsTrue == Inv => ShownIsTrue /\ OpenIsWatched /\ RemovedIsUnwatched
<1>. SUFFICES ASSUME Inv PROVE ShownIsTrue /\ OpenIsWatched /\ RemovedIsUnwatched
  OBVIOUS
<1>. USE DEF Inv, Idle
<1>1. \A k \in Keys : KeyInv(k)
  OBVIOUS
<1>2. call = <<>> => \A dos, k : ~Calls(call, dos, k)
  BY DEF Calls
<1>3. \A k \in Keys : io[k] = <<>> => \A do : ~Brings(io[k], do)
  BY DEF Brings
<1>4. ShownIsTrue
  <2>. SUFFICES ASSUME NEW k \in listed, Quiet(k) PROVE (shown[k] = "open") = isOpen[k]
    BY DEF ShownIsTrue
  <2>1. k \in Keys /\ listed \subseteq Keys
    BY DEF TypeInv, Local
  <2>2. k \in managed
    BY <2>1 DEF ManagedInv, Quiet, HeadIs
  <2>3. isOpen[k] <=> IsUp(k)
    BY <1>1, <1>3, <2>1 DEF Quiet, KeyInv, IoInv
  <2>4. Tells(k, shown[k])
    BY <1>1, <1>2, <1>3, <2>1, <2>2 DEF Quiet, KeyInv, ShownInv, LastQueued
  <2>. QED
    BY <2>1, <2>3, <2>4 DEF Tells, TypeInv
<1>5. OpenIsWatched
  <2>1. ASSUME NEW k \in Keys, call = <<>>, ~replaying, io[k] = <<>>, isOpen[k] PROVE k \in armed
    BY <1>1, <1>2, <1>3, <2>1 DEF KeyInv, WatchInv
  <2>2. ASSUME NEW k \in Agents, Quiet(k), ~replaying, isOpen[k], subscribed PROVE topic \in armed
    <3>1. k \in Keys
      BY DEF Agents
    <3>. QED
      BY <1>1, <1>2, <1>3, <2>2, <3>1 DEF Quiet, KeyInv, TopicInv
  <2>. QED
    BY <2>1, <2>2 DEF OpenIsWatched
<1>6. RemovedIsUnwatched
  BY DEF RemovedIsUnwatched, UnlistedInv
<1>. QED
  BY <1>4, <1>5, <1>6

LEMMA Invariance == Spec => []Inv
  BY InitKeeps, NextKeeps, PTL DEF Spec

\* Once everything posted has arrived and nobody is at work, the window shows a source as
\* open if and only if its port is (handleLocalSourceState() of SerialSession).
THEOREM WindowShowsTruth == Spec => []ShownIsTrue
<1>1. Inv => ShownIsTrue
  BY RestIsTrue
<1>. QED
  BY <1>1, Invariance, PTL

\* However I/O signals cross a restart of the rules or the end of a replay, a source that
\* is open is watched, and so is a topic subscribed to (armHealthAlertTargets()).
THEOREM OpenStaysWatched == Spec => []OpenIsWatched
<1>1. Inv => OpenIsWatched
  BY RestIsTrue
<1>. QED
  BY <1>1, Invariance, PTL

\* No late signal of a source that removeLocalSource() has deleted arms its rules again.
THEOREM RemovedStaysUnwatched == Spec => []RemovedIsUnwatched
<1>1. Inv => RemovedIsUnwatched
  BY RestIsTrue
<1>. QED
  BY <1>1, Invariance, PTL

-----------------------------------------------------------------------------
(* Numbers *)

LEMMA LeastMember ==
  ASSUME NEW S \in SUBSET Nat, S # {}
  PROVE  \E x \in S : \A y \in S : x <= y
<1>1. \E x \in S : \A y \in S : ~(<<y, x>> \in OpToRel(<, Nat))
  BY WFMin, NatLessThanWellFounded, Zenon
<1>2. PICK x \in S : \A y \in S : ~(<<y, x>> \in OpToRel(<, Nat))
  BY <1>1
<1>3. \A y \in S : ~(y < x)
  BY <1>2, Zenon DEF OpToRel
<1>. QED
  BY <1>3, SMT

LEMMA Induction ==
  ASSUME NEW S \in SUBSET Nat, 0 \in S, \A n \in S : n + 1 \in S
  PROVE  \A n \in Nat : n \in S
<1>. SUFFICES ASSUME Nat \ S # {} PROVE FALSE
  OBVIOUS
<1>1. PICK m \in Nat \ S : \A k \in Nat \ S : m <= k
  BY LeastMember
<1>2. m - 1 \in S
  BY <1>1
<1>. QED
  BY <1>1, <1>2

\* The least of a set of naturals, and the greatest of a bounded one.
LEMMA MinIsLeast ==
  ASSUME NEW S \in SUBSET Nat, S # {}
  PROVE  Min(S) \in S /\ \A y \in S : Min(S) <= y
<1>1. \E x \in S : \A y \in S : x <= y
  BY LeastMember
<1>. QED
  BY <1>1 DEF Min

LEMMA MaxIsGreatest ==
  ASSUME NEW n \in Nat, NEW S \in SUBSET (0..n), S # {}
  PROVE  Max(S) \in S /\ \A y \in S : y <= Max(S)
<1>. DEFINE T == {n - y : y \in S}
<1>1. T \in SUBSET Nat /\ T # {}
  <2>1. \A y \in S : n - y \in Nat
    OBVIOUS
  <2>2. PICK y \in S : TRUE
    OBVIOUS
  <2>3. n - y \in T
    OBVIOUS
  <2>. QED
    BY <2>1, <2>3
<1>2. PICK t \in T : \A u \in T : t <= u
  BY <1>1, LeastMember
<1>3. PICK x \in S : t = n - x
  BY <1>2
<1>4. \A y \in S : x >= y
  <2>. SUFFICES ASSUME NEW y \in S PROVE x >= y
    OBVIOUS
  <2>1. n - y \in T
    OBVIOUS
  <2>2. n - x <= n - y
    BY <1>2, <1>3, <2>1
  <2>. QED
    BY <2>2
<1>5. \E z \in S : \A y \in S : z >= y
  BY <1>3, <1>4
<1>6. Max(S) \in S /\ \A y \in S : Max(S) >= y
  BY <1>5 DEF Max
<1>. QED
  BY <1>6

-----------------------------------------------------------------------------
(* Sums *)

LEMMA SumsAre ==
  ASSUME NEW c \in Seq(Nat)
  PROVE  Sums(c)[0] = 0 /\ \A k \in 1..Len(c) : Sums(c)[k] = Sums(c)[k - 1] + c[k]
<1>. DEFINE Run(f, n) == f = [k \in 0..n |-> IF k = 0 THEN 0 ELSE f[k - 1] + c[k]]
<1>. DEFINE S == {n \in Nat : \E f : Run(f, n)}
<1>1. 0 \in S
  <2>. DEFINE f == [k \in 0..0 |-> 0]
  <2>1. f = [k \in 0..0 |-> IF k = 0 THEN 0 ELSE f[k - 1] + c[k]]
    OBVIOUS
  <2>2. Run(f, 0)
    BY <2>1
  <2>. HIDE DEF f, Run
  <2>. QED
    BY <2>2
<1>2. ASSUME NEW m \in S PROVE m + 1 \in S
  <2>1. PICK f : Run(f, m)
    OBVIOUS
  <2>. DEFINE g == [k \in 0..(m + 1) |-> IF k <= m THEN f[k] ELSE f[m] + c[m + 1]]
  <2>2. \A k \in 0..m : f[k] = IF k = 0 THEN 0 ELSE f[k - 1] + c[k]
    BY <2>1
  <2>3. ASSUME NEW k \in 0..(m + 1)
        PROVE  g[k] = IF k = 0 THEN 0 ELSE g[k - 1] + c[k]
    <3>1. CASE k <= m
      BY <2>2, <3>1
    <3>2. CASE k = m + 1
      <4>1. k # 0 /\ k - 1 = m /\ ~(k <= m) /\ g[m] = f[m]
        BY <3>2
      <4>. QED
        BY <3>2, <4>1
    <3>. QED
      BY <3>1, <3>2
  <2>4. g = [k \in 0..(m + 1) |-> IF k = 0 THEN 0 ELSE g[k - 1] + c[k]]
    <3>. DEFINE h == [k \in 0..(m + 1) |-> IF k = 0 THEN 0 ELSE g[k - 1] + c[k]]
    <3>1. \A k \in 0..(m + 1) : g[k] = h[k]
      BY <2>3
    <3>2. DOMAIN g = 0..(m + 1) /\ DOMAIN h = 0..(m + 1) /\ g = [k \in DOMAIN g |-> g[k]] /\ h = [k \in DOMAIN h |-> h[k]]
      OBVIOUS
    <3>. HIDE DEF g, h
    <3>3. g = h
      BY <3>1, <3>2
    <3>. QED
      BY <3>3 DEF h
  <2>5. Run(g, m + 1)
    BY <2>4
  <2>. HIDE DEF g, Run
  <2>. QED
    BY <2>5
<1>3. Len(c) \in S
  <2>. HIDE DEF S
  <2>1. S \in SUBSET Nat
    BY DEF S
  <2>2. 0 \in S /\ \A n \in S : n + 1 \in S
    BY <1>1, <1>2
  <2>3. \A n \in Nat : n \in S
    BY <2>1, <2>2, Induction
  <2>4. Len(c) \in Nat
    OBVIOUS
  <2>. QED
    BY <2>3, <2>4
<1>4. PICK sum : Run(sum, Len(c))
  BY <1>3
<1>. DEFINE run == CHOOSE f : f = [k \in 0..Len(c) |-> IF k = 0 THEN 0 ELSE f[k - 1] + c[k]]
<1>5. run = [k \in 0..Len(c) |-> IF k = 0 THEN 0 ELSE run[k - 1] + c[k]]
  BY <1>4
<1>6. Sums(c) = run
  BY DEF Sums
<1>. HIDE DEF run
<1>. QED
  BY <1>5, <1>6

\* Sums of naturals are naturals and do not go down; those of positive numbers go up.
LEMMA SumsGrow ==
  ASSUME NEW c \in Seq(Nat)
  PROVE  /\ \A k \in 0..Len(c) : Sums(c)[k] \in Nat
         /\ \A j, k \in 0..Len(c) : j <= k => Sums(c)[j] <= Sums(c)[k]
<1>. DEFINE Good(k) == Sums(c)[k] \in Nat /\ \A j \in 0..k : Sums(c)[j] \in Nat /\ Sums(c)[j] <= Sums(c)[k]
<1>. DEFINE S == {k \in Nat : k <= Len(c) => Good(k)}
<1>1. Len(c) \in Nat /\ \A k \in 1..Len(c) : c[k] \in Nat
  OBVIOUS
<1>2. 0 \in S
  BY SumsAre
<1>3. ASSUME NEW m \in S PROVE m + 1 \in S
  <2>. SUFFICES ASSUME m + 1 <= Len(c) PROVE Good(m + 1)
    OBVIOUS
  <2>1. m + 1 \in 1..Len(c) /\ m + 1 - 1 = m /\ m <= Len(c)
    BY <1>1
  <2>2. Sums(c)[m + 1] = Sums(c)[m] + c[m + 1]
    BY <2>1, SumsAre
  <2>3. \A j \in 0..(m + 1) : j \in 0..m \/ j = m + 1
    BY <2>1
  <2>4. Good(m)
    BY <2>1
  <2>5. Sums(c)[m + 1] \in Nat /\ Sums(c)[m] <= Sums(c)[m + 1]
    BY <1>1, <2>1, <2>2, <2>4
  <2>. QED
    BY <2>3, <2>4, <2>5
<1>4. \A k \in Nat : k \in S
  <2>. HIDE DEF S
  <2>1. S \in SUBSET Nat
    BY DEF S
  <2>. QED
    BY <1>2, <1>3, <2>1, Induction
<1>. QED
  <2>1. \A k \in 0..Len(c) : Good(k)
    BY <1>4, <1>1
  <2>. QED
    BY <2>1, <1>1

LEMMA SumsOfPositive ==
  ASSUME NEW c \in Seq(Nat), \A k \in 1..Len(c) : c[k] # 0
  PROVE  \A j, k \in 0..Len(c) : j < k => Sums(c)[j] < Sums(c)[k]
<1>. SUFFICES ASSUME NEW j \in 0..Len(c), NEW k \in 0..Len(c), j < k
              PROVE  Sums(c)[j] < Sums(c)[k]
  OBVIOUS
<1>1. k \in 1..Len(c) /\ k - 1 \in 0..Len(c) /\ j <= k - 1 /\ c[k] \in Nat
  OBVIOUS
<1>2. Sums(c)[k] = Sums(c)[k - 1] + c[k]
  BY <1>1, SumsAre
<1>3. Sums(c)[j] \in Nat /\ Sums(c)[k - 1] \in Nat /\ Sums(c)[j] <= Sums(c)[k - 1]
  BY <1>1, SumsGrow
<1>. QED
  BY <1>1, <1>2, <1>3

\* The first sums depend on the first numbers.
LEMMA SumsOfPrefix ==
  ASSUME NEW c \in Seq(Nat), NEW e \in Seq(Nat), NEW n \in 0..Len(c), n <= Len(e),
         \A k \in 1..n : c[k] = e[k]
  PROVE  \A k \in 0..n : Sums(c)[k] = Sums(e)[k]
<1>. DEFINE S == {k \in Nat : k <= n => Sums(c)[k] = Sums(e)[k]}
<1>1. 0 \in S
  BY SumsAre
<1>2. ASSUME NEW m \in S PROVE m + 1 \in S
  <2>. SUFFICES ASSUME m + 1 <= n PROVE Sums(c)[m + 1] = Sums(e)[m + 1]
    OBVIOUS
  <2>1. m + 1 \in 1..Len(c) /\ m + 1 \in 1..Len(e) /\ m + 1 \in 1..n /\ m + 1 - 1 = m
    OBVIOUS
  <2>2. Sums(c)[m + 1] = Sums(c)[m] + c[m + 1] /\ Sums(e)[m + 1] = Sums(e)[m] + e[m + 1]
    BY <2>1, SumsAre
  <2>. QED
    BY <2>1, <2>2
<1>. QED
  <2>1. \A k \in Nat : k \in S
    <3>. HIDE DEF S
    <3>1. S \in SUBSET Nat
      BY DEF S
    <3>. QED
      BY <1>1, <1>2, <3>1, Induction
  <2>. QED
    BY <2>1

\* What is left of the sums when the first `count' of what they count are gone.
LEMMA SumsOfRest ==
  ASSUME NEW c \in Seq(Nat), NEW e \in Seq(Nat), NEW g \in 0..Len(c), Len(e) = Len(c) - g,
         NEW count \in Nat,
         \A k \in 1..Len(e) : e[k] = IF k = 1 THEN Sums(c)[g + 1] - count ELSE c[g + k]
  PROVE  \A k \in 1..Len(e) : Sums(e)[k] = Sums(c)[g + k] - count
<1>. DEFINE S == {k \in Nat : k # 0 /\ k <= Len(e) => Sums(e)[k] = Sums(c)[g + k] - count}
<1>1. Len(e) \in Nat /\ Len(c) \in Nat /\ \A k \in 0..Len(c) : Sums(c)[k] \in Nat
  BY SumsGrow
<1>2. 0 \in S
  OBVIOUS
<1>3. ASSUME NEW m \in S PROVE m + 1 \in S
  <2>. SUFFICES ASSUME m + 1 <= Len(e)
                PROVE  Sums(e)[m + 1] = Sums(c)[g + (m + 1)] - count
    OBVIOUS
  <2>1. m + 1 \in 1..Len(e) /\ m + 1 - 1 = m
    OBVIOUS
  <2>2. Sums(e)[m + 1] = Sums(e)[m] + e[m + 1]
    BY <2>1, SumsAre
  <2>. DEFINE a == g + (m + 1)
  <2>3. a \in 1..Len(c) /\ a - 1 = g + m /\ g + m \in 0..Len(c)
    BY <1>1
  <2>4. CASE m = 0
    <3>1. e[1] = Sums(c)[g + 1] - count /\ Sums(c)[g + 1] \in Nat
      BY <1>1, <2>1, <2>3, <2>4
    <3>2. Sums(e)[0] = 0
      BY SumsAre
    <3>. QED
      BY <2>2, <2>4, <3>1, <3>2
  <2>5. CASE m # 0
    <3>1. Sums(e)[m] = Sums(c)[g + m] - count
      BY <2>1, <2>5
    <3>2. e[m + 1] = c[a]
      BY <2>1, <2>5
    <3>. HIDE DEF a
    <3>3. Sums(c)[a] = Sums(c)[a - 1] + c[a] /\ c[a] \in Nat
      <4>1. \A k \in 1..Len(c) : Sums(c)[k] = Sums(c)[k - 1] + c[k]
        BY SumsAre
      <4>2. Sums(c)[a] = Sums(c)[a - 1] + c[a]
        BY <2>3, <4>1
      <4>3. c[a] \in Nat
        BY <2>3
      <4>. QED
        BY <4>2, <4>3
    <3>4. Sums(c)[g + m] \in Nat
      BY <1>1, <2>3
    <3>5. Sums(e)[m + 1] = Sums(c)[a] - count
      <4>1. Sums(c)[a] = Sums(c)[g + m] + c[a]
        BY <2>3, <3>3
      <4>2. Sums(e)[m + 1] = (Sums(c)[g + m] - count) + c[a]
        BY <2>2, <3>1, <3>2
      <4>3. ASSUME NEW x \in Nat, NEW y \in Nat PROVE (x - count) + y = (x + y) - count
        OBVIOUS
      <4>4. (Sums(c)[g + m] - count) + c[a] = (Sums(c)[g + m] + c[a]) - count
        BY <3>3, <3>4, <4>3
      <4>. QED
        BY <4>1, <4>2, <4>4
    <3>. QED
      BY <3>5 DEF a
  <2>. QED
    BY <2>4, <2>5
<1>4. \A k \in Nat : k \in S
  <2>. HIDE DEF S
  <2>1. S \in SUBSET Nat
    BY DEF S
  <2>. QED
    BY <1>2, <1>3, <2>1, Induction
<1>. QED
  BY <1>4

-----------------------------------------------------------------------------
(* Segments *)

Segment == [count : Nat \ {0}, chunk : Nat]
Byte == Nat \X Nat

\* The segments g say of each byte behind the first c of a stream with which chunk it came.
Covers(g, s, c) ==
  /\ g \in Seq(Segment) /\ c + Arriving(g)[Len(g)] = Len(s)
  /\ \A i \in 1..Len(g) : \A b \in (Arriving(g)[i - 1] + 1)..Arriving(g)[i] : s[c + b][2] = g[i].chunk

Counts(g) == [i \in DOMAIN g |-> g[i].count]

LEMMA CountsAre ==
  ASSUME NEW g \in Seq(Segment)
  PROVE  /\ Len(g) \in Nat /\ \A i \in 1..Len(g) : g[i] \in Segment /\ g[i].count \in Nat \ {0}
         /\ Counts(g) \in Seq(Nat) /\ Len(Counts(g)) = Len(g)
         /\ \A i \in 1..Len(g) : Counts(g)[i] = g[i].count
<1>1. Len(g) \in Nat /\ DOMAIN g = 1..Len(g) /\ \A i \in 1..Len(g) : g[i] \in Segment
  BY LenProperties
<1>2. \A i \in 1..Len(g) : g[i].count \in Nat \ {0}
  BY <1>1 DEF Segment
<1>3. Counts(g) \in [1..Len(g) -> Nat]
  BY <1>1, <1>2 DEF Counts
<1>4. Counts(g) \in Seq(Nat) /\ Len(Counts(g)) = Len(g)
  BY <1>1, <1>3
<1>. QED
  BY <1>1, <1>2, <1>4 DEF Counts

LEMMA ArrivingIs ==
  ASSUME NEW g \in Seq(Segment)
  PROVE  /\ Arriving(g)[0] = 0
         /\ \A i \in 1..Len(g) : Arriving(g)[i] = Arriving(g)[i - 1] + g[i].count
         /\ \A i \in 0..Len(g) : Arriving(g)[i] \in Nat
         /\ \A i, j \in 0..Len(g) : i < j => Arriving(g)[i] < Arriving(g)[j]
<1>. DEFINE c == Counts(g)
<1>1. /\ c \in Seq(Nat) /\ Len(c) = Len(g)
      /\ \A i \in 1..Len(g) : c[i] = g[i].count /\ c[i] # 0
  BY CountsAre
<1>2. Arriving(g) = Sums(c)
  BY DEF Arriving, Counts
<1>. HIDE DEF c
<1>3. Sums(c)[0] = 0 /\ \A k \in 1..Len(c) : Sums(c)[k] = Sums(c)[k - 1] + c[k]
  BY <1>1, SumsAre
<1>4. \A k \in 0..Len(c) : Sums(c)[k] \in Nat
  BY <1>1, SumsGrow
<1>5. \A j, k \in 0..Len(c) : j < k => Sums(c)[j] < Sums(c)[k]
  BY <1>1, SumsOfPositive
<1>. QED
  BY <1>1, <1>2, <1>3, <1>4, <1>5

LEMMA UsedUpIs ==
  ASSUME NEW g \in Seq(Segment), NEW count \in Nat, count <= Arriving(g)[Len(g)]
  PROVE  /\ UsedUp(g, count) \in 0..Len(g) /\ Arriving(g)[UsedUp(g, count)] <= count
         /\ UsedUp(g, count) < Len(g) => count < Arriving(g)[UsedUp(g, count) + 1]
         /\ UsedUp(g, count) = Len(g) <=> count = Arriving(g)[Len(g)]
<1>. DEFINE S == {i \in 0..Len(g) : Arriving(g)[i] <= count}
<1>. DEFINE gone == UsedUp(g, count)
<1>1. Len(g) \in Nat /\ \A i \in 0..Len(g) : Arriving(g)[i] \in Nat
  BY ArrivingIs
<1>2. 0 \in S
  BY <1>1, ArrivingIs
<1>3. gone = Max(S)
  BY DEF UsedUp
<1>4. S \in SUBSET (0..Len(g)) /\ S # {}
  BY <1>2
<1>5. gone \in S /\ \A y \in S : y <= gone
  <2>. HIDE DEF S, gone
  <2>. QED
    BY <1>1, <1>3, <1>4, MaxIsGreatest
<1>. HIDE DEF gone
<1>6. gone < Len(g) => count < Arriving(g)[gone + 1]
  <2>. SUFFICES ASSUME gone < Len(g) PROVE count < Arriving(g)[gone + 1]
    OBVIOUS
  <2>1. gone + 1 \in 0..Len(g) /\ gone + 1 \notin S
    BY <1>1, <1>5
  <2>. QED
    BY <1>1, <2>1
<1>7. gone = Len(g) <=> count = Arriving(g)[Len(g)]
  <2>1. gone = Len(g) => count = Arriving(g)[Len(g)]
    BY <1>1, <1>5
  <2>2. count = Arriving(g)[Len(g)] => Len(g) \in S
    BY <1>1
  <2>. QED
    BY <1>1, <1>5, <2>1, <2>2
<1>. QED
  BY <1>5, <1>6, <1>7 DEF gone

\* consumeBufferedBytes() leaves segments that say the same of the bytes that are left.
LEMMA CoversDrop ==
  ASSUME NEW s \in Seq(Byte), NEW c \in Nat, NEW g, Covers(g, s, c),
         NEW count \in Nat, c + count <= Len(s)
  PROVE  Covers(DropSegments(g, count), s, c + count)
<1>. DEFINE a == Arriving(g)
<1>. DEFINE gone == UsedUp(g, count)
<1>. DEFINE h == DropSegments(g, count)
<1>1. g \in Seq(Segment) /\ c + a[Len(g)] = Len(s)
  BY DEF Covers
<1>2. /\ a[0] = 0 /\ Len(g) \in Nat
      /\ \A i \in 1..Len(g) : a[i] = a[i - 1] + g[i].count
      /\ \A i \in 0..Len(g) : a[i] \in Nat
      /\ \A i, j \in 0..Len(g) : i < j => a[i] < a[j]
  BY <1>1, ArrivingIs
<1>3. count <= a[Len(g)]
  BY <1>1, <1>2
<1>4. /\ gone \in 0..Len(g) /\ a[gone] <= count
      /\ gone < Len(g) => count < a[gone + 1]
      /\ gone = Len(g) <=> count = a[Len(g)]
  BY <1>1, <1>3, UsedUpIs
<1>5. h = [i \in 1..(Len(g) - gone) |-> [g[gone + i] EXCEPT !.count = IF i = 1 THEN a[gone + 1] - count ELSE @]]
  BY DEF DropSegments
<1>. HIDE DEF a, gone, h
<1>6. /\ h \in Seq(Segment) /\ Len(h) = Len(g) - gone
      /\ \A i \in 1..Len(h) : /\ h[i].chunk = g[gone + i].chunk
                              /\ h[i].count = IF i = 1 THEN a[gone + 1] - count ELSE g[gone + i].count
  <2>1. ASSUME NEW i \in 1..(Len(g) - gone)
        PROVE  /\ h[i] \in Segment /\ h[i].chunk = g[gone + i].chunk
               /\ h[i].count = IF i = 1 THEN a[gone + 1] - count ELSE g[gone + i].count
    <3>1. gone + i \in 1..Len(g) /\ g[gone + i] \in Segment
      BY <1>1, <1>2, <1>4
    <3>2. i = 1 => a[gone + 1] - count \in Nat \ {0}
      BY <1>2, <1>4, <3>1
    <3>3. h[i] = [g[gone + i] EXCEPT !.count = IF i = 1 THEN a[gone + 1] - count ELSE g[gone + i].count]
      BY <1>5
    <3>. QED
      BY <3>1, <3>2, <3>3 DEF Segment
  <2>2. Len(g) - gone \in Nat /\ DOMAIN h = 1..(Len(g) - gone)
    BY <1>2, <1>4, <1>5
  <2>3. h \in [1..(Len(g) - gone) -> Segment]
    BY <1>5, <2>1
  <2>4. h \in Seq(Segment) /\ Len(h) = Len(g) - gone
    BY <2>2, <2>3
  <2>. QED
    BY <2>1, <2>4
<1>7. Arriving(h)[0] = 0 /\ \A i \in 1..Len(h) : Arriving(h)[i] = a[gone + i] - count
  <2>. DEFINE d == Counts(g)
  <2>. DEFINE e == Counts(h)
  <2>1. d \in Seq(Nat) /\ Len(d) = Len(g) /\ \A i \in 1..Len(g) : d[i] = g[i].count
    BY <1>1, CountsAre
  <2>2. e \in Seq(Nat) /\ Len(e) = Len(h) /\ \A i \in 1..Len(h) : e[i] = h[i].count
    BY <1>6, CountsAre
  <2>3. a = Sums(d) /\ Arriving(h) = Sums(e)
    BY DEF a, Arriving, Counts
  <2>. HIDE DEF d, e
  <2>4. ASSUME NEW i \in 1..Len(e)
        PROVE  e[i] = IF i = 1 THEN Sums(d)[gone + 1] - count ELSE d[gone + i]
    <3>1. i \in 1..Len(h) /\ gone + i \in 1..Len(g)
      BY <1>2, <1>4, <1>6, <2>2
    <3>. QED
      BY <1>6, <2>1, <2>2, <2>3, <3>1
  <2>5. gone \in 0..Len(d) /\ Len(e) = Len(d) - gone
    BY <1>4, <1>6, <2>1, <2>2
  <2>6. \A i \in 1..Len(e) : Sums(e)[i] = Sums(d)[gone + i] - count
    BY <2>1, <2>2, <2>4, <2>5, SumsOfRest
  <2>7. Arriving(h)[0] = 0
    BY <1>6, ArrivingIs
  <2>. QED
    BY <2>2, <2>3, <2>6, <2>7
<1>8. c + count + Arriving(h)[Len(h)] = Len(s)
  <2>1. CASE gone = Len(g)
    BY <1>1, <1>2, <1>4, <1>6, <1>7, <2>1
  <2>2. CASE gone # Len(g)
    <3>1. Len(h) \in 1..Len(h) /\ gone + Len(h) = Len(g)
      BY <1>2, <1>4, <1>6, <2>2
    <3>2. Arriving(h)[Len(h)] = a[Len(g)] - count
      BY <1>7, <3>1
    <3>. QED
      BY <1>1, <1>2, <3>2
  <2>. QED
    BY <2>1, <2>2
<1>9. ASSUME NEW i \in 1..Len(h), NEW b \in (Arriving(h)[i - 1] + 1)..Arriving(h)[i]
      PROVE  s[c + count + b][2] = h[i].chunk
  <2>. DEFINE k == gone + i
  <2>1. k \in 1..Len(g) /\ k - 1 \in 0..Len(g) /\ a[k] \in Nat /\ a[k - 1] \in Nat
    BY <1>2, <1>4, <1>6
  <2>2. Arriving(h)[i] = a[k] - count
    BY <1>7
  <2>3. Arriving(h)[i - 1] + 1 + count >= a[k - 1] + 1 /\ Arriving(h)[i - 1] \in Int
    <3>. DEFINE x == Arriving(h)[i - 1]
    <3>. DEFINE y == a[k - 1]
    <3>1. CASE i = 1
      <4>1. i - 1 = 0 /\ k - 1 = gone
        BY <1>4, <3>1
      <4>2. x = 0 /\ y <= count /\ y \in Nat
        BY <1>4, <1>7, <2>1, <4>1
      <4>. HIDE DEF x, y, k
      <4>3. x + 1 + count >= y + 1 /\ x \in Int
        BY <4>2
      <4>. QED
        BY <4>3 DEF x, y
    <3>2. CASE i # 1
      <4>1. i - 1 \in 1..Len(h) /\ gone + (i - 1) = k - 1
        BY <1>6, <1>4, <3>2
      <4>2. x = a[gone + (i - 1)] - count
        BY <1>7, <4>1
      <4>3. x = y - count /\ y \in Nat
        BY <2>1, <4>1, <4>2
      <4>. HIDE DEF x, y, k
      <4>4. x + 1 + count >= y + 1 /\ x \in Int
        BY <4>3
      <4>. QED
        BY <4>4 DEF x, y
    <3>. QED
      BY <3>1, <3>2
  <2>. HIDE DEF k
  <2>4. count + b \in (a[k - 1] + 1)..a[k]
    <3>. DEFINE x == Arriving(h)[i - 1]
    <3>. DEFINE y == a[k - 1]
    <3>. DEFINE z == a[k]
    <3>1. b \in Int /\ b >= x + 1 /\ b <= z - count
      BY <2>1, <2>2, <2>3
    <3>2. x \in Int /\ y \in Nat /\ z \in Nat /\ x + 1 + count >= y + 1
      BY <2>1, <2>3
    <3>. HIDE DEF x, y, z
    <3>3. count + b \in (y + 1)..z
      BY <3>1, <3>2
    <3>. QED
      BY <3>3 DEF y, z
  <2>5. s[c + (count + b)][2] = g[k].chunk
    BY <2>1, <2>4 DEF Covers, a
  <2>6. h[i].chunk = g[k].chunk
    BY <1>6 DEF k
  <2>7. c + count + b = c + (count + b)
    BY <2>1, <2>2, <2>3
  <2>. QED
    BY <2>5, <2>6, <2>7
<1>. QED
  BY <1>6, <1>8, <1>9 DEF Covers, h

\* The first segment is that of the first byte.
LEMMA CoversFront ==
  ASSUME NEW s \in Seq(Byte), NEW c \in Nat, NEW g, Covers(g, s, c), c < Len(s)
  PROVE  g # << >> /\ g[1].chunk = s[c + 1][2]
<1>1. g \in Seq(Segment) /\ c + Arriving(g)[Len(g)] = Len(s)
  BY DEF Covers
<1>2. /\ Arriving(g)[0] = 0
      /\ \A i \in 1..Len(g) : Arriving(g)[i] = Arriving(g)[i - 1] + g[i].count
  BY <1>1, ArrivingIs
<1>3. Len(g) # 0
  BY <1>1, <1>2
<1>4. 1 \in 1..Len(g) /\ g[1].count \in Nat \ {0}
  BY <1>1, <1>3, CountsAre
<1>5. Arriving(g)[1] = Arriving(g)[1 - 1] + g[1].count
  BY <1>2, <1>4
<1>6. 1 \in (Arriving(g)[1 - 1] + 1)..Arriving(g)[1]
  BY <1>2, <1>4, <1>5
<1>7. s[c + 1][2] = g[1].chunk
  BY <1>4, <1>6 DEF Covers
<1>. QED
  BY <1>3, <1>7

\* A new chunk is one more segment.
LEMMA CoversAppend ==
  ASSUME NEW s \in Seq(Byte), NEW c \in Nat, NEW g, Covers(g, s, c), NEW t \in Seq(Byte), t # << >>,
         NEW chunk \in Nat, \A i \in 1..Len(t) : t[i][2] = chunk
  PROVE  Covers(Append(g, [count |-> Len(t), chunk |-> chunk]), s \o t, c)
<1>. DEFINE new == [count |-> Len(t), chunk |-> chunk]
<1>. DEFINE h == Append(g, new)
<1>. DEFINE a == Arriving(g)
<1>. DEFINE n == Len(g)
<1>1. /\ g \in Seq(Segment) /\ c + a[n] = Len(s) /\ n \in Nat /\ Len(t) \in Nat \ {0}
      /\ new \in Segment
  BY DEF Covers, Segment
<1>2. /\ h \in Seq(Segment) /\ Len(h) = n + 1 /\ h[n + 1] = new
      /\ \A i \in 1..n : h[i] = g[i]
  BY <1>1
<1>3. \A i \in 0..n : a[i] \in Nat
  BY <1>1, ArrivingIs
<1>4. \A i \in 0..n : Arriving(h)[i] = a[i]
  <2>. DEFINE d == Counts(g)
  <2>. DEFINE e == Counts(h)
  <2>1. d \in Seq(Nat) /\ Len(d) = n /\ \A i \in 1..n : d[i] = g[i].count
    BY <1>1, CountsAre
  <2>. HIDE DEF h, n
  <2>2. e \in Seq(Nat) /\ Len(e) = n + 1 /\ \A i \in 1..(n + 1) : e[i] = h[i].count
    BY <1>2, CountsAre
  <2>3. a = Sums(d) /\ Arriving(h) = Sums(e)
    BY DEF a, Arriving, Counts
  <2>. HIDE DEF d, e, a
  <2>4. n \in 0..Len(e) /\ n <= Len(d) /\ \A i \in 1..n : e[i] = d[i]
    <3>1. n \in Nat /\ \A i \in 1..n : h[i] = g[i]
      BY <1>1, <1>2
    <3>2. n \in 0..Len(e) /\ n <= Len(d)
      BY <2>1, <2>2, <3>1
    <3>3. ASSUME NEW i \in 1..n PROVE e[i] = d[i]
      <4>1. i \in 1..(n + 1)
        BY <3>1
      <4>. QED
        BY <2>1, <2>2, <3>1, <4>1
    <3>. QED
      BY <3>2, <3>3
  <2>5. \A i \in 0..n : Sums(e)[i] = Sums(d)[i]
    BY <2>1, <2>2, <2>4, SumsOfPrefix
  <2>. QED
    BY <2>3, <2>5
<1>. HIDE DEF h, a, new, n
<1>5. Arriving(h)[n + 1] = a[n] + Len(t)
  <2>1. Arriving(h)[n + 1] = Arriving(h)[n + 1 - 1] + h[n + 1].count
    BY <1>1, <1>2, ArrivingIs
  <2>2. n + 1 - 1 = n /\ n \in 0..n
    BY <1>1
  <2>. QED
    BY <1>2, <1>4, <2>1, <2>2 DEF new
<1>6. /\ Len(s \o t) = Len(s) + Len(t)
      /\ \A i \in 1..Len(s) : (s \o t)[i] = s[i]
      /\ \A i \in 1..Len(t) : (s \o t)[Len(s) + i] = t[i]
  OBVIOUS
<1>7. c + Arriving(h)[Len(h)] = Len(s \o t)
  <2>1. a[n] \in Nat /\ Len(s) \in Nat
    BY <1>1, <1>3
  <2>2. Len(h) = n + 1 /\ Len(t) \in Nat /\ Len(s) = c + a[n]
    BY <1>1, <1>2
  <2>3. Arriving(h)[Len(h)] = a[n] + Len(t)
    BY <1>5, <2>2
  <2>. QED
    BY <1>6, <2>1, <2>2, <2>3
<1>8. ASSUME NEW i \in 1..Len(h), NEW b \in (Arriving(h)[i - 1] + 1)..Arriving(h)[i]
      PROVE  (s \o t)[c + b][2] = h[i].chunk
  <2>1. CASE i <= n
    <3>1. i \in 1..n /\ i - 1 \in 0..n /\ i \in 0..n
      BY <1>1, <2>1
    <3>2. b \in (a[i - 1] + 1)..a[i]
      BY <1>4, <3>1
    <3>3. s[c + b][2] = g[i].chunk
      BY <3>1, <3>2 DEF Covers, a, n
    <3>4. a[i] <= a[n] /\ a[i - 1] \in Nat /\ a[n] \in Nat /\ a[i] \in Nat
      <4>1. i < n => Arriving(g)[i] < Arriving(g)[n]
        <5>1. n = Len(g)
          BY DEF n
        <5>2. \A j, k \in 0..Len(g) : j < k => Arriving(g)[j] < Arriving(g)[k]
          BY <1>1, ArrivingIs
        <5>3. i \in 0..Len(g) /\ n \in 0..Len(g)
          BY <1>1, <3>1, <5>1
        <5>. QED
          BY <5>2, <5>3
      <4>2. a[i - 1] \in Nat /\ a[n] \in Nat /\ a[i] \in Nat
        BY <1>1, <1>3, <3>1
      <4>. QED
        BY <4>1, <4>2, <2>1, <1>1 DEF a
    <3>5. c + b \in 1..Len(s)
      <4>. DEFINE x == a[i - 1]
      <4>. DEFINE y == a[i]
      <4>. DEFINE z == a[n]
      <4>1. x \in Nat /\ y \in Nat /\ z \in Nat /\ y <= z
        BY <3>4
      <4>2. b \in (x + 1)..y
        BY <3>2
      <4>3. Len(s) = c + z
        BY <1>1 DEF n
      <4>. HIDE DEF x, y, z
      <4>4. b \in Nat /\ 1 <= c + b /\ c + b <= c + z
        BY <4>1, <4>2
      <4>. QED
        BY <4>3, <4>4
    <3>. QED
      BY <1>2, <1>6, <3>1, <3>3, <3>5
  <2>2. CASE i = n + 1
    <3>1. i - 1 = n /\ n \in 0..n
      BY <1>1, <2>2
    <3>2. b \in (a[n] + 1)..(a[n] + Len(t))
      BY <1>4, <1>5, <2>2, <3>1
    <3>3. a[n] \in Nat
      BY <1>3, <3>1
    <3>4. b - a[n] \in 1..Len(t) /\ c + b = Len(s) + (b - a[n])
      <4>. DEFINE x == a[n]
      <4>. DEFINE y == Len(t)
      <4>. DEFINE z == Len(s)
      <4>1. x \in Nat /\ y \in Nat /\ z = c + x
        BY <1>1, <3>3
      <4>2. b \in (x + 1)..(x + y)
        BY <3>2
      <4>. HIDE DEF x, y, z
      <4>3. b - x \in 1..y /\ c + b = z + (b - x)
        BY <4>1, <4>2
      <4>. QED
        BY <4>3 DEF x, y, z
    <3>5. (s \o t)[c + b] = t[b - a[n]]
      BY <1>6, <3>4
    <3>6. h[i].chunk = chunk
      BY <1>2, <2>2 DEF new
    <3>. QED
      BY <3>4, <3>5, <3>6
  <2>3. i <= n \/ i = n + 1
    <3>1. Len(h) = n + 1 /\ n \in Nat
      BY <1>1, <1>2
    <3>. QED
      BY <3>1
  <2>. QED
    BY <2>1, <2>2, <2>3
<1>. QED
  BY <1>2, <1>7, <1>8 DEF Covers, h, new

-----------------------------------------------------------------------------
(* Judgements *)

IsProtocol(d) == ProtocolType(d) /\ ValidProtocol(d)

LEMMA ProtocolFacts ==
  ASSUME NEW d, IsProtocol(d)
  PROVE  /\ d.header \in Seq(Nat) /\ Len(d.header) \in Nat \ {0}
         /\ d.maximum \in Nat /\ Len(d.header) <= d.maximum
         /\ d.fixed = absent \/ (d.fixed \in Nat /\ Len(d.header) <= d.fixed /\ d.fixed <= d.maximum)
         /\ d.fixed = absent => d.lengthOffset \in Nat /\ d.lengthOffset + 1 <= d.maximum
                                /\ Len(d.header) <= d.lengthOffset
         /\ d.adjustment \in Int
<1>1. /\ d.header \in Seq(Nat) /\ d.maximum \in Nat /\ d.fixed \in Nat \cup {absent}
      /\ d.lengthOffset \in Nat \cup {absent} /\ d.adjustment \in Int
  BY DEF IsProtocol, ProtocolType
<1>2. /\ d.header # << >> /\ (d.fixed = absent) # (d.lengthOffset = absent)
      /\ d.fixed # absent => d.fixed >= Len(d.header) /\ d.fixed <= d.maximum
      /\ d.lengthOffset # absent => d.lengthOffset + 1 <= d.maximum
      /\ d.lengthOffset # absent => d.lengthOffset >= Len(d.header)
  BY DEF IsProtocol, ValidProtocol, LengthIsLimited, NothingOverlaps
<1>3. Len(d.header) \in Nat \ {0}
  BY <1>1, <1>2
<1>4. Len(d.header) <= d.maximum
  BY <1>1, <1>2, <1>3
<1>. QED
  BY <1>1, <1>2, <1>3, <1>4

LEMMA MinOfTwo ==
  ASSUME NEW m \in Nat, NEW n \in Nat
  PROVE  Min({m, n}) = IF m <= n THEN m ELSE n
<1>1. Min({m, n}) \in {m, n} /\ \A y \in {m, n} : Min({m, n}) <= y
  BY MinIsLeast
<1>. QED
  BY <1>1

\* A length is known to lie within the limits; it is not known only of less than a frame, and
\* what is known of it does not change when more bytes arrive.
LEMMA LengthFacts ==
  ASSUME NEW d, IsProtocol(d), NEW b \in Seq(Nat), NEW x \in Seq(Nat)
  PROVE  /\ FrameLength(d, b).verdict \in {"known", "more", "error"}
         /\ FrameLength(d, b).verdict = "known" => FrameLength(d, b).length \in 1..d.maximum
         /\ FrameLength(d, b).verdict = "more" => Len(b) < d.maximum
         /\ FrameLength(d, b).verdict # "more" => FrameLength(d, b \o x) = FrameLength(d, b)
<1>1. /\ Len(d.header) \in Nat \ {0} /\ d.maximum \in Nat /\ d.adjustment \in Int
      /\ d.fixed = absent \/ (d.fixed \in Nat /\ Len(d.header) <= d.fixed /\ d.fixed <= d.maximum)
      /\ d.fixed = absent => d.lengthOffset \in Nat /\ d.lengthOffset + 1 <= d.maximum
  BY ProtocolFacts
<1>2. CASE d.fixed # absent
  <2>1. \A c : FrameLength(d, c) = [verdict |-> "known", length |-> d.fixed]
    BY <1>2 DEF FrameLength
  <2>. QED
    BY <1>1, <1>2, <2>1
<1>3. CASE d.fixed = absent
  <2>1. CASE Len(b) < d.lengthOffset + 1
    <3>1. FrameLength(d, b) = [verdict |-> "more", length |-> 0]
      BY <1>3, <2>1 DEF FrameLength
    <3>2. Len(b) \in Nat
      OBVIOUS
    <3>. QED
      BY <1>1, <1>3, <2>1, <3>1, <3>2
  <2>2. CASE ~(Len(b) < d.lengthOffset + 1)
    <3>. DEFINE length == b[d.lengthOffset + 1] + d.adjustment
    <3>1. d.lengthOffset + 1 \in 1..Len(b) /\ length \in Int
      <4>. DEFINE k == d.lengthOffset + 1
      <4>1. k \in Nat /\ 1 <= k
        BY <1>1, <1>3
      <4>2. Len(b) \in Nat /\ ~(Len(b) < k)
        BY <2>2
      <4>. HIDE DEF k
      <4>3. k \in 1..Len(b)
        BY <4>1, <4>2
      <4>4. b[k] \in Nat
        BY <4>3
      <4>5. b[k] + d.adjustment \in Int
        BY <1>1, <4>4
      <4>. QED
        BY <4>3, <4>5 DEF k
    <3>2. FrameLength(d, b) = IF length <= 0 \/ length > d.maximum \/ length < RequiredLength(d)
                              THEN [verdict |-> "error", length |-> 0]
                              ELSE [verdict |-> "known", length |-> length]
      BY <1>3, <2>2 DEF FrameLength, ByteAt, LengthRefused
    <3>3. ~(Len(b \o x) < d.lengthOffset + 1) /\ (b \o x)[d.lengthOffset + 1] = b[d.lengthOffset + 1]
      BY <1>1, <1>3, <3>1
    <3>4. FrameLength(d, b \o x) = IF length <= 0 \/ length > d.maximum \/ length < RequiredLength(d)
                                   THEN [verdict |-> "error", length |-> 0]
                                   ELSE [verdict |-> "known", length |-> length]
      BY <1>3, <3>3 DEF FrameLength, ByteAt, LengthRefused
    <3>5. FrameLength(d, b \o x) = FrameLength(d, b)
      BY <3>2, <3>4
    <3>. HIDE DEF length
    <3>6. FrameLength(d, b).verdict \in {"known", "error"}
      BY <3>2
    <3>7. FrameLength(d, b).verdict = "known" => FrameLength(d, b).length \in 1..d.maximum
      BY <1>1, <3>1, <3>2
    <3>. QED
      BY <3>5, <3>6, <3>7
  <2>. QED
    BY <2>1, <2>2
<1>. QED
  BY <1>2, <1>3

\* What the first bytes of a sequence are.
LEMMA FirstBytes ==
  ASSUME NEW b \in Seq(Nat), NEW n \in 0..Len(b)
  PROVE  /\ SubSeq(b, 1, n) \in Seq(Nat) /\ Len(SubSeq(b, 1, n)) = n
         /\ \A i \in 1..n : SubSeq(b, 1, n)[i] = b[i]
         /\ \A x \in Seq(Nat) : SubSeq(b \o x, 1, n) = SubSeq(b, 1, n)
<1>1. \A c \in Seq(Nat) : n <= Len(c) => /\ SubSeq(c, 1, n) \in Seq(Nat) /\ Len(SubSeq(c, 1, n)) = n
                                         /\ \A i \in 1..n : SubSeq(c, 1, n)[i] = c[i]
  <2>. SUFFICES ASSUME NEW c \in Seq(Nat), n <= Len(c)
                PROVE  /\ SubSeq(c, 1, n) \in Seq(Nat) /\ Len(SubSeq(c, 1, n)) = n
                       /\ \A i \in 1..n : SubSeq(c, 1, n)[i] = c[i]
    OBVIOUS
  <2>1. \A i \in 1..n : c[i] \in Nat
    OBVIOUS
  <2>2. n - 1 + 1 = n /\ (IF 1 <= n THEN n - 1 + 1 ELSE 0) = n /\ n \in Int /\ 1 \in Int
    OBVIOUS
  <2>3. /\ SubSeq(c, 1, n) \in Seq(Nat) /\ Len(SubSeq(c, 1, n)) = IF 1 <= n THEN n - 1 + 1 ELSE 0
        /\ \A i \in 1..(n - 1 + 1) : SubSeq(c, 1, n)[i] = c[1 + i - 1]
    <3>1. \A i \in 1..n : c[i] \in Nat
      BY <2>1
    <3>2. \A i \in 1..n : i \in 1..Len(c)
      OBVIOUS
    <3>. QED
      BY <2>2, <3>1, <3>2, SubSeqProperties
  <2>. QED
    BY <2>2, <2>3
<1>2. n <= Len(b)
  OBVIOUS
<1>3. ASSUME NEW x \in Seq(Nat) PROVE SubSeq(b \o x, 1, n) = SubSeq(b, 1, n)
  <2>1. b \o x \in Seq(Nat) /\ n <= Len(b \o x) /\ \A i \in 1..n : (b \o x)[i] = b[i]
    BY <1>2
  <2>. QED
    BY <1>1, <1>2, <2>1, SeqEqual
<1>. QED
  BY <1>1, <1>2, <1>3

\* Once the whole header is there, it fits or does not.
LEMMA FitsIsHeader ==
  ASSUME NEW d, IsProtocol(d), NEW rest \in Seq(Nat)
  PROVE  /\ Len(rest) >= Len(d.header) =>
              (PrefixFits(d, rest) <=> SubSeq(rest, 1, Len(d.header)) = d.header)
         /\ Len(rest) < Len(d.header) =>
              (PrefixFits(d, rest) <=> rest = SubSeq(d.header, 1, Len(rest)))
<1>1. d.header \in Seq(Nat) /\ Len(d.header) \in Nat /\ Len(rest) \in Nat
  BY ProtocolFacts
<1>2. SubSeq(d.header, 1, Len(d.header)) = d.header /\ SubSeq(rest, 1, Len(rest)) = rest
  BY <1>1, SubSeqFull
<1>3. Min({Len(d.header), Len(rest)}) = IF Len(d.header) <= Len(rest) THEN Len(d.header) ELSE Len(rest)
  BY <1>1, MinOfTwo
<1>4. PrefixFits(d, rest) <=> SubSeq(rest, 1, Min({Len(d.header), Len(rest)}))
                                = SubSeq(d.header, 1, Min({Len(d.header), Len(rest)}))
  BY DEF PrefixFits
<1>5. CASE Len(d.header) <= Len(rest)
  <2>1. Min({Len(d.header), Len(rest)}) = Len(d.header) /\ ~(Len(rest) < Len(d.header))
    BY <1>1, <1>3, <1>5
  <2>. QED
    BY <1>2, <1>4, <2>1
<1>6. CASE ~(Len(d.header) <= Len(rest))
  <2>1. Min({Len(d.header), Len(rest)}) = Len(rest) /\ ~(Len(rest) >= Len(d.header))
    BY <1>1, <1>3, <1>6
  <2>. QED
    BY <1>2, <1>4, <2>1
<1>. QED
  BY <1>5, <1>6

Verdicts == {"garbage", "length", "checksum", "frame", "decode"}

\* A verdict takes a byte at least, and no more than there are.
LEMMA VerdictFacts ==
  ASSUME NEW d, IsProtocol(d), NEW rest \in Seq(Nat)
  PROVE  /\ Judgement(d, rest).kind \in Verdicts \cup {"more"}
         /\ Judgement(d, rest).kind # "more" => Judgement(d, rest).consumed \in 1..Len(rest)
         /\ Judgement(d, rest).kind = "garbage" => Judgement(d, rest).consumed = 1
         /\ Judgement(d, rest) = [kind |-> Judgement(d, rest).kind, consumed |-> Judgement(d, rest).consumed]
         /\ rest = << >> => Judgement(d, rest).kind = "more"
<1>. DEFINE size == FrameLength(d, rest)
<1>. DEFINE frame == SubSeq(rest, 1, size.length)
<1>1. /\ size.verdict \in {"known", "more", "error"}
      /\ size.verdict = "known" => size.length \in 1..d.maximum
  BY LengthFacts
<1>2. d.header \in Seq(Nat) /\ Len(d.header) \in Nat \ {0} /\ Len(rest) \in Nat /\ d.maximum \in Nat
  BY ProtocolFacts
<1>3. ~PrefixFits(d, rest) => Len(rest) # 0
  <2>1. Len(rest) = 0 => rest = << >> /\ SubSeq(d.header, 1, 0) = << >>
    BY <1>2
  <2>. QED
    BY <1>2, <2>1, FitsIsHeader
<1>4. Judgement(d, rest) =
        IF ~PrefixFits(d, rest) THEN [kind |-> "garbage", consumed |-> 1]
        ELSE IF \/ Len(rest) < Len(d.header)
                \/ size.verdict = "more"
                \/ size.verdict = "known" /\ Len(rest) < size.length
        THEN [kind |-> "more", consumed |-> 0]
        ELSE IF size.verdict = "known" /\ ChecksumMatches(d, frame)
        THEN [kind |-> IF Decodes(d, frame) THEN "frame" ELSE "decode", consumed |-> size.length]
        ELSE [kind |-> IF size.verdict = "error" THEN "length" ELSE "checksum", consumed |-> 1]
  BY DEF Judgement
<1>. HIDE DEF size, frame
<1>. DEFINE j == Judgement(d, rest)
<1>5. CASE ~PrefixFits(d, rest)
  <2>1. j = [kind |-> "garbage", consumed |-> 1]
    BY <1>4, <1>5
  <2>2. 1 \in 1..Len(rest) /\ rest # << >>
    BY <1>2, <1>3, <1>5
  <2>. QED
    BY <2>1, <2>2 DEF Verdicts
<1>6. CASE /\ PrefixFits(d, rest)
           /\ \/ Len(rest) < Len(d.header)
              \/ size.verdict = "more"
              \/ size.verdict = "known" /\ Len(rest) < size.length
  <2>1. j = [kind |-> "more", consumed |-> 0]
    BY <1>4, <1>6
  <2>. QED
    BY <2>1
<1>7. CASE /\ PrefixFits(d, rest) /\ ~(Len(rest) < Len(d.header)) /\ size.verdict # "more"
           /\ ~(size.verdict = "known" /\ Len(rest) < size.length)
  <2>1. 1 \in 1..Len(rest) /\ rest # << >>
    BY <1>2, <1>7
  <2>2. CASE size.verdict = "known" /\ ChecksumMatches(d, frame)
    <3>1. j = [kind |-> IF Decodes(d, frame) THEN "frame" ELSE "decode", consumed |-> size.length]
      BY <1>4, <1>7, <2>2
    <3>2. size.length \in 1..Len(rest)
      BY <1>1, <1>2, <1>7, <2>2
    <3>3. j.kind \in {"frame", "decode"} /\ j.consumed = size.length
      BY <3>1
    <3>4. j = [kind |-> j.kind, consumed |-> j.consumed]
      BY <3>1
    <3>. QED
      BY <2>1, <3>2, <3>3, <3>4 DEF Verdicts
  <2>3. CASE ~(size.verdict = "known" /\ ChecksumMatches(d, frame))
    <3>1. j = [kind |-> IF size.verdict = "error" THEN "length" ELSE "checksum", consumed |-> 1]
      BY <1>4, <1>7, <2>3
    <3>2. j.kind \in {"length", "checksum"} /\ j.consumed = 1
      BY <3>1
    <3>. QED
      BY <2>1, <3>1, <3>2 DEF Verdicts
  <2>. QED
    BY <2>2, <2>3
<1>. QED
  BY <1>5, <1>6, <1>7

\* A verdict stands, whatever arrives behind the bytes it was given on.
LEMMA VerdictStands ==
  ASSUME NEW d, IsProtocol(d), NEW rest \in Seq(Nat), NEW x \in Seq(Nat),
         Judgement(d, rest).kind # "more"
  PROVE  Judgement(d, rest \o x) = Judgement(d, rest)
<1>. DEFINE more == rest \o x
<1>1. /\ d.header \in Seq(Nat) /\ Len(d.header) \in Nat \ {0} /\ Len(rest) \in Nat
      /\ more \in Seq(Nat) /\ Len(more) \in Nat /\ Len(rest) <= Len(more)
  BY ProtocolFacts
<1>2. ~PrefixFits(d, rest) => ~PrefixFits(d, more)
  <2>. SUFFICES ASSUME PrefixFits(d, more) PROVE PrefixFits(d, rest)
    OBVIOUS
  <2>1. CASE Len(rest) >= Len(d.header)
    <3>1. Len(more) >= Len(d.header) /\ Len(d.header) \in 0..Len(rest)
      BY <1>1, <2>1
    <3>2. SubSeq(more, 1, Len(d.header)) = SubSeq(rest, 1, Len(d.header))
      BY <3>1, FirstBytes
    <3>. QED
      BY <1>1, <2>1, <3>1, <3>2, FitsIsHeader
  <2>2. CASE Len(rest) < Len(d.header)
    <3>1. SubSeq(d.header, 1, Len(rest)) \in Seq(Nat) /\ Len(SubSeq(d.header, 1, Len(rest))) = Len(rest)
          /\ \A i \in 1..Len(rest) : SubSeq(d.header, 1, Len(rest))[i] = d.header[i]
      BY <1>1, <2>2, FirstBytes
    <3>2. \A i \in 1..Len(rest) : more[i] = rest[i]
      BY <1>1
    <3>3. \A i \in 1..Len(rest) : more[i] = d.header[i]
      <4>1. CASE Len(more) >= Len(d.header)
        <5>1. SubSeq(more, 1, Len(d.header)) = d.header
          BY <1>1, <4>1, FitsIsHeader
        <5>2. Len(d.header) \in 0..Len(more)
          BY <1>1, <4>1
        <5>3. \A i \in 1..Len(d.header) : SubSeq(more, 1, Len(d.header))[i] = more[i]
          BY <1>1, <5>2, FirstBytes
        <5>. QED
          BY <1>1, <2>2, <5>1, <5>3
      <4>2. CASE Len(more) < Len(d.header)
        <5>1. more = SubSeq(d.header, 1, Len(more))
          BY <1>1, <4>2, FitsIsHeader
        <5>2. Len(more) \in 0..Len(d.header)
          BY <1>1, <4>2
        <5>3. \A i \in 1..Len(more) : SubSeq(d.header, 1, Len(more))[i] = d.header[i]
          BY <1>1, <5>2, FirstBytes
        <5>. DEFINE first == SubSeq(d.header, 1, Len(more))
        <5>4. more = first /\ \A i \in 1..Len(more) : first[i] = d.header[i]
          BY <5>1, <5>3
        <5>. HIDE DEF first, more
        <5>. QED
          BY <1>1, <5>4
      <4>. QED
        BY <1>1, <4>1, <4>2
    <3>4. rest = SubSeq(d.header, 1, Len(rest))
      BY <3>1, <3>2, <3>3, SeqEqual
    <3>. QED
      BY <1>1, <2>2, <3>4, FitsIsHeader
  <2>. QED
    BY <1>1, <2>1, <2>2
<1>3. CASE ~PrefixFits(d, rest)
  BY <1>2, <1>3 DEF Judgement
<1>4. CASE PrefixFits(d, rest)
  <2>1. /\ ~(Len(rest) < Len(d.header)) /\ FrameLength(d, rest).verdict # "more"
        /\ ~(FrameLength(d, rest).verdict = "known" /\ Len(rest) < FrameLength(d, rest).length)
    BY <1>4 DEF Judgement
  <2>2. Len(d.header) \in 0..Len(rest) /\ Len(more) >= Len(d.header) /\ Len(rest) >= Len(d.header)
    BY <1>1, <2>1
  <2>3. SubSeq(more, 1, Len(d.header)) = SubSeq(rest, 1, Len(d.header))
    BY <2>2, FirstBytes
  <2>4. PrefixFits(d, more)
    BY <1>1, <1>4, <2>2, <2>3, FitsIsHeader
  <2>5. /\ FrameLength(d, more) = FrameLength(d, rest)
        /\ FrameLength(d, rest).verdict = "known" => FrameLength(d, rest).length \in 1..d.maximum
    BY <2>1, LengthFacts
  <2>6. FrameLength(d, rest).verdict = "known" =>
          /\ FrameLength(d, rest).length \in 0..Len(rest)
          /\ ~(Len(more) < FrameLength(d, rest).length)
    <3>1. d.maximum \in Nat
      BY ProtocolFacts
    <3>. QED
      BY <1>1, <2>1, <2>5, <3>1
  <2>7. FrameLength(d, rest).verdict = "known" =>
          SubSeq(more, 1, FrameLength(d, rest).length) = SubSeq(rest, 1, FrameLength(d, rest).length)
    BY <2>6, FirstBytes
  <2>8. ~(Len(more) < Len(d.header))
    BY <1>1, <2>2
  <2>. HIDE DEF more
  <2>. DEFINE Verdict(l, f) == IF l.verdict = "known" /\ ChecksumMatches(d, f)
                               THEN [kind |-> IF Decodes(d, f) THEN "frame" ELSE "decode", consumed |-> l.length]
                               ELSE [kind |-> IF l.verdict = "error" THEN "length" ELSE "checksum", consumed |-> 1]
  <2>. DEFINE l == FrameLength(d, rest)
  <2>9. Judgement(d, rest) = Verdict(l, SubSeq(rest, 1, l.length))
    BY <1>4, <2>1, Zenon DEF Judgement
  <2>10. Judgement(d, more) = Verdict(FrameLength(d, more), SubSeq(more, 1, FrameLength(d, more).length))
    <3>1. /\ FrameLength(d, more).verdict # "more"
          /\ ~(FrameLength(d, more).verdict = "known" /\ Len(more) < FrameLength(d, more).length)
      BY <2>1, <2>5, <2>6
    <3>. QED
      BY <2>4, <2>8, <3>1, Zenon DEF Judgement
  <2>11. Judgement(d, more) = Judgement(d, rest)
    <3>1. FrameLength(d, more) = l /\ (l.verdict = "known" => SubSeq(more, 1, l.length) = SubSeq(rest, 1, l.length))
      BY <2>5, <2>7
    <3>2. CASE l.verdict = "known"
      <4>. HIDE DEF Verdict, l
      <4>. QED
        BY <2>9, <2>10, <3>1, <3>2
    <3>3. CASE l.verdict # "known"
      <4>1. \A f, g : Verdict(l, f) = Verdict(l, g)
        BY <3>3
      <4>. HIDE DEF Verdict, l
      <4>. QED
        BY <2>9, <2>10, <3>1, <4>1
    <3>. QED
      BY <3>2, <3>3
  <2>. QED
    BY <2>11 DEF more
<1>. QED
  BY <1>3, <1>4

-----------------------------------------------------------------------------
(* What the loop of consume() keeps *)

Event == [kind : Verdicts \cup {"oversize"}, chunk : Nat, consumed : Nat \ {0}, bytes : Seq(Nat)]
Parser == [buffer : Seq(Nat), segments : Seq(Segment), events : Seq(Event)]

Later(b, i) == SubSeq(b, i + 1, Len(b))
Told(p, base) == SubSeq(p.events, base + 1, Len(p.events))
Done(p, base) == Offsets(Told(p, base))[Len(Told(p, base))]

\* An event says of the bytes from offset o on what the reference says of them.
Matches(d, s, o, kind, count) ==
  IF kind = "garbage" THEN \A i \in o..(o + count - 1) : Judgement(d, Later(Bytes(s), i)).kind = "garbage"
  ELSE Judgement(d, Later(Bytes(s), o)) = [kind |-> kind, consumed |-> count]
EventInv(d, s, e, o) ==
  /\ o + e.consumed <= Len(s) /\ e.chunk = s[o + 1][2]
  /\ Matches(d, s, o, e.kind, e.consumed)

LoopInv(d, s, base, p) ==
  /\ p \in Parser /\ base \in 0..Len(p.events)
  /\ Done(p, base) <= Len(s)
  /\ p.buffer = Later(Bytes(s), Done(p, base))
  /\ Covers(p.segments, s, Done(p, base))
  /\ \A n \in 1..Len(Told(p, base)) : EventInv(d, s, Told(p, base)[n], Offsets(Told(p, base))[n - 1])

\* Nothing can be said of the buffer before more arrives.
Unfinished(d, b) == Len(b) < d.maximum /\ Judgement(d, b).kind = "more"

LEMMA LaterIs ==
  ASSUME NEW S, NEW b \in Seq(S), NEW i \in 0..Len(b)
  PROVE  /\ Later(b, i) \in Seq(S) /\ Len(Later(b, i)) = Len(b) - i
         /\ \A k \in 1..(Len(b) - i) : Later(b, i)[k] = b[i + k]
         /\ \A j \in 0..(Len(b) - i) : Later(Later(b, i), j) = Later(b, i + j)
         /\ Later(b, 0) = b
<1>1. \A j \in 0..Len(b) : /\ Later(b, j) \in Seq(S) /\ Len(Later(b, j)) = Len(b) - j
                           /\ \A k \in 1..(Len(b) - j) : Later(b, j)[k] = b[j + k]
  <2>. SUFFICES ASSUME NEW j \in 0..Len(b)
                PROVE  /\ Later(b, j) \in Seq(S) /\ Len(Later(b, j)) = Len(b) - j
                       /\ \A k \in 1..(Len(b) - j) : Later(b, j)[k] = b[j + k]
    OBVIOUS
  <2>1. j + 1 \in Int /\ Len(b) \in Int /\ Len(b) \in Nat /\ \A k \in (j + 1)..Len(b) : b[k] \in S
    OBVIOUS
  <2>2. /\ Later(b, j) \in Seq(S) /\ Len(Later(b, j)) = IF j + 1 <= Len(b) THEN Len(b) - (j + 1) + 1 ELSE 0
        /\ \A k \in 1..(Len(b) - (j + 1) + 1) : Later(b, j)[k] = b[j + 1 + k - 1]
    BY <2>1, SubSeqProperties DEF Later
  <2>. QED
    BY <2>1, <2>2
<1>2. Len(b) \in Nat /\ i \in Nat
  OBVIOUS
<1>3. ASSUME NEW j \in 0..(Len(b) - i) PROVE Later(Later(b, i), j) = Later(b, i + j)
  <2>. DEFINE a == Later(b, i)
  <2>1. a \in Seq(S) /\ Len(a) = Len(b) - i /\ \A k \in 1..(Len(b) - i) : a[k] = b[i + k]
    BY <1>1
  <2>2. i + j \in 0..Len(b)
    BY <1>2
  <2>3. /\ Later(b, i + j) \in Seq(S) /\ Len(Later(b, i + j)) = Len(b) - (i + j)
        /\ \A k \in 1..(Len(b) - (i + j)) : Later(b, i + j)[k] = b[i + j + k]
    BY <1>1, <2>2
  <2>. HIDE DEF a
  <2>4. j + 1 \in Int /\ Len(a) \in Int /\ \A k \in (j + 1)..Len(a) : a[k] \in S
    BY <2>1
  <2>5. /\ Later(a, j) \in Seq(S) /\ Len(Later(a, j)) = IF j + 1 <= Len(a) THEN Len(a) - (j + 1) + 1 ELSE 0
        /\ \A k \in 1..(Len(a) - (j + 1) + 1) : Later(a, j)[k] = a[j + 1 + k - 1]
    BY <2>4, SubSeqProperties DEF Later
  <2>6. Len(Later(a, j)) = Len(b) - (i + j)
    <3>1. Len(a) = Len(b) - i /\ j \in Nat /\ j <= Len(b) - i
      BY <1>2, <2>1
    <3>2. Len(Later(a, j)) = IF j + 1 <= Len(a) THEN Len(a) - (j + 1) + 1 ELSE 0
      BY <2>5
    <3>. QED
      BY <1>2, <3>1, <3>2
  <2>7. ASSUME NEW k \in 1..Len(Later(a, j)) PROVE Later(a, j)[k] = Later(b, i + j)[k]
    <3>1. k \in 1..(Len(a) - (j + 1) + 1) /\ j + 1 + k - 1 = j + k /\ j + k \in 1..(Len(b) - i)
          /\ k \in 1..(Len(b) - (i + j)) /\ i + (j + k) = i + j + k
      BY <1>2, <2>1, <2>6
    <3>2. Later(a, j)[k] = a[j + k]
      BY <2>5, <3>1
    <3>3. a[j + k] = b[i + (j + k)]
      BY <2>1, <3>1
    <3>. QED
      BY <2>3, <3>1, <3>2, <3>3
  <2>8. Later(a, j) = Later(b, i + j)
    BY <2>3, <2>5, <2>6, <2>7, SeqEqual
  <2>. QED
    BY <2>8 DEF a
<1>4. Later(b, 0) = b
  BY <1>2, SubSeqFull DEF Later
<1>. QED
  BY <1>1, <1>3, <1>4

LEMMA BytesAre ==
  ASSUME NEW s \in Seq(Byte)
  PROVE  Bytes(s) \in Seq(Nat) /\ Len(Bytes(s)) = Len(s)
<1>1. Len(s) \in Nat /\ \A i \in 1..Len(s) : s[i][1] \in Nat
  BY DEF Byte
<1>2. Bytes(s) \in [1..Len(s) -> Nat]
  BY <1>1 DEF Bytes
<1>. QED
  BY <1>1, <1>2

LEMMA OffsetsAre ==
  ASSUME NEW r \in Seq(Event)
  PROVE  /\ Offsets(r)[0] = 0 /\ Len(r) \in Nat
         /\ \A n \in 1..Len(r) : Offsets(r)[n] = Offsets(r)[n - 1] + r[n].consumed
         /\ \A n \in 0..Len(r) : Offsets(r)[n] \in Nat
         /\ \A m, n \in 0..Len(r) : m < n => Offsets(r)[m] < Offsets(r)[n]
         /\ \A e \in Event : /\ \A n \in 0..Len(r) : Offsets(Append(r, e))[n] = Offsets(r)[n]
                             /\ Offsets(Append(r, e))[Len(r) + 1] = Offsets(r)[Len(r)] + e.consumed
<1>. DEFINE c(q) == [n \in DOMAIN q |-> q[n].consumed]
<1>1. ASSUME NEW q \in Seq(Event)
      PROVE  /\ c(q) \in Seq(Nat) /\ Len(c(q)) = Len(q) /\ Offsets(q) = Sums(c(q)) /\ Len(q) \in Nat
             /\ \A n \in 1..Len(q) : c(q)[n] = q[n].consumed /\ c(q)[n] # 0
  <2>1. Len(q) \in Nat /\ DOMAIN q = 1..Len(q) /\ \A n \in 1..Len(q) : q[n] \in Event
    BY LenProperties
  <2>2. \A n \in 1..Len(q) : q[n].consumed \in Nat \ {0}
    BY <2>1 DEF Event
  <2>3. c(q) \in [1..Len(q) -> Nat]
    BY <2>1, <2>2
  <2>4. c(q) \in Seq(Nat) /\ Len(c(q)) = Len(q)
    BY <2>1, <2>3
  <2>5. Offsets(q) = Sums(c(q))
    BY DEF Offsets
  <2>. QED
    BY <2>1, <2>2, <2>4, <2>5
<1>. HIDE DEF c
<1>2. \A n \in 1..Len(r) : Offsets(r)[n] = Offsets(r)[n - 1] + r[n].consumed
  BY <1>1, SumsAre
<1>3. ASSUME NEW e \in Event
      PROVE  /\ \A n \in 0..Len(r) : Offsets(Append(r, e))[n] = Offsets(r)[n]
             /\ Offsets(Append(r, e))[Len(r) + 1] = Offsets(r)[Len(r)] + e.consumed
  <2>. DEFINE q == Append(r, e)
  <2>1. /\ q \in Seq(Event) /\ Len(q) = Len(r) + 1 /\ q[Len(r) + 1] = e /\ Len(r) \in Nat
        /\ \A n \in 1..Len(r) : q[n] = r[n]
    BY AppendProperties
  <2>. HIDE DEF q
  <2>2. Len(r) \in 0..Len(c(q)) /\ Len(r) <= Len(c(r)) /\ \A n \in 1..Len(r) : c(q)[n] = c(r)[n]
    <3>1. c(q) \in Seq(Nat) /\ Len(c(q)) = Len(r) + 1 /\ Len(c(r)) = Len(r)
      BY <1>1, <2>1
    <3>2. ASSUME NEW n \in 1..Len(r) PROVE c(q)[n] = c(r)[n]
      <4>1. n \in 1..Len(q)
        BY <2>1
      <4>2. c(q)[n] = q[n].consumed /\ c(r)[n] = r[n].consumed
        BY <1>1, <2>1, <4>1
      <4>. QED
        BY <2>1, <4>2
    <3>. QED
      BY <2>1, <3>1, <3>2
  <2>3. \A n \in 0..Len(r) : Sums(c(q))[n] = Sums(c(r))[n]
    BY <1>1, <2>1, <2>2, SumsOfPrefix
  <2>4. Sums(c(q))[Len(r) + 1] = Sums(c(q))[Len(r)] + c(q)[Len(r) + 1]
    <3>1. Len(r) + 1 \in 1..Len(c(q)) /\ Len(r) + 1 - 1 = Len(r)
      BY <1>1, <2>1
    <3>2. c(q) \in Seq(Nat)
      BY <1>1, <2>1
    <3>. QED
      BY <3>1, <3>2, SumsAre
  <2>5. c(q)[Len(r) + 1] = e.consumed
    BY <1>1, <2>1
  <2>6. Sums(c(q))[Len(r)] = Sums(c(r))[Len(r)]
    BY <2>1, <2>3
  <2>7. Offsets(q) = Sums(c(q)) /\ Offsets(r) = Sums(c(r))
    BY <1>1, <2>1
  <2>. QED
    BY <2>3, <2>4, <2>5, <2>6, <2>7 DEF q
<1>4. Offsets(r)[0] = 0 /\ Len(r) \in Nat
  BY <1>1, SumsAre
<1>5. \A n \in 0..Len(r) : Offsets(r)[n] \in Nat
  BY <1>1, SumsGrow
<1>6. \A m, n \in 0..Len(r) : m < n => Offsets(r)[m] < Offsets(r)[n]
  <2>1. c(r) \in Seq(Nat) /\ \A k \in 1..Len(c(r)) : c(r)[k] # 0
    BY <1>1
  <2>2. \A m, n \in 0..Len(c(r)) : m < n => Sums(c(r))[m] < Sums(c(r))[n]
    BY <2>1, SumsOfPositive
  <2>. QED
    BY <1>1, <2>2
<1>. QED
  BY <1>2, <1>3, <1>4, <1>5, <1>6

LEMMA ToldAppends ==
  ASSUME NEW p \in Parser, NEW base \in 0..Len(p.events), NEW q, NEW e \in Event,
         q.events = Append(p.events, e)
  PROVE  Told(p, base) \in Seq(Event) /\ Told(q, base) = Append(Told(p, base), e)
<1>. DEFINE a == p.events
<1>. DEFINE g == Append(a, e)
<1>. DEFINE r == Later(a, base)
<1>. DEFINE t == Append(r, e)
<1>1. a \in Seq(Event) /\ Len(a) \in Nat /\ base \in 0..Len(a)
  BY DEF Parser
<1>2. Told(p, base) = r /\ Told(q, base) = Later(g, base)
  BY DEF Told, Later
<1>. HIDE DEF a
<1>3. /\ g \in Seq(Event) /\ Len(g) = Len(a) + 1 /\ g[Len(a) + 1] = e
      /\ \A i \in 1..Len(a) : g[i] = a[i]
  BY <1>1, AppendProperties
<1>. HIDE DEF g
<1>4. /\ r \in Seq(Event) /\ Len(r) = Len(a) - base
      /\ \A i \in 1..(Len(a) - base) : r[i] = a[base + i]
  BY <1>1, LaterIs
<1>5. base \in 0..Len(g)
  BY <1>1, <1>3
<1>6. /\ Later(g, base) \in Seq(Event) /\ Len(Later(g, base)) = Len(g) - base
      /\ \A i \in 1..(Len(g) - base) : Later(g, base)[i] = g[base + i]
  BY <1>3, <1>5, LaterIs
<1>. HIDE DEF r
<1>7. /\ t \in Seq(Event) /\ Len(t) = Len(r) + 1 /\ t[Len(r) + 1] = e
      /\ \A i \in 1..Len(r) : t[i] = r[i]
  BY <1>4, AppendProperties
<1>. HIDE DEF t
<1>8. Len(Later(g, base)) = Len(t)
  BY <1>1, <1>3, <1>4, <1>6, <1>7
<1>9. ASSUME NEW i \in 1..Len(Later(g, base)) PROVE Later(g, base)[i] = t[i]
  <2>1. Later(g, base)[i] = g[base + i]
    BY <1>6
  <2>2. CASE i <= Len(a) - base
    <3>1. i \in 1..(Len(a) - base) /\ base + i \in 1..Len(a) /\ i \in 1..Len(r)
      BY <1>1, <1>4, <1>6, <2>2
    <3>. QED
      BY <1>3, <1>4, <1>7, <2>1, <3>1
  <2>3. CASE ~(i <= Len(a) - base)
    <3>1. Len(Later(g, base)) = Len(a) + 1 - base /\ i \in Int /\ i <= Len(Later(g, base))
      BY <1>1, <1>3, <1>6
    <3>2. i = Len(r) + 1 /\ base + i = Len(a) + 1
      BY <1>1, <1>4, <2>3, <3>1
    <3>. QED
      BY <1>3, <1>7, <2>1, <3>2
  <2>. QED
    BY <2>2, <2>3
<1>10. Later(g, base) = t
  BY <1>6, <1>7, <1>8, <1>9, SeqEqual
<1>. QED
  BY <1>2, <1>4, <1>10 DEF t

-----------------------------------------------------------------------------
(* The search for the header *)

\* A header at an offset is one that the rest begins with.
LEMMA HeaderIs ==
  ASSUME NEW d, IsProtocol(d), NEW b \in Seq(Nat), NEW i \in 0..Len(b)
  PROVE  /\ i + Len(d.header) <= Len(b) =>
              (HeaderAt(d, b, i) <=> PrefixFits(d, Later(b, i)))
         /\ HeaderAt(d, b, i) => i + Len(d.header) <= Len(b)
         /\ i + Len(d.header) <= Len(b) /\ ~HeaderAt(d, b, i) => Judgement(d, Later(b, i)).kind = "garbage"
<1>. DEFINE n == Len(d.header)
<1>. DEFINE a == Later(b, i)
<1>1. d.header \in Seq(Nat) /\ n \in Nat \ {0} /\ Len(b) \in Nat
  BY ProtocolFacts
<1>2. a \in Seq(Nat) /\ Len(a) = Len(b) - i /\ \A k \in 1..(Len(b) - i) : a[k] = b[i + k]
  BY LaterIs
<1>3. HeaderAt(d, b, i) <=> i + n <= Len(b) /\ SubSeq(b, i + 1, i + n) = d.header
  BY DEF HeaderAt
<1>. HIDE DEF a, n
<1>4. ASSUME i + n <= Len(b)
      PROVE  HeaderAt(d, b, i) <=> PrefixFits(d, a)
  <2>1. n \in 0..Len(a) /\ Len(a) >= n
    BY <1>1, <1>2, <1>4
  <2>2. /\ SubSeq(a, 1, n) \in Seq(Nat) /\ Len(SubSeq(a, 1, n)) = n
        /\ \A k \in 1..n : SubSeq(a, 1, n)[k] = a[k]
    BY <1>2, <2>1, FirstBytes
  <2>3. /\ SubSeq(b, i + 1, i + n) \in Seq(Nat) /\ Len(SubSeq(b, i + 1, i + n)) = n
        /\ \A k \in 1..n : SubSeq(b, i + 1, i + n)[k] = b[i + k]
    <3>. DEFINE first == i + 1
    <3>. DEFINE last == i + n
    <3>1. first \in Int /\ last \in Int /\ \A k \in first..last : b[k] \in Nat
      BY <1>1, <1>4
    <3>. HIDE DEF first, last
    <3>2. /\ SubSeq(b, first, last) \in Seq(Nat)
          /\ Len(SubSeq(b, first, last)) = IF first <= last THEN last - first + 1 ELSE 0
          /\ \A k \in 1..(last - first + 1) : SubSeq(b, first, last)[k] = b[first + k - 1]
      BY <3>1, SubSeqProperties
    <3>3. first <= last /\ last - first + 1 = n /\ \A k \in 1..n : first + k - 1 = i + k
      BY <1>1 DEF first, last
    <3>. QED
      BY <3>2, <3>3 DEF first, last
  <2>4. \A k \in 1..n : a[k] = b[i + k]
    BY <1>1, <1>2, <2>1
  <2>5. SubSeq(a, 1, n) = SubSeq(b, i + 1, i + n)
    <3>1. \A k \in 1..n : SubSeq(a, 1, n)[k] = SubSeq(b, i + 1, i + n)[k]
      BY <2>2, <2>3, <2>4
    <3>. QED
      BY <2>2, <2>3, <3>1, SeqEqual
  <2>6. PrefixFits(d, a) <=> SubSeq(a, 1, n) = d.header
    BY <1>2, <2>1, FitsIsHeader DEF n
  <2>. QED
    BY <1>3, <1>4, <2>5, <2>6
<1>5. ASSUME i + n <= Len(b), ~HeaderAt(d, b, i) PROVE Judgement(d, a).kind = "garbage"
  <2>1. ~PrefixFits(d, a)
    BY <1>4, <1>5
  <2>. QED
    BY <2>1 DEF Judgement
<1>. QED
  BY <1>3, <1>4, <1>5 DEF a, n

\* partialHeaderSuffix(): what it keeps may become a header, and nothing before it.
LEMMA PartialIs ==
  ASSUME NEW d, IsProtocol(d), NEW b \in Seq(Nat), \A i \in 0..(Len(b) - 1) : ~HeaderAt(d, b, i)
  PROVE  /\ PartialHeader(d, b) \in 0..Len(b) /\ PartialHeader(d, b) < Len(d.header)
         /\ \A i \in 0..(Len(b) - PartialHeader(d, b) - 1) : Judgement(d, Later(b, i)).kind = "garbage"
         /\ Judgement(d, Later(b, Len(b) - PartialHeader(d, b))).kind = "more"
<1>. DEFINE n == Len(d.header)
<1>. DEFINE m == Min({Len(b), n - 1})
<1>. DEFINE S == {0} \cup {k \in 1..m : SubSeq(b, Len(b) - k + 1, Len(b)) = SubSeq(d.header, 1, k)}
<1>. DEFINE keep == PartialHeader(d, b)
<1>1. d.header \in Seq(Nat) /\ n \in Nat \ {0} /\ Len(b) \in Nat
  BY ProtocolFacts
<1>2. m \in Nat /\ m <= Len(b) /\ m <= n - 1 /\ (m = Len(b) \/ m = n - 1)
  <2>1. n - 1 \in Nat
    BY <1>1
  <2>2. m = IF Len(b) <= n - 1 THEN Len(b) ELSE n - 1
    BY <1>1, <2>1, MinOfTwo
  <2>. HIDE DEF m
  <2>. QED
    BY <1>1, <2>1, <2>2
<1>3. keep = Max(S)
  BY DEF PartialHeader
<1>. HIDE DEF keep, m
<1>4. S \in SUBSET (0..m) /\ S # {}
  BY <1>2
<1>5. keep \in S /\ \A k \in S : k <= keep
  <2>. HIDE DEF S
  <2>. QED
    BY <1>2, <1>3, <1>4, MaxIsGreatest
<1>6. keep \in 0..Len(b) /\ keep < n
  BY <1>1, <1>2, <1>4, <1>5
<1>7. ASSUME NEW k \in 0..Len(b), k < n
      PROVE  PrefixFits(d, Later(b, Len(b) - k)) <=> k \in S
  <2>. DEFINE a == Later(b, Len(b) - k)
  <2>1. Len(b) - k \in 0..Len(b) /\ k \in Nat
    BY <1>1, <1>7
  <2>2. a \in Seq(Nat) /\ Len(a) = k
    <3>1. a \in Seq(Nat) /\ Len(a) = Len(b) - (Len(b) - k)
      BY <2>1, LaterIs
    <3>. QED
      BY <1>1, <2>1, <3>1
  <2>3. PrefixFits(d, a) <=> a = SubSeq(d.header, 1, k)
    BY <1>1, <1>7, <2>2, FitsIsHeader
  <2>4. a = SubSeq(b, Len(b) - k + 1, Len(b))
    BY DEF Later
  <2>. HIDE DEF a
  <2>5. CASE k = 0
    <3>1. a = << >> /\ SubSeq(d.header, 1, 0) = << >>
      BY <1>1, <2>2, <2>5
    <3>. QED
      BY <2>3, <2>5, <3>1 DEF a
  <2>6. CASE k # 0
    <3>1. k \in 1..m
      BY <1>1, <1>2, <1>7, <2>1, <2>6
    <3>2. k \in S <=> SubSeq(b, Len(b) - k + 1, Len(b)) = SubSeq(d.header, 1, k)
      BY <2>6, <3>1
    <3>. QED
      BY <2>3, <2>4, <3>2 DEF a
  <2>. QED
    BY <2>5, <2>6
<1>8. ASSUME NEW i \in 0..(Len(b) - keep - 1) PROVE Judgement(d, Later(b, i)).kind = "garbage"
  <2>1. i \in 0..Len(b) /\ i \in 0..(Len(b) - 1) /\ i + keep < Len(b)
    BY <1>1, <1>6
  <2>2. CASE i + n <= Len(b)
    BY <2>1, <2>2, HeaderIs DEF n
  <2>3. CASE ~(i + n <= Len(b))
    <3>. DEFINE k == Len(b) - i
    <3>1. k \in 0..Len(b) /\ k < n /\ k > keep /\ Len(b) - k = i
      BY <1>1, <1>6, <2>1, <2>3
    <3>. HIDE DEF k
    <3>2. k \notin S
      BY <1>5, <1>6, <3>1
    <3>3. ~PrefixFits(d, Later(b, i))
      BY <1>7, <3>1, <3>2
    <3>. QED
      BY <3>3 DEF Judgement
  <2>. QED
    BY <2>2, <2>3
<1>9. Judgement(d, Later(b, Len(b) - keep)).kind = "more"
  <2>. DEFINE a == Later(b, Len(b) - keep)
  <2>1. PrefixFits(d, a)
    BY <1>5, <1>6, <1>7
  <2>2. Len(a) = keep
    <3>1. Len(b) - keep \in 0..Len(b)
      BY <1>1, <1>6
    <3>2. Len(a) = Len(b) - (Len(b) - keep)
      BY <3>1, LaterIs
    <3>. QED
      BY <1>1, <1>6, <3>2
  <2>3. Len(a) < Len(d.header)
    BY <1>6, <2>2 DEF n
  <2>. HIDE DEF a
  <2>4. Judgement(d, a) = [kind |-> "more", consumed |-> 0]
    BY <2>1, <2>3, Zenon DEF Judgement
  <2>. QED
    BY <2>4 DEF a
<1>. QED
  BY <1>6, <1>8, <1>9 DEF keep, n

\* At a header, the loop does what the reference says.
LEMMA FrameIsJudged ==
  ASSUME NEW d, IsProtocol(d), NEW b \in Seq(Nat), HeaderAt(d, b, 0)
  PROVE  /\ Judgement(d, b) = FrameVerdict(d, b)
         /\ FrameVerdict(d, b).kind \in {"more", "length", "checksum", "frame", "decode"}
         /\ FrameVerdict(d, b).kind \in {"checksum", "frame", "decode"} => FrameLength(d, b).length \in 0..Len(b)
         /\ FrameVerdict(d, b).kind = "more" => Len(b) < d.maximum
<1>. DEFINE l == FrameLength(d, b)
<1>. DEFINE frame == SubSeq(b, 1, l.length)
<1>1. Len(b) \in Nat /\ Len(d.header) \in Nat /\ d.maximum \in Nat
  BY ProtocolFacts
<1>2. PrefixFits(d, b) /\ ~(Len(b) < Len(d.header))
  <2>1. 0 \in 0..Len(b) /\ Later(b, 0) = b
    BY <1>1, LaterIs
  <2>2. 0 + Len(d.header) <= Len(b) /\ PrefixFits(d, Later(b, 0))
    BY <2>1, HeaderIs
  <2>. QED
    BY <1>1, <2>1, <2>2
<1>3. /\ l.verdict \in {"known", "more", "error"} /\ (l.verdict = "known" => l.length \in 1..d.maximum)
      /\ (l.verdict = "more" => Len(b) < d.maximum)
  BY LengthFacts
<1>4. Judgement(d, b) =
        IF l.verdict = "more" \/ (l.verdict = "known" /\ Len(b) < l.length) THEN [kind |-> "more", consumed |-> 0]
        ELSE IF l.verdict = "known" /\ ChecksumMatches(d, frame)
        THEN [kind |-> IF Decodes(d, frame) THEN "frame" ELSE "decode", consumed |-> l.length]
        ELSE [kind |-> IF l.verdict = "error" THEN "length" ELSE "checksum", consumed |-> 1]
  BY <1>2, Zenon DEF Judgement
<1>5. CASE l.verdict = "more"
  <2>1. FrameVerdict(d, b) = [kind |-> "more", consumed |-> 0]
    BY <1>5 DEF FrameVerdict
  <2>. QED
    BY <1>3, <1>4, <1>5, <2>1
<1>6. CASE l.verdict = "error"
  <2>1. FrameVerdict(d, b) = [kind |-> "length", consumed |-> 1]
    BY <1>6 DEF FrameVerdict
  <2>. QED
    BY <1>4, <1>6, <2>1
<1>7. CASE l.verdict = "known"
  <2>1. FrameVerdict(d, b) =
          IF Len(b) < l.length THEN [kind |-> "more", consumed |-> 0]
          ELSE IF ~ChecksumMatches(d, frame) THEN [kind |-> "checksum", consumed |-> 1]
          ELSE [kind |-> IF Decodes(d, frame) THEN "frame" ELSE "decode", consumed |-> l.length]
    BY <1>7 DEF FrameVerdict, DamagedBytes
  <2>. HIDE DEF l, frame
  <2>2. CASE Len(b) < l.length
    <3>1. FrameVerdict(d, b) = [kind |-> "more", consumed |-> 0] /\ Len(b) < d.maximum
      BY <1>1, <1>3, <1>7, <2>1, <2>2
    <3>. QED
      BY <1>4, <1>7, <2>2, <3>1
  <2>3. CASE ~(Len(b) < l.length) /\ ~ChecksumMatches(d, frame)
    <3>1. FrameVerdict(d, b) = [kind |-> "checksum", consumed |-> 1] /\ l.length \in 0..Len(b)
      BY <1>1, <1>3, <1>7, <2>1, <2>3
    <3>. QED
      BY <1>4, <1>7, <2>3, <3>1 DEF l
  <2>4. CASE ~(Len(b) < l.length) /\ ChecksumMatches(d, frame)
    <3>1. /\ FrameVerdict(d, b) = [kind |-> IF Decodes(d, frame) THEN "frame" ELSE "decode", consumed |-> l.length]
          /\ l.length \in 0..Len(b)
      BY <1>1, <1>3, <1>7, <2>1, <2>4
    <3>2. Judgement(d, b) = [kind |-> IF Decodes(d, frame) THEN "frame" ELSE "decode", consumed |-> l.length]
      BY <1>4, <1>7, <2>4
    <3>3. FrameVerdict(d, b).kind \in {"frame", "decode"}
      BY <3>1
    <3>. QED
      BY <3>1, <3>2, <3>3 DEF l
  <2>. QED
    BY <2>2, <2>3, <2>4
<1>. QED
  BY <1>3, <1>5, <1>6, <1>7

-----------------------------------------------------------------------------
(* The loop of consume() *)

LEMMA LoopFacts ==
  ASSUME NEW d, NEW s \in Seq(Byte), NEW base, NEW p, LoopInv(d, s, base, p)
  PROVE  /\ p \in Parser /\ base \in 0..Len(p.events) /\ p.buffer \in Seq(Nat)
         /\ Told(p, base) \in Seq(Event)
         /\ Done(p, base) \in 0..Len(s) /\ p.buffer = Later(Bytes(s), Done(p, base))
         /\ Bytes(s) \in Seq(Nat) /\ Len(Bytes(s)) = Len(s) /\ Len(p.buffer) = Len(s) - Done(p, base)
         /\ Covers(p.segments, s, Done(p, base))
<1>1. /\ p \in Parser /\ base \in 0..Len(p.events) /\ Done(p, base) <= Len(s)
      /\ p.buffer = Later(Bytes(s), Done(p, base)) /\ Covers(p.segments, s, Done(p, base))
  BY DEF LoopInv
<1>2. p.events \in Seq(Event) /\ p.buffer \in Seq(Nat)
  BY <1>1 DEF Parser
<1>3. Told(p, base) \in Seq(Event)
  BY <1>1, <1>2, LaterIs DEF Told, Later
<1>4. Done(p, base) \in Nat
  <2>1. Len(Told(p, base)) \in 0..Len(Told(p, base))
    BY <1>3
  <2>. QED
    BY <1>3, <2>1, OffsetsAre DEF Done
<1>5. Bytes(s) \in Seq(Nat) /\ Len(Bytes(s)) = Len(s) /\ Len(s) \in Nat
  BY BytesAre
<1>6. Done(p, base) \in 0..Len(s)
  BY <1>1, <1>4, <1>5
<1>7. Len(p.buffer) = Len(s) - Done(p, base)
  <2>. DEFINE c == Done(p, base)
  <2>1. c \in 0..Len(Bytes(s))
    BY <1>5, <1>6
  <2>. HIDE DEF c
  <2>2. Len(Later(Bytes(s), c)) = Len(s) - c
    BY <1>5, <2>1, LaterIs
  <2>. QED
    BY <1>1, <2>2 DEF c
<1>. QED
  BY <1>1, <1>2, <1>3, <1>5, <1>6, <1>7

\* One event that says what the reference says.
LEMMA ReportKeeps ==
  ASSUME NEW d, NEW s \in Seq(Byte), NEW base, NEW p, LoopInv(d, s, base, p),
         NEW kind \in Verdicts, NEW told \in 0..Len(p.buffer), NEW count \in 1..Len(p.buffer),
         Matches(d, s, Done(p, base), kind, count)
  PROVE  /\ LoopInv(d, s, base, Reported(p, kind, told, count))
         /\ Reported(p, kind, told, count).buffer = Later(p.buffer, count)
         /\ Len(Reported(p, kind, told, count).buffer) = Len(p.buffer) - count
<1>. DEFINE c == Done(p, base)
<1>. DEFINE e == [kind |-> kind, chunk |-> FrontChunk(p), consumed |-> count, bytes |-> SubSeq(p.buffer, 1, told)]
<1>. DEFINE q == Reported(p, kind, told, count)
<1>. DEFINE r == Told(p, base)
<1>1. /\ p \in Parser /\ base \in 0..Len(p.events) /\ p.buffer \in Seq(Nat) /\ r \in Seq(Event)
      /\ c \in 0..Len(s) /\ p.buffer = Later(Bytes(s), c)
      /\ Bytes(s) \in Seq(Nat) /\ Len(Bytes(s)) = Len(s) /\ Len(p.buffer) = Len(s) - c
      /\ Covers(p.segments, s, c)
  BY LoopFacts
<1>2. Len(s) \in Nat /\ c \in Nat /\ count \in Nat \ {0} /\ c + count <= Len(s) /\ c < Len(s)
  BY <1>1
<1>. HIDE DEF c
<1>3. c + 1 \in 1..Len(s) /\ s[c + 1][2] \in Nat
  <2>1. c + 1 \in 1..Len(s)
    BY <1>2
  <2>2. s[c + 1] \in Byte
    BY <2>1
  <2>. QED
    BY <2>1, <2>2 DEF Byte
<1>4. FrontChunk(p) = s[c + 1][2]
  BY <1>1, <1>2, CoversFront DEF FrontChunk
<1>5. e \in Event
  <2>1. SubSeq(p.buffer, 1, told) \in Seq(Nat)
    BY <1>1, FirstBytes
  <2>. QED
    BY <1>2, <1>3, <1>4, <2>1 DEF Event
<1>. HIDE DEF e, r
<1>6. q = [p EXCEPT !.events = Append(p.events, e), !.buffer = Later(p.buffer, count),
                    !.segments = DropSegments(p.segments, count)]
  <2>1. p = [buffer |-> p.buffer, segments |-> p.segments, events |-> p.events]
    BY <1>1 DEF Parser
  <2>. QED
    BY <2>1 DEF Reported, Taken, Later, e
<1>. HIDE DEF q
<1>7. q.events = Append(p.events, e) /\ q.buffer = Later(p.buffer, count) /\ q.segments = DropSegments(p.segments, count)
  BY <1>1, <1>6 DEF Parser
<1>8. Covers(q.segments, s, c + count)
  BY <1>1, <1>2, <1>7, CoversDrop
<1>9. /\ Later(p.buffer, count) \in Seq(Nat) /\ Len(Later(p.buffer, count)) = Len(p.buffer) - count
      /\ Later(p.buffer, count) = Later(Bytes(s), c + count)
  <2>1. count \in 0..Len(p.buffer) /\ c \in 0..Len(Bytes(s)) /\ count \in 0..(Len(Bytes(s)) - c)
    BY <1>1, <1>2
  <2>2. Later(p.buffer, count) \in Seq(Nat) /\ Len(Later(p.buffer, count)) = Len(p.buffer) - count
    BY <1>1, <2>1, LaterIs
  <2>3. Later(Later(Bytes(s), c), count) = Later(Bytes(s), c + count)
    BY <1>1, <2>1, LaterIs
  <2>. QED
    BY <1>1, <2>2, <2>3
<1>10. q \in Parser /\ base \in 0..Len(q.events)
  <2>1. p.events \in Seq(Event)
    BY <1>1 DEF Parser
  <2>2. Append(p.events, e) \in Seq(Event) /\ Len(Append(p.events, e)) = Len(p.events) + 1 /\ Len(p.events) \in Nat
    BY <1>5, <2>1
  <2>3. q.segments \in Seq(Segment)
    BY <1>8 DEF Covers
  <2>4. q \in Parser
    BY <1>1, <1>6, <1>7, <1>9, <2>2, <2>3 DEF Parser
  <2>5. Len(q.events) = Len(p.events) + 1
    BY <1>7, <2>2
  <2>6. base \in 0..Len(p.events)
    BY <1>1
  <2>7. base \in 0..Len(q.events)
    BY <2>2, <2>5, <2>6
  <2>. QED
    BY <2>4, <2>7
<1>11. Told(q, base) = Append(r, e)
  BY <1>1, <1>5, <1>7, ToldAppends DEF r
<1>12. /\ Len(r) \in Nat /\ Len(Append(r, e)) = Len(r) + 1 /\ Append(r, e)[Len(r) + 1] = e
       /\ \A n \in 1..Len(r) : Append(r, e)[n] = r[n]
  <2>1. r \in Seq(Event)
    BY <1>1
  <2>. QED
    BY <1>5, <2>1, AppendProperties
<1>13. /\ \A n \in 0..Len(r) : Offsets(Append(r, e))[n] = Offsets(r)[n]
       /\ Offsets(Append(r, e))[Len(r) + 1] = Offsets(r)[Len(r)] + count
  BY <1>1, <1>5, OffsetsAre DEF e
<1>14. c = Offsets(r)[Len(r)]
  BY DEF c, Done, r
<1>15. Done(q, base) = c + count
  BY <1>11, <1>12, <1>13, <1>14 DEF Done
<1>16. EventInv(d, s, e, c)
  BY <1>2, <1>4 DEF EventInv, e, c
<1>17. ASSUME NEW n \in 1..Len(Told(q, base))
       PROVE  EventInv(d, s, Told(q, base)[n], Offsets(Told(q, base))[n - 1])
  <2>1. CASE n = Len(r) + 1
    <3>1. Told(q, base)[n] = e /\ Offsets(Told(q, base))[n - 1] = c
      <4>1. n - 1 = Len(r) /\ Len(r) \in 0..Len(r)
        BY <1>12, <2>1
      <4>. QED
        BY <1>11, <1>12, <1>13, <1>14, <2>1, <4>1
    <3>. QED
      BY <1>16, <3>1
  <2>2. CASE n # Len(r) + 1
    <3>1. n \in 1..Len(r) /\ n - 1 \in 0..Len(r)
      BY <1>11, <1>12, <2>2
    <3>2. Told(q, base)[n] = r[n] /\ Offsets(Told(q, base))[n - 1] = Offsets(r)[n - 1]
      BY <1>11, <1>12, <1>13, <3>1
    <3>3. EventInv(d, s, r[n], Offsets(r)[n - 1])
      BY <3>1 DEF LoopInv, r
    <3>. QED
      BY <3>2, <3>3
  <2>. QED
    BY <2>1, <2>2
<1>18. LoopInv(d, s, base, q)
  BY <1>2, <1>7, <1>8, <1>9, <1>10, <1>15, <1>17 DEF LoopInv
<1>. QED
  BY <1>7, <1>9, <1>18 DEF q

\* A discarded stretch, in which the reference sees only garbage.
LEMMA DiscardKeeps ==
  ASSUME NEW d, NEW s \in Seq(Byte), NEW base, NEW p, LoopInv(d, s, base, p),
         NEW count \in 0..Len(p.buffer),
         \A i \in 0..(count - 1) : Judgement(d, Later(p.buffer, i)).kind = "garbage"
  PROVE  /\ LoopInv(d, s, base, Discarded(p, count))
         /\ Discarded(p, count).buffer = Later(p.buffer, count)
         /\ Len(Discarded(p, count).buffer) = Len(p.buffer) - count
<1>1. CASE count = 0
  <2>1. Discarded(p, count) = p
    BY <1>1 DEF Discarded
  <2>2. p.buffer \in Seq(Nat) /\ 0 \in 0..Len(p.buffer) /\ Len(p.buffer) \in Nat
    BY LoopFacts
  <2>3. Later(p.buffer, 0) = p.buffer
    BY <2>2, LaterIs
  <2>. QED
    BY <1>1, <2>1, <2>2, <2>3
<1>2. CASE count # 0
  <2>. DEFINE c == Done(p, base)
  <2>1. /\ p.buffer \in Seq(Nat) /\ c \in 0..Len(s) /\ p.buffer = Later(Bytes(s), c)
        /\ Bytes(s) \in Seq(Nat) /\ Len(Bytes(s)) = Len(s) /\ Len(p.buffer) = Len(s) - c
    BY LoopFacts
  <2>2. count \in 1..Len(p.buffer) /\ "garbage" \in Verdicts
    BY <1>2, <2>1 DEF Verdicts
  <2>. HIDE DEF c
  <2>3. ASSUME NEW i \in c..(c + count - 1)
        PROVE  Judgement(d, Later(Bytes(s), i)).kind = "garbage"
    <3>. DEFINE j == i - c
    <3>1. j \in 0..(count - 1) /\ c \in 0..Len(Bytes(s)) /\ j \in 0..(Len(Bytes(s)) - c) /\ c + j = i
      BY <2>1, <2>2
    <3>. HIDE DEF j
    <3>2. Later(Later(Bytes(s), c), j) = Later(Bytes(s), c + j)
      BY <2>1, <3>1, LaterIs
    <3>3. Judgement(d, Later(p.buffer, j)).kind = "garbage"
      BY <3>1
    <3>. QED
      BY <2>1, <3>1, <3>2, <3>3
  <2>4. Matches(d, s, c, "garbage", count)
    BY <2>3 DEF Matches
  <2>5. Discarded(p, count) = Reported(p, "garbage", count, count)
    BY <1>2 DEF Discarded
  <2>. QED
    BY <2>2, <2>4, <2>5, ReportKeeps DEF c
<1>. QED
  BY <1>1, <1>2

LEMMA DiscardLeaves ==
  ASSUME NEW p \in Parser, NEW count \in 0..Len(p.buffer)
  PROVE  /\ Discarded(p, count).buffer = Later(p.buffer, count)
         /\ Len(Discarded(p, count).buffer) = Len(p.buffer) - count
<1>1. p.buffer \in Seq(Nat) /\ p = [buffer |-> p.buffer, segments |-> p.segments, events |-> p.events]
  BY DEF Parser
<1>2. Later(p.buffer, 0) = p.buffer /\ Len(Later(p.buffer, count)) = Len(p.buffer) - count
  <2>1. 0 \in 0..Len(p.buffer)
    BY <1>1
  <2>. QED
    BY <1>1, <2>1, LaterIs
<1>3. CASE count = 0
  BY <1>1, <1>2, <1>3 DEF Discarded
<1>4. CASE count # 0
  <2>1. Discarded(p, count).buffer = Later(p.buffer, count)
    BY <1>1, <1>4 DEF Discarded, Reported, Taken, Later
  <2>. QED
    BY <1>2, <2>1
<1>. QED
  BY <1>3, <1>4

LEMMA TurnKeeps ==
  ASSUME NEW d, IsProtocol(d), NEW s \in Seq(Byte), NEW base, NEW p, LoopInv(d, s, base, p),
         NEW t, t = Turn(d, [at |-> p, goesOn |-> TRUE])
  PROVE  /\ LoopInv(d, s, base, t.at) /\ t.goesOn \in BOOLEAN /\ t = [at |-> t.at, goesOn |-> t.goesOn]
         /\ t.goesOn => Len(t.at.buffer) < Len(p.buffer)
         /\ ~t.goesOn => Unfinished(d, t.at.buffer)
<1>. DEFINE b == p.buffer
<1>. DEFINE starts == {i \in 0..(Len(b) - 1) : HeaderAt(d, b, i)}
<1>. DEFINE v == FrameVerdict(d, b)
<1>. DEFINE told == IF v.kind = "length" THEN Min({Len(b), Len(d.header) + 8}) ELSE FrameLength(d, b).length
<1>1. /\ b \in Seq(Nat) /\ Done(p, base) \in 0..Len(s) /\ b = Later(Bytes(s), Done(p, base))
      /\ Len(b) \in Nat
  BY LoopFacts DEF b
<1>2. Len(d.header) \in Nat \ {0} /\ d.maximum \in Nat /\ Len(d.header) <= d.maximum
  BY ProtocolFacts
<1>3. t = IF starts = {}
          THEN [at |-> Discarded(p, Len(b) - PartialHeader(d, b)), goesOn |-> FALSE]
          ELSE IF Min(starts) > 0 THEN [at |-> Discarded(p, Min(starts)), goesOn |-> TRUE]
          ELSE IF v.kind = "more" THEN [at |-> p, goesOn |-> FALSE]
          ELSE [at |-> Reported(p, v.kind, told, v.consumed), goesOn |-> TRUE]
  BY DEF Turn
<1>20. t = [at |-> t.at, goesOn |-> t.goesOn]
  BY <1>3
<1>. HIDE DEF v, told, b
<1>4. CASE starts = {}
  <2>. DEFINE keep == PartialHeader(d, b)
  <2>1. \A i \in 0..(Len(b) - 1) : ~HeaderAt(d, b, i)
    BY <1>4
  <2>2. /\ keep \in 0..Len(b) /\ keep < Len(d.header)
        /\ \A i \in 0..(Len(b) - keep - 1) : Judgement(d, Later(b, i)).kind = "garbage"
        /\ Judgement(d, Later(b, Len(b) - keep)).kind = "more"
    BY <1>1, <2>1, PartialIs
  <2>. HIDE DEF keep
  <2>. DEFINE gone == Len(b) - keep
  <2>3. gone \in 0..Len(b) /\ gone = Len(b) - keep
    BY <1>1, <2>2
  <2>7. \A i \in 0..(gone - 1) : Judgement(d, Later(b, i)).kind = "garbage"
    BY <2>2
  <2>. HIDE DEF gone
  <2>8. gone \in 0..Len(p.buffer)
    BY <2>3 DEF b
  <2>9. \A i \in 0..(gone - 1) : Judgement(d, Later(p.buffer, i)).kind = "garbage"
    BY <2>7 DEF b
  <2>10. /\ LoopInv(d, s, base, Discarded(p, gone))
         /\ Discarded(p, gone).buffer = Later(p.buffer, gone)
         /\ Len(Discarded(p, gone).buffer) = Len(p.buffer) - gone
    <3>1. LoopInv(d, s, base, Discarded(p, gone))
      BY <2>8, <2>9, DiscardKeeps
    <3>2. p \in Parser
      BY LoopFacts
    <3>. QED
      BY <2>8, <3>1, <3>2, DiscardLeaves
  <2>4. /\ LoopInv(d, s, base, Discarded(p, gone))
        /\ Discarded(p, gone).buffer = Later(b, gone)
        /\ Len(Discarded(p, gone).buffer) = Len(b) - gone
    BY <2>10 DEF b
  <2>5. t.at = Discarded(p, gone) /\ t.goesOn = FALSE
    BY <1>3, <1>4 DEF keep, gone
  <2>6. Unfinished(d, t.at.buffer)
    BY <1>1, <1>2, <2>2, <2>3, <2>4, <2>5 DEF Unfinished
  <2>. QED
    BY <1>20, <2>4, <2>5, <2>6 DEF b
<1>5. CASE starts # {} /\ Min(starts) > 0
  <2>. DEFINE m == Min(starts)
  <2>1. starts \in SUBSET Nat
    OBVIOUS
  <2>2. m \in starts /\ \A i \in starts : m <= i
    <3>. HIDE DEF starts
    <3>. QED
      BY <1>5, <2>1, MinIsLeast
  <2>3. m \in 0..(Len(b) - 1) /\ HeaderAt(d, b, m)
    BY <2>2
  <2>4. m > 0
    BY <1>5
  <2>5. t.at = Discarded(p, m) /\ t.goesOn = TRUE
    BY <1>3, <1>5
  <2>. HIDE DEF m
  <2>6. ASSUME NEW i \in 0..(m - 1) PROVE Judgement(d, Later(b, i)).kind = "garbage"
    <3>1. i \in 0..(Len(b) - 1) /\ i \in 0..Len(b) /\ m \in 0..Len(b)
      BY <1>1, <2>3
    <3>2. i \notin starts
      BY <2>2, <2>3
    <3>3. m + Len(d.header) <= Len(b)
      BY <1>1, <2>3, <3>1, HeaderIs
    <3>4. i + Len(d.header) <= Len(b)
      BY <1>1, <1>2, <2>3, <3>3
    <3>. QED
      BY <1>1, <3>1, <3>2, <3>4, HeaderIs
  <2>7. m \in 0..Len(b)
    BY <1>1, <2>3
  <2>8. LoopInv(d, s, base, Discarded(p, m)) /\ Len(Discarded(p, m).buffer) = Len(b) - m
    BY <2>6, <2>7, DiscardKeeps DEF b
  <2>9. Len(t.at.buffer) < Len(b)
    BY <1>1, <2>4, <2>5, <2>7, <2>8
  <2>. QED
    BY <1>20, <2>5, <2>8, <2>9 DEF b
<1>6. CASE starts # {} /\ ~(Min(starts) > 0)
  <2>1. HeaderAt(d, b, 0) /\ Len(b) > 0
    <3>1. starts \in SUBSET Nat
      OBVIOUS
    <3>2. Min(starts) \in starts
      <4>. HIDE DEF starts
      <4>. QED
        BY <1>6, <3>1, MinIsLeast
    <3>3. Min(starts) = 0
      <4>1. Min(starts) \in Nat
        BY <3>2
      <4>. QED
        BY <1>6, <4>1
    <3>. QED
      BY <1>1, <3>2, <3>3
  <2>2. /\ Judgement(d, b) = v
        /\ v.kind \in {"more", "length", "checksum", "frame", "decode"}
        /\ v.kind \in {"checksum", "frame", "decode"} => FrameLength(d, b).length \in 0..Len(b)
        /\ v.kind = "more" => Len(b) < d.maximum
    BY <1>1, <2>1, FrameIsJudged DEF v
  <2>3. CASE v.kind = "more"
    <3>1. t.at = p /\ t.goesOn = FALSE
      BY <1>3, <1>6, <2>3
    <3>2. Unfinished(d, t.at.buffer)
      BY <2>2, <2>3, <3>1 DEF Unfinished, b
    <3>. QED
      BY <1>20, <3>1, <3>2 DEF b
  <2>4. CASE v.kind # "more"
    <3>1. v.consumed \in 1..Len(b) /\ v = [kind |-> v.kind, consumed |-> v.consumed]
      BY <1>1, <2>2, <2>4, VerdictFacts
    <3>2. v.kind \in Verdicts /\ v.kind # "garbage"
      BY <2>2, <2>4 DEF Verdicts
    <3>3. told \in 0..Len(b)
      <4>1. CASE v.kind = "length"
        <5>1. Len(d.header) + 8 \in Nat
          BY <1>2
        <5>2. Min({Len(b), Len(d.header) + 8}) = IF Len(b) <= Len(d.header) + 8 THEN Len(b) ELSE Len(d.header) + 8
          BY <1>1, <5>1, MinOfTwo
        <5>. QED
          BY <1>1, <4>1, <5>1, <5>2 DEF told
      <4>2. CASE v.kind # "length"
        BY <2>2, <2>4, <4>2 DEF told
      <4>. QED
        BY <4>1, <4>2
    <3>4. Matches(d, s, Done(p, base), v.kind, v.consumed)
      BY <1>1, <2>2, <3>1, <3>2 DEF Matches
    <3>5. /\ LoopInv(d, s, base, Reported(p, v.kind, told, v.consumed))
          /\ Len(Reported(p, v.kind, told, v.consumed).buffer) = Len(b) - v.consumed
      <4>. DEFINE kind == v.kind
      <4>. DEFINE count == v.consumed
      <4>1. kind \in Verdicts /\ count \in 1..Len(b) /\ Matches(d, s, Done(p, base), kind, count)
        BY <3>1, <3>2, <3>4
      <4>. HIDE DEF kind, count
      <4>2. /\ LoopInv(d, s, base, Reported(p, kind, told, count))
            /\ Len(Reported(p, kind, told, count).buffer) = Len(b) - count
        BY <3>3, <4>1, ReportKeeps DEF b
      <4>. QED
        BY <4>2 DEF kind, count
    <3>6. t.at = Reported(p, v.kind, told, v.consumed) /\ t.goesOn = TRUE
      BY <1>3, <1>6, <2>4
    <3>7. Len(t.at.buffer) < Len(b)
      BY <1>1, <3>1, <3>5, <3>6
    <3>. QED
      BY <1>20, <3>5, <3>6, <3>7 DEF b
  <2>. QED
    BY <2>3, <2>4
<1>. QED
  BY <1>4, <1>5, <1>6, <1>20

LEMMA TurnsAre ==
  ASSUME NEW d, NEW p, Len(p.buffer) \in Nat
  PROVE  /\ Turns(d, p)[0] = [at |-> p, goesOn |-> TRUE]
         /\ \A k \in 1..(Len(p.buffer) + 1) : Turns(d, p)[k] = Turn(d, Turns(d, p)[k - 1])
<1>. DEFINE N == Len(p.buffer) + 1
<1>. DEFINE Start == [at |-> p, goesOn |-> TRUE]
<1>. DEFINE Run(f, n) == f = [k \in 0..n |-> IF k = 0 THEN Start ELSE Turn(d, f[k - 1])]
<1>. DEFINE S == {n \in Nat : \E f : Run(f, n)}
<1>0. N \in Nat
  OBVIOUS
<1>. HIDE DEF N, Start
<1>1. 0 \in S
  <2>. DEFINE f == [k \in 0..0 |-> Start]
  <2>1. f = [k \in 0..0 |-> IF k = 0 THEN Start ELSE Turn(d, f[k - 1])]
    OBVIOUS
  <2>2. Run(f, 0)
    BY <2>1
  <2>. HIDE DEF f, Run
  <2>. QED
    BY <2>2
<1>2. ASSUME NEW m \in S PROVE m + 1 \in S
  <2>1. PICK f : Run(f, m)
    OBVIOUS
  <2>. DEFINE g == [k \in 0..(m + 1) |-> IF k <= m THEN f[k] ELSE Turn(d, f[m])]
  <2>2. \A k \in 0..m : f[k] = IF k = 0 THEN Start ELSE Turn(d, f[k - 1])
    BY <2>1
  <2>3. ASSUME NEW k \in 0..(m + 1)
        PROVE  g[k] = IF k = 0 THEN Start ELSE Turn(d, g[k - 1])
    <3>1. CASE k <= m
      BY <2>2, <3>1
    <3>2. CASE k = m + 1
      <4>1. k # 0 /\ k - 1 = m /\ ~(k <= m) /\ g[m] = f[m]
        BY <3>2
      <4>. QED
        BY <3>2, <4>1
    <3>. QED
      BY <3>1, <3>2
  <2>4. g = [k \in 0..(m + 1) |-> IF k = 0 THEN Start ELSE Turn(d, g[k - 1])]
    <3>. DEFINE h == [k \in 0..(m + 1) |-> IF k = 0 THEN Start ELSE Turn(d, g[k - 1])]
    <3>1. \A k \in 0..(m + 1) : g[k] = h[k]
      BY <2>3
    <3>2. DOMAIN g = 0..(m + 1) /\ DOMAIN h = 0..(m + 1) /\ g = [k \in DOMAIN g |-> g[k]] /\ h = [k \in DOMAIN h |-> h[k]]
      OBVIOUS
    <3>. HIDE DEF g, h
    <3>3. g = h
      BY <3>1, <3>2
    <3>. QED
      BY <3>3 DEF h
  <2>5. Run(g, m + 1)
    BY <2>4
  <2>. HIDE DEF g, Run
  <2>. QED
    BY <2>5
<1>3. N \in S
  <2>. HIDE DEF S
  <2>1. S \in SUBSET Nat
    BY DEF S
  <2>. QED
    BY <1>0, <1>1, <1>2, <2>1, Induction
<1>4. PICK u : Run(u, N)
  BY <1>3
<1>. DEFINE turns == CHOOSE f : f = [k \in 0..N |-> IF k = 0 THEN Start ELSE Turn(d, f[k - 1])]
<1>5. turns = [k \in 0..N |-> IF k = 0 THEN Start ELSE Turn(d, turns[k - 1])]
  BY <1>4
<1>6. Turns(d, p) = turns
  BY DEF Turns, N, Start
<1>. HIDE DEF turns
<1>7. turns[0] = Start /\ \A k \in 1..N : turns[k] = Turn(d, turns[k - 1])
  BY <1>0, <1>5
<1>. QED
  BY <1>6, <1>7 DEF Start, N

\* The loop ends, and settles the buffer.
LEMMA ParsedKeeps ==
  ASSUME NEW d, IsProtocol(d), NEW s \in Seq(Byte), NEW base, NEW p, LoopInv(d, s, base, p)
  PROVE  LoopInv(d, s, base, Parsed(d, p)) /\ Unfinished(d, Parsed(d, p).buffer)
<1>. DEFINE n == Len(p.buffer)
<1>. DEFINE run == Turns(d, p)
<1>. DEFINE Good(k) == /\ LoopInv(d, s, base, run[k].at) /\ run[k].goesOn \in BOOLEAN
                       /\ run[k] = [at |-> run[k].at, goesOn |-> run[k].goesOn]
                       /\ run[k].goesOn => Len(run[k].at.buffer) <= n - k
                       /\ ~run[k].goesOn => Unfinished(d, run[k].at.buffer)
<1>. DEFINE S == {k \in Nat : k <= n + 1 => Good(k)}
<1>1. n \in Nat
  BY LoopFacts
<1>2. run[0] = [at |-> p, goesOn |-> TRUE] /\ \A k \in 1..(n + 1) : run[k] = Turn(d, run[k - 1])
  BY <1>1, TurnsAre
<1>. HIDE DEF run
<1>3. 0 \in S
  <2>1. run[0].at = p /\ run[0].goesOn = TRUE /\ run[0] = [at |-> p, goesOn |-> TRUE]
    BY <1>2
  <2>3. LoopInv(d, s, base, run[0].at)
    BY <2>1
  <2>4. Len(run[0].at.buffer) <= n - 0
    BY <1>1, <2>1
  <2>2. Good(0)
    BY <2>1, <2>3, <2>4
  <2>. QED
    BY <2>2
<1>4. ASSUME NEW m \in S PROVE m + 1 \in S
  <2>. SUFFICES ASSUME m + 1 <= n + 1 PROVE Good(m + 1)
    OBVIOUS
  <2>1. m + 1 \in 1..(n + 1) /\ m + 1 - 1 = m /\ m <= n + 1 /\ m \in Nat
    BY <1>1
  <2>2. run[m + 1] = Turn(d, run[m])
    BY <1>2, <2>1
  <2>3. Good(m)
    BY <2>1
  <2>. HIDE DEF n
  <2>4. CASE run[m].goesOn
    <3>1. /\ LoopInv(d, s, base, run[m + 1].at) /\ run[m + 1].goesOn \in BOOLEAN
          /\ run[m + 1] = [at |-> run[m + 1].at, goesOn |-> run[m + 1].goesOn]
          /\ run[m + 1].goesOn => Len(run[m + 1].at.buffer) < Len(run[m].at.buffer)
          /\ ~run[m + 1].goesOn => Unfinished(d, run[m + 1].at.buffer)
      <4>. DEFINE q == run[m].at
      <4>. DEFINE t == run[m + 1]
      <4>1. LoopInv(d, s, base, q) /\ run[m] = [at |-> q, goesOn |-> TRUE]
        BY <2>3, <2>4
      <4>2. t = Turn(d, [at |-> q, goesOn |-> TRUE])
        BY <2>2, <4>1
      <4>. HIDE DEF q, t
      <4>3. /\ LoopInv(d, s, base, t.at) /\ t.goesOn \in BOOLEAN /\ t = [at |-> t.at, goesOn |-> t.goesOn]
            /\ t.goesOn => Len(t.at.buffer) < Len(q.buffer)
            /\ ~t.goesOn => Unfinished(d, t.at.buffer)
        BY <4>1, <4>2, TurnKeeps
      <4>. QED
        BY <4>3 DEF q, t
    <3>2. Len(run[m].at.buffer) \in Nat
      <4>1. LoopInv(d, s, base, run[m].at)
        BY <2>3
      <4>2. run[m].at.buffer \in Seq(Nat)
        BY <4>1, LoopFacts
      <4>. QED
        BY <4>2
    <3>4. Len(run[m + 1].at.buffer) \in Nat
      <4>1. run[m + 1].at.buffer \in Seq(Nat)
        BY <3>1, LoopFacts
      <4>. QED
        BY <4>1
    <3>3. run[m + 1].goesOn => Len(run[m + 1].at.buffer) <= n - (m + 1)
      <4>1. run[m + 1].goesOn => Len(run[m + 1].at.buffer) < Len(run[m].at.buffer)
        BY <3>1
      <4>2. Len(run[m].at.buffer) <= n - m
        BY <2>3, <2>4
      <4>. DEFINE before == Len(run[m].at.buffer)
      <4>. DEFINE after == Len(run[m + 1].at.buffer)
      <4>3. before \in Nat /\ after \in Nat /\ m \in Nat /\ n \in Nat /\ before <= n - m
        BY <1>1, <2>1, <4>2, <3>2, <3>4
      <4>. HIDE DEF Good, before, after
      <4>4. after < before => after <= n - (m + 1)
        BY <4>3
      <4>. QED
        BY <4>1, <4>4 DEF before, after
    <3>. QED
      BY <3>1, <3>3
  <2>5. CASE ~run[m].goesOn
    <3>1. run[m + 1] = run[m]
      BY <2>2, <2>5, Zenon DEF Turn
    <3>. QED
      BY <2>3, <2>5, <3>1
  <2>. QED
    BY <2>3, <2>4, <2>5
<1>5. \A k \in Nat : k \in S
  <2>. HIDE DEF S
  <2>1. S \in SUBSET Nat
    BY DEF S
  <2>. QED
    BY <1>3, <1>4, <2>1, Induction
<1>6. Good(n + 1)
  <2>1. n + 1 \in Nat /\ n + 1 <= n + 1
    BY <1>1
  <2>. HIDE DEF Good, n
  <2>. QED
    BY <1>5, <2>1
<1>7. ~run[n + 1].goesOn
  <2>1. Len(run[n + 1].at.buffer) \in Nat
    <3>1. LoopInv(d, s, base, run[n + 1].at)
      BY <1>6, Zenon
    <3>2. run[n + 1].at.buffer \in Seq(Nat)
      <4>. HIDE DEF n
      <4>. QED
        BY <3>1, LoopFacts
    <3>. QED
      BY <3>2
  <2>. QED
    BY <1>1, <1>6, <2>1
<1>8. Parsed(d, p) = run[n + 1].at
  BY DEF Parsed, run
<1>. QED
  BY <1>6, <1>7, <1>8

-----------------------------------------------------------------------------
(* More bytes arrive *)

LEMMA JoinIs ==
  ASSUME NEW S, NEW a \in Seq(S), NEW b \in Seq(S), NEW i \in 0..Len(a)
  PROVE  /\ a \o b \in Seq(S) /\ Len(a \o b) = Len(a) + Len(b)
         /\ \A k \in 1..Len(a) : (a \o b)[k] = a[k]
         /\ Later(a \o b, i) = Later(a, i) \o b
<1>. DEFINE c == a \o b
<1>. DEFINE l == Later(a, i)
<1>. DEFINE r == Later(c, i)
<1>. DEFINE q == l \o b
<1>1. Len(a) \in Nat /\ Len(b) \in Nat /\ i \in Nat /\ i <= Len(a)
  OBVIOUS
<1>2. /\ c \in Seq(S) /\ Len(c) = Len(a) + Len(b)
      /\ \A k \in 1..(Len(a) + Len(b)) : c[k] = IF k <= Len(a) THEN a[k] ELSE b[k - Len(a)]
  BY ConcatProperties
<1>3. l \in Seq(S) /\ Len(l) = Len(a) - i /\ \A k \in 1..(Len(a) - i) : l[k] = a[i + k]
  BY LaterIs
<1>. HIDE DEF c, l
<1>4. i \in 0..Len(c)
  BY <1>1, <1>2
<1>5. r \in Seq(S) /\ Len(r) = Len(c) - i /\ \A k \in 1..(Len(c) - i) : r[k] = c[i + k]
  BY <1>2, <1>4, LaterIs
<1>6. /\ q \in Seq(S) /\ Len(q) = Len(l) + Len(b)
      /\ \A k \in 1..(Len(l) + Len(b)) : q[k] = IF k <= Len(l) THEN l[k] ELSE b[k - Len(l)]
  BY <1>3, ConcatProperties
<1>. HIDE DEF r, q
<1>7. Len(r) = Len(q) /\ Len(r) \in Nat
  BY <1>1, <1>2, <1>3, <1>5, <1>6
<1>8. ASSUME NEW k \in 1..Len(r) PROVE r[k] = q[k]
  <2>1. k \in Nat /\ k \in 1..(Len(c) - i) /\ k \in 1..(Len(l) + Len(b)) /\ i + k \in 1..(Len(a) + Len(b))
    <3>. DEFINE x == Len(a)
    <3>. DEFINE y == Len(b)
    <3>1. x \in Nat /\ y \in Nat /\ i \in Nat /\ i <= x
      BY <1>1
    <3>2. Len(c) = x + y /\ Len(l) = x - i
      BY <1>2, <1>3
    <3>3. k \in 1..(Len(c) - i)
      BY <1>5
    <3>. HIDE DEF x, y
    <3>4. k \in Nat /\ 1 <= k /\ k <= x + y - i
      BY <3>1, <3>2, <3>3
    <3>5. k \in 1..(Len(l) + y) /\ i + k \in 1..(x + y)
      BY <3>1, <3>2, <3>4
    <3>. QED
      BY <3>3, <3>4, <3>5 DEF x, y
  <2>2. r[k] = IF i + k <= Len(a) THEN a[i + k] ELSE b[i + k - Len(a)]
    BY <1>2, <1>5, <2>1
  <2>3. q[k] = IF k <= Len(l) THEN l[k] ELSE b[k - Len(l)]
    BY <1>6, <2>1
  <2>4. CASE k <= Len(l)
    <3>1. i + k <= Len(a) /\ k \in 1..(Len(a) - i)
      BY <1>1, <1>3, <2>1, <2>4
    <3>. QED
      BY <1>3, <2>2, <2>3, <2>4, <3>1
  <2>5. CASE ~(k <= Len(l))
    <3>1. ~(i + k <= Len(a)) /\ i + k - Len(a) = k - Len(l)
      BY <1>1, <1>3, <2>1, <2>5
    <3>. QED
      BY <2>2, <2>3, <2>5, <3>1
  <2>. QED
    BY <2>4, <2>5
<1>9. r = q
  BY <1>5, <1>6, <1>7, <1>8, SeqEqual
<1>. QED
  BY <1>1, <1>2, <1>9 DEF c, l, r, q

LEMMA BytesJoin ==
  ASSUME NEW s \in Seq(Byte), NEW t \in Seq(Byte)
  PROVE  Bytes(s \o t) = Bytes(s) \o Bytes(t)
<1>. DEFINE u == s \o t
<1>. DEFINE a == Bytes(s)
<1>. DEFINE b == Bytes(t)
<1>1. /\ u \in Seq(Byte) /\ Len(u) = Len(s) + Len(t) /\ Len(s) \in Nat /\ Len(t) \in Nat
      /\ \A k \in 1..(Len(s) + Len(t)) : u[k] = IF k <= Len(s) THEN s[k] ELSE t[k - Len(s)]
  BY ConcatProperties
<1>2. a \in Seq(Nat) /\ Len(a) = Len(s) /\ b \in Seq(Nat) /\ Len(b) = Len(t)
  BY BytesAre
<1>3. Bytes(u) \in Seq(Nat) /\ Len(Bytes(u)) = Len(u)
  BY <1>1, BytesAre
<1>4. /\ a \o b \in Seq(Nat) /\ Len(a \o b) = Len(a) + Len(b)
      /\ \A k \in 1..(Len(a) + Len(b)) : (a \o b)[k] = IF k <= Len(a) THEN a[k] ELSE b[k - Len(a)]
  BY <1>2, ConcatProperties
<1>5. ASSUME NEW k \in 1..Len(Bytes(u)) PROVE Bytes(u)[k] = (a \o b)[k]
  <2>1. k \in 1..Len(u) /\ k \in 1..(Len(s) + Len(t)) /\ k \in 1..(Len(a) + Len(b))
    BY <1>1, <1>2, <1>3
  <2>2. Bytes(u)[k] = u[k][1]
    <3>. HIDE DEF u
    <3>. QED
      BY <2>1 DEF Bytes
  <2>3. (a \o b)[k] = IF k <= Len(s) THEN a[k] ELSE b[k - Len(s)]
    BY <1>2, <1>4, <2>1
  <2>4. CASE k <= Len(s)
    <3>1. k \in 1..Len(s)
      BY <1>1, <2>1, <2>4
    <3>2. a[k] = s[k][1]
      BY <3>1 DEF Bytes
    <3>. QED
      BY <1>1, <2>1, <2>2, <2>3, <2>4, <3>2
  <2>5. CASE ~(k <= Len(s))
    <3>1. k - Len(s) \in 1..Len(t)
      BY <1>1, <2>1, <2>5
    <3>2. b[k - Len(s)] = t[k - Len(s)][1]
      BY <3>1 DEF Bytes
    <3>. QED
      BY <1>1, <2>1, <2>2, <2>3, <2>5, <3>2
  <2>. QED
    BY <2>4, <2>5
<1>6. Len(Bytes(u)) = Len(a \o b)
  BY <1>1, <1>2, <1>3, <1>4
<1>. HIDE DEF a, b, u
<1>7. Bytes(u) = a \o b
  BY <1>3, <1>4, <1>5, <1>6, SeqEqual
<1>. QED
  BY <1>7 DEF a, b, u

\* What was said of a byte stands when more arrive.
LEMMA EventStands ==
  ASSUME NEW d, IsProtocol(d), NEW s \in Seq(Byte), NEW t \in Seq(Byte),
         NEW e \in Event, NEW o \in Nat, EventInv(d, s, e, o)
  PROVE  EventInv(d, s \o t, e, o)
<1>. DEFINE u == s \o t
<1>. DEFINE b == Bytes(s)
<1>. DEFINE x == Bytes(t)
<1>1. e.kind \in Verdicts \cup {"oversize"} /\ e.kind # "more" /\ e.consumed \in Nat \ {0}
  BY DEF Event, Verdicts
<1>2. o + e.consumed <= Len(s) /\ e.chunk = s[o + 1][2] /\ Matches(d, s, o, e.kind, e.consumed)
  BY DEF EventInv
<1>3. b \in Seq(Nat) /\ x \in Seq(Nat) /\ Len(b) = Len(s) /\ Len(s) \in Nat /\ Len(t) \in Nat
  BY BytesAre
<1>4. Bytes(u) = b \o x
  BY BytesJoin
<1>5. Len(u) = Len(s) + Len(t) /\ \A k \in 1..Len(s) : u[k] = s[k]
  <2>1. 0 \in 0..Len(s)
    BY <1>3
  <2>. QED
    BY <2>1, JoinIs
<1>. HIDE DEF u, b, x
<1>6. ASSUME NEW i \in 0..Len(s), Judgement(d, Later(b, i)).kind # "more"
      PROVE  Judgement(d, Later(Bytes(u), i)) = Judgement(d, Later(b, i))
  <2>1. i \in 0..Len(b)
    BY <1>3
  <2>2. Later(b, i) \in Seq(Nat) /\ Later(b \o x, i) = Later(b, i) \o x
    <3>1. Later(b, i) \in Seq(Nat)
      BY <1>3, <2>1, LaterIs
    <3>2. Later(b \o x, i) = Later(b, i) \o x
      BY <1>3, <2>1, JoinIs
    <3>. QED
      BY <3>1, <3>2
  <2>3. Judgement(d, Later(b, i) \o x) = Judgement(d, Later(b, i))
    BY <1>3, <1>6, <2>2, VerdictStands
  <2>. QED
    BY <1>4, <2>2, <2>3
<1>7. o + e.consumed <= Len(u) /\ e.chunk = u[o + 1][2]
  <2>1. o + 1 \in 1..Len(s) /\ o + e.consumed <= Len(s) + Len(t)
    BY <1>1, <1>2, <1>3
  <2>. QED
    BY <1>2, <1>5, <2>1
<1>8. Matches(d, u, o, e.kind, e.consumed)
  <2>1. CASE e.kind = "garbage"
    <3>1. ASSUME NEW i \in o..(o + e.consumed - 1)
          PROVE  Judgement(d, Later(Bytes(u), i)).kind = "garbage"
      <4>1. Judgement(d, Later(b, i)).kind = "garbage"
        BY <1>2, <2>1 DEF Matches, b
      <4>2. i \in 0..Len(s)
        BY <1>1, <1>2, <1>3
      <4>. QED
        BY <1>6, <4>1, <4>2
    <3>. QED
      BY <2>1, <3>1 DEF Matches
  <2>2. CASE e.kind # "garbage"
    <3>1. Judgement(d, Later(b, o)) = [kind |-> e.kind, consumed |-> e.consumed]
      BY <1>2, <2>2 DEF Matches, b
    <3>2. o \in 0..Len(s) /\ Judgement(d, Later(b, o)).kind # "more"
      BY <1>1, <1>2, <1>3, <3>1
    <3>. QED
      BY <1>6, <2>2, <3>1, <3>2 DEF Matches
  <2>. QED
    BY <2>1, <2>2
<1>. QED
  BY <1>7, <1>8 DEF EventInv, u

\* A payload that is put behind the buffer.
LEMMA ArrivalKeeps ==
  ASSUME NEW d, IsProtocol(d), NEW s \in Seq(Byte), NEW base, NEW p, LoopInv(d, s, base, p),
         NEW t \in Seq(Byte), t # << >>, NEW chunk \in Nat, \A i \in 1..Len(t) : t[i][2] = chunk,
         NEW q, q = [buffer |-> p.buffer \o Bytes(t),
                     segments |-> Append(p.segments, [count |-> Len(t), chunk |-> chunk]), events |-> p.events]
  PROVE  LoopInv(d, s \o t, base, q)
<1>. DEFINE c == Done(p, base)
<1>. DEFINE r == Told(p, base)
<1>. DEFINE u == s \o t
<1>1. /\ p \in Parser /\ base \in 0..Len(p.events) /\ p.buffer \in Seq(Nat) /\ r \in Seq(Event)
      /\ c \in 0..Len(s) /\ p.buffer = Later(Bytes(s), c)
      /\ Bytes(s) \in Seq(Nat) /\ Len(Bytes(s)) = Len(s) /\ Covers(p.segments, s, c)
  BY LoopFacts
<1>2. q.events = p.events /\ q.buffer = p.buffer \o Bytes(t) /\ q.segments = Append(p.segments, [count |-> Len(t), chunk |-> chunk])
  OBVIOUS
<1>3. Told(q, base) = r /\ Done(q, base) = c
  BY <1>2 DEF Told, Done
<1>4. Bytes(t) \in Seq(Nat) /\ Len(s) \in Nat /\ Len(t) \in Nat
  BY BytesAre
<1>5. Len(u) = Len(s) + Len(t) /\ Bytes(u) = Bytes(s) \o Bytes(t)
  BY <1>4, BytesJoin, ConcatProperties
<1>. HIDE DEF c, r, u
<1>6. q.buffer = Later(Bytes(u), c)
  <2>1. c \in 0..Len(Bytes(s))
    BY <1>1
  <2>2. Later(Bytes(s) \o Bytes(t), c) = Later(Bytes(s), c) \o Bytes(t)
    BY <1>1, <1>4, <2>1, JoinIs
  <2>. QED
    BY <1>1, <1>2, <1>5, <2>2
<1>7. Covers(q.segments, u, c)
  <2>1. c \in Nat
    BY <1>1
  <2>2. Covers(Append(p.segments, [count |-> Len(t), chunk |-> chunk]), s \o t, c)
    BY <1>1, <2>1, CoversAppend
  <2>. QED
    BY <1>2, <2>2 DEF u
<1>8. q \in Parser
  <2>1. q.segments \in Seq(Segment)
    BY <1>7 DEF Covers
  <2>2. q.buffer \in Seq(Nat)
    BY <1>1, <1>2, <1>4, ConcatProperties
  <2>3. q.events \in Seq(Event)
    BY <1>1, <1>2 DEF Parser
  <2>4. q = [buffer |-> q.buffer, segments |-> q.segments, events |-> q.events]
    OBVIOUS
  <2>. HIDE <1>2
  <2>. QED
    BY <2>1, <2>2, <2>3, <2>4 DEF Parser
<1>9. ASSUME NEW n \in 1..Len(r) PROVE EventInv(d, u, r[n], Offsets(r)[n - 1])
  <2>1. EventInv(d, s, r[n], Offsets(r)[n - 1])
    BY DEF LoopInv, r
  <2>2. n - 1 \in 0..Len(r) /\ r[n] \in Event
    BY <1>1
  <2>3. Offsets(r)[n - 1] \in Nat
    BY <1>1, <2>2, OffsetsAre
  <2>. DEFINE e == r[n]
  <2>. DEFINE o == Offsets(r)[n - 1]
  <2>4. e \in Event /\ o \in Nat /\ EventInv(d, s, e, o)
    BY <2>1, <2>2, <2>3
  <2>. HIDE DEF e, o
  <2>5. EventInv(d, s \o t, e, o)
    BY <2>4, EventStands
  <2>. QED
    BY <2>5 DEF e, o, u
<1>10. c <= Len(u)
  BY <1>1, <1>4, <1>5
<1>11. base \in 0..Len(q.events)
  BY <1>1, <1>2
<1>12. LoopInv(d, u, base, q)
  BY <1>3, <1>6, <1>7, <1>8, <1>9, <1>10, <1>11 DEF LoopInv
<1>. QED
  BY <1>12 DEF u

-----------------------------------------------------------------------------
(* A buffer that is cleared *)

\* No segment is left when no byte is.
LEMMA CoversNothing ==
  ASSUME NEW s \in Seq(Byte), NEW g, Covers(g, s, Len(s))
  PROVE  g = << >>
<1>1. g \in Seq(Segment) /\ Len(s) + Arriving(g)[Len(g)] = Len(s) /\ Len(s) \in Nat
  BY DEF Covers
<1>2. /\ Arriving(g)[0] = 0 /\ \A i \in 0..Len(g) : Arriving(g)[i] \in Nat
      /\ \A i, j \in 0..Len(g) : i < j => Arriving(g)[i] < Arriving(g)[j]
  BY <1>1, ArrivingIs
<1>3. Len(g) \in Nat /\ 0 \in 0..Len(g) /\ Len(g) \in 0..Len(g)
  BY <1>1
<1>4. Arriving(g)[Len(g)] = 0
  BY <1>1, <1>2, <1>3
<1>5. ~(0 < Len(g))
  BY <1>2, <1>3, <1>4
<1>. QED
  BY <1>1, <1>3, <1>5

LEMMA EmptyKeeps ==
  ASSUME NEW d, NEW p \in Parser, p.buffer = << >>, p.segments = << >>
  PROVE  LoopInv(d, << >>, Len(p.events), p)
<1>. DEFINE s == << >>
<1>. DEFINE n == Len(p.events)
<1>. DEFINE r == Told(p, n)
<1>1. p.events \in Seq(Event) /\ n \in Nat /\ n \in 0..n
  BY DEF Parser
<1>2. r \in Seq(Event) /\ Len(r) = 0
  <2>. DEFINE e == p.events
  <2>1. e \in Seq(Event) /\ n \in 0..Len(e) /\ n = Len(e)
    BY <1>1
  <2>2. r = Later(e, n)
    BY DEF Told, Later
  <2>. HIDE DEF e, n, r
  <2>3. Later(e, n) \in Seq(Event) /\ Len(Later(e, n)) = Len(e) - n
    BY <2>1, LaterIs
  <2>. QED
    BY <1>1, <2>1, <2>2, <2>3
<1>3. Done(p, n) = 0
  BY <1>2, OffsetsAre DEF Done
<1>4. s \in Seq(Byte) /\ Len(s) = 0 /\ Bytes(s) = << >>
  BY DEF Bytes
<1>5. Later(Bytes(s), 0) = << >>
  BY <1>4 DEF Later
<1>6. Covers(p.segments, s, 0)
  <2>1. p.segments \in Seq(Segment) /\ Len(p.segments) = 0
    BY DEF Parser
  <2>2. Arriving(p.segments)[0] = 0
    BY <2>1, ArrivingIs
  <2>. QED
    BY <1>4, <2>1, <2>2 DEF Covers
<1>. HIDE DEF s, n, r
<1>7. \A m \in 1..Len(r) : EventInv(d, s, r[m], Offsets(r)[m - 1])
  BY <1>2
<1>8. LoopInv(d, s, n, p)
  BY <1>1, <1>3, <1>4, <1>5, <1>6, <1>7 DEF LoopInv, r, n
<1>. QED
  BY <1>8 DEF s, n

\* All that is buffered is discarded.
LEMMA ClearedIs ==
  ASSUME NEW d, NEW s \in Seq(Byte), NEW base, NEW p, LoopInv(d, s, base, p),
         NEW q, q = Discarded(p, Len(p.buffer))
  PROVE  q \in Parser /\ q.buffer = << >> /\ q.segments = << >>
<1>. DEFINE c == Done(p, base)
<1>. DEFINE count == Len(p.buffer)
<1>1. /\ p \in Parser /\ p.buffer \in Seq(Nat) /\ c \in 0..Len(s) /\ count = Len(s) - c /\ Covers(p.segments, s, c)
  BY LoopFacts
<1>2. Len(s) \in Nat /\ c \in Nat /\ count \in Nat /\ c + count = Len(s)
  BY <1>1
<1>3. p = [buffer |-> p.buffer, segments |-> p.segments, events |-> p.events]
      /\ p.segments \in Seq(Segment) /\ p.events \in Seq(Event)
  BY <1>1 DEF Parser
<1>. HIDE DEF c
<1>4. CASE count = 0
  <2>1. q = p
    BY <1>4 DEF Discarded
  <2>2. c = Len(s) /\ p.buffer = << >>
    <3>1. c = Len(s)
      BY <1>2, <1>4
    <3>2. p.buffer = << >>
      BY <1>1, <1>4
    <3>. QED
      BY <3>1, <3>2
  <2>3. p.segments = << >>
    BY <1>1, <2>2, CoversNothing
  <2>. QED
    BY <1>1, <2>1, <2>2, <2>3
<1>5. CASE count # 0
  <2>. DEFINE e == [kind |-> "garbage", chunk |-> FrontChunk(p), consumed |-> count, bytes |-> SubSeq(p.buffer, 1, count)]
  <2>1. q = [buffer |-> Later(p.buffer, count), segments |-> DropSegments(p.segments, count), events |-> Append(p.events, e)]
    BY <1>3, <1>5 DEF Discarded, Reported, Taken, Later
  <2>2. e \in Event
    <3>1. FrontChunk(p) \in Nat
      <4>1. p.segments # << >> => p.segments[1] \in Segment
        BY <1>3
      <4>. QED
        BY <4>1 DEF FrontChunk, Segment
    <3>2. count \in Nat \ {0} /\ count \in 0..Len(p.buffer)
      BY <1>2, <1>5
    <3>3. SubSeq(p.buffer, 1, count) \in Seq(Nat)
      <4>. HIDE DEF count
      <4>. QED
        BY <1>1, <3>2, FirstBytes
    <3>. QED
      BY <3>1, <3>2, <3>3 DEF Event, Verdicts
  <2>3. Covers(DropSegments(p.segments, count), s, Len(s))
    <3>1. c + count <= Len(s)
      BY <1>2
    <3>. HIDE DEF count
    <3>2. Covers(DropSegments(p.segments, count), s, c + count)
      BY <1>1, <1>2, <3>1, CoversDrop
    <3>. QED
      BY <1>2, <3>2
  <2>4. DropSegments(p.segments, count) = << >>
    <3>. HIDE DEF count
    <3>. QED
      BY <2>3, CoversNothing
  <2>5. Later(p.buffer, count) = << >>
    <3>1. count \in 0..Len(p.buffer)
      BY <1>2
    <3>2. Later(p.buffer, count) \in Seq(Nat) /\ Len(Later(p.buffer, count)) = 0
      <4>1. Len(Later(p.buffer, count)) = Len(p.buffer) - count /\ Later(p.buffer, count) \in Seq(Nat)
        <5>. HIDE DEF count
        <5>. QED
          BY <1>1, <3>1, LaterIs
      <4>. QED
        BY <1>2, <4>1
    <3>. QED
      BY <3>2
  <2>. HIDE DEF e, count
  <2>6. Append(p.events, e) \in Seq(Event)
    BY <1>3, <2>2
  <2>7. q = [buffer |-> << >>, segments |-> << >>, events |-> Append(p.events, e)]
    BY <2>1, <2>4, <2>5
  <2>8. << >> \in Seq(Nat) /\ << >> \in Seq(Segment)
    OBVIOUS
  <2>9. q \in Parser
    BY <2>6, <2>7, <2>8 DEF Parser
  <2>. QED
    BY <2>7, <2>9
<1>. QED
  BY <1>4, <1>5

-----------------------------------------------------------------------------
(* The parser *)

\* The inductive invariant: the loop's, of all that has arrived since the buffer was last cleared.
StreamInv ==
  /\ definition \in Definitions /\ arrived \in Nat /\ stream \in Seq(Byte)
  /\ LoopInv(definition, stream, parsedBefore, Now)
  /\ Unfinished(definition, buffer)

LEMMA DefinitionFacts ==
  ASSUME definition \in Definitions
  PROVE  IsProtocol(definition) /\ definition.maximum \in Nat \ {0} /\ Unfinished(definition, << >>)
<1>1. IsProtocol(definition)
  BY DefinitionsAreValid DEF IsProtocol
<1>2. definition.maximum \in Nat /\ definition.maximum # 0
  BY <1>1, ProtocolFacts
<1>3. << >> \in Seq(Nat) /\ Len(<< >>) = 0
  OBVIOUS
<1>4. Judgement(definition, << >>).kind = "more"
  BY <1>1, <1>3, VerdictFacts
<1>. QED
  BY <1>1, <1>2, <1>3, <1>4 DEF Unfinished

LEMMA ArrivedIs ==
  ASSUME NEW payload \in Chunks, arrived \in Nat
  PROVE  /\ payload \in Seq(Nat) /\ Len(payload) \in Nat \ {0}
         /\ Arrived(payload) \in Seq(Byte) /\ Len(Arrived(payload)) = Len(payload)
         /\ Arrived(payload) # << >> /\ Bytes(Arrived(payload)) = payload
         /\ \A i \in 1..Len(Arrived(payload)) : Arrived(payload)[i][2] = arrived + 1
<1>1. payload \in Seq(Nat) /\ payload # << >>
  BY ChunksAreNotEmpty
<1>2. Len(payload) \in Nat \ {0} /\ payload = [i \in 1..Len(payload) |-> payload[i]]
  BY <1>1
<1>3. Arrived(payload) \in [1..Len(payload) -> Byte]
  <2>1. \A i \in 1..Len(payload) : <<payload[i], arrived + 1>> \in Byte
    BY <1>1 DEF Byte
  <2>. QED
    BY <2>1 DEF Arrived
<1>4. Arrived(payload) \in Seq(Byte) /\ Len(Arrived(payload)) = Len(payload)
  BY <1>2, <1>3
<1>5. \A i \in 1..Len(payload) : Arrived(payload)[i] = <<payload[i], arrived + 1>>
  BY DEF Arrived
<1>6. Arrived(payload) # << >>
  BY <1>2, <1>4
<1>7. Bytes(Arrived(payload)) = [i \in 1..Len(payload) |-> payload[i]]
  BY <1>4, <1>5 DEF Bytes
<1>. QED
  BY <1>1, <1>2, <1>4, <1>5, <1>6, <1>7

LEMMA StreamStarts == StreamInit => StreamInv
<1>. SUFFICES ASSUME StreamInit PROVE StreamInv
  OBVIOUS
<1>1. /\ definition \in Definitions /\ buffer = << >> /\ segments = << >> /\ events = << >>
      /\ arrived = 0 /\ stream = << >> /\ parsedBefore = 0
  BY DEF StreamInit
<1>2. Now \in Parser /\ Now.buffer = << >> /\ Now.segments = << >> /\ Len(Now.events) = 0
  BY <1>1 DEF Now, Parser
<1>3. LoopInv(definition, << >>, Len(Now.events), Now)
  BY <1>2, EmptyKeeps
<1>4. LoopInv(definition, stream, parsedBefore, Now)
  BY <1>1, <1>2, <1>3
<1>. QED
  BY <1>1, <1>4, DefinitionFacts DEF StreamInv

LEMMA RefusalKeeps ==
  ASSUME StreamInv, NEW payload \in Chunks, RefuseChunk(payload)
  PROVE  StreamInv'
<1>. DEFINE cleared == Discarded(Now, Len(Now.buffer))
<1>. DEFINE e == [kind |-> "oversize", chunk |-> arrived + 1, consumed |-> Len(payload), bytes |-> payload]
<1>1. /\ definition \in Definitions /\ arrived \in Nat /\ stream \in Seq(Byte)
      /\ LoopInv(definition, stream, parsedBefore, Now)
  BY DEF StreamInv
<1>2. cleared \in Parser
  BY <1>1, ClearedIs
<1>3. e \in Event
  BY <1>1, ArrivedIs DEF Event
<1>4. /\ arrived' = arrived + 1 /\ events' = Append(cleared.events, e) /\ buffer' = << >> /\ segments' = << >>
      /\ stream' = << >> /\ parsedBefore' = Len(events') /\ definition' = definition
  BY DEF RefuseChunk, Now
<1>. HIDE DEF cleared, e
<1>5. events' \in Seq(Event)
  BY <1>2, <1>3, <1>4 DEF Parser
<1>6. Now' = [buffer |-> << >>, segments |-> << >>, events |-> events']
  BY <1>4 DEF Now
<1>7. Now' \in Parser /\ Now'.buffer = << >> /\ Now'.segments = << >> /\ Now'.events = events'
  BY <1>5, <1>6 DEF Parser
<1>8. LoopInv(definition, << >>, Len(Now'.events), Now')
  BY <1>7, EmptyKeeps
<1>9. LoopInv(definition, stream, parsedBefore, Now)'
  BY <1>4, <1>7, <1>8
<1>10. Unfinished(definition, buffer)'
  BY <1>1, <1>4, DefinitionFacts
<1>. QED
  BY <1>1, <1>4, <1>9, <1>10 DEF StreamInv

LEMMA AcceptKeeps ==
  ASSUME StreamInv, NEW payload \in Chunks, AcceptChunk(payload)
  PROVE  StreamInv'
<1>. DEFINE d == definition
<1>. DEFINE start == IF Crowded(payload) THEN Discarded(Now, Len(buffer)) ELSE Now
<1>. DEFINE s == IF Crowded(payload) THEN << >> ELSE stream
<1>. DEFINE base == IF Crowded(payload) THEN Len(start.events) ELSE parsedBefore
<1>. DEFINE t == Arrived(payload)
<1>. DEFINE filled == [buffer |-> start.buffer \o payload,
                       segments |-> Append(start.segments, [count |-> Len(payload), chunk |-> arrived + 1]),
                       events |-> start.events]
<1>. DEFINE next == Parsed(d, filled)
<1>1. /\ d \in Definitions /\ arrived \in Nat /\ stream \in Seq(Byte) /\ LoopInv(d, stream, parsedBefore, Now)
      /\ Now.buffer = buffer
  BY DEF StreamInv, Now
<1>2. IsProtocol(d)
  BY <1>1, DefinitionFacts
<1>3. LoopInv(d, s, base, start) /\ s \in Seq(Byte)
  <2>1. CASE Crowded(payload)
    <3>. DEFINE q == Discarded(Now, Len(Now.buffer))
    <3>1. q \in Parser /\ q.buffer = << >> /\ q.segments = << >>
      BY <1>1, ClearedIs
    <3>2. LoopInv(d, << >>, Len(q.events), q)
      <4>. HIDE DEF q
      <4>. QED
        BY <3>1, EmptyKeeps
    <3>3. start = q /\ s = << >> /\ base = Len(q.events)
      BY <1>1, <2>1
    <3>. HIDE DEF start, s, base, q
    <3>. QED
      BY <3>2, <3>3
  <2>2. CASE ~Crowded(payload)
    BY <1>1, <2>2
  <2>. QED
    BY <2>1, <2>2
<1>4. /\ payload \in Seq(Nat) /\ Len(payload) \in Nat \ {0} /\ t \in Seq(Byte) /\ Len(t) = Len(payload)
      /\ t # << >> /\ Bytes(t) = payload /\ \A i \in 1..Len(t) : t[i][2] = arrived + 1
  BY <1>1, ArrivedIs
<1>5. start = [buffer |-> start.buffer, segments |-> start.segments, events |-> start.events]
  <2>. HIDE DEF start
  <2>1. start \in Parser
    BY <1>3, LoopFacts
  <2>. QED
    BY <2>1 DEF Parser
<1>6. /\ arrived' = arrived + 1 /\ buffer' = next.buffer /\ segments' = next.segments /\ events' = next.events
      /\ stream' = s \o t /\ parsedBefore' = base /\ definition' = d
  BY DEF AcceptChunk
<1>. HIDE DEF start, s, base, t
<1>7. LoopInv(d, s \o t, base, filled) /\ s \o t \in Seq(Byte)
  <2>1. filled = [buffer |-> start.buffer \o Bytes(t),
                  segments |-> Append(start.segments, [count |-> Len(t), chunk |-> arrived + 1]), events |-> start.events]
    BY <1>4
  <2>2. arrived + 1 \in Nat
    BY <1>1
  <2>. HIDE DEF filled, d
  <2>3. LoopInv(d, s \o t, base, filled)
    BY <1>2, <1>3, <1>4, <2>1, <2>2, ArrivalKeeps
  <2>. QED
    BY <1>3, <1>4, <2>3, ConcatProperties
<1>. HIDE DEF filled
<1>8. LoopInv(d, s \o t, base, next) /\ Unfinished(d, next.buffer)
  <2>. DEFINE u == s \o t
  <2>1. u \in Seq(Byte) /\ LoopInv(d, u, base, filled)
    BY <1>7
  <2>. HIDE DEF u, d
  <2>2. LoopInv(d, u, base, next) /\ Unfinished(d, next.buffer)
    BY <1>2, <2>1, ParsedKeeps
  <2>. QED
    BY <2>2 DEF u
<1>. HIDE DEF next
<1>9. Now' = next
  <2>1. next \in Parser
    <3>. DEFINE u == s \o t
    <3>1. u \in Seq(Byte) /\ LoopInv(d, u, base, next)
      BY <1>7, <1>8
    <3>. HIDE DEF u, d
    <3>. QED
      BY <3>1, LoopFacts
  <2>2. next = [buffer |-> next.buffer, segments |-> next.segments, events |-> next.events]
    BY <2>1 DEF Parser
  <2>. QED
    BY <1>6, <2>2 DEF Now
<1>10. LoopInv(definition, stream, parsedBefore, Now)'
  BY <1>6, <1>8, <1>9
<1>11. Unfinished(definition, buffer)'
  BY <1>6, <1>8
<1>. QED
  BY <1>1, <1>6, <1>7, <1>10, <1>11 DEF StreamInv

\* Nothing but consume() touches the parser.
LEMMA StreamStays ==
  ASSUME StreamInv, UNCHANGED streamVars
  PROVE  StreamInv'
<1>1. /\ definition' = definition /\ buffer' = buffer /\ segments' = segments /\ events' = events
      /\ arrived' = arrived /\ stream' = stream /\ parsedBefore' = parsedBefore
  BY DEF streamVars
<1>2. Now' = Now
  BY <1>1 DEF Now
<1>. QED
  BY <1>1, <1>2 DEF StreamInv

LEMMA StreamStep == StreamInv /\ [HealthNext]_allVars => StreamInv'
<1>. SUFFICES ASSUME StreamInv, [HealthNext]_allVars PROVE StreamInv'
  OBVIOUS
<1>1. CASE HandleChunk
  <2>1. PICK payload \in Chunks : RefuseChunk(payload) \/ AcceptChunk(payload)
    BY <1>1 DEF HandleChunk, Consume
  <2>. QED
    BY <2>1, RefusalKeeps, AcceptKeeps
<1>2. CASE StampError
  BY <1>2, StreamStays DEF StampError
<1>3. CASE ObserveError
  BY <1>3, StreamStays DEF ObserveError
<1>4. CASE SourceFails \/ ObserveSourceError
  BY <1>4, StreamStays DEF SourceFails, ObserveSourceError
<1>5. CASE StartEvaluation
  BY <1>5, StreamStays DEF StartEvaluation
<1>6. CASE Evaluate
  BY <1>6, StreamStays DEF Evaluate
<1>7. CASE ResetRule
  BY <1>7, StreamStays DEF ResetRule
<1>8. CASE UNCHANGED allVars
  BY <1>8, StreamStays DEF allVars
<1>. QED
  BY <1>1, <1>2, <1>3, <1>4, <1>5, <1>6, <1>7, <1>8 DEF HealthNext

LEMMA StreamInvHolds == HealthSpec => []StreamInv
<1>1. HealthInit => StreamInv
  BY StreamStarts DEF HealthInit
<1>. QED
  BY <1>1, StreamStep, PTL DEF HealthSpec

\* EveryByteOnce: for every protocol that validateProtocol() accepts and every cut of the stream, each
\* byte is in the buffer or left it with one event, in order; the event names the chunk of its first
\* byte (consumeBufferedBytes()), and less than one frame waits.
THEOREM ByteTheorem == HealthSpec => []EveryByteOnce
<1>1. StreamInv => EveryByteOnce
  <2>. SUFFICES ASSUME StreamInv PROVE EveryByteOnce
    OBVIOUS
  <2>. DEFINE r == Told(Now, parsedBefore)
  <2>. DEFINE c == Done(Now, parsedBefore)
  <2>1. /\ stream \in Seq(Byte) /\ LoopInv(definition, stream, parsedBefore, Now) /\ Unfinished(definition, buffer)
        /\ Now.buffer = buffer /\ Now.events = events
    BY DEF StreamInv, Now
  <2>2. /\ r \in Seq(Event) /\ c \in 0..Len(stream) /\ buffer = Later(Bytes(stream), c)
        /\ Len(Bytes(stream)) = Len(stream)
    BY <2>1, LoopFacts
  <2>3. Recent = r /\ Offsets(Recent)[Len(Recent)] = c
    BY <2>1 DEF Recent, Told, Done
  <2>4. buffer = SubSeq(Bytes(stream), Offsets(Recent)[Len(Recent)] + 1, Len(stream))
    BY <2>2, <2>3 DEF Later
  <2>5. ASSUME NEW n \in DOMAIN Recent
        PROVE  Recent[n].chunk = stream[Offsets(Recent)[n - 1] + 1][2]
    <3>1. n \in 1..Len(r)
      BY <2>2, <2>3
    <3>2. EventInv(definition, stream, r[n], Offsets(r)[n - 1])
      BY <2>1, <3>1 DEF LoopInv
    <3>. QED
      BY <2>3, <3>2 DEF EventInv
  <2>6. Len(buffer) < definition.maximum
    BY <2>1 DEF Unfinished
  <2>. QED
    BY <2>4, <2>5, <2>6 DEF EveryByteOnce
<1>. QED
  BY <1>1, StreamInvHolds, PTL

-----------------------------------------------------------------------------
(* The reference parser *)

LEMMA ReachedIs ==
  ASSUME NEW d, NEW b \in Seq(Nat)
  PROVE  \A i \in 0..Len(b) :
            Reached(d, b)[i] <=> \/ i = 0
                                 \/ \E j \in 0..(i - 1) : /\ Reached(d, b)[j] /\ JudgedAt(d, b, j).kind # "more"
                                                          /\ j + JudgedAt(d, b, j).consumed = i
<1>. DEFINE N == Len(b)
<1>. DEFINE Law(f, i) == \/ i = 0
                          \/ \E j \in 0..(i - 1) : /\ f[j]
                                                   /\ JudgedAt(d, b, j).kind # "more"
                                                   /\ j + JudgedAt(d, b, j).consumed = i
<1>. DEFINE Run(f, n) == f = [i \in 0..n |-> Law(f, i)]
<1>. DEFINE S == {n \in Nat : \E f : Run(f, n)}
<1>0. N \in Nat
  OBVIOUS
<1>1. ASSUME NEW f, NEW g, NEW i \in Nat, \A j \in 0..(i - 1) : f[j] = g[j]
      PROVE  Law(f, i) = Law(g, i)
  <2>. DEFINE F(h, j) == h[j] /\ JudgedAt(d, b, j).kind # "more" /\ j + JudgedAt(d, b, j).consumed = i
  <2>1. \A j \in 0..(i - 1) : F(f, j) <=> F(g, j)
    BY <1>1
  <2>2. Law(f, i) <=> (i = 0 \/ \E j \in 0..(i - 1) : F(f, j))
    OBVIOUS
  <2>3. Law(g, i) <=> (i = 0 \/ \E j \in 0..(i - 1) : F(g, j))
    OBVIOUS
  <2>4. Law(f, i) \in BOOLEAN /\ Law(g, i) \in BOOLEAN
    OBVIOUS
  <2>. HIDE DEF F, Law
  <2>. QED
    BY <2>1, <2>2, <2>3, <2>4
<1>. HIDE DEF N, Law
<1>2. 0 \in S
  <2>. DEFINE f == [i \in 0..0 |-> Law(<< >>, 0)]
  <2>1. Law(f, 0) = Law(<< >>, 0)
    <3>. HIDE DEF f
    <3>. QED
      BY <1>1
  <2>2. f = [i \in 0..0 |-> Law(f, i)]
    <3>. DEFINE h == [i \in 0..0 |-> Law(f, i)]
    <3>1. \A i \in 0..0 : f[i] = h[i]
      BY <2>1
    <3>2. DOMAIN f = 0..0 /\ DOMAIN h = 0..0 /\ f = [k \in DOMAIN f |-> f[k]] /\ h = [k \in DOMAIN h |-> h[k]]
      OBVIOUS
    <3>. HIDE DEF f, h
    <3>3. f = h
      BY <3>1, <3>2
    <3>. QED
      BY <3>3 DEF h
  <2>3. Run(f, 0)
    BY <2>2
  <2>. HIDE DEF f, Run
  <2>. QED
    BY <2>3
<1>3. ASSUME NEW m \in S PROVE m + 1 \in S
  <2>1. PICK f : Run(f, m)
    OBVIOUS
  <2>. DEFINE g == [k \in 0..(m + 1) |-> IF k <= m THEN f[k] ELSE Law(f, k)]
  <2>2. \A k \in 0..m : f[k] = Law(f, k)
    BY <2>1
  <2>3. \A j \in 0..m : f[j] = g[j]
    OBVIOUS
  <2>4. ASSUME NEW k \in 0..(m + 1) PROVE g[k] = Law(g, k)
    <3>1. g[k] = Law(f, k)
      BY <2>2
    <3>2. k \in Nat /\ \A j \in 0..(k - 1) : f[j] = g[j]
      <4>1. \A j \in 0..(k - 1) : j \in 0..m
        OBVIOUS
      <4>. HIDE DEF g
      <4>. QED
        BY <2>3, <4>1
    <3>. HIDE DEF g
    <3>3. Law(f, k) = Law(g, k)
      BY <1>1, <3>2
    <3>. QED
      BY <3>1, <3>3
  <2>5. g = [k \in 0..(m + 1) |-> Law(g, k)]
    <3>. DEFINE h == [k \in 0..(m + 1) |-> Law(g, k)]
    <3>1. \A k \in 0..(m + 1) : g[k] = h[k]
      BY <2>4
    <3>2. DOMAIN g = 0..(m + 1) /\ DOMAIN h = 0..(m + 1) /\ g = [k \in DOMAIN g |-> g[k]] /\ h = [k \in DOMAIN h |-> h[k]]
      OBVIOUS
    <3>. HIDE DEF g, h
    <3>3. g = h
      BY <3>1, <3>2
    <3>. QED
      BY <3>3 DEF h
  <2>6. Run(g, m + 1)
    BY <2>5
  <2>. HIDE DEF g, Run
  <2>. QED
    BY <2>6
<1>4. N \in S
  <2>. HIDE DEF S
  <2>1. S \in SUBSET Nat
    BY DEF S
  <2>. QED
    BY <1>0, <1>2, <1>3, <2>1, Induction
<1>5. PICK u : Run(u, N)
  BY <1>4
<1>. DEFINE reached == CHOOSE f : f = [i \in 0..N |-> Law(f, i)]
<1>6. reached = [i \in 0..N |-> Law(reached, i)]
  BY <1>5
<1>7. Reached(d, b) = reached
  BY DEF Reached, N, Law
<1>. HIDE DEF reached
<1>8. \A i \in 0..N : reached[i] = Law(reached, i)
  BY <1>6
<1>. QED
  BY <1>7, <1>8 DEF Law, N

\* What the events say, in the terms of the reference.
EventsJudged(d, b, r, o) ==
  /\ b \in Seq(Nat) /\ r \in Seq(Event) /\ Len(r) \in Nat /\ Len(b) \in Nat
  /\ o[0] = 0 /\ \A n \in 0..Len(r) : o[n] \in 0..Len(b)
  /\ \A m, n \in 0..Len(r) : m < n => o[m] < o[n]
  /\ JudgedAt(d, b, o[Len(r)]).kind = "more"
  /\ \A n \in 1..Len(r) : /\ r[n].kind # "more"
                          /\ r[n].kind # "garbage" => JudgedAt(d, b, o[n - 1]) = [kind |-> r[n].kind, consumed |-> o[n] - o[n - 1]]
                          /\ r[n].kind = "garbage" => \A i \in o[n - 1]..(o[n] - 1) :
                                 JudgedAt(d, b, i).kind = "garbage" /\ JudgedAt(d, b, i).consumed = 1

LEMMA EventsAreJudged ==
  ASSUME NEW d, IsProtocol(d), NEW s \in Seq(Byte), NEW base, NEW p, LoopInv(d, s, base, p),
         Unfinished(d, p.buffer), NEW r, r = Told(p, base), NEW o, o = Offsets(r), NEW b, b = Bytes(s)
  PROVE  EventsJudged(d, b, r, o)
<1>1. /\ r \in Seq(Event) /\ b \in Seq(Nat) /\ Len(b) = Len(s) /\ o[Len(r)] = Done(p, base)
      /\ Done(p, base) \in 0..Len(s) /\ p.buffer = Later(b, Done(p, base))
  BY LoopFacts DEF Done
<1>2. /\ o[0] = 0 /\ Len(r) \in Nat
      /\ \A n \in 1..Len(r) : o[n] = o[n - 1] + r[n].consumed
      /\ \A n \in 0..Len(r) : o[n] \in Nat
      /\ \A m, n \in 0..Len(r) : m < n => o[m] < o[n]
  BY <1>1, OffsetsAre
<1>3. Len(b) \in Nat
  BY <1>1
<1>4. ASSUME NEW n \in 0..Len(r) PROVE o[n] \in 0..Len(b)
  <2>1. Len(r) \in 0..Len(r) /\ (n < Len(r) \/ n = Len(r))
    BY <1>2
  <2>2. o[n] <= o[Len(r)]
    BY <1>2, <2>1
  <2>. QED
    BY <1>1, <1>2, <1>3, <2>1, <2>2
<1>5. JudgedAt(d, b, o[Len(r)]).kind = "more"
  BY <1>1 DEF Unfinished, JudgedAt, Later
<1>6. ASSUME NEW n \in 1..Len(r)
      PROVE  /\ r[n].kind # "more"
             /\ r[n].kind # "garbage" => JudgedAt(d, b, o[n - 1]) = [kind |-> r[n].kind, consumed |-> o[n] - o[n - 1]]
             /\ r[n].kind = "garbage" => \A i \in o[n - 1]..(o[n] - 1) :
                    JudgedAt(d, b, i).kind = "garbage" /\ JudgedAt(d, b, i).consumed = 1
  <2>1. EventInv(d, s, r[n], o[n - 1]) /\ r[n] \in Event
    BY <1>1 DEF LoopInv
  <2>2. Matches(d, s, o[n - 1], r[n].kind, r[n].consumed)
    BY <2>1 DEF EventInv
  <2>3. n - 1 \in 0..Len(r) /\ n \in 0..Len(r)
    BY <1>2
  <2>4. o[n] = o[n - 1] + r[n].consumed /\ o[n] \in 0..Len(b) /\ o[n - 1] \in 0..Len(b) /\ r[n].consumed \in Nat
    BY <1>2, <1>4, <2>1, <2>3 DEF Event
  <2>5. r[n].kind # "more"
    BY <2>1 DEF Event, Verdicts
  <2>6. ASSUME r[n].kind # "garbage"
        PROVE  JudgedAt(d, b, o[n - 1]) = [kind |-> r[n].kind, consumed |-> o[n] - o[n - 1]]
    <3>1. Judgement(d, Later(b, o[n - 1])) = [kind |-> r[n].kind, consumed |-> r[n].consumed]
      BY <2>2, <2>6 DEF Matches
    <3>2. r[n].consumed = o[n] - o[n - 1]
      BY <2>4
    <3>. QED
      BY <3>1, <3>2 DEF JudgedAt, Later
  <2>7. ASSUME r[n].kind = "garbage", NEW i \in o[n - 1]..(o[n] - 1)
        PROVE  JudgedAt(d, b, i).kind = "garbage" /\ JudgedAt(d, b, i).consumed = 1
    <3>1. i \in o[n - 1]..(o[n - 1] + r[n].consumed - 1) /\ i \in 0..Len(b)
      BY <1>3, <2>4
    <3>2. Judgement(d, Later(b, i)).kind = "garbage"
      BY <2>2, <2>7, <3>1 DEF Matches
    <3>3. Later(b, i) \in Seq(Nat)
      BY <1>1, <3>1, LaterIs
    <3>4. Judgement(d, Later(b, i)).consumed = 1
      BY <3>2, <3>3, VerdictFacts
    <3>. QED
      BY <3>2, <3>4 DEF JudgedAt, Later
  <2>. QED
    BY <2>5, <2>6, <2>7
<1>. QED
  BY <1>1, <1>2, <1>3, <1>4, <1>5, <1>6 DEF EventsJudged

\* The reference comes to every offset at which an event starts ...
LEMMA StartsAreReached ==
  ASSUME NEW d, IsProtocol(d), NEW s \in Seq(Byte), NEW base, NEW p, LoopInv(d, s, base, p),
         Unfinished(d, p.buffer), NEW r, r = Told(p, base), NEW o, o = Offsets(r), NEW b, b = Bytes(s)
  PROVE  \A n \in 0..Len(r) : Reached(d, b)[o[n]]
<1>. DEFINE N == Len(r)
<1>. DEFINE J(i) == JudgedAt(d, b, i)
<1>. DEFINE R == Reached(d, b)
<1>. DEFINE S == {n \in Nat : n <= N => R[o[n]]}
<1>1. /\ b \in Seq(Nat) /\ N \in Nat /\ Len(b) \in Nat
      /\ o[0] = 0 /\ \A n \in 0..N : o[n] \in 0..Len(b)
      /\ \A m, n \in 0..N : m < n => o[m] < o[n]
      /\ \A n \in 1..N : /\ r[n].kind # "more"
                         /\ r[n].kind # "garbage" => J(o[n - 1]) = [kind |-> r[n].kind, consumed |-> o[n] - o[n - 1]]
                         /\ r[n].kind = "garbage" => \A i \in o[n - 1]..(o[n] - 1) : J(i).kind = "garbage" /\ J(i).consumed = 1
  <2>1. EventsJudged(d, b, r, o)
    BY EventsAreJudged
  <2>. QED
    BY <2>1 DEF EventsJudged
<1>2. \A i \in 0..Len(b) : R[i] <=> (i = 0 \/ \E j \in 0..(i - 1) : R[j] /\ J(j).kind # "more" /\ j + J(j).consumed = i)
  <2>1. b \in Seq(Nat)
    BY <1>1
  <2>. HIDE DEF S, N
  <2>. QED
    BY <2>1, ReachedIs
<1>. HIDE DEF N, J, R
<1>3. 0 \in S
  <2>1. 0 \in 0..Len(b)
    BY <1>1
  <2>. QED
    BY <1>1, <1>2, <2>1
<1>4. ASSUME NEW m \in S PROVE m + 1 \in S
  <2>. SUFFICES ASSUME m + 1 <= N PROVE R[o[m + 1]]
    OBVIOUS
  <2>1. m \in 0..N /\ m + 1 \in 0..N /\ m + 1 \in 1..N /\ m + 1 - 1 = m /\ m < m + 1 /\ R[o[m]]
    BY <1>1
  <2>2. o[m] \in 0..Len(b) /\ o[m + 1] \in 0..Len(b) /\ o[m] < o[m + 1]
    BY <1>1, <2>1
  <2>3. CASE r[m + 1].kind # "garbage"
    <3>1. J(o[m]) = [kind |-> r[m + 1].kind, consumed |-> o[m + 1] - o[m]] /\ r[m + 1].kind # "more"
      BY <1>1, <2>1, <2>3
    <3>2. J(o[m]).kind # "more" /\ o[m] + J(o[m]).consumed = o[m + 1] /\ o[m] \in 0..(o[m + 1] - 1)
      BY <2>2, <3>1
    <3>. QED
      BY <1>2, <2>1, <2>2, <3>2
  <2>4. CASE r[m + 1].kind = "garbage"
    <3>1. \A i \in o[m]..(o[m + 1] - 1) : J(i).kind = "garbage" /\ J(i).consumed = 1
      <4>. DEFINE n == m + 1
      <4>1. n \in 1..N /\ r[n].kind = "garbage" /\ n - 1 = m
        BY <2>1, <2>4
      <4>. HIDE DEF n
      <4>2. \A i \in o[n - 1]..(o[n] - 1) : J(i).kind = "garbage" /\ J(i).consumed = 1
        BY <1>1, <4>1
      <4>. QED
        BY <4>1, <4>2 DEF n
    <3>. DEFINE T == {k \in Nat : o[m] + k <= o[m + 1] => R[o[m] + k]}
    <3>2. 0 \in T
      BY <2>1, <2>2
    <3>3. ASSUME NEW k \in T PROVE k + 1 \in T
      <4>. SUFFICES ASSUME o[m] + (k + 1) <= o[m + 1] PROVE R[o[m] + (k + 1)]
        OBVIOUS
      <4>. DEFINE i == o[m] + k
      <4>1. i \in o[m]..(o[m + 1] - 1) /\ R[i] /\ i + 1 \in 0..Len(b) /\ i \in 0..(i + 1 - 1) /\ i + 1 = o[m] + (k + 1)
        <5>1. Len(b) \in Nat /\ o[m] \in Nat /\ o[m + 1] \in Nat /\ o[m + 1] <= Len(b) /\ k \in Nat
          BY <1>1, <2>2
        <5>2. o[m] + k <= o[m + 1]
          BY <5>1
        <5>3. R[i]
          BY <5>2
        <5>4. i \in Nat /\ o[m] <= i /\ i + 1 = o[m] + (k + 1) /\ i + 1 <= o[m + 1]
          BY <5>1
        <5>. HIDE DEF T, i
        <5>. QED
          BY <5>1, <5>3, <5>4
      <4>. HIDE DEF i
      <4>2. J(i).kind # "more" /\ i + J(i).consumed = i + 1
        BY <3>1, <4>1
      <4>3. R[i + 1]
        BY <1>2, <4>1, <4>2
      <4>. QED
        BY <4>1, <4>3
    <3>4. \A k \in Nat : k \in T
      <4>. HIDE DEF T
      <4>1. T \in SUBSET Nat
        BY DEF T
      <4>. QED
        BY <3>2, <3>3, <4>1, Induction
    <3>. DEFINE k == o[m + 1] - o[m]
    <3>5. k \in Nat /\ o[m] + k = o[m + 1]
      BY <2>2
    <3>. HIDE DEF k
    <3>6. R[o[m] + k]
      <4>1. k \in T
        BY <3>4, <3>5
      <4>2. o[m + 1] <= o[m + 1]
        BY <2>2
      <4>. QED
        BY <3>5, <4>1, <4>2
    <3>. QED
      BY <3>5, <3>6
  <2>. QED
    BY <2>3, <2>4
<1>5. \A n \in Nat : n \in S
  <2>. HIDE DEF S
  <2>1. S \in SUBSET Nat
    BY DEF S
  <2>. QED
    BY <1>3, <1>4, <2>1, Induction
<1>6. ASSUME NEW n \in 0..N PROVE R[o[n]]
  BY <1>1, <1>5, <1>6
<1>. QED
  BY <1>6 DEF N, R

\* ... and every offset it comes to is one, or lies in garbage, or is where the buffer starts.
LEMMA ReachedAreStarts ==
  ASSUME NEW d, IsProtocol(d), NEW s \in Seq(Byte), NEW base, NEW p, LoopInv(d, s, base, p),
         Unfinished(d, p.buffer), NEW r, r = Told(p, base), NEW o, o = Offsets(r), NEW b, b = Bytes(s)
  PROVE  \A i \in 0..Len(b) :
            Reached(d, b)[i] /\ JudgedAt(d, b, i).kind \notin {"more", "garbage"} =>
                \E n \in 1..Len(r) : i = o[n - 1] /\ r[n].kind = JudgedAt(d, b, i).kind
<1>. DEFINE N == Len(r)
<1>. DEFINE J(i) == JudgedAt(d, b, i)
<1>1. /\ b \in Seq(Nat) /\ N \in Nat /\ Len(b) \in Nat
      /\ o[0] = 0 /\ \A n \in 0..N : o[n] \in 0..Len(b)
      /\ \A m, n \in 0..N : m < n => o[m] < o[n]
      /\ J(o[N]).kind = "more"
      /\ \A n \in 1..N : /\ r[n].kind # "more"
                         /\ r[n].kind # "garbage" => J(o[n - 1]) = [kind |-> r[n].kind, consumed |-> o[n] - o[n - 1]]
                         /\ r[n].kind = "garbage" => \A i \in o[n - 1]..(o[n] - 1) : J(i).kind = "garbage" /\ J(i).consumed = 1
  <2>1. EventsJudged(d, b, r, o)
    BY EventsAreJudged
  <2>. QED
    BY <2>1 DEF EventsJudged
<1>. DEFINE R == Reached(d, b)
<1>2. \A i \in 0..Len(b) : R[i] <=> (i = 0 \/ \E j \in 0..(i - 1) : R[j] /\ J(j).kind # "more" /\ j + J(j).consumed = i)
  <2>1. b \in Seq(Nat)
    BY <1>1
  <2>. HIDE DEF N
  <2>. QED
    BY <2>1, ReachedIs
<1>. HIDE DEF N, J, R
<1>. DEFINE Within(i, n) == o[n - 1] <= i /\ i < o[n] /\ (r[n].kind # "garbage" => i = o[n - 1])
<1>. DEFINE Stop(i) == i = o[N] \/ \E n \in 1..N : Within(i, n)
<1>. DEFINE Wrong == {i \in 0..Len(b) : R[i] /\ ~Stop(i)}
\* Where an event ends, the next starts or the buffer does.
<1>3. ASSUME NEW n \in 0..N PROVE Stop(o[n])
  <2>1. CASE n = N
    BY <2>1
  <2>2. CASE n # N
    <3>1. n + 1 \in 1..N /\ n + 1 \in 0..N /\ n + 1 - 1 = n /\ n < n + 1
      BY <1>1, <2>2
    <3>2. o[n] < o[n + 1] /\ o[n] \in Nat
      BY <1>1, <3>1
    <3>3. Within(o[n], n + 1)
      BY <3>1, <3>2
    <3>. HIDE DEF Within
    <3>. QED
      BY <3>1, <3>3
  <2>. QED
    BY <2>1, <2>2
<1>4. Wrong = {}
  <2>. SUFFICES ASSUME Wrong # {} PROVE FALSE
    OBVIOUS
  <2>1. PICK i \in Wrong : \A j \in Wrong : i <= j
    <3>1. Wrong \in SUBSET Nat
      OBVIOUS
    <3>. HIDE DEF Wrong
    <3>. QED
      BY <3>1, LeastMember
  <2>. HIDE DEF Stop
  <2>2. i \in 0..Len(b) /\ R[i] /\ ~Stop(i) /\ \A j \in 0..(i - 1) : R[j] => Stop(j)
    BY <1>1, <2>1
  <2>3. 0 \in 0..N
    BY <1>1
  <2>4. Stop(0)
    BY <1>1, <1>3, <2>3
  <2>5. PICK j \in 0..(i - 1) : R[j] /\ J(j).kind # "more" /\ j + J(j).consumed = i
    BY <1>2, <2>2, <2>4
  <2>6. Stop(j)
    BY <2>2, <2>5
  <2>7. PICK n \in 1..N : Within(j, n)
    BY <1>1, <2>5, <2>6 DEF Stop
  <2>8. n - 1 \in 0..N /\ n \in 0..N
    BY <1>1
  <2>9. o[n] \in Nat /\ o[n - 1] \in Nat
    BY <1>1, <2>8
  <2>10. CASE r[n].kind # "garbage"
    <3>1. j = o[n - 1] /\ J(j) = [kind |-> r[n].kind, consumed |-> o[n] - o[n - 1]]
      BY <1>1, <2>7, <2>10
    <3>2. i = o[n]
      BY <2>5, <2>9, <3>1
    <3>. QED
      BY <1>3, <2>2, <2>8, <3>2
  <2>11. CASE r[n].kind = "garbage"
    <3>1. j \in o[n - 1]..(o[n] - 1)
      BY <2>7, <2>9
    <3>2. J(j).consumed = 1
      BY <1>1, <2>11, <3>1
    <3>3. i = j + 1 /\ (i < o[n] \/ i = o[n]) /\ o[n - 1] <= i
      BY <2>5, <2>9, <3>1, <3>2
    <3>4. i # o[n]
      BY <1>3, <2>2, <2>8
    <3>5. Within(i, n)
      BY <2>11, <3>3, <3>4
    <3>. HIDE DEF Within
    <3>. QED
      BY <2>2, <3>5 DEF Stop
  <2>. QED
    BY <2>10, <2>11
<1>5. ASSUME NEW i \in 0..Len(b), R[i], J(i).kind # "more", J(i).kind # "garbage"
      PROVE  \E n \in 1..N : i = o[n - 1] /\ r[n].kind = J(i).kind
  <2>1. Stop(i)
    BY <1>4, <1>5
  <2>2. PICK n \in 1..N : Within(i, n)
    BY <1>1, <1>5, <2>1
  <2>3. o[n] \in Nat /\ o[n - 1] \in Nat
    <3>1. n - 1 \in 0..N /\ n \in 0..N
      BY <1>1
    <3>. QED
      BY <1>1, <3>1
  <2>4. r[n].kind # "garbage"
    <3>. SUFFICES ASSUME r[n].kind = "garbage" PROVE FALSE
      OBVIOUS
    <3>1. i \in o[n - 1]..(o[n] - 1)
      BY <2>2, <2>3
    <3>. QED
      BY <1>1, <1>5, <3>1
  <2>5. i = o[n - 1] /\ J(i) = [kind |-> r[n].kind, consumed |-> o[n] - o[n - 1]]
    BY <1>1, <2>2, <2>4
  <2>. QED
    BY <2>5
<1>. QED
  BY <1>5 DEF N, J, R

\* FramesMatchStream: for every protocol that validateProtocol() accepts and every cut of the stream
\* into chunks, the frames, decode errors and damaged frames that consume() reports are those that a
\* parser of the whole stream finds, each at its place.
THEOREM FrameTheorem == HealthSpec => []FramesMatchStream
<1>1. StreamInv => FramesMatchStream
  <2>. SUFFICES ASSUME StreamInv PROVE FramesMatchStream
    OBVIOUS
  <2>. DEFINE d == definition
  <2>. DEFINE b == Bytes(stream)
  <2>. DEFINE r == Recent
  <2>. DEFINE o == Offsets(Recent)
  <2>1. /\ IsProtocol(d) /\ stream \in Seq(Byte) /\ LoopInv(d, stream, parsedBefore, Now)
        /\ Unfinished(d, Now.buffer) /\ r = Told(Now, parsedBefore)
    BY DefinitionFacts DEF StreamInv, Now, Recent, Told
  <2>2. o = Offsets(r) /\ b = Bytes(stream)
    OBVIOUS
  <2>. DEFINE Said == {<<o[n - 1], r[n].kind>> : n \in {m \in DOMAIN r : r[m].kind # "garbage"}}
  <2>. DEFINE Found == {<<i, JudgedAt(d, b, i).kind>> : i \in {j \in Visited(d, b) : JudgedAt(d, b, j).kind # "garbage"}}
  <2>3. FramesMatchStream <=> Said = Found
    BY DEF FramesMatchStream
  <2>. HIDE DEF d, b, r, o
  <2>4. /\ b \in Seq(Nat) /\ r \in Seq(Event) /\ Len(r) \in Nat /\ Len(b) \in Nat
        /\ \A n \in 0..Len(r) : o[n] \in 0..Len(b)
        /\ \A m, n \in 0..Len(r) : m < n => o[m] < o[n]
        /\ \A n \in 1..Len(r) : r[n].kind # "more"
              /\ (r[n].kind # "garbage" => JudgedAt(d, b, o[n - 1]) = [kind |-> r[n].kind, consumed |-> o[n] - o[n - 1]])
    <3>1. EventsJudged(d, b, r, o)
      BY <2>1, <2>2, EventsAreJudged
    <3>. QED
      BY <3>1 DEF EventsJudged
  <2>5. \A n \in 0..Len(r) : Reached(d, b)[o[n]]
    BY <2>1, <2>2, StartsAreReached
  <2>6. \A i \in 0..Len(b) : Reached(d, b)[i] /\ JudgedAt(d, b, i).kind \notin {"more", "garbage"} =>
                \E n \in 1..Len(r) : i = o[n - 1] /\ r[n].kind = JudgedAt(d, b, i).kind
    BY <2>1, <2>2, ReachedAreStarts
  <2>7. DOMAIN r = 1..Len(r)
    BY <2>4
  <2>8. ASSUME NEW n \in 1..Len(r), r[n].kind # "garbage" PROVE <<o[n - 1], r[n].kind>> \in Found
    <3>. DEFINE i == o[n - 1]
    <3>1. n - 1 \in 0..Len(r) /\ n \in 0..Len(r) /\ n - 1 < n
      BY <2>4
    <3>2. i \in 0..(Len(b) - 1) /\ Reached(d, b)[i]
      <4>1. o[n - 1] \in 0..Len(b) /\ o[n] \in 0..Len(b) /\ o[n - 1] < o[n] /\ Len(b) \in Nat
        BY <2>4, <3>1
      <4>2. o[n - 1] \in 0..(Len(b) - 1)
        BY <4>1
      <4>3. Reached(d, b)[o[n - 1]]
        BY <2>5, <3>1
      <4>. QED
        BY <4>2, <4>3
    <3>3. JudgedAt(d, b, i).kind = r[n].kind /\ r[n].kind # "more"
      <4>1. JudgedAt(d, b, o[n - 1]) = [kind |-> r[n].kind, consumed |-> o[n] - o[n - 1]] /\ r[n].kind # "more"
        BY <2>4, <2>8
      <4>. QED
        BY <4>1
    <3>. HIDE DEF i
    <3>4. i \in Visited(d, b)
      BY <3>2, <3>3 DEF Visited
    <3>5. <<i, JudgedAt(d, b, i).kind>> \in Found
      BY <2>8, <3>3, <3>4
    <3>. HIDE DEF Found
    <3>. QED
      BY <3>3, <3>5 DEF i
  <2>9. ASSUME NEW i \in Visited(d, b), JudgedAt(d, b, i).kind # "garbage"
        PROVE  <<i, JudgedAt(d, b, i).kind>> \in Said
    <3>1. i \in 0..Len(b) /\ Reached(d, b)[i] /\ JudgedAt(d, b, i).kind # "more"
      BY <2>4 DEF Visited
    <3>2. PICK n \in 1..Len(r) : i = o[n - 1] /\ r[n].kind = JudgedAt(d, b, i).kind
      BY <2>6, <2>9, <3>1
    <3>. QED
      BY <2>7, <2>9, <3>2
  <2>10. Said \subseteq Found
    <3>. SUFFICES ASSUME NEW x \in Said PROVE x \in Found
      OBVIOUS
    <3>1. PICK n \in 1..Len(r) : r[n].kind # "garbage" /\ x = <<o[n - 1], r[n].kind>>
      BY <2>7
    <3>. HIDE DEF Found, Said
    <3>. QED
      BY <2>8, <3>1
  <2>11. Found \subseteq Said
    <3>. SUFFICES ASSUME NEW x \in Found PROVE x \in Said
      OBVIOUS
    <3>1. PICK i \in Visited(d, b) : JudgedAt(d, b, i).kind # "garbage" /\ x = <<i, JudgedAt(d, b, i).kind>>
      OBVIOUS
    <3>. HIDE DEF Found, Said
    <3>. QED
      BY <2>9, <3>1
  <2>. QED
    BY <2>3, <2>10, <2>11
<1>. QED
  BY <1>1, StreamInvHolds, PTL

-----------------------------------------------------------------------------
(* The times that count *)

\* Where a list has a time of a set, and which times count for an evaluation at x.
Where(list, V) == {i \in 1..Len(list) : list[i] \in V}
Many(list, V) == Cardinality(Where(list, V))
Fresh(x) == {t \in Nat : t + Window >= x}

LEMMA ManyIs ==
  ASSUME NEW l \in Seq(Nat), NEW V
  PROVE  /\ IsFiniteSet(Where(l, V)) /\ Many(l, V) \in 0..Len(l) /\ Len(l) \in Nat
         /\ (\A i \in 1..Len(l) : l[i] \in V) => Many(l, V) = Len(l)
         /\ (\A i \in 1..Len(l) : l[i] \notin V) => Many(l, V) = 0
<1>1. Len(l) \in Nat
  OBVIOUS
<1>2. IsFiniteSet(1..Len(l)) /\ Cardinality(1..Len(l)) = Len(l)
  <2>. DEFINE n == Len(l)
  <2>1. n \in Nat
    BY <1>1
  <2>. HIDE DEF n
  <2>2. IsFiniteSet(1..n) /\ Cardinality(1..n) = IF 1 > n THEN 0 ELSE n - 1 + 1
    BY <2>1, FS_Interval
  <2>3. (IF 1 > n THEN 0 ELSE n - 1 + 1) = n
    BY <2>1
  <2>4. IsFiniteSet(1..n) /\ Cardinality(1..n) = n
    BY <2>2, <2>3
  <2>. QED
    BY <2>4 DEF n
<1>3. Where(l, V) \in SUBSET (1..Len(l))
  BY DEF Where
<1>4. IsFiniteSet(Where(l, V)) /\ Cardinality(Where(l, V)) <= Cardinality(1..Len(l))
  BY <1>2, <1>3, FS_Subset
<1>5. Cardinality(Where(l, V)) \in Nat
  BY <1>4, FS_CardinalityType
<1>6. ASSUME \A i \in 1..Len(l) : l[i] \in V PROVE Many(l, V) = Len(l)
  <2>1. Where(l, V) = 1..Len(l)
    BY <1>6 DEF Where
  <2>. QED
    BY <1>2, <2>1 DEF Many
<1>7. ASSUME \A i \in 1..Len(l) : l[i] \notin V PROVE Many(l, V) = 0
  <2>1. Where(l, V) = {}
    BY <1>7 DEF Where
  <2>. QED
    BY <2>1, FS_EmptySet DEF Many
<1>. QED
  BY <1>1, <1>2, <1>4, <1>5, <1>6, <1>7 DEF Many

LEMMA ManyJoined ==
  ASSUME NEW a \in Seq(Nat), NEW b \in Seq(Nat), NEW V
  PROVE  Many(a \o b, V) = Many(a, V) + Many(b, V)
<1>. DEFINE n == Len(a)
<1>. DEFINE A == Where(a, V)
<1>. DEFINE B == Where(b, V)
<1>. DEFINE f == [i \in B |-> n + i]
<1>. DEFINE C == {n + i : i \in B}
<1>1. n \in Nat /\ Len(b) \in Nat
  OBVIOUS
<1>2. /\ Len(a \o b) = n + Len(b)
      /\ \A k \in 1..(n + Len(b)) : (a \o b)[k] = IF k <= n THEN a[k] ELSE b[k - n]
  BY ConcatProperties
<1>3. B \in SUBSET (1..Len(b)) /\ A \in SUBSET (1..n)
  BY DEF Where
<1>4. IsFiniteSet(A) /\ IsFiniteSet(B) /\ Cardinality(A) \in Nat /\ Cardinality(B) \in Nat
  BY ManyIs, FS_CardinalityType
<1>5. Where(a \o b, V) = A \cup C
  <2>1. ASSUME NEW k \in Where(a \o b, V) PROVE k \in A \cup C
    <3>1. k \in 1..(n + Len(b)) /\ (a \o b)[k] \in V
      BY <1>2 DEF Where
    <3>2. CASE k <= n
      BY <1>1, <1>2, <3>1, <3>2 DEF Where
    <3>3. CASE ~(k <= n)
      <4>1. k - n \in 1..Len(b) /\ b[k - n] \in V /\ k = n + (k - n)
        BY <1>1, <1>2, <3>1, <3>3
      <4>2. k - n \in B
        BY <4>1 DEF Where
      <4>. HIDE DEF B
      <4>. QED
        BY <4>1, <4>2
    <3>. QED
      BY <3>2, <3>3
  <2>2. ASSUME NEW k \in A PROVE k \in Where(a \o b, V)
    <3>1. k \in 1..n /\ a[k] \in V
      BY DEF Where
    <3>2. k \in 1..(n + Len(b)) /\ k <= n
      BY <1>1, <3>1
    <3>. QED
      BY <1>2, <3>1, <3>2 DEF Where
  <2>3. ASSUME NEW k \in C PROVE k \in Where(a \o b, V)
    <3>1. PICK i \in B : k = n + i
      OBVIOUS
    <3>2. i \in 1..Len(b) /\ b[i] \in V
      BY DEF Where
    <3>3. k \in 1..(n + Len(b)) /\ ~(k <= n) /\ k - n = i
      BY <1>1, <3>1, <3>2
    <3>. QED
      BY <1>2, <3>2, <3>3 DEF Where
  <2>. HIDE DEF A, C
  <2>. QED
    BY <2>1, <2>2, <2>3
<1>6. A \cap C = {}
  BY <1>1, <1>3
<1>7. ExistsBijection(B, C)
  <2>1. f \in [B -> C]
    OBVIOUS
  <2>2. \A i, j \in B : f[i] = f[j] => i = j
    BY <1>1, <1>3
  <2>3. \A k \in C : \E i \in B : f[i] = k
    OBVIOUS
  <2>. HIDE DEF f, B, C
  <2>4. f \in Bijection(B, C)
    BY <2>1, <2>2, <2>3 DEF Bijection, Injection, Surjection, IsInjective
  <2>. QED
    BY <2>4 DEF ExistsBijection
<1>. HIDE DEF A, B, C
<1>8. IsFiniteSet(C) /\ Cardinality(C) = Cardinality(B)
  BY <1>4, <1>7, FS_Bijection
<1>9. Cardinality(A \cup C) = Cardinality(A) + Cardinality(C) - Cardinality(A \cap C)
  BY <1>4, <1>8, FS_Union
<1>10. Cardinality(A \cap C) = 0
  BY <1>6, FS_EmptySet
<1>11. Cardinality(A \cup C) = Cardinality(A) + Cardinality(B)
  BY <1>4, <1>8, <1>9, <1>10
<1>. QED
  BY <1>5, <1>11 DEF Many, A, B

LEMMA ManyOfOne ==
  ASSUME NEW t \in Nat, NEW V
  PROVE  << t >> \in Seq(Nat) /\ Many(<< t >>, V) = IF t \in V THEN 1 ELSE 0
<1>1. << t >> \in Seq(Nat) /\ Len(<< t >>) = 1 /\ << t >>[1] = t
  OBVIOUS
<1>2. \A i \in 1..Len(<< t >>) : << t >>[i] = t
  BY <1>1
<1>. QED
  BY <1>1, <1>2, ManyIs

-----------------------------------------------------------------------------
(* The list of errors *)

InOrder(list) == \A i, j \in 1..Len(list) : i <= j => list[i] <= list[j]

\* A time that is entered at its place.
LEMMA SortedIs ==
  ASSUME NEW l \in Seq(Nat), InOrder(l), NEW t \in Nat
  PROVE  /\ Sorted(l, t) \in Seq(Nat) /\ InOrder(Sorted(l, t)) /\ Len(Sorted(l, t)) = Len(l) + 1
         /\ \A V : Many(Sorted(l, t), V) = Many(l, V) + (IF t \in V THEN 1 ELSE 0)
<1>. DEFINE N == Len(l)
<1>. DEFINE S == {i \in 0..N : i = 0 \/ l[i] <= t}
<1>. DEFINE place == Max(S)
<1>. DEFINE a == SubSeq(l, 1, place)
<1>. DEFINE b == Later(l, place)
<1>. DEFINE m == a \o << t >>
<1>. DEFINE q == m \o b
<1>1. N \in Nat /\ \A i \in 1..N : l[i] \in Nat
  OBVIOUS
<1>2. place \in S /\ \A i \in S : i <= place
  <2>1. S \in SUBSET (0..N) /\ 0 \in S
    BY <1>1
  <2>. HIDE DEF S
  <2>. QED
    BY <1>1, <2>1, MaxIsGreatest
<1>3. Sorted(l, t) = q
  BY DEF Sorted, Later
<1>4. place \in 0..N
  BY <1>2
<1>5. ASSUME NEW i \in 1..N PROVE IF i <= place THEN l[i] <= t ELSE t < l[i]
  <2>1. CASE i <= place
    <3>1. place \in 1..N /\ l[place] <= t
      BY <1>1, <1>2, <2>1
    <3>2. l[i] <= l[place]
      BY <2>1, <3>1 DEF InOrder
    <3>. HIDE DEF place
    <3>. QED
      BY <1>1, <2>1, <3>1, <3>2
  <2>2. CASE ~(i <= place)
    <3>1. i \notin S
      BY <1>2, <2>2
    <3>2. ~(l[i] <= t)
      BY <1>1, <3>1
    <3>. QED
      BY <1>1, <2>2, <3>2
  <2>. QED
    BY <2>1, <2>2
<1>. HIDE DEF place
<1>6. a \in Seq(Nat) /\ Len(a) = place /\ \A i \in 1..place : a[i] = l[i]
  BY <1>4, FirstBytes
<1>7. b \in Seq(Nat) /\ Len(b) = N - place /\ \A i \in 1..(N - place) : b[i] = l[place + i]
  BY <1>4, LaterIs
<1>. HIDE DEF a, b
<1>8. << t >> \in Seq(Nat) /\ Len(<< t >>) = 1 /\ << t >>[1] = t
  OBVIOUS
<1>9. /\ m \in Seq(Nat) /\ Len(m) = place + 1
      /\ \A i \in 1..(place + 1) : m[i] = IF i <= place THEN l[i] ELSE t
  <2>1. /\ m \in Seq(Nat) /\ Len(m) = Len(a) + 1
        /\ \A i \in 1..(Len(a) + 1) : m[i] = IF i <= Len(a) THEN a[i] ELSE << t >>[i - Len(a)]
    BY <1>6, <1>8, ConcatProperties
  <2>2. ASSUME NEW i \in 1..(place + 1) PROVE m[i] = IF i <= place THEN l[i] ELSE t
    <3>1. CASE i <= place
      BY <1>4, <1>6, <2>1, <3>1
    <3>2. CASE ~(i <= place)
      <4>1. i - Len(a) = 1
        BY <1>4, <1>6, <3>2
      <4>. QED
        BY <1>6, <1>8, <2>1, <3>2, <4>1
    <3>. QED
      BY <3>1, <3>2
  <2>. QED
    BY <1>6, <2>1, <2>2
<1>. HIDE DEF m
<1>10. /\ q \in Seq(Nat) /\ Len(q) = N + 1
       /\ \A i \in 1..(N + 1) : q[i] = IF i <= place THEN l[i] ELSE IF i = place + 1 THEN t ELSE l[i - 1]
  <2>1. /\ q \in Seq(Nat) /\ Len(q) = Len(m) + Len(b)
        /\ \A i \in 1..(Len(m) + Len(b)) : q[i] = IF i <= Len(m) THEN m[i] ELSE b[i - Len(m)]
    BY <1>7, <1>9, ConcatProperties
  <2>2. Len(q) = N + 1
    BY <1>1, <1>4, <1>7, <1>9, <2>1
  <2>3. ASSUME NEW i \in 1..(N + 1)
        PROVE  q[i] = IF i <= place THEN l[i] ELSE IF i = place + 1 THEN t ELSE l[i - 1]
    <3>1. q[i] = IF i <= place + 1 THEN m[i] ELSE b[i - (place + 1)]
      <4>1. i \in 1..(Len(m) + Len(b)) /\ Len(m) = place + 1
        BY <1>1, <1>4, <1>7, <1>9
      <4>. QED
        BY <2>1, <4>1
    <3>2. CASE i <= place + 1
      BY <1>1, <1>4, <1>9, <3>1, <3>2
    <3>3. CASE ~(i <= place + 1)
      <4>1. i - (place + 1) \in 1..(N - place) /\ place + (i - (place + 1)) = i - 1 /\ ~(i <= place) /\ i # place + 1
        BY <1>1, <1>4, <3>3
      <4>. QED
        BY <1>7, <3>1, <3>3, <4>1
    <3>. QED
      BY <3>2, <3>3
  <2>. QED
    BY <2>1, <2>2, <2>3
<1>11. ASSUME NEW V PROVE Many(q, V) = Many(l, V) + (IF t \in V THEN 1 ELSE 0)
  <2>1. Many(q, V) = Many(m, V) + Many(b, V)
    BY <1>7, <1>9, ManyJoined
  <2>2. Many(m, V) = Many(a, V) + Many(<< t >>, V)
    BY <1>6, <1>8, ManyJoined DEF m
  <2>3. Many(a \o b, V) = Many(a, V) + Many(b, V)
    BY <1>6, <1>7, ManyJoined
  <2>4. a \o b = l
    <3>1. /\ a \o b \in Seq(Nat) /\ Len(a \o b) = Len(a) + Len(b)
          /\ \A i \in 1..(Len(a) + Len(b)) : (a \o b)[i] = IF i <= Len(a) THEN a[i] ELSE b[i - Len(a)]
      BY <1>6, <1>7, ConcatProperties
    <3>2. Len(a \o b) = N
      BY <1>1, <1>4, <1>6, <1>7, <3>1
    <3>3. ASSUME NEW i \in 1..N PROVE (a \o b)[i] = l[i]
      <4>1. (a \o b)[i] = IF i <= place THEN a[i] ELSE b[i - place]
        <5>1. Len(a) = place /\ Len(a) + Len(b) = N
          BY <1>1, <1>4, <1>6, <1>7
        <5>2. (a \o b)[i] = IF i <= Len(a) THEN a[i] ELSE b[i - Len(a)]
          BY <3>1, <5>1
        <5>. QED
          BY <5>1, <5>2
      <4>2. CASE i <= place
        BY <1>4, <1>6, <4>1, <4>2
      <4>3. CASE ~(i <= place)
        <5>1. i - place \in 1..(N - place) /\ place + (i - place) = i
          BY <1>1, <1>4, <4>3
        <5>. QED
          BY <1>7, <4>1, <4>3, <5>1
      <4>. QED
        BY <4>2, <4>3
    <3>. QED
      BY <3>1, <3>2, <3>3, SeqEqual
  <2>5. Many(a, V) \in Nat /\ Many(b, V) \in Nat
    <3>1. Many(a, V) \in 0..Len(a) /\ Many(b, V) \in 0..Len(b)
      BY <1>6, <1>7, ManyIs
    <3>. QED
      BY <3>1
  <2>6. Many(<< t >>, V) = IF t \in V THEN 1 ELSE 0
    BY ManyOfOne
  <2>7. Many(l, V) = Many(a, V) + Many(b, V)
    BY <2>3, <2>4
  <2>. QED
    BY <2>1, <2>2, <2>5, <2>6, <2>7
<1>. HIDE DEF q
<1>12. InOrder(q)
  <2>. SUFFICES ASSUME NEW i \in 1..Len(q), NEW j \in 1..Len(q), i <= j PROVE q[i] <= q[j]
    BY DEF InOrder
  <2>1. i \in 1..(N + 1) /\ j \in 1..(N + 1) /\ i \in Nat /\ j \in Nat /\ place \in Nat
    BY <1>4, <1>10
  <2>2. /\ q[i] = IF i <= place THEN l[i] ELSE IF i = place + 1 THEN t ELSE l[i - 1]
        /\ q[j] = IF j <= place THEN l[j] ELSE IF j = place + 1 THEN t ELSE l[j - 1]
    BY <1>10, <2>1
  <2>3. \A x, y \in 1..N : x <= y => l[x] <= l[y]
    BY DEF InOrder
  <2>4. CASE i = j
    <3>1. q[i] \in Nat
      BY <1>10
    <3>. QED
      BY <2>4, <3>1
  <2>5. CASE i < j /\ j <= place
    <3>1. i <= place /\ i \in 1..N /\ j \in 1..N
      BY <1>1, <1>4, <2>1, <2>5
    <3>. QED
      BY <2>2, <2>3, <2>5, <3>1
  <2>6. CASE i <= place /\ j = place + 1
    <3>1. i \in 1..N /\ ~(j <= place)
      BY <1>1, <1>4, <2>1, <2>6
    <3>. QED
      BY <1>5, <2>2, <2>6, <3>1
  <2>7. CASE i <= place /\ j > place + 1
    <3>1. i \in 1..N /\ j - 1 \in 1..N /\ ~(j <= place) /\ j # place + 1 /\ i <= j - 1
      BY <1>1, <1>4, <2>1, <2>7
    <3>. QED
      BY <2>2, <2>3, <2>7, <3>1
  <2>8. CASE i = place + 1 /\ j > place + 1
    <3>1. j - 1 \in 1..N /\ ~(j <= place) /\ j # place + 1 /\ ~(i <= place) /\ ~(j - 1 <= place)
      BY <1>1, <1>4, <2>1, <2>8
    <3>2. t < l[j - 1]
      BY <1>5, <3>1
    <3>3. q[i] = t /\ q[j] = l[j - 1]
      BY <2>2, <2>8, <3>1
    <3>4. l[j - 1] \in Nat
      BY <1>1, <3>1
    <3>. QED
      BY <3>2, <3>3, <3>4
  <2>9. CASE i > place + 1 /\ i < j
    <3>1. /\ i - 1 \in 1..N /\ j - 1 \in 1..N /\ ~(i <= place) /\ ~(j <= place) /\ i # place + 1 /\ j # place + 1
          /\ i - 1 <= j - 1
      BY <1>1, <1>4, <2>1, <2>9
    <3>. QED
      BY <2>2, <2>3, <3>1
  <2>. QED
    BY <2>1, <2>4, <2>5, <2>6, <2>7, <2>8, <2>9
<1>. QED
  BY <1>3, <1>10, <1>11, <1>12

\* The list has as many times of a set as there are, or both are enough.
Agreed(list, n, V) ==
  \/ Many(list, V) = n
  \/ Many(list, V) >= ErrorCount /\ n >= ErrorCount

\* Fresh sets are closed upwards.
Upward(V) == \A t, u \in Nat : t \in V /\ t <= u => u \in V

LEMMA FreshIsUpward == \A x \in Nat : Upward(Fresh(x))
<1>1. Window \in Nat
  BY RuleAssumption
<1>. QED
  BY <1>1 DEF Upward, Fresh

\* observeError(): what the bounded list gives up is not missed.
LEMMA EnteredKeeps ==
  ASSUME NEW l \in Seq(Nat), InOrder(l), Len(l) <= ErrorCount, NEW t \in Nat
  PROVE  /\ Entered(l, t) \in Seq(Nat) /\ InOrder(Entered(l, t)) /\ Len(Entered(l, t)) <= ErrorCount
         /\ \A V : \A n \in Nat :
              Upward(V) /\ Agreed(l, n, V) => Agreed(Entered(l, t), n + (IF t \in V THEN 1 ELSE 0), V)
<1>. DEFINE q == Sorted(l, t)
<1>0. ErrorCount \in Nat /\ ErrorCount # 0 /\ Len(l) \in Nat
  BY RuleAssumption
<1>1. /\ q \in Seq(Nat) /\ InOrder(q) /\ Len(q) = Len(l) + 1
      /\ \A V : Many(q, V) = Many(l, V) + (IF t \in V THEN 1 ELSE 0)
  BY SortedIs
<1>2. Entered(l, t) = IF Len(q) > ErrorCount THEN Tail(q) ELSE q
  BY DEF Entered
<1>4. ASSUME NEW V PROVE Many(l, V) \in Nat /\ Many(l, V) <= Len(l)
  <2>1. Many(l, V) \in 0..Len(l)
    BY ManyIs
  <2>. QED
    BY <1>0, <2>1
<1>. HIDE DEF q
<1>5. CASE ~(Len(q) > ErrorCount)
  <2>1. Entered(l, t) = q /\ Len(q) <= ErrorCount
    BY <1>0, <1>1, <1>2, <1>5
  <2>2. ASSUME NEW V, NEW n \in Nat, Agreed(l, n, V) PROVE Agreed(q, n + (IF t \in V THEN 1 ELSE 0), V)
    <3>1. Many(q, V) = Many(l, V) + (IF t \in V THEN 1 ELSE 0)
      BY <1>1
    <3>. QED
      BY <1>0, <1>4, <2>2, <3>1 DEF Agreed
  <2>. QED
    BY <1>1, <2>1, <2>2
<1>6. CASE Len(q) > ErrorCount
  <2>. DEFINE r == Tail(q)
  <2>1. Entered(l, t) = r /\ Len(l) = ErrorCount /\ Len(q) = ErrorCount + 1
    BY <1>0, <1>1, <1>2, <1>6
  <2>2. q # << >> /\ Len(q) \in Nat /\ q[1] \in Nat
    BY <1>0, <1>1, <2>1
  <2>3. r \in Seq(Nat) /\ Len(r) = ErrorCount /\ \A i \in 1..ErrorCount : r[i] = q[i + 1]
    BY <1>0, <1>1, <2>1, <2>2
  <2>4. q = << q[1] >> \o r
    <3>1. << q[1] >> \in Seq(Nat) /\ Len(<< q[1] >>) = 1 /\ << q[1] >>[1] = q[1]
      BY <2>2
    <3>. DEFINE a == << q[1] >>
    <3>2. /\ a \o r \in Seq(Nat) /\ Len(a \o r) = Len(a) + Len(r)
          /\ \A i \in 1..(Len(a) + Len(r)) : (a \o r)[i] = IF i <= Len(a) THEN a[i] ELSE r[i - Len(a)]
      BY <2>3, <3>1, ConcatProperties
    <3>3. a[1] = q[1] /\ Len(a) = 1
      BY <3>1
    <3>. HIDE DEF a, r
    <3>4. Len(a \o r) = Len(q)
      BY <1>0, <2>1, <2>3, <3>2, <3>3
    <3>5. ASSUME NEW i \in 1..Len(q) PROVE (a \o r)[i] = q[i]
      <4>1. i \in 1..(Len(a) + Len(r)) /\ i \in Nat
        BY <1>0, <2>1, <2>3, <3>3
      <4>2. CASE i = 1
        BY <3>2, <3>3, <4>1, <4>2
      <4>3. CASE i # 1
        <5>1. i - 1 \in 1..ErrorCount /\ i - 1 + 1 = i /\ ~(i <= 1)
          BY <1>0, <2>1, <4>1, <4>3
        <5>. QED
          BY <2>3, <3>2, <3>3, <4>1, <5>1
      <4>. QED
        BY <4>2, <4>3
    <3>. QED
      BY <1>1, <3>2, <3>4, <3>5, SeqEqual DEF a
  <2>. HIDE DEF r
  <2>5. InOrder(r)
    <3>1. \A i \in 1..ErrorCount : i + 1 \in 1..Len(q)
      BY <1>0, <2>1
    <3>. SUFFICES ASSUME NEW i \in 1..Len(r), NEW j \in 1..Len(r), i <= j PROVE r[i] <= r[j]
      BY DEF InOrder
    <3>2. i \in 1..ErrorCount /\ j \in 1..ErrorCount
      BY <2>3
    <3>3. i + 1 \in 1..Len(q) /\ j + 1 \in 1..Len(q) /\ i + 1 <= j + 1
      BY <1>0, <3>1, <3>2
    <3>4. q[i + 1] <= q[j + 1]
      BY <1>1, <3>3 DEF InOrder
    <3>. QED
      BY <2>3, <3>2, <3>4
  <2>6. ASSUME NEW V, NEW n \in Nat, Upward(V), Agreed(l, n, V)
        PROVE  Agreed(r, n + (IF t \in V THEN 1 ELSE 0), V)
    <3>1. Many(q, V) = Many(<< q[1] >>, V) + Many(r, V)
      <4>1. << q[1] >> \in Seq(Nat)
        BY <2>2
      <4>. DEFINE a == << q[1] >>
      <4>2. a \in Seq(Nat) /\ q = a \o r
        BY <2>4, <4>1
      <4>. HIDE DEF a
      <4>3. Many(a \o r, V) = Many(a, V) + Many(r, V)
        BY <2>3, <4>2, ManyJoined
      <4>. QED
        BY <4>2, <4>3 DEF a
    <3>2. Many(<< q[1] >>, V) = IF q[1] \in V THEN 1 ELSE 0
      BY <2>2, ManyOfOne
    <3>3. Many(q, V) = Many(l, V) + (IF t \in V THEN 1 ELSE 0)
      BY <1>1
    <3>4. Many(r, V) \in Nat
      <4>1. Many(r, V) \in 0..Len(r)
        BY <2>3, ManyIs
      <4>. QED
        BY <4>1
    <3>5. CASE q[1] \notin V
      <4>1. Many(r, V) = Many(l, V) + (IF t \in V THEN 1 ELSE 0)
        BY <3>1, <3>2, <3>3, <3>4, <3>5
      <4>. QED
        BY <1>0, <1>4, <2>6, <4>1 DEF Agreed
    <3>6. CASE q[1] \in V
      <4>1. \A i \in 1..Len(q) : q[i] \in V
        <5>. SUFFICES ASSUME NEW i \in 1..Len(q) PROVE q[i] \in V
          OBVIOUS
        <5>1. 1 \in 1..Len(q) /\ 1 <= i /\ q[i] \in Nat
          BY <1>0, <1>1, <2>1
        <5>2. q[1] <= q[i]
          BY <1>1, <5>1 DEF InOrder
        <5>. QED
          BY <2>2, <2>6, <3>6, <5>1, <5>2 DEF Upward
      <4>2. Many(q, V) = ErrorCount + 1
        BY <1>1, <2>1, <4>1, ManyIs
      <4>3. Many(r, V) = ErrorCount
        BY <1>0, <3>1, <3>2, <3>4, <3>6, <4>2
      <4>4. Many(l, V) = ErrorCount /\ t \in V
        <5>1. Many(l, V) \in Nat /\ Many(l, V) <= ErrorCount
          BY <1>4, <2>1
        <5>. QED
          BY <1>0, <3>3, <4>2, <5>1
      <4>5. n + (IF t \in V THEN 1 ELSE 0) >= ErrorCount
        BY <1>0, <1>4, <2>6, <4>4 DEF Agreed
      <4>. QED
        BY <1>0, <4>3, <4>5 DEF Agreed
    <3>. QED
      BY <3>5, <3>6
  <2>7. Len(r) <= ErrorCount
    BY <1>0, <2>3
  <2>. QED
    BY <2>1, <2>3, <2>5, <2>6, <2>7
<1>. QED
  BY <1>5, <1>6

\* evaluate(): the list that is left has exactly the times that count now and at any other time,
\* be it earlier.
LEMMA WindowedKeeps ==
  ASSUME NEW l \in Seq(Nat), InOrder(l), reading \in Nat
  PROVE  /\ Windowed(l) \in Seq(Nat) /\ InOrder(Windowed(l)) /\ Len(Windowed(l)) <= Len(l)
         /\ Len(Windowed(l)) = Many(l, Fresh(reading))
         /\ \A x \in Nat : Many(Windowed(l), Fresh(x)) = Many(l, Fresh(x) \cap Fresh(reading))
<1>. DEFINE N == Len(l)
<1>. DEFINE S == {n \in 0..N : \A i \in 1..n : TooOld(l[i])}
<1>. DEFINE gone == Max(S)
<1>. DEFINE a == SubSeq(l, 1, gone)
<1>. DEFINE b == Later(l, gone)
<1>0. Window \in Nat
  BY RuleAssumption
<1>1. N \in Nat /\ \A i \in 1..N : l[i] \in Nat
  OBVIOUS
<1>2. gone \in S /\ \A n \in S : n <= gone
  <2>1. S \in SUBSET (0..N) /\ 0 \in S
    BY <1>1
  <2>. HIDE DEF S
  <2>. QED
    BY <1>1, <2>1, MaxIsGreatest
<1>3. Windowed(l) = b
  BY DEF Windowed, Later
<1>4. gone \in 0..N /\ \A i \in 1..gone : TooOld(l[i])
  BY <1>2
<1>5. gone < N => ~TooOld(l[gone + 1])
  <2>. SUFFICES ASSUME gone < N, TooOld(l[gone + 1]) PROVE FALSE
    OBVIOUS
  <2>1. gone + 1 \in 0..N /\ \A i \in 1..(gone + 1) : i \in 1..gone \/ i = gone + 1
    <3>. HIDE DEF gone, S
    <3>1. gone \in Nat /\ N \in Nat /\ gone < N
      BY <1>1, <1>4
    <3>. HIDE DEF N
    <3>. QED
      BY <3>1
  <2>2. gone + 1 \in S
    <3>. HIDE DEF gone
    <3>. QED
      BY <1>4, <2>1
  <2>3. gone + 1 <= gone
    BY <1>2, <2>2
  <2>. QED
    BY <1>4, <2>3
<1>. HIDE DEF gone
<1>6. a \in Seq(Nat) /\ Len(a) = gone /\ \A i \in 1..gone : a[i] = l[i]
  BY <1>4, FirstBytes
<1>7. b \in Seq(Nat) /\ Len(b) = N - gone /\ \A i \in 1..(N - gone) : b[i] = l[gone + i]
  BY <1>4, LaterIs
<1>. HIDE DEF a, b
<1>8. a \o b = l
  <2>1. /\ a \o b \in Seq(Nat) /\ Len(a \o b) = Len(a) + Len(b)
        /\ \A i \in 1..(Len(a) + Len(b)) : (a \o b)[i] = IF i <= Len(a) THEN a[i] ELSE b[i - Len(a)]
    BY <1>6, <1>7, ConcatProperties
  <2>2. Len(a \o b) = N
    BY <1>1, <1>4, <1>6, <1>7, <2>1
  <2>3. ASSUME NEW i \in 1..N PROVE (a \o b)[i] = l[i]
    <3>1. (a \o b)[i] = IF i <= gone THEN a[i] ELSE b[i - gone]
      <4>1. Len(a) = gone /\ Len(a) + Len(b) = N
        BY <1>1, <1>4, <1>6, <1>7
      <4>2. (a \o b)[i] = IF i <= Len(a) THEN a[i] ELSE b[i - Len(a)]
        BY <2>1, <4>1
      <4>. QED
        BY <4>1, <4>2
    <3>2. CASE i <= gone
      BY <1>4, <1>6, <3>1, <3>2
    <3>3. CASE ~(i <= gone)
      <4>1. i - gone \in 1..(N - gone) /\ gone + (i - gone) = i
        BY <1>1, <1>4, <3>3
      <4>. QED
        BY <1>7, <3>1, <3>3, <4>1
    <3>. QED
      BY <3>2, <3>3
  <2>. QED
    BY <2>1, <2>2, <2>3, SeqEqual
<1>9. ASSUME NEW i \in 1..Len(b) PROVE b[i] \in Fresh(reading)
  <2>1. gone < N /\ gone + 1 \in 1..N /\ gone + i \in 1..N /\ gone + 1 <= gone + i /\ b[i] = l[gone + i]
    <3>1. i \in 1..(N - gone) /\ N \in Nat /\ gone \in 0..N
      BY <1>1, <1>4, <1>7
    <3>2. b[i] = l[gone + i]
      BY <1>7, <3>1
    <3>. HIDE DEF N
    <3>3. gone < N /\ gone + 1 \in 1..N /\ gone + i \in 1..N /\ gone + 1 <= gone + i
      BY <3>1
    <3>. QED
      BY <3>2, <3>3
  <2>2. ~TooOld(l[gone + 1]) /\ l[gone + 1] <= l[gone + i] /\ l[gone + 1] \in Nat /\ l[gone + i] \in Nat
    BY <1>1, <1>5, <2>1 DEF InOrder
  <2>. DEFINE u == l[gone + 1]
  <2>. DEFINE v == l[gone + i]
  <2>3. u \in Nat /\ v \in Nat /\ u <= v /\ ~(reading >= u /\ reading - u > Window)
    BY <2>2 DEF TooOld
  <2>4. b[i] = v
    BY <2>1
  <2>. HIDE DEF u, v
  <2>5. v \in Nat /\ v + Window >= reading
    BY <1>0, <2>3
  <2>. QED
    BY <2>4, <2>5 DEF Fresh
<1>10. ASSUME NEW x \in Nat PROVE Many(b, Fresh(x)) = Many(l, Fresh(x) \cap Fresh(reading))
  <2>. DEFINE V == Fresh(x) \cap Fresh(reading)
  <2>1. ASSUME NEW i \in 1..Len(a) PROVE a[i] \notin V
    <3>1. i \in 1..gone /\ i \in 1..N /\ TooOld(l[i]) /\ a[i] = l[i] /\ l[i] \in Nat
      BY <1>1, <1>4, <1>6
    <3>. QED
      BY <1>0, <3>1 DEF TooOld, Fresh
  <2>2. Where(b, Fresh(x)) = Where(b, V)
    BY <1>9 DEF Where
  <2>. HIDE DEF V
  <2>3. Many(a, V) = 0
    BY <1>6, <2>1, ManyIs
  <2>4. Many(l, V) = Many(a, V) + Many(b, V)
    BY <1>6, <1>7, <1>8, ManyJoined
  <2>5. Many(b, V) \in 0..Len(b) /\ Len(b) \in Nat
    BY <1>7, ManyIs
  <2>6. Many(b, Fresh(x)) = Many(b, V)
    BY <2>2 DEF Many
  <2>. QED
    BY <2>3, <2>4, <2>5, <2>6 DEF V
<1>11. Len(b) = Many(l, Fresh(reading))
  <2>1. Many(b, Fresh(reading)) = Len(b)
    BY <1>7, <1>9, ManyIs
  <2>2. Fresh(reading) \cap Fresh(reading) = Fresh(reading)
    OBVIOUS
  <2>. QED
    BY <1>10, <2>1, <2>2
<1>12. InOrder(b)
  <2>1. \A i \in 1..Len(b) : gone + i \in 1..N /\ b[i] = l[gone + i]
    BY <1>1, <1>4, <1>7
  <2>2. \A i, j \in 1..Len(b) : i <= j => gone + i <= gone + j
    BY <1>4, <1>7
  <2>. QED
    BY <2>1, <2>2 DEF InOrder
<1>13. Len(b) <= N
  BY <1>1, <1>4, <1>7
<1>. QED
  BY <1>3, <1>7, <1>10, <1>11, <1>12, <1>13

-----------------------------------------------------------------------------
(* The errors that count *)

Entry == [time : Nat, judged : Nat]
Known(entered, x) == Cardinality(Counted(entered, x))

\* The errors that count at a time are some of those entered.
LEMMA KnownIs ==
  ASSUME NEW h \in Seq(Entry), NEW x
  PROVE  IsFiniteSet(Counted(h, x)) /\ Known(h, x) \in Nat /\ Len(h) \in Nat
         /\ Counted(h, x) \subseteq 1..Len(h)
<1>1. Len(h) \in Nat /\ DOMAIN h = 1..Len(h)
  OBVIOUS
<1>2. IsFiniteSet(1..Len(h))
  <2>. DEFINE n == Len(h)
  <2>1. n \in Int /\ 1 \in Int
    BY <1>1
  <2>. HIDE DEF n
  <2>2. IsFiniteSet(1..n)
    BY <2>1, FS_Interval
  <2>. QED
    BY <2>2 DEF n
<1>3. Counted(h, x) \subseteq 1..Len(h)
  BY <1>1 DEF Counted
<1>. QED
  BY <1>1, <1>2, <1>3, FS_Subset, FS_CardinalityType DEF Known

\* A new error counts wherever its time is in the window: nobody has judged it yet.
LEMMA KnownGrows ==
  ASSUME NEW h \in Seq(Entry), NEW t \in Nat, NEW x \in Nat
  PROVE  /\ Append(h, [time |-> t, judged |-> 0]) \in Seq(Entry)
         /\ Known(Append(h, [time |-> t, judged |-> 0]), x)
              = Known(h, x) + (IF t \in Fresh(x) THEN 1 ELSE 0)
<1>. DEFINE e == [time |-> t, judged |-> 0]
            g == Append(h, e)
            n == Len(h) + 1
<1>0. Window \in Nat
  BY RuleAssumption
<1>1. e \in Entry /\ (InWindow(e, x) <=> t \in Fresh(x))
  BY <1>0 DEF Entry, InWindow, Fresh
<1>. HIDE DEF e
<1>2. /\ g \in Seq(Entry) /\ Len(g) = n /\ Len(h) \in Nat /\ n \notin 1..Len(h)
      /\ g[n] = e /\ DOMAIN g = 1..n /\ DOMAIN h = 1..Len(h)
      /\ \A i \in 1..Len(h) : g[i] = h[i]
  BY <1>1
<1>. HIDE DEF g
<1>3. Counted(g, x) = Counted(h, x) \cup (IF t \in Fresh(x) THEN {n} ELSE {})
  <2>1. \A i \in 1..n : i \in 1..Len(h) \/ i = n
    BY <1>2
  <2>2. n \in 1..n /\ \A i \in 1..Len(h) : i \in 1..n
    BY <1>2
  <2>. HIDE DEF n
  <2>. QED
    BY <1>1, <1>2, <2>1, <2>2 DEF Counted
<1>4. n \notin Counted(h, x) /\ IsFiniteSet(Counted(h, x)) /\ Known(h, x) \in Nat
  BY <1>2, KnownIs
<1>. HIDE DEF n
<1>5. CASE t \in Fresh(x)
  <2>1. Counted(g, x) = Counted(h, x) \cup {n}
    BY <1>3, <1>5
  <2>2. Cardinality(Counted(h, x) \cup {n}) = Cardinality(Counted(h, x)) + 1
    BY <1>4, FS_AddElement
  <2>. QED
    BY <1>2, <1>5, <2>1, <2>2 DEF Known, g, e
<1>6. CASE t \notin Fresh(x)
  <2>1. Counted(g, x) = Counted(h, x)
    BY <1>3, <1>6
  <2>. QED
    BY <1>2, <1>4, <1>6, <2>1 DEF Known, g, e
<1>. QED
  BY <1>5, <1>6

\* The history after an evaluation.
Judged(h) ==
  [i \in DOMAIN h |-> [time |-> h[i].time, judged |-> Max({h[i].judged, reading})]]

LEMMA MaxOfTwo ==
  ASSUME NEW a \in Nat, NEW b \in Nat
  PROVE  Max({a, b}) = IF a <= b THEN b ELSE a
<1>. DEFINE S == {a, b}
            n == a + b
<1>1. n \in Nat /\ S \in SUBSET (0..n) /\ S # {}
  OBVIOUS
<1>. HIDE DEF n
<1>2. Max(S) \in S /\ \A y \in S : y <= Max(S)
  BY <1>1, MaxIsGreatest
<1>. DEFINE m == Max(S)
<1>3. (m = a \/ m = b) /\ a <= m /\ b <= m
  BY <1>2
<1>. HIDE DEF m
<1>4. m = IF a <= b THEN b ELSE a
  BY <1>3
<1>. QED
  BY <1>4 DEF m

\* What an evaluation at one time found too old does not count at any other; the rest does as before.
LEMMA KnownJudged ==
  ASSUME NEW h \in Seq(Entry), reading \in Nat, NEW x \in Nat, NEW z \in Nat,
         Fresh(z) = Fresh(x) \cap Fresh(reading)
  PROVE  Judged(h) \in Seq(Entry) /\ Known(Judged(h), x) = Known(h, z)
<1>. DEFINE g == Judged(h)
<1>0. Window \in Nat
  BY RuleAssumption
<1>1. Len(h) \in Nat /\ DOMAIN h = 1..Len(h) /\ \A i \in 1..Len(h) : h[i] \in Entry
  OBVIOUS
<1>2. ASSUME NEW i \in 1..Len(h)
      PROVE  /\ g[i].time = h[i].time /\ g[i] \in Entry
             /\ g[i].judged = IF h[i].judged <= reading THEN reading ELSE h[i].judged
  <2>1. h[i].time \in Nat /\ h[i].judged \in Nat
    BY <1>1 DEF Entry
  <2>2. Max({h[i].judged, reading}) = IF h[i].judged <= reading THEN reading ELSE h[i].judged
    BY <2>1, MaxOfTwo
  <2>3. g[i] = [time |-> h[i].time, judged |-> Max({h[i].judged, reading})]
    BY <1>1 DEF Judged
  <2>4. Max({h[i].judged, reading}) \in Nat
    BY <2>1, <2>2
  <2>. HIDE DEF g
  <2>. QED
    BY <2>1, <2>2, <2>3, <2>4 DEF Entry
<1>3. g \in Seq(Entry) /\ DOMAIN g = 1..Len(h)
  <2>1. DOMAIN g = 1..Len(h) /\ g = [i \in 1..Len(h) |-> g[i]]
    BY <1>1 DEF Judged
  <2>. HIDE DEF g
  <2>. QED
    BY <1>1, <1>2, <2>1
<1>. HIDE DEF g
<1>4. ASSUME NEW i \in 1..Len(h) PROVE InWindow(g[i], x) <=> InWindow(h[i], z)
  <2>1. h[i].time \in Nat /\ h[i].judged \in Nat
    BY <1>1 DEF Entry
  <2>2. h[i].time + Window >= z <=> h[i].time + Window >= x /\ h[i].time + Window >= reading
    BY <1>0, <2>1 DEF Fresh
  <2>. QED
    BY <1>0, <1>2, <2>1, <2>2 DEF InWindow
<1>5. Counted(g, x) = Counted(h, z)
  BY <1>1, <1>3, <1>4 DEF Counted
<1>. QED
  BY <1>3, <1>5 DEF Known, g

-----------------------------------------------------------------------------
(* The rule *)

\* The inductive invariant: for an evaluation at any time, the bounded list knows as many errors as
\* count then, or enough.
HealthInv ==
  /\ StreamInv
  /\ reading \in Nat /\ failure \in Nat
  /\ pending \in Seq(Nat) /\ history \in Seq(Entry)
  /\ errors \in Seq(Nat) /\ InOrder(errors) /\ Len(errors) <= ErrorCount
  /\ \A x \in Nat : Agreed(errors, Known(history, x), Fresh(x))

LEMMA NothingKnown ==
  /\ << >> \in Seq(Nat) /\ << >> \in Seq(Entry) /\ Len(<< >>) = 0 /\ InOrder(<< >>)
  /\ \A x \in Nat : Agreed(<< >>, Known(<< >>, x), Fresh(x))
<1>1. << >> \in Seq(Nat) /\ << >> \in Seq(Entry) /\ Len(<< >>) = 0
  OBVIOUS
<1>2. InOrder(<< >>)
  BY <1>1 DEF InOrder
<1>3. ASSUME NEW x \in Nat PROVE Agreed(<< >>, Known(<< >>, x), Fresh(x))
  <2>1. Counted(<< >>, x) = {} /\ Where(<< >>, Fresh(x)) = {}
    BY <1>1 DEF Counted, Where
  <2>. QED
    BY <2>1, Zenon DEF Agreed, Known, Many
<1>. QED
  BY <1>1, <1>2, <1>3

LEMMA HealthStarts == HealthInit => HealthInv
<1>. SUFFICES ASSUME HealthInit PROVE HealthInv
  OBVIOUS
<1>1. StreamInv /\ pending = << >> /\ errors = << >> /\ reading = 0 /\ failure = 0 /\ history = << >>
  BY StreamStarts DEF HealthInit
<1>2. 0 <= ErrorCount
  BY RuleAssumption
<1>. QED
  BY <1>1, <1>2, NothingKnown DEF HealthInv

\* An error of either thread.
LEMMA EntryKeeps ==
  ASSUME HealthInv, NEW t \in Nat, ErrorEntered(t)
  PROVE  /\ history' \in Seq(Entry)
         /\ errors' \in Seq(Nat) /\ InOrder(errors') /\ Len(errors') <= ErrorCount
         /\ \A x \in Nat : Agreed(errors', Known(history', x), Fresh(x))
<1>1. errors' = Entered(errors, t) /\ history' = Append(history, [time |-> t, judged |-> 0])
  BY DEF ErrorEntered
<1>2. /\ errors \in Seq(Nat) /\ InOrder(errors) /\ Len(errors) <= ErrorCount /\ history \in Seq(Entry)
      /\ \A x \in Nat : Agreed(errors, Known(history, x), Fresh(x))
  BY DEF HealthInv
<1>3. /\ errors' \in Seq(Nat) /\ InOrder(errors') /\ Len(errors') <= ErrorCount
      /\ \A V : \A n \in Nat :
           Upward(V) /\ Agreed(errors, n, V) => Agreed(errors', n + (IF t \in V THEN 1 ELSE 0), V)
  BY <1>1, <1>2, EnteredKeeps
<1>4. history' \in Seq(Entry) /\ \A x \in Nat : Known(history', x) = Known(history, x) + (IF t \in Fresh(x) THEN 1 ELSE 0)
  <2>1. 0 \in Nat
    OBVIOUS
  <2>. QED
    BY <1>1, <1>2, <2>1, KnownGrows
<1>5. ASSUME NEW x \in Nat PROVE Agreed(errors', Known(history', x), Fresh(x))
  <2>1. Upward(Fresh(x)) /\ Known(history, x) \in Nat /\ Agreed(errors, Known(history, x), Fresh(x))
    BY <1>2, FreshIsUpward, KnownIs
  <2>. QED
    BY <1>3, <1>4, <2>1
<1>. QED
  BY <1>3, <1>4, <1>5

LEMMA HealthStep == HealthInv /\ [HealthNext]_allVars => HealthInv'
<1>. SUFFICES ASSUME HealthInv, [HealthNext]_allVars PROVE HealthInv'
  OBVIOUS
<1>1. /\ StreamInv /\ reading \in Nat /\ failure \in Nat
      /\ pending \in Seq(Nat) /\ history \in Seq(Entry)
      /\ errors \in Seq(Nat) /\ InOrder(errors) /\ Len(errors) <= ErrorCount
      /\ \A x \in Nat : Agreed(errors, Known(history, x), Fresh(x))
  BY DEF HealthInv
<1>2. StreamInv'
  BY <1>1, StreamStep
<1>3. HealthInv' <=> /\ reading' \in Nat /\ failure' \in Nat
                     /\ pending' \in Seq(Nat) /\ history' \in Seq(Entry)
                     /\ errors' \in Seq(Nat) /\ InOrder(errors') /\ Len(errors') <= ErrorCount
                     /\ \A x \in Nat : Agreed(errors', Known(history', x), Fresh(x))
  BY <1>2 DEF HealthInv, InOrder, Agreed, Known, Counted, InWindow, Many, Where, Fresh
<1>4. ASSUME reading' \in Nat, failure' \in Nat, pending' \in Seq(Nat), UNCHANGED <<errors, history>>
      PROVE  HealthInv'
  <2>1. errors' = errors /\ history' = history
    BY <1>4
  <2>. QED
    BY <1>1, <1>3, <1>4, <2>1
<1>5. Clock \subseteq Nat
  BY DEF Clock
<1>6. CASE HandleChunk
  <2>1. reading' = reading /\ failure' = failure /\ UNCHANGED <<errors, history>>
    BY <1>6 DEF HandleChunk
  <2>2. pending' \in Seq(Nat)
    <3>. DEFINE new == SubSeq(events', Len(events) + 1, Len(events'))
    <3>. DEFINE failed == {n \in DOMAIN new : new[n].kind # "frame"}
    <3>1. pending' = [i \in 1..Cardinality(failed) |-> 0]
      BY <1>6 DEF HandleChunk
    <3>2. events \in Seq(Event) /\ events' \in Seq(Event)
      <4>1. LoopInv(definition, stream, parsedBefore, Now) /\ stream \in Seq(Byte) /\ Now.events = events
        BY <1>1 DEF StreamInv, Now
      <4>2. LoopInv(definition', stream', parsedBefore', Now') /\ stream' \in Seq(Byte) /\ Now'.events = events'
        BY <1>2 DEF StreamInv, Now
      <4>3. Now \in Parser /\ Now' \in Parser
        BY <4>1, <4>2, LoopFacts
      <4>. QED
        BY <4>1, <4>2, <4>3 DEF Parser
    <3>3. Len(events) + 1 \in Int /\ Len(events') \in Int /\ \A i \in (Len(events) + 1)..Len(events') : events'[i] \in Event
      BY <3>2
    <3>4. new \in Seq(Event)
      BY <3>3, SubSeqProperties
    <3>5. IsFiniteSet(DOMAIN new)
      <4>. HIDE DEF new
      <4>1. DOMAIN new = 1..Len(new) /\ Len(new) \in Int /\ 1 \in Int
        BY <3>4
      <4>. QED
        BY <4>1, FS_Interval
    <3>6. failed \in SUBSET DOMAIN new
      OBVIOUS
    <3>. HIDE DEF failed, new
    <3>7. Cardinality(failed) \in Nat
      BY <3>5, <3>6, FS_Subset, FS_CardinalityType
    <3>8. [i \in 1..Cardinality(failed) |-> 0] \in Seq(Nat)
      BY <3>7
    <3>. QED
      BY <3>1, <3>8
  <2>. QED
    BY <1>1, <1>4, <2>1, <2>2
<1>7. CASE StampError
  <2>1. reading' = reading /\ failure' = failure /\ UNCHANGED <<errors, history>>
    BY <1>7 DEF StampError
  <2>2. PICK t \in Clock : pending' = [pending EXCEPT ![1] = t]
    BY <1>7 DEF StampError
  <2>3. t \in Nat
    BY <1>5, <2>2
  <2>4. pending' \in Seq(Nat)
    BY <1>1, <1>7, <2>2, <2>3 DEF StampError
  <2>. QED
    BY <1>1, <1>4, <2>1, <2>4
<1>8. CASE ObserveError
  <2>. DEFINE t == pending[1]
  <2>1. /\ t \in Nat /\ ErrorEntered(t) /\ pending' \in Seq(Nat)
        /\ reading' = reading /\ failure' = failure
    BY <1>1, <1>8 DEF ObserveError
  <2>. HIDE DEF t
  <2>. QED
    BY <1>1, <1>3, <2>1, EntryKeeps
<1>9. CASE SourceFails
  BY <1>1, <1>4, <1>5, <1>9 DEF SourceFails
<1>10. CASE ObserveSourceError
  <2>1. ErrorEntered(failure) /\ failure' = 0 /\ reading' = reading /\ pending' = pending
    BY <1>10 DEF ObserveSourceError
  <2>. QED
    BY <1>1, <1>3, <2>1, EntryKeeps
<1>11. CASE StartEvaluation
  BY <1>1, <1>4, <1>5, <1>11 DEF StartEvaluation
<1>12. CASE Evaluate
  <2>1. /\ errors' = Windowed(errors) /\ reading' = 0 /\ pending' = pending /\ failure' = failure
        /\ history' = Judged(history)
    BY <1>12 DEF Evaluate, Judged
  <2>2. /\ errors' \in Seq(Nat) /\ InOrder(errors') /\ Len(errors') <= Len(errors)
        /\ \A x \in Nat : Many(errors', Fresh(x)) = Many(errors, Fresh(x) \cap Fresh(reading))
    BY <1>1, <2>1, WindowedKeeps
  <2>3. ASSUME NEW x \in Nat PROVE history' \in Seq(Entry) /\ Agreed(errors', Known(history', x), Fresh(x))
    <3>. DEFINE z == IF x <= reading THEN reading ELSE x
    <3>1. z \in Nat /\ Fresh(z) = Fresh(x) \cap Fresh(reading)
      BY <1>1, RuleAssumption DEF Fresh
    <3>. HIDE DEF z
    <3>2. history' \in Seq(Entry) /\ Known(history', x) = Known(history, z)
      BY <1>1, <2>1, <3>1, KnownJudged
    <3>3. Agreed(errors, Known(history, z), Fresh(z)) /\ Many(errors', Fresh(x)) = Many(errors, Fresh(z))
      BY <1>1, <2>2, <3>1
    <3>. QED
      BY <3>2, <3>3 DEF Agreed
  <2>4. Len(errors') <= ErrorCount
    <3>1. Len(errors) \in Nat /\ Len(errors') \in Nat /\ ErrorCount \in Nat
      BY <1>1, <2>2, RuleAssumption
    <3>. QED
      BY <1>1, <2>2, <3>1
  <2>5. 0 \in Nat
    OBVIOUS
  <2>. QED
    BY <1>1, <1>3, <2>1, <2>2, <2>3, <2>4, <2>5
<1>13. CASE ResetRule
  <2>1. /\ errors' = << >> /\ history' = << >> /\ pending' = pending /\ failure' = failure
        /\ reading' = reading
    BY <1>13 DEF ResetRule
  <2>2. 0 <= ErrorCount
    BY RuleAssumption
  <2>. QED
    BY <1>1, <1>3, <2>1, <2>2, NothingKnown
<1>14. CASE UNCHANGED allVars
  BY <1>1, <1>4, <1>14 DEF allVars, healthVars
<1>. QED
  BY <1>6, <1>7, <1>8, <1>9, <1>10, <1>11, <1>12, <1>13, <1>14 DEF HealthNext

\* HealthInv is an invariant: at every time, the list of errorCount times knows of every error since
\* the last reset that an evaluation then would count, whatever the two threads that enter errors and
\* the one that evaluates do between reading the clock and taking the lock, and however often the
\* clock is set back.
THEOREM HealthInvariance == HealthSpec => []HealthInv
<1>. QED
  BY HealthStarts, HealthStep, PTL DEF HealthSpec

\* RuleSeesTheWindow: for every errorCount and window, an evaluation finds the rule active exactly if
\* errorCount errors entered since the last reset lie in its window (or after it) and did in that of
\* every evaluation since they were entered.
THEOREM WindowTheorem == HealthSpec => RuleSeesTheWindow
<1>1. HealthInv /\ [HealthNext]_allVars =>
        [reading # 0 /\ reading' = 0 =>
           active' = (Cardinality(Counted(history, reading)) >= ErrorCount)]_allVars
  <2>. SUFFICES ASSUME HealthInv, HealthNext, reading # 0, reading' = 0
                PROVE  active' = (Known(history, reading) >= ErrorCount)
    BY Zenon DEF Known
  <2>1. Evaluate
    <3>1. HandleChunk => reading' = reading
      BY DEF HandleChunk
    <3>2. StampError => reading' = reading
      BY DEF StampError
    <3>3. ObserveError => reading' = reading
      BY DEF ObserveError
    <3>4. SourceFails \/ ObserveSourceError => reading' = reading
      BY DEF SourceFails, ObserveSourceError
    <3>5. StartEvaluation => reading = 0
      BY DEF StartEvaluation
    <3>6. ResetRule => reading = 0
      BY DEF ResetRule
    <3>. QED
      BY <3>1, <3>2, <3>3, <3>4, <3>5, <3>6 DEF HealthNext
  <2>2. /\ reading \in Nat /\ errors \in Seq(Nat) /\ InOrder(errors)
        /\ Agreed(errors, Known(history, reading), Fresh(reading))
    BY DEF HealthInv
  <2>3. errors' = Windowed(errors) /\ active' = (Len(errors') >= ErrorCount)
    BY <2>1 DEF Evaluate
  <2>4. Len(errors') = Many(errors, Fresh(reading))
    BY <2>2, <2>3, WindowedKeeps
  <2>5. Len(errors') >= ErrorCount <=> Known(history, reading) >= ErrorCount
    BY <2>2, <2>4 DEF Agreed
  <2>. QED
    BY <2>3, <2>5
<1>. QED
  BY <1>1, HealthInvariance, PTL DEF HealthSpec, RuleSeesTheWindow
=============================================================================
