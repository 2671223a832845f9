------------------------ MODULE RosbagImport_proofs ------------------------
(***************************************************************************)
(* Proofs about RosbagImport for every bag, every number of its databases, *)
(* whatever is added to it meanwhile, and any number of tasks.             *)
(***************************************************************************)
EXTENDS RosbagImport, SequenceTheorems, FiniteSetTheorems, WellFoundedInduction, TLAPS

\* What a query delivers is in its order.
OrderInv == \A d \in Databases : InOrder(bag[d]) /\ InOrder(cursors[d])

\* Before the merge nothing was read of a cursor.
UnreadInv ==
    worker \in {"check", "count", "countAll", "select", "compare"} => log = <<>> /\ snapshot = cursors

\* What was offered is written or still to be delivered, ...
OfferedInv == OfferedBy(snapshot) = Written(log) \cup OfferedBy(cursors)

\* ... and what is written comes before what is still to be delivered.
LogInv ==
    /\ \A i, j \in DOMAIN log : i < j => Earlier(log[i], log[j])
    /\ \A i \in DOMAIN log : log[i].sequence = i - 1
    /\ \A i \in DOMAIN log : \A d \in Databases : \A k \in DOMAIN cursors[d] :
         Earlier(log[i], Offered(d, cursors[d][k]))

CountInv ==
    /\ result.samples = Cardinality(OfKind(log, "mapped"))
    /\ result.failures = Cardinality(OfKind(log, "damaged"))

\* Nothing is published before everything was delivered.
DeliveredInv ==
    worker = "publish" => result.messages = Len(log) /\ \A d \in Databases : cursors[d] = <<>>

\* The window begins a task only when the last one is over and handled.
TaskInv == OneTask /\ (call = "start" => importing /\ inbox = <<>>)

IInv ==
    /\ TypeOK /\ OrderInv /\ UnreadInv /\ OfferedInv /\ LogInv /\ CountInv /\ DeliveredInv
    /\ TaskInv /\ NothingLeftBehind /\ PublishedIsWhole

-----------------------------------------------------------------------------
(* Which actions change what *)

LEMMA UserFrame == UserStep => UNCHANGED <<bag, declared, temporary, destination, published>>
BY DEF UserStep, Begin, Spawn, Cancel, HandleResult, ToggleRecording, Quit, JoinAtQuit, bagVars, disk

LEMMA WorkerFrame ==
    WorkerStep => UNCHANGED <<bag, declared, recording, replaying, importing, call, stop, task, tasks>>
<1>. USE DEF workerRest, bagVars, ui
<1>1. CASE IOFails \/ Inspect
  BY <1>1 DEF IOFails, Inspect
<1>2. CASE CheckDestination \/ CountMessages \/ CountAll \/ StartCursor \/ CompareCatalog
  BY <1>2 DEF CheckDestination, CountMessages, CountAll, StartCursor, CompareCatalog
<1>3. CASE MergeRecord \/ FinishMerge \/ Publish \/ PostResult \/ Exit
  BY <1>3 DEF MergeRecord, FinishMerge, Publish, PostResult, Exit
<1>. QED
  BY <1>1, <1>2, <1>3 DEF WorkerStep

LEMMA BagFrame ==
    BagGrows => UNCHANGED <<declared, recording, replaying, importing, call, worker, stop, task, position,
                            cursors, result, log, temporary, destination, published, inbox, snapshot,
                            tasks>>
BY DEF BagGrows, ui, thread, disk

LEMMA DestinationFrame ==
    DestinationAppears =>
        UNCHANGED <<bag, declared, recording, replaying, importing, call, worker, stop, task, position,
                    cursors, result, log, temporary, published, inbox, snapshot, tasks>>
BY DEF DestinationAppears, ui, thread, bagVars

-----------------------------------------------------------------------------
(* The messages of some topics *)

LEMMA LeastMember ==
  ASSUME NEW S \in SUBSET Nat, S # {}
  PROVE  \E m \in S : \A k \in S : m <= k
<1>1. \E m \in S : \A k \in S : ~(<<k, m>> \in OpToRel(<, Nat))
  BY WFMin, NatLessThanWellFounded, Zenon
<1>2. PICK m \in S : \A k \in S : ~(<<k, m>> \in OpToRel(<, Nat))
  BY <1>1
<1>3. \A k \in S : ~(k < m)
  BY <1>2, Zenon DEF OpToRel
<1>. QED
  BY <1>3, SMT

\* Induction, with the set of the numbers for which a statement holds.
LEMMA Induction ==
  ASSUME NEW S \in SUBSET Nat, 0 \in S, \A n \in S : n + 1 \in S
  PROVE  \A n \in Nat : n \in S
<1>. SUFFICES ASSUME Nat \ S # {} PROVE FALSE
  OBVIOUS
<1>1. PICK m \in Nat \ S : \A k \in Nat \ S : m <= k
  BY LeastMember
<1>2. m - 1 \in S
  BY <1>1
<1>. QED
  BY <1>1, <1>2

\* Of() after each of the messages: the last of these is its result.
Steps(first, list, selection) ==
  /\ first[0] = <<>>
  /\ \A n \in 1..Len(list) :
       first[n] = IF list[n].topic \in selection THEN Append(first[n - 1], list[n]) ELSE first[n - 1]
  /\ Of(list, selection) = first[Len(list)]

LEMMA OfSteps ==
  ASSUME NEW list \in Seq(Message), NEW selection
  PROVE  \E first : Steps(first, list, selection)
<1>. DEFINE Step(f, n) == IF n = 0 THEN <<>>
                          ELSE IF list[n].topic \in selection THEN Append(f[n - 1], list[n]) ELSE f[n - 1]
            Is(f, m) == f = [n \in 0..m |-> Step(f, n)]
            M == {m \in Nat : \E f : Is(f, m)}
<1>1. 0 \in M
  <2>. DEFINE f == [n \in 0..0 |-> <<>>]
  <2>1. Is(f, 0)
    OBVIOUS
  <2>. QED
    BY <2>1
<1>2. ASSUME NEW m \in M PROVE m + 1 \in M
  <2>1. PICK f : Is(f, m)
    OBVIOUS
  <2>. DEFINE g == [n \in 0..(m + 1) |-> IF n <= m THEN f[n] ELSE Step(f, m + 1)]
  <2>2. ASSUME NEW n \in 0..(m + 1) PROVE g[n] = Step(g, n)
    <3>. HIDE DEF Step
    <3>1. \A k \in 0..m : f[k] = Step(f, k) /\ g[k] = f[k]
      <4>1. f = [k \in 0..m |-> Step(f, k)]
        BY <2>1
      <4>2. \A k \in 0..m : g[k] = f[k]
        OBVIOUS
      <4>3. \A k \in 0..m : f[k] = Step(f, k)
        BY <4>1, Zenon
      <4>. QED
        BY <4>2, <4>3
    <3>2. g[m + 1] = Step(f, m + 1)
      OBVIOUS
    <3>. HIDE DEF g
    <3>. USE DEF Step
    <3>3. CASE n = 0
      BY <3>1, <3>3
    <3>4. CASE n \in 1..m
      <4>1. n - 1 \in 0..m /\ n \in 0..m
        BY <3>4
      <4>2. g[n] = Step(f, n) /\ g[n - 1] = f[n - 1]
        BY <3>1, <4>1
      <4>. QED
        BY <4>2
    <3>5. CASE n = m + 1
      <4>1. (m + 1) - 1 = m /\ m \in 0..m
        OBVIOUS
      <4>2. g[m] = f[m]
        BY <3>1, <4>1
      <4>. QED
        BY <3>2, <3>5, <4>1, <4>2
    <3>. QED
      BY <3>3, <3>4, <3>5
  <2>3. Is(g, m + 1)
    BY <2>2
  <2>. HIDE DEF g, Is
  <2>. QED
    BY <2>3
<1>3. Len(list) \in M
  <2>1. M \in SUBSET Nat /\ Len(list) \in Nat
    OBVIOUS
  <2>. HIDE DEF M
  <2>. QED
    BY <1>1, <1>2, <2>1, Induction
<1>. DEFINE first == CHOOSE f : Is(f, Len(list))
<1>4. Is(first, Len(list))
  BY <1>3
<1>5. Of(list, selection) = first[Len(list)]
  BY DEF Of
<1>. HIDE DEF first
<1>6. \A n \in 0..Len(list) : first[n] = Step(first, n)
  BY <1>4
<1>7. Len(list) \in Nat
  OBVIOUS
<1>. QED
  BY <1>5, <1>6, <1>7 DEF Steps

\* The messages of some topics are in the order they had.
LEMMA OfOrder ==
  ASSUME NEW list \in Seq(Message), NEW selection, InOrder(list)
  PROVE  Of(list, selection) \in Seq(Message) /\ InOrder(Of(list, selection))
<1>1. PICK first : Steps(first, list, selection)
  BY OfSteps
<1>. DEFINE Good(n) == /\ first[n] \in Seq(Message)
                       /\ \A i \in 1..Len(first[n]) : \E k \in 1..n : first[n][i] = list[k]
                       /\ \A i, j \in 1..Len(first[n]) : i < j => Before(first[n][i], first[n][j])
            M == {n \in Nat : n <= Len(list) => Good(n)}
<1>2. 0 \in M
  <2>1. first[0] = <<>> /\ <<>> \in Seq(Message) /\ Len(<<>>) = 0
    BY <1>1 DEF Steps
  <2>2. 1..Len(first[0]) = {}
    BY <2>1
  <2>3. Good(0)
    BY <2>1, <2>2
  <2>. HIDE DEF Good
  <2>. QED
    BY <2>3
<1>3. ASSUME NEW n \in M, n + 1 <= Len(list) PROVE Good(n + 1)
  <2>1. n + 1 \in 1..Len(list) /\ (n + 1) - 1 = n /\ n \in Nat /\ n <= Len(list)
    BY <1>3
  <2>2. first[n + 1] = IF list[n + 1].topic \in selection THEN Append(first[n], list[n + 1])
                       ELSE first[n]
    BY <1>1, <2>1 DEF Steps
  <2>3. Good(n)
    BY <1>3, <2>1
  <2>4. CASE list[n + 1].topic \notin selection
    BY <2>1, <2>2, <2>3, <2>4
  <2>5. CASE list[n + 1].topic \in selection
    <3>. DEFINE f == first[n]
                e == list[n + 1]
                g == first[n + 1]
    <3>1. f \in Seq(Message) /\ e \in Message /\ g = Append(f, e)
      BY <2>1, <2>2, <2>3, <2>5
    <3>2. \A i \in 1..Len(f) : \E k \in 1..n : f[i] = list[k]
      BY <2>3
    <3>3. \A i, j \in 1..Len(f) : i < j => Before(f[i], f[j])
      BY <2>3
    <3>4. \A k \in 1..n : Before(list[k], e)
      <4>1. \A k \in 1..n : k \in DOMAIN list /\ n + 1 \in DOMAIN list /\ k < n + 1
        BY <2>1
      <4>. QED
        BY <4>1 DEF InOrder
    <3>. HIDE DEF f, e, g, Good
    <3>5. /\ g \in Seq(Message) /\ Len(f) \in Nat /\ Len(g) = Len(f) + 1 /\ g[Len(f) + 1] = e
          /\ \A i \in 1..Len(f) : g[i] = f[i]
      BY <3>1
    <3>6. \A i \in 1..Len(g) : \E k \in 1..(n + 1) : g[i] = list[k]
      <4>1. SUFFICES ASSUME NEW i \in 1..Len(g) PROVE \E k \in 1..(n + 1) : g[i] = list[k]
        OBVIOUS
      <4>2. CASE i = Len(f) + 1
        <5>1. g[i] = list[n + 1] /\ n + 1 \in 1..(n + 1)
          BY <2>1, <3>5, <4>2 DEF e
        <5>. QED
          BY <5>1
      <4>3. CASE i \in 1..Len(f)
        <5>1. PICK k \in 1..n : f[i] = list[k]
          BY <3>2, <4>3
        <5>2. k \in 1..(n + 1) /\ g[i] = list[k]
          BY <2>1, <3>5, <4>3, <5>1
        <5>. QED
          BY <5>2
      <4>. QED
        BY <3>5, <4>2, <4>3
    <3>7. \A i, j \in 1..Len(g) : i < j => Before(g[i], g[j])
      <4>1. SUFFICES ASSUME NEW i \in 1..Len(g), NEW j \in 1..Len(g), i < j
                     PROVE  Before(g[i], g[j])
        OBVIOUS
      <4>2. i \in 1..Len(f) /\ g[i] = f[i] /\ (j = Len(f) + 1 \/ j \in 1..Len(f))
        BY <3>5, <4>1
      <4>3. CASE j \in 1..Len(f)
        BY <3>3, <3>5, <4>1, <4>2, <4>3
      <4>4. CASE j = Len(f) + 1
        <5>1. PICK k \in 1..n : f[i] = list[k]
          BY <3>2, <4>2
        <5>. QED
          BY <3>4, <3>5, <4>2, <4>4, <5>1
      <4>. QED
        BY <4>2, <4>3, <4>4
    <3>. QED
      BY <3>5, <3>6, <3>7 DEF Good, g
  <2>. QED
    BY <2>4, <2>5
<1>4. Len(list) \in M
  <2>1. M \in SUBSET Nat /\ Len(list) \in Nat /\ \A n \in M : n + 1 \in M
    <3>1. \A n \in M : n + 1 \in Nat
      OBVIOUS
    <3>. QED
      BY <1>3, <3>1
  <2>. HIDE DEF M
  <2>. QED
    BY <1>2, <2>1, Induction
<1>5. Good(Len(list)) /\ Of(list, selection) = first[Len(list)]
  BY <1>1, <1>4 DEF Steps
<1>. QED
  BY <1>5 DEF InOrder

-----------------------------------------------------------------------------
(* The merge *)

LEMMA Numbered == Databases \in SUBSET Nat
<1>1. Cardinality(Databases) \in Nat
  BY DatabasesAssumption, FS_CardinalityType
<1>2. 1..Cardinality(Databases) \in SUBSET Nat
  BY <1>1
<1>. QED
  BY <1>2, DatabasesAssumption

LEMMA Following ==
  ASSUME NEW d \in Databases, d # Cardinality(Databases)
  PROVE  d + 1 \in Databases
<1>1. PICK n \in Nat : n = Cardinality(Databases)
  BY DatabasesAssumption, FS_CardinalityType
<1>2. Databases = 1..n /\ d # n
  BY <1>1, DatabasesAssumption, Zenon
<1>. QED
  BY <1>2

LEMMA InRange ==
  ASSUME NEW p \in Nat \ {0}, ~(p > Cardinality(Databases))
  PROVE  p \in Databases
<1>1. PICK n \in Nat : n = Cardinality(Databases)
  BY DatabasesAssumption, FS_CardinalityType
<1>2. Databases = 1..n /\ ~(p > n)
  BY <1>1, DatabasesAssumption, Zenon
<1>. QED
  BY <1>2

\* While a cursor has a record, there is one whose record comes first.
LEMMA Earliest ==
  ASSUME cursors \in [Databases -> Seq(Message)], Waiting # {}
  PROVE  LET d == CHOOSE x \in Waiting : \A e \in Waiting : ComesFirst(x, e)
         IN  d \in Waiting /\ \A e \in Waiting : ComesFirst(d, e)
<1>. DEFINE time(d) == Head(cursors[d]).time
            T == {time(d) : d \in Waiting}
<1>1. \A d \in Waiting : time(d) \in Nat
  <2>1. ASSUME NEW d \in Waiting PROVE time(d) \in Nat
    <3>1. cursors[d] \in Seq(Message) /\ cursors[d] # <<>>
      BY <2>1 DEF Waiting
    <3>2. Head(cursors[d]) \in Message
      BY <3>1
    <3>. QED
      BY <3>2 DEF Message
  <2>. QED
    BY <2>1
<1>2. PICK t \in T : \A u \in T : t <= u
  <2>1. T \in SUBSET Nat /\ T # {}
    BY <1>1
  <2>. HIDE DEF T
  <2>. QED
    BY <2>1, LeastMember
<1>. DEFINE S == {d \in Waiting : time(d) = t}
<1>3. PICK x \in S : \A e \in S : x <= e
  <2>1. S \in SUBSET Nat
    BY Numbered DEF Waiting
  <2>2. S # {}
    OBVIOUS
  <2>. HIDE DEF S
  <2>. QED
    BY <2>1, <2>2, LeastMember
<1>4. x \in Waiting
  BY <1>3
<1>5. ASSUME NEW e \in Waiting PROVE ComesFirst(x, e)
  <2>1. time(x) = t /\ t <= time(e) /\ time(e) \in Nat /\ t \in Nat
    BY <1>1, <1>2, <1>3
  <2>2. time(e) = t => x <= e
    BY <1>3
  <2>. QED
    BY <2>1, <2>2 DEF ComesFirst
<1>. QED
  BY <1>4, <1>5

-----------------------------------------------------------------------------
(* Types *)

LEMMA BagKept ==
  ASSUME TypeOK, OrderInv, [Next]_vars
  PROVE  BagOK' /\ \A d \in Databases : InOrder(bag'[d])
<1>1. CASE BagGrows
  <2>1. PICK a \in Added :
          \E k \in 1..(Len(bag[a[1]]) + 1) :
            /\ InOrder(InsertAt(bag[a[1]], k, a[2]))
            /\ bag' = [bag EXCEPT ![a[1]] = InsertAt(bag[a[1]], k, a[2])]
    BY <1>1 DEF BagGrows
  <2>0. PICK i \in 1..(Len(bag[a[1]]) + 1) :
          /\ InOrder(InsertAt(bag[a[1]], i, a[2]))
          /\ bag' = [bag EXCEPT ![a[1]] = InsertAt(bag[a[1]], i, a[2])]
    BY <2>1
  <2>. DEFINE d == a[1]
              m == a[2]
              grown == InsertAt(bag[d], i, m)
  <2>2. d \in Databases /\ m \in Message
    BY AddedAssumption
  <2>3. bag[d] \in Seq(Message)
    BY <2>2 DEF TypeOK, BagOK
  <2>4. grown \in Seq(Message)
    <3>1. ASSUME NEW list \in Seq(Message), NEW e \in Message, NEW k \in 1..(Len(list) + 1)
          PROVE  InsertAt(list, k, e) \in Seq(Message)
      <4>1. SubSeq(list, 1, k - 1) \in Seq(Message)
        BY <3>1
      <4>2. SubSeq(list, k, Len(list)) \in Seq(Message)
        BY <3>1
      <4>3. <<e>> \in Seq(Message)
        BY <3>1
      <4>. QED
        BY <4>1, <4>2, <4>3 DEF InsertAt
    <3>. QED
      BY <2>2, <2>3, <3>1
  <2>5. declared' = declared
    BY <1>1, BagFrame
  <2>. HIDE DEF d, m, grown
  <2>6. InOrder(grown) /\ bag' = [bag EXCEPT ![d] = grown]
    BY <2>0 DEF d, m, grown
  <2>. QED
    BY <2>2, <2>4, <2>5, <2>6 DEF TypeOK, BagOK, OrderInv
<1>2. CASE UserStep \/ WorkerStep \/ DestinationAppears \/ UNCHANGED vars
  <2>1. bag' = bag /\ declared' = declared
    BY <1>2, UserFrame, WorkerFrame, DestinationFrame DEF vars, bagVars
  <2>. QED
    BY <2>1 DEF TypeOK, BagOK, OrderInv
<1>. QED
  BY <1>1, <1>2 DEF Next

LEMMA UiTypes == TypeOK /\ [Next]_vars => UiOK'
<1>. SUFFICES ASSUME TypeOK, [Next]_vars PROVE UiOK'
  OBVIOUS
<1>0. /\ UiOK /\ result.outcome \in Outcomes \cup {"running"}
      /\ worker = "post" => result.outcome # "running"
  BY DEF TypeOK, ThreadOK
<1>1. ASSUME NEW kind, NEW selection, Begin(kind, selection) PROVE UiOK'
  BY <1>0, <1>1, MaxTasksAssumption DEF UiOK, Begin
<1>2. CASE Spawn
  BY <1>0, <1>2 DEF UiOK, Spawn
<1>3. CASE Cancel \/ ToggleRecording \/ Quit
  BY <1>0, <1>3, Zenon DEF UiOK, Cancel, ToggleRecording, Quit, ui
<1>4. CASE HandleResult
  <2>1. inbox' \in Seq(Outcomes)
    BY <1>0, <1>4 DEF UiOK, HandleResult
  <2>2. replaying' \in BOOLEAN /\ importing' \in BOOLEAN
    BY <1>4 DEF HandleResult, FlagLowered
  <2>3. UNCHANGED <<recording, call, tasks>>
    BY <1>4 DEF HandleResult
  <2>. QED
    BY <1>0, <2>1, <2>2, <2>3, Zenon DEF UiOK
<1>5. CASE JoinAtQuit
  <2>1. inbox' = <<>> /\ <<>> \in Seq(Outcomes) /\ call' = "gone"
    BY <1>5 DEF JoinAtQuit
  <2>2. UNCHANGED <<recording, replaying, importing, tasks>>
    BY <1>5 DEF JoinAtQuit
  <2>. QED
    BY <1>0, <2>1, <2>2, Zenon DEF UiOK
<1>6. CASE WorkerStep
  <2>1. UNCHANGED <<recording, replaying, importing, call, tasks>>
    BY <1>6, WorkerFrame
  <2>2. inbox' \in Seq(Outcomes)
    <3>1. CASE PostResult
      <4>1. result.outcome \in Outcomes /\ inbox' = Append(inbox, result.outcome)
        BY <1>0, <3>1 DEF PostResult
      <4>. QED
        BY <1>0, <4>1 DEF UiOK
    <3>2. CASE ~PostResult
      <4>1. inbox' = inbox
        BY <1>6, <3>2 DEF WorkerStep, IOFails, Inspect, CheckDestination, CountMessages, CountAll,
           StartCursor, CompareCatalog, MergeRecord, FinishMerge, Publish, Exit, Ends
      <4>. QED
        BY <1>0, <4>1 DEF UiOK
    <3>. QED
      BY <3>1, <3>2
  <2>. QED
    BY <1>0, <2>1, <2>2, Zenon DEF UiOK
<1>7. CASE BagGrows \/ DestinationAppears \/ UNCHANGED vars
  <2>1. UNCHANGED <<recording, replaying, importing, call, tasks, inbox>>
    BY <1>7, BagFrame, DestinationFrame DEF vars, ui
  <2>. QED
    BY <1>0, <2>1, Zenon DEF UiOK
<1>. QED
  BY <1>1, <1>2, <1>3, <1>4, <1>5, <1>6, <1>7 DEF Next, UserStep

Results == [messages : Nat, all : Nat, topics : SUBSET Topics, samples : Nat, failures : Nat,
            status : Statuses, outcome : Outcomes \cup {"running"}]

\* The worker's way through its stages and the databases.
LEMMA StageTypes ==
  ASSUME TypeOK, [Next]_vars
  PROVE  /\ worker' \in Stages /\ stop' \in BOOLEAN
         /\ task' \in [kind : {"none", "inspect", "import"}, selection : SUBSET Topics]
         /\ position' \in Nat \ {0}
         /\ worker' \in {"check", "count", "countAll", "select"} => position' \in Databases
<1>. USE DEF TypeOK, ThreadOK
<1>0. 1 \in Databases /\ Cardinality(Databases) \in Nat
  BY DatabasesAssumption, FS_CardinalityType
<1>1. CASE UserStep
  <2>1. ASSUME NEW kind \in {"inspect", "import"}, NEW selection \in SUBSET Topics,
               Begin(kind, selection)
        PROVE  /\ UNCHANGED <<worker, stop, position>>
               /\ task' \in [kind : {"none", "inspect", "import"}, selection : SUBSET Topics]
    BY <2>1 DEF Begin
  <2>2. CASE Spawn
    <3>1. worker' \in {"inspect", "check"} /\ stop' = FALSE /\ position' = 1 /\ task' = task
      BY <2>2 DEF Spawn
    <3>2. stop' \in BOOLEAN
      BY <3>1, Zenon
    <3>4. worker' \in Stages /\ position' \in Nat \ {0}
      BY <3>1 DEF Stages
    <3>3. worker' \in {"check", "count", "countAll", "select"} => position' \in Databases
      BY <1>0, <3>1
    <3>. QED
      BY <3>1, <3>2, <3>3, <3>4
  <2>3. CASE Cancel \/ Quit
    <3>1. UNCHANGED <<worker, task, position>> /\ stop' \in BOOLEAN
      BY <2>3 DEF Cancel, Quit
    <3>. QED
      BY <3>1
  <2>4. CASE HandleResult \/ ToggleRecording
    <3>1. UNCHANGED <<worker, stop, task, position>>
      BY <2>4 DEF HandleResult, ToggleRecording, thread
    <3>. QED
      BY <3>1
  <2>5. CASE JoinAtQuit
    <3>1. UNCHANGED <<stop, task, position>> /\ worker' = "none"
      BY <2>5 DEF JoinAtQuit
    <3>. QED
      BY <3>1 DEF Stages
  <2>6. CASE \/ Begin("inspect", {})
             \/ \E selection \in SUBSET Topics : Begin("import", selection)
    <3>1. /\ UNCHANGED <<worker, stop, position>>
          /\ task' \in [kind : {"none", "inspect", "import"}, selection : SUBSET Topics]
      BY <2>1, <2>6
    <3>. QED
      BY <3>1
  <2>. QED
    BY <1>1, <2>2, <2>3, <2>4, <2>5, <2>6 DEF UserStep
<1>2. CASE WorkerStep
  <2>1. stop' = stop /\ task' = task
    BY <1>2, WorkerFrame
  <2>2. CASE CheckDestination
    <3>1. worker' \in {"post", "count"} /\ position' = position /\ position \in Databases
      BY <2>2 DEF CheckDestination, Ends
    <3>. QED
      BY <2>1, <3>1 DEF Stages
  <2>3. CASE CountMessages \/ CountAll
    <3>1. worker' \in {"countAll", "select"} /\ position' = position /\ position \in Databases
      BY <2>3 DEF CountMessages, CountAll
    <3>. QED
      BY <2>1, <3>1 DEF Stages
  <2>4. CASE StartCursor
    <3>1. /\ position \in Databases /\ position' = position + 1
          /\ worker' = IF position = Cardinality(Databases) THEN "compare" ELSE "count"
      BY <2>4 DEF StartCursor
    <3>2. position # Cardinality(Databases) => position + 1 \in Databases
      BY <3>1, Following
    <3>. QED
      BY <2>1, <3>1, <3>2 DEF Stages
  <2>5. CASE Inspect
    <3>1. worker' \in {"post", "inspect"} /\ position' \in {position, position + 1}
      BY <2>5 DEF Inspect, Ends
    <3>. QED
      BY <2>1, <3>1 DEF Stages
  <2>6. CASE IOFails \/ CompareCatalog \/ MergeRecord \/ FinishMerge
    <3>1. worker' \in {"post", "merge", "publish"} /\ position' = position
      BY <2>6 DEF IOFails, CompareCatalog, MergeRecord, FinishMerge, Ends
    <3>. QED
      BY <2>1, <3>1 DEF Stages
  <2>7. CASE Publish \/ PostResult \/ Exit
    <3>1. worker' \in {"post", "posted", "exited"} /\ position' = position
      BY <2>7 DEF Publish, PostResult, Exit, Ends
    <3>. QED
      BY <2>1, <3>1 DEF Stages
  <2>. QED
    BY <1>2, <2>2, <2>3, <2>4, <2>5, <2>6, <2>7 DEF WorkerStep
<1>3. CASE BagGrows \/ DestinationAppears \/ UNCHANGED vars
  <2>1. UNCHANGED <<worker, stop, task, position>>
    BY <1>3, BagFrame, DestinationFrame DEF vars, thread
  <2>. QED
    BY <2>1
<1>. QED
  BY <1>1, <1>2, <1>3 DEF Next

LEMMA ListTypes ==
  ASSUME TypeOK, OrderInv, [Next]_vars
  PROVE  /\ cursors' \in [Databases -> Seq(Message)] /\ snapshot' \in [Databases -> Seq(Message)]
         /\ log' \in Seq(Entry)
<1>. USE DEF TypeOK, ThreadOK
<1>1. CASE Spawn
  <2>1. log' = <<>> /\ cursors' = [d \in Databases |-> <<>>] /\ snapshot' = cursors'
    BY <1>1 DEF Spawn
  <2>. QED
    BY <2>1
<1>2. CASE StartCursor
  <2>1. position \in Databases /\ log' = log /\ snapshot' = cursors'
    BY <1>2 DEF StartCursor
  <2>2. Of(bag[position], Selected) \in Seq(Message)
    BY <2>1, OfOrder DEF BagOK, OrderInv
  <2>3. cursors' = [cursors EXCEPT ![position] = Of(bag[position], Selected)]
    BY <1>2 DEF StartCursor
  <2>. QED
    BY <2>1, <2>2, <2>3
<1>3. CASE MergeRecord
  <2>1. CASE stop
    BY <1>3, <2>1 DEF MergeRecord, Ends
  <2>2. CASE ~stop
    <3>. DEFINE d == CHOOSE x \in Waiting : \A e \in Waiting : ComesFirst(x, e)
                m == Head(cursors[d])
    <3>1. /\ log' = Append(log, [database |-> d, message |-> m, sequence |-> Len(log)])
          /\ cursors' = [cursors EXCEPT ![d] = Tail(@)] /\ snapshot' = snapshot
      BY <1>3, <2>2 DEF MergeRecord
    <3>2. d \in Waiting
      BY <1>3, <2>2, Earliest DEF MergeRecord
    <3>. HIDE DEF d
    <3>3. d \in Databases /\ cursors[d] # <<>> /\ cursors[d] \in Seq(Message)
      BY <3>2 DEF Waiting
    <3>4. m \in Message /\ Tail(cursors[d]) \in Seq(Message)
      BY <3>3
    <3>5. [database |-> d, message |-> m, sequence |-> Len(log)] \in Entry
      BY <3>3, <3>4 DEF Entry
    <3>. QED
      BY <3>1, <3>3, <3>4, <3>5
  <2>. QED
    BY <2>1, <2>2
<1>4. CASE ~Spawn /\ ~StartCursor /\ ~MergeRecord
  <2>1. UNCHANGED <<cursors, snapshot, log>>
    <3>1. CASE UserStep
      BY <1>4, <3>1 DEF UserStep, Begin, Cancel, HandleResult, ToggleRecording, Quit, JoinAtQuit, thread
    <3>2. CASE WorkerStep
      BY <1>4, <3>2 DEF WorkerStep, IOFails, Inspect, CheckDestination, CountMessages, CountAll,
         CompareCatalog, FinishMerge, Publish, PostResult, Exit, Ends
    <3>3. CASE BagGrows \/ DestinationAppears \/ UNCHANGED vars
      BY <3>3, BagFrame, DestinationFrame DEF vars, thread
    <3>. QED
      BY <3>1, <3>2, <3>3 DEF Next
  <2>. QED
    BY <2>1
<1>. QED
  BY <1>1, <1>2, <1>3, <1>4

LEMMA FieldTypes ==
  ASSUME NEW r \in Results, NEW m \in Nat, NEW n \in Nat, NEW t \in SUBSET Topics
  PROVE  /\ r.messages + m \in Nat /\ r.all + m \in Nat /\ r.samples + m \in Nat /\ r.failures + n \in Nat
         /\ r.topics \cup t \in SUBSET Topics
<1>1. r.messages \in Nat /\ r.all \in Nat /\ r.samples \in Nat /\ r.failures \in Nat
  BY DEF Results
<1>2. r.topics \in SUBSET Topics
  BY DEF Results
<1>3. r.topics \cup t \in SUBSET Topics
  BY <1>2
<1>. QED
  BY <1>1, <1>3

LEMMA ResultUpdates ==
  ASSUME NEW r \in Results, NEW m \in Nat, NEW n \in Nat, NEW t \in SUBSET Topics
  PROVE  /\ [r EXCEPT !.messages = m, !.topics = t] \in Results
         /\ [r EXCEPT !.all = m] \in Results
         /\ [r EXCEPT !.samples = m, !.failures = n] \in Results
BY DEF Results

LEMMA ResultTypes ==
  ASSUME TypeOK, OrderInv, [Next]_vars
  PROVE  result' \in Results /\ (worker' = "post" => result'.outcome # "running")
<1>0. /\ result \in Results /\ (worker = "post" => result.outcome # "running")
      /\ bag \in [Databases -> Seq(Message)]
  BY DEF TypeOK, ThreadOK, BagOK, Results
<1>1. CASE UserStep
  <2>1. CASE Spawn
    <3>1. result' = nothing /\ worker' # "post"
      BY <2>1 DEF Spawn
    <3>2. nothing \in Results
      BY DEF nothing, Results, Statuses
    <3>. QED
      BY <3>1, <3>2
  <2>2. CASE ~Spawn
    <3>1. result' = result /\ worker' \in {worker, "none"}
      BY <1>1, <2>2 DEF UserStep, Begin, Cancel, HandleResult, ToggleRecording, Quit, JoinAtQuit, thread
    <3>. QED
      BY <1>0, <3>1
  <2>. QED
    BY <2>1, <2>2
<1>2. ASSUME NEW outcome \in Outcomes, Ends(outcome)
      PROVE  result' \in Results /\ result'.outcome # "running"
  <2>1. result' = [result EXCEPT !.outcome = outcome]
    BY <1>2 DEF Ends
  <2>2. outcome # "running"
    BY DEF Outcomes
  <2>. QED
    BY <1>0, <2>1, <2>2 DEF Results
<1>3. CASE WorkerStep
  <2>0. {"failed", "cancelled", "inspected", "imported"} = Outcomes
    BY DEF Outcomes
  <2>1. CASE \E outcome \in Outcomes : Ends(outcome)
    BY <1>2, <2>1
  <2>2. CASE UNCHANGED result /\ worker' # "post"
    BY <1>0, <2>2
  <2>3. CASE IOFails
    BY <2>0, <2>1, <2>3 DEF IOFails
  <2>4. CASE Inspect
    <3>1. CASE stop \/ position > Cardinality(Databases)
      <4>1. Ends(IF stop THEN "cancelled" ELSE "inspected")
        BY <2>4, <3>1 DEF Inspect
      <4>. QED
        BY <2>0, <2>1, <4>1
    <3>2. CASE ~(stop \/ position > Cardinality(Databases))
      <4>1. /\ worker' # "post"
            /\ result' = [result EXCEPT !.messages = @ + Len(bag[position]),
                                        !.topics = @ \cup Listed[position]]
        BY <2>4, <3>2 DEF Inspect
      <4>2. position \in Databases
        BY <3>2, InRange DEF TypeOK, ThreadOK
      <4>3. Len(bag[position]) \in Nat /\ Listed[position] \in SUBSET Topics
        BY <1>0, <4>2, TopicsAssumption
      <4>4. /\ result.messages + Len(bag[position]) \in Nat
            /\ result.topics \cup Listed[position] \in SUBSET Topics
        BY <1>0, <4>3, FieldTypes
      <4>. QED
        BY <1>0, <4>1, <4>4, ResultUpdates
    <3>. QED
      BY <3>1, <3>2
  <2>5. CASE CheckDestination \/ FinishMerge
    BY <2>0, <2>1, <2>2, <2>5 DEF CheckDestination, FinishMerge
  <2>6. CASE CountMessages
    <3>1. /\ position \in Databases /\ worker' # "post"
          /\ result' = [result EXCEPT !.messages = @ + Len(Of(bag[position], Selected)),
                                      !.topics = @ \cup (Listed[position] \cap Selected)]
      BY <2>6 DEF CountMessages, TypeOK, ThreadOK
    <3>2. Listed[position] \cap Selected \in SUBSET Topics
      BY <3>1, TopicsAssumption
    <3>3. Len(Of(bag[position], Selected)) \in Nat
      <4>1. Of(bag[position], Selected) \in Seq(Message)
        BY <1>0, <3>1, OfOrder DEF OrderInv
      <4>. QED
        BY <4>1
    <3>4. /\ result.messages + Len(Of(bag[position], Selected)) \in Nat
          /\ result.topics \cup (Listed[position] \cap Selected) \in SUBSET Topics
      BY <1>0, <3>2, <3>3, FieldTypes
    <3>. QED
      BY <1>0, <3>1, <3>4, ResultUpdates
  <2>7. CASE CountAll
    <3>1. /\ position \in Databases /\ worker' # "post"
          /\ result' = [result EXCEPT !.all = @ + Len(bag[position])]
      BY <2>7 DEF CountAll, TypeOK, ThreadOK
    <3>2. Len(bag[position]) \in Nat
      BY <1>0, <3>1
    <3>3. result.all + Len(bag[position]) \in Nat
      BY <1>0, <3>2, FieldTypes
    <3>. QED
      BY <1>0, <3>1, <3>3, ResultUpdates
  <2>8. CASE StartCursor \/ PostResult \/ Exit
    <3>1. result' = result /\ worker' # "post"
      BY <2>8 DEF StartCursor, PostResult, Exit
    <3>. QED
      BY <1>0, <3>1
  <2>9. CASE CompareCatalog
    <3>1. CASE result.topics # task.selection
      BY <2>0, <2>1, <2>9, <3>1 DEF CompareCatalog
    <3>2. CASE result.topics = task.selection
      <4>1. worker' # "post" /\ result' = [result EXCEPT !.status = Validation]
        BY <2>9, <3>2 DEF CompareCatalog
      <4>2. Validation \in Statuses
        BY DEF Validation, Statuses
      <4>. QED
        BY <1>0, <4>1, <4>2 DEF Results
    <3>. QED
      BY <3>1, <3>2
  <2>10. CASE MergeRecord
    <3>1. CASE stop
      BY <2>0, <2>1, <2>10, <3>1 DEF MergeRecord
    <3>2. CASE ~stop
      <4>1. PICK samples \in {0, 1}, failures \in {0, 1} :
              result' = [result EXCEPT !.samples = @ + samples, !.failures = @ + failures]
        BY <2>10, <3>2 DEF MergeRecord
      <4>2. worker' # "post"
        BY <2>10, <3>2 DEF MergeRecord
      <4>3. result.samples + samples \in Nat /\ result.failures + failures \in Nat
        BY <1>0, FieldTypes
      <4>. QED
        BY <1>0, <4>1, <4>2, <4>3, ResultUpdates
    <3>. QED
      BY <3>1, <3>2
  <2>11. CASE Publish
    <3>1. CASE MayRename
      <4>1. result' = [result EXCEPT !.outcome = "imported"]
        BY <2>11, <3>1 DEF Publish
      <4>. QED
        BY <1>0, <4>1 DEF Results, Outcomes
    <3>2. CASE ~MayRename
      BY <2>0, <2>1, <2>11, <3>2 DEF Publish
    <3>. QED
      BY <3>1, <3>2
  <2>. QED
    BY <1>3, <2>3, <2>4, <2>5, <2>6, <2>7, <2>8, <2>9, <2>10, <2>11 DEF WorkerStep
<1>4. CASE BagGrows \/ DestinationAppears \/ UNCHANGED vars
  <2>1. UNCHANGED <<worker, result>>
    BY <1>4, BagFrame, DestinationFrame DEF vars, thread
  <2>. QED
    BY <1>0, <2>1
<1>. QED
  BY <1>1, <1>3, <1>4 DEF Next

LEMMA DiskTypes == TypeOK /\ [Next]_vars => DiskOK'
<1>. SUFFICES ASSUME TypeOK, [Next]_vars PROVE DiskOK'
  OBVIOUS
<1>0. DiskOK
  BY DEF TypeOK
<1>1. CASE UNCHANGED <<temporary, destination, published>>
  BY <1>0, <1>1, Zenon DEF DiskOK
<1>2. ASSUME NEW outcome, Ends(outcome) PROVE DiskOK'
  BY <1>0, <1>2, Zenon DEF DiskOK, Ends, CleanedUp
<1>3. CASE UserStep \/ BagGrows \/ UNCHANGED vars
  <2>1. UNCHANGED <<temporary, destination, published>>
    BY <1>3, UserFrame, BagFrame DEF vars, disk
  <2>. QED
    BY <1>1, <2>1
<1>4. CASE DestinationAppears
  <2>1. UNCHANGED <<temporary, published>> /\ destination' \in Places
    BY <1>4 DEF DestinationAppears, Places
  <2>. QED
    BY <1>0, <2>1, Zenon DEF DiskOK
<1>5. CASE WorkerStep
  <2>1. CASE IOFails \/ Inspect \/ CompareCatalog \/ MergeRecord \/ FinishMerge
    <3>1. UNCHANGED <<temporary, destination, published>> \/ \E outcome : Ends(outcome)
      BY <2>1, Zenon DEF IOFails, Inspect, CompareCatalog, MergeRecord, FinishMerge, disk
    <3>. QED
      BY <1>1, <1>2, <3>1
  <2>2. CASE CountMessages \/ CountAll \/ StartCursor \/ PostResult \/ Exit
    <3>1. UNCHANGED <<temporary, destination, published>>
      BY <2>2 DEF CountMessages, CountAll, StartCursor, PostResult, Exit, disk
    <3>. QED
      BY <1>1, <3>1
  <2>3. CASE CheckDestination
    <3>1. CASE ~DestinationFree
      BY <1>2, <2>3, <3>1 DEF CheckDestination
    <3>2. CASE DestinationFree
      <4>1. temporary' = TRUE /\ UNCHANGED <<destination, published>>
        BY <2>3, <3>2 DEF CheckDestination
      <4>. QED
        BY <1>0, <4>1, Zenon DEF DiskOK
    <3>. QED
      BY <3>1, <3>2
  <2>4. CASE Publish
    <3>1. CASE MayRename
      <4>1. destination' = "session" /\ temporary' = FALSE /\ published' = SessionFiles
        BY <2>4, <3>1 DEF Publish
      <4>2. /\ log \in Seq(Entry) /\ snapshot \in [Databases -> Seq(Message)]
            /\ result.messages \in Nat /\ result.samples \in Nat /\ result.failures \in Nat
            /\ result.status \in Statuses
        BY DEF TypeOK, ThreadOK
      <4>3. published' \in [log : Seq(Entry), messages : Nat, samples : Nat, failures : Nat,
                            status : Statuses, offered : [Databases -> Seq(Message)]]
        BY <4>1, <4>2 DEF SessionFiles
      <4>4. destination' \in Places
        BY <4>1 DEF Places
      <4>. QED
        BY <4>1, <4>3, <4>4, Zenon DEF DiskOK
    <3>2. CASE ~MayRename
      BY <1>2, <2>4, <3>2 DEF Publish
    <3>. QED
      BY <3>1, <3>2
  <2>. QED
    BY <1>5, <2>1, <2>2, <2>3, <2>4 DEF WorkerStep
<1>. QED
  BY <1>3, <1>4, <1>5 DEF Next

LEMMA TypesKept == TypeOK /\ OrderInv /\ [Next]_vars => TypeOK'
<1>. SUFFICES ASSUME TypeOK, OrderInv, [Next]_vars PROVE TypeOK'
  OBVIOUS
<1>1. ThreadOK'
  BY StageTypes, ListTypes, ResultTypes, Zenon DEF ThreadOK, Results
<1>. QED
  BY <1>1, BagKept, UiTypes, DiskTypes, Zenon DEF TypeOK

-----------------------------------------------------------------------------
(* The log and the cursors *)

\* One turn of the loop that was not cancelled: the record written comes before all that are left.
LEMMA Merging ==
  ASSUME TypeOK, OrderInv, MergeRecord, ~stop
  PROVE  \E d \in Databases, m \in Message :
           /\ cursors[d] \in Seq(Message) /\ cursors[d] # <<>> /\ m = cursors[d][1]
           /\ log' = Append(log, [database |-> d, message |-> m, sequence |-> Len(log)])
           /\ cursors' = [cursors EXCEPT ![d] = Tail(cursors[d])]
           /\ result' = [result EXCEPT !.samples = @ + (IF m.kind = "mapped" THEN 1 ELSE 0),
                                       !.failures = @ + (IF m.kind = "damaged" THEN 1 ELSE 0)]
           /\ UNCHANGED <<worker, position, temporary, destination, published, inbox, snapshot>>
           /\ \A e \in Databases : \A k \in DOMAIN cursors[e] :
                (e = d /\ k = 1) \/ Earlier(Offered(d, m), Offered(e, cursors[e][k]))
<1>. DEFINE d == CHOOSE x \in Waiting : \A e \in Waiting : ComesFirst(x, e)
            m == Head(cursors[d])
<1>1. /\ log' = Append(log, [database |-> d, message |-> m, sequence |-> Len(log)])
      /\ cursors' = [cursors EXCEPT ![d] = Tail(@)]
      /\ result' = [result EXCEPT !.samples = @ + (IF m.kind = "mapped" THEN 1 ELSE 0),
                                  !.failures = @ + (IF m.kind = "damaged" THEN 1 ELSE 0)]
      /\ UNCHANGED <<worker, position, temporary, destination, published, inbox, snapshot>>
  BY DEF MergeRecord, disk
<1>2. d \in Waiting /\ \A e \in Waiting : ComesFirst(d, e)
  BY Earliest DEF MergeRecord, TypeOK, ThreadOK
<1>. HIDE DEF d
<1>3. d \in Databases /\ cursors[d] \in Seq(Message) /\ cursors[d] # <<>>
  BY <1>2 DEF Waiting, TypeOK, ThreadOK
<1>4. m \in Message /\ m = cursors[d][1]
  BY <1>3
<1>5. ASSUME NEW e \in Databases, NEW k \in DOMAIN cursors[e]
      PROVE  (e = d /\ k = 1) \/ Earlier(Offered(d, m), Offered(e, cursors[e][k]))
  <2>. DEFINE h == Head(cursors[e])
              c == cursors[e][k]
  <2>1. cursors[e] \in Seq(Message)
    BY DEF TypeOK, ThreadOK
  <2>2. e \in Waiting /\ k \in 1..Len(cursors[e]) /\ h = cursors[e][1] /\ h \in Message /\ c \in Message
    BY <2>1 DEF Waiting
  <2>3. k = 1 \/ Before(h, c)
    <3>1. \A i, j \in DOMAIN cursors[e] : i < j => Before(cursors[e][i], cursors[e][j])
      BY DEF OrderInv, InOrder
    <3>2. 1 \in DOMAIN cursors[e] /\ (k = 1 \/ 1 < k)
      BY <2>1, <2>2
    <3>. QED
      BY <2>2, <3>1, <3>2
  <2>4. ComesFirst(d, e)
    BY <1>2, <2>2
  <2>5. Offered(d, m).message = m /\ Offered(d, m).database = d
        /\ Offered(e, c).message = c /\ Offered(e, c).database = e
    BY DEF Offered
  <2>6. /\ m.time \in Nat /\ h.time \in Nat /\ c.time \in Nat /\ d \in Nat /\ e \in Nat
        /\ h.row \in Nat /\ c.row \in Nat
    BY <1>3, <1>4, <2>2, Numbered DEF Message
  <2>7. m.time < h.time \/ (m.time = h.time /\ d <= e)
    BY <2>4 DEF ComesFirst
  <2>8. h.time <= c.time
    <3>1. CASE k = 1
      BY <2>2, <2>6, <3>1
    <3>2. CASE Before(h, c)
      BY <2>6, <3>2 DEF Before
    <3>. QED
      BY <2>3, <3>1, <3>2
  <2>9. CASE e = d
    <3>1. h = m
      BY <2>9
    <3>2. k = 1 \/ Before(m, c)
      BY <2>3, <3>1
    <3>. HIDE DEF m, h, c
    <3>3. k = 1 \/ Earlier(Offered(d, m), Offered(e, c))
      BY <2>5, <2>9, <3>2 DEF Earlier
    <3>. QED
      BY <2>9, <3>3 DEF c
  <2>10. CASE e # d
    <3>. HIDE DEF m, h, c
    <3>1. m.time < c.time \/ (m.time = c.time /\ d < e)
      BY <2>6, <2>7, <2>8, <2>10
    <3>2. Earlier(Offered(d, m), Offered(e, c))
      BY <2>5, <3>1 DEF Earlier
    <3>. QED
      BY <3>2 DEF c
  <2>. QED
    BY <2>9, <2>10
<1>. HIDE DEF m
<1>. QED
  BY <1>1, <1>3, <1>4, <1>5

LEMMA TailOrder ==
  ASSUME NEW list \in Seq(Message), list # <<>>, InOrder(list)
  PROVE  /\ Tail(list) \in Seq(Message) /\ InOrder(Tail(list)) /\ Len(Tail(list)) = Len(list) - 1
         /\ \A k \in DOMAIN Tail(list) : k + 1 \in DOMAIN list /\ Tail(list)[k] = list[k + 1]
<1>. DEFINE t == Tail(list)
<1>1. t \in Seq(Message) /\ Len(t) = Len(list) - 1 /\ Len(list) \in Nat
  OBVIOUS
<1>2. \A k \in 1..Len(t) : k + 1 \in 1..Len(list) /\ t[k] = list[k + 1]
  BY <1>1
<1>3. DOMAIN t = 1..Len(t) /\ DOMAIN list = 1..Len(list)
  BY <1>1
<1>. HIDE DEF t
<1>4. ASSUME NEW i \in 1..Len(t), NEW j \in 1..Len(t), i < j PROVE Before(t[i], t[j])
  <2>1. i + 1 \in DOMAIN list /\ j + 1 \in DOMAIN list /\ i + 1 < j + 1
    BY <1>2, <1>3, <1>4
  <2>2. Before(list[i + 1], list[j + 1])
    BY <2>1 DEF InOrder
  <2>. QED
    BY <1>2, <2>2
<1>. QED
  BY <1>1, <1>2, <1>3, <1>4 DEF InOrder, t

\* Everything but Spawn, StartCursor and a turn of the merge leaves log and cursors alone.
LEMMA Quiet ==
  ASSUME TypeOK, [Next]_vars, ~Spawn, ~StartCursor, ~(MergeRecord /\ ~stop)
  PROVE  /\ UNCHANGED <<cursors, snapshot, log>>
         /\ result'.samples = result.samples /\ result'.failures = result.failures
<1>0. result \in Results
  BY DEF TypeOK, ThreadOK, Results
<1>1. CASE UserStep
  BY <1>1 DEF UserStep, Begin, Cancel, HandleResult, ToggleRecording, Quit, JoinAtQuit, thread
<1>2. ASSUME NEW outcome, Ends(outcome)
      PROVE  /\ UNCHANGED <<cursors, snapshot, log>>
             /\ result'.samples = result.samples /\ result'.failures = result.failures
  BY <1>0, <1>2 DEF Ends, Results
<1>3. CASE WorkerStep
  <2>1. CASE \E outcome : Ends(outcome)
    BY <1>2, <2>1
  <2>2. CASE IOFails \/ (MergeRecord /\ stop)
    BY <2>1, <2>2 DEF IOFails, MergeRecord
  <2>3. CASE CheckDestination \/ FinishMerge
    <3>1. UNCHANGED <<cursors, snapshot, log, result>> \/ \E outcome : Ends(outcome)
      BY <2>3 DEF CheckDestination, FinishMerge
    <3>. QED
      BY <2>1, <3>1
  <2>4. CASE PostResult \/ Exit
    BY <2>4 DEF PostResult, Exit
  <2>5. CASE CountMessages \/ CountAll
    <3>1. UNCHANGED <<cursors, snapshot, log>>
      BY <2>5 DEF CountMessages, CountAll
    <3>2. /\ result' \in {[result EXCEPT !.messages = @ + Len(Of(bag[position], Selected)),
                                         !.topics = @ \cup (Listed[position] \cap Selected)],
                          [result EXCEPT !.all = @ + Len(bag[position])]}
      BY <2>5 DEF CountMessages, CountAll
    <3>. QED
      BY <1>0, <3>1, <3>2 DEF Results
  <2>6. CASE Inspect \/ CompareCatalog \/ Publish
    <3>1. \/ \E outcome : Ends(outcome)
          \/ /\ UNCHANGED <<cursors, snapshot, log>>
             /\ \/ result' = [result EXCEPT !.messages = @ + Len(bag[position]),
                                            !.topics = @ \cup Listed[position]]
                \/ result' = [result EXCEPT !.status = Validation]
                \/ result' = [result EXCEPT !.outcome = "imported"]
      BY <2>6, Zenon DEF Inspect, CompareCatalog, Publish
    <3>. QED
      BY <1>0, <2>1, <3>1 DEF Results
  <2>. QED
    BY <1>3, <2>2, <2>3, <2>4, <2>5, <2>6 DEF WorkerStep
<1>4. CASE BagGrows \/ DestinationAppears \/ UNCHANGED vars
  BY <1>4, BagFrame, DestinationFrame DEF vars, thread
<1>. QED
  BY <1>1, <1>3, <1>4 DEF Next

LEMMA OfferedMembers ==
  ASSUME NEW lists, NEW x
  PROVE  x \in OfferedBy(lists) <=>
           \E d \in Databases : \E i \in DOMAIN lists[d] : x = Offered(d, lists[d][i])
<1>. DEFINE Of1(d) == {Offered(d, lists[d][i]) : i \in DOMAIN lists[d]}
<1>1. x \in OfferedBy(lists) <=> \E d \in Databases : x \in Of1(d)
  BY DEF OfferedBy
<1>2. \A d \in Databases : x \in Of1(d) <=> \E i \in DOMAIN lists[d] : x = Offered(d, lists[d][i])
  OBVIOUS
<1>. HIDE DEF Of1
<1>. QED
  BY <1>1, <1>2

LEMMA WrittenMembers ==
  ASSUME NEW entries, NEW x
  PROVE  x \in Written(entries) <=>
           \E i \in DOMAIN entries : x = Offered(entries[i].database, entries[i].message)
BY Zenon DEF Written

LEMMA NothingWritten ==
  /\ DOMAIN <<>> = {} /\ Written(<<>>) = {}
  /\ OfKind(<<>>, "mapped") = {} /\ OfKind(<<>>, "damaged") = {}
<1>1. \A i : i \notin DOMAIN <<>>
  <2>1. <<>> \in Seq({})
    OBVIOUS
  <2>2. DOMAIN <<>> = 1..0
    BY <2>1
  <2>. QED
    BY <2>2
<1>. QED
  BY <1>1, Zenon DEF Written, OfKind

LEMMA NothingOffered ==
  ASSUME NEW lists, \A d \in Databases : lists[d] = <<>>
  PROVE  OfferedBy(lists) = {}
<1>1. ASSUME NEW x \in OfferedBy(lists) PROVE FALSE
  <2>1. PICK d \in Databases : \E i \in DOMAIN lists[d] : x = Offered(d, lists[d][i])
    BY <1>1, OfferedMembers
  <2>2. DOMAIN lists[d] = {}
    BY NothingWritten
  <2>. QED
    BY <2>1, <2>2
<1>. QED
  BY <1>1

\* How many entries of a kind a log has after one more.
LEMMA OneMore ==
  ASSUME NEW entries \in Seq(Entry), NEW e \in Entry, NEW kind
  PROVE  /\ Cardinality(OfKind(entries, kind)) \in Nat
         /\ Cardinality(OfKind(Append(entries, e), kind)) =
              Cardinality(OfKind(entries, kind)) + (IF e.message.kind = kind THEN 1 ELSE 0)
<1>. DEFINE n == Len(entries)
            more == Append(entries, e)
            old == OfKind(entries, kind)
            new == OfKind(more, kind)
<1>1. /\ n \in Nat /\ DOMAIN entries = 1..n /\ DOMAIN more = 1..(n + 1) /\ more[n + 1] = e
      /\ \A i \in 1..n : more[i] = entries[i]
  OBVIOUS
<1>. HIDE DEF n, more
<1>2. old = {i \in 1..n : entries[i].message.kind = kind}
  BY <1>1 DEF OfKind
<1>3. new = {i \in 1..(n + 1) : more[i].message.kind = kind}
  BY <1>1 DEF OfKind
<1>4. IsFiniteSet(old) /\ n + 1 \notin old
  <2>1. old \in SUBSET (1..n) /\ IsFiniteSet(1..n)
    BY <1>1, <1>2, FS_Interval
  <2>2. n + 1 \notin 1..n
    BY <1>1
  <2>. HIDE DEF old
  <2>. QED
    BY <2>1, <2>2, FS_Subset
<1>5. new = IF e.message.kind = kind THEN old \cup {n + 1} ELSE old
  <2>. HIDE DEF old, new
  <2>1. 1..(n + 1) = (1..n) \cup {n + 1} /\ n + 1 \notin 1..n
    BY <1>1
  <2>. QED
    BY <1>1, <1>2, <1>3, <2>1
<1>. HIDE DEF old, new
<1>6. Cardinality(old) \in Nat /\ Cardinality(old \cup {n + 1}) = Cardinality(old) + 1
  BY <1>4, FS_CardinalityType, FS_AddElement
<1>7. Cardinality(new) = Cardinality(old) + (IF e.message.kind = kind THEN 1 ELSE 0)
  BY <1>5, <1>6
<1>. QED
  BY <1>6, <1>7 DEF old, new, more

\* One turn of the loop keeps the log in order and complete, and the counts those of the log.
LEMMA TurnKeeps ==
  ASSUME TypeOK, OrderInv, OfferedInv, LogInv, CountInv, MergeRecord, ~stop
  PROVE  OfferedInv' /\ LogInv' /\ CountInv' /\ \A d \in Databases : InOrder(cursors'[d])
<1>1. PICK d \in Databases, m \in Message :
           /\ cursors[d] \in Seq(Message) /\ cursors[d] # <<>> /\ m = cursors[d][1]
           /\ log' = Append(log, [database |-> d, message |-> m, sequence |-> Len(log)])
           /\ cursors' = [cursors EXCEPT ![d] = Tail(cursors[d])]
           /\ result' = [result EXCEPT !.samples = @ + (IF m.kind = "mapped" THEN 1 ELSE 0),
                                       !.failures = @ + (IF m.kind = "damaged" THEN 1 ELSE 0)]
           /\ UNCHANGED <<worker, position, temporary, destination, published, inbox, snapshot>>
           /\ \A e \in Databases : \A k \in DOMAIN cursors[e] :
                (e = d /\ k = 1) \/ Earlier(Offered(d, m), Offered(e, cursors[e][k]))
  BY Merging
<1>. DEFINE n == Len(log)
            r == [database |-> d, message |-> m, sequence |-> n]
            first == Offered(d, m)
<1>2. log \in Seq(Entry) /\ cursors \in [Databases -> Seq(Message)] /\ result \in Results
  BY DEF TypeOK, ThreadOK, Results
<1>3. n \in Nat /\ r \in Entry
  BY <1>2 DEF Entry
<1>4. /\ DOMAIN log = 1..n /\ DOMAIN log' = 1..(n + 1) /\ log'[n + 1] = r
      /\ \A i \in 1..n : log'[i] = log[i]
  BY <1>1, <1>2, <1>3
<1>5. r.database = d /\ r.message = m /\ r.sequence = n /\ first.database = d /\ first.message = m
  BY DEF Offered
<1>6. /\ DOMAIN cursors[d] = 1..Len(cursors[d]) /\ 1 \in DOMAIN cursors[d]
      /\ Len(cursors[d]) \in Nat
  BY <1>1
<1>7. InOrder(cursors[d])
  BY DEF OrderInv
<1>8. /\ cursors'[d] = Tail(cursors[d]) /\ InOrder(cursors'[d])
      /\ DOMAIN cursors'[d] = 1..(Len(cursors[d]) - 1)
      /\ \A k \in DOMAIN cursors'[d] : k + 1 \in DOMAIN cursors[d] /\ cursors'[d][k] = cursors[d][k + 1]
  <2>1. cursors'[d] = Tail(cursors[d])
    BY <1>1, <1>2
  <2>2. /\ Tail(cursors[d]) \in Seq(Message) /\ InOrder(Tail(cursors[d]))
        /\ Len(Tail(cursors[d])) = Len(cursors[d]) - 1
        /\ \A k \in DOMAIN Tail(cursors[d]) :
             k + 1 \in DOMAIN cursors[d] /\ Tail(cursors[d])[k] = cursors[d][k + 1]
    BY <1>1, <1>7, TailOrder
  <2>3. DOMAIN Tail(cursors[d]) = 1..Len(Tail(cursors[d]))
    BY <2>2
  <2>. QED
    BY <2>1, <2>2, <2>3
<1>9. \A e \in Databases : e # d => cursors'[e] = cursors[e]
  BY <1>1, <1>2
<1>. HIDE DEF r, n
\* What is left is what was left, except for the record written.
<1>10. ASSUME NEW e \in Databases, NEW k \in DOMAIN cursors'[e]
       PROVE  \E j \in DOMAIN cursors[e] : cursors'[e][k] = cursors[e][j] /\ ~(e = d /\ j = 1)
  <2>1. CASE e = d
    <3>1. k \in DOMAIN cursors'[d]
      BY <1>10, <2>1
    <3>2. k + 1 # 1
      BY <1>6, <1>8, <3>1
    <3>3. k + 1 \in DOMAIN cursors[d] /\ cursors'[d][k] = cursors[d][k + 1]
      BY <1>8, <3>1
    <3>. QED
      BY <2>1, <3>2, <3>3
  <2>2. CASE e # d
    BY <1>9, <1>10, <2>2
  <2>. QED
    BY <2>1, <2>2
<1>11. ASSUME NEW e \in Databases, NEW j \in DOMAIN cursors[e], ~(e = d /\ j = 1)
       PROVE  \E k \in DOMAIN cursors'[e] : cursors'[e][k] = cursors[e][j]
  <2>1. CASE e = d
    <3>1. j \in 1..Len(cursors[d]) /\ j # 1
      BY <1>6, <1>11, <2>1
    <3>2. j - 1 \in DOMAIN cursors'[d] /\ (j - 1) + 1 = j
      BY <1>6, <1>8, <3>1
    <3>3. cursors'[d][j - 1] = cursors[d][j]
      BY <1>8, <3>2
    <3>. QED
      BY <2>1, <3>2, <3>3
  <2>2. CASE e # d
    BY <1>9, <1>11, <2>2
  <2>. QED
    BY <2>1, <2>2
<1>12. \A e \in Databases : InOrder(cursors'[e])
  BY <1>8, <1>9 DEF OrderInv
<1>13. OfferedInv'
  <2>1. ASSUME NEW x PROVE x \in Written(log') <=> x \in Written(log) \/ x = first
    <3>1. 1..(n + 1) = (1..n) \cup {n + 1}
      BY <1>3
    <3>2. \A i \in DOMAIN log : i \in DOMAIN log' /\ log'[i] = log[i]
      BY <1>4, <3>1
    <3>3. first = Offered(log'[n + 1].database, log'[n + 1].message) /\ n + 1 \in DOMAIN log'
      BY <1>3, <1>4, <1>5
    <3>4. \A i \in DOMAIN log' : i \in DOMAIN log \/ i = n + 1
      BY <1>4, <3>1
    <3>. HIDE DEF first
    <3>5. (\E i \in DOMAIN log' : x = Offered(log'[i].database, log'[i].message)) <=>
            (\E i \in DOMAIN log : x = Offered(log[i].database, log[i].message)) \/ x = first
      BY <3>2, <3>3, <3>4
    <3>. QED
      BY <3>5, WrittenMembers
  <2>2. ASSUME NEW x PROVE x \in OfferedBy(cursors) <=> x \in OfferedBy(cursors') \/ x = first
    <3>1. ASSUME x \in OfferedBy(cursors) PROVE x \in OfferedBy(cursors') \/ x = first
      <4>1. PICK e \in Databases : \E j \in DOMAIN cursors[e] : x = Offered(e, cursors[e][j])
        BY <3>1, OfferedMembers
      <4>2. PICK j \in DOMAIN cursors[e] : x = Offered(e, cursors[e][j])
        BY <4>1
      <4>3. CASE e = d /\ j = 1
        BY <1>1, <4>2, <4>3
      <4>4. CASE ~(e = d /\ j = 1)
        <5>1. PICK k \in DOMAIN cursors'[e] : cursors'[e][k] = cursors[e][j]
          BY <1>11, <4>4
        <5>2. x = Offered(e, cursors'[e][k])
          BY <4>2, <5>1
        <5>. QED
          BY <5>2, OfferedMembers
      <4>. QED
        BY <4>3, <4>4
    <3>2. ASSUME x \in OfferedBy(cursors') PROVE x \in OfferedBy(cursors)
      <4>1. PICK e \in Databases : \E k \in DOMAIN cursors'[e] : x = Offered(e, cursors'[e][k])
        BY <3>2, OfferedMembers
      <4>2. PICK k \in DOMAIN cursors'[e] : x = Offered(e, cursors'[e][k])
        BY <4>1
      <4>3. PICK j \in DOMAIN cursors[e] : cursors'[e][k] = cursors[e][j]
        BY <1>10
      <4>4. x = Offered(e, cursors[e][j])
        BY <4>2, <4>3
      <4>. QED
        BY <4>4, OfferedMembers
    <3>3. first \in OfferedBy(cursors)
      BY <1>1, <1>6, OfferedMembers
    <3>. QED
      BY <3>1, <3>2, <3>3
  <2>3. OfferedBy(snapshot') = OfferedBy(snapshot)
    BY <1>1
  <2>4. OfferedBy(snapshot) = Written(log) \cup OfferedBy(cursors)
    BY DEF OfferedInv
  <2>5. OfferedBy(snapshot') = Written(log') \cup OfferedBy(cursors')
    <3>. HIDE DEF first
    <3>. QED
      BY <2>1, <2>2, <2>3, <2>4, Zenon
  <2>. QED
    BY <2>5 DEF OfferedInv
<1>14. LogInv'
  <2>1. \A i, j \in 1..n : i < j => Earlier(log[i], log[j])
    BY <1>4 DEF LogInv
  <2>2. \A i \in 1..n : log[i].sequence = i - 1
    BY <1>4 DEF LogInv
  <2>3. \A i \in 1..n : \A e \in Databases : \A k \in DOMAIN cursors[e] :
          Earlier(log[i], Offered(e, cursors[e][k]))
    BY <1>4 DEF LogInv
  <2>4. \A i \in 1..n : Earlier(log[i], r)
    <3>1. \A i \in 1..n : Earlier(log[i], first)
      BY <1>1, <1>6, <2>3
    <3>. HIDE DEF first
    <3>. QED
      BY <1>5, <3>1, Zenon DEF Earlier
  <2>5. \A i, j \in 1..(n + 1) : i < j => Earlier(log'[i], log'[j])
    <3>1. SUFFICES ASSUME NEW i \in 1..(n + 1), NEW j \in 1..(n + 1), i < j
                   PROVE  Earlier(log'[i], log'[j])
      OBVIOUS
    <3>2. i \in 1..n /\ (j \in 1..n \/ j = n + 1)
      BY <1>3, <3>1
    <3>. QED
      BY <1>4, <2>1, <2>4, <3>1, <3>2
  <2>6. \A i \in 1..(n + 1) : log'[i].sequence = i - 1
    <3>1. \A i \in 1..(n + 1) : i \in 1..n \/ i = n + 1
      BY <1>3
    <3>2. log'[n + 1].sequence = (n + 1) - 1
      BY <1>3, <1>4, <1>5
    <3>. QED
      BY <1>4, <2>2, <3>1, <3>2
  <2>7. \A i \in 1..(n + 1) : \A e \in Databases : \A k \in DOMAIN cursors'[e] :
          Earlier(log'[i], Offered(e, cursors'[e][k]))
    <3>1. SUFFICES ASSUME NEW i \in 1..(n + 1), NEW e \in Databases, NEW k \in DOMAIN cursors'[e]
                   PROVE  Earlier(log'[i], Offered(e, cursors'[e][k]))
      OBVIOUS
    <3>2. PICK j \in DOMAIN cursors[e] : cursors'[e][k] = cursors[e][j] /\ ~(e = d /\ j = 1)
      BY <1>10
    <3>3. CASE i \in 1..n
      BY <1>4, <2>3, <3>2, <3>3
    <3>4. CASE i = n + 1
      <4>1. Earlier(first, Offered(e, cursors[e][j]))
        BY <1>1, <3>2
      <4>. HIDE DEF first
      <4>2. Earlier(r, Offered(e, cursors[e][j]))
        BY <1>5, <4>1, Zenon DEF Earlier
      <4>. QED
        BY <1>4, <3>2, <3>4, <4>2
    <3>. QED
      BY <1>3, <3>3, <3>4
  <2>. QED
    BY <1>4, <2>5, <2>6, <2>7, Zenon DEF LogInv
<1>15. CountInv'
  <2>1. log' = Append(log, r)
    BY <1>1 DEF r, n
  <2>2. /\ Cardinality(OfKind(log', "mapped")) =
             Cardinality(OfKind(log, "mapped")) + (IF m.kind = "mapped" THEN 1 ELSE 0)
        /\ Cardinality(OfKind(log', "damaged")) =
             Cardinality(OfKind(log, "damaged")) + (IF m.kind = "damaged" THEN 1 ELSE 0)
    BY <1>2, <1>3, <1>5, <2>1, OneMore
  <2>3. /\ result'.samples = result.samples + (IF m.kind = "mapped" THEN 1 ELSE 0)
        /\ result'.failures = result.failures + (IF m.kind = "damaged" THEN 1 ELSE 0)
    BY <1>1, <1>2 DEF Results
  <2>4. /\ result.samples = Cardinality(OfKind(log, "mapped"))
        /\ result.failures = Cardinality(OfKind(log, "damaged"))
    BY DEF CountInv
  <2>5. /\ result'.samples = Cardinality(OfKind(log', "mapped"))
        /\ result'.failures = Cardinality(OfKind(log', "damaged"))
    BY <2>2, <2>3, <2>4
  <2>. QED
    BY <2>5 DEF CountInv
<1>. QED
  BY <1>12, <1>13, <1>14, <1>15

\* The order, the log and what is left of the cursors, whatever happens next.
LEMMA LogKept ==
  ASSUME TypeOK, OrderInv, UnreadInv, OfferedInv, LogInv, CountInv, [Next]_vars
  PROVE  OrderInv' /\ OfferedInv' /\ LogInv' /\ CountInv'
<1>1. \A d \in Databases : InOrder(bag'[d])
  BY BagKept
<1>2. CASE MergeRecord /\ ~stop
  BY <1>1, <1>2, TurnKeeps DEF OrderInv
<1>3. CASE Spawn
  <2>1. /\ log' = <<>> /\ result' = nothing /\ snapshot' = cursors'
        /\ \A d \in Databases : cursors'[d] = <<>>
    BY <1>3 DEF Spawn
  <2>2. \A d \in Databases : DOMAIN cursors'[d] = {} /\ DOMAIN snapshot'[d] = {}
    BY <2>1, NothingWritten
  <2>3. OrderInv'
    BY <1>1, <2>2 DEF OrderInv, InOrder
  <2>4. OfferedInv'
    <3>1. OfferedBy(cursors') = {} /\ OfferedBy(snapshot') = {} /\ Written(log') = {}
      BY <2>1, NothingOffered, NothingWritten
    <3>. QED
      BY <3>1 DEF OfferedInv
  <2>5. LogInv'
    <3>1. DOMAIN log' = {}
      BY <2>1, NothingWritten
    <3>. QED
      BY <3>1, Zenon DEF LogInv
  <2>6. CountInv'
    <3>1. OfKind(log', "mapped") = {} /\ OfKind(log', "damaged") = {}
      BY <2>1, NothingWritten
    <3>2. result'.samples = 0 /\ result'.failures = 0
      BY <2>1 DEF nothing
    <3>. QED
      BY <3>1, <3>2, FS_EmptySet DEF CountInv
  <2>. QED
    BY <2>3, <2>4, <2>5, <2>6
<1>4. CASE StartCursor
  <2>1. /\ position \in Databases /\ log = <<>>
        /\ cursors' = [cursors EXCEPT ![position] = Of(bag[position], Selected)]
        /\ snapshot' = cursors' /\ log' = <<>> /\ result' = result
    BY <1>4 DEF StartCursor, UnreadInv, TypeOK, ThreadOK
  <2>2. InOrder(Of(bag[position], Selected))
    <3>1. bag[position] \in Seq(Message) /\ InOrder(bag[position])
      BY <2>1 DEF TypeOK, BagOK, OrderInv
    <3>. QED
      BY <3>1, OfOrder
  <2>3. OrderInv'
    <3>1. \A d \in Databases : cursors'[d] = Of(bag[position], Selected) \/ cursors'[d] = cursors[d]
      BY <2>1 DEF TypeOK, ThreadOK
    <3>. QED
      BY <1>1, <2>2, <3>1, Zenon DEF OrderInv
  <2>4. OfferedInv'
    BY <2>1, NothingWritten DEF OfferedInv
  <2>5. LogInv'
    <3>1. DOMAIN log' = {}
      BY <2>1, NothingWritten
    <3>. QED
      BY <3>1, Zenon DEF LogInv
  <2>6. CountInv'
    BY <2>1 DEF CountInv
  <2>. QED
    BY <2>3, <2>4, <2>5, <2>6
<1>5. CASE ~Spawn /\ ~StartCursor /\ ~(MergeRecord /\ ~stop)
  <2>1. /\ UNCHANGED <<cursors, snapshot, log>>
        /\ result'.samples = result.samples /\ result'.failures = result.failures
    BY <1>5, Quiet
  <2>2. OrderInv'
    BY <1>1, <2>1 DEF OrderInv
  <2>3. OfferedInv'
    BY <2>1 DEF OfferedInv
  <2>4. LogInv'
    BY <2>1, Zenon DEF LogInv
  <2>5. CountInv'
    BY <2>1 DEF CountInv
  <2>. QED
    BY <2>2, <2>3, <2>4, <2>5
<1>. QED
  BY <1>2, <1>3, <1>4, <1>5

-----------------------------------------------------------------------------
(* The stages *)

\* While it begins, a task has read nothing from its cursors.
LEMMA UnreadKept ==
  ASSUME TypeOK, UnreadInv, [Next]_vars
  PROVE  UnreadInv'
<1>. DEFINE Begun == {"check", "count", "countAll", "select", "compare"}
<1>1. CASE Spawn
  BY <1>1 DEF Spawn, UnreadInv
<1>2. CASE StartCursor
  BY <1>2 DEF StartCursor, UnreadInv
<1>3. CASE MergeRecord /\ ~stop
  BY <1>3 DEF MergeRecord, UnreadInv
<1>4. CASE ~Spawn /\ ~StartCursor /\ ~(MergeRecord /\ ~stop)
  <2>1. UNCHANGED <<cursors, snapshot, log>>
    BY <1>4, Quiet
  <2>2. worker' \in Begun => worker \in Begun
    <3>1. ASSUME NEW outcome, Ends(outcome) PROVE worker' = "post"
      BY <3>1 DEF Ends
    <3>2. CASE UserStep
      BY <1>4, <3>2 DEF UserStep, Begin, Cancel, HandleResult, ToggleRecording, Quit, JoinAtQuit, thread
    <3>3. CASE WorkerStep
      <4>1. CASE IOFails \/ Inspect
        BY <3>1, <4>1 DEF IOFails, Inspect
      <4>2. CASE CheckDestination \/ CompareCatalog
        BY <3>1, <4>2 DEF CheckDestination, CompareCatalog
      <4>3. CASE MergeRecord
        BY <1>4, <3>1, <4>3 DEF MergeRecord
      <4>4. CASE FinishMerge \/ Publish
        BY <3>1, <4>4 DEF FinishMerge, Publish
      <4>5. CASE CountMessages \/ CountAll \/ PostResult \/ Exit
        BY <4>5 DEF CountMessages, CountAll, PostResult, Exit
      <4>. QED
        BY <1>4, <3>3, <4>1, <4>2, <4>3, <4>4, <4>5 DEF WorkerStep
    <3>4. CASE BagGrows \/ DestinationAppears \/ UNCHANGED vars
      BY <3>4, BagFrame, DestinationFrame DEF vars, thread
    <3>. QED
      BY <3>2, <3>3, <3>4 DEF Next
  <2>. QED
    BY <2>1, <2>2 DEF UnreadInv
<1>. QED
  BY <1>1, <1>2, <1>3, <1>4

\* The worker comes to "publish" from the end of the merge alone, with nothing left to deliver.
LEMMA DeliveredKept ==
  ASSUME TypeOK, DeliveredInv, [Next]_vars
  PROVE  DeliveredInv'
<1>. SUFFICES ASSUME worker' = "publish"
              PROVE  result'.messages = Len(log') /\ \A d \in Databases : cursors'[d] = <<>>
  BY DEF DeliveredInv
<1>1. ASSUME NEW outcome, Ends(outcome) PROVE FALSE
  BY <1>1 DEF Ends
<1>2. CASE UserStep
  <2>1. UNCHANGED <<worker, cursors, result, log>>
    BY <1>2 DEF UserStep, Begin, Spawn, Cancel, HandleResult, ToggleRecording, Quit, JoinAtQuit, thread
  <2>. QED
    BY <2>1 DEF DeliveredInv
<1>3. CASE WorkerStep
  <2>1. CASE FinishMerge
    <3>1. CountHolds /\ Waiting = {} /\ UNCHANGED <<cursors, result, log>>
      BY <1>1, <2>1 DEF FinishMerge
    <3>. QED
      BY <3>1 DEF CountHolds, Waiting
  <2>2. CASE IOFails \/ Inspect
    BY <1>1, <2>2 DEF IOFails, Inspect
  <2>3. CASE CheckDestination \/ CompareCatalog
    BY <1>1, <2>3 DEF CheckDestination, CompareCatalog
  <2>4. CASE MergeRecord \/ Publish
    BY <1>1, <2>4 DEF MergeRecord, Publish
  <2>5. CASE CountMessages \/ CountAll \/ StartCursor \/ PostResult \/ Exit
    BY <2>5 DEF CountMessages, CountAll, StartCursor, PostResult, Exit
  <2>. QED
    BY <1>3, <2>1, <2>2, <2>3, <2>4, <2>5 DEF WorkerStep
<1>4. CASE BagGrows \/ DestinationAppears \/ UNCHANGED vars
  <2>1. UNCHANGED <<worker, cursors, result, log>>
    BY <1>4, BagFrame, DestinationFrame DEF vars, thread
  <2>. QED
    BY <2>1 DEF DeliveredInv
<1>. QED
  BY <1>2, <1>3, <1>4 DEF Next

\* The directory goes with the function that made it.
LEMMA TemporaryKept ==
  ASSUME TypeOK, NothingLeftBehind, [Next]_vars
  PROVE  NothingLeftBehind'
<1>. DEFINE Busy == {"count", "countAll", "select", "compare", "merge", "publish"}
<1>. SUFFICES temporary' => worker' \in Busy
  BY DEF NothingLeftBehind
<1>0. temporary => worker \in Busy
  BY DEF NothingLeftBehind
<1>1. ASSUME NEW outcome, Ends(outcome) PROVE ~temporary'
  BY <1>1 DEF Ends, CleanedUp
<1>2. CASE UserStep
  <2>1. temporary' = temporary
    BY <1>2, UserFrame
  <2>2. worker' = worker \/ worker \in {"none", "exited"}
    BY <1>2 DEF UserStep, Begin, Spawn, Cancel, HandleResult, ToggleRecording, Quit, JoinAtQuit, thread
  <2>. QED
    BY <1>0, <2>1, <2>2
<1>3. CASE WorkerStep
  <2>1. CASE IOFails \/ Inspect
    BY <1>0, <1>1, <2>1 DEF IOFails, Inspect, disk
  <2>2. CASE CheckDestination \/ CompareCatalog
    BY <1>0, <1>1, <2>2 DEF CheckDestination, CompareCatalog, disk
  <2>3. CASE MergeRecord \/ FinishMerge
    BY <1>0, <1>1, <2>3 DEF MergeRecord, FinishMerge, disk
  <2>4. CASE Publish
    BY <1>0, <1>1, <2>4 DEF Publish
  <2>5. CASE CountMessages \/ CountAll \/ StartCursor \/ PostResult \/ Exit
    BY <1>0, <2>5 DEF CountMessages, CountAll, StartCursor, PostResult, Exit, disk
  <2>. QED
    BY <1>3, <2>1, <2>2, <2>3, <2>4, <2>5 DEF WorkerStep
<1>4. CASE BagGrows \/ DestinationAppears \/ UNCHANGED vars
  <2>1. UNCHANGED <<worker, temporary>>
    BY <1>4, BagFrame, DestinationFrame DEF vars, thread, disk
  <2>. QED
    BY <1>0, <2>1
<1>. QED
  BY <1>2, <1>3, <1>4 DEF Next

\* What a step does to the destination.
LEMMA DestinationSteps ==
  ASSUME [Next]_vars
  PROVE  \/ UNCHANGED <<destination, published>>
         \/ /\ destination = "absent" /\ destination' \in {"empty", "other"}
            /\ published' = published
         \/ /\ worker = "publish" /\ MayRename
            /\ destination' = "session" /\ published' = SessionFiles
<1>1. ASSUME NEW outcome, Ends(outcome) PROVE UNCHANGED <<destination, published>>
  BY <1>1 DEF Ends
<1>2. CASE WorkerStep
  <2>1. CASE Publish
    <3>1. CASE MayRename
      BY <2>1, <3>1 DEF Publish
    <3>2. CASE ~MayRename
      BY <1>1, <2>1, <3>2 DEF Publish
    <3>. QED
      BY <3>1, <3>2
  <2>2. CASE IOFails \/ Inspect
    BY <1>1, <2>2 DEF IOFails, Inspect, disk
  <2>3. CASE CheckDestination \/ CompareCatalog
    BY <1>1, <2>3 DEF CheckDestination, CompareCatalog, disk
  <2>4. CASE MergeRecord \/ FinishMerge
    BY <1>1, <2>4 DEF MergeRecord, FinishMerge, disk
  <2>5. CASE CountMessages \/ CountAll \/ StartCursor \/ PostResult \/ Exit
    BY <2>5 DEF CountMessages, CountAll, StartCursor, PostResult, Exit, disk
  <2>. QED
    BY <1>2, <2>1, <2>2, <2>3, <2>4, <2>5 DEF WorkerStep
<1>3. CASE DestinationAppears
  BY <1>3 DEF DestinationAppears
<1>4. CASE UserStep \/ BagGrows \/ UNCHANGED vars
  BY <1>4, UserFrame, BagFrame DEF vars, disk
<1>. QED
  BY <1>2, <1>3, <1>4 DEF Next

LEMMA WholeKept ==
  ASSUME TypeOK, OfferedInv, LogInv, CountInv, DeliveredInv, PublishedIsWhole, [Next]_vars
  PROVE  PublishedIsWhole'
<1>1. CASE UNCHANGED <<destination, published>>
  BY <1>1, Zenon DEF PublishedIsWhole
<1>2. CASE destination' \in {"empty", "other"}
  BY <1>2 DEF PublishedIsWhole
<1>3. CASE worker = "publish" /\ published' = SessionFiles
  <2>1. /\ published'.log = log /\ published'.offered = snapshot
        /\ published'.messages = result.messages /\ published'.samples = result.samples
        /\ published'.failures = result.failures
    BY <1>3 DEF SessionFiles
  <2>2. result.messages = Len(log) /\ \A d \in Databases : cursors[d] = <<>>
    BY <1>3 DEF DeliveredInv
  <2>3. Written(log) = OfferedBy(snapshot)
    BY <2>2, NothingOffered DEF OfferedInv
  <2>4. /\ \A i, j \in DOMAIN log : i < j => Earlier(log[i], log[j])
        /\ \A i \in DOMAIN log : log[i].sequence = i - 1
    BY DEF LogInv
  <2>5. /\ result.samples = Cardinality(OfKind(log, "mapped"))
        /\ result.failures = Cardinality(OfKind(log, "damaged"))
    BY DEF CountInv
  <2>. QED
    BY <2>1, <2>2, <2>3, <2>4, <2>5, Zenon DEF PublishedIsWhole
<1>. QED
  BY <1>1, <1>2, <1>3, DestinationSteps

-----------------------------------------------------------------------------
(* One task at a time *)

LEMMA Emptied ==
  ASSUME NEW list \in Seq(Outcomes), Len(list) = 1
  PROVE  Tail(list) = <<>>
<1>1. list # <<>>
  OBVIOUS
<1>2. Tail(list) \in Seq(Outcomes) /\ Len(Tail(list)) = 0
  BY <1>1
<1>. QED
  BY <1>2, EmptySeq

LEMMA TaskKept ==
  ASSUME TypeOK, TaskInv, [Next]_vars
  PROVE  TaskInv'
<1>. USE DEF Idle
<1>0. /\ importing \in BOOLEAN /\ inbox \in Seq(Outcomes) /\ worker \in Stages
      /\ call = "start" => worker \in Done /\ importing /\ inbox = <<>>
      /\ Idle /\ ~importing => worker \in Done /\ inbox = <<>>
      /\ Idle /\ importing => IF worker \in Done THEN Len(inbox) = 1 ELSE inbox = <<>>
  BY DEF TypeOK, UiOK, ThreadOK, TaskInv, OneTask
<1>. SUFFICES /\ call' = "start" => worker' \in Done /\ importing' /\ inbox' = <<>>
              /\ call' = "none" /\ ~importing' => worker' \in Done /\ inbox' = <<>>
              /\ call' = "none" /\ importing' => IF worker' \in Done THEN Len(inbox') = 1
                                                 ELSE inbox' = <<>>
  BY DEF TaskInv, OneTask
<1>1. CASE UNCHANGED <<call, importing, worker, inbox>>
  BY <1>0, <1>1
<1>2. ASSUME NEW kind, NEW selection, Begin(kind, selection)
      PROVE  call' = "start" /\ importing' /\ UNCHANGED <<worker, inbox>> /\ Idle /\ ~importing
  BY <1>2 DEF Begin
<1>3. CASE Spawn
  <2>1. /\ call' = "none" /\ worker' \in {"inspect", "check"} /\ importing' = importing
        /\ inbox' = inbox /\ call = "start"
    BY <1>3 DEF Spawn
  <2>. QED
    BY <1>0, <2>1 DEF Done
<1>4. CASE HandleResult
  <2>1. call = "none" /\ call' = call /\ worker' = worker /\ ~importing' /\ inbox' = Tail(inbox)
        /\ inbox # <<>>
    BY <1>4 DEF HandleResult, FlagLowered, thread
  <2>2. worker \in Done /\ Len(inbox) = 1
    BY <1>0, <2>1
  <2>3. inbox' = <<>>
    BY <1>0, <2>1, <2>2, Emptied
  <2>. QED
    BY <2>1, <2>2, <2>3
<1>5. CASE Cancel \/ ToggleRecording
  BY <1>1, <1>5 DEF Cancel, ToggleRecording, ui, thread
<1>6. CASE Quit \/ JoinAtQuit
  BY <1>6 DEF Quit, JoinAtQuit
<1>7. CASE WorkerStep
  <2>1. UNCHANGED <<importing, call>>
    BY <1>7, WorkerFrame
  <2>2. CASE PostResult
    <3>1. worker = "post" /\ worker' = "posted" /\ inbox' = Append(inbox, result.outcome)
      BY <2>2 DEF PostResult
    <3>2. worker \notin Done /\ worker' \in Done
      BY <3>1 DEF Done
    <3>3. call = "none" => importing /\ inbox = <<>>
      BY <1>0, <3>2
    <3>4. inbox = <<>> => Len(inbox') = 1
      BY <3>1
    <3>. QED
      BY <1>0, <2>1, <3>2, <3>3, <3>4
  <2>3. CASE Exit
    BY <1>0, <2>1, <2>3 DEF Exit, Done
  <2>4. CASE ~PostResult /\ ~Exit
    <3>1. ASSUME NEW outcome, Ends(outcome) PROVE worker' = "post" /\ inbox' = inbox
      BY <3>1 DEF Ends
    <3>2. inbox' = inbox /\ worker \notin Done /\ worker' \notin Done
      <4>1. CASE IOFails \/ Inspect
        BY <3>1, <4>1 DEF IOFails, Inspect, Done
      <4>2. CASE CheckDestination \/ CompareCatalog
        BY <3>1, <4>2 DEF CheckDestination, CompareCatalog, Done
      <4>3. CASE MergeRecord \/ FinishMerge
        BY <3>1, <4>3 DEF MergeRecord, FinishMerge, Done
      <4>4. CASE CountMessages \/ CountAll \/ StartCursor
        BY <4>4 DEF CountMessages, CountAll, StartCursor, Done
      <4>5. CASE Publish
        BY <3>1, <4>5 DEF Publish, Done
      <4>. QED
        BY <1>7, <2>4, <4>1, <4>2, <4>3, <4>4, <4>5 DEF WorkerStep
    <3>. QED
      BY <1>0, <2>1, <3>2
  <2>. QED
    BY <2>2, <2>3, <2>4
<1>8. CASE BagGrows \/ DestinationAppears \/ UNCHANGED vars
  BY <1>1, <1>8, BagFrame, DestinationFrame DEF vars, ui, thread
<1>9. CASE \E kind, selection : Begin(kind, selection)
  BY <1>0, <1>2, <1>9
<1>. QED
  BY <1>3, <1>4, <1>5, <1>6, <1>7, <1>8, <1>9 DEF Next, UserStep

-----------------------------------------------------------------------------
(* The inductive invariant *)

LEMMA InitInv == Init => IInv
<1>. SUFFICES ASSUME Init PROVE IInv
  OBVIOUS
<1>. USE DEF Init
<1>1. <<>> \in Seq(Message) /\ <<>> \in Seq(Entry) /\ <<>> \in Seq(Outcomes)
  OBVIOUS
<1>2. \A d \in Databases : cursors[d] = <<>> /\ snapshot[d] = <<>>
  OBVIOUS
<1>3. [d \in Databases |-> <<>>] \in [Databases -> Seq(Message)]
  BY <1>1
<1>4. BagOK
  BY BagAssumption, DeclaredAssumption DEF BagOK
<1>5. UiOK
  <2>1. tasks \in 0..MaxTasks
    BY MaxTasksAssumption
  <2>. QED
    BY <1>1, <2>1 DEF UiOK
<1>6. ThreadOK
  <2>1. result \in Results
    BY DEF Results, nothing, Statuses
  <2>2. worker = "none" /\ "none" \in Stages
    BY DEF Stages
  <2>3. task \in [kind : {"none", "inspect", "import"}, selection : SUBSET Topics]
    OBVIOUS
  <2>4. stop \in BOOLEAN
    BY Zenon
  <2>7. position \in Nat \ {0}
    OBVIOUS
  <2>5. cursors \in [Databases -> Seq(Message)] /\ snapshot \in [Databases -> Seq(Message)]
    BY <1>3
  <2>6. log \in Seq(Entry)
    BY <1>1
  <2>. QED
    BY <2>1, <2>2, <2>3, <2>4, <2>5, <2>6, <2>7 DEF ThreadOK, Results
<1>7. DiskOK
  <2>1. published \in [log : Seq(Entry), messages : Nat, samples : Nat, failures : Nat,
                       status : Statuses, offered : [Databases -> Seq(Message)]]
    BY <1>1, <1>3 DEF emptySession, Statuses
  <2>. QED
    BY <2>1 DEF DiskOK, Places
<1>8. OrderInv
  <2>1. \A d \in Databases : DOMAIN cursors[d] = {}
    BY <1>2, NothingWritten
  <2>. QED
    BY <2>1, BagAssumption DEF OrderInv, InOrder
<1>9. DOMAIN log = {} /\ Written(log) = {} /\ OfKind(log, "mapped") = {} /\ OfKind(log, "damaged") = {}
  BY NothingWritten
<1>10. OfferedInv
  <2>1. OfferedBy(cursors) = {} /\ OfferedBy(snapshot) = {}
    BY <1>2, NothingOffered
  <2>. QED
    BY <1>9, <2>1 DEF OfferedInv
<1>11. LogInv
  BY <1>9, Zenon DEF LogInv
<1>12. CountInv
  BY <1>9, FS_EmptySet DEF CountInv, nothing
<1>13. UnreadInv /\ DeliveredInv /\ NothingLeftBehind /\ PublishedIsWhole
  BY DEF UnreadInv, DeliveredInv, NothingLeftBehind, PublishedIsWhole
<1>14. TaskInv
  BY DEF TaskInv, OneTask, Done, Idle
<1>. QED
  BY <1>4, <1>5, <1>6, <1>7, <1>8, <1>10, <1>11, <1>12, <1>13, <1>14, Zenon DEF IInv, TypeOK

LEMMA Inductive == Spec => []IInv
<1>1. IInv /\ [Next]_vars => IInv'
  BY TypesKept, LogKept, UnreadKept, DeliveredKept, TaskKept, TemporaryKept, WholeKept, Zenon DEF IInv
<1>. QED
  BY <1>1, InitInv, PTL DEF Spec

-----------------------------------------------------------------------------
(* What they give *)

\* Every variable keeps its type, whatever a bag holds and whatever is added to it.
THEOREM ImportTypes == Spec => []TypeOK
<1>1. IInv => TypeOK
  BY Zenon DEF IInv
<1>. QED
  BY <1>1, Inductive, PTL

\* A session that an import published is whole: its log holds every selected message the cursors
\* saw, once, in the order of (time, file, row) and numbered from 0, and its counts are those of
\* the log (rosbag2_importer.cpp:1127-1212).
THEOREM PublishedSessionIsWhole == Spec => []PublishedIsWhole
<1>1. IInv => PublishedIsWhole
  BY Zenon DEF IInv
<1>. QED
  BY <1>1, Inductive, PTL

\* No temporary directory outlives the call that made it (rosbag2_importer.cpp:1031-1041).
THEOREM TemporaryIsRemoved == Spec => []NothingLeftBehind
<1>1. IInv => NothingLeftBehind
  BY Zenon DEF IInv
<1>. QED
  BY <1>1, Inductive, PTL

\* One task at a time, and one result of each to come: the joins at serial_session.cpp:2862 and 2948
\* wait only for a thread that has posted.
THEOREM TasksAreSerial == Spec => []OneTask
<1>1. IInv => OneTask
  BY Zenon DEF IInv, TaskInv
<1>. QED
  BY <1>1, Inductive, PTL

\* Once an import has found its destination taken, none is past the check of it
\* (rosbag2_importer.cpp:1022), and so nothing reaches the rename (1225).
KeptInv(place) ==
    /\ destination = place
    /\ worker \notin {"count", "countAll", "select", "compare", "merge", "publish"}

LEMMA KeptIsInductive ==
  ASSUME NEW place \in Places \ {"absent"}, KeptInv(place), [Next]_vars
  PROVE  KeptInv(place)'
<1>1. destination # "absent" /\ worker # "publish"
  BY DEF KeptInv
<1>2. destination' = place
  BY <1>1, DestinationSteps DEF KeptInv
<1>3. ASSUME NEW outcome, Ends(outcome) PROVE worker' = "post"
  BY <1>3 DEF Ends
<1>4. CASE UserStep
  <2>1. UNCHANGED worker \/ worker' \in {"inspect", "check", "none"}
    BY <1>4 DEF UserStep, Begin, Spawn, Cancel, HandleResult, ToggleRecording, Quit, JoinAtQuit, thread
  <2>. QED
    BY <1>2, <2>1 DEF KeptInv
<1>5. CASE WorkerStep
  <2>1. CASE IOFails \/ Inspect
    BY <1>2, <1>3, <2>1 DEF IOFails, Inspect, KeptInv
  <2>2. CASE CheckDestination
    BY <1>1, <1>2, <1>3, <2>2 DEF CheckDestination, DestinationFree, KeptInv
  <2>3. CASE PostResult \/ Exit
    BY <1>2, <2>3 DEF PostResult, Exit, KeptInv
  <2>. QED
    BY <1>5, <2>1, <2>2, <2>3 DEF WorkerStep, CountMessages, CountAll, StartCursor, CompareCatalog,
       MergeRecord, FinishMerge, Publish, KeptInv
<1>6. CASE BagGrows \/ DestinationAppears \/ UNCHANGED vars
  BY <1>2, <1>6, BagFrame, DestinationFrame DEF vars, thread, KeptInv
<1>. QED
  BY <1>4, <1>5, <1>6 DEF Next

\* What an import finds at its destination when it begins stays as it is, whatever imports follow
\* (docs/ROSBAG2.md:14).
THEOREM DestinationIsKept == Spec => TakenIsKept
<1>. SUFFICES ASSUME NEW place \in Places \ {"absent"}
              PROVE  Spec => []((worker = "check" /\ destination = place) => [](destination = place))
  BY DEF TakenIsKept
<1>1. worker = "check" /\ destination = place => KeptInv(place)
  BY DEF KeptInv
<1>2. KeptInv(place) /\ [Next]_vars => KeptInv(place)'
  BY KeptIsInductive
<1>3. KeptInv(place) => destination = place
  BY DEF KeptInv
<1>. QED
  BY <1>1, <1>2, <1>3, PTL DEF Spec
=============================================================================
