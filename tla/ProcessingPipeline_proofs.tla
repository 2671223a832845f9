---------------------- MODULE ProcessingPipeline_proofs ----------------------
(***************************************************************************)
(* Proofs about ProcessingPipeline for every set of sources, fields and    *)
(* protocols, and every number of chunks and configuration calls, and      *)
(* about SampleAnalysis, which takes the samples of the pipeline's worker, *)
(* for every capacity, rule and derived field, and every number of samples.*)
(***************************************************************************)
EXTENDS ProcessingPipeline, SampleAnalysis, FiniteSetTheorems, FunctionTheorems, SequenceTheorems,
        WellFoundedInduction, TLAPS

-----------------------------------------------------------------------------
(* Types *)

LEMMA InitType == Init => TypeOK
<1> SUFFICES ASSUME Init PROVE TypeOK
  OBVIOUS
<1>1. queue \in Seq(Chunk) /\ switches \in Nat
  BY EmptySeq DEF Init
<1>2. ConfigurationOK
  BY DEF Init, ConfigurationOK, Configuration
<1>3. ThreadsOK
  BY EmptySeq DEF Init, ThreadsOK, Holds, WorkerPoints
<1>4. HistoryOK
  BY EmptySeq DEF Init, HistoryOK
<1>5. QED
  BY <1>1, <1>2, <1>3, <1>4 DEF TypeOK

\* A configuration is found for every source.
LEMMA ResolvedType ==
  ASSUME ConfigurationOK, NEW s \in Sources PROVE Resolved(s) \in Configuration
BY DEF ConfigurationOK, Resolved

\* The parser of a chunk is one, whether it existed or not.
LEMMA ParserOfType ==
  ASSUME ConfigurationOK, NEW s \in Sources PROVE ParserOf(s) \in Parser
<1>1. CASE parsers[s] = NoParser
  <2>1. ParserOf(s) = [exists |-> TRUE, configuration |-> Resolved(s), pending |-> <<>>]
    BY <1>1 DEF ParserOf
  <2>2. QED
    BY <2>1, ResolvedType, EmptySeq DEF Parser
<1>2. CASE parsers[s] # NoParser
  BY <1>2 DEF ParserOf, ConfigurationOK
<1>3. QED
  BY <1>1, <1>2

LEMMA PushType ==
  ASSUME TypeOK, NEW s \in Sources, NEW shape \in Shapes, Push(s, shape) PROVE TypeOK'
<1> USE DEF TypeOK, config, history
<1> DEFINE next == [src |-> s, seq |-> pushed[s] + 1, shape |-> shape]
<1>1. pushed[s] \in Nat
  BY DEF HistoryOK
<1>2. queue' \in Seq(Chunk)
  <2>1. next \in Chunk
    BY <1>1 DEF Chunk
  <2>2. queue' = Append(queue, next)
    BY DEF Push
  <2>3. QED
    BY <2>1, <2>2, AppendProperties
<1>3. ConfigurationOK' /\ switches' \in Nat
  BY DEF Push, ConfigurationOK
<1>4. ThreadsOK'
  <2>1. worker' \in WorkerPoints
    BY DEF Push, ThreadsOK, WakeWorker, WorkerPoints
  <2>2. /\ worker' = "emit" <=> worker = "emit"
        /\ Holds' <=> Holds
        /\ worker' \in {"parse", "emit"} <=> worker \in {"parse", "emit"}
    BY DEF Push, WakeWorker, Holds
  <2>3. QED
    BY <2>1, <2>2, Zenon DEF Push, ThreadsOK
<1>5. HistoryOK'
  <2>1. pushed' \in [Sources -> Nat]
    BY <1>1 DEF Push, HistoryOK
  <2>2. sent' \in [Sources -> SUBSET Nat]
    BY <1>1 DEF Push, HistoryOK
  <2>3. QED
    BY <2>1, <2>2 DEF Push, HistoryOK
<1>6. QED
  BY <1>2, <1>3, <1>4, <1>5

LEMMA ClearQueueType ==
  ASSUME TypeOK, ClearQueue PROVE
  queue' \in Seq(Chunk) /\ switches' \in Nat /\ ThreadsOK' /\ HistoryOK'
<1>1. queue' \in Seq(Chunk) /\ switches' \in Nat /\ HistoryOK'
  BY EmptySeq DEF TypeOK, HistoryOK, ClearQueue
<1>2. ThreadsOK'
  BY Zenon DEF TypeOK, ThreadsOK, Holds, ClearQueue
<1>3. QED
  BY <1>1, <1>2

LEMMA ClientType == TypeOK /\ ClientStep => TypeOK'
<1> SUFFICES ASSUME TypeOK, ClientStep PROVE TypeOK'
  OBVIOUS
<1>t. /\ queue \in Seq(Chunk) /\ switches \in Nat
      /\ ConfigurationOK /\ ThreadsOK /\ HistoryOK
  BY DEF TypeOK
<1>1. ASSUME NEW names \in FieldSets, SetFieldNames(names) PROVE TypeOK'
  <2>1. ConfigurationOK'
    BY <1>1, <1>t DEF ConfigurationOK, Configuration, SetFieldNames, AllParsersGone
  <2>2. ThreadsOK'
    BY <1>1, <1>t, Zenon DEF ThreadsOK, Holds, SetFieldNames
  <2>3. QED
    BY <1>1, <1>t, <2>1, <2>2 DEF TypeOK, HistoryOK, history, SetFieldNames
<1>2. ASSUME NEW definition \in Protocols \cup {NoProtocol}, SetProtocolDefinition(definition)
      PROVE TypeOK'
  <2>1. ConfigurationOK'
    BY <1>2, <1>t DEF ConfigurationOK, Configuration, SetProtocolDefinition, AllParsersGone
  <2>2. QED
    BY <1>2, <2>1, ClearQueueType DEF TypeOK, SetProtocolDefinition
<1>3. ASSUME NEW s \in Sources, NEW configuration \in Configuration,
             SetSourceConfiguration(s, configuration)
      PROVE TypeOK'
  <2>1. ConfigurationOK'
    BY <1>3, <1>t DEF ConfigurationOK, SetSourceConfiguration, ParserGone
  <2>2. QED
    BY <1>3, <2>1, ClearQueueType DEF TypeOK, SetSourceConfiguration
<1>4. ASSUME NEW s \in Sources, ClearSourceConfiguration(s) PROVE TypeOK'
  <2>1. ConfigurationOK'
    BY <1>4, <1>t DEF ConfigurationOK, ClearSourceConfiguration, ParserGone
  <2>2. QED
    BY <1>4, <2>1, ClearQueueType DEF TypeOK, ClearSourceConfiguration
<1>5. CASE SetQualifyFieldNames
  <2>1. ConfigurationOK'
    BY <1>5, <1>t DEF ConfigurationOK, SetQualifyFieldNames, AllParsersGone
  <2>2. QED
    BY <1>5, <2>1, ClearQueueType DEF TypeOK, SetQualifyFieldNames
<1>6. CASE ResetParsers
  <2>1. ConfigurationOK'
    BY <1>6, <1>t DEF ConfigurationOK, ResetParsers, AllParsersGone
  <2>2. ThreadsOK'
    BY <1>6, <1>t, Zenon DEF ThreadsOK, Holds, ResetParsers
  <2>3. QED
    BY <1>6, <1>t, <2>1, <2>2 DEF TypeOK, HistoryOK, history, ResetParsers
<1>7. CASE Flush
  <2>1. ThreadsOK'
    BY <1>7, <1>t, Zenon DEF ThreadsOK, Holds, Flush
  <2>2. QED
    BY <1>7, <1>t, <2>1 DEF TypeOK, ConfigurationOK, HistoryOK, config, history, Flush
<1>8. CASE RequestStop
  <2>1. worker' \in WorkerPoints
    BY <1>8, <1>t DEF RequestStop, ThreadsOK, WakeWorker, WorkerPoints
  <2>2. /\ worker' = "emit" <=> worker = "emit"
        /\ Holds' <=> Holds
        /\ worker' \in {"parse", "emit"} <=> worker \in {"parse", "emit"}
    BY <1>8 DEF RequestStop, WakeWorker, Holds
  <2>3. ThreadsOK'
    BY <1>8, <1>t, <2>1, <2>2, Zenon DEF RequestStop, ThreadsOK
  <2>4. QED
    BY <1>8, <1>t, <2>3 DEF TypeOK, ConfigurationOK, HistoryOK, config, history, RequestStop
<1>9. QED
  BY <1>1, <1>2, <1>3, <1>4, <1>5, <1>6, <1>7, <1>8 DEF ClientStep

\* What a chunk that completes a unit leaves to be handed out.
LEMMA OneUnit ==
  ASSUME NEW u \in Seq(Nat), NEW s \in Sources
  PROVE  LET one == [i \in DOMAIN <<u>> |-> [src |-> s, chunks |-> <<u>>[i]]]
         IN one \in Seq(Unit) /\ Len(one) = 1
<1> DEFINE one == [i \in DOMAIN <<u>> |-> [src |-> s, chunks |-> <<u>>[i]]]
<1>1. DOMAIN <<u>> = 1..1 /\ <<u>>[1] = u
  OBVIOUS
<1>2. one = [i \in 1..1 |-> [src |-> s, chunks |-> u]]
  BY <1>1
<1>3. [src |-> s, chunks |-> u] \in Unit
  BY DEF Unit
<1>4. one = <<[src |-> s, chunks |-> u]>>
  BY <1>2
<1>5. one \in Seq(Unit) /\ Len(one) = 1
  BY <1>3, <1>4
<1>6. QED
  BY <1>5

LEMMA WorkerType == TypeOK /\ WorkerStep => TypeOK'
<1> SUFFICES ASSUME TypeOK, WorkerStep PROVE TypeOK'
  OBVIOUS
<1>t. /\ queue \in Seq(Chunk) /\ switches \in Nat
      /\ ConfigurationOK /\ ThreadsOK /\ HistoryOK
  BY DEF TypeOK
<1> USE DEF config, history
<1>1. CASE Sleep \/ Exit
  <2>1. ThreadsOK'
    BY <1>1, <1>t DEF ThreadsOK, Holds, WorkerPoints, Sleep, Exit
  <2>2. QED
    BY <1>1, <1>t, <2>1 DEF TypeOK, ConfigurationOK, HistoryOK, Sleep, Exit
<1>2. CASE Take
  <2>1. chunk' \in Chunk /\ queue' \in Seq(Chunk)
    BY <1>2, <1>t, HeadTailProperties DEF Take, Oldest
  <2>2. Len(found) = 0
    BY <1>2, <1>t DEF ThreadsOK, Take
  <2>3. worker' \in {"finish", "parse"} /\ processing' = TRUE
    BY <1>2 DEF Take, Busy
  <2>4. ThreadsOK'
    BY <1>2, <1>t, <2>1, <2>2, <2>3 DEF ThreadsOK, Holds, WorkerPoints, Take
  <2>5. QED
    BY <1>2, <1>t, <2>1, <2>4 DEF TypeOK, ConfigurationOK, HistoryOK, Take
<1>3. CASE Parse
  <2> DEFINE s == chunk.src
             p == ParserOf(s)
             result == IF Fed(p) THEN Assemble(p) ELSE [pending |-> p.pending, units |-> <<>>]
  <2>1. chunk \in Chunk /\ s \in Sources /\ chunk.seq \in Nat
    BY <1>3, <1>t DEF Parse, ThreadsOK, Holds, Chunk
  <2>2. chunk.shape \in {"part", "end", "next"}
    BY <1>3, <1>t DEF Parse, ThreadsOK, Holds, Chunk, Shapes
  <2>3. p \in Parser /\ p.pending \in Seq(Nat)
    BY <1>t, <2>1, ParserOfType DEF Parser
  <2>4. /\ result.pending \in Seq(Nat)
        /\ result.units = <<>> \/ \E u \in Seq(Nat) : result.units = <<u>>
    <3>1. <<>> \in Seq(Nat) /\ <<chunk.seq>> \in Seq(Nat)
      BY <2>1, EmptySeq
    <3>2. Append(p.pending, chunk.seq) \in Seq(Nat)
      BY <2>1, <2>3, AppendProperties
    <3>3. Grown(p) \in Seq(Nat)
      BY <3>1, <3>2 DEF Grown
    <3>4. /\ Assemble(p).pending \in Seq(Nat)
          /\ Assemble(p).units = <<>> \/ \E u \in Seq(Nat) : Assemble(p).units = <<u>>
      BY <2>2, <3>1, <3>2, <3>3 DEF Assemble
    <3>5. CASE Fed(p)
      BY <3>4, <3>5
    <3>6. CASE ~Fed(p)
      BY <2>3, <3>6
    <3>7. QED
      BY <3>5, <3>6
  <2>5. /\ parsers' = [parsers EXCEPT ![s] = [p EXCEPT !.pending = result.pending]]
        /\ found' = [i \in DOMAIN result.units |-> [src |-> s, chunks |-> result.units[i]]]
        /\ line' = IF result.units = <<>> THEN line
                   ELSE [line EXCEPT ![s] = Last(result.units)]
        /\ worker' = IF result.units = <<>> THEN "finish" ELSE "emit"
    BY <1>3 DEF Parse
  <2>6. ConfigurationOK'
    <3>1. [p EXCEPT !.pending = result.pending] \in Parser
      BY <2>3, <2>4 DEF Parser
    <3>2. QED
      BY <1>3, <1>t, <2>1, <2>5, <3>1 DEF ConfigurationOK, Parse
  <2>7. CASE result.units = <<>>
    <3>1. found' = <<>> /\ line' = line /\ worker' = "finish"
      BY <2>5, <2>7
    <3>2. ThreadsOK'
      BY <1>3, <1>t, <3>1, EmptySeq DEF ThreadsOK, Holds, WorkerPoints, Parse
    <3>3. QED
      BY <1>3, <1>t, <2>6, <3>1, <3>2 DEF TypeOK, HistoryOK, Parse
  <2>8. ASSUME NEW u \in Seq(Nat), result.units = <<u>> PROVE TypeOK'
    <3>0. <<u>> # <<>> /\ Last(<<u>>) = u
      BY DEF Last
    <3>1. found' = [i \in DOMAIN <<u>> |-> [src |-> s, chunks |-> <<u>>[i]]]
      BY <2>5, <2>8, Zenon
    <3>2. worker' = "emit" /\ line' = [line EXCEPT ![s] = u]
      <4> HIDE DEF result, p
      <4> QED
        BY <2>5, <2>8, <3>0
    <3>3. found' \in Seq(Unit) /\ Len(found') = 1
      BY <2>1, <3>1, OneUnit
    <3>4. ThreadsOK'
      BY <1>3, <1>t, <2>2, <3>2, <3>3 DEF ThreadsOK, Holds, WorkerPoints, Parse
    <3>5. QED
      BY <1>3, <1>t, <2>6, <3>2, <3>4 DEF TypeOK, HistoryOK, Parse
  <2>9. QED
    BY <2>4, <2>7, <2>8
<1>4. CASE Emit
  <2>0. worker = "emit"
    BY <1>4 DEF Emit
  <2>1. found \in Seq(Unit) /\ Len(found) = 1 /\ found # <<>>
    <3>1. found \in Seq(Unit) /\ Len(found) = 1
      BY <1>t, <2>0, Zenon DEF ThreadsOK
    <3>2. QED
      BY <3>1, EmptySeq
  <2>2. found' \in Seq(Unit) /\ Len(found') = 0 /\ worker' = "finish"
    BY <1>4, <1>t, <2>1, HeadTailProperties DEF Emit, ThreadsOK
  <2>3. ThreadsOK'
    BY <1>4, <1>t, <2>2 DEF Emit, ThreadsOK, Holds, WorkerPoints
  <2>4. QED
    BY <1>4, <1>t, <2>3 DEF TypeOK, ConfigurationOK, HistoryOK, Emit
<1>5. CASE Finish
  <2>1. chunk \in Chunk /\ Len(found) = 0
    BY <1>5, <1>t DEF Finish, ThreadsOK, Holds
  <2>2. ThreadsOK'
    BY <1>5, <1>t, <2>1 DEF Finish, NotifyIdle, ThreadsOK, Holds, WorkerPoints
  <2>3. HistoryOK'
    BY <1>5, <1>t, <2>1 DEF Finish, HistoryOK, Chunk
  <2>4. QED
    BY <1>5, <1>t, <2>2, <2>3 DEF TypeOK, ConfigurationOK, Finish
<1>6. QED
  BY <1>1, <1>2, <1>3, <1>4, <1>5 DEF WorkerStep

LEMMA StepType == TypeOK /\ [Next]_vars => TypeOK'
<1> SUFFICES ASSUME TypeOK, [Next]_vars PROVE TypeOK'
  OBVIOUS
<1>1. CASE UNCHANGED vars
  <2>1. ThreadsOK'
    BY <1>1, Zenon DEF TypeOK, ThreadsOK, Holds, vars
  <2>2. QED
    BY <1>1, <2>1 DEF TypeOK, ConfigurationOK, HistoryOK, vars, config, history
<1>2. QED
  BY <1>1, PushType, ClientType, WorkerType DEF Next

\* Every variable keeps its type, whatever the pipeline is given.
THEOREM TypeCorrect == Spec => []TypeOK
BY InitType, StepType, PTL DEF Spec
-----------------------------------------------------------------------------
(* A parser is never used with another configuration than its own *)

LEMMA StepParsers ==
  TypeOK /\ ParserMatchesConfiguration /\ [Next]_vars => ParserMatchesConfiguration'
<1> SUFFICES ASSUME TypeOK, ParserMatchesConfiguration, [Next]_vars
             PROVE  ParserMatchesConfiguration'
  OBVIOUS
<1>t. ConfigurationOK /\ ThreadsOK
  BY DEF TypeOK
<1> USE DEF ParserMatchesConfiguration, Resolved, config, history
<1>1. CASE UNCHANGED config
  BY <1>1
<1>2. CASE parsers' = AllParsersGone
  BY <1>2 DEF AllParsersGone
<1>3. ASSUME NEW s \in Sources, parsers' = ParserGone(s), default' = default,
             \A r \in Sources \ {s} : override'[r] = override[r]
      PROVE  ParserMatchesConfiguration'
  <2> SUFFICES ASSUME NEW r \in Sources, parsers'[r] # NoParser
               PROVE  parsers'[r].configuration = Resolved(r)'
    OBVIOUS
  <2>1. r # s /\ parsers'[r] = parsers[r]
    BY <1>3, <1>t DEF ParserGone, ConfigurationOK
  <2>2. QED
    BY <1>3, <2>1
<1>4. ASSUME NEW s \in Sources, NEW shape \in Shapes, Push(s, shape)
      PROVE  ParserMatchesConfiguration'
  BY <1>1, <1>4 DEF Push
<1>5. CASE ClientStep
  <2>1. ASSUME NEW s \in Sources, NEW configuration \in Configuration,
               SetSourceConfiguration(s, configuration)
        PROVE  ParserMatchesConfiguration'
    BY <1>3, <1>t, <2>1 DEF SetSourceConfiguration, ConfigurationOK
  <2>2. ASSUME NEW s \in Sources, ClearSourceConfiguration(s)
        PROVE  ParserMatchesConfiguration'
    BY <1>3, <1>t, <2>2 DEF ClearSourceConfiguration, ConfigurationOK
  <2>3. CASE \/ \E names \in FieldSets : SetFieldNames(names)
             \/ \E definition \in Protocols \cup {NoProtocol} : SetProtocolDefinition(definition)
             \/ SetQualifyFieldNames \/ ResetParsers
    <3>1. parsers' = AllParsersGone
      BY <2>3 DEF SetFieldNames, SetProtocolDefinition, SetQualifyFieldNames, ResetParsers
    <3>2. QED
      BY <1>2, <3>1
  <2>4. CASE Flush \/ RequestStop
    BY <1>1, <2>4 DEF Flush, RequestStop
  <2>5. QED
    BY <1>5, <2>1, <2>2, <2>3, <2>4 DEF ClientStep
<1>6. CASE Sleep \/ Exit \/ Take \/ Emit \/ Finish
  BY <1>1, <1>6 DEF Sleep, Exit, Take, Emit, Finish
<1>7. CASE Parse
  <2> DEFINE p == ParserOf(chunk.src)
  <2>1. PICK rest : parsers' = [parsers EXCEPT ![chunk.src] = [p EXCEPT !.pending = rest]]
    BY <1>7 DEF Parse
  <2>2. default' = default /\ override' = override
    BY <1>7 DEF Parse
  <2>3. chunk.src \in Sources
    BY <1>7, <1>t DEF Parse, ThreadsOK, Holds, Chunk
  <2>4. p \in Parser /\ p.configuration = Resolved(chunk.src)
    BY <1>t, <2>3, ParserOfType DEF ParserOf
  <2>5. QED
    <3> SUFFICES ASSUME NEW r \in Sources, parsers'[r] # NoParser
                 PROVE  parsers'[r].configuration = Resolved(r)'
      OBVIOUS
    <3>1. CASE r = chunk.src
      <4>1. parsers'[r] = [p EXCEPT !.pending = rest]
        BY <1>t, <2>1, <3>1 DEF ConfigurationOK
      <4>2. [p EXCEPT !.pending = rest].configuration = p.configuration
        BY <2>4 DEF Parser
      <4>3. QED
        BY <2>2, <2>4, <3>1, <4>1, <4>2
    <3>2. CASE r # chunk.src
      BY <1>t, <2>1, <2>2, <3>2 DEF ConfigurationOK
    <3>3. QED
      BY <3>1, <3>2
<1>8. QED
  BY <1>1, <1>4, <1>5, <1>6, <1>7 DEF Next, WorkerStep, vars

\* Every call that changes what a source is parsed with removes the parsers it
\* concerns, however many chunks are queued or in the worker's hand.
THEOREM ParsersMatch == Spec => []ParserMatchesConfiguration
<1>1. Init => ParserMatchesConfiguration
  BY DEF Init, ParserMatchesConfiguration
<1>2. QED
  BY <1>1, TypeCorrect, StepParsers, PTL DEF Spec
-----------------------------------------------------------------------------
(* Every chunk is handled once, in order, unless the queue was cleared *)

\* The counts of a source never run ahead of what was pushed.
CountsInv ==
  \A s \in Sources :
    /\ done[s] <= pushed[s] /\ cleared[s] <= pushed[s]
    /\ \A n \in Waiting(s) : n <= pushed[s]

OrderInv == CountsInv /\ NothingLost

\* What OrderInv looks at.
Backlog == <<queue, chunk, Holds, pushed, done, cleared>>

LEMMA WaitingType ==
  ASSUME TypeOK, NEW s \in Sources
  PROVE  /\ QueuedOf(s) \subseteq 1..Len(queue) /\ Len(queue) \in Nat
         /\ \A i \in 1..Len(queue) : queue[i] \in Chunk
         /\ InHandOf(s) \subseteq Nat /\ Waiting(s) \subseteq Nat
<1>1. /\ DOMAIN queue = 1..Len(queue) /\ Len(queue) \in Nat
      /\ \A i \in 1..Len(queue) : queue[i] \in Chunk
  BY LenProperties, ElementOfSeq DEF TypeOK
<1>2. QueuedOf(s) \subseteq 1..Len(queue)
  BY <1>1 DEF QueuedOf
<1>3. InHandOf(s) \subseteq Nat
  BY DEF InHandOf, TypeOK, ThreadsOK, Chunk
<1>4. Waiting(s) \subseteq Nat
  BY <1>1, <1>2, <1>3 DEF Waiting, Chunk
<1>5. QED
  BY <1>1, <1>2, <1>3, <1>4

LEMMA QuietOrder == OrderInv /\ UNCHANGED Backlog => OrderInv'
BY DEF Backlog, OrderInv, CountsInv, NothingLost, Ordered, Accounted, Waiting, QueuedOf, InHandOf

LEMMA PushOrder ==
  ASSUME TypeOK, OrderInv, NEW p \in Sources, NEW shape \in Shapes, Push(p, shape)
  PROVE  OrderInv'
<1> DEFINE next == [src |-> p, seq |-> pushed[p] + 1, shape |-> shape]
           last == Len(queue) + 1
<1>1. /\ pushed' = [pushed EXCEPT ![p] = @ + 1] /\ queue' = Append(queue, next)
      /\ chunk' = chunk /\ done' = done /\ cleared' = cleared
  BY DEF Push
<1>2. Holds' <=> Holds
  BY DEF Push, WakeWorker, Holds
<1>3. pushed \in [Sources -> Nat] /\ done \in [Sources -> Nat] /\ cleared \in [Sources -> Nat]
  BY DEF TypeOK, HistoryOK
<1>4. next \in Chunk
  BY <1>3 DEF Chunk
<1>5. /\ DOMAIN queue' = 1..last /\ queue'[last] = next
      /\ \A i \in 1..Len(queue) : queue'[i] = queue[i]
      /\ DOMAIN queue = 1..Len(queue) /\ Len(queue) \in Nat
  BY <1>1, <1>4, AppendProperties, LenProperties DEF TypeOK
<1> HIDE DEF next, last
<1>6. ASSUME NEW s \in Sources
      PROVE  /\ InHandOf(s)' = InHandOf(s)
             /\ QueuedOf(s)' = IF s = p THEN QueuedOf(s) \cup {last} ELSE QueuedOf(s)
             /\ Waiting(s)' = IF s = p THEN Waiting(s) \cup {pushed[s] + 1} ELSE Waiting(s)
  <2>1. InHandOf(s)' = InHandOf(s)
    BY <1>1, <1>2 DEF InHandOf
  <2>2. next.src = p /\ next.seq = pushed[p] + 1
    BY DEF next
  <2>3. QueuedOf(s)' = IF s = p THEN QueuedOf(s) \cup {last} ELSE QueuedOf(s)
    BY <1>5, <2>2 DEF QueuedOf, last
  <2>4. \A i \in QueuedOf(s) : i \in 1..Len(queue)
    BY <1>5 DEF QueuedOf
  <2>5. {queue'[i].seq : i \in QueuedOf(s)'} =
          IF s = p THEN {queue[i].seq : i \in QueuedOf(s)} \cup {pushed[s] + 1}
          ELSE {queue[i].seq : i \in QueuedOf(s)}
    BY <1>5, <2>2, <2>3, <2>4
  <2>6. QED
    BY <2>1, <2>3, <2>5 DEF Waiting
<1>7. CountsInv'
  <2> SUFFICES ASSUME NEW s \in Sources
               PROVE  /\ done'[s] <= pushed'[s] /\ cleared'[s] <= pushed'[s]
                      /\ \A n \in Waiting(s)' : n <= pushed'[s]
    BY DEF CountsInv
  <2>1. /\ done[s] <= pushed[s] /\ cleared[s] <= pushed[s]
        /\ \A n \in Waiting(s) : n \in Nat /\ n <= pushed[s]
    BY WaitingType DEF OrderInv, CountsInv
  <2>2. CASE s = p
    <3>1. pushed'[s] = pushed[s] + 1 /\ done'[s] = done[s] /\ cleared'[s] = cleared[s]
      BY <1>1, <1>3, <2>2
    <3>2. pushed[s] \in Nat /\ done[s] \in Nat /\ cleared[s] \in Nat
      BY <1>3
    <3>3. \A n \in Waiting(s)' : n \in Waiting(s) \/ n = pushed[s] + 1
      BY <1>6, <2>2
    <3>4. \A n \in Waiting(s)' : n <= pushed'[s]
      BY <2>1, <3>1, <3>2, <3>3
    <3>5. QED
      BY <2>1, <3>1, <3>2, <3>4
  <2>3. CASE s # p
    BY <1>1, <1>3, <1>6, <2>1, <2>3
  <2>4. QED
    BY <2>2, <2>3
<1>8. ASSUME NEW s \in Sources PROVE Ordered(s)' /\ Accounted(s)'
  <2>1. CASE s # p
    <3>1. \A i \in QueuedOf(s) : queue'[i] = queue[i]
      BY <1>5 DEF QueuedOf
    <3>2. QED
      BY <1>1, <1>3, <1>6, <2>1, <3>1 DEF OrderInv, NothingLost, Ordered, Accounted
  <2>2. CASE s = p
    <3>1. /\ \A i \in QueuedOf(s) : queue'[i] = queue[i] /\ i < last /\ queue[i].seq <= pushed[s]
          /\ \A n \in Waiting(s) : n <= pushed[s]
          /\ queue'[last].seq = pushed[s] + 1 /\ InHandOf(s) \subseteq Waiting(s)
      BY <1>5, <2>2 DEF QueuedOf, OrderInv, CountsInv, Waiting, next, last
    <3>2. Ordered(s)'
      <4>1. \A n \in Waiting(s)' : done'[s] < n
        BY <1>1, <1>3, <1>6, <2>2 DEF OrderInv, NothingLost, CountsInv, Ordered
      <4>2. \A n \in InHandOf(s)', i \in QueuedOf(s)' : n < queue'[i].seq
        BY <1>3, <1>6, <2>2, <3>1, WaitingType DEF OrderInv, NothingLost, Ordered
      <4>3. \A i, j \in QueuedOf(s)' : i < j => queue'[i].seq < queue'[j].seq
        <5>1. last \in Nat /\ \A i \in QueuedOf(s) : i \in Nat /\ queue[i].seq \in Nat
          BY <1>5, WaitingType DEF Chunk, last, QueuedOf
        <5>2. QED
          BY <1>3, <1>6, <2>2, <3>1, <5>1 DEF OrderInv, NothingLost, Ordered
      <4>4. QED
        BY <4>1, <4>2, <4>3 DEF Ordered
    <3>3. Accounted(s)'
      BY <1>1, <1>3, <1>6, <2>2 DEF OrderInv, NothingLost, Accounted
    <3>4. QED
      BY <3>2, <3>3
  <2>3. QED
    BY <2>1, <2>2
<1>9. QED
  BY <1>7, <1>8 DEF OrderInv, NothingLost

LEMMA ClearQueueOrder == TypeOK /\ OrderInv /\ ClearQueue => OrderInv'
<1> SUFFICES ASSUME TypeOK, OrderInv, ClearQueue PROVE OrderInv'
  OBVIOUS
<1>1. /\ queue' = <<>> /\ cleared' = pushed /\ pushed' = pushed /\ done' = done
      /\ chunk' = chunk /\ (Holds' <=> Holds)
  BY DEF ClearQueue, Holds
<1>2. pushed \in [Sources -> Nat] /\ done \in [Sources -> Nat]
  BY DEF TypeOK, HistoryOK
<1>3. ASSUME NEW s \in Sources
      PROVE  QueuedOf(s)' = {} /\ Waiting(s)' = InHandOf(s) /\ InHandOf(s)' = InHandOf(s)
  <2>1. QueuedOf(s)' = {} /\ InHandOf(s)' = InHandOf(s)
    BY <1>1 DEF QueuedOf, InHandOf
  <2>2. QED
    BY <2>1 DEF Waiting
<1>4. \A s \in Sources : InHandOf(s) \subseteq Waiting(s)
  BY DEF Waiting
<1>5. CountsInv'
  BY <1>1, <1>2, <1>3, <1>4 DEF OrderInv, CountsInv
<1>6. \A s \in Sources : Ordered(s)'
  BY <1>1, <1>3, <1>4 DEF OrderInv, NothingLost, Ordered
<1>7. \A s \in Sources : Accounted(s)'
  BY <1>1, <1>2 DEF Accounted
<1>8. QED
  BY <1>5, <1>6, <1>7 DEF OrderInv, NothingLost
LEMMA TakeOrder == TypeOK /\ OrderInv /\ Take => OrderInv'
<1> SUFFICES ASSUME TypeOK, OrderInv, Take PROVE OrderInv'
  OBVIOUS
<1>1. /\ queue # <<>> /\ chunk' = Head(queue) /\ queue' = Tail(queue) /\ ~Holds /\ Holds'
      /\ pushed' = pushed /\ done' = done /\ cleared' = cleared
  BY DEF Take, Oldest, Holds, history
<1>2. /\ Len(queue) \in Nat \ {0} /\ chunk' = queue[1]
      /\ DOMAIN queue = 1..Len(queue) /\ DOMAIN queue' = 1..(Len(queue) - 1)
      /\ \A i \in DOMAIN queue' : queue'[i] = queue[i + 1]
      /\ \A i \in DOMAIN queue : queue[i] \in Chunk
  <2>1. queue \in Seq(Chunk)
    BY DEF TypeOK
  <2>2. queue' \in Seq(Chunk) /\ Len(queue') = Len(queue) - 1
    BY <1>1, <2>1, HeadTailProperties
  <2>3. QED
    BY <1>1, <2>1, <2>2, EmptySeq, LenProperties, ElementOfSeq, HeadTailProperties
<1>3. ASSUME NEW s \in Sources
      PROVE  /\ InHandOf(s) = {} /\ InHandOf(s)' = {queue[i].seq : i \in QueuedOf(s) \cap {1}}
             /\ QueuedOf(s)' = {i \in 1..(Len(queue) - 1) : i + 1 \in QueuedOf(s)}
  <2>1. InHandOf(s) = {} /\ 1 \in DOMAIN queue
    BY <1>1, <1>2 DEF InHandOf
  <2>2. InHandOf(s)' = IF queue[1].src = s THEN {queue[1].seq} ELSE {}
    BY <1>1, <1>2 DEF InHandOf
  <2>3. 1 \in QueuedOf(s) <=> queue[1].src = s
    BY <2>1 DEF QueuedOf
  <2>4. QueuedOf(s)' = {i \in 1..(Len(queue) - 1) : i + 1 \in QueuedOf(s)}
    BY <1>2 DEF QueuedOf
  <2>5. QED
    BY <2>1, <2>2, <2>3, <2>4
<1>4. ASSUME NEW s \in Sources PROVE Waiting(s)' = Waiting(s)
  <2>1. \A i \in QueuedOf(s)' : i + 1 \in QueuedOf(s) /\ queue'[i] = queue[i + 1]
    BY <1>2, <1>3 DEF QueuedOf
  <2>2. \A i \in QueuedOf(s) : i = 1 \/ (i - 1 \in QueuedOf(s)' /\ queue'[i - 1] = queue[i])
    BY <1>2, <1>3 DEF QueuedOf
  <2>3. Waiting(s)' \subseteq Waiting(s)
    BY <1>3, <2>1 DEF Waiting
  <2>4. Waiting(s) \subseteq Waiting(s)'
    BY <1>3, <2>2 DEF Waiting
  <2>5. QED
    BY <2>3, <2>4
<1>5. CountsInv'
  BY <1>1, <1>4 DEF OrderInv, CountsInv
<1>6. ASSUME NEW s \in Sources PROVE Ordered(s)'
  <2>1. \A i \in QueuedOf(s)' : i + 1 \in QueuedOf(s) /\ i + 1 > 1 /\ queue'[i] = queue[i + 1]
    BY <1>2, <1>3 DEF QueuedOf
  <2>2. \A n \in InHandOf(s)' : 1 \in QueuedOf(s) /\ n = queue[1].seq
    BY <1>3
  <2>3. Ordered(s)
    BY DEF OrderInv, NothingLost
  <2>4. \A n \in Waiting(s)' : done'[s] < n
    BY <1>1, <1>4, <2>3 DEF Ordered
  <2>5. \A n \in InHandOf(s)', i \in QueuedOf(s)' : n < queue'[i].seq
    BY <2>1, <2>2, <2>3 DEF Ordered
  <2>6. \A i, j \in QueuedOf(s)' : i < j => queue'[i].seq < queue'[j].seq
    <3> SUFFICES ASSUME NEW i \in QueuedOf(s)', NEW j \in QueuedOf(s)', i < j
                 PROVE  queue'[i].seq < queue'[j].seq
      OBVIOUS
    <3>1. i + 1 < j + 1
      BY <1>3
    <3>2. QED
      BY <2>1, <2>3, <3>1 DEF Ordered
  <2>7. QED
    BY <2>4, <2>5, <2>6 DEF Ordered
<1>7. \A s \in Sources : Accounted(s)'
  BY <1>1, <1>4 DEF OrderInv, NothingLost, Accounted
<1>8. QED
  BY <1>5, <1>6, <1>7 DEF OrderInv, NothingLost

LEMMA FinishOrder == TypeOK /\ OrderInv /\ Finish => OrderInv'
<1> SUFFICES ASSUME TypeOK, OrderInv, Finish PROVE OrderInv'
  OBVIOUS
<1>1. /\ queue' = queue /\ pushed' = pushed /\ cleared' = cleared /\ Holds /\ ~Holds'
      /\ done' = [done EXCEPT ![chunk.src] = chunk.seq]
  BY DEF Finish, Holds
<1>2. /\ pushed \in [Sources -> Nat] /\ done \in [Sources -> Nat] /\ cleared \in [Sources -> Nat]
      /\ chunk.src \in Sources /\ chunk.seq \in Nat
  BY <1>1 DEF TypeOK, HistoryOK, ThreadsOK, Chunk
<1>3. ASSUME NEW s \in Sources
      PROVE  /\ InHandOf(s)' = {} /\ InHandOf(s) = IF chunk.src = s THEN {chunk.seq} ELSE {}
             /\ QueuedOf(s)' = QueuedOf(s) /\ Waiting(s) = InHandOf(s) \cup Waiting(s)'
             /\ Waiting(s)' = {queue[i].seq : i \in QueuedOf(s)}
  BY <1>1 DEF InHandOf, QueuedOf, Waiting
<1>4. ASSUME NEW s \in Sources
      PROVE  /\ done'[s] <= pushed[s] /\ cleared[s] <= pushed[s]
             /\ \A n \in Waiting(s)' : n <= pushed[s]
             /\ Ordered(s)' /\ Accounted(s)'
  <2>1. /\ done[s] <= pushed[s] /\ cleared[s] <= pushed[s]
        /\ \A n \in Waiting(s) : n \in Nat /\ n <= pushed[s] /\ done[s] < n
        /\ Ordered(s) /\ Accounted(s)
    BY WaitingType DEF OrderInv, CountsInv, NothingLost, Ordered
  <2>2. CASE chunk.src # s
    <3>1. done'[s] = done[s] /\ Waiting(s)' = Waiting(s) /\ InHandOf(s)' = InHandOf(s)
      BY <1>1, <1>2, <1>3, <2>2
    <3>2. QED
      BY <1>1, <1>3, <2>1, <3>1 DEF Ordered, Accounted
  <2>3. CASE chunk.src = s
    <3>1. /\ done'[s] = chunk.seq /\ chunk.seq \in Waiting(s)
          /\ \A n \in Waiting(s) : n # chunk.seq => n \in Waiting(s)'
      BY <1>1, <1>2, <1>3, <2>3
    <3>2. \A n \in Waiting(s)' : chunk.seq < n
      BY <1>3, <2>1, <2>3 DEF Ordered
    <3>3. Ordered(s)'
      BY <1>1, <1>3, <2>1, <3>1, <3>2 DEF Ordered
    <3>4. Accounted(s)'
      <4> SUFFICES ASSUME NEW n \in (chunk.seq + 1)..pushed[s]
                   PROVE  n \in Waiting(s)' \/ n <= cleared[s]
        BY <1>1, <3>1 DEF Accounted
      <4>1. n \in (done[s] + 1)..pushed[s] /\ n # chunk.seq
        BY <1>2, <2>1, <3>1
      <4>2. QED
        BY <2>1, <3>1, <4>1 DEF Accounted
    <3>5. QED
      BY <1>3, <2>1, <3>1, <3>3, <3>4
  <2>4. QED
    BY <2>2, <2>3
<1>5. QED
  BY <1>1, <1>4 DEF OrderInv, CountsInv, NothingLost

LEMMA StepOrder == TypeOK /\ OrderInv /\ [Next]_vars => OrderInv'
<1> SUFFICES ASSUME TypeOK, OrderInv, [Next]_vars PROVE OrderInv'
  OBVIOUS
<1>1. CASE UNCHANGED vars
  <2>1. UNCHANGED Backlog
    BY <1>1 DEF Backlog, vars, history, Holds
  <2>2. QED
    BY <2>1, QuietOrder
<1>2. CASE ClientStep
  <2>1. CASE ClearQueue
    BY <2>1, ClearQueueOrder
  <2>2. CASE \E names \in FieldSets : SetFieldNames(names)
    <3>1. UNCHANGED Backlog
      BY <2>2 DEF Backlog, Holds, history, SetFieldNames
    <3>2. QED
      BY <3>1, QuietOrder
  <2>3. CASE ResetParsers \/ Flush \/ RequestStop
    <3>1. UNCHANGED Backlog
      BY <2>3 DEF Backlog, Holds, history, ResetParsers, Flush, RequestStop, WakeWorker
    <3>2. QED
      BY <3>1, QuietOrder
  <2>4. QED
    BY <1>2, <2>1, <2>2, <2>3 DEF ClientStep, SetProtocolDefinition, SetSourceConfiguration,
       ClearSourceConfiguration, SetQualifyFieldNames
<1>3. CASE Sleep \/ Exit \/ Emit
  <2>1. UNCHANGED Backlog
    BY <1>3 DEF Backlog, Holds, history, Sleep, Exit, Emit
  <2>2. QED
    BY <2>1, QuietOrder
<1>4. CASE Parse
  <2>1. worker = "parse" /\ worker' \in {"finish", "emit"}
    BY <1>4 DEF Parse
  <2>2. UNCHANGED Backlog
    BY <1>4, <2>1 DEF Backlog, Holds, Parse
  <2>3. QED
    BY <2>2, QuietOrder
<1>5. QED
  BY <1>1, <1>2, <1>3, <1>4, PushOrder, TakeOrder, FinishOrder DEF Next, WorkerStep

LEMMA InitOrder == Init => OrderInv
<1> SUFFICES ASSUME Init PROVE OrderInv
  OBVIOUS
<1>1. \A s \in Sources : QueuedOf(s) = {} /\ InHandOf(s) = {}
  BY DEF Init, QueuedOf, InHandOf, Holds
<1>2. \A s \in Sources : Waiting(s) = {}
  BY <1>1 DEF Waiting
<1>3. CountsInv
  BY <1>2 DEF CountsInv, Init
<1>4. NothingLost
  BY <1>1, <1>2 DEF NothingLost, Ordered, Accounted, Init
<1>5. QED
  BY <1>3, <1>4 DEF OrderInv

LEMMA OrderHolds == Spec => [](TypeOK /\ OrderInv)
BY TypeCorrect, InitOrder, StepOrder, PTL DEF Spec

\* However the producers, the configuration calls and the worker interleave, a
\* chunk is handled after those pushed before it and dropped only by a call
\* that clears the queue.
THEOREM NothingIsLost == Spec => []NothingLost
<1>1. OrderInv => NothingLost
  BY DEF OrderInv
<1>2. QED
  BY <1>1, OrderHolds, PTL

\* A client that leaves flush() finds every chunk pushed so far handled.
THEOREM FlushWaits == Spec => FlushIsABarrier
<1> DEFINE Leaves == client = "flush" /\ client' = "idle" =>
                       \A s \in Sources : pushed[s] = done[s] \/ pushed[s] <= cleared[s]
<1>1. TypeOK /\ OrderInv /\ [Next]_vars => Leaves
  <2> SUFFICES ASSUME TypeOK, OrderInv, [Next]_vars, client = "flush", client' = "idle",
                      NEW s \in Sources
               PROVE  pushed[s] = done[s] \/ pushed[s] <= cleared[s]
    OBVIOUS
  <2>1. Flush
    BY DEF Next, vars, Push, ClientStep, SetFieldNames, SetProtocolDefinition, ClearQueue,
       SetSourceConfiguration, ClearSourceConfiguration, SetQualifyFieldNames, ResetParsers,
       RequestStop, WorkerStep, Sleep, Exit, Take, Parse, Emit, Finish, NotifyIdle
  <2>2. queue = <<>> /\ ~Holds
    BY <2>1 DEF Flush, Idle, TypeOK, ThreadsOK
  <2>3. QueuedOf(s) = {} /\ InHandOf(s) = {}
    BY <2>2 DEF QueuedOf, InHandOf
  <2>4. Waiting(s) = {}
    BY <2>3 DEF Waiting
  <2>5. /\ pushed[s] \in Nat /\ done[s] \in Nat /\ cleared[s] \in Nat
        /\ done[s] <= pushed[s]
        /\ \A n \in (done[s] + 1)..pushed[s] : n <= cleared[s]
    BY <2>4 DEF TypeOK, HistoryOK, OrderInv, CountsInv, NothingLost, Accounted
  <2>6. QED
    BY <2>5
<1>2. QED
  BY <1>1, OrderHolds, PTL DEF Spec, FlushIsABarrier
-----------------------------------------------------------------------------
(* A unit leaves out only what was sent or what a call dropped *)

\* The chunks after m and before n were sent, or dropped from the queue.
Dropped(s, m, n) == \A k \in (m + 1)..(n - 1) : k \in sent[s] \/ k <= cleared[s]

\* No chunk is missing between two neighbours of seq but a dropped one.
Whole(s, seq) ==
  \A i \in 1..(Len(seq) - 1) : seq[i] < seq[i + 1] /\ Dropped(s, seq[i], seq[i + 1])

\* The tx chunks queued or in hand are on record; the chunk in hand is the next of its source.
SentInv ==
  /\ \A i \in DOMAIN queue : queue[i].shape = "tx" => queue[i].seq \in sent[queue[i].src]
  /\ Holds /\ chunk.shape = "tx" => chunk.seq \in sent[chunk.src]
SkippedInv == Holds => done[chunk.src] < chunk.seq /\ Dropped(chunk.src, done[chunk.src], chunk.seq)

BaseInv == TypeOK /\ OrderInv /\ ParserMatchesConfiguration /\ SentInv /\ SkippedInv

\* The last chunk of s the parser is through with, and what the parser keeps.
Parsed(s) == IF worker \in {"emit", "finish"} /\ chunk.src = s THEN chunk.seq ELSE done[s]
Pending(s) == IF parsers[s] = NoParser THEN <<>> ELSE parsers[s].pending

\* What a parser keeps is whole, and reaches up to the last chunk it is through with.
PendingOK(s) ==
  /\ Whole(s, Pending(s))
  /\ Pending(s) # <<>> => /\ Pending(s)[Len(Pending(s))] <= Parsed(s)
                          /\ Dropped(s, Pending(s)[Len(Pending(s))], Parsed(s) + 1)
UnitsInv == \A s \in Sources : PendingOK(s) /\ Whole(s, line[s])

\* What was sent stays on record, and the queue is cleared further and further.
Grows == \A s \in Sources : sent[s] \subseteq sent'[s] /\ cleared[s] <= cleared'[s]

LEMMA Skipped == TypeOK /\ OrderInv => SkippedInv
<1> SUFFICES ASSUME TypeOK, OrderInv, Holds
             PROVE  done[chunk.src] < chunk.seq /\ Dropped(chunk.src, done[chunk.src], chunk.seq)
  BY DEF SkippedInv
<1> DEFINE s == chunk.src
<1>1. s \in Sources /\ chunk.seq \in Nat /\ done[s] \in Nat /\ pushed[s] \in Nat
  BY DEF TypeOK, ThreadsOK, HistoryOK, Chunk
<1>2. InHandOf(s) = {chunk.seq} /\ chunk.seq \in Waiting(s)
  BY DEF InHandOf, Waiting
<1>3. Ordered(s) /\ Accounted(s) /\ chunk.seq <= pushed[s]
  BY <1>1, <1>2 DEF OrderInv, NothingLost, CountsInv
<1>4. \A n \in Waiting(s) : n \in Nat /\ n >= chunk.seq
  BY <1>1, <1>2, <1>3, WaitingType DEF Ordered, Waiting, Chunk
<1>5. \A k \in (done[s] + 1)..(chunk.seq - 1) : k \in (done[s] + 1)..pushed[s] /\ k \notin Waiting(s)
  BY <1>1, <1>3, <1>4
<1>6. \A k \in (done[s] + 1)..(chunk.seq - 1) : k <= cleared[s]
  BY <1>3, <1>5 DEF Accounted
<1>7. QED
  BY <1>1, <1>2, <1>3, <1>6 DEF Dropped, Ordered

LEMMA StepSent == TypeOK /\ TypeOK' /\ SentInv /\ [Next]_vars => SentInv'
<1> SUFFICES ASSUME TypeOK, TypeOK', SentInv, [Next]_vars PROVE SentInv'
  OBVIOUS
<1>t. /\ queue \in Seq(Chunk) /\ sent \in [Sources -> SUBSET Nat]
      /\ DOMAIN queue = 1..Len(queue) /\ Len(queue) \in Nat
      /\ \A i \in DOMAIN queue : queue[i] \in Chunk
  BY LenProperties, ElementOfSeq DEF TypeOK, HistoryOK
<1>1. ASSUME UNCHANGED <<chunk, sent>>, Holds' => Holds, queue' = queue \/ queue' = <<>>
      PROVE  SentInv'
  BY <1>1 DEF SentInv
<1>2. ASSUME NEW p \in Sources, NEW shape \in Shapes, Push(p, shape) PROVE SentInv'
  <2> DEFINE next == [src |-> p, seq |-> pushed[p] + 1, shape |-> shape]
  <2>1. /\ queue' = Append(queue, next) /\ chunk' = chunk
        /\ sent' = IF shape = "tx" THEN [sent EXCEPT ![p] = @ \cup {pushed[p] + 1}] ELSE sent
    BY <1>2 DEF Push
  <2>2. Holds' => Holds
    BY <1>2 DEF Push, WakeWorker, Holds
  <2>3. \A s \in Sources : sent[s] \subseteq sent'[s]
    BY <1>t, <2>1
  <2>4. next.shape = "tx" => next.seq \in sent'[next.src]
    BY <1>t, <2>1
  <2>5. next \in Chunk
    BY DEF TypeOK, HistoryOK, Chunk
  <2>6. \A i \in DOMAIN queue' : queue'[i] = next \/ (i \in DOMAIN queue /\ queue'[i] = queue[i])
    BY <1>t, <2>1, <2>5, AppendProperties, LenProperties
  <2>7. \A i \in DOMAIN queue' : queue'[i].shape = "tx" => queue'[i].seq \in sent'[queue'[i].src]
    <3> HIDE DEF next
    <3> QED
      BY <1>t, <2>3, <2>4, <2>6 DEF SentInv, Chunk
  <2>8. Holds => chunk.src \in Sources
    BY DEF TypeOK, ThreadsOK, Chunk
  <2>9. QED
    BY <2>1, <2>2, <2>3, <2>7, <2>8 DEF SentInv
<1>3. CASE Take
  <2>1. /\ chunk' = queue[1] /\ 1 \in DOMAIN queue /\ sent' = sent
        /\ \A i \in DOMAIN queue' : i + 1 \in DOMAIN queue /\ queue'[i] = queue[i + 1]
    <3>1. queue # <<>> /\ chunk' = Head(queue) /\ queue' = Tail(queue) /\ sent' = sent
      BY <1>3 DEF Take, Oldest, history
    <3>2. /\ queue' \in Seq(Chunk) /\ Len(queue') = Len(queue) - 1 /\ Len(queue) \in Nat \ {0}
          /\ \A i \in 1..Len(queue') : queue'[i] = queue[i + 1]
      BY <1>t, <3>1, HeadTailProperties, EmptySeq
    <3>3. DOMAIN queue' = 1..Len(queue')
      BY <3>2, LenProperties
    <3>4. QED
      BY <1>t, <3>1, <3>2, <3>3
  <2>2. QED
    BY <2>1 DEF SentInv
<1>4. CASE ClientStep
  BY <1>1, <1>4 DEF ClientStep, SetFieldNames, SetProtocolDefinition, SetSourceConfiguration,
     ClearSourceConfiguration, SetQualifyFieldNames, ResetParsers, Flush, RequestStop, ClearQueue,
     Holds, WakeWorker, history
<1>5. CASE Sleep \/ Exit \/ Parse \/ Emit
  BY <1>1, <1>5 DEF Sleep, Exit, Parse, Emit, Holds, history
<1>6. CASE Finish
  BY <1>6 DEF Finish, SentInv, Holds
<1>7. CASE UNCHANGED vars
  BY <1>1, <1>7 DEF vars, history, Holds
<1>8. QED
  BY <1>2, <1>3, <1>4, <1>5, <1>6, <1>7 DEF Next, WorkerStep

LEMMA BaseHolds == Spec => []BaseInv
<1>1. Init => SentInv
  BY DEF Init, SentInv, Holds
<1>2. QED
  BY <1>1, OrderHolds, ParsersMatch, StepSent, Skipped, PTL DEF Spec, BaseInv
LEMMA HistoryGrows == BaseInv /\ [Next]_vars => Grows
<1> SUFFICES ASSUME BaseInv, [Next]_vars, NEW s \in Sources
             PROVE  sent[s] \subseteq sent'[s] /\ cleared[s] <= cleared'[s]
  BY DEF Grows
<1>t. /\ sent \in [Sources -> SUBSET Nat] /\ cleared \in [Sources -> Nat]
      /\ cleared[s] <= pushed[s]
  BY DEF BaseInv, TypeOK, HistoryOK, OrderInv, CountsInv
<1>1. CASE UNCHANGED <<sent, cleared>>
  BY <1>t, <1>1
<1>2. CASE ClearQueue
  BY <1>t, <1>2 DEF ClearQueue
<1>3. ASSUME NEW p \in Sources, NEW shape \in Shapes, Push(p, shape)
      PROVE  sent[s] \subseteq sent'[s] /\ cleared[s] <= cleared'[s]
  BY <1>t, <1>3 DEF Push
<1>4. QED
  BY <1>1, <1>2, <1>3 DEF Next, ClientStep, SetFieldNames, SetProtocolDefinition,
     SetSourceConfiguration, ClearSourceConfiguration, SetQualifyFieldNames, ResetParsers, Flush,
     RequestStop, WorkerStep, Sleep, Exit, Take, Parse, Emit, Finish, vars, history

LEMMA UnitTypes ==
  ASSUME BaseInv, NEW s \in Sources
  PROVE  Pending(s) \in Seq(Nat) /\ line[s] \in Seq(Nat) /\ Parsed(s) \in Nat
<1>1. Pending(s) \in Seq(Nat)
  BY EmptySeq DEF BaseInv, TypeOK, ConfigurationOK, Parser, Pending
<1>2. line[s] \in Seq(Nat) /\ done[s] \in Nat
  BY DEF BaseInv, TypeOK, HistoryOK
<1>3. Parsed(s) \in Nat
  BY <1>2 DEF BaseInv, TypeOK, ThreadsOK, Holds, Chunk, Parsed
<1>4. QED
  BY <1>1, <1>2, <1>3

\* What was dropped stays dropped.
LEMMA StaysWhole ==
  ASSUME BaseInv, BaseInv', Grows, NEW s \in Sources
  PROVE  /\ \A m, n \in Nat : Dropped(s, m, n) => Dropped(s, m, n)'
         /\ \A seq \in Seq(Nat) : Whole(s, seq) => Whole(s, seq)'
<1>1. /\ \A k \in Nat : k <= cleared[s] => k <= cleared'[s]
      /\ sent[s] \subseteq sent'[s]
  BY DEF BaseInv, TypeOK, HistoryOK, Grows
<1>2. ASSUME NEW m \in Nat, NEW n \in Nat, Dropped(s, m, n) PROVE Dropped(s, m, n)'
  BY <1>1, <1>2 DEF Dropped
<1>3. ASSUME NEW seq \in Seq(Nat), Whole(s, seq) PROVE Whole(s, seq)'
  <2> SUFFICES ASSUME NEW i \in 1..(Len(seq) - 1)
               PROVE  seq[i] < seq[i + 1] /\ Dropped(s, seq[i], seq[i + 1])'
    BY DEF Whole
  <2>1. seq[i] \in Nat /\ seq[i + 1] \in Nat
    BY LenProperties, ElementOfSeq
  <2>2. QED
    BY <1>2, <1>3, <2>1 DEF Whole
<1>4. QED
  BY <1>2, <1>3

\* The next chunk of a source extends what its parser keeps.
LEMMA Extended ==
  ASSUME NEW s \in Sources, NEW seq \in Seq(Nat), NEW n \in Nat, Whole(s, seq),
         seq # <<>> => seq[Len(seq)] < n /\ Dropped(s, seq[Len(seq)], n)
  PROVE  Whole(s, Append(seq, n))
<1> DEFINE longer == Append(seq, n)
<1>1. /\ Len(longer) = Len(seq) + 1 /\ Len(seq) \in Nat /\ longer[Len(seq) + 1] = n
      /\ \A i \in 1..Len(seq) : longer[i] = seq[i]
  BY AppendProperties, LenProperties
<1> HIDE DEF longer
<1>2. ASSUME NEW i \in 1..(Len(longer) - 1)
      PROVE  longer[i] < longer[i + 1] /\ Dropped(s, longer[i], longer[i + 1])
  <2>1. CASE i = Len(seq)
    <3>1. seq # <<>> /\ longer[i] = seq[Len(seq)] /\ longer[i + 1] = n
      BY <1>1, <2>1, EmptySeq
    <3>2. QED
      BY <3>1
  <2>2. CASE i # Len(seq)
    <3>1. i \in 1..(Len(seq) - 1) /\ longer[i] = seq[i] /\ longer[i + 1] = seq[i + 1]
      BY <1>1, <2>2
    <3>2. QED
      BY <3>1 DEF Whole
  <2>3. QED
    BY <2>1, <2>2
<1>3. QED
  BY <1>2 DEF Whole, longer

LEMMA ShortIsWhole ==
  ASSUME NEW s \in Sources, NEW n \in Nat PROVE Whole(s, <<>>) /\ Whole(s, <<n>>)
BY DEF Whole

\* Steps that move no chunk past a parser.
LEMMA KeptUnits ==
  ASSUME BaseInv, BaseInv', Grows, UnitsInv, line' = line,
         \A s \in Sources : /\ Pending(s)' \in {<<>>, Pending(s)}
                            /\ Parsed(s)' = Parsed(s)
  PROVE  UnitsInv'
<1> SUFFICES ASSUME NEW s \in Sources PROVE PendingOK(s)' /\ Whole(s, line[s])'
  BY DEF UnitsInv
<1>1. Whole(s, line[s])'
  <2>1. line'[s] = line[s] /\ line[s] \in Seq(Nat) /\ Whole(s, line[s])
    BY UnitTypes DEF UnitsInv
  <2>2. PICK u \in Seq(Nat) : u = line[s]
    BY <2>1
  <2>3. Whole(s, u)'
    BY <2>1, <2>2, StaysWhole
  <2>4. QED
    BY <2>1, <2>2, <2>3 DEF Whole
<1>2. CASE Pending(s)' = <<>>
  <2>1. Whole(s, <<>>)
    BY ShortIsWhole
  <2>2. Whole(s, <<>>)'
    BY <2>1, StaysWhole, EmptySeq
  <2>3. Whole(s, Pending(s))'
    BY <1>2, <2>2 DEF Whole
  <2>4. QED
    BY <1>1, <1>2, <2>3 DEF PendingOK
<1>3. CASE Pending(s)' = Pending(s)
  <2> DEFINE seq == Pending(s)
             end == seq[Len(seq)]
  <2>1. PendingOK(s)
    BY DEF UnitsInv
  <2>2. Whole(s, seq) /\ (seq # <<>> => end <= Parsed(s) /\ Dropped(s, end, Parsed(s) + 1))
    BY <2>1 DEF PendingOK
  <2>3. PICK held \in Seq(Nat) : held = seq
    BY UnitTypes
  <2>4. PICK through \in Nat : through = Parsed(s)
    BY UnitTypes
  <2>5. /\ Whole(s, held)'
        /\ held # <<>> => held[Len(held)] <= through /\ Dropped(s, held[Len(held)], through + 1)'
    <3>1. held # <<>> => held[Len(held)] \in Nat
      BY EmptySeq, LenProperties, ElementOfSeq
    <3>2. QED
      BY <2>2, <2>3, <2>4, <3>1, StaysWhole
  <2>6. Pending(s)' = held /\ Parsed(s)' = through
    BY <1>3, <2>3, <2>4
  <2>7. PendingOK(s)'
    BY <2>5, <2>6 DEF PendingOK, Whole, Dropped
  <2>8. QED
    BY <1>1, <2>7
<1>4. QED
  BY <1>2, <1>3
\* A chunk that was sent passes the parser of its source by.
LEMMA TakeUnits ==
  ASSUME BaseInv, BaseInv', Grows, UnitsInv, Take
  PROVE  UnitsInv'
<1>1. /\ parsers' = parsers /\ line' = line /\ done' = done /\ worker = "idle"
      /\ worker' = IF chunk'.shape = "tx" THEN "finish" ELSE "parse"
  BY DEF Take, config, history
<1>2. CASE chunk'.shape # "tx"
  <2>1. \A s \in Sources : Pending(s)' = Pending(s) /\ Parsed(s)' = Parsed(s)
    BY <1>1, <1>2 DEF Pending, Parsed
  <2>2. QED
    BY <1>1, <2>1, KeptUnits
<1>3. CASE chunk'.shape = "tx"
  <2> SUFFICES ASSUME NEW s \in Sources PROVE PendingOK(s)' /\ Whole(s, line[s])'
    BY DEF UnitsInv
  <2>1. PICK held \in Seq(Nat), u \in Seq(Nat) : held = Pending(s) /\ u = line[s]
    BY UnitTypes
  <2>2. Whole(s, held)' /\ Whole(s, u)' /\ Pending(s)' = held /\ line'[s] = u
    BY <1>1, <2>1, StaysWhole DEF UnitsInv, PendingOK, Pending
  <2>3. Whole(s, line[s])' /\ Whole(s, Pending(s))'
    BY <2>2 DEF Whole
  <2>4. Parsed(s) = done[s] /\ done[s] \in Nat
    BY <1>1 DEF Parsed, BaseInv, TypeOK, HistoryOK
  <2>5. ASSUME held # <<>>
        PROVE  held[Len(held)] <= Parsed(s)' /\ Dropped(s, held[Len(held)], Parsed(s) + 1)'
    <3>1. PICK end \in Nat : end = held[Len(held)]
      BY <2>5, EmptySeq, LenProperties, ElementOfSeq
    <3>2. end <= done[s] /\ Dropped(s, end, done[s] + 1)
      BY <2>1, <2>4, <2>5, <3>1 DEF UnitsInv, PendingOK
    <3>3. Dropped(s, end, done[s] + 1)'
      <4>1. PICK through \in Nat : through = done[s] + 1
        BY <2>4
      <4>2. Dropped(s, end, through)'
        BY <3>2, <4>1, StaysWhole
      <4>3. QED
        BY <1>1, <4>1, <4>2 DEF Dropped
    <3>4. CASE chunk'.src # s
      <4>1. Parsed(s)' = done[s]
        BY <1>1, <3>4 DEF Parsed
      <4>2. QED
        BY <1>1, <3>1, <3>2, <3>3, <4>1 DEF Dropped
    <3>5. CASE chunk'.src = s
      <4>1. Parsed(s)' = chunk'.seq /\ worker' = "finish"
        BY <1>1, <1>3, <3>5 DEF Parsed
      <4>2. /\ done[s] < chunk'.seq /\ chunk'.seq \in Nat
            /\ \A k \in (done[s] + 1)..(chunk'.seq - 1) : k \in sent'[s] \/ k <= cleared'[s]
        BY <1>1, <3>5, <4>1 DEF BaseInv, SkippedInv, Holds, Dropped, TypeOK, ThreadsOK, Chunk
      <4>3. chunk'.seq \in sent'[s]
        BY <1>3, <3>5, <4>1 DEF BaseInv, SentInv, Holds
      <4>4. \A k \in (end + 1)..chunk'.seq : k \in sent'[s] \/ k <= cleared'[s]
        <5> SUFFICES ASSUME NEW k \in (end + 1)..chunk'.seq
                     PROVE  k \in sent'[s] \/ k <= cleared'[s]
          OBVIOUS
        <5>1. CASE k <= done[s]
          BY <1>1, <2>4, <3>3, <5>1 DEF Dropped
        <5>2. CASE done[s] < k /\ k < chunk'.seq
          BY <2>4, <4>2, <5>2
        <5>3. CASE k = chunk'.seq
          BY <4>3, <5>3
        <5>4. QED
          BY <2>4, <4>2, <5>1, <5>2, <5>3
      <4>5. QED
        BY <2>4, <3>1, <3>2, <4>1, <4>2, <4>4 DEF Dropped
    <3>6. QED
      BY <3>4, <3>5
  <2>6. QED
    BY <2>2, <2>3, <2>5 DEF PendingOK, Dropped
<1>4. QED
  BY <1>2, <1>3

\* A chunk that was received extends what its parser keeps, completes it, or does
\* both; a parser that keeps too much forgets it.
LEMMA ParseUnits ==
  ASSUME BaseInv, BaseInv', Grows, UnitsInv, Parse
  PROVE  UnitsInv'
<1> DEFINE r == chunk.src
           p == ParserOf(r)
           n == chunk.seq
           result == IF Fed(p) THEN Assemble(p) ELSE [pending |-> p.pending, units |-> <<>>]
<1>1. /\ worker = "parse" /\ worker' \in {"finish", "emit"} /\ chunk' = chunk /\ done' = done
      /\ sent' = sent /\ cleared' = cleared
      /\ parsers' = [parsers EXCEPT ![r] = [p EXCEPT !.pending = result.pending]]
      /\ line' = IF result.units = <<>> THEN line
                 ELSE [line EXCEPT ![r] = Last(result.units)]
  BY DEF Parse
<1>2. /\ r \in Sources /\ n \in Nat /\ chunk.shape \in {"part", "end", "next"}
      /\ ConfigurationOK /\ line \in [Sources -> Seq(Nat)] /\ done \in [Sources -> Nat]
  BY <1>1 DEF BaseInv, TypeOK, ThreadsOK, HistoryOK, Holds, Chunk, Shapes
<1>3. p \in Parser /\ p.pending = Pending(r) /\ p.configuration = Resolved(r)
  <2>1. p \in Parser
    BY <1>2, ParserOfType
  <2>2. p.pending = Pending(r) /\ p.configuration = Resolved(r)
    BY <1>2 DEF ParserOf, Pending, BaseInv, ParserMatchesConfiguration
  <2>3. QED
    BY <2>1, <2>2
<1>4. Fed(p)
  BY <1>3 DEF Fed
<1>5. PICK held \in Seq(Nat) : held = Pending(r)
  BY <1>2, UnitTypes
<1>6. /\ result.pending \in {<<>>, <<n>>, Append(held, n)}
      /\ result.units \in {<<>>, <<Append(held, n)>>}
  BY <1>2, <1>3, <1>4, <1>5 DEF Assemble, Grown
<1>7. Whole(r, Append(held, n)) /\ Append(held, n) \in Seq(Nat)
  <2>1. ASSUME held # <<>> PROVE held[Len(held)] < n /\ Dropped(r, held[Len(held)], n)
    <3>1. held[Len(held)] \in Nat
      BY <2>1, EmptySeq, LenProperties, ElementOfSeq
    <3>2. Parsed(r) = done[r] /\ done[r] \in Nat
      BY <1>1, <1>2 DEF Parsed
    <3>3. held[Len(held)] <= done[r] /\ Dropped(r, held[Len(held)], done[r] + 1)
      BY <1>2, <1>5, <2>1, <3>2 DEF UnitsInv, PendingOK
    <3>4. done[r] < n /\ Dropped(r, done[r], n)
      BY <1>1 DEF BaseInv, SkippedInv, Holds
    <3>5. QED
      BY <1>2, <3>1, <3>2, <3>3, <3>4 DEF Dropped
  <2>2. Whole(r, held)
    BY <1>2, <1>5 DEF UnitsInv, PendingOK
  <2>3. QED
    BY <1>2, <2>1, <2>2, Extended, AppendProperties
<1> HIDE DEF result, p
<1>8. ASSUME NEW s \in Sources, s # r PROVE PendingOK(s)' /\ Whole(s, line[s])'
  <2>1. Pending(s)' = Pending(s) /\ line'[s] = line[s] /\ Parsed(s)' = Parsed(s)
    BY <1>1, <1>2, <1>8 DEF Pending, Parsed, ConfigurationOK
  <2>2. QED
    BY <1>1, <2>1 DEF UnitsInv, PendingOK, Whole, Dropped
<1>9. PendingOK(r)'
  <2>1. Pending(r)' = result.pending
    <3>1. parsers'[r] = [p EXCEPT !.pending = result.pending]
      BY <1>1, <1>2 DEF ConfigurationOK
    <3>2. parsers'[r] # NoParser /\ parsers'[r].pending = result.pending
      BY <1>3, <3>1 DEF Parser, NoParser
    <3>3. QED
      BY <1>1, <3>2 DEF Pending
  <2>2. Parsed(r)' = n
    BY <1>1 DEF Parsed
  <2>3. PICK rest \in Seq(Nat) :
          /\ rest = result.pending /\ Whole(r, rest)
          /\ rest # <<>> => rest[Len(rest)] = n
    <3>1. ASSUME NEW rest \in Seq(Nat), rest = Append(held, n)
          PROVE  Whole(r, rest) /\ rest[Len(rest)] = n
      BY <1>2, <1>7, <3>1, AppendProperties
    <3>2. ASSUME NEW rest \in Seq(Nat), rest \in {<<>>, <<n>>}
          PROVE  Whole(r, rest) /\ (rest # <<>> => rest[Len(rest)] = n)
      <4>1. Whole(r, rest)
        BY <1>2, <3>2, ShortIsWhole
      <4>2. rest = <<n>> => rest[Len(rest)] = n
        OBVIOUS
      <4>3. QED
        BY <3>2, <4>1, <4>2
    <3>3. result.pending \in Seq(Nat)
      <4>1. <<>> \in Seq(Nat) /\ <<n>> \in Seq(Nat)
        BY <1>2, EmptySeq
      <4>2. QED
        BY <1>6, <1>7, <4>1
    <3>4. QED
      BY <1>6, <3>1, <3>2, <3>3
  <2>4. Whole(r, rest)'
    BY <1>1, <2>3 DEF Whole, Dropped
  <2>5. Pending(r)' = rest
    BY <2>1, <2>3
  <2>6. Whole(r, Pending(r))'
    BY <2>4, <2>5 DEF Whole
  <2>7. QED
    BY <1>2, <2>2, <2>3, <2>5, <2>6 DEF PendingOK, Dropped
<1>10. Whole(r, line[r])'
  <2>1. CASE result.units = <<>>
    BY <1>1, <1>2, <2>1 DEF UnitsInv, Whole, Dropped
  <2>2. CASE result.units = <<Append(held, n)>>
    <3>1. <<Append(held, n)>> # <<>> /\ Last(<<Append(held, n)>>) = Append(held, n)
      BY DEF Last
    <3>2. line'[r] = Append(held, n)
      BY <1>1, <1>2, <2>2, <3>1
    <3>3. QED
      BY <1>1, <1>7, <3>2 DEF Whole, Dropped
  <2>3. QED
    BY <1>6, <2>1, <2>2
<1>11. QED
  BY <1>1, <1>8, <1>9, <1>10 DEF UnitsInv

LEMMA StepUnits == BaseInv /\ BaseInv' /\ UnitsInv /\ [Next]_vars => UnitsInv'
<1> SUFFICES ASSUME BaseInv, BaseInv', UnitsInv, [Next]_vars PROVE UnitsInv'
  OBVIOUS
<1>1. Grows
  BY HistoryGrows
<1>2. ASSUME line' = line, UNCHANGED <<chunk, done>>,
             \A s \in Sources : Pending(s)' \in {<<>>, Pending(s)},
             (worker' \in {"emit", "finish"}) = (worker \in {"emit", "finish"})
      PROVE  UnitsInv'
  <2>1. \A s \in Sources : Parsed(s)' = Parsed(s)
    BY <1>2 DEF Parsed
  <2>2. QED
    BY <1>1, <1>2, <2>1, KeptUnits
<1>3. CASE UNCHANGED vars
  BY <1>2, <1>3 DEF vars, config, history, Pending
<1>4. ASSUME NEW p \in Sources, NEW shape \in Shapes, Push(p, shape) PROVE UnitsInv'
  BY <1>2, <1>4 DEF Push, WakeWorker, config, Pending
<1>5. CASE ClientStep
  <2>1. \A s \in Sources : Pending(s)' \in {<<>>, Pending(s)}
    BY <1>5 DEF ClientStep, SetFieldNames, SetProtocolDefinition, SetSourceConfiguration,
       ClearSourceConfiguration, SetQualifyFieldNames, ResetParsers, Flush, RequestStop,
       ClearQueue, Pending, AllParsersGone, ParserGone, config, BaseInv, TypeOK, ConfigurationOK
  <2>2. /\ line' = line /\ UNCHANGED <<chunk, done>>
        /\ (worker' \in {"emit", "finish"}) = (worker \in {"emit", "finish"})
    BY <1>5 DEF ClientStep, SetFieldNames, SetProtocolDefinition, SetSourceConfiguration,
       ClearSourceConfiguration, SetQualifyFieldNames, ResetParsers, Flush, RequestStop,
       ClearQueue, WakeWorker, history
  <2>3. QED
    BY <1>2, <2>1, <2>2
<1>6. CASE Sleep \/ Exit \/ Emit
  BY <1>2, <1>6 DEF Sleep, Exit, Emit, config, history, Pending
<1>7. CASE Finish
  <2>1. /\ worker = "finish" /\ worker' = "idle" /\ parsers' = parsers /\ line' = line
        /\ done' = [done EXCEPT ![chunk.src] = chunk.seq]
        /\ done \in [Sources -> Nat]
    BY <1>7 DEF Finish, config, BaseInv, TypeOK, HistoryOK
  <2>2. \A s \in Sources : Pending(s)' = Pending(s) /\ Parsed(s)' = Parsed(s)
    BY <2>1 DEF Pending, Parsed
  <2>3. QED
    BY <1>1, <2>1, <2>2, KeptUnits
<1>8. QED
  BY <1>1, <1>3, <1>4, <1>5, <1>6, <1>7, TakeUnits, ParseUnits DEF Next, WorkerStep

\* The bytes two neighbours of a unit leave out were sent or were dropped by a
\* configuration call, however long a unit is kept and whatever arrives meanwhile.
THEOREM GapsAreSwitches == Spec => []GapsOnlyAtSwitches
<1>1. Init => UnitsInv
  <2> SUFFICES ASSUME Init, NEW s \in Sources PROVE PendingOK(s) /\ Whole(s, line[s])
    BY DEF UnitsInv
  <2>1. Pending(s) = <<>> /\ line[s] = <<>>
    BY DEF Init, Pending
  <2>2. QED
    BY <2>1, ShortIsWhole DEF PendingOK
<1>2. UnitsInv => GapsOnlyAtSwitches
  BY DEF UnitsInv, Whole, Dropped, GapsOnlyAtSwitches, Between
<1>3. QED
  BY <1>1, <1>2, BaseHolds, StepUnits, PTL DEF Spec

-----------------------------------------------------------------------------
(***************************************************************************)
(* SampleAnalysis                                                          *)
(***************************************************************************)

(* Induction, with the set of the numbers for which a statement holds. *)

LEMMA LeastMember ==
  ASSUME NEW S \in SUBSET Nat, S # {}
  PROVE  \E m \in S : \A k \in S : m <= k
<1>1. \E m \in S : \A k \in S : ~(<<k, m>> \in OpToRel(<, Nat))
  BY WFMin, NatLessThanWellFounded, Zenon
<1>2. PICK m \in S : \A k \in S : ~(<<k, m>> \in OpToRel(<, Nat))
  BY <1>1
<1>3. \A k \in S : ~(k < m)
  BY <1>2, Zenon DEF OpToRel
<1>. QED
  BY <1>3, SMT

LEMMA Induction ==
  ASSUME NEW S \in SUBSET Nat, 0 \in S, \A n \in S : n + 1 \in S
  PROVE  \A n \in Nat : n \in S
<1>. SUFFICES ASSUME Nat \ S # {} PROVE FALSE
  OBVIOUS
<1>1. PICK m \in Nat \ S : \A k \in Nat \ S : m <= k
  BY LeastMember
<1>2. m - 1 \in S
  BY <1>1
<1>. QED
  BY <1>1, <1>2

-----------------------------------------------------------------------------
(* Samples *)

SourceSample == [source : Threads, field : Fields, value : Int, time : Times]
DerivedSample == [source : {"derived"}, field : Computed, value : Int, time : Times]
Sample == SourceSample \cup DerivedSample

LEMMA SampleFacts ==
  ASSUME NEW p \in Sample
  PROVE  /\ p.value \in Int /\ p.time \in Nat /\ p.time >= 1 /\ p.time \in Times
         /\ p.field \in Curves
<1>1. p.time \in Times /\ p.value \in Int /\ p.field \in Curves
  <2>1. CASE p \in SourceSample
    BY <2>1 DEF SourceSample, Curves
  <2>2. CASE p \in DerivedSample
    BY <2>2 DEF DerivedSample, Curves
  <2>. QED
    BY <2>1, <2>2 DEF Sample
<1>2. p.time \in Nat \ {0}
  BY <1>1, TimesAssumption
<1>. QED
  BY <1>1, <1>2

LEMMA MoreSamples ==
  ASSUME NEW h \in Seq(Sample), NEW p \in Sample
  PROVE  /\ Append(h, p) \in Seq(Sample) /\ Len(h) \in Nat /\ Len(Append(h, p)) = Len(h) + 1
         /\ DOMAIN h = 1..Len(h) /\ DOMAIN Append(h, p) = 1..(Len(h) + 1)
         /\ \A i \in 1..Len(h) : Append(h, p)[i] = h[i] /\ h[i] \in Sample
         /\ Append(h, p)[Len(h) + 1] = p
  OBVIOUS

-----------------------------------------------------------------------------
(* A curve *)

Point == [time : Nat, value : Int]
Ring == [storage : [0..(Capacity - 1) -> Point], next : 0..(Capacity - 1), size : 0..Capacity,
         ordered : BOOLEAN]

\* The points given to a curve that its ring holds, slot by slot.
SlotsHold(s, a) ==
  /\ s.size = IF Len(a) < Capacity THEN Len(a) ELSE Capacity
  /\ s.size < Capacity => s.next = s.size
  /\ \A k \in 0..(Capacity - 1) :
       IF s.size < Capacity THEN k < s.size => s.storage[k] = a[k + 1]
       ELSE s.storage[k] = IF k < s.next THEN a[Len(a) - s.next + k + 1]
                           ELSE a[Len(a) - Capacity + (k - s.next) + 1]

\* The times of a list of points never go back.
TimesAscend(a) == \A i, j \in DOMAIN a : i <= j => a[i].time <= a[j].time

RingInv(s, a) == s \in Ring /\ a \in Seq(Point) /\ SlotsHold(s, a) /\ (s.ordered => TimesAscend(a))

\* A slot's number goes around at the capacity.
LEMMA Around ==
  ASSUME NEW n \in Nat
  PROVE  /\ n < Capacity => n % Capacity = n
         /\ n >= Capacity /\ n < 2 * Capacity => n % Capacity = n - Capacity
<1>1. n < Capacity => n % Capacity = n
  BY CapacityAssumption
<1>2. n >= Capacity /\ n < 2 * Capacity => n % Capacity = n - Capacity
  BY CapacityAssumption
<1>. QED
  BY <1>1, <1>2

\* The numbers of a ring.
LEMMA RingNumbers ==
  ASSUME NEW s \in Ring
  PROVE  /\ Capacity \in Nat /\ Capacity >= 1
         /\ s.next \in Nat /\ s.next < Capacity
         /\ s.size \in Nat /\ s.size <= Capacity
         /\ s.storage \in [0..(Capacity - 1) -> Point]
         /\ s.ordered \in BOOLEAN
  BY CapacityAssumption DEF Ring

\* What a slot holds, by how full the ring is and where its next point goes.
LEMMA SlotRead ==
  ASSUME NEW s \in Ring, NEW a, SlotsHold(s, a), NEW k \in 0..(Capacity - 1)
  PROVE  /\ s.size < Capacity /\ k < s.size => s.storage[k] = a[k + 1]
         /\ s.size = Capacity /\ k < s.next => s.storage[k] = a[Len(a) - s.next + k + 1]
         /\ s.size = Capacity /\ ~(k < s.next) => s.storage[k] = a[Len(a) - Capacity + (k - s.next) + 1]
<1>1. IF s.size < Capacity THEN k < s.size => s.storage[k] = a[k + 1]
      ELSE s.storage[k] = IF k < s.next THEN a[Len(a) - s.next + k + 1]
                          ELSE a[Len(a) - Capacity + (k - s.next) + 1]
  BY DEF SlotsHold
<1>2. s.size = Capacity => ~(s.size < Capacity)
  BY RingNumbers
<1>. QED
  BY <1>1, <1>2, Zenon

\* The newest point is the last that was given.
LEMMA NewestIsLast ==
  ASSUME NEW s, NEW a, RingInv(s, a), Len(a) > 0
  PROVE  NewestPoint(s) = a[Len(a)]
<1>1. s \in Ring /\ a \in Seq(Point) /\ SlotsHold(s, a)
  BY DEF RingInv
<1>2. /\ Capacity \in Nat /\ Capacity >= 1 /\ Len(a) \in Nat
      /\ s.next \in Nat /\ s.next < Capacity /\ s.size \in Nat /\ s.size <= Capacity
  BY <1>1, RingNumbers
<1>3. CASE s.next = 0
  <2>1. s.next + Capacity - 1 = Capacity - 1 /\ Capacity - 1 \in Nat /\ Capacity - 1 < Capacity
    BY <1>2, <1>3
  <2>0. (Capacity - 1) % Capacity = Capacity - 1
    BY <2>1, Around
  <2>2. (s.next + Capacity - 1) % Capacity = Capacity - 1
    BY <2>0, <2>1
  <2>3. s.size = Capacity
    BY <1>1, <1>2, <1>3 DEF SlotsHold
  <2>4. s.storage[Capacity - 1] = a[Len(a) - Capacity + (Capacity - 1 - 0) + 1]
    BY <1>1, <1>2, <1>3, <2>3 DEF SlotsHold
  <2>5. Len(a) - Capacity + (Capacity - 1 - 0) + 1 = Len(a)
    BY <1>2
  <2>. QED
    BY <2>2, <2>4, <2>5 DEF NewestPoint
<1>4. CASE s.next > 0
  <2>1. s.next + Capacity - 1 \in Nat /\ s.next + Capacity - 1 - Capacity = s.next - 1
    BY <1>2, <1>4
  <2>2. (s.next + Capacity - 1) % Capacity = s.next - 1
    BY <1>2, <1>4, <2>1, Around
  <2>3. CASE s.size < Capacity
    <3>1. s.next = s.size /\ s.size = Len(a)
      BY <1>1, <1>2, <2>3 DEF SlotsHold
    <3>2. s.next - 1 \in 0..(Capacity - 1) /\ s.next - 1 < s.size /\ s.next - 1 + 1 = Len(a)
      BY <1>2, <1>4, <3>1
    <3>3. s.storage[s.next - 1] = a[s.next - 1 + 1]
      BY <1>1, <2>3, <3>2, SlotRead
    <3>. QED
      BY <2>2, <3>2, <3>3 DEF NewestPoint
  <2>4. CASE s.size = Capacity
    <3>0. s.next - 1 \in 0..(Capacity - 1) /\ s.next - 1 < s.next
      BY <1>2, <1>4
    <3>1. s.storage[s.next - 1] = a[Len(a) - s.next + (s.next - 1) + 1]
      BY <1>1, <2>4, <3>0, SlotRead
    <3>2. Len(a) - s.next + (s.next - 1) + 1 = Len(a)
      BY <1>2
    <3>. QED
      BY <2>2, <3>1, <3>2 DEF NewestPoint
  <2>. QED
    BY <1>2, <2>3, <2>4
<1>. QED
  BY <1>2, <1>3, <1>4

\* append() gives the ring one more point and notices a time that goes back.
LEMMA RingAppend ==
  ASSUME NEW s, NEW a, RingInv(s, a), NEW p \in Point
  PROVE  RingInv(Appended(s, p), Append(a, p))
<1>. DEFINE t == Appended(s, p)
<1>. DEFINE b == Append(a, p)
<1>1. /\ s \in Ring /\ a \in Seq(Point) /\ SlotsHold(s, a) /\ (s.ordered => TimesAscend(a))
  BY DEF RingInv
<1>2. /\ b \in Seq(Point) /\ Len(b) = Len(a) + 1 /\ Len(a) \in Nat
      /\ \A i \in 1..Len(a) : b[i] = a[i]
      /\ b[Len(a) + 1] = p
  BY <1>1
<1>n. /\ Capacity \in Nat /\ Capacity >= 1 /\ Len(a) \in Nat
      /\ s.next \in Nat /\ s.next < Capacity /\ s.size \in Nat /\ s.size <= Capacity
      /\ s.storage \in [0..(Capacity - 1) -> Point]
  BY <1>1, RingNumbers
<1>3. (s.next + 1) % Capacity = IF s.next + 1 = Capacity THEN 0 ELSE s.next + 1
  <2>1. CASE s.next + 1 = Capacity
    <3>1. (s.next + 1) % Capacity = s.next + 1 - Capacity
      BY <1>n, <2>1, Around
    <3>. QED
      BY <1>n, <2>1, <3>1
  <2>2. CASE s.next + 1 < Capacity
    <3>1. (s.next + 1) % Capacity = s.next + 1
      BY <1>n, <2>2, Around
    <3>. QED
      BY <1>n, <2>2, <3>1
  <2>. QED
    BY <1>n, <2>1, <2>2
<1>4. /\ t.storage = [s.storage EXCEPT ![s.next] = p]
      /\ t.next = IF s.next + 1 = Capacity THEN 0 ELSE s.next + 1
      /\ t.size = IF s.size < Capacity THEN s.size + 1 ELSE s.size
      /\ t.ordered = (s.ordered /\ (s.size = 0 \/ p.time >= NewestPoint(s).time))
  BY <1>1, <1>3 DEF Appended, PushPoint, Ring
<1>5. t \in Ring
  <2>1. [s.storage EXCEPT ![s.next] = p] \in [0..(Capacity - 1) -> Point]
    BY <1>n
  <2>2. (s.next + 1) % Capacity \in 0..(Capacity - 1)
    BY <1>3, <1>n
  <2>3. (IF s.size < Capacity THEN s.size + 1 ELSE s.size) \in 0..Capacity
    BY <1>n
  <2>4. (s.ordered /\ (s.size = 0 \/ p.time >= NewestPoint(s).time)) \in BOOLEAN
    OBVIOUS
  <2>. QED
    BY <1>1, <2>1, <2>2, <2>3, <2>4 DEF Appended, PushPoint, Ring
<1>6. SlotsHold(t, b)
  <2>. HIDE DEF t, b
  <2>1. t.size = IF Len(b) < Capacity THEN Len(b) ELSE Capacity
    BY <1>1, <1>2, <1>4, <1>n DEF SlotsHold
  <2>2. t.size < Capacity => t.next = t.size
    BY <1>1, <1>2, <1>4, <1>n DEF SlotsHold
  <2>3. ASSUME NEW k \in 0..(Capacity - 1)
        PROVE  IF t.size < Capacity THEN k < t.size => t.storage[k] = b[k + 1]
               ELSE t.storage[k] = IF k < t.next THEN b[Len(b) - t.next + k + 1]
                                   ELSE b[Len(b) - Capacity + (k - t.next) + 1]
    <3>0. k \in Nat /\ k < Capacity
      BY <1>n
    <3>1. CASE k = s.next
      <4>1. t.storage[k] = p
        BY <1>n, <1>4, <3>1
      <4>2. CASE t.size < Capacity
        BY <1>1, <1>2, <1>4, <1>n, <3>1, <4>1, <4>2 DEF SlotsHold
      <4>3. CASE t.size >= Capacity /\ k < t.next
        <5>1. Len(b) - t.next + k + 1 = Len(a) + 1
          BY <1>2, <1>4, <1>n, <3>1, <4>3
        <5>2. ~(t.size < Capacity)
          BY <1>4, <1>n, <4>3
        <5>. QED
          BY <1>2, <4>1, <4>3, <5>1, <5>2
      <4>4. CASE t.size >= Capacity /\ k >= t.next
        <5>1. t.next = 0 /\ k = Capacity - 1
          BY <1>4, <1>n, <3>1, <4>4
        <5>2. Len(b) - Capacity + (k - t.next) + 1 = Len(a) + 1
          BY <1>2, <1>n, <5>1
        <5>3. ~(t.size < Capacity) /\ ~(k < t.next)
          BY <1>4, <1>n, <3>0, <4>4
        <5>4. t.storage[k] = b[Len(b) - Capacity + (k - t.next) + 1]
          BY <1>2, <4>1, <5>2
        <5>. QED
          BY <5>3, <5>4
      <4>5. t.size \in Nat /\ t.next \in Nat
        BY <1>4, <1>n
      <4>. QED
        BY <1>n, <3>0, <4>2, <4>3, <4>4, <4>5
    <3>2. CASE k # s.next
      <4>1. t.storage[k] = s.storage[k]
        BY <1>n, <1>4, <3>2
      <4>2. CASE s.size + 1 < Capacity
        BY <1>1, <1>2, <1>4, <1>n, <3>0, <3>2, <4>1, <4>2 DEF SlotsHold
      <4>3. CASE s.size + 1 = Capacity
        <5>1. s.next = Capacity - 1 /\ t.next = 0 /\ t.size = Capacity /\ k < s.size
          BY <1>1, <1>4, <1>n, <3>0, <3>2, <4>3 DEF SlotsHold
        <5>2. Len(a) = Capacity - 1
          BY <1>1, <1>n, <4>3 DEF SlotsHold
        <5>3. s.storage[k] = a[k + 1] /\ b[k + 1] = a[k + 1]
          BY <1>1, <1>2, <1>n, <3>0, <4>3, <5>1, <5>2 DEF SlotsHold
        <5>4. Len(b) - Capacity + (k - 0) + 1 = k + 1
          <6>1. Len(b) = Capacity /\ k \in Nat /\ Capacity \in Nat
            BY <1>2, <1>n, <3>0, <5>2
          <6>. QED
            BY <6>1
        <5>. QED
          BY <1>n, <3>0, <4>1, <5>1, <5>3, <5>4
      <4>4. CASE s.size = Capacity
        <5>1. t.size = Capacity /\ Len(a) >= Capacity
          BY <1>1, <1>4, <1>n, <4>4 DEF SlotsHold
        <5>2. s.storage[k] = IF k < s.next THEN a[Len(a) - s.next + k + 1]
                             ELSE a[Len(a) - Capacity + (k - s.next) + 1]
          BY <1>1, <4>4, <2>3, SlotRead
        <5>3. CASE k < s.next
          <6>1. Len(a) - s.next + k + 1 \in 1..Len(a)
            BY <1>n, <3>0, <5>1, <5>3
          <6>2. b[Len(a) - s.next + k + 1] = a[Len(a) - s.next + k + 1]
            BY <1>2, <6>1
          <6>3. CASE s.next + 1 = Capacity
            <7>1. t.next = 0 /\ ~(k < t.next)
              BY <1>4, <1>n, <3>0, <6>3
            <7>2. Len(b) - Capacity + (k - 0) + 1 = Len(a) - s.next + k + 1
              BY <1>2, <1>n, <3>0, <6>3
            <7>. QED
              BY <1>n, <4>1, <5>1, <5>2, <5>3, <6>2, <7>1, <7>2
          <6>4. CASE s.next + 1 # Capacity
            <7>1. t.next = s.next + 1 /\ k < t.next
              BY <1>4, <1>n, <3>0, <5>3, <6>4
            <7>2. Len(b) - (s.next + 1) + k + 1 = Len(a) - s.next + k + 1
              BY <1>2, <1>n, <3>0
            <7>. QED
              BY <1>n, <4>1, <5>1, <5>2, <5>3, <6>2, <7>1, <7>2
          <6>. QED
            BY <6>3, <6>4
        <5>4. CASE k > s.next
          <6>1. Len(a) - Capacity + (k - s.next) + 1 \in 1..Len(a)
            BY <1>n, <3>0, <5>1, <5>4
          <6>2. b[Len(a) - Capacity + (k - s.next) + 1] = a[Len(a) - Capacity + (k - s.next) + 1]
            BY <1>2, <6>1
          <6>3. t.next = s.next + 1 /\ ~(k < t.next)
            BY <1>4, <1>n, <3>0, <5>4
          <6>4. Len(b) - Capacity + (k - (s.next + 1)) + 1 = Len(a) - Capacity + (k - s.next) + 1
            BY <1>2, <1>n, <3>0
          <6>5. ~(k < s.next)
            BY <1>n, <3>0, <5>4
          <6>. QED
            BY <1>n, <4>1, <5>1, <5>2, <6>2, <6>3, <6>4, <6>5
        <5>. QED
          BY <1>n, <3>0, <3>2, <5>3, <5>4
      <4>. QED
        BY <1>n, <4>2, <4>3, <4>4
    <3>. QED
      BY <3>1, <3>2
  <2>. QED
    BY <2>1, <2>2, <2>3 DEF SlotsHold
<1>7. ASSUME t.ordered PROVE TimesAscend(b)
  <2>. HIDE DEF t, b
  <2>1. s.ordered /\ (s.size = 0 \/ p.time >= NewestPoint(s).time)
    BY <1>4, <1>7, Zenon
  <2>2. TimesAscend(a)
    BY <1>1, <2>1
  <2>3. Len(a) > 0 => p.time >= a[Len(a)].time
    <3>1. Len(a) > 0 => s.size # 0
      BY <1>1, CapacityAssumption DEF SlotsHold
    <3>. QED
      BY <2>1, <3>1, NewestIsLast
  <2>4. \A i \in 1..Len(a) : a[i].time \in Nat
    <3>1. \A i \in 1..Len(a) : a[i] \in Point
      BY <1>1
    <3>. QED
      BY <3>1 DEF Point
  <2>5. p.time \in Nat
    BY DEF Point
  <2>6. \A i \in 1..Len(a) : a[i].time <= p.time
    BY <1>1, <1>2, <2>2, <2>3, <2>4, <2>5 DEF TimesAscend
  <2>7. ASSUME NEW i \in 1..(Len(a) + 1), NEW j \in 1..(Len(a) + 1), i <= j
        PROVE  b[i].time <= b[j].time
    <3>1. CASE j <= Len(a)
      BY <1>1, <1>2, <2>2, <2>7, <3>1 DEF TimesAscend
    <3>2. CASE j = Len(a) + 1 /\ i <= Len(a)
      BY <1>1, <1>2, <2>6, <2>7, <3>2
    <3>3. CASE i = Len(a) + 1
      BY <1>1, <1>2, <2>5, <2>7, <3>3
    <3>. QED
      BY <1>2, <2>7, <3>1, <3>2, <3>3
  <2>. QED
    BY <1>2, <2>7 DEF TimesAscend
<1>. QED
  BY <1>2, <1>5, <1>6, <1>7 DEF RingInv

\* A ring that has been given nothing.
LEMMA RingEmpty == RingInv(EmptySeries, << >>)
  BY CapacityAssumption DEF RingInv, Ring, Point, SlotsHold, TimesAscend, EmptySeries

\* A snapshot is the last points that were given.
LEMMA SnapshotIsTail ==
  ASSUME NEW s, NEW a, RingInv(s, a)
  PROVE  /\ Snapshot(s) = LastPoints(a)
         /\ LastPoints(a) \in Seq(Point)
         /\ Len(LastPoints(a)) = s.size
         /\ \A i \in 1..s.size : LastPoints(a)[i] = a[Len(a) - s.size + i]
<1>. DEFINE kept == LastPoints(a)
<1>1. s \in Ring /\ a \in Seq(Point) /\ SlotsHold(s, a)
  BY DEF RingInv
<1>2. s.size \in Nat /\ Len(a) \in Nat /\ s.size <= Len(a)
  BY <1>1, CapacityAssumption DEF Ring, SlotsHold
<1>3. /\ kept = [i \in 1..s.size |-> a[Len(a) - s.size + i]]
  <2>1. kept = SubSeq(a, Len(a) - s.size + 1, Len(a))
    <3>1. Capacity \in Nat
      BY CapacityAssumption
    <3>2. (IF Len(a) > Capacity THEN Len(a) - Capacity + 1 ELSE 1) = Len(a) - s.size + 1
      <4>1. s.size = IF Len(a) < Capacity THEN Len(a) ELSE Capacity
        BY <1>1 DEF SlotsHold
      <4>2. CASE Len(a) > Capacity
        <5>1. s.size = Capacity
          BY <1>2, <3>1, <4>1, <4>2
        <5>. QED
          BY <4>2, <5>1
      <4>3. CASE ~(Len(a) > Capacity)
        <5>1. s.size = Len(a)
          BY <1>2, <3>1, <4>1, <4>3
        <5>2. Len(a) - s.size + 1 = 1
          BY <1>2, <5>1
        <5>. QED
          BY <4>3, <5>2
      <4>. QED
        BY <4>2, <4>3
    <3>. QED
      BY <3>2 DEF LastPoints
  <2>. QED
    BY <1>1, <1>2, <2>1
<1>4. /\ kept \in Seq(Point) /\ Len(kept) = s.size
      /\ \A i \in 1..s.size : kept[i] = a[Len(a) - s.size + i]
  <2>1. \A i \in 1..s.size : a[Len(a) - s.size + i] \in Point
    BY <1>1, <1>2
  <2>. HIDE DEF kept
  <2>. QED
    BY <1>2, <1>3, <2>1
<1>n. /\ Capacity \in Nat /\ Capacity >= 1 /\ s.next \in Nat /\ s.next < Capacity /\ s.size <= Capacity
  BY <1>1, RingNumbers
<1>5. ASSUME NEW i \in 1..s.size
      PROVE  s.storage[(FirstSlot(s) + i - 1) % Capacity] = a[Len(a) - s.size + i]
  <2>0. i \in Nat /\ i >= 1 /\ i <= s.size
    BY <1>2
  <2>1. CASE s.size < Capacity
    <3>1. FirstSlot(s) = 0 /\ 0 + i - 1 = i - 1 /\ i - 1 \in Nat /\ i - 1 < Capacity
      BY <1>2, <1>n, <2>0, <2>1 DEF FirstSlot
    <3>2. (FirstSlot(s) + i - 1) % Capacity = i - 1
      BY <3>1, Around
    <3>3. s.size = Len(a)
      BY <1>1, <1>2, <1>n, <2>1 DEF SlotsHold
    <3>4. s.storage[i - 1] = a[i - 1 + 1] /\ i - 1 + 1 = i /\ Len(a) - s.size + i = i
      BY <1>1, <1>2, <1>n, <2>0, <2>1, <3>1, <3>3 DEF SlotsHold
    <3>. QED
      BY <3>2, <3>4
  <2>2. CASE s.size = Capacity /\ s.next + i - 1 < Capacity
    <3>1. FirstSlot(s) = s.next /\ s.next + i - 1 \in Nat
      BY <1>2, <1>n, <2>0, <2>2 DEF FirstSlot
    <3>2. (FirstSlot(s) + i - 1) % Capacity = s.next + i - 1
      BY <2>2, <3>1, Around
    <3>3. s.storage[s.next + i - 1] = a[Len(a) - Capacity + (s.next + i - 1 - s.next) + 1]
      BY <1>1, <1>2, <1>n, <2>0, <2>2, <3>1 DEF SlotsHold
    <3>4. Len(a) - Capacity + (s.next + i - 1 - s.next) + 1 = Len(a) - s.size + i
      BY <1>2, <1>n, <2>0, <2>2
    <3>. QED
      BY <3>2, <3>3, <3>4
  <2>3. CASE s.size = Capacity /\ s.next + i - 1 >= Capacity
    <3>1. FirstSlot(s) = s.next /\ s.next + i - 1 \in Nat /\ s.next + i - 1 < 2 * Capacity
      BY <1>2, <1>n, <2>0, <2>3 DEF FirstSlot
    <3>6. (s.next + i - 1) % Capacity = s.next + i - 1 - Capacity
      <4>1. PICK m \in Nat : m = s.next + i - 1
        BY <3>1
      <4>2. m >= Capacity /\ m < 2 * Capacity
        BY <2>3, <3>1, <4>1
      <4>3. m % Capacity = m - Capacity
        BY <4>2, Around
      <4>. QED
        BY <1>n, <2>0, <4>1, <4>3
    <3>2. (FirstSlot(s) + i - 1) % Capacity = s.next + i - 1 - Capacity
      BY <3>1, <3>6
    <3>3. s.next + i - 1 - Capacity \in 0..(Capacity - 1) /\ s.next + i - 1 - Capacity < s.next
      BY <1>2, <1>n, <2>0, <2>3
    <3>4. s.storage[s.next + i - 1 - Capacity] = a[Len(a) - s.next + (s.next + i - 1 - Capacity) + 1]
      BY <1>1, <2>3, <3>3, SlotRead
    <3>5. Len(a) - s.next + (s.next + i - 1 - Capacity) + 1 = Len(a) - s.size + i
      BY <1>2, <1>n, <2>0, <2>3
    <3>. QED
      BY <3>2, <3>4, <3>5
  <2>. QED
    BY <1>2, <1>n, <2>0, <2>1, <2>2, <2>3
<1>6. Snapshot(s) = kept
  <2>. HIDE DEF kept
  <2>. QED
    BY <1>3, <1>5 DEF Snapshot
<1>. QED
  BY <1>4, <1>6
-----------------------------------------------------------------------------
(* Points in the order of their times *)

\* Of any points one is before all others and one after them.
LEMMA FirstAndLast ==
  ASSUME NEW a \in Seq(Point), NEW n \in 1..Len(a)
  PROVE  \E first, last \in 1..n :
           \A j \in 1..n : /\ j # first => Earlier(a, first, j)
                           /\ j # last => Earlier(a, j, last)
<1>1. \A i \in 1..Len(a) : a[i].time \in Nat
  <2>1. \A i \in 1..Len(a) : a[i] \in Point
    OBVIOUS
  <2>. QED
    BY <2>1 DEF Point
<1>. DEFINE Ends(m, first, last) ==
              \A j \in 1..m : /\ j # first => Earlier(a, first, j)
                              /\ j # last => Earlier(a, j, last)
<1>. DEFINE S == {m \in Nat : m >= 1 /\ m <= Len(a) => \E first, last \in 1..m : Ends(m, first, last)}
<1>2. 0 \in S
  OBVIOUS
<1>3. ASSUME NEW m \in S PROVE m + 1 \in S
  <2>. SUFFICES ASSUME m + 1 <= Len(a)
                PROVE  \E first, last \in 1..(m + 1) : Ends(m + 1, first, last)
    OBVIOUS
  <2>1. CASE m = 0
    <3>1. Ends(1, 1, 1)
      OBVIOUS
    <3>. QED
      BY <2>1, <3>1
  <2>2. CASE m >= 1
    <3>1. PICK f \in 1..m, l \in 1..m : Ends(m, f, l)
      BY <2>2
    <3>. DEFINE first == IF a[m + 1].time < a[f].time THEN m + 1 ELSE f
    <3>. DEFINE last == IF a[m + 1].time >= a[l].time THEN m + 1 ELSE l
    <3>2. first \in 1..(m + 1) /\ last \in 1..(m + 1)
      OBVIOUS
    <3>3. a[m + 1].time \in Nat /\ a[f].time \in Nat /\ a[l].time \in Nat
      <4>1. Len(a) \in Nat /\ m \in Nat /\ m + 1 <= Len(a)
        OBVIOUS
      <4>2. m + 1 \in 1..Len(a) /\ f \in 1..Len(a) /\ l \in 1..Len(a)
        BY <4>1
      <4>. QED
        BY <1>1, <4>2
    <3>4. ASSUME NEW j \in 1..(m + 1), j # first PROVE Earlier(a, first, j)
      <4>1. a[j].time \in Nat
        BY <1>1
      <4>2. CASE j = m + 1
        BY <3>3, <3>4, <4>2 DEF Earlier
      <4>3. CASE j \in 1..m
        <5>1. j # f => Earlier(a, f, j)
          BY <3>1, <4>3
        <5>. QED
          BY <3>3, <3>4, <4>1, <4>3, <5>1 DEF Earlier
      <4>. QED
        BY <4>2, <4>3
    <3>5. ASSUME NEW j \in 1..(m + 1), j # last PROVE Earlier(a, j, last)
      <4>1. a[j].time \in Nat
        BY <1>1
      <4>2. CASE j = m + 1
        BY <3>3, <3>5, <4>2 DEF Earlier
      <4>3. CASE j \in 1..m
        <5>1. j # l => Earlier(a, j, l)
          BY <3>1, <4>3
        <5>. QED
          BY <3>3, <3>5, <4>1, <4>3, <5>1 DEF Earlier
      <4>. QED
        BY <4>2, <4>3
    <3>6. Ends(m + 1, first, last)
      BY <3>4, <3>5
    <3>. HIDE DEF first, last, Ends
    <3>. QED
      BY <3>2, <3>6
  <2>. QED
    BY <2>1, <2>2
<1>4. S \in SUBSET Nat
  OBVIOUS
<1>5. n \in S
  <2>. HIDE DEF S
  <2>. QED
    BY <1>2, <1>3, <1>4, Induction
<1>. QED
  BY <1>5

\* The numbers of points that are before a point.
LEMMA BeforeIsFinite ==
  ASSUME NEW a \in Seq(Point), NEW i \in DOMAIN a
  PROVE  /\ IsFiniteSet({j \in DOMAIN a : Earlier(a, j, i)})
         /\ IsFiniteSet(DOMAIN a \ {i}) /\ Cardinality(DOMAIN a \ {i}) = Len(a) - 1
         /\ {j \in DOMAIN a : Earlier(a, j, i)} \subseteq DOMAIN a \ {i}
<1>1. DOMAIN a = 1..Len(a) /\ Len(a) \in Nat
  OBVIOUS
<1>2. IsFiniteSet(1..Len(a)) /\ Cardinality(1..Len(a)) = Len(a)
  <2>1. 1 \in Int /\ Len(a) \in Int /\ ~(1 > Len(a)) /\ Len(a) - 1 + 1 = Len(a)
    BY <1>1
  <2>. QED
    BY <2>1, FS_Interval
<1>3. IsFiniteSet(DOMAIN a \ {i}) /\ Cardinality(DOMAIN a \ {i}) = Len(a) - 1
  <2>1. i \in 1..Len(a)
    BY <1>1
  <2>. QED
    BY <1>1, <1>2, <2>1, FS_RemoveElement
<1>4. a[i].time \in Nat
  <2>1. a[i] \in Point
    OBVIOUS
  <2>. QED
    BY <2>1 DEF Point
<1>5. {j \in DOMAIN a : Earlier(a, j, i)} \subseteq DOMAIN a \ {i}
  BY <1>4 DEF Earlier
<1>6. IsFiniteSet({j \in DOMAIN a : Earlier(a, j, i)})
  BY <1>3, <1>5, FS_Subset
<1>. QED
  BY <1>3, <1>5, <1>6

\* Sorted points begin with an earliest and end with a latest one.
LEMMA SortedEnds ==
  ASSUME NEW a \in Seq(Point), a # << >>
  PROVE  /\ StablySorted(a) # << >>
         /\ \E i \in DOMAIN a : /\ Head(StablySorted(a)) = a[i]
                                /\ \A j \in DOMAIN a : a[i].time <= a[j].time
         /\ \E i \in DOMAIN a : /\ Last(StablySorted(a)) = a[i]
                                /\ \A j \in DOMAIN a : a[j].time <= a[i].time
<1>1. DOMAIN a = 1..Len(a) /\ Len(a) \in Nat /\ Len(a) >= 1
  OBVIOUS
<1>2. \A i \in DOMAIN a : a[i].time \in Nat
  <2>1. \A i \in DOMAIN a : a[i] \in Point
    OBVIOUS
  <2>. QED
    BY <2>1 DEF Point
<1>3. PICK first \in DOMAIN a, last \in DOMAIN a :
        \A j \in DOMAIN a : /\ j # first => Earlier(a, first, j)
                            /\ j # last => Earlier(a, j, last)
  <2>1. Len(a) \in 1..Len(a)
    BY <1>1
  <2>. QED
    BY <1>1, <2>1, FirstAndLast
<1>. DEFINE Pick(k) == CHOOSE i \in DOMAIN a : Place(a, i) = k - 1
<1>4. /\ StablySorted(a) = [k \in 1..Len(a) |-> a[Pick(k)]]
  BY <1>1 DEF StablySorted
<1>5. Place(a, first) = 0
  <2>1. {j \in DOMAIN a : Earlier(a, j, first)} = {}
    BY <1>2, <1>3 DEF Earlier
  <2>. QED
    BY <2>1, FS_EmptySet DEF Place
<1>6. Place(a, last) = Len(a) - 1
  <2>1. {j \in DOMAIN a : Earlier(a, j, last)} = DOMAIN a \ {last}
    BY <1>3, BeforeIsFinite
  <2>. QED
    BY <2>1, BeforeIsFinite DEF Place
<1>7. Pick(1) \in DOMAIN a /\ Place(a, Pick(1)) = 0
  BY <1>5
<1>8. Pick(Len(a)) \in DOMAIN a /\ Place(a, Pick(Len(a))) = Len(a) - 1
  BY <1>6
<1>. HIDE DEF Pick
<1>9. \A j \in DOMAIN a : a[Pick(1)].time <= a[j].time
  <2>1. {j \in DOMAIN a : Earlier(a, j, Pick(1))} = {}
    BY <1>7, BeforeIsFinite, FS_EmptySet DEF Place
  <2>2. ASSUME NEW j \in DOMAIN a PROVE ~(a[j].time < a[Pick(1)].time)
    BY <2>1 DEF Earlier
  <2>. QED
    BY <1>2, <1>7, <2>2
<1>10. \A j \in DOMAIN a : a[j].time <= a[Pick(Len(a))].time
  <2>. DEFINE before == {j \in DOMAIN a : Earlier(a, j, Pick(Len(a)))}
  <2>1. /\ IsFiniteSet(DOMAIN a \ {Pick(Len(a))}) /\ before \subseteq DOMAIN a \ {Pick(Len(a))}
        /\ Cardinality(before) = Cardinality(DOMAIN a \ {Pick(Len(a))})
    BY <1>8, BeforeIsFinite DEF Place
  <2>2. before = DOMAIN a \ {Pick(Len(a))}
    <3>. HIDE DEF before
    <3>. QED
      BY <2>1, FS_Subset
  <2>3. ASSUME NEW j \in DOMAIN a, j # Pick(Len(a)) PROVE a[j].time <= a[Pick(Len(a))].time
    BY <1>2, <1>8, <2>2, <2>3 DEF Earlier
  <2>. QED
    BY <1>2, <1>8, <2>3
<1>11. /\ StablySorted(a) # << >> /\ Head(StablySorted(a)) = a[Pick(1)]
       /\ Last(StablySorted(a)) = a[Pick(Len(a))]
  <2>. DEFINE T == {a[Pick(k)] : k \in 1..Len(a)}
  <2>1. StablySorted(a) \in [1..Len(a) -> T]
    BY <1>4
  <2>2. /\ StablySorted(a)[1] = a[Pick(1)] /\ StablySorted(a)[Len(a)] = a[Pick(Len(a))]
    BY <1>1, <1>4
  <2>. HIDE DEF T
  <2>3. StablySorted(a) \in Seq(T) /\ Len(StablySorted(a)) = Len(a)
    BY <1>1, <2>1
  <2>. QED
    BY <1>1, <2>2, <2>3 DEF Last
<1>. QED
  BY <1>7, <1>8, <1>9, <1>10, <1>11

\* Points in order stay as they are.
LEMMA SortedStays ==
  ASSUME NEW a \in Seq(Point), TimesAscend(a)
  PROVE  StablySorted(a) = a
<1>1. DOMAIN a = 1..Len(a) /\ Len(a) \in Nat
  OBVIOUS
<1>2. \A i \in DOMAIN a : a[i].time \in Nat
  <2>1. \A i \in DOMAIN a : a[i] \in Point
    OBVIOUS
  <2>. QED
    BY <2>1 DEF Point
<1>3. ASSUME NEW i \in DOMAIN a PROVE Place(a, i) = i - 1
  <2>1. {j \in DOMAIN a : Earlier(a, j, i)} = 1..(i - 1)
    <3>1. ASSUME NEW j \in DOMAIN a PROVE Earlier(a, j, i) <=> j < i
      BY <1>1, <1>2 DEF Earlier, TimesAscend
    <3>. QED
      BY <1>1, <3>1
  <2>2. Cardinality(1..(i - 1)) = i - 1
    <3>1. i - 1 \in Nat
      BY <1>1
    <3>. QED
      BY <3>1, FS_Interval
  <2>. QED
    BY <2>1, <2>2 DEF Place
<1>. DEFINE Pick(k) == CHOOSE i \in DOMAIN a : Place(a, i) = k - 1
<1>4. ASSUME NEW k \in DOMAIN a PROVE Pick(k) = k
  BY <1>1, <1>3
<1>5. StablySorted(a) = [k \in DOMAIN a |-> a[Pick(k)]]
  BY DEF StablySorted
<1>. HIDE DEF Pick
<1>6. [k \in DOMAIN a |-> a[Pick(k)]] = [k \in DOMAIN a |-> a[k]]
  BY <1>4
<1>. QED
  BY <1>1, <1>5, <1>6

\* The earliest and the latest of a set of times.
LEMMA MinMax ==
  ASSUME NEW times \in SUBSET Nat, NEW least \in times, NEW greatest \in times,
         \A t \in times : least <= t /\ t <= greatest
  PROVE  Min(times) = least /\ Max(times) = greatest
<1>1. least \in Nat /\ greatest \in Nat
  OBVIOUS
<1>2. \A x \in times : (\A y \in times : x <= y) => x = least
  BY <1>1
<1>3. \A x \in times : (\A y \in times : x >= y) => x = greatest
  BY <1>1
<1>4. Min(times) = least
  BY <1>1, <1>2 DEF Min
<1>5. Max(times) = greatest
  <2>1. \A y \in times : greatest >= y
    BY <1>1
  <2>. QED
    BY <1>3, <2>1 DEF Max
<1>. QED
  BY <1>4, <1>5

\* A curve's ring shows the last points it was given, sorted, and their span of time.
LEMMA CurveIsTail ==
  ASSUME NEW s, NEW a, RingInv(s, a)
  PROVE  /\ \A since, until : CopyRange(s, since, until)
                                = Within(StablySorted(LastPoints(a)), since, until)
         /\ LastPoints(a) # << >> =>
              Bounds(s) = <<Head(StablySorted(LastPoints(a))).time, Last(StablySorted(LastPoints(a))).time>>
<1>. DEFINE kept == LastPoints(a)
<1>1. /\ Snapshot(s) = kept /\ kept \in Seq(Point) /\ Len(kept) = s.size
      /\ \A i \in 1..s.size : kept[i] = a[Len(a) - s.size + i]
  BY SnapshotIsTail
<1>2. s \in Ring /\ a \in Seq(Point) /\ SlotsHold(s, a) /\ (s.ordered => TimesAscend(a))
  BY DEF RingInv
<1>3. /\ Capacity \in Nat /\ Capacity >= 1 /\ s.next \in Nat /\ s.next < Capacity
      /\ s.size \in Nat /\ s.size <= Capacity /\ Len(a) \in Nat /\ s.size <= Len(a)
  BY <1>2, RingNumbers DEF SlotsHold
<1>4. s.ordered => StablySorted(kept) = kept
  <2>. SUFFICES ASSUME s.ordered PROVE StablySorted(kept) = kept
    OBVIOUS
  <2>1. ASSUME NEW i \in DOMAIN kept, NEW j \in DOMAIN kept, i <= j
        PROVE  kept[i].time <= kept[j].time
    <3>1. i \in 1..s.size /\ j \in 1..s.size
      BY <1>1
    <3>2. /\ Len(a) - s.size + i \in DOMAIN a /\ Len(a) - s.size + j \in DOMAIN a
          /\ Len(a) - s.size + i <= Len(a) - s.size + j
      BY <1>2, <1>3, <2>1, <3>1
    <3>3. a[Len(a) - s.size + i].time <= a[Len(a) - s.size + j].time
      BY <1>2, <3>2 DEF TimesAscend
    <3>. QED
      BY <1>1, <3>1, <3>3
  <2>2. TimesAscend(kept)
    BY <2>1 DEF TimesAscend
  <2>. HIDE DEF kept
  <2>. QED
    BY <1>1, <2>2, SortedStays
<1>. HIDE DEF kept
<1>5. \A since, until : CopyRange(s, since, until) = Within(StablySorted(kept), since, until)
  <2>1. (IF s.ordered THEN Snapshot(s) ELSE StablySorted(Snapshot(s))) = StablySorted(kept)
    BY <1>1, <1>4
  <2>. QED
    BY <2>1, Zenon DEF CopyRange
<1>6. ASSUME kept # << >>
      PROVE  Bounds(s) = <<Head(StablySorted(kept)).time, Last(StablySorted(kept)).time>>
  <2>1. s.size >= 1 /\ Len(a) > 0
    BY <1>1, <1>3, <1>6
  <2>2. CASE s.ordered
    <3>1. Head(kept) = kept[1] /\ Last(kept) = kept[s.size]
      BY <1>1, <2>1 DEF Last
    <3>2. kept[s.size] = NewestPoint(s)
      <4>1. kept[s.size] = a[Len(a)]
        <5>1. s.size \in 1..s.size /\ Len(a) - s.size + s.size = Len(a)
          BY <1>3, <2>1
        <5>. QED
          BY <1>1, <5>1
      <4>. QED
        BY <2>1, <4>1, NewestIsLast
    <3>3. kept[1] = s.storage[FirstSlot(s)]
      <4>1. Snapshot(s)[1] = s.storage[(FirstSlot(s) + 1 - 1) % Capacity]
        BY <1>3, <2>1 DEF Snapshot
      <4>2. FirstSlot(s) \in Nat /\ FirstSlot(s) < Capacity /\ FirstSlot(s) + 1 - 1 = FirstSlot(s)
        BY <1>3 DEF FirstSlot
      <4>3. FirstSlot(s) % Capacity = FirstSlot(s)
        BY <4>2, Around
      <4>. QED
        BY <1>1, <4>1, <4>2, <4>3
    <3>. QED
      BY <1>4, <2>2, <3>1, <3>2, <3>3 DEF Bounds
  <2>3. CASE ~s.ordered
    <3>. DEFINE times == {kept[i].time : i \in 1..s.size}
    <3>1. PICK f \in DOMAIN kept : /\ Head(StablySorted(kept)) = kept[f]
                                   /\ \A j \in DOMAIN kept : kept[f].time <= kept[j].time
      BY <1>1, <1>6, SortedEnds
    <3>2. PICK l \in DOMAIN kept : /\ Last(StablySorted(kept)) = kept[l]
                                   /\ \A j \in DOMAIN kept : kept[j].time <= kept[l].time
      BY <1>1, <1>6, SortedEnds
    <3>3. DOMAIN kept = 1..s.size
      BY <1>1
    <3>4. \A i \in 1..s.size : kept[i].time \in Nat
      <4>1. \A i \in 1..s.size : kept[i] \in Point
        BY <1>1, <3>3
      <4>. QED
        BY <4>1 DEF Point
    <3>5. times \in SUBSET Nat /\ kept[f].time \in times /\ kept[l].time \in times
      BY <3>1, <3>2, <3>3, <3>4
    <3>6. \A t \in times : kept[f].time <= t /\ t <= kept[l].time
      BY <3>1, <3>2, <3>3
    <3>7. Bounds(s) = <<Min(times), Max(times)>>
      BY <1>1, <2>3 DEF Bounds
    <3>. HIDE DEF times
    <3>8. Min(times) = kept[f].time /\ Max(times) = kept[l].time
      BY <3>5, <3>6, MinMax
    <3>. QED
      BY <3>1, <3>2, <3>7, <3>8
  <2>. QED
    BY <2>2, <2>3
<1>. QED
  BY <1>5, <1>6 DEF kept
-----------------------------------------------------------------------------
(* A rule of the threshold alerts *)

\* No breach has been going on since a sample of these.
Unbroken(d, h, first) == \A j \in InTime(d, h) : first <= j => Breached(d, h[j].value)

RuleInv(d, rule, h) ==
  /\ rule \in [active : BOOLEAN, since : Nat, last : Nat]
  /\ \A j \in OfRule(d, h) : h[j].time <= rule.last
  /\ rule.last # 0 => \E i \in OfRule(d, h) : h[i].time = rule.last
  /\ rule.active => rule.since = 0
  /\ rule.active <=> ShouldBeActive(d, h)
  /\ ~rule.active /\ rule.since # 0 =>
       \E first \in InTime(d, h) :
         /\ h[first].time = rule.since /\ Unbroken(d, h, first)
         /\ \A i \in InTime(d, h) : Unbroken(d, h, i) => first <= i
  /\ ~rule.active /\ rule.since = 0 => \A i \in InTime(d, h) : ~Unbroken(d, h, i)

\* A definition of a rule.
RuleDefinition(d) ==
  d.above \in BOOLEAN /\ d.threshold \in Int /\ d.hysteresis \in Nat /\ d.duration \in Nat

Counts(d, p) == p.field = d.field /\ p.value # NaN

\* A value that ends an alert does not start one.
LEMMA RecoveryIsNoBreach ==
  ASSUME NEW d, RuleDefinition(d), NEW v \in Int
  PROVE  ~(Breached(d, v) /\ Recovered(d, v))
  BY DEF RuleDefinition, Breached, Recovered

\* A sample that is late, or that does not concern the rule, makes no difference to it.
LEMMA OfRuleStep ==
  ASSUME NEW d, NEW h \in Seq(Sample), NEW p \in Sample
  PROVE  /\ OfRule(d, h) \subseteq 1..Len(h)
         /\ OfRule(d, Append(h, p)) = OfRule(d, h) \cup (IF Counts(d, p) THEN {Len(h) + 1} ELSE {})
<1>1. \A i \in 1..Len(h) : i \in OfRule(d, Append(h, p)) <=> i \in OfRule(d, h)
  BY MoreSamples DEF OfRule
<1>2. Len(h) + 1 \in OfRule(d, Append(h, p)) <=> Counts(d, p)
  BY MoreSamples DEF OfRule, Counts
<1>3. OfRule(d, h) \subseteq 1..Len(h) /\ OfRule(d, Append(h, p)) \subseteq 1..(Len(h) + 1)
  BY MoreSamples DEF OfRule
<1>. QED
  BY <1>1, <1>2, <1>3, MoreSamples

LEMMA InTimeStep ==
  ASSUME NEW d, NEW h \in Seq(Sample), NEW p \in Sample, NEW rule, RuleInv(d, rule, h)
  PROVE  /\ InTime(d, h) \subseteq 1..Len(h)
         /\ InTime(d, Append(h, p))
              = InTime(d, h) \cup (IF Concerns(d, rule, p) THEN {Len(h) + 1} ELSE {})
<1>. DEFINE g == Append(h, p)
<1>1. /\ Len(h) \in Nat /\ \A i \in 1..Len(h) : g[i] = h[i] /\ h[i] \in Sample
      /\ g[Len(h) + 1] = p
  BY MoreSamples
<1>2. /\ OfRule(d, h) \subseteq 1..Len(h)
      /\ OfRule(d, g) = OfRule(d, h) \cup (IF Counts(d, p) THEN {Len(h) + 1} ELSE {})
  BY OfRuleStep
<1>. HIDE DEF g
<1>3. ASSUME NEW i \in 1..Len(h) PROVE i \in InTime(d, g) <=> i \in InTime(d, h)
  <2>1. i \in OfRule(d, g) <=> i \in OfRule(d, h)
    BY <1>1, <1>2
  <2>2. \A j \in 1..(Len(h) + 1) : j < i => (j \in OfRule(d, g) <=> j \in OfRule(d, h)) /\ g[j] = h[j]
    BY <1>1, <1>2
  <2>3. OfRule(d, g) \subseteq 1..(Len(h) + 1)
    BY <1>1, <1>2
  <2>4. (\A j \in OfRule(d, g) : j < i => g[j].time <= g[i].time)
          <=> (\A j \in OfRule(d, h) : j < i => h[j].time <= h[i].time)
    BY <1>1, <1>2, <2>2, <2>3
  <2>. QED
    BY <2>1, <2>4 DEF InTime
<1>4. Len(h) + 1 \in InTime(d, g) <=> Concerns(d, rule, p)
  <2>1. CASE ~Counts(d, p)
    <3>1. Len(h) + 1 \notin OfRule(d, g)
      BY <1>1, <1>2, <2>1
    <3>. QED
      BY <2>1, <3>1 DEF InTime, Concerns, Counts
  <2>2. CASE Counts(d, p)
    <3>1. Len(h) + 1 \in InTime(d, g) <=> \A j \in OfRule(d, h) : h[j].time <= p.time
      BY <1>1, <1>2, <2>2 DEF InTime
    <3>2. rule.last \in Nat /\ p.time \in Nat /\ \A j \in OfRule(d, h) : h[j].time \in Nat /\ h[j].time >= 1
      BY <1>1, <1>2, SampleFacts DEF RuleInv
    <3>3. \A j \in OfRule(d, h) : h[j].time <= rule.last
      BY DEF RuleInv
    <3>4. rule.last # 0 => \E i \in OfRule(d, h) : h[i].time = rule.last
      BY DEF RuleInv
    <3>5. (\A j \in OfRule(d, h) : h[j].time <= p.time) <=> (rule.last = 0 \/ p.time >= rule.last)
      BY <3>2, <3>3, <3>4
    <3>. QED
      BY <2>2, <3>1, <3>5 DEF Concerns, Counts
  <2>. QED
    BY <2>1, <2>2
<1>5. InTime(d, h) \subseteq 1..Len(h) /\ InTime(d, g) \subseteq 1..(Len(h) + 1)
  BY <1>1, <1>2 DEF InTime
<1>. QED
  BY <1>1, <1>3, <1>4, <1>5 DEF g

\* What a sample out of time leaves as it was.
LEMMA LateSample ==
  ASSUME NEW d, NEW h \in Seq(Sample), NEW p \in Sample, NEW rule, RuleInv(d, rule, h),
         ~Concerns(d, rule, p)
  PROVE  RuleInv(d, rule, Append(h, p))
<1>. DEFINE g == Append(h, p)
<1>1. /\ Len(h) \in Nat /\ \A i \in 1..Len(h) : g[i] = h[i] /\ h[i] \in Sample
      /\ g[Len(h) + 1] = p
  BY MoreSamples
<1>2. /\ OfRule(d, h) \subseteq 1..Len(h)
      /\ OfRule(d, g) = OfRule(d, h) \cup (IF Counts(d, p) THEN {Len(h) + 1} ELSE {})
  BY OfRuleStep
<1>3. InTime(d, g) = InTime(d, h) /\ InTime(d, h) \subseteq 1..Len(h)
  <2>1. (IF Concerns(d, rule, p) THEN {Len(h) + 1} ELSE {}) = {}
    OBVIOUS
  <2>2. /\ InTime(d, h) \subseteq 1..Len(h)
        /\ InTime(d, g) = InTime(d, h) \cup (IF Concerns(d, rule, p) THEN {Len(h) + 1} ELSE {})
    BY InTimeStep
  <2>. QED
    BY <2>1, <2>2
<1>. HIDE DEF g
<1>4. \A i \in InTime(d, h) : g[i] = h[i]
  BY <1>1, <1>3
<1>5. \A i : Unbroken(d, g, i) <=> Unbroken(d, h, i)
  BY <1>3, <1>4 DEF Unbroken
<1>6. ShouldBeActive(d, g) <=> ShouldBeActive(d, h)
  BY <1>3, <1>4 DEF ShouldBeActive, Held
<1>7. \A j \in OfRule(d, g) : g[j].time <= rule.last
  <2>1. \A j \in OfRule(d, h) : g[j].time <= rule.last
    BY <1>1, <1>2 DEF RuleInv
  <2>2. Counts(d, p) => p.time <= rule.last
    <3>1. rule.last \in Nat /\ p.time \in Nat
      BY SampleFacts DEF RuleInv
    <3>2. Counts(d, p) => ~(rule.last = 0 \/ p.time >= rule.last)
      BY DEF Concerns, Counts
    <3>. QED
      BY <3>1, <3>2
  <2>. QED
    BY <1>1, <1>2, <2>1, <2>2
<1>8. rule.last # 0 => \E i \in OfRule(d, g) : g[i].time = rule.last
  BY <1>1, <1>2 DEF RuleInv
<1>9. RuleInv(d, rule, g)
  BY <1>3, <1>4, <1>5, <1>6, <1>7, <1>8 DEF RuleInv
<1>. QED
  BY <1>9 DEF g

\* What a sample in time makes of the rule.
LEMMA TimelySample ==
  ASSUME NEW d, RuleDefinition(d), NEW h \in Seq(Sample), NEW p \in Sample, NEW rule,
         RuleInv(d, rule, h), Concerns(d, rule, p)
  PROVE  RuleInv(d, Judged(d, rule, p), Append(h, p))
<1>. DEFINE g == Append(h, p)
<1>. DEFINE n == Len(h) + 1
<1>. DEFINE new == Judged(d, rule, p)
<1>. SUFFICES RuleInv(d, new, g)
  OBVIOUS
<1>1. /\ Len(h) \in Nat /\ n \in Nat /\ \A i \in 1..Len(h) : g[i] = h[i] /\ h[i] \in Sample /\ i < n
      /\ g[n] = p
  BY MoreSamples
<1>2. /\ OfRule(d, h) \subseteq 1..Len(h) /\ OfRule(d, g) = OfRule(d, h) \cup {n}
  BY OfRuleStep DEF Concerns, Counts
<1>3. InTime(d, g) = InTime(d, h) \cup {n} /\ InTime(d, h) \subseteq 1..Len(h)
  BY InTimeStep
<1>4. p.value \in Int /\ p.time \in Nat /\ p.time >= 1
  BY SampleFacts
<1>5. rule \in [active : BOOLEAN, since : Nat, last : Nat]
  BY DEF RuleInv
<1>. HIDE DEF g, n
<1>6. \A i \in InTime(d, h) : g[i] = h[i] /\ i < n /\ h[i].time \in Nat /\ i \in Nat
  BY <1>1, <1>3, SampleFacts
<1>7. ~(Breached(d, p.value) /\ Recovered(d, p.value))
  BY <1>4, RecoveryIsNoBreach
<1>t. \A i \in InTime(d, h) : h[i].time <= p.time
  <2>1. n \in InTime(d, g) /\ InTime(d, h) \subseteq OfRule(d, g)
    BY <1>2, <1>3 DEF InTime
  <2>2. \A i \in OfRule(d, g) : i < n => g[i].time <= g[n].time
    BY <2>1 DEF InTime
  <2>. QED
    BY <1>1, <1>6, <2>1, <2>2
\* How an unbroken breach goes on.
<1>8. \A i \in InTime(d, h) : Unbroken(d, g, i) <=> Unbroken(d, h, i) /\ Breached(d, p.value)
  BY <1>1, <1>3, <1>6 DEF Unbroken
<1>9. Unbroken(d, g, n) <=> Breached(d, p.value)
  BY <1>1, <1>3, <1>6 DEF Unbroken
\* The last sample decides whether an alert is over, and no sample before it has begun one.
<1>10. ASSUME Recovered(d, p.value) PROVE ~ShouldBeActive(d, g)
  <2>. SUFFICES ASSUME NEW first \in InTime(d, g), NEW i \in InTime(d, g), Held(d, g, first, i),
                       \A j \in InTime(d, g) : i <= j => ~Recovered(d, g[j].value)
                PROVE  FALSE
    BY DEF ShouldBeActive
  <2>1. i <= n
    BY <1>1, <1>3, <1>6
  <2>2. n \in InTime(d, g)
    BY <1>3
  <2>. QED
    BY <1>1, <1>10, <2>1, <2>2
<1>11. ASSUME ~Recovered(d, p.value), ShouldBeActive(d, h) PROVE ShouldBeActive(d, g)
  <2>1. PICK first \in InTime(d, h), i \in InTime(d, h) :
          /\ Held(d, h, first, i)
          /\ \A j \in InTime(d, h) : i <= j => ~Recovered(d, h[j].value)
    BY <1>11 DEF ShouldBeActive
  <2>2. Held(d, g, first, i)
    BY <1>1, <1>3, <1>6, <2>1 DEF Held
  <2>3. \A j \in InTime(d, g) : i <= j => ~Recovered(d, g[j].value)
    BY <1>1, <1>3, <1>6, <1>11, <2>1
  <2>. QED
    BY <1>3, <2>2, <2>3 DEF ShouldBeActive
<1>12. ASSUME ShouldBeActive(d, g), ~ShouldBeActive(d, h)
       PROVE  \E first \in InTime(d, g) : Unbroken(d, g, first) /\ p.time - g[first].time >= d.duration
  <2>1. PICK first \in InTime(d, g), i \in InTime(d, g) :
          /\ Held(d, g, first, i)
          /\ \A j \in InTime(d, g) : i <= j => ~Recovered(d, g[j].value)
    BY <1>12 DEF ShouldBeActive
  <2>2. CASE i = n
    <3>1. \A j \in InTime(d, g) : j <= n
      BY <1>1, <1>3, <1>6
    <3>2. p.time - g[first].time >= d.duration
      BY <1>1, <2>1, <2>2 DEF Held
    <3>3. Unbroken(d, g, first)
      BY <2>1, <2>2, <3>1 DEF Held, Unbroken
    <3>. QED
      BY <3>2, <3>3
  <2>3. CASE i \in InTime(d, h)
    <3>1. first \in InTime(d, h)
      <4>1. first <= i
        BY <2>1 DEF Held
      <4>. QED
        BY <1>1, <1>3, <1>6, <2>3, <4>1
    <3>2. Held(d, h, first, i)
      BY <1>3, <1>6, <2>1, <2>3, <3>1 DEF Held
    <3>3. \A j \in InTime(d, h) : i <= j => ~Recovered(d, h[j].value)
      BY <1>3, <1>6, <2>1
    <3>. QED
      BY <1>12, <2>3, <3>1, <3>2, <3>3 DEF ShouldBeActive
  <2>. QED
    BY <1>3, <2>2, <2>3
<1>13. ASSUME NEW first \in InTime(d, g), Unbroken(d, g, first), p.time - g[first].time >= d.duration
       PROVE  ShouldBeActive(d, g)
  <2>1. n \in InTime(d, g) /\ first <= n /\ \A j \in InTime(d, g) : n <= j => j = n
    BY <1>1, <1>3, <1>6
  <2>2. Breached(d, p.value)
    BY <1>1, <1>13, <2>1 DEF Unbroken
  <2>3. Held(d, g, first, n)
    BY <1>1, <1>13, <2>1 DEF Held, Unbroken
  <2>4. \A j \in InTime(d, g) : n <= j => ~Recovered(d, g[j].value)
    BY <1>1, <1>7, <2>1, <2>2
  <2>. QED
    BY <2>1, <2>3, <2>4 DEF ShouldBeActive
\* The clauses about time.
<1>14. /\ new.last = p.time
       /\ \A j \in OfRule(d, g) : g[j].time <= p.time
       /\ \E i \in OfRule(d, g) : g[i].time = p.time
  <2>1. new.last = p.time
    BY <1>5 DEF Judged
  <2>2. \A j \in OfRule(d, h) : h[j].time <= rule.last /\ h[j].time \in Nat /\ h[j].time >= 1
    BY <1>1, <1>2, SampleFacts DEF RuleInv
  <2>3. rule.last \in Nat /\ (rule.last = 0 \/ p.time >= rule.last)
    BY <1>5 DEF Concerns
  <2>4. \A j \in OfRule(d, h) : g[j].time <= p.time
    BY <1>1, <1>2, <1>4, <2>2, <2>3
  <2>. QED
    BY <1>1, <1>2, <1>4, <2>1, <2>4
<1>15. ASSUME new \in [active : BOOLEAN, since : Nat, last : Nat],
              new.active => new.since = 0,
              new.active <=> ShouldBeActive(d, g),
              ~new.active /\ new.since # 0 =>
                \E first \in InTime(d, g) :
                  /\ g[first].time = new.since /\ Unbroken(d, g, first)
                  /\ \A i \in InTime(d, g) : Unbroken(d, g, i) => first <= i,
              ~new.active /\ new.since = 0 => \A i \in InTime(d, g) : ~Unbroken(d, g, i)
       PROVE  RuleInv(d, new, g)
  <2>. HIDE DEF new
  <2>. QED
    BY <1>14, <1>15 DEF RuleInv
<1>. DEFINE Rule(active, since) == [active |-> active, since |-> since, last |-> p.time]
<1>16. CASE rule.active
  <2>1. ShouldBeActive(d, h) /\ rule.since = 0
    BY <1>16 DEF RuleInv
  <2>2. CASE Recovered(d, p.value)
    <3>1. new = Rule(FALSE, 0)
      BY <1>5, <1>16, <2>2 DEF Judged
    <3>2. \A i \in InTime(d, g) : ~Unbroken(d, g, i)
      BY <1>3, <1>7, <1>8, <1>9, <2>2
    <3>3. new \in [active : BOOLEAN, since : Nat, last : Nat] /\ ~new.active /\ new.since = 0
      BY <1>4, <3>1
    <3>. HIDE DEF new
    <3>. QED
      BY <1>10, <1>15, <2>2, <3>2, <3>3
  <2>3. CASE ~Recovered(d, p.value)
    <3>1. new = Rule(TRUE, 0)
      BY <1>5, <1>16, <2>1, <2>3 DEF Judged
    <3>3. new \in [active : BOOLEAN, since : Nat, last : Nat] /\ new.active /\ new.since = 0
      BY <1>4, <3>1
    <3>. HIDE DEF new
    <3>. QED
      BY <1>11, <1>15, <2>1, <2>3, <3>3
  <2>. QED
    BY <2>2, <2>3
<1>17. CASE ~rule.active /\ ~Breached(d, p.value)
  <2>1. ~ShouldBeActive(d, h)
    BY <1>17 DEF RuleInv
  <2>2. new = Rule(FALSE, 0)
    BY <1>5, <1>17 DEF Judged
  <2>3. \A i \in InTime(d, g) : ~Unbroken(d, g, i)
    BY <1>3, <1>8, <1>9, <1>17
  <2>4. ~ShouldBeActive(d, g)
    BY <1>12, <2>1, <2>3
  <2>5. new \in [active : BOOLEAN, since : Nat, last : Nat] /\ ~new.active /\ new.since = 0
    BY <1>4, <2>2
  <2>. HIDE DEF new
  <2>. QED
    BY <1>15, <2>3, <2>4, <2>5
<1>18. CASE ~rule.active /\ Breached(d, p.value)
  <2>1. ~ShouldBeActive(d, h)
    BY <1>18 DEF RuleInv
  <2>2. CASE rule.since # 0
    <3>1. PICK first \in InTime(d, h) :
            /\ h[first].time = rule.since /\ Unbroken(d, h, first)
            /\ \A i \in InTime(d, h) : Unbroken(d, h, i) => first <= i
      BY <1>18, <2>2 DEF RuleInv
    <3>2. /\ first \in InTime(d, g) /\ g[first].time = rule.since /\ Unbroken(d, g, first)
          /\ first < n /\ p.time >= rule.since /\ rule.since \in Nat
      BY <1>3, <1>5, <1>6, <1>8, <1>18, <1>t, <3>1
    <3>3. \A i \in InTime(d, g) : Unbroken(d, g, i) => first <= i
      BY <1>1, <1>3, <1>6, <1>8, <3>1, <3>2
    <3>4. ShouldBeActive(d, g) <=> p.time - rule.since >= d.duration
      <4>1. ASSUME ShouldBeActive(d, g) PROVE p.time - rule.since >= d.duration
        <5>1. PICK i \in InTime(d, g) : Unbroken(d, g, i) /\ p.time - g[i].time >= d.duration
          BY <1>12, <2>1, <4>1
        <5>2. first <= i
          BY <3>3, <5>1
        <5>3. g[first].time <= g[i].time
          <6>1. i \in OfRule(d, g) /\ first \in OfRule(d, g)
            BY <3>2 DEF InTime
          <6>2. first = i \/ first < i
            BY <1>1, <1>3, <1>6, <3>2, <5>2
          <6>3. g[i].time \in Nat
            BY <1>1, <1>3, <1>4, <1>6
          <6>. QED
            BY <3>2, <6>1, <6>2, <6>3 DEF InTime
        <5>4. g[i].time \in Nat /\ d.duration \in Nat
          BY <1>1, <1>3, <1>4, <1>6 DEF RuleDefinition
        <5>. QED
          BY <1>4, <3>2, <5>1, <5>3, <5>4
      <4>2. ASSUME p.time - rule.since >= d.duration PROVE ShouldBeActive(d, g)
        BY <1>13, <3>2, <4>2
      <4>. QED
        BY <4>1, <4>2
    <3>5. HeldLongEnough(d, rule, p) <=> p.time - rule.since >= d.duration
      BY <1>4, <2>2, <3>2 DEF HeldLongEnough, RuleDefinition
    <3>6. CASE HeldLongEnough(d, rule, p)
      <4>1. new = Rule(TRUE, 0)
        BY <1>5, <1>18, <3>6 DEF Judged
      <4>2. new \in [active : BOOLEAN, since : Nat, last : Nat] /\ new.active /\ new.since = 0
        BY <1>4, <4>1
      <4>. HIDE DEF new
      <4>. QED
        BY <1>15, <3>4, <3>5, <3>6, <4>2
    <3>7. CASE ~HeldLongEnough(d, rule, p)
      <4>1. new = Rule(FALSE, rule.since)
        BY <1>5, <1>18, <2>2, <3>7 DEF Judged
      <4>2. new \in [active : BOOLEAN, since : Nat, last : Nat] /\ ~new.active /\ new.since = rule.since
        BY <1>4, <3>2, <4>1
      <4>. HIDE DEF new
      <4>3. ~ShouldBeActive(d, g)
        BY <3>4, <3>5, <3>7
      <4>. QED
        BY <1>15, <2>2, <3>2, <3>3, <4>2, <4>3
    <3>. QED
      BY <3>6, <3>7
  <2>3. CASE rule.since = 0
    <3>1. \A i \in InTime(d, h) : ~Unbroken(d, h, i)
      BY <1>18, <2>3 DEF RuleInv
    <3>2. \A i \in InTime(d, g) : Unbroken(d, g, i) <=> i = n
      BY <1>3, <1>6, <1>8, <1>9, <1>18, <3>1
    <3>3. ShouldBeActive(d, g) <=> d.duration = 0
      <4>1. ShouldBeActive(d, g) => p.time - p.time >= d.duration
        BY <1>1, <1>12, <2>1, <3>2
      <4>2. p.time - p.time >= d.duration => ShouldBeActive(d, g)
        BY <1>1, <1>3, <1>13, <3>2
      <4>. QED
        BY <1>4, <4>1, <4>2 DEF RuleDefinition
    <3>4. HeldLongEnough(d, rule, p) <=> d.duration = 0
      BY <2>3 DEF HeldLongEnough
    <3>5. CASE d.duration = 0
      <4>1. new = Rule(TRUE, 0)
        BY <1>5, <1>18, <3>4, <3>5 DEF Judged
      <4>2. new \in [active : BOOLEAN, since : Nat, last : Nat] /\ new.active /\ new.since = 0
        BY <1>4, <4>1
      <4>. HIDE DEF new
      <4>. QED
        BY <1>15, <3>3, <3>5, <4>2
    <3>6. CASE d.duration # 0
      <4>1. new = Rule(FALSE, p.time)
        <5>1. ~HeldLongEnough(d, rule, p) /\ p.time > 0
          BY <1>4, <3>4, <3>6
        <5>2. new = [[rule EXCEPT !.last = p.time] EXCEPT !.since = p.time]
          BY <1>18, <2>3, <5>1 DEF Judged
        <5>. HIDE DEF new
        <5>. QED
          BY <1>5, <1>18, <5>2
      <4>2. new \in [active : BOOLEAN, since : Nat, last : Nat] /\ ~new.active /\ new.since = p.time
        BY <1>4, <4>1
      <4>. HIDE DEF new
      <4>3. n \in InTime(d, g) /\ g[n].time = new.since /\ Unbroken(d, g, n)
            /\ \A i \in InTime(d, g) : Unbroken(d, g, i) => n <= i
        BY <1>1, <1>3, <3>2, <4>2
      <4>4. ~ShouldBeActive(d, g) /\ new.since # 0
        BY <1>4, <3>3, <3>6, <4>2
      <4>. QED
        BY <1>15, <4>2, <4>3, <4>4
    <3>. QED
      BY <3>5, <3>6
  <2>. QED
    BY <2>2, <2>3
<1>. QED
  BY <1>5, <1>16, <1>17, <1>18
-----------------------------------------------------------------------------
(* Batches of samples *)

\* The samples of a batch are appended one by one.
LEMMA Batch ==
  ASSUME NEW T, NEW h \in Seq(T), NEW s \in Seq(T)
  PROVE  /\ h \o SubSeq(s, 1, 0) = h
         /\ \A k \in 1..Len(s) : /\ h \o SubSeq(s, 1, k) = Append(h \o SubSeq(s, 1, k - 1), s[k])
                                 /\ h \o SubSeq(s, 1, k - 1) \in Seq(T) /\ s[k] \in T
         /\ h \o SubSeq(s, 1, Len(s)) = h \o s
<1>0. Len(s) \in Nat /\ Len(h) \in Nat
  OBVIOUS
<1>1. h \o SubSeq(s, 1, 0) = h
  <2>1. SubSeq(s, 1, 0) = << >>
    BY <1>0
  <2>. QED
    BY <2>1
<1>2. h \o SubSeq(s, 1, Len(s)) = h \o s
  OBVIOUS
<1>3. ASSUME NEW k \in 1..Len(s)
      PROVE  /\ h \o SubSeq(s, 1, k) = Append(h \o SubSeq(s, 1, k - 1), s[k])
             /\ h \o SubSeq(s, 1, k - 1) \in Seq(T) /\ s[k] \in T
  <2>1. SubSeq(s, 1, k) \in Seq(T) /\ Len(SubSeq(s, 1, k)) = k
        /\ \A i \in 1..k : SubSeq(s, 1, k)[i] = s[i]
    BY <1>0
  <2>2. SubSeq(s, 1, k - 1) \in Seq(T) /\ Len(SubSeq(s, 1, k - 1)) = k - 1
        /\ \A i \in 1..(k - 1) : SubSeq(s, 1, k - 1)[i] = s[i]
    BY <1>0
  <2>. DEFINE u == SubSeq(s, 1, k)
  <2>. DEFINE v == SubSeq(s, 1, k - 1)
  <2>3. u = Append(v, s[k])
    <3>1. Append(v, s[k]) \in Seq(T) /\ Len(Append(v, s[k])) = k
          /\ \A i \in 1..k : Append(v, s[k])[i] = s[i]
      BY <1>0, <2>2
    <3>. QED
      BY <2>1, <3>1
  <2>. HIDE DEF u, v
  <2>4. h \o Append(v, s[k]) = Append(h \o v, s[k])
    BY <1>0, <2>2 DEF v
  <2>. QED
    BY <1>0, <2>2, <2>3, <2>4 DEF u, v
<1>. QED
  BY <1>1, <1>2, <1>3

\* The alerts after each sample of a batch.
LEMMA Judging ==
  ASSUME NEW e, NEW s \in Seq(Sample)
  PROVE  /\ Judgings(e, s)[0] = [engine |-> e, raised |-> << >>]
         /\ \A k \in 1..Len(s) : Judgings(e, s)[k] = JudgeSample(Judgings(e, s)[k - 1], s[k])
<1>. DEFINE Base == [engine |-> e, raised |-> << >>]
<1>. DEFINE Run(f, n) == f = [k \in 0..n |-> IF k = 0 THEN Base ELSE JudgeSample(f[k - 1], s[k])]
<1>. DEFINE S == {n \in Nat : \E f : Run(f, n)}
<1>. HIDE DEF Base
<1>1. 0 \in S
  <2>. DEFINE f == [k \in 0..0 |-> Base]
  <2>1. f = [k \in 0..0 |-> IF k = 0 THEN Base ELSE JudgeSample(f[k - 1], s[k])]
    OBVIOUS
  <2>2. Run(f, 0)
    BY <2>1
  <2>. HIDE DEF f, Run
  <2>. QED
    BY <2>2
<1>2. ASSUME NEW m \in S PROVE m + 1 \in S
  <2>1. PICK f : Run(f, m)
    OBVIOUS
  <2>. DEFINE g == [k \in 0..(m + 1) |-> IF k <= m THEN f[k] ELSE JudgeSample(f[m], s[m + 1])]
  <2>2. \A k \in 0..m : f[k] = IF k = 0 THEN Base ELSE JudgeSample(f[k - 1], s[k])
    BY <2>1
  <2>3. ASSUME NEW k \in 0..(m + 1)
        PROVE  g[k] = IF k = 0 THEN Base ELSE JudgeSample(g[k - 1], s[k])
    <3>1. CASE k <= m
      BY <2>2, <3>1
    <3>2. CASE k = m + 1
      <4>1. k # 0 /\ k - 1 = m /\ ~(k <= m) /\ g[m] = f[m]
        BY <3>2
      <4>. QED
        BY <3>2, <4>1
    <3>. QED
      BY <3>1, <3>2
  <2>4. Run(g, m + 1)
    <3>1. g = [k \in 0..(m + 1) |-> g[k]]
      OBVIOUS
    <3>. HIDE DEF g
    <3>. QED
      BY <2>3, <3>1
  <2>. HIDE DEF g, Run
  <2>. QED
    BY <2>4
<1>3. \E f : Run(f, Len(s))
  <2>1. S \in SUBSET Nat
    OBVIOUS
  <2>2. Len(s) \in S
    <3>. HIDE DEF S
    <3>. QED
      BY <1>1, <1>2, <2>1, Induction
  <2>. QED
    BY <2>2
<1>4. Judgings(e, s) = CHOOSE f : Run(f, Len(s))
  BY DEF Judgings, Base
<1>5. Run(Judgings(e, s), Len(s))
  <2>. HIDE DEF Run
  <2>. QED
    BY <1>3, <1>4
<1>. QED
  BY <1>5 DEF Base

\* A batch keeps every rule as it should be.
AlertsInv(e, h) == \A r \in DOMAIN AlertRules : RuleInv(AlertRules[r], e.rules[r], h)

LEMMA BatchJudged ==
  ASSUME NEW e, NEW h \in Seq(Sample), AlertsInv(e, h), NEW s \in Seq(Sample)
  PROVE  AlertsInv(AlertsOf(e, s).engine, h \o s)
<1>. DEFINE After(k) == Judgings(e, s)[k].engine
<1>. DEFINE Seen(k) == h \o SubSeq(s, 1, k)
<1>. DEFINE S == {k \in Nat : k <= Len(s) => AlertsInv(After(k), Seen(k))}
<1>0. Len(s) \in Nat
  OBVIOUS
<1>1. 0 \in S
  <2>1. After(0) = e
    <3>1. Judgings(e, s)[0] = [engine |-> e, raised |-> << >>]
      BY Judging, Zenon
    <3>. QED
      BY <3>1
  <2>2. Seen(0) = h
    BY Batch
  <2>. HIDE DEF After, Seen
  <2>. QED
    BY <2>1, <2>2
<1>2. ASSUME NEW m \in S PROVE m + 1 \in S
  <2>. SUFFICES ASSUME m + 1 <= Len(s) PROVE AlertsInv(After(m + 1), Seen(m + 1))
    OBVIOUS
  <2>1. m \in Nat /\ m + 1 \in 1..Len(s) /\ m + 1 - 1 = m /\ m <= Len(s)
    BY <1>0
  <2>2. AlertsInv(After(m), Seen(m))
    BY <2>1
  <2>3. Judgings(e, s)[m + 1] = JudgeSample(Judgings(e, s)[m], s[m + 1])
    <3>1. \A k \in 1..Len(s) : Judgings(e, s)[k] = JudgeSample(Judgings(e, s)[k - 1], s[k])
      BY Judging, Zenon
    <3>. QED
      BY <2>1, <3>1
  <2>4. Seen(m + 1) = Append(Seen(m), s[m + 1]) /\ Seen(m) \in Seq(Sample) /\ s[m + 1] \in Sample
    <3>1. /\ Seen(m + 1) = Append(h \o SubSeq(s, 1, m + 1 - 1), s[m + 1])
          /\ h \o SubSeq(s, 1, m + 1 - 1) \in Seq(Sample) /\ s[m + 1] \in Sample
      BY <2>1, Batch
    <3>. QED
      BY <2>1, <3>1
  <2>. DEFINE p == s[m + 1]
  <2>. DEFINE old == After(m).rules
  <2>. DEFINE seen == Seen(m)
  <2>5. After(m + 1).rules = RulesAfter(old, p)
    <3>. DEFINE r == Judgings(e, s)[m]
    <3>1. \A q : JudgeSample(r, q).engine.rules = RulesAfter(r.engine.rules, q)
      BY DEF JudgeSample
    <3>. QED
      BY <2>3, <3>1
  <2>6. p \in Sample /\ seen \in Seq(Sample) /\ Seen(m + 1) = Append(seen, p)
        /\ \A r \in DOMAIN AlertRules : RuleInv(AlertRules[r], old[r], seen)
    BY <2>2, <2>4 DEF AlertsInv
  <2>. HIDE DEF p, old, seen, After, Seen
  <2>7. ASSUME NEW r \in DOMAIN AlertRules
        PROVE  RuleInv(AlertRules[r], After(m + 1).rules[r], Append(seen, p))
    <3>1. RuleDefinition(AlertRules[r])
      BY RulesAssumption DEF RuleDefinition
    <3>2. RuleInv(AlertRules[r], old[r], seen)
      BY <2>6
    <3>3. CASE Concerns(AlertRules[r], old[r], p)
      <4>1. After(m + 1).rules[r] = Judged(AlertRules[r], old[r], p)
        BY <2>5, <3>3 DEF RulesAfter
      <4>. QED
        BY <2>6, <3>1, <3>2, <3>3, <4>1, TimelySample
    <3>4. CASE ~Concerns(AlertRules[r], old[r], p)
      <4>1. After(m + 1).rules[r] = old[r]
        BY <2>5, <3>4 DEF RulesAfter
      <4>. QED
        BY <2>6, <3>2, <3>4, <4>1, LateSample
    <3>. QED
      BY <3>3, <3>4
  <2>. QED
    BY <2>6, <2>7 DEF AlertsInv
<1>3. Len(s) \in S
  <2>1. S \in SUBSET Nat
    OBVIOUS
  <2>. HIDE DEF S
  <2>. QED
    BY <1>0, <1>1, <1>2, <2>1, Induction
<1>4. AlertsInv(After(Len(s)), Seen(Len(s)))
  BY <1>0, <1>3
<1>5. Seen(Len(s)) = h \o s
  BY Batch
<1>. QED
  BY <1>4, <1>5 DEF AlertsOf

\* Rules that have been reset have seen nothing.
LEMMA FreshAlertsInv == AlertsInv(FreshAlerts, << >>)
<1>. SUFFICES ASSUME NEW r \in DOMAIN AlertRules
              PROVE  RuleInv(AlertRules[r], FreshRule, << >>)
  BY DEF AlertsInv, FreshAlerts
<1>1. OfRule(AlertRules[r], << >>) = {} /\ InTime(AlertRules[r], << >>) = {}
  BY DEF OfRule, InTime
<1>2. ~ShouldBeActive(AlertRules[r], << >>)
  BY <1>1 DEF ShouldBeActive
<1>. QED
  BY <1>1, <1>2 DEF RuleInv, FreshRule

-----------------------------------------------------------------------------
(* How often a sample occurs *)

LEMMA OccurrencesFinite ==
  ASSUME NEW T, NEW a \in Seq(T), NEW p
  PROVE  /\ IsFiniteSet({i \in DOMAIN a : a[i] = p}) /\ Occurrences(a, p) \in Nat
         /\ Occurrences(a, p) = 0 <=> \A i \in DOMAIN a : a[i] # p
<1>1. DOMAIN a = 1..Len(a) /\ Len(a) \in Int
  OBVIOUS
<1>2. IsFiniteSet(1..Len(a))
  BY <1>1, FS_Interval
<1>3. IsFiniteSet({i \in DOMAIN a : a[i] = p})
  BY <1>1, <1>2, FS_Subset
<1>4. Occurrences(a, p) \in Nat
  BY <1>3, FS_CardinalityType DEF Occurrences
<1>5. Occurrences(a, p) = 0 <=> {i \in DOMAIN a : a[i] = p} = {}
  BY <1>3, FS_EmptySet DEF Occurrences
<1>. QED
  BY <1>3, <1>4, <1>5

\* Two lists together have the occurrences of both.
LEMMA OccurrencesAdd ==
  ASSUME NEW T, NEW a \in Seq(T), NEW b \in Seq(T), NEW p
  PROVE  Occurrences(a \o b, p) = Occurrences(a, p) + Occurrences(b, p)
<1>. DEFINE A == {i \in DOMAIN a : a[i] = p}
<1>. DEFINE B == {i \in DOMAIN b : b[i] = p}
<1>. DEFINE C == {i \in DOMAIN (a \o b) : (a \o b)[i] = p}
<1>. DEFINE Moved == [i \in B |-> i + Len(a)]
<1>. DEFINE D == {i + Len(a) : i \in B}
<1>1. /\ DOMAIN a = 1..Len(a) /\ DOMAIN b = 1..Len(b) /\ Len(a) \in Nat /\ Len(b) \in Nat
      /\ DOMAIN (a \o b) = 1..(Len(a) + Len(b))
      /\ \A i \in 1..Len(a) : (a \o b)[i] = a[i]
      /\ \A i \in 1..Len(b) : (a \o b)[i + Len(a)] = b[i]
  OBVIOUS
<1>2. IsFiniteSet(A) /\ IsFiniteSet(B) /\ Cardinality(A) \in Nat /\ Cardinality(B) \in Nat
  BY OccurrencesFinite, FS_CardinalityType
<1>3. C = A \cup D
  <2>1. ASSUME NEW i \in C PROVE i \in A \cup D
    <3>1. CASE i \in 1..Len(a)
      BY <1>1, <3>1
    <3>2. CASE i \notin 1..Len(a)
      <4>1. i - Len(a) \in 1..Len(b) /\ i - Len(a) + Len(a) = i
        BY <1>1, <3>2
      <4>2. i - Len(a) \in B
        BY <1>1, <4>1
      <4>. QED
        BY <4>1, <4>2
    <3>. QED
      BY <3>1, <3>2
  <2>2. A \subseteq C
    BY <1>1
  <2>3. D \subseteq C
    BY <1>1
  <2>. QED
    BY <2>1, <2>2, <2>3
<1>4. A \cap D = {}
  BY <1>1
<1>5. IsFiniteSet(D) /\ Cardinality(D) = Cardinality(B)
  <2>1. Moved \in Bijection(B, D)
    <3>1. Moved \in [B -> D]
      OBVIOUS
    <3>2. \A i, j \in B : Moved[i] = Moved[j] => i = j
      BY <1>1
    <3>3. \A d \in D : \E i \in B : Moved[i] = d
      OBVIOUS
    <3>. HIDE DEF Moved, D, B
    <3>. QED
      BY <3>1, <3>2, <3>3, Fun_IsBij
  <2>. HIDE DEF Moved, B, D
  <2>. QED
    BY <1>2, <2>1, FS_Bijection DEF ExistsBijection
<1>6. Cardinality(A \cup D) = Cardinality(A) + Cardinality(D)
  <2>. HIDE DEF A, D
  <2>1. Cardinality(A \cap D) = 0
    BY <1>4, FS_EmptySet
  <2>2. Cardinality(A \cup D) = Cardinality(A) + Cardinality(D) - Cardinality(A \cap D)
    BY <1>2, <1>5, FS_Union
  <2>. QED
    BY <1>2, <1>5, <2>1, <2>2
<1>. HIDE DEF A, B, C, D
<1>7. Cardinality(C) = Cardinality(A) + Cardinality(B)
  BY <1>3, <1>5, <1>6
<1>. QED
  BY <1>7 DEF Occurrences, A, B, C

LEMMA NoOccurrences == \A p : Occurrences(<< >>, p) = 0
<1>. TAKE p
<1>1. {i \in DOMAIN << >> : << >>[i] = p} = {}
  OBVIOUS
<1>. QED
  BY <1>1, FS_EmptySet DEF Occurrences

-----------------------------------------------------------------------------
(* The engine of derived fields *)

FunctionState == [initialized : BOOLEAN, time : Nat, input : Int]
EngineOf(defs) ==
  [defs : {defs}, order : Seq(DOMAIN defs), values : [Variables(defs) -> Int],
   owner : [Variables(defs) -> Fields \cup {noField}], ambiguous : SUBSET Variables(defs),
   states : [DOMAIN defs -> FunctionState], sequence : Nat]

\* The lists of definitions a user applies are finite, as are the expressions in them.
LEMMA DefinitionFacts ==
  ASSUME NEW defs \in Configurations
  PROVE  /\ Len(defs) \in Nat /\ DOMAIN defs = 1..Len(defs)
         /\ \A i \in DOMAIN defs : /\ defs[i].name \in Computed /\ defs[i].name \in Variables(defs)
                                   /\ defs[i].inputs \subseteq Variables(defs)
                                   /\ IsFiniteSet(defs[i].inputs)
<1>1. /\ defs \in Seq([name : STRING, inputs : SUBSET STRING, function : {"sum", "derivative"}])
      /\ \A i \in DOMAIN defs : IsFiniteSet(defs[i].inputs)
  BY ConfigurationsAssumption
<1>2. Len(defs) \in Nat /\ DOMAIN defs = 1..Len(defs)
  BY <1>1
<1>3. \A i \in DOMAIN defs : defs[i].name \in Names(defs)
  BY DEF Names
<1>4. Names(defs) \subseteq Computed
  BY DEF Computed
<1>5. \A i \in DOMAIN defs : defs[i].inputs \subseteq Variables(defs)
  BY DEF Variables
<1>6. Names(defs) \subseteq Variables(defs)
  BY DEF Variables
<1>7. \A i \in DOMAIN defs : defs[i].name \in Computed /\ defs[i].name \in Variables(defs)
  BY <1>3, <1>4, <1>6
<1>. QED
  BY <1>1, <1>2, <1>5, <1>7

\* A sum over a finite set is an integer.  First, that the sums of its subsets exist.
SumOf(values, f, rest) ==
  IF rest = {} THEN 0 ELSE LET v == CHOOSE v \in rest : TRUE IN values[v] + f[rest \ {v}]

Sums(values, inputs, f) == f = [rest \in SUBSET inputs |-> SumOf(values, f, rest)]

LEMMA SumsExist ==
  ASSUME NEW inputs, IsFiniteSet(inputs), NEW values
  PROVE  \E f : Sums(values, inputs, f)
<1>. DEFINE Right(f, n) == /\ f = [rest \in SUBSET inputs |-> f[rest]]
                           /\ \A rest \in SUBSET inputs :
                                Cardinality(rest) < n => f[rest] = SumOf(values, f, rest)
<1>. DEFINE S == {n \in Nat : \E f : Right(f, n)}
<1>0. \A rest \in SUBSET inputs : IsFiniteSet(rest) /\ Cardinality(rest) \in Nat
  BY FS_Subset, FS_CardinalityType
<1>1. 0 \in S
  <2>. DEFINE f == [rest \in SUBSET inputs |-> 0]
  <2>1. f = [rest \in SUBSET inputs |-> f[rest]]
    OBVIOUS
  <2>2. Right(f, 0)
    BY <1>0, <2>1
  <2>. HIDE DEF f, Right
  <2>. QED
    BY <2>2
<1>2. ASSUME NEW m \in S PROVE m + 1 \in S
  <2>1. PICK f : Right(f, m)
    OBVIOUS
  <2>. DEFINE g == [rest \in SUBSET inputs |->
                      IF Cardinality(rest) < m THEN f[rest] ELSE SumOf(values, f, rest)]
  <2>2. g = [rest \in SUBSET inputs |-> g[rest]]
    OBVIOUS
  <2>3. \A rest \in SUBSET inputs : g[rest] = SumOf(values, f, rest)
    BY <2>1
  <2>4. ASSUME NEW rest \in SUBSET inputs, Cardinality(rest) < m + 1
        PROVE  g[rest] = SumOf(values, g, rest)
    <3>1. CASE rest = {}
      BY <2>3, <3>1 DEF SumOf
    <3>2. CASE rest # {}
      <4>. DEFINE v == CHOOSE v \in rest : TRUE
      <4>1. v \in rest
        BY <3>2
      <4>. HIDE DEF v
      <4>2. rest \ {v} \in SUBSET inputs /\ Cardinality(rest \ {v}) = Cardinality(rest) - 1
        BY <1>0, <4>1, FS_RemoveElement
      <4>3. Cardinality(rest \ {v}) < m
        BY <1>0, <2>4, <4>2
      <4>4. g[rest \ {v}] = f[rest \ {v}]
        BY <4>2, <4>3
      <4>5. SumOf(values, g, rest) = values[v] + g[rest \ {v}]
            /\ SumOf(values, f, rest) = values[v] + f[rest \ {v}]
        BY <3>2 DEF SumOf, v
      <4>. QED
        BY <2>3, <4>4, <4>5
    <3>. QED
      BY <3>1, <3>2
  <2>5. Right(g, m + 1)
    BY <2>2, <2>4
  <2>. HIDE DEF g, Right
  <2>. QED
    BY <2>5
<1>3. S \in SUBSET Nat /\ Cardinality(inputs) + 1 \in Nat
  BY FS_CardinalityType
<1>4. Cardinality(inputs) + 1 \in S
  <2>. HIDE DEF S
  <2>. QED
    BY <1>1, <1>2, <1>3, Induction
<1>5. PICK f : Right(f, Cardinality(inputs) + 1)
  BY <1>4
<1>6. \A rest \in SUBSET inputs : Cardinality(rest) < Cardinality(inputs) + 1
  <2>1. \A rest \in SUBSET inputs : Cardinality(rest) <= Cardinality(inputs)
    BY FS_Subset
  <2>. QED
    BY <1>0, <1>3, <2>1, FS_CardinalityType
<1>7. \A rest \in SUBSET inputs : f[rest] = SumOf(values, f, rest)
  BY <1>5, <1>6
<1>8. f = [rest \in SUBSET inputs |-> SumOf(values, f, rest)]
  BY <1>5, <1>7
<1>. QED
  BY <1>8 DEF Sums

LEMMA SumIsInteger ==
  ASSUME NEW inputs, IsFiniteSet(inputs), NEW values, \A v \in inputs : values[v] \in Int
  PROVE  Sum(values, inputs) \in Int
<1>1. \E f : Sums(values, inputs, f)
  BY SumsExist
<1>. DEFINE total == CHOOSE f : Sums(values, inputs, f)
<1>2. Sums(values, inputs, total)
  BY <1>1
<1>3. Sum(values, inputs) = total[inputs]
  BY DEF Sum, SumOf, Sums
<1>. HIDE DEF total
<1>4. \A rest \in SUBSET inputs : total[rest] = SumOf(values, total, rest)
  BY <1>2 DEF Sums
<1>. DEFINE S == {n \in Nat : \A rest \in SUBSET inputs : Cardinality(rest) < n => total[rest] \in Int}
<1>0. \A rest \in SUBSET inputs : IsFiniteSet(rest) /\ Cardinality(rest) \in Nat
  BY FS_Subset, FS_CardinalityType
<1>5. 0 \in S
  BY <1>0
<1>6. ASSUME NEW m \in S PROVE m + 1 \in S
  <2>. SUFFICES ASSUME NEW rest \in SUBSET inputs, Cardinality(rest) < m + 1
                PROVE  total[rest] \in Int
    OBVIOUS
  <2>1. CASE rest = {}
    <3>1. total[rest] = SumOf(values, total, rest)
      BY <1>4
    <3>2. SumOf(values, total, rest) = 0
      BY <2>1 DEF SumOf
    <3>. QED
      BY <3>1, <3>2
  <2>2. CASE rest # {}
    <3>. DEFINE v == CHOOSE v \in rest : TRUE
    <3>1. v \in rest
      BY <2>2
    <3>2. total[rest] = values[v] + total[rest \ {v}]
      BY <1>4, <2>2 DEF SumOf
    <3>. HIDE DEF v
    <3>3. rest \ {v} \in SUBSET inputs /\ Cardinality(rest \ {v}) = Cardinality(rest) - 1
      BY <1>0, <3>1, FS_RemoveElement
    <3>4. total[rest \ {v}] \in Int
      BY <1>0, <3>3
    <3>. QED
      BY <3>1, <3>2, <3>4
  <2>. QED
    BY <2>1, <2>2
<1>7. S \in SUBSET Nat /\ Cardinality(inputs) + 1 \in Nat
  BY FS_CardinalityType
<1>8. Cardinality(inputs) + 1 \in S
  <2>. HIDE DEF S
  <2>. QED
    BY <1>5, <1>6, <1>7, Induction
<1>9. Cardinality(inputs) < Cardinality(inputs) + 1
  BY <1>7, FS_CardinalityType
<1>. QED
  BY <1>3, <1>8, <1>9

\* Taking a sample keeps the engine's types.
LEMMA TakeKeeps ==
  ASSUME NEW defs \in Configurations, NEW r, r.engine \in EngineOf(defs), NEW p \in SourceSample
  PROVE  TakeSample(r, p).engine \in EngineOf(defs)
<1>. DEFINE V == Variables(defs)
<1>1. p.value \in Int /\ p.field \in Fields
  BY DEF SourceSample
<1>2. Stored(p.value) \in Int
  BY <1>1 DEF Stored, none
<1>3. \A e \in EngineOf(defs) : e.defs = defs
  BY DEF EngineOf
<1>4. ASSUME NEW e \in EngineOf(defs), NEW v \in V, NEW x \in Int
      PROVE  /\ [e EXCEPT !.values[v] = x] \in EngineOf(defs)
             /\ [e EXCEPT !.values[v] = x, !.ambiguous = @ \cup {v}] \in EngineOf(defs)
             /\ [e EXCEPT !.values[v] = x, !.owner[v] = p.field] \in EngineOf(defs)
  <2>1. /\ [e.values EXCEPT ![v] = x] \in [V -> Int] /\ e.ambiguous \cup {v} \in SUBSET V
        /\ [e.owner EXCEPT ![v] = p.field] \in [V -> Fields \cup {noField}]
    BY <1>1 DEF EngineOf
  <2>. HIDE DEF V
  <2>2. [e EXCEPT !.values[v] = x] \in EngineOf(defs)
    BY <2>1 DEF EngineOf, V
  <2>3. [e EXCEPT !.values[v] = x, !.ambiguous = @ \cup {v}] \in EngineOf(defs)
    BY <2>1 DEF EngineOf, V
  <2>4. [e EXCEPT !.values[v] = x, !.owner[v] = p.field] \in EngineOf(defs)
    BY <2>1 DEF EngineOf, V
  <2>. QED
    BY <2>2, <2>3, <2>4
<1>5. \A e \in EngineOf(defs) : Required(e) \subseteq V /\ UsedAliases(e) \subseteq V
  BY <1>3 DEF Required, UsedAliases
<1>. DEFINE r1 == OwnName(r, p)
<1>6. r1.engine \in EngineOf(defs)
  BY <1>2, <1>4, <1>5 DEF OwnName
<1>. DEFINE alias == AliasOf[p.field]
<1>. HIDE DEF r1
<1>7. CASE alias \notin UsedAliases(r1.engine)
  BY <1>6, <1>7 DEF TakeSample, r1
<1>8. CASE alias \in UsedAliases(r1.engine)
  <2>1. alias \in V /\ none \in Int
    BY <1>5, <1>6, <1>8 DEF none
  <2>. HIDE DEF V
  <2>2. TakeSample(r, p).engine =
          IF Ambiguous(r1.engine, alias, p.field)
            THEN [r1.engine EXCEPT !.values[alias] = none, !.ambiguous = @ \cup {alias}]
            ELSE [r1.engine EXCEPT !.values[alias] = Stored(p.value), !.owner[alias] = p.field]
    BY <1>8 DEF TakeSample, r1
  <2>. HIDE DEF alias
  <2>3. /\ [r1.engine EXCEPT !.values[alias] = none, !.ambiguous = @ \cup {alias}] \in EngineOf(defs)
        /\ [r1.engine EXCEPT !.values[alias] = Stored(p.value), !.owner[alias] = p.field] \in EngineOf(defs)
    BY <1>2, <1>4, <1>6, <2>1, Zenon
  <2>. QED
    BY <2>2, <2>3, Zenon
<1>. QED
  BY <1>7, <1>8

\* Evaluating a definition keeps them too, and puts out a sample of a derived field at most.
LEMMA EvaluateKeeps ==
  ASSUME NEW defs \in Configurations, NEW r, r.engine \in EngineOf(defs),
         r.output \in Seq(DerivedSample), NEW i \in DOMAIN defs, NEW time \in Times
  PROVE  /\ EvaluateNext(r, i, time).engine \in EngineOf(defs)
         /\ EvaluateNext(r, i, time).output \in Seq(DerivedSample)
<1>. DEFINE e == r.engine
<1>. DEFINE d == defs[i]
<1>. DEFINE v == Evaluated(d, e.values, e.states[i], time)
<1>1. /\ e.defs = defs /\ e.values \in [Variables(defs) -> Int] /\ e.states \in [DOMAIN defs -> FunctionState]
      /\ e.sequence \in Nat
  BY DEF EngineOf
<1>2. /\ d.name \in Computed /\ d.name \in Variables(defs) /\ d.inputs \subseteq Variables(defs)
      /\ IsFiniteSet(d.inputs)
  BY DefinitionFacts
<1>3. Sum(e.values, d.inputs) \in Int
  <2>. HIDE DEF e, d
  <2>1. \A x \in d.inputs : e.values[x] \in Int
    BY <1>1, <1>2
  <2>. QED
    BY <1>2, <2>1, SumIsInteger
<1>4. time \in Nat
  BY TimesAssumption
<1>5. v.value \in Int /\ v.state \in FunctionState
  <2>. DEFINE s == e.states[i]
  <2>. DEFINE input == Sum(e.values, d.inputs)
  <2>1. s \in FunctionState /\ s.time \in Nat /\ s.input \in Int
    BY <1>1 DEF FunctionState
  <2>2. [initialized |-> TRUE, time |-> time, input |-> input] \in FunctionState
    BY <1>3, <1>4 DEF FunctionState
  <2>3. ~(time <= s.time) => (input - s.input) \div (time - s.time) \in Int
    <3>. HIDE DEF s, input
    <3>. SUFFICES ASSUME ~(time <= s.time) PROVE (input - s.input) \div (time - s.time) \in Int
      OBVIOUS
    <3>1. PICK m \in Int : m = input - s.input
      BY <1>3, <2>1 DEF input
    <3>2. PICK n \in Nat : n = time - s.time /\ n > 0
      BY <1>4, <2>1
    <3>3. m \div n \in Int
      BY <3>2
    <3>. QED
      BY <3>1, <3>2, <3>3
  <2>4. none \in Int
    BY DEF none
  <2>. HIDE DEF s, input
  <2>5. CASE \E x \in d.inputs : e.values[x] = none
    BY <2>1, <2>4, <2>5 DEF Evaluated, s
  <2>6. CASE ~(\E x \in d.inputs : e.values[x] = none) /\ d.function = "sum"
    BY <1>3, <2>1, <2>6 DEF Evaluated, s
  <2>7. CASE ~(\E x \in d.inputs : e.values[x] = none) /\ d.function # "sum"
    BY <2>2, <2>3, <2>4, <2>7 DEF Evaluated, s, input
  <2>. QED
    BY <2>5, <2>6, <2>7
<1>. HIDE DEF v
<1>6. CASE d.inputs # {} /\ d.inputs \cap r.changed = {}
  <2>1. EvaluateNext(r, i, time) = r
    BY <1>1, <1>6 DEF EvaluateNext
  <2>. QED
    BY <2>1
<1>7. CASE ~(d.inputs # {} /\ d.inputs \cap r.changed = {})
  <2>. DEFINE point == [source |-> "derived", field |-> d.name, time |-> time, value |-> v.value]
  <2>. DEFINE count == IF v.status = "value" THEN e.sequence + 1 ELSE e.sequence
  <2>1. /\ EvaluateNext(r, i, time).engine
             = [e EXCEPT !.values[d.name] = v.value, !.states[i] = v.state, !.sequence = count]
        /\ EvaluateNext(r, i, time).output = IF v.status = "value" THEN Append(r.output, point) ELSE r.output
    BY <1>1, <1>7 DEF EvaluateNext, v
  <2>2. /\ [e.values EXCEPT ![d.name] = v.value] \in [Variables(defs) -> Int]
        /\ [e.states EXCEPT ![i] = v.state] \in [DOMAIN defs -> FunctionState]
        /\ count \in Nat
    BY <1>1, <1>2, <1>5
  <2>3. point \in DerivedSample
    BY <1>2, <1>5 DEF DerivedSample
  <2>. HIDE DEF point, count, d
  <2>4. [e EXCEPT !.values[d.name] = v.value, !.states[i] = v.state, !.sequence = count] \in EngineOf(defs)
    BY <2>2 DEF EngineOf
  <2>5. (IF v.status = "value" THEN Append(r.output, point) ELSE r.output) \in Seq(DerivedSample)
    BY <2>3
  <2>. QED
    BY <2>1, <2>4, <2>5
<1>. QED
  BY <1>6, <1>7

\* The engine after each sample it takes.
LEMMA Taking ==
  ASSUME NEW e, NEW s \in Seq(SourceSample)
  PROVE  /\ Takings(e, s)[0] = [engine |-> e, changed |-> {}]
         /\ \A k \in 1..Len(s) : Takings(e, s)[k] = TakeSample(Takings(e, s)[k - 1], s[k])
<1>. DEFINE Base == [engine |-> e, changed |-> {}]
<1>. DEFINE Run(f, n) == f = [k \in 0..n |-> IF k = 0 THEN Base ELSE TakeSample(f[k - 1], s[k])]
<1>. DEFINE S == {n \in Nat : \E f : Run(f, n)}
<1>. HIDE DEF Base
<1>1. 0 \in S
  <2>. DEFINE f == [k \in 0..0 |-> Base]
  <2>1. f = [k \in 0..0 |-> IF k = 0 THEN Base ELSE TakeSample(f[k - 1], s[k])]
    OBVIOUS
  <2>2. Run(f, 0)
    BY <2>1
  <2>. HIDE DEF f, Run
  <2>. QED
    BY <2>2
<1>2. ASSUME NEW m \in S PROVE m + 1 \in S
  <2>1. PICK f : Run(f, m)
    OBVIOUS
  <2>. DEFINE g == [k \in 0..(m + 1) |-> IF k <= m THEN f[k] ELSE TakeSample(f[m], s[m + 1])]
  <2>2. \A k \in 0..m : f[k] = IF k = 0 THEN Base ELSE TakeSample(f[k - 1], s[k])
    BY <2>1
  <2>3. ASSUME NEW k \in 0..(m + 1)
        PROVE  g[k] = IF k = 0 THEN Base ELSE TakeSample(g[k - 1], s[k])
    <3>1. CASE k <= m
      BY <2>2, <3>1
    <3>2. CASE k = m + 1
      <4>1. k # 0 /\ k - 1 = m /\ ~(k <= m) /\ g[m] = f[m]
        BY <3>2
      <4>. QED
        BY <3>2, <4>1
    <3>. QED
      BY <3>1, <3>2
  <2>4. Run(g, m + 1)
    <3>1. g = [k \in 0..(m + 1) |-> g[k]]
      OBVIOUS
    <3>. HIDE DEF g
    <3>. QED
      BY <2>3, <3>1
  <2>. HIDE DEF g, Run
  <2>. QED
    BY <2>4
<1>3. \E f : Run(f, Len(s))
  <2>1. S \in SUBSET Nat /\ Len(s) \in Nat
    OBVIOUS
  <2>2. Len(s) \in S
    <3>. HIDE DEF S
    <3>. QED
      BY <1>1, <1>2, <2>1, Induction
  <2>. QED
    BY <2>2
<1>4. Takings(e, s) = CHOOSE f : Run(f, Len(s))
  BY DEF Takings, Base
<1>5. Run(Takings(e, s), Len(s))
  <2>. HIDE DEF Run
  <2>. QED
    BY <1>3, <1>4
<1>. DEFINE run == Takings(e, s)
<1>6. \A k \in 0..Len(s) : run[k] = IF k = 0 THEN Base ELSE TakeSample(run[k - 1], s[k])
  <2>. HIDE DEF run
  <2>. QED
    BY <1>5
<1>7. Len(s) \in Nat
  OBVIOUS
<1>. HIDE DEF run
<1>8. run[0] = Base /\ \A k \in 1..Len(s) : run[k] = TakeSample(run[k - 1], s[k])
  BY <1>6, <1>7
<1>. QED
  BY <1>8 DEF Base, run

\* And after each definition it evaluates.
LEMMA Evaluating ==
  ASSUME NEW taken, NEW T, NEW order \in Seq(T), NEW time
  PROVE  /\ Evaluations(taken, order, time)[0] = [engine |-> taken.engine, changed |-> taken.changed, output |-> << >>]
         /\ \A k \in 1..Len(order) : Evaluations(taken, order, time)[k] = EvaluateNext(Evaluations(taken, order, time)[k - 1], order[k], time)
<1>. DEFINE Base == [engine |-> taken.engine, changed |-> taken.changed, output |-> << >>]
<1>. DEFINE Run(f, n) == f = [k \in 0..n |-> IF k = 0 THEN Base ELSE EvaluateNext(f[k - 1], order[k], time)]
<1>. DEFINE S == {n \in Nat : \E f : Run(f, n)}
<1>. HIDE DEF Base
<1>1. 0 \in S
  <2>. DEFINE f == [k \in 0..0 |-> Base]
  <2>1. f = [k \in 0..0 |-> IF k = 0 THEN Base ELSE EvaluateNext(f[k - 1], order[k], time)]
    OBVIOUS
  <2>2. Run(f, 0)
    BY <2>1
  <2>. HIDE DEF f, Run
  <2>. QED
    BY <2>2
<1>2. ASSUME NEW m \in S PROVE m + 1 \in S
  <2>1. PICK f : Run(f, m)
    OBVIOUS
  <2>. DEFINE g == [k \in 0..(m + 1) |-> IF k <= m THEN f[k] ELSE EvaluateNext(f[m], order[m + 1], time)]
  <2>2. \A k \in 0..m : f[k] = IF k = 0 THEN Base ELSE EvaluateNext(f[k - 1], order[k], time)
    BY <2>1
  <2>3. ASSUME NEW k \in 0..(m + 1)
        PROVE  g[k] = IF k = 0 THEN Base ELSE EvaluateNext(g[k - 1], order[k], time)
    <3>1. CASE k <= m
      BY <2>2, <3>1
    <3>2. CASE k = m + 1
      <4>1. k # 0 /\ k - 1 = m /\ ~(k <= m) /\ g[m] = f[m]
        BY <3>2
      <4>. QED
        BY <3>2, <4>1
    <3>. QED
      BY <3>1, <3>2
  <2>4. Run(g, m + 1)
    <3>1. g = [k \in 0..(m + 1) |-> g[k]]
      OBVIOUS
    <3>. HIDE DEF g
    <3>. QED
      BY <2>3, <3>1
  <2>. HIDE DEF g, Run
  <2>. QED
    BY <2>4
<1>3. \E f : Run(f, Len(order))
  <2>1. S \in SUBSET Nat /\ Len(order) \in Nat
    OBVIOUS
  <2>2. Len(order) \in S
    <3>. HIDE DEF S
    <3>. QED
      BY <1>1, <1>2, <2>1, Induction
  <2>. QED
    BY <2>2
<1>4. Evaluations(taken, order, time) = CHOOSE f : Run(f, Len(order))
  BY DEF Evaluations, Base
<1>5. Run(Evaluations(taken, order, time), Len(order))
  <2>. HIDE DEF Run
  <2>. QED
    BY <1>3, <1>4
<1>. DEFINE run == Evaluations(taken, order, time)
<1>6. \A k \in 0..Len(order) : run[k] = IF k = 0 THEN Base ELSE EvaluateNext(run[k - 1], order[k], time)
  <2>. HIDE DEF run
  <2>. QED
    BY <1>5
<1>7. Len(order) \in Nat
  OBVIOUS
<1>. HIDE DEF run
<1>8. run[0] = Base /\ \A k \in 1..Len(order) : run[k] = EvaluateNext(run[k - 1], order[k], time)
  BY <1>6, <1>7
<1>. QED
  BY <1>8 DEF Base, run

\* A batch keeps the engine's types and puts out samples of derived fields.
LEMMA DerivedKeeps ==
  ASSUME NEW defs \in Configurations, NEW e \in EngineOf(defs), NEW s \in Seq(SourceSample)
  PROVE  /\ Derived(e, s).engine \in EngineOf(defs)
         /\ Derived(e, s).output \in Seq(DerivedSample)
<1>1. e.defs = defs /\ e.order \in Seq(DOMAIN defs)
  BY DEF EngineOf
<1>2. CASE e.defs = << >> \/ s = << >>
  BY <1>2 DEF Derived
<1>3. CASE ~(e.defs = << >> \/ s = << >>)
  <2>. DEFINE order == e.order
  <2>. DEFINE time == Last(s).time
  <2>. DEFINE taken == Takings(e, s)[Len(s)]
  <2>. DEFINE Taken == {k \in Nat : k <= Len(s) => Takings(e, s)[k].engine \in EngineOf(defs)}
  <2>1. Len(s) \in Nat /\ Len(order) \in Nat /\ time \in Times /\ \A k \in 1..Len(s) : s[k] \in SourceSample
    <3>1. Len(s) \in Nat /\ Len(order) \in Nat /\ \A k \in 1..Len(s) : s[k] \in SourceSample
      BY <1>1
    <3>2. Len(s) \in 1..Len(s)
      BY <1>3
    <3>3. s[Len(s)].time \in Times
      BY <3>1, <3>2 DEF SourceSample
    <3>. QED
      BY <3>1, <3>3 DEF Last
  <2>2. Taken \in SUBSET Nat /\ 0 \in Taken
    <3>1. Takings(e, s)[0] = [engine |-> e, changed |-> {}]
      BY Taking, Zenon
    <3>2. Takings(e, s)[0].engine = e
      BY <3>1
    <3>. QED
      BY <3>2
  <2>3. ASSUME NEW m \in Taken PROVE m + 1 \in Taken
    <3>. SUFFICES ASSUME m + 1 <= Len(s) PROVE Takings(e, s)[m + 1].engine \in EngineOf(defs)
      OBVIOUS
    <3>1. m + 1 \in 1..Len(s) /\ m + 1 - 1 = m /\ m <= Len(s)
      BY <2>1
    <3>2. Takings(e, s)[m + 1] = TakeSample(Takings(e, s)[m], s[m + 1])
      <4>1. \A k \in 1..Len(s) : Takings(e, s)[k] = TakeSample(Takings(e, s)[k - 1], s[k])
        BY Taking, Zenon
      <4>. QED
        BY <3>1, <4>1
    <3>3. Takings(e, s)[m].engine \in EngineOf(defs) /\ s[m + 1] \in SourceSample
      BY <2>1, <3>1
    <3>. QED
      BY <3>2, <3>3, TakeKeeps
  <2>4. taken.engine \in EngineOf(defs)
    <3>1. Len(s) \in Taken
      <4>. HIDE DEF Taken
      <4>. QED
        BY <2>1, <2>2, <2>3, Induction
    <3>. QED
      BY <2>1, <3>1
  <2>. HIDE DEF taken, time
  <2>. DEFINE Reached(k) == Evaluations(taken, order, time)[k]
  <2>. DEFINE EvaluatedUpTo == {k \in Nat : k <= Len(order) =>
                                  Reached(k).engine \in EngineOf(defs) /\ Reached(k).output \in Seq(DerivedSample)}
  <2>5. EvaluatedUpTo \in SUBSET Nat /\ 0 \in EvaluatedUpTo
    <3>1. Reached(0) = [engine |-> taken.engine, changed |-> taken.changed, output |-> << >>]
      BY <1>1, Evaluating, Zenon
    <3>2. Reached(0).engine = taken.engine /\ Reached(0).output = << >>
      BY <3>1
    <3>3. << >> \in Seq(DerivedSample)
      OBVIOUS
    <3>. HIDE DEF Reached
    <3>4. Reached(0).engine \in EngineOf(defs) /\ Reached(0).output \in Seq(DerivedSample)
      BY <2>4, <3>2, <3>3
    <3>. QED
      BY <3>4
  <2>6. ASSUME NEW m \in EvaluatedUpTo PROVE m + 1 \in EvaluatedUpTo
    <3>. SUFFICES ASSUME m + 1 <= Len(order)
                  PROVE  Reached(m + 1).engine \in EngineOf(defs) /\ Reached(m + 1).output \in Seq(DerivedSample)
      OBVIOUS
    <3>1. m + 1 \in 1..Len(order) /\ m + 1 - 1 = m /\ m <= Len(order)
      BY <2>1
    <3>2. Reached(m + 1) = EvaluateNext(Reached(m), order[m + 1], time)
      <4>1. \A k \in 1..Len(order) : Reached(k) = EvaluateNext(Reached(k - 1), order[k], time)
        BY <1>1, Evaluating, Zenon
      <4>. HIDE DEF Reached
      <4>. QED
        BY <3>1, <4>1
    <3>. HIDE DEF Reached
    <3>3. Reached(m).engine \in EngineOf(defs) /\ Reached(m).output \in Seq(DerivedSample) /\ order[m + 1] \in DOMAIN defs
      BY <1>1, <3>1
    <3>. QED
      BY <2>1, <3>2, <3>3, EvaluateKeeps
  <2>7. Reached(Len(order)).engine \in EngineOf(defs) /\ Reached(Len(order)).output \in Seq(DerivedSample)
    <3>1. Len(order) \in EvaluatedUpTo
      <4>. HIDE DEF EvaluatedUpTo
      <4>. QED
        BY <2>1, <2>5, <2>6, Induction
    <3>. HIDE DEF Reached
    <3>. QED
      BY <2>1, <3>1
  <2>8. Derived(e, s) = Reached(Len(order))
    BY <1>3 DEF Derived, taken, time
  <2>. HIDE DEF Reached
  <2>. QED
    BY <2>7, <2>8
<1>. QED
  BY <1>2, <1>3

\* An engine begins without values, in an order of its definitions.
LEMMA FreshKeeps ==
  ASSUME NEW defs \in Configurations, NEW order \in Seq(DOMAIN defs)
  PROVE  FreshDerived(defs, order) \in EngineOf(defs)
<1>1. FreshState \in FunctionState /\ none \in Int
  BY DEF FreshState, FunctionState, none
<1>. QED
  BY <1>1 DEF FreshDerived, EngineOf

LEMMA OrderIsOrder ==
  ASSUME NEW defs \in Configurations, Acceptable(defs)
  PROVE  Order(defs) \in Seq(DOMAIN defs)
<1>1. Order(defs) \in Orders(defs)
  BY DEF Order, Acceptable
<1>2. Order(defs) \in SetToSeqs(DOMAIN defs)
  BY <1>1 DEF Orders
<1>3. Order(defs) \in [1..Cardinality(DOMAIN defs) -> DOMAIN defs]
  BY <1>2 DEF SetToSeqs
<1>4. Cardinality(DOMAIN defs) \in Nat
  BY DefinitionFacts, FS_Interval, FS_CardinalityType
<1>. QED
  BY <1>3, <1>4

-----------------------------------------------------------------------------
(* The curves after a batch *)

CurvesInv(plots, points) ==
  /\ DOMAIN plots = Curves /\ DOMAIN points = Curves
  /\ \A c \in Curves : RingInv(plots[c], points[c])

\* The curves after each sample.
LEMMA Plotting ==
  ASSUME NEW s \in Seq(Sample)
  PROVE  /\ Plottings(s)[0] = [series |-> series, appended |-> appended]
         /\ \A k \in 1..Len(s) : Plottings(s)[k] = AppendPoint(Plottings(s)[k - 1], s[k])
<1>. DEFINE Base == [series |-> series, appended |-> appended]
<1>. DEFINE Run(f, n) == f = [k \in 0..n |-> IF k = 0 THEN Base ELSE AppendPoint(f[k - 1], s[k])]
<1>. DEFINE S == {n \in Nat : \E f : Run(f, n)}
<1>. HIDE DEF Base
<1>1. 0 \in S
  <2>. DEFINE f == [k \in 0..0 |-> Base]
  <2>1. f = [k \in 0..0 |-> IF k = 0 THEN Base ELSE AppendPoint(f[k - 1], s[k])]
    OBVIOUS
  <2>2. Run(f, 0)
    BY <2>1
  <2>. HIDE DEF f, Run
  <2>. QED
    BY <2>2
<1>2. ASSUME NEW m \in S PROVE m + 1 \in S
  <2>1. PICK f : Run(f, m)
    OBVIOUS
  <2>. DEFINE g == [k \in 0..(m + 1) |-> IF k <= m THEN f[k] ELSE AppendPoint(f[m], s[m + 1])]
  <2>2. \A k \in 0..m : f[k] = IF k = 0 THEN Base ELSE AppendPoint(f[k - 1], s[k])
    BY <2>1
  <2>3. ASSUME NEW k \in 0..(m + 1)
        PROVE  g[k] = IF k = 0 THEN Base ELSE AppendPoint(g[k - 1], s[k])
    <3>1. CASE k <= m
      BY <2>2, <3>1
    <3>2. CASE k = m + 1
      <4>1. k # 0 /\ k - 1 = m /\ ~(k <= m) /\ g[m] = f[m]
        BY <3>2
      <4>. QED
        BY <3>2, <4>1
    <3>. QED
      BY <3>1, <3>2
  <2>4. Run(g, m + 1)
    <3>1. g = [k \in 0..(m + 1) |-> g[k]]
      OBVIOUS
    <3>. HIDE DEF g
    <3>. QED
      BY <2>3, <3>1
  <2>. HIDE DEF g, Run
  <2>. QED
    BY <2>4
<1>3. \E f : Run(f, Len(s))
  <2>1. S \in SUBSET Nat /\ Len(s) \in Nat
    OBVIOUS
  <2>2. Len(s) \in S
    <3>. HIDE DEF S
    <3>. QED
      BY <1>1, <1>2, <2>1, Induction
  <2>. QED
    BY <2>2
<1>4. Plottings(s) = CHOOSE f : Run(f, Len(s))
  BY DEF Plottings, Base
<1>5. Run(Plottings(s), Len(s))
  <2>. HIDE DEF Run
  <2>. QED
    BY <1>3, <1>4
<1>. DEFINE run == Plottings(s)
<1>6. \A k \in 0..Len(s) : run[k] = IF k = 0 THEN Base ELSE AppendPoint(run[k - 1], s[k])
  <2>. HIDE DEF run
  <2>. QED
    BY <1>5
<1>7. Len(s) \in Nat
  OBVIOUS
<1>. HIDE DEF run
<1>8. run[0] = Base /\ \A k \in 1..Len(s) : run[k] = AppendPoint(run[k - 1], s[k])
  BY <1>6, <1>7
<1>. QED
  BY <1>8 DEF Base, run

LEMMA BatchPlotted ==
  ASSUME CurvesInv(series, appended), NEW s \in Seq(Sample)
  PROVE  CurvesInv(Plottings(s)[Len(s)].series, Plottings(s)[Len(s)].appended)
<1>. DEFINE Reached(k) == Plottings(s)[k]
<1>. DEFINE S == {k \in Nat : k <= Len(s) => CurvesInv(Reached(k).series, Reached(k).appended)}
<1>0. Len(s) \in Nat /\ \A k \in 1..Len(s) : s[k] \in Sample
  OBVIOUS
<1>1. S \in SUBSET Nat /\ 0 \in S
  <2>1. Reached(0) = [series |-> series, appended |-> appended]
    BY Plotting, Zenon
  <2>2. Reached(0).series = series /\ Reached(0).appended = appended
    BY <2>1
  <2>. HIDE DEF Reached
  <2>. QED
    BY <2>2
<1>2. ASSUME NEW m \in S PROVE m + 1 \in S
  <2>. SUFFICES ASSUME m + 1 <= Len(s) PROVE CurvesInv(Reached(m + 1).series, Reached(m + 1).appended)
    OBVIOUS
  <2>1. m + 1 \in 1..Len(s) /\ m + 1 - 1 = m /\ m <= Len(s)
    BY <1>0
  <2>2. Reached(m + 1) = AppendPoint(Reached(m), s[m + 1])
    <3>1. \A k \in 1..Len(s) : Reached(k) = AppendPoint(Reached(k - 1), s[k])
      BY Plotting, Zenon
    <3>. HIDE DEF Reached
    <3>. QED
      BY <2>1, <3>1
  <2>. DEFINE p == s[m + 1]
  <2>3. p \in Sample
    BY <1>0, <2>1
  <2>. DEFINE r == Reached(m)
  <2>4. CurvesInv(r.series, r.appended)
    <3>. HIDE DEF Reached
    <3>. QED
      BY <2>1
  <2>. HIDE DEF p
  <2>5. p.field \in Curves /\ PointOf(p) \in Point
    BY <2>3, SampleFacts DEF PointOf, Point
  <2>6. /\ Reached(m + 1).series = [r.series EXCEPT ![p.field] = Appended(r.series[p.field], PointOf(p))]
        /\ Reached(m + 1).appended = [r.appended EXCEPT ![p.field] = Append(r.appended[p.field], PointOf(p))]
    <3>. HIDE DEF r
    <3>. QED
      BY <2>2 DEF AppendPoint, p, r
  <2>. HIDE DEF Reached
  <2>7. RingInv(Appended(r.series[p.field], PointOf(p)), Append(r.appended[p.field], PointOf(p)))
    BY <2>4, <2>5, RingAppend DEF CurvesInv
  <2>. HIDE DEF r
  <2>. QED
    BY <2>4, <2>5, <2>6, <2>7 DEF CurvesInv
<1>3. Len(s) \in S
  <2>. HIDE DEF S
  <2>. QED
    BY <1>0, <1>1, <1>2, Induction
<1>. QED
  BY <1>0, <1>3

-----------------------------------------------------------------------------
(* The invariant of the analysis *)

\* What is left of a call of the GUI.
Start1 == <<Do("start")>>
Start2 == <<Do("resetAlerts"), Do("start")>>
Start3 == <<Do("resetDerived"), Do("resetAlerts"), Do("start")>>
Start4 == <<Do("flush"), Do("resetDerived"), Do("resetAlerts"), Do("start")>>
Start5 == <<Do("lock"), Do("flush"), Do("resetDerived"), Do("resetAlerts"), Do("start")>>
Stop1 == <<Do("stop")>>
Stop2 == <<Do("flush"), Do("stop")>>
Stop3 == <<Do("lock"), Do("flush"), Do("stop")>>
Reset2 == <<Do("resetAlerts"), Clear(Curves)>>
Reset3 == <<Do("resetDerived"), Do("resetAlerts"), Clear(Curves)>>
Clearing == [step : {"clearCurves"}, curves : SUBSET Curves]

GuiInv ==
  IF recording THEN gui \in {<< >>, Stop1, Stop2, Stop3}
  ELSE gui \in {Start1, Start2, Start3, Start4, Start5, Reset2, Reset3} \cup Seq(Clearing)

Stations == {"idle", "lock", "append", "judge", "derive", "appendDerived", "judgeDerived"}
ThreadInv(t) ==
  /\ thread[t].at = "idle" => thread[t] = AtRest
  /\ thread[t].at \in {"lock", "append", "judge", "derive"} => thread[t].samples \in Seq(SourceSample)
  /\ thread[t].at \in {"appendDerived", "judgeDerived"} => thread[t].samples \in Seq(DerivedSample)

\* The GUI has the lock, and has waited for the pipeline under it.
Locked == {Start1, Start2, Start3, Start4, Stop1, Stop2}
Flushed == {Start1, Start2, Start3, Stop1}
LockInv ==
  /\ holder = "agent" <=> thread["agent"].at \notin {"idle", "lock"}
  /\ holder = "gui" <=> gui \in Locked
  /\ gui \in Flushed => thread["worker"] = AtRest

Underway(t, places, p) == IF thread[t].at \in places THEN Occurrences(thread[t].samples, p) ELSE 0
InAll(places, p) == Underway("worker", places, p) + Underway("agent", places, p)
JudgedInv(p) == Occurrences(recorded, p) = Occurrences(judged, p) + InAll({"judge", "judgeDerived"}, p)
FedInv(p) ==
  p.source # "derived" => Occurrences(recorded, p) = Occurrences(fed, p) + InAll({"judge", "derive"}, p)
RecordInv ==
  /\ recording /\ thread["agent"].at \in {"judge", "derive", "appendDerived", "judgeDerived"} => agentDeclared
  /\ recording => \A p \in Sample : JudgedInv(p) /\ FedInv(p)
  /\ gui = Start1 => judged = << >>
  /\ gui \in {Start1, Start2} => fed = << >>

ThreadsInv ==
  /\ thread \in [Threads -> [at : Stations, samples : Seq(Sample)]]
  /\ \A t \in Threads : ThreadInv(t)
SampleTypes == judged \in Seq(Sample) /\ fed \in Seq(SourceSample) /\ recorded \in Seq(Sample)
FlagTypes == recording \in BOOLEAN /\ agentDeclared \in BOOLEAN /\ holder \in {"nobody", "agent", "gui"}
DerivedInv == derived.defs \in Configurations /\ derived \in EngineOf(derived.defs)

AnalysisInv ==
  /\ ThreadsInv /\ SampleTypes /\ FlagTypes
  /\ GuiInv /\ LockInv /\ RecordInv
  /\ DerivedInv /\ AlertsInv(alerts, judged) /\ CurvesInv(series, appended)

\* The calls of the GUI differ in their lengths, first and last steps.
LEMMA CallFacts ==
  /\ Len(Start1) = 1 /\ Start1[1].step = "start"
  /\ Len(Start2) = 2 /\ Start2[1].step = "resetAlerts" /\ Start2[2].step = "start"
  /\ Len(Start3) = 3 /\ Start3[1].step = "resetDerived" /\ Start3[3].step = "start"
  /\ Len(Start4) = 4 /\ Start4[1].step = "flush" /\ Start4[4].step = "start"
  /\ Len(Start5) = 5 /\ Start5[1].step = "lock" /\ Start5[5].step = "start"
  /\ Len(Stop1) = 1 /\ Stop1[1].step = "stop"
  /\ Len(Stop2) = 2 /\ Stop2[1].step = "flush" /\ Stop2[2].step = "stop"
  /\ Len(Stop3) = 3 /\ Stop3[1].step = "lock" /\ Stop3[3].step = "stop"
  /\ Len(Reset2) = 2 /\ Reset2[1].step = "resetAlerts" /\ Reset2[2].step = "clearCurves"
  /\ Len(Reset3) = 3 /\ Reset3[1].step = "resetDerived" /\ Reset3[3].step = "clearCurves"
  /\ Len(<< >>) = 0
  /\ \A x \in Seq(Clearing) : Len(x) \in Nat /\ \A i \in 1..Len(x) : x[i].step = "clearCurves"
<1>1. /\ Len(Start1) = 1 /\ Start1[1].step = "start"
      /\ Len(Start2) = 2 /\ Start2[1].step = "resetAlerts" /\ Start2[2].step = "start"
  BY DEF Start1, Start2, Do
<1>2. /\ Len(Start3) = 3 /\ Start3[1].step = "resetDerived" /\ Start3[3].step = "start"
      /\ Len(Start4) = 4 /\ Start4[1].step = "flush" /\ Start4[4].step = "start"
  BY DEF Start3, Start4, Do
<1>3. Len(Start5) = 5 /\ Start5[1].step = "lock" /\ Start5[5].step = "start"
  BY DEF Start5, Do
<1>4. /\ Len(Stop1) = 1 /\ Stop1[1].step = "stop"
      /\ Len(Stop2) = 2 /\ Stop2[1].step = "flush" /\ Stop2[2].step = "stop"
      /\ Len(Stop3) = 3 /\ Stop3[1].step = "lock" /\ Stop3[3].step = "stop"
  BY DEF Stop1, Stop2, Stop3, Do
<1>5. /\ Len(Reset2) = 2 /\ Reset2[1].step = "resetAlerts" /\ Reset2[2].step = "clearCurves"
      /\ Len(Reset3) = 3 /\ Reset3[1].step = "resetDerived" /\ Reset3[3].step = "clearCurves"
  BY DEF Reset2, Reset3, Do, Clear
<1>6. \A x \in Seq(Clearing) : Len(x) \in Nat /\ \A i \in 1..Len(x) : x[i].step = "clearCurves"
  <2>1. \A x \in Seq(Clearing) : Len(x) \in Nat /\ \A i \in 1..Len(x) : x[i] \in Clearing
    OBVIOUS
  <2>2. \A c \in Clearing : c.step = "clearCurves"
    BY DEF Clearing
  <2>. QED
    BY <2>1, <2>2
<1>. QED
  BY <1>1, <1>2, <1>3, <1>4, <1>5, <1>6

LEMMA CallTails ==
  /\ Tail(Start5) = Start4 /\ Tail(Start4) = Start3 /\ Tail(Start3) = Start2
  /\ Tail(Start2) = Start1 /\ Tail(Start1) = << >>
  /\ Tail(Stop3) = Stop2 /\ Tail(Stop2) = Stop1 /\ Tail(Stop1) = << >>
  /\ Tail(Reset3) = Reset2 /\ Tail(Reset2) \in Seq(Clearing)
<1>1. Tail(Start5) = Start4 /\ Tail(Start4) = Start3
  BY DEF Start3, Start4, Start5
<1>2. Tail(Start3) = Start2 /\ Tail(Start2) = Start1 /\ Tail(Start1) = << >>
  BY DEF Start1, Start2, Start3
<1>3. Tail(Stop3) = Stop2 /\ Tail(Stop2) = Stop1 /\ Tail(Stop1) = << >>
  BY DEF Stop1, Stop2, Stop3
<1>4. Tail(Reset3) = Reset2
  BY DEF Reset2, Reset3
<1>5. Tail(Reset2) \in Seq(Clearing)
  <2>1. Clear(Curves) \in Clearing
    BY DEF Clear, Clearing
  <2>2. Tail(Reset2) = <<Clear(Curves)>>
    BY DEF Reset2
  <2>3. \A x \in Clearing : <<x>> \in Seq(Clearing)
    OBVIOUS
  <2>. QED
    BY <2>1, <2>2, <2>3
<1>. QED
  BY <1>1, <1>2, <1>3, <1>4, <1>5

\* Where each leaves the lock and the pipeline.
LEMMA CallPlaces ==
  /\ Start4 \in Locked \ Flushed /\ Stop2 \in Locked \ Flushed
  /\ Start3 \in Flushed \ {Start1, Start2} /\ Start2 \in Flushed \ {Start1} /\ Start1 \in Flushed
  /\ Stop1 \in Flushed \ {Start1, Start2} /\ Flushed \subseteq Locked
  /\ ({<< >>, Stop3, Start5, Reset2, Reset3} \cup Seq(Clearing)) \cap Locked = {}
<1>1. Start4 \notin Flushed /\ Stop2 \notin Flushed
  BY CallFacts DEF Flushed
<1>2. Start3 \notin {Start1, Start2} /\ Start2 \notin {Start1} /\ Stop1 \notin {Start1, Start2}
  BY CallFacts
<1>3. {<< >>, Stop3, Start5, Reset2, Reset3} \cap Locked = {}
  BY CallFacts DEF Locked
<1>4. Seq(Clearing) \cap Locked = {}
  <2>1. \A x \in Locked : Len(x) \in 1..4 /\ x[1].step # "clearCurves"
    BY CallFacts DEF Locked
  <2>2. \A x \in Seq(Clearing) : Len(x) \in 1..4 => x[1].step = "clearCurves"
    BY CallFacts
  <2>. QED
    BY <2>1, <2>2
<1>. QED
  BY <1>1, <1>2, <1>3, <1>4 DEF Locked, Flushed

\* What the next step of the GUI is tells which call it belongs to.
LEMMA GuiAt ==
  ASSUME GuiInv, recording \in BOOLEAN, gui # << >>
  PROVE  /\ Head(gui).step = "lock" =>
              (recording /\ gui = Stop3) \/ (~recording /\ gui = Start5)
         /\ Head(gui).step = "flush" =>
              (recording /\ gui = Stop2) \/ (~recording /\ gui = Start4)
         /\ Head(gui).step = "resetDerived" => ~recording /\ gui \in {Start3, Reset3}
         /\ Head(gui).step = "resetAlerts" => ~recording /\ gui \in {Start2, Reset2}
         /\ Head(gui).step = "clearCurves" => ~recording /\ gui \in Seq(Clearing) /\ Tail(gui) \in Seq(Clearing)
         /\ Head(gui).step = "start" => ~recording /\ gui = Start1
         /\ Head(gui).step = "stop" => recording /\ gui = Stop1
<1>1. /\ Head(Start1).step = "start" /\ Head(Start2).step = "resetAlerts"
      /\ Head(Start3).step = "resetDerived" /\ Head(Start4).step = "flush" /\ Head(Start5).step = "lock"
      /\ Head(Stop1).step = "stop" /\ Head(Stop2).step = "flush" /\ Head(Stop3).step = "lock"
      /\ Head(Reset2).step = "resetAlerts" /\ Head(Reset3).step = "resetDerived"
  BY DEF Start1, Start2, Start3, Start4, Start5, Stop1, Stop2, Stop3, Reset2, Reset3, Do, Clear
<1>2. ASSUME gui \in Seq(Clearing) PROVE Head(gui).step = "clearCurves" /\ Tail(gui) \in Seq(Clearing)
  <2>1. Head(gui) \in Clearing /\ Tail(gui) \in Seq(Clearing)
    BY <1>2
  <2>. QED
    BY <2>1 DEF Clearing
<1>3. CASE recording
  <2>1. gui \in {Stop1, Stop2, Stop3}
    BY <1>3 DEF GuiInv
  <2>. QED
    BY <1>1, <1>3, <2>1
<1>4. CASE ~recording
  <2>1. gui \in {Start1, Start2, Start3, Start4, Start5, Reset2, Reset3} \/ gui \in Seq(Clearing)
    BY <1>4 DEF GuiInv
  <2>2. CASE gui \in Seq(Clearing)
    BY <1>2, <1>4, <2>2
  <2>3. CASE gui \in {Start1, Start2, Start3, Start4, Start5, Reset2, Reset3}
    BY <1>1, <1>4, <2>3
  <2>. QED
    BY <2>1, <2>2, <2>3
<1>. QED
  BY <1>3, <1>4

-----------------------------------------------------------------------------
(* A producer's step *)

\* A producer at work keeps the GUI from what it does behind its barrier.
LEMMA Working ==
  ASSUME LockInv, NEW t \in Threads, thread[t].at \notin {"idle", "lock"}
  PROVE  gui \notin Flushed /\ (t = "agent" => gui \notin Locked)
<1>1. CASE t = "agent"
  <2>1. holder = "agent"
    BY <1>1 DEF LockInv
  <2>2. gui \notin Locked
    BY <2>1 DEF LockInv
  <2>. QED
    BY <2>2, CallPlaces
<1>2. CASE t = "worker"
  BY <1>2 DEF LockInv, AtRest
<1>. QED
  BY <1>1, <1>2 DEF Threads

LEMMA Continues ==
  ASSUME ThreadsInv, GuiInv, LockInv, FlagTypes, NEW t \in Threads, thread[t].at \notin {"idle", "lock"},
         NEW at, NEW samples, at \in {"append", "judge", "derive", "appendDerived", "judgeDerived"},
         at \in {"append", "judge", "derive"} => samples \in Seq(SourceSample),
         at \in {"appendDerived", "judgeDerived"} => samples \in Seq(DerivedSample),
         Goto(t, at, samples), UNCHANGED <<gui, holder, sessionVars>>
  PROVE  /\ ThreadsInv' /\ GuiInv' /\ LockInv' /\ FlagTypes' /\ gui' \notin Flushed
         /\ thread'[t].at = at /\ thread'[t].samples = samples
         /\ \A u \in Threads \ {t} : thread'[u] = thread[u]
<1>1. UNCHANGED <<gui, holder, recording, agentDeclared>>
  BY DEF sessionVars
<1>2. /\ thread'[t] = [at |-> at, samples |-> samples] /\ DOMAIN thread' = Threads
      /\ \A u \in Threads \ {t} : thread'[u] = thread[u]
  BY DEF Goto, ThreadsInv
<1>3. ThreadsInv'
  <2>1. samples \in Seq(Sample)
    BY DEF Sample
  <2>2. [at |-> at, samples |-> samples] \in [at : Stations, samples : Seq(Sample)]
    BY <2>1 DEF Stations
  <2>3. thread' \in [Threads -> [at : Stations, samples : Seq(Sample)]]
    BY <2>2 DEF Goto, ThreadsInv
  <2>4. ThreadInv(t)'
    BY <1>2 DEF ThreadInv
  <2>5. \A u \in Threads \ {t} : ThreadInv(u)'
    BY <1>2 DEF ThreadInv, ThreadsInv
  <2>. QED
    BY <2>3, <2>4, <2>5 DEF ThreadsInv
<1>4. GuiInv' /\ FlagTypes'
  BY <1>1 DEF GuiInv, FlagTypes
<1>5. gui \notin Flushed
  BY Working
<1>6. LockInv'
  <2>1. thread'["agent"].at \notin {"idle", "lock"} <=> thread["agent"].at \notin {"idle", "lock"}
    BY <1>2 DEF Threads
  <2>. QED
    BY <1>1, <1>5, <2>1 DEF LockInv
<1>. QED
  BY <1>1, <1>2, <1>3, <1>4, <1>5, <1>6

LEMMA Returns ==
  ASSUME ThreadsInv, GuiInv, LockInv, FlagTypes, NEW t \in Threads, thread[t].at \notin {"idle", "lock"},
         Return(t), UNCHANGED <<gui, sessionVars>>
  PROVE  /\ ThreadsInv' /\ GuiInv' /\ LockInv' /\ FlagTypes' /\ gui' \notin Flushed
         /\ thread'[t].at = "idle"
         /\ \A u \in Threads \ {t} : thread'[u] = thread[u]
<1>1. UNCHANGED <<gui, recording, agentDeclared>>
  BY DEF sessionVars
<1>2. /\ thread'[t] = AtRest /\ DOMAIN thread' = Threads
      /\ \A u \in Threads \ {t} : thread'[u] = thread[u]
  BY DEF Return, ThreadsInv
<1>3. ThreadsInv'
  <2>1. AtRest \in [at : Stations, samples : Seq(Sample)]
    BY DEF Stations, AtRest
  <2>2. thread' \in [Threads -> [at : Stations, samples : Seq(Sample)]]
    BY <2>1 DEF Return, ThreadsInv
  <2>3. ThreadInv(t)'
    BY <1>2 DEF ThreadInv, AtRest
  <2>4. \A u \in Threads \ {t} : ThreadInv(u)'
    BY <1>2 DEF ThreadInv, ThreadsInv
  <2>. QED
    BY <2>2, <2>3, <2>4 DEF ThreadsInv
<1>4. GuiInv' /\ FlagTypes'
  BY <1>1 DEF GuiInv, FlagTypes, Return
<1>5. gui \notin Flushed /\ (t = "agent" => gui \notin Locked)
  BY Working
<1>6. LockInv'
  <2>1. CASE t = "agent"
    <3>1. holder' = "nobody" /\ thread'["agent"].at = "idle"
      BY <1>2, <2>1 DEF Return, AtRest
    <3>. QED
      BY <1>1, <1>5, <2>1, <3>1 DEF LockInv
  <2>2. CASE t # "agent"
    <3>1. holder' = holder /\ thread'["agent"] = thread["agent"]
      BY <1>2, <2>2 DEF Return, Threads
    <3>. QED
      BY <1>1, <1>5, <3>1 DEF LockInv
  <2>. QED
    BY <2>1, <2>2
<1>. QED
  BY <1>1, <1>2, <1>3, <1>4, <1>5, <1>6 DEF AtRest

\* What is pending of a sample changes with the thread that moves.
LEMMA OneMoves ==
  ASSUME ThreadsInv, ThreadsInv', NEW t \in Threads,
         \A u \in Threads \ {t} : thread'[u] = thread[u], NEW places, NEW p
  PROVE  /\ InAll(places, p) \in Nat /\ Underway(t, places, p) \in Nat /\ Underway(t, places, p)' \in Nat
         /\ InAll(places, p)' = InAll(places, p) - Underway(t, places, p) + Underway(t, places, p)'
<1>1. \A u \in Threads : Underway(u, places, p) \in Nat
  <2>. TAKE u \in Threads
  <2>1. thread[u].samples \in Seq(Sample)
    BY DEF ThreadsInv
  <2>. QED
    BY <2>1, OccurrencesFinite DEF Underway
<1>2. \A u \in Threads : Underway(u, places, p)' \in Nat
  <2>. TAKE u \in Threads
  <2>1. thread'[u].samples \in Seq(Sample)
    BY DEF ThreadsInv
  <2>. QED
    BY <2>1, OccurrencesFinite DEF Underway
<1>3. \A u \in Threads \ {t} : Underway(u, places, p)' = Underway(u, places, p)
  BY DEF Underway
<1>4. t \in {"worker", "agent"}
  BY DEF Threads
<1>5. CASE t = "worker"
  <2>1. Underway("agent", places, p)' = Underway("agent", places, p)
    BY <1>3, <1>5 DEF Threads
  <2>. QED
    BY <1>1, <1>2, <1>5, <2>1 DEF InAll, Threads
<1>6. CASE t = "agent"
  <2>1. Underway("worker", places, p)' = Underway("worker", places, p)
    BY <1>3, <1>6 DEF Threads
  <2>. QED
    BY <1>1, <1>2, <1>6, <2>1 DEF InAll, Threads
<1>. QED
  BY <1>4, <1>5, <1>6

-----------------------------------------------------------------------------
(* The steps of the producers *)

LEMMA ReceiveKeeps ==
  ASSUME AnalysisInv, NEW t \in Threads, NEW time \in Times, NEW value \in ValuesOf[t], Receive(t, value, time)
  PROVE  AnalysisInv'
<1>. USE DEF AnalysisInv
<1>. DEFINE at == IF t = "worker" THEN "append" ELSE "lock"
<1>. DEFINE p == [source |-> t, field |-> FieldOf[t], value |-> value, time |-> time]
<1>1. /\ thread[t] = AtRest /\ Goto(t, at, <<p>>) /\ (t = "worker" => holder = "nobody")
      /\ UNCHANGED <<series, alerts, derived, appended, judged, fed, gui, holder, recording, agentDeclared, recorded>>
  BY DEF Receive, engineVars, sessionVars
<1>2. p \in SourceSample
  BY ThreadsAssumption DEF SourceSample
<1>. HIDE DEF p
<1>3. <<p>> \in Seq(SourceSample) /\ <<p>> \in Seq(Sample)
  BY <1>2 DEF Sample
<1>4. /\ thread'[t] = [at |-> at, samples |-> <<p>>] /\ DOMAIN thread' = Threads
      /\ \A u \in Threads \ {t} : thread'[u] = thread[u]
  BY <1>1 DEF Goto, ThreadsInv
<1>5. ThreadsInv'
  <2>1. [at |-> at, samples |-> <<p>>] \in [at : Stations, samples : Seq(Sample)]
    BY <1>3 DEF Stations
  <2>2. thread' \in [Threads -> [at : Stations, samples : Seq(Sample)]]
    BY <1>1, <2>1 DEF Goto, ThreadsInv
  <2>3. ThreadInv(t)'
    BY <1>3, <1>4 DEF ThreadInv
  <2>4. \A u \in Threads \ {t} : ThreadInv(u)'
    BY <1>4 DEF ThreadInv, ThreadsInv
  <2>. QED
    BY <2>2, <2>3, <2>4 DEF ThreadsInv
<1>6. LockInv'
  <2>1. CASE t = "worker"
    <3>1. holder = "nobody" /\ thread'["agent"] = thread["agent"]
      BY <1>1, <1>4, <2>1 DEF Threads
    <3>2. gui \notin Locked /\ gui \notin Flushed
      BY <3>1, CallPlaces DEF LockInv
    <3>. QED
      BY <1>1, <3>1, <3>2 DEF LockInv
  <2>2. CASE t = "agent"
    <3>1. thread'["agent"].at = "lock" /\ thread["agent"].at = "idle" /\ thread'["worker"] = thread["worker"]
      BY <1>1, <1>4, <2>2 DEF Threads, AtRest
    <3>. QED
      BY <1>1, <3>1 DEF LockInv
  <2>. QED
    BY <2>1, <2>2 DEF Threads
<1>7. RecordInv'
  <2>1. \A places, q : "idle" \notin places /\ "lock" \notin places /\ "append" \notin places
          => InAll(places, q)' = InAll(places, q)
    <3>. TAKE places, q
    <3>. HAVE "idle" \notin places /\ "lock" \notin places /\ "append" \notin places
    <3>1. Underway(t, places, q) = 0 /\ Underway(t, places, q)' = 0
      BY <1>1, <1>4 DEF Underway, AtRest
    <3>. QED
      BY <1>4, <1>5, <3>1, OneMoves
  <2>2. \A q : JudgedInv(q) => JudgedInv(q)'
    BY <1>1, <2>1 DEF JudgedInv
  <2>3. \A q : FedInv(q) => FedInv(q)'
    BY <1>1, <2>1 DEF FedInv
  <2>4. thread'["agent"].at \in {"judge", "derive", "appendDerived", "judgeDerived"}
          => thread["agent"].at \in {"judge", "derive", "appendDerived", "judgeDerived"}
    BY <1>4 DEF Threads
  <2>. QED
    BY <1>1, <2>2, <2>3, <2>4 DEF RecordInv
<1>. QED
  BY <1>1, <1>5, <1>6, <1>7 DEF SampleTypes, FlagTypes, GuiInv, DerivedInv

LEMMA LockRoutingKeeps ==
  ASSUME AnalysisInv, LockRouting
  PROVE  AnalysisInv'
<1>. USE DEF AnalysisInv
<1>. DEFINE samples == thread["agent"].samples
<1>1. /\ thread["agent"].at = "lock" /\ holder = "nobody" /\ holder' = "agent" /\ Goto("agent", "append", samples)
      /\ UNCHANGED <<series, alerts, derived, appended, judged, fed, gui, recording, agentDeclared, recorded>>
  BY DEF LockRouting, engineVars, sessionVars
<1>2. samples \in Seq(SourceSample) /\ samples \in Seq(Sample)
  BY <1>1 DEF ThreadsInv, ThreadInv, Threads
<1>. HIDE DEF samples
<1>3. /\ thread'["agent"] = [at |-> "append", samples |-> samples] /\ DOMAIN thread' = Threads
      /\ thread'["worker"] = thread["worker"]
  BY <1>1 DEF Goto, ThreadsInv, Threads
<1>4. ThreadsInv'
  <2>1. [at |-> "append", samples |-> samples] \in [at : Stations, samples : Seq(Sample)]
    BY <1>2 DEF Stations
  <2>2. thread' \in [Threads -> [at : Stations, samples : Seq(Sample)]]
    BY <1>1, <2>1 DEF Goto, ThreadsInv
  <2>3. ThreadInv("agent")'
    BY <1>2, <1>3 DEF ThreadInv
  <2>4. ThreadInv("worker")'
    BY <1>3 DEF ThreadInv, ThreadsInv, Threads
  <2>. QED
    BY <2>2, <2>3, <2>4 DEF ThreadsInv, Threads
<1>5. LockInv'
  <2>1. gui \notin Locked /\ gui \notin Flushed
    BY <1>1, CallPlaces DEF LockInv
  <2>. QED
    BY <1>1, <1>3, <2>1 DEF LockInv
<1>6. RecordInv'
  <2>1. \A places, q : "lock" \notin places /\ "append" \notin places => InAll(places, q)' = InAll(places, q)
    BY <1>1, <1>3 DEF InAll, Underway
  <2>2. \A q : JudgedInv(q) => JudgedInv(q)'
    BY <1>1, <2>1 DEF JudgedInv
  <2>3. \A q : FedInv(q) => FedInv(q)'
    BY <1>1, <2>1 DEF FedInv
  <2>4. thread'["agent"].at \notin {"judge", "derive", "appendDerived", "judgeDerived"}
    BY <1>3
  <2>. QED
    BY <1>1, <2>2, <2>3, <2>4 DEF RecordInv
<1>. QED
  BY <1>1, <1>4, <1>5, <1>6 DEF SampleTypes, FlagTypes, GuiInv, DerivedInv

LEMMA CurveKeeps ==
  ASSUME CurvesInv(series, appended), NEW samples \in Seq(Sample), Curve(samples)
  PROVE  CurvesInv(series, appended)'
<1>1. CurvesInv(series', appended')
  BY BatchPlotted DEF Curve
<1>. QED
  BY <1>1 DEF CurvesInv

LEMMA AppendSamplesKeeps ==
  ASSUME AnalysisInv, NEW t \in Threads, AppendSamples(t)
  PROVE  AnalysisInv'
<1>. USE DEF AnalysisInv
<1>. DEFINE s == thread[t].samples
<1>1. /\ thread[t].at = "append" /\ Curve(s) /\ Record(t, s)
      /\ UNCHANGED <<alerts, derived, judged, fed, gui, recording, agentDeclared>>
  BY DEF AppendSamples, sessionVars
<1>2. s \in Seq(SourceSample) /\ s \in Seq(Sample)
  BY <1>1 DEF ThreadsInv, ThreadInv
<1>3. CurvesInv(series, appended)'
  BY <1>1, <1>2, CurveKeeps
<1>4. recorded' \in Seq(Sample)
  BY <1>1, <1>2 DEF Record, SampleTypes
<1>5. CASE Analysed(t)
  <2>1. Goto(t, "judge", s) /\ holder' = holder
    BY <1>5 DEF AppendSamples
  <2>2. /\ ThreadsInv' /\ GuiInv' /\ LockInv' /\ FlagTypes' /\ gui' \notin Flushed
        /\ thread'[t].at = "judge" /\ thread'[t].samples = s
        /\ \A u \in Threads \ {t} : thread'[u] = thread[u]
    BY <1>1, <1>2, <2>1, Continues DEF sessionVars
  <2>3. ASSUME recording, NEW p \in Sample PROVE JudgedInv(p)' /\ FedInv(p)'
    <3>1. Declared(t) /\ recorded' = recorded \o s
      BY <1>1, <1>5, <2>3 DEF Declared, Analysed, Record
    <3>2. Occurrences(recorded', p) = Occurrences(recorded, p) + Occurrences(s, p)
      BY <1>2, <3>1, OccurrencesAdd DEF SampleTypes
    <3>3. \A places : "append" \notin places /\ "judge" \in places
            => InAll(places, p)' = InAll(places, p) + Occurrences(s, p)
      <4>. TAKE places
      <4>. HAVE "append" \notin places /\ "judge" \in places
      <4>1. Underway(t, places, p) = 0 /\ Underway(t, places, p)' = Occurrences(s, p)
        BY <1>1, <2>2 DEF Underway
      <4>2. Occurrences(s, p) \in Nat
        BY <1>2, OccurrencesFinite
      <4>3. InAll(places, p) \in Nat /\ InAll(places, p)' = InAll(places, p) - 0 + Occurrences(s, p)
        BY <2>2, <4>1, OneMoves
      <4>. QED
        BY <4>2, <4>3
    <3>4. Occurrences(judged, p) \in Nat /\ Occurrences(fed, p) \in Nat /\ Occurrences(s, p) \in Nat
      BY <1>2, OccurrencesFinite DEF SampleTypes
    <3>5. \A places : InAll(places, p) \in Nat
      BY <2>2, OneMoves
    <3>6. JudgedInv(p) /\ FedInv(p)
      BY <2>3 DEF RecordInv
    <3>7. JudgedInv(p)'
      <4>1. InAll({"judge", "judgeDerived"}, p)' = InAll({"judge", "judgeDerived"}, p) + Occurrences(s, p)
        BY <3>3
      <4>2. InAll({"judge", "judgeDerived"}, p) \in Nat
        BY <3>5
      <4>. QED
        BY <1>1, <3>2, <3>4, <3>6, <4>1, <4>2 DEF JudgedInv
    <3>8. FedInv(p)'
      <4>1. InAll({"judge", "derive"}, p)' = InAll({"judge", "derive"}, p) + Occurrences(s, p)
        BY <3>3
      <4>2. InAll({"judge", "derive"}, p) \in Nat
        BY <3>5
      <4>. QED
        BY <1>1, <3>2, <3>4, <3>6, <4>1, <4>2 DEF FedInv
    <3>. QED
      BY <3>7, <3>8
  <2>4. recording /\ thread'["agent"].at \in {"judge", "derive", "appendDerived", "judgeDerived"} => agentDeclared
    <3>1. CASE t = "agent"
      BY <1>5, <3>1 DEF Analysed
    <3>2. CASE t # "agent"
      BY <2>2, <3>2 DEF RecordInv, Threads
    <3>. QED
      BY <3>1, <3>2
  <2>5. RecordInv'
    <3>1. gui' \notin {Start1, Start2}
      BY <2>2 DEF Flushed
    <3>. QED
      BY <1>1, <2>3, <2>4, <3>1 DEF RecordInv
  <2>. QED
    BY <1>1, <1>3, <1>4, <2>2, <2>5 DEF SampleTypes, DerivedInv
<1>6. CASE ~Analysed(t)
  <2>1. Return(t)
    BY <1>6 DEF AppendSamples
  <2>2. /\ ThreadsInv' /\ GuiInv' /\ LockInv' /\ FlagTypes' /\ gui' \notin Flushed
        /\ thread'[t].at = "idle"
        /\ \A u \in Threads \ {t} : thread'[u] = thread[u]
    BY <1>1, <2>1, Returns DEF sessionVars
  <2>3. recorded' = recorded
    BY <1>1, <1>6 DEF Record, Declared, Analysed
  <2>4. \A places, p : "append" \notin places /\ "idle" \notin places => InAll(places, p)' = InAll(places, p)
    <3>. TAKE places, p
    <3>. HAVE "append" \notin places /\ "idle" \notin places
    <3>1. Underway(t, places, p) = 0 /\ Underway(t, places, p)' = 0
      BY <1>1, <2>2 DEF Underway
    <3>. QED
      BY <2>2, <3>1, OneMoves
  <2>5. \A p : (JudgedInv(p) => JudgedInv(p)') /\ (FedInv(p) => FedInv(p)')
    BY <1>1, <2>3, <2>4 DEF JudgedInv, FedInv
  <2>6. RecordInv'
    <3>1. gui' \notin {Start1, Start2}
      BY <2>2 DEF Flushed
    <3>2. thread'["agent"].at \in {"judge", "derive", "appendDerived", "judgeDerived"}
            => thread["agent"].at \in {"judge", "derive", "appendDerived", "judgeDerived"}
      BY <2>2 DEF Threads
    <3>. QED
      BY <1>1, <2>5, <3>1, <3>2 DEF RecordInv
  <2>. QED
    BY <1>1, <1>3, <1>4, <2>2, <2>6 DEF SampleTypes, DerivedInv
<1>. QED
  BY <1>5, <1>6

LEMMA JudgeKeeps ==
  ASSUME SampleTypes, AlertsInv(alerts, judged), NEW t \in Threads, thread[t].samples \in Seq(Sample), Judge(t)
  PROVE  /\ judged' \in Seq(Sample) /\ AlertsInv(alerts, judged)'
         /\ \A p : Occurrences(judged', p) = Occurrences(judged, p) + Occurrences(thread[t].samples, p)
<1>1. judged' = judged \o thread[t].samples /\ alerts' = AlertsOf(alerts, thread[t].samples).engine
  BY DEF Judge
<1>2. AlertsInv(alerts', judged')
  BY <1>1, BatchJudged DEF SampleTypes
<1>3. AlertsInv(alerts, judged)'
  BY <1>2 DEF AlertsInv
<1>4. judged' \in Seq(Sample)
  BY <1>1 DEF SampleTypes
<1>5. \A p : Occurrences(judged', p) = Occurrences(judged, p) + Occurrences(thread[t].samples, p)
  BY <1>1, OccurrencesAdd DEF SampleTypes
<1>. QED
  BY <1>3, <1>4, <1>5

LEMMA JudgeSamplesKeeps ==
  ASSUME AnalysisInv, NEW t \in Threads, JudgeSamples(t)
  PROVE  AnalysisInv'
<1>. USE DEF AnalysisInv
<1>. DEFINE s == thread[t].samples
<1>1. /\ thread[t].at = "judge" /\ Judge(t) /\ Goto(t, "derive", s)
      /\ UNCHANGED <<series, derived, appended, fed, gui, holder, recording, agentDeclared, recorded>>
  BY DEF JudgeSamples, sessionVars
<1>2. s \in Seq(SourceSample) /\ s \in Seq(Sample)
  BY <1>1 DEF ThreadsInv, ThreadInv
<1>3. /\ judged' \in Seq(Sample) /\ AlertsInv(alerts, judged)'
      /\ \A p : Occurrences(judged', p) = Occurrences(judged, p) + Occurrences(s, p)
  BY <1>1, <1>2, JudgeKeeps
<1>4. /\ ThreadsInv' /\ GuiInv' /\ LockInv' /\ FlagTypes' /\ gui' \notin Flushed
      /\ thread'[t].at = "derive" /\ thread'[t].samples = s
      /\ \A u \in Threads \ {t} : thread'[u] = thread[u]
  BY <1>1, <1>2, Continues DEF sessionVars
<1>5. ASSUME recording, NEW p \in Sample PROVE JudgedInv(p)' /\ FedInv(p)'
  <2>1. JudgedInv(p) /\ FedInv(p)
    BY <1>5 DEF RecordInv
  <2>2. Occurrences(judged, p) \in Nat /\ Occurrences(s, p) \in Nat
    BY <1>2, OccurrencesFinite DEF SampleTypes
  <2>3. JudgedInv(p)'
    <3>. DEFINE places == {"judge", "judgeDerived"}
    <3>1. Underway(t, places, p) = Occurrences(s, p) /\ Underway(t, places, p)' = 0
      BY <1>1, <1>4 DEF Underway
    <3>2. InAll(places, p) \in Nat /\ InAll(places, p)' = InAll(places, p) - Occurrences(s, p) + 0
      <4>. HIDE DEF places
      <4>. QED
        BY <1>4, <3>1, OneMoves
    <3>. QED
      BY <1>1, <1>3, <2>1, <2>2, <3>2 DEF JudgedInv
  <2>4. FedInv(p)'
    <3>. DEFINE places == {"judge", "derive"}
    <3>1. Underway(t, places, p) = Occurrences(s, p) /\ Underway(t, places, p)' = Occurrences(s, p)
      BY <1>1, <1>4 DEF Underway
    <3>2. InAll(places, p)' = InAll(places, p)
      <4>. HIDE DEF places
      <4>. QED
        BY <1>4, <2>2, <3>1, OneMoves
    <3>. QED
      BY <1>1, <2>1, <3>2 DEF FedInv
  <2>. QED
    BY <2>3, <2>4
<1>6. RecordInv'
  <2>1. gui' \notin {Start1, Start2}
    BY <1>4 DEF Flushed
  <2>2. thread'["agent"].at \in {"judge", "derive", "appendDerived", "judgeDerived"}
          => thread["agent"].at \in {"judge", "derive", "appendDerived", "judgeDerived"}
    BY <1>1, <1>4 DEF Threads
  <2>. QED
    BY <1>1, <1>5, <2>1, <2>2 DEF RecordInv
<1>. QED
  BY <1>1, <1>3, <1>4, <1>6 DEF SampleTypes, DerivedInv, CurvesInv

LEMMA DeriveKeeps ==
  ASSUME AnalysisInv, NEW t \in Threads, Derive(t)
  PROVE  AnalysisInv'
<1>. USE DEF AnalysisInv
<1>. DEFINE s == thread[t].samples
<1>. DEFINE result == Derived(derived, s)
<1>1. /\ thread[t].at = "derive" /\ derived' = result.engine /\ fed' = fed \o s
      /\ UNCHANGED <<series, alerts, appended, judged, gui, recording, agentDeclared, recorded>>
  BY DEF Derive, sessionVars
<1>2. s \in Seq(SourceSample)
  BY <1>1 DEF ThreadsInv, ThreadInv
<1>3. result.engine \in EngineOf(derived.defs) /\ result.output \in Seq(DerivedSample)
  BY <1>2, DerivedKeeps DEF DerivedInv
<1>. HIDE DEF result
<1>4. DerivedInv'
  <2>1. derived'.defs = derived.defs
    BY <1>1, <1>3 DEF EngineOf
  <2>. QED
    BY <1>1, <1>3, <2>1 DEF DerivedInv
<1>5. fed' \in Seq(SourceSample)
  BY <1>1, <1>2 DEF SampleTypes
<1>6. /\ ThreadsInv' /\ GuiInv' /\ LockInv' /\ FlagTypes' /\ gui' \notin Flushed
      /\ thread'[t].at \in {"idle", "appendDerived"}
      /\ \A u \in Threads \ {t} : thread'[u] = thread[u]
  <2>1. CASE result.output = << >>
    <3>1. Return(t)
      BY <2>1 DEF Derive, result
    <3>. QED
      BY <1>1, <3>1, Returns DEF sessionVars
  <2>2. CASE result.output # << >>
    <3>1. Goto(t, "appendDerived", result.output) /\ holder' = holder
      BY <2>2 DEF Derive, result
    <3>. QED
      BY <1>1, <1>3, <3>1, Continues DEF sessionVars
  <2>. QED
    BY <2>1, <2>2
<1>7. ASSUME recording, NEW p \in Sample PROVE JudgedInv(p)' /\ FedInv(p)'
  <2>1. JudgedInv(p) /\ FedInv(p)
    BY <1>7 DEF RecordInv
  <2>2. /\ Occurrences(fed, p) \in Nat /\ Occurrences(s, p) \in Nat
        /\ Occurrences(fed', p) = Occurrences(fed, p) + Occurrences(s, p)
    <3>1. fed \in Seq(SourceSample)
      BY DEF SampleTypes
    <3>2. Occurrences(fed, p) \in Nat /\ Occurrences(s, p) \in Nat
      BY <1>2, <3>1, OccurrencesFinite
    <3>3. Occurrences(fed \o s, p) = Occurrences(fed, p) + Occurrences(s, p)
      BY <1>2, <3>1, OccurrencesAdd
    <3>. QED
      BY <1>1, <3>2, <3>3
  <2>3. JudgedInv(p)'
    <3>. DEFINE places == {"judge", "judgeDerived"}
    <3>1. Underway(t, places, p) = 0 /\ Underway(t, places, p)' = 0
      BY <1>1, <1>6 DEF Underway
    <3>2. InAll(places, p)' = InAll(places, p)
      <4>. HIDE DEF places
      <4>. QED
        BY <1>6, <3>1, OneMoves
    <3>. QED
      BY <1>1, <2>1, <3>2 DEF JudgedInv
  <2>4. FedInv(p)'
    <3>. DEFINE places == {"judge", "derive"}
    <3>1. Underway(t, places, p) = Occurrences(s, p) /\ Underway(t, places, p)' = 0
      BY <1>1, <1>6 DEF Underway
    <3>2. InAll(places, p) \in Nat /\ InAll(places, p)' = InAll(places, p) - Occurrences(s, p) + 0
      <4>. HIDE DEF places
      <4>. QED
        BY <1>6, <3>1, OneMoves
    <3>. QED
      BY <1>1, <2>1, <2>2, <3>2 DEF FedInv
  <2>. QED
    BY <2>3, <2>4
<1>8. RecordInv'
  <2>1. gui' \notin {Start1, Start2}
    BY <1>6 DEF Flushed
  <2>2. thread'["agent"].at \in {"judge", "derive", "appendDerived", "judgeDerived"}
          => thread["agent"].at \in {"judge", "derive", "appendDerived", "judgeDerived"}
    BY <1>1, <1>6 DEF Threads
  <2>. QED
    BY <1>1, <1>7, <2>1, <2>2 DEF RecordInv
<1>. QED
  BY <1>1, <1>4, <1>5, <1>6, <1>8 DEF SampleTypes, AlertsInv, CurvesInv

\* Samples of sources and derived ones differ.
LEMMA DerivedIsNoSource ==
  ASSUME NEW s \in Seq(DerivedSample), NEW p, p.source # "derived"
  PROVE  Occurrences(s, p) = 0
<1>1. \A i \in DOMAIN s : s[i].source = "derived"
  <2>1. \A i \in DOMAIN s : s[i] \in DerivedSample
    OBVIOUS
  <2>. QED
    BY <2>1 DEF DerivedSample
<1>2. \A i \in DOMAIN s : s[i] # p
  BY <1>1
<1>. QED
  BY <1>2, OccurrencesFinite

LEMMA AppendDerivedKeeps ==
  ASSUME AnalysisInv, NEW t \in Threads, AppendDerived(t)
  PROVE  AnalysisInv'
<1>. USE DEF AnalysisInv
<1>. DEFINE s == thread[t].samples
<1>1. /\ thread[t].at = "appendDerived" /\ Curve(s) /\ Record(t, s) /\ Goto(t, "judgeDerived", s)
      /\ UNCHANGED <<alerts, derived, judged, fed, gui, holder, recording, agentDeclared>>
  BY DEF AppendDerived, sessionVars
<1>2. s \in Seq(DerivedSample) /\ s \in Seq(Sample)
  BY <1>1 DEF ThreadsInv, ThreadInv
<1>3. CurvesInv(series, appended)'
  BY <1>1, <1>2, CurveKeeps
<1>4. recorded' \in Seq(Sample)
  BY <1>1, <1>2 DEF Record, SampleTypes
<1>5. /\ ThreadsInv' /\ GuiInv' /\ LockInv' /\ FlagTypes' /\ gui' \notin Flushed
      /\ thread'[t].at = "judgeDerived" /\ thread'[t].samples = s
      /\ \A u \in Threads \ {t} : thread'[u] = thread[u]
  BY <1>1, <1>2, Continues DEF sessionVars
<1>6. ASSUME recording, NEW p \in Sample PROVE JudgedInv(p)' /\ FedInv(p)'
  <2>1. Declared(t) /\ recorded' = recorded \o s
    BY <1>1, <1>6 DEF Declared, RecordInv, Record
  <2>2. JudgedInv(p) /\ FedInv(p)
    BY <1>6 DEF RecordInv
  <2>3. /\ Occurrences(judged, p) \in Nat /\ Occurrences(s, p) \in Nat /\ Occurrences(recorded, p) \in Nat
        /\ Occurrences(recorded', p) = Occurrences(recorded, p) + Occurrences(s, p)
    <3>1. judged \in Seq(Sample) /\ recorded \in Seq(Sample)
      BY DEF SampleTypes
    <3>2. Occurrences(judged, p) \in Nat /\ Occurrences(s, p) \in Nat /\ Occurrences(recorded, p) \in Nat
      BY <1>2, <3>1, OccurrencesFinite
    <3>3. Occurrences(recorded \o s, p) = Occurrences(recorded, p) + Occurrences(s, p)
      BY <1>2, <3>1, OccurrencesAdd
    <3>. QED
      BY <2>1, <3>2, <3>3
  <2>4. JudgedInv(p)'
    <3>. DEFINE places == {"judge", "judgeDerived"}
    <3>1. Underway(t, places, p) = 0 /\ Underway(t, places, p)' = Occurrences(s, p)
      BY <1>1, <1>5 DEF Underway
    <3>2. InAll(places, p) \in Nat /\ InAll(places, p)' = InAll(places, p) - 0 + Occurrences(s, p)
      <4>. HIDE DEF places
      <4>. QED
        BY <1>5, <3>1, OneMoves
    <3>. QED
      BY <1>1, <2>2, <2>3, <3>2 DEF JudgedInv
  <2>5. FedInv(p)'
    <3>. DEFINE places == {"judge", "derive"}
    <3>1. Underway(t, places, p) = 0 /\ Underway(t, places, p)' = 0
      BY <1>1, <1>5 DEF Underway
    <3>2. InAll(places, p)' = InAll(places, p)
      <4>. HIDE DEF places
      <4>. QED
        BY <1>5, <3>1, OneMoves
    <3>3. p.source # "derived" => Occurrences(recorded', p) = Occurrences(recorded, p)
      <4>. SUFFICES ASSUME p.source # "derived" PROVE Occurrences(recorded', p) = Occurrences(recorded, p)
        OBVIOUS
      <4>1. Occurrences(s, p) = 0
        BY <1>2, DerivedIsNoSource
      <4>. QED
        BY <2>3, <4>1
    <3>. QED
      BY <1>1, <2>2, <3>2, <3>3 DEF FedInv
  <2>. QED
    BY <2>4, <2>5
<1>7. RecordInv'
  <2>1. gui' \notin {Start1, Start2}
    BY <1>5 DEF Flushed
  <2>2. thread'["agent"].at \in {"judge", "derive", "appendDerived", "judgeDerived"}
          => thread["agent"].at \in {"judge", "derive", "appendDerived", "judgeDerived"}
    BY <1>1, <1>5 DEF Threads
  <2>. QED
    BY <1>1, <1>6, <2>1, <2>2 DEF RecordInv
<1>. QED
  BY <1>1, <1>3, <1>4, <1>5, <1>7 DEF SampleTypes, DerivedInv

LEMMA JudgeDerivedKeeps ==
  ASSUME AnalysisInv, NEW t \in Threads, JudgeDerived(t)
  PROVE  AnalysisInv'
<1>. USE DEF AnalysisInv
<1>. DEFINE s == thread[t].samples
<1>1. /\ thread[t].at = "judgeDerived" /\ Judge(t) /\ Return(t)
      /\ UNCHANGED <<series, derived, appended, fed, gui, recording, agentDeclared, recorded>>
  BY DEF JudgeDerived, sessionVars
<1>2. s \in Seq(Sample)
  BY DEF ThreadsInv
<1>3. /\ judged' \in Seq(Sample) /\ AlertsInv(alerts, judged)'
      /\ \A p : Occurrences(judged', p) = Occurrences(judged, p) + Occurrences(s, p)
  BY <1>1, <1>2, JudgeKeeps
<1>4. /\ ThreadsInv' /\ GuiInv' /\ LockInv' /\ FlagTypes' /\ gui' \notin Flushed
      /\ thread'[t].at = "idle"
      /\ \A u \in Threads \ {t} : thread'[u] = thread[u]
  BY <1>1, Returns DEF sessionVars
<1>5. ASSUME recording, NEW p \in Sample PROVE JudgedInv(p)' /\ FedInv(p)'
  <2>1. JudgedInv(p) /\ FedInv(p)
    BY <1>5 DEF RecordInv
  <2>2. Occurrences(judged, p) \in Nat /\ Occurrences(s, p) \in Nat
    BY <1>2, OccurrencesFinite DEF SampleTypes
  <2>3. JudgedInv(p)'
    <3>. DEFINE places == {"judge", "judgeDerived"}
    <3>1. Underway(t, places, p) = Occurrences(s, p) /\ Underway(t, places, p)' = 0
      BY <1>1, <1>4 DEF Underway
    <3>2. InAll(places, p) \in Nat /\ InAll(places, p)' = InAll(places, p) - Occurrences(s, p) + 0
      <4>. HIDE DEF places
      <4>. QED
        BY <1>4, <3>1, OneMoves
    <3>. QED
      BY <1>1, <1>3, <2>1, <2>2, <3>2 DEF JudgedInv
  <2>4. FedInv(p)'
    <3>. DEFINE places == {"judge", "derive"}
    <3>1. Underway(t, places, p) = 0 /\ Underway(t, places, p)' = 0
      BY <1>1, <1>4 DEF Underway
    <3>2. InAll(places, p)' = InAll(places, p)
      <4>. HIDE DEF places
      <4>. QED
        BY <1>4, <3>1, OneMoves
    <3>. QED
      BY <1>1, <2>1, <3>2 DEF FedInv
  <2>. QED
    BY <2>3, <2>4
<1>6. RecordInv'
  <2>1. gui' \notin {Start1, Start2}
    BY <1>4 DEF Flushed
  <2>2. thread'["agent"].at \in {"judge", "derive", "appendDerived", "judgeDerived"}
          => thread["agent"].at \in {"judge", "derive", "appendDerived", "judgeDerived"}
    BY <1>1, <1>4 DEF Threads
  <2>. QED
    BY <1>1, <1>5, <2>1, <2>2 DEF RecordInv
<1>. QED
  BY <1>1, <1>3, <1>4, <1>6 DEF SampleTypes, DerivedInv, CurvesInv

-----------------------------------------------------------------------------
(* The steps of the GUI *)

\* A step that leaves the threads, the recording and the samples alone keeps what is said of them.
LEMMA ThreadsStand ==
  ASSUME ThreadsInv, SampleTypes, FlagTypes, UNCHANGED thread
  PROVE  ThreadsInv'
BY DEF ThreadsInv, ThreadInv

LEMMA RecordStands ==
  ASSUME NEW p, UNCHANGED <<thread, recorded, judged, fed>>
  PROVE  (JudgedInv(p) => JudgedInv(p)') /\ (FedInv(p) => FedInv(p)')
BY DEF JudgedInv, FedInv, InAll, Underway

LEMMA CallBegins ==
  ASSUME AnalysisInv, gui = << >>, ~recording,
         gui' \in {Start5, Reset3} \cup Seq(Clearing),
         UNCHANGED <<thread, holder, recording, agentDeclared>>
  PROVE  ThreadsInv' /\ GuiInv' /\ LockInv' /\ FlagTypes' /\ RecordInv'
<1>. USE DEF AnalysisInv
<1>1. ThreadsInv' /\ GuiInv' /\ FlagTypes'
  BY ThreadsStand DEF GuiInv, FlagTypes
<1>2. gui \notin Locked /\ gui' \notin Locked /\ gui' \notin Flushed
  BY CallPlaces
<1>3. LockInv'
  BY <1>2 DEF LockInv
<1>4. RecordInv'
  <2>1. gui' \notin {Start1, Start2}
    BY <1>2, CallPlaces
  <2>. QED
    BY <2>1 DEF RecordInv
<1>. QED
  BY <1>1, <1>3, <1>4

LEMMA ParserResetKeeps ==
  ASSUME AnalysisInv, ParserReset
  PROVE  AnalysisInv'
<1>1. /\ gui = << >> /\ ~recording /\ gui' = Reset3
      /\ UNCHANGED <<series, alerts, derived, appended, judged, fed, thread, holder, recording, agentDeclared, recorded>>
  BY DEF ParserReset, Called, Reset3, engineVars, sessionVars
<1>2. ThreadsInv' /\ GuiInv' /\ LockInv' /\ FlagTypes' /\ RecordInv'
  BY <1>1, CallBegins
<1>. QED
  BY <1>1, <1>2 DEF AnalysisInv, SampleTypes, DerivedInv, AlertsInv, CurvesInv

LEMMA StartSessionKeeps ==
  ASSUME AnalysisInv, StartSession
  PROVE  AnalysisInv'
<1>1. /\ gui = << >> /\ ~recording /\ gui' = Start5
      /\ UNCHANGED <<series, alerts, derived, appended, judged, fed, thread, holder, recording, agentDeclared, recorded>>
  BY DEF StartSession, Called, Start5, engineVars, sessionVars
<1>2. ThreadsInv' /\ GuiInv' /\ LockInv' /\ FlagTypes' /\ RecordInv'
  BY <1>1, CallBegins
<1>. QED
  BY <1>1, <1>2 DEF AnalysisInv, SampleTypes, DerivedInv, AlertsInv, CurvesInv

LEMMA StopSessionKeeps ==
  ASSUME AnalysisInv, StopSession
  PROVE  AnalysisInv'
<1>. USE DEF AnalysisInv
<1>1. /\ gui = << >> /\ recording /\ gui' = Stop3
      /\ UNCHANGED <<series, alerts, derived, appended, judged, fed, thread, holder, recording, agentDeclared, recorded>>
  BY DEF StopSession, Stop3, engineVars, sessionVars
<1>2. ThreadsInv' /\ GuiInv' /\ FlagTypes'
  BY <1>1, ThreadsStand DEF GuiInv, FlagTypes
<1>3. gui \notin Locked /\ gui' \notin Locked /\ gui' \notin Flushed /\ gui' \notin {Start1, Start2}
  BY <1>1, CallPlaces
<1>4. LockInv'
  BY <1>1, <1>3 DEF LockInv
<1>5. RecordInv'
  BY <1>1, <1>3, RecordStands DEF RecordInv
<1>. QED
  BY <1>1, <1>2, <1>4, <1>5 DEF SampleTypes, DerivedInv, AlertsInv, CurvesInv

\* The names of derived fields are finitely many, so that a list of them exists.
LEMMA NamesAreFinite ==
  ASSUME NEW defs \in Configurations
  PROVE  IsFiniteSet(Names(defs)) /\ Names(defs) \subseteq Computed
<1>. DEFINE name == [i \in DOMAIN defs |-> defs[i].name]
<1>1. IsFiniteSet(DOMAIN defs)
  <2>1. DOMAIN defs = 1..Len(defs) /\ Len(defs) \in Int
    BY DefinitionFacts
  <2>2. IsFiniteSet(1..Len(defs))
    BY <2>1, FS_Interval
  <2>. QED
    BY <2>1, <2>2
<1>2. name \in Surjection(DOMAIN defs, Names(defs))
  BY DEF Names, Surjection
<1>3. IsFiniteSet(Names(defs))
  BY <1>1, <1>2, FS_Surjection
<1>4. Names(defs) \subseteq Computed
  BY DEF Computed
<1>. QED
  BY <1>3, <1>4

LEMMA ListExists ==
  ASSUME NEW S, IsFiniteSet(S)
  PROVE  Cardinality(S) \in Nat /\ SetToSeq(S) \in [1..Cardinality(S) -> S]
<1>1. Cardinality(S) \in Nat
  BY FS_CardinalityType
<1>2. PICK f : f \in Bijection(1..Cardinality(S), S)
  BY FS_CardinalityType DEF ExistsBijection
<1>3. f \in [1..Cardinality(S) -> S] /\ IsInjective(f)
  BY <1>2 DEF Bijection, Injection, IsInjective
<1>4. SetToSeq(S) \in [1..Cardinality(S) -> S]
  BY <1>3 DEF SetToSeq
<1>. QED
  BY <1>1, <1>4

LEMMA SetDerivedFieldsKeeps ==
  ASSUME AnalysisInv, NEW defs \in Configurations, SetDerivedFields(defs)
  PROVE  AnalysisInv'
<1>1. /\ gui = << >> /\ ~recording
      /\ UNCHANGED <<series, alerts, appended, judged, thread, holder, recording, agentDeclared, recorded>>
  BY DEF SetDerivedFields, Called, sessionVars
<1>2. CASE ~Acceptable(defs)
  <2>1. derived' = derived /\ fed' = fed /\ gui' = << >> /\ << >> \in Seq(Clearing)
    BY <1>1, <1>2 DEF SetDerivedFields
  <2>2. ThreadsInv' /\ GuiInv' /\ LockInv' /\ FlagTypes' /\ RecordInv'
    BY <1>1, <2>1, CallBegins
  <2>. QED
    BY <1>1, <2>1, <2>2 DEF AnalysisInv, SampleTypes, DerivedInv, AlertsInv, CurvesInv
<1>3. CASE Acceptable(defs)
  <2>. DEFINE S == Names(derived.defs) \cup Names(defs)
  <2>. DEFINE names == SetToSeq(S)
  <2>1. /\ derived' = FreshDerived(defs, Order(defs)) /\ fed' = << >>
        /\ gui' = [i \in DOMAIN names |-> Clear({names[i]})]
    BY <1>3 DEF SetDerivedFields
  <2>2. gui' \in Seq(Clearing)
    <3>1. IsFiniteSet(S) /\ S \subseteq Curves
      BY NamesAreFinite, FS_Union DEF AnalysisInv, DerivedInv, Curves
    <3>. HIDE DEF S
    <3>2. Cardinality(S) \in Nat /\ names \in [1..Cardinality(S) -> S]
      BY <3>1, ListExists
    <3>. HIDE DEF names
    <3>3. \A i \in 1..Cardinality(S) : Clear({names[i]}) \in Clearing
      BY <3>1, <3>2 DEF Clear, Clearing
    <3>4. gui' = [i \in 1..Cardinality(S) |-> Clear({names[i]})]
      BY <2>1, <3>2
    <3>. DEFINE n == Cardinality(S)
    <3>5. gui' \in [1..n -> Clearing] /\ n \in Nat
      <4>. HIDE DEF n
      <4>. QED
        BY <3>2, <3>3, <3>4 DEF n
    <3>. HIDE DEF n
    <3>. QED
      BY <3>5
  <2>3. ThreadsInv' /\ GuiInv' /\ LockInv' /\ FlagTypes' /\ RecordInv'
    BY <1>1, <2>2, CallBegins
  <2>4. DerivedInv'
    <3>1. derived'.defs = defs
      BY <2>1 DEF FreshDerived
    <3>. QED
      BY <1>3, <2>1, <3>1, OrderIsOrder, FreshKeeps DEF DerivedInv
  <2>5. SampleTypes'
    BY <1>1, <2>1 DEF AnalysisInv, SampleTypes
  <2>. QED
    BY <1>1, <2>3, <2>4, <2>5 DEF AnalysisInv, AlertsInv, CurvesInv
<1>. QED
  BY <1>2, <1>3

LEMMA SetAlertRulesKeeps ==
  ASSUME AnalysisInv, SetAlertRules
  PROVE  AnalysisInv'
<1>1. /\ gui = << >> /\ ~recording /\ alerts' = FreshAlerts /\ judged' = << >> /\ gui' = << >>
      /\ UNCHANGED <<series, derived, appended, fed, thread, holder, recording, agentDeclared, recorded>>
  BY DEF SetAlertRules, Called, sessionVars
<1>2. ThreadsInv' /\ GuiInv' /\ LockInv' /\ FlagTypes' /\ RecordInv'
  <2>1. << >> \in Seq(Clearing)
    OBVIOUS
  <2>. QED
    BY <1>1, <2>1, CallBegins
<1>3. AlertsInv(alerts, judged)'
  BY <1>1, FreshAlertsInv DEF AlertsInv
<1>4. SampleTypes'
  BY <1>1 DEF AnalysisInv, SampleTypes
<1>. QED
  BY <1>1, <1>2, <1>3, <1>4 DEF AnalysisInv, DerivedInv, CurvesInv

LEMMA LockKeeps ==
  ASSUME AnalysisInv, Lock
  PROVE  AnalysisInv'
<1>. USE DEF AnalysisInv
<1>1. /\ gui # << >> /\ Head(gui).step = "lock" /\ gui' = Tail(gui) /\ holder = "nobody" /\ holder' = "gui"
      /\ UNCHANGED <<series, alerts, derived, appended, judged, fed, thread, recording, agentDeclared, recorded>>
  BY DEF Lock, At, engineVars, sessionVars
<1>2. IF recording THEN gui' = Stop2 ELSE gui' = Start4
  BY <1>1, GuiAt, CallTails DEF FlagTypes
<1>3. gui' \in Locked /\ gui' \notin Flushed /\ gui' \notin {Start1, Start2}
  BY <1>2, CallPlaces
<1>4. ThreadsInv' /\ GuiInv' /\ FlagTypes'
  BY <1>1, <1>2, ThreadsStand DEF GuiInv, FlagTypes
<1>5. LockInv'
  BY <1>1, <1>3 DEF LockInv
<1>6. RecordInv'
  BY <1>1, <1>3, RecordStands DEF RecordInv
<1>. QED
  BY <1>1, <1>4, <1>5, <1>6 DEF SampleTypes, DerivedInv, AlertsInv, CurvesInv

LEMMA FlushPipelineKeeps ==
  ASSUME AnalysisInv, FlushPipeline
  PROVE  AnalysisInv'
<1>. USE DEF AnalysisInv
<1>1. /\ gui # << >> /\ Head(gui).step = "flush" /\ gui' = Tail(gui) /\ thread["worker"] = AtRest
      /\ UNCHANGED <<series, alerts, derived, appended, judged, fed, thread, holder, recording, agentDeclared, recorded>>
  BY DEF FlushPipeline, At, Drained, engineVars, sessionVars
<1>2. (recording /\ gui = Stop2 /\ gui' = Stop1) \/ (~recording /\ gui = Start4 /\ gui' = Start3)
  BY <1>1, GuiAt, CallTails DEF FlagTypes
<1>3. gui \in Locked /\ gui' \in Locked /\ gui' \notin {Start1, Start2}
  BY <1>2, CallPlaces
<1>4. ThreadsInv' /\ GuiInv' /\ FlagTypes'
  BY <1>1, <1>2, ThreadsStand DEF GuiInv, FlagTypes
<1>5. LockInv'
  BY <1>1, <1>3 DEF LockInv
<1>6. RecordInv'
  BY <1>1, <1>3, RecordStands DEF RecordInv
<1>. QED
  BY <1>1, <1>4, <1>5, <1>6 DEF SampleTypes, DerivedInv, AlertsInv, CurvesInv

LEMMA ResetDerivedKeeps ==
  ASSUME AnalysisInv, ResetDerived
  PROVE  AnalysisInv'
<1>. USE DEF AnalysisInv
<1>1. /\ gui # << >> /\ Head(gui).step = "resetDerived" /\ gui' = Tail(gui)
      /\ derived' = DerivedReset(derived) /\ fed' = << >>
      /\ UNCHANGED <<series, alerts, appended, judged, thread, holder, recording, agentDeclared, recorded>>
  BY DEF ResetDerived, At, sessionVars
<1>2. ~recording /\ ((gui = Start3 /\ gui' = Start2) \/ (gui = Reset3 /\ gui' = Reset2))
  BY <1>1, GuiAt, CallTails DEF FlagTypes
<1>3. /\ gui' \in Locked <=> gui \in Locked
      /\ gui' \in Flushed => gui \in Flushed
      /\ gui' # Start1
  BY <1>2, CallPlaces
<1>4. ThreadsInv' /\ GuiInv' /\ FlagTypes'
  BY <1>1, <1>2, ThreadsStand DEF GuiInv, FlagTypes
<1>5. LockInv'
  BY <1>1, <1>3 DEF LockInv
<1>6. RecordInv'
  BY <1>1, <1>2, <1>3 DEF RecordInv
<1>7. DerivedInv'
  <2>1. derived.order \in Seq(DOMAIN derived.defs) /\ derived.defs \in Configurations
    BY DEF DerivedInv, EngineOf
  <2>2. derived' \in EngineOf(derived.defs) /\ derived'.defs = derived.defs
    BY <1>1, <2>1, FreshKeeps DEF DerivedReset, FreshDerived
  <2>. QED
    BY <2>1, <2>2 DEF DerivedInv
<1>8. SampleTypes'
  BY <1>1 DEF SampleTypes
<1>. QED
  BY <1>1, <1>4, <1>5, <1>6, <1>7, <1>8 DEF AlertsInv, CurvesInv

LEMMA ResetAlertsKeeps ==
  ASSUME AnalysisInv, ResetAlerts
  PROVE  AnalysisInv'
<1>. USE DEF AnalysisInv
<1>1. /\ gui # << >> /\ Head(gui).step = "resetAlerts" /\ gui' = Tail(gui)
      /\ alerts' = FreshAlerts /\ judged' = << >>
      /\ UNCHANGED <<series, derived, appended, fed, thread, holder, recording, agentDeclared, recorded>>
  BY DEF ResetAlerts, AlertsReset, At, sessionVars
<1>2. ~recording /\ ((gui = Start2 /\ gui' = Start1) \/ (gui = Reset2 /\ gui' \in Seq(Clearing)))
  BY <1>1, GuiAt, CallTails DEF FlagTypes
<1>3. /\ gui' \in Locked <=> gui \in Locked
      /\ gui' \in Flushed => gui \in Flushed
      /\ gui' \in {Start1, Start2} => gui = Start2
  BY <1>2, CallPlaces
<1>4. ThreadsInv' /\ GuiInv' /\ FlagTypes'
  BY <1>1, <1>2, ThreadsStand DEF GuiInv, FlagTypes
<1>5. LockInv'
  BY <1>1, <1>3 DEF LockInv
<1>6. RecordInv'
  BY <1>1, <1>2, <1>3 DEF RecordInv
<1>7. AlertsInv(alerts, judged)'
  BY <1>1, FreshAlertsInv DEF AlertsInv
<1>8. SampleTypes'
  BY <1>1 DEF SampleTypes
<1>. QED
  BY <1>1, <1>4, <1>5, <1>6, <1>7, <1>8 DEF DerivedInv, CurvesInv

LEMMA ClearCurvesKeeps ==
  ASSUME AnalysisInv, ClearCurves
  PROVE  AnalysisInv'
<1>. USE DEF AnalysisInv
<1>1. /\ gui # << >> /\ Head(gui).step = "clearCurves" /\ gui' = Tail(gui)
      /\ series' = [c \in Curves |-> IF c \in Head(gui).curves THEN EmptySeries ELSE series[c]]
      /\ appended' = [c \in Curves |-> IF c \in Head(gui).curves THEN << >> ELSE appended[c]]
      /\ UNCHANGED <<alerts, derived, judged, fed, thread, holder, recording, agentDeclared, recorded>>
  BY DEF ClearCurves, At, sessionVars
<1>2. ~recording /\ gui \in Seq(Clearing) /\ gui' \in Seq(Clearing)
  BY <1>1, GuiAt DEF FlagTypes
<1>3. gui \notin Locked /\ gui' \notin Locked /\ gui' \notin Flushed /\ gui' \notin {Start1, Start2}
  BY <1>2, CallPlaces
<1>4. ThreadsInv' /\ GuiInv' /\ FlagTypes'
  BY <1>1, <1>2, ThreadsStand DEF GuiInv, FlagTypes
<1>5. LockInv'
  BY <1>1, <1>3 DEF LockInv
<1>6. RecordInv'
  BY <1>1, <1>2, <1>3 DEF RecordInv
<1>7. CurvesInv(series, appended)'
  BY <1>1, RingEmpty DEF CurvesInv
<1>. QED
  BY <1>1, <1>4, <1>5, <1>6, <1>7 DEF SampleTypes, DerivedInv, AlertsInv

LEMMA StartKeeps ==
  ASSUME AnalysisInv, NEW declared \in BOOLEAN, Start(declared)
  PROVE  AnalysisInv'
<1>. USE DEF AnalysisInv
<1>1. /\ gui # << >> /\ Head(gui).step = "start" /\ gui' = Tail(gui)
      /\ recording' = TRUE /\ agentDeclared' = declared /\ recorded' = << >> /\ holder' = "nobody"
      /\ UNCHANGED <<series, alerts, derived, appended, judged, fed, thread>>
  BY DEF Start, At, engineVars
<1>2. ~recording /\ gui = Start1 /\ gui' = << >>
  BY <1>1, GuiAt, CallTails DEF FlagTypes
<1>3. gui \in Locked /\ gui \in Flushed /\ gui' \notin Locked /\ gui' \notin Flushed /\ gui' \notin {Start1, Start2}
  BY <1>2, CallPlaces
<1>4. thread["worker"].at = "idle" /\ thread["agent"].at \in {"idle", "lock"} /\ judged = << >> /\ fed = << >>
  BY <1>2, <1>3 DEF LockInv, AtRest, RecordInv
<1>5. ThreadsInv' /\ GuiInv' /\ FlagTypes'
  BY <1>1, <1>2, ThreadsStand DEF GuiInv, FlagTypes
<1>6. LockInv'
  BY <1>1, <1>3, <1>4 DEF LockInv
<1>7. RecordInv'
  <2>1. \A places, p : "idle" \notin places /\ "lock" \notin places => InAll(places, p)' = 0
    BY <1>1, <1>4 DEF InAll, Underway
  <2>2. ASSUME NEW p PROVE JudgedInv(p)' /\ FedInv(p)'
    BY <1>1, <1>4, <2>1, NoOccurrences DEF JudgedInv, FedInv
  <2>. QED
    BY <1>1, <1>3, <1>4, <2>2 DEF RecordInv
<1>8. SampleTypes'
  BY <1>1 DEF SampleTypes
<1>. QED
  BY <1>1, <1>5, <1>6, <1>7, <1>8 DEF DerivedInv, AlertsInv, CurvesInv

LEMMA StopKeeps ==
  ASSUME AnalysisInv, Stop
  PROVE  AnalysisInv'
<1>. USE DEF AnalysisInv
<1>1. /\ gui # << >> /\ Head(gui).step = "stop" /\ gui' = Tail(gui)
      /\ recording' = FALSE /\ agentDeclared' = FALSE /\ recorded' = << >> /\ holder' = "nobody"
      /\ UNCHANGED <<series, alerts, derived, appended, judged, fed, thread>>
  BY DEF Stop, At, engineVars
<1>2. recording /\ gui = Stop1 /\ gui' = << >> /\ << >> \in Seq(Clearing)
  BY <1>1, GuiAt, CallTails DEF FlagTypes
<1>3. gui \in Locked /\ gui \in Flushed /\ gui' \notin Locked /\ gui' \notin Flushed /\ gui' \notin {Start1, Start2}
  BY <1>2, CallPlaces
<1>4. thread["agent"].at \in {"idle", "lock"}
  BY <1>3 DEF LockInv
<1>5. ThreadsInv' /\ GuiInv' /\ FlagTypes'
  BY <1>1, <1>2, ThreadsStand DEF GuiInv, FlagTypes
<1>6. LockInv'
  BY <1>1, <1>3, <1>4 DEF LockInv
<1>7. RecordInv'
  BY <1>1, <1>3 DEF RecordInv
<1>8. SampleTypes'
  BY <1>1 DEF SampleTypes
<1>. QED
  BY <1>1, <1>5, <1>6, <1>7, <1>8 DEF DerivedInv, AlertsInv, CurvesInv

-----------------------------------------------------------------------------
(* What holds of every state of the analysis *)

LEMMA AnalysisBegins == AnalysisInit => AnalysisInv
<1>. SUFFICES ASSUME AnalysisInit PROVE AnalysisInv
  OBVIOUS
<1>1. /\ series = [c \in Curves |-> EmptySeries] /\ appended = [c \in Curves |-> << >>]
      /\ alerts = FreshAlerts /\ judged = << >> /\ fed = << >>
      /\ thread = [t \in Threads |-> AtRest] /\ gui = << >> /\ holder = "nobody"
      /\ recording = FALSE /\ agentDeclared = FALSE /\ recorded = << >>
  BY DEF AnalysisInit
<1>2. ThreadsInv
  <2>1. AtRest \in [at : Stations, samples : Seq(Sample)]
    BY DEF AtRest, Stations
  <2>. QED
    BY <1>1, <2>1 DEF ThreadsInv, ThreadInv, AtRest
<1>3. SampleTypes /\ FlagTypes
  <2>1. \A T : << >> \in Seq(T)
    OBVIOUS
  <2>. QED
    BY <1>1, <2>1 DEF SampleTypes, FlagTypes
<1>4. GuiInv
  <2>1. << >> \in Seq(Clearing)
    OBVIOUS
  <2>. QED
    BY <1>1, <2>1 DEF GuiInv
<1>5. LockInv /\ RecordInv
  <2>1. gui \notin Locked /\ gui \notin Flushed /\ gui \notin {Start1, Start2}
    BY <1>1, CallPlaces
  <2>2. thread["agent"].at = "idle"
    BY <1>1 DEF Threads, AtRest
  <2>. QED
    BY <1>1, <2>1, <2>2 DEF LockInv, RecordInv
<1>6. DerivedInv
  <2>1. PICK defs \in Configurations : Acceptable(defs) /\ derived = FreshDerived(defs, Order(defs))
    BY DEF AnalysisInit
  <2>2. derived.defs = defs
    BY <2>1 DEF FreshDerived
  <2>. QED
    BY <2>1, <2>2, OrderIsOrder, FreshKeeps DEF DerivedInv
<1>7. AlertsInv(alerts, judged)
  BY <1>1, FreshAlertsInv
<1>8. CurvesInv(series, appended)
  BY <1>1, RingEmpty DEF CurvesInv
<1>. QED
  BY <1>2, <1>3, <1>4, <1>5, <1>6, <1>7, <1>8 DEF AnalysisInv

LEMMA AnalysisStep == AnalysisInv /\ [AnalysisNext]_analysisVars => AnalysisInv'
<1>. SUFFICES ASSUME AnalysisInv, [AnalysisNext]_analysisVars PROVE AnalysisInv'
  OBVIOUS
<1>1. ASSUME NEW t \in Threads, NEW time \in Times, NEW value \in ValuesOf[t], Receive(t, value, time)
      PROVE  AnalysisInv'
  BY <1>1, ReceiveKeeps
<1>2. CASE LockRouting
  BY <1>2, LockRoutingKeeps
<1>3. ASSUME NEW t \in Threads, ProducerStep(t) PROVE AnalysisInv'
  BY <1>3, AppendSamplesKeeps, JudgeSamplesKeeps, DeriveKeeps, AppendDerivedKeeps, JudgeDerivedKeeps
     DEF ProducerStep
<1>4. CASE ParserReset \/ SetAlertRules \/ StartSession \/ StopSession
  BY <1>4, ParserResetKeeps, SetAlertRulesKeeps, StartSessionKeeps, StopSessionKeeps
<1>5. ASSUME NEW defs \in Configurations, SetDerivedFields(defs) PROVE AnalysisInv'
  BY <1>5, SetDerivedFieldsKeeps
<1>6. CASE GuiStep
  BY <1>6, LockKeeps, FlushPipelineKeeps, ResetDerivedKeeps, ResetAlertsKeeps, ClearCurvesKeeps,
     StopKeeps, StartKeeps DEF GuiStep
<1>7. CASE UNCHANGED analysisVars
  <2>1. UNCHANGED <<series, alerts, derived, appended, judged, fed, thread, gui, holder, recording,
                    agentDeclared, recorded>>
    BY <1>7 DEF analysisVars, engineVars, sessionVars
  <2>2. ThreadsInv' /\ SampleTypes' /\ FlagTypes' /\ GuiInv' /\ LockInv'
    BY <2>1 DEF AnalysisInv, ThreadsInv, ThreadInv, SampleTypes, FlagTypes, GuiInv, LockInv
  <2>3. RecordInv'
    BY <2>1, RecordStands DEF AnalysisInv, RecordInv
  <2>. QED
    BY <2>1, <2>2, <2>3 DEF AnalysisInv, DerivedInv, AlertsInv, CurvesInv
<1>. QED
  BY <1>1, <1>2, <1>3, <1>4, <1>5, <1>6, <1>7 DEF AnalysisNext

\* The analysis' inductive invariant: where its two threads and the GUI stand, who holds the
\* lock, what the engines hold and what of the record is still on its way to them.
THEOREM AnalysisIsInvariant == AnalysisSpec => []AnalysisInv
<1>. QED
  BY AnalysisBegins, AnalysisStep, PTL DEF AnalysisSpec

\* A curve shows the last Capacity points it was given in the order of their times, whatever
\* order two threads gave them in, and the times it spans (RingBuffer, copyRange, bounds).
THEOREM SeriesTheorem == AnalysisSpec => []SeriesIsTail
<1>1. AnalysisInv => SeriesIsTail
  <2>. SUFFICES ASSUME AnalysisInv, NEW c \in Curves
                PROVE  /\ \A since, until \in Times :
                            CopyRange(series[c], since, until)
                              = Within(StablySorted(LastPoints(appended[c])), since, until)
                       /\ LastPoints(appended[c]) # << >> =>
                            Bounds(series[c]) = <<Head(StablySorted(LastPoints(appended[c]))).time,
                                                  Last(StablySorted(LastPoints(appended[c]))).time>>
    BY DEF SeriesIsTail
  <2>1. RingInv(series[c], appended[c])
    BY DEF AnalysisInv, CurvesInv
  <2>. QED
    BY <2>1, CurveIsTail
<1>. QED
  BY <1>1, AnalysisIsInvariant, PTL

\* An alert is on exactly if a breach lasted long enough and nothing has recovered since
\* (ThresholdAlertEngine::consumeBatch), for all rules and all samples.
THEOREM AlertTheorem == AnalysisSpec => []AlertIsSustained
<1>1. AnalysisInv => AlertIsSustained
  BY DEF AnalysisInv, AlertsInv, RuleInv, AlertIsSustained
<1>. QED
  BY <1>1, AnalysisIsInvariant, PTL

\* Between the calls of its threads, a recording holds the samples both engines were given
\* since its start, each as often, and no others (startSession()).
THEOREM RecordTheorem == AnalysisSpec => []EnginesSeeTheRecord
<1>1. AnalysisInv => EnginesSeeTheRecord
  <2>. SUFFICES ASSUME AnalysisInv, recording, \A t \in Threads : thread[t].at \in {"idle", "lock"},
                       NEW p \in ToSet(judged) \cup ToSet(fed) \cup ToSet(recorded)
                PROVE  /\ Occurrences(judged, p) = Occurrences(recorded, p)
                       /\ Occurrences(fed, p) = IF p.source = "derived" THEN 0 ELSE Occurrences(recorded, p)
    BY DEF EnginesSeeTheRecord
  <2>1. judged \in Seq(Sample) /\ recorded \in Seq(Sample) /\ fed \in Seq(SourceSample)
    BY DEF AnalysisInv, SampleTypes
  <2>2. p \in Sample
    <3>1. \A s \in Seq(Sample) : ToSet(s) \subseteq Sample
      BY DEF ToSet
    <3>2. fed \in Seq(Sample)
      BY <2>1 DEF Sample
    <3>. QED
      BY <2>1, <3>1, <3>2
  <2>3. \A places : "idle" \notin places /\ "lock" \notin places => InAll(places, p) = 0
    BY DEF InAll, Underway, Threads
  <2>4. JudgedInv(p) /\ FedInv(p)
    BY <2>2 DEF AnalysisInv, RecordInv
  <2>5. /\ Occurrences(judged, p) \in Nat /\ Occurrences(fed, p) \in Nat /\ Occurrences(recorded, p) \in Nat
    BY <2>1, OccurrencesFinite
  <2>6. Occurrences(judged, p) = Occurrences(recorded, p)
    BY <2>3, <2>4, <2>5 DEF JudgedInv
  <2>7. CASE p.source = "derived"
    <3>1. \A i \in DOMAIN fed : fed[i] # p
      <4>1. \A i \in DOMAIN fed : fed[i] \in SourceSample
        BY <2>1
      <4>2. \A q \in SourceSample : q.source # "derived"
        BY DEF SourceSample, Threads
      <4>. QED
        BY <2>7, <4>1, <4>2
    <3>2. Occurrences(fed, p) = 0
      BY <2>1, <3>1, OccurrencesFinite
    <3>. QED
      BY <2>6, <2>7, <3>2
  <2>8. CASE p.source # "derived"
    BY <2>3, <2>4, <2>5, <2>6, <2>8 DEF FedInv
  <2>. QED
    BY <2>7, <2>8
<1>. QED
  BY <1>1, AnalysisIsInvariant, PTL
==============================================================================
