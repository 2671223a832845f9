----------------------- MODULE RawLogRecorder_proofs -----------------------
(***************************************************************************)
(* Proofs about RawLogRecorder for every number of chunks and of logs,     *)
(* that it implements AppendLog, and about what a reader recovers.         *)
(***************************************************************************)
EXTENDS RawLogRecovery, SequenceTheorems, WellFoundedInduction, TLAPS

\* Who may exist beside whom while start() or stop() is under way.
ThreadsInv ==
  /\ caller \in {"joined", "starting", "spawn"} => worker = "none"
  /\ caller \in {"stopping", "join", "joined", "starting"} => ~recording
  /\ caller = "idle" => (recording <=> worker # "none")
  /\ caller = "spawn" => recording
  /\ stop <=> caller = "join"
  /\ caller = "starting" => restart
  /\ caller \notin {"idle", "spawn"} /\ restart => starts < MaxStarts

\* What is open, and what may still be on its way, while no worker runs.
StreamInv ==
  /\ recording => streamOpen
  /\ worker # "none" => streamOpen
  /\ caller = "starting" => ~streamOpen
  /\ caller = "idle" /\ ~recording => ~streamOpen
  /\ ~recording /\ worker \in {"none", "exited"} => queue = <<>>
  /\ worker = "exited" => ~recording

ControlInv == TypeOK /\ ThreadsInv /\ StreamInv

\* No chunk is in the log before it has arrived.
ArrivedInv == \A i \in 1..Len(Log) : Log[i] <= arrived

IInv == ControlInv /\ NothingVanishes /\ LogIsOrdered /\ ArrivedInv
-----------------------------------------------------------------------------
(* The control: types, threads and the stream *)

LEMMA InitControl == Init => ControlInv
<1> SUFFICES ASSUME Init PROVE ControlInv
  OBVIOUS
<1>1. FlagsOK
  BY Zenon DEF Init, FlagsOK
<1>2. SequencesOK
  BY ChunksAssumption DEF Init, SequencesOK
<1>3. PointsOK
  BY DEF Init, PointsOK
<1>4. ThreadsInv /\ StreamInv
  BY DEF Init, ThreadsInv, StreamInv
<1>5. QED
  BY <1>1, <1>2, <1>3, <1>4 DEF ControlInv, TypeOK

LEMMA EnqueueControl == ControlInv /\ Enqueue => ControlInv'
<1> SUFFICES ASSUME ControlInv, Enqueue PROVE ControlInv'
  OBVIOUS
<1> USE ChunksAssumption DEF ControlInv, TypeOK, MayAccept, WakeWorker, stream
<1>1. FlagsOK'
  BY Zenon DEF FlagsOK, Enqueue
<1>2. SequencesOK'
  <2>1. arrived' \in Chunks
    BY DEF SequencesOK, Enqueue, Chunks
  <2>2. queue' \in Seq(Chunks) /\ accepted' \in Seq(Chunks)
    <3>1. Append(queue, arrived') \in Seq(Chunks) /\ Append(accepted, arrived') \in Seq(Chunks)
      BY <2>1, AppendProperties DEF SequencesOK
    <3>2. QED
      BY <3>1 DEF SequencesOK, Enqueue
  <2>3. (worker' = "write") <=> (worker = "write")
    BY DEF Enqueue
  <2>4. QED
    BY <2>1, <2>2, <2>3 DEF SequencesOK, Enqueue, Chunks
<1>3. PointsOK'
  BY DEF PointsOK, Enqueue
<1>4. ThreadsInv' /\ StreamInv'
  BY DEF ThreadsInv, StreamInv, PointsOK, Enqueue
<1>5. QED
  BY <1>1, <1>2, <1>3, <1>4

LEMMA CallerControl == ControlInv /\ CallerStep => ControlInv'
<1> SUFFICES ASSUME ControlInv, CallerStep PROVE ControlInv'
  OBVIOUS
<1> USE ChunksAssumption DEF ControlInv, TypeOK, WakeWorker, shared, stream, thread, history
<1>1. ASSUME NEW first \in BOOLEAN, Reject(first) PROVE ControlInv'
  <2>1. FlagsOK'
    BY <1>1, Zenon DEF FlagsOK, Reject
  <2>2. SequencesOK' /\ PointsOK'
    BY <1>1 DEF SequencesOK, PointsOK, Reject
  <2>3. ThreadsInv' /\ StreamInv'
    BY <1>1 DEF ThreadsInv, StreamInv, PointsOK, Reject
  <2>4. QED
    BY <2>1, <2>2, <2>3
<1>2. CASE RequestStop
  <2>1. FlagsOK'
    BY <1>2, Zenon DEF FlagsOK, RequestStop
  <2>2. SequencesOK' /\ PointsOK'
    BY <1>2 DEF SequencesOK, PointsOK, RequestStop
  <2>3. ThreadsInv' /\ StreamInv'
    BY <1>2 DEF ThreadsInv, StreamInv, PointsOK, RequestStop
  <2>4. QED
    BY <2>1, <2>2, <2>3
<1>3. CASE Join
  <2>1. FlagsOK'
    BY <1>3, Zenon DEF FlagsOK, Join
  <2>2. SequencesOK' /\ PointsOK'
    BY <1>3 DEF SequencesOK, PointsOK, Join
  <2>3. ThreadsInv' /\ StreamInv'
    BY <1>3 DEF ThreadsInv, StreamInv, PointsOK, Join
  <2>4. QED
    BY <2>1, <2>2, <2>3
<1>4. CASE Finish
  <2>1. FlagsOK'
    BY <1>4, Zenon DEF FlagsOK, Finish
  <2>2. PICK kept \in 0..Len(file) :
          file' = SubSeq(file, 1, kept) /\ lost' = lost + Len(file) - kept
    BY <1>4 DEF Finish
  <2>3. file' \in Seq(Chunks) /\ lost' \in Nat
    <3>1. Len(file) \in Nat /\ \A i \in 1..kept : file[i] \in Chunks
      BY <2>2, LenProperties, ElementOfSeq DEF SequencesOK
    <3>2. QED
      BY <2>2, <3>1, SubSeqProperties DEF SequencesOK
  <2>4. SequencesOK'
    BY <1>4, <2>3 DEF SequencesOK, Finish
  <2>5. PointsOK' /\ ThreadsInv' /\ StreamInv'
    BY <1>4 DEF PointsOK, ThreadsInv, StreamInv, Finish, AfterJoin
  <2>6. QED
    BY <2>1, <2>4, <2>5
<1>5. CASE OpenSucceeds
  <2>1. FlagsOK'
    BY <1>5, Zenon DEF FlagsOK, OpenSucceeds
  <2>2. SequencesOK' /\ PointsOK'
    <3>1. <<>> \in Seq(Chunks)
      BY EmptySeq
    <3>2. worker' = worker /\ starts' \in 0..MaxStarts
      BY <1>5 DEF SequencesOK, ThreadsInv, OpenSucceeds
    <3>3. QED
      BY <1>5, <3>1, <3>2 DEF SequencesOK, PointsOK, OpenSucceeds
  <2>3. ThreadsInv' /\ StreamInv'
    BY <1>5 DEF ThreadsInv, StreamInv, PointsOK, OpenSucceeds
  <2>4. QED
    BY <2>1, <2>2, <2>3
<1>6. CASE OpenFails
  <2>1. FlagsOK'
    BY <1>6, Zenon DEF FlagsOK, OpenFails
  <2>2. SequencesOK' /\ PointsOK'
    BY <1>6 DEF SequencesOK, PointsOK, OpenFails
  <2>3. ThreadsInv' /\ StreamInv'
    BY <1>6 DEF ThreadsInv, StreamInv, PointsOK, OpenFails
  <2>4. QED
    BY <2>1, <2>2, <2>3
<1>7. CASE Spawn
  <2>1. FlagsOK'
    BY <1>7, Zenon DEF FlagsOK, Spawn
  <2>2. SequencesOK' /\ PointsOK'
    BY <1>7 DEF SequencesOK, PointsOK, ThreadsInv, Spawn
  <2>3. ThreadsInv' /\ StreamInv'
    BY <1>7 DEF ThreadsInv, StreamInv, PointsOK, Spawn
  <2>4. QED
    BY <2>1, <2>2, <2>3
<1>8. QED
  BY <1>1, <1>2, <1>3, <1>4, <1>5, <1>6, <1>7 DEF CallerStep

LEMMA WorkerControl == ControlInv /\ WorkerStep => ControlInv'
<1> SUFFICES ASSUME ControlInv, WorkerStep PROVE ControlInv'
  OBVIOUS
<1> USE ChunksAssumption DEF ControlInv, TypeOK, shared, stream, thread, history
<1>1. CASE Sleep
  <2>1. FlagsOK'
    BY <1>1, Zenon DEF FlagsOK, Sleep
  <2>2. SequencesOK' /\ PointsOK'
    BY <1>1 DEF SequencesOK, PointsOK, Sleep
  <2>3. ThreadsInv' /\ StreamInv'
    BY <1>1 DEF ThreadsInv, StreamInv, PointsOK, Sleep
  <2>4. QED
    BY <2>1, <2>2, <2>3
<1>2. CASE Exit
  <2>1. FlagsOK'
    BY <1>2, Zenon DEF FlagsOK, Exit
  <2>2. SequencesOK' /\ PointsOK'
    BY <1>2 DEF SequencesOK, PointsOK, Exit
  <2>3. ThreadsInv' /\ StreamInv'
    BY <1>2 DEF ThreadsInv, StreamInv, PointsOK, Exit, ExitDrained
  <2>4. QED
    BY <2>1, <2>2, <2>3
<1>3. CASE Take
  <2>1. FlagsOK'
    BY <1>3, Zenon DEF FlagsOK, Take
  <2>2. Head(queue) \in Chunks /\ Tail(queue) \in Seq(Chunks)
    BY <1>3, HeadTailProperties DEF Take, SequencesOK
  <2>3. SequencesOK' /\ PointsOK'
    BY <1>3, <2>2 DEF SequencesOK, PointsOK, Take, Oldest
  <2>4. ThreadsInv' /\ StreamInv'
    BY <1>3 DEF ThreadsInv, StreamInv, PointsOK, Take
  <2>5. QED
    BY <2>1, <2>3, <2>4
<1>4. CASE Write
  <2>1. FlagsOK'
    BY <1>4, Zenon DEF FlagsOK, Write
  <2>2. (file \o hand) \in Seq(Chunks)
    BY ConcatProperties DEF SequencesOK
  <2>3. SequencesOK' /\ PointsOK'
    <3>1. <<>> \in Seq(Chunks) /\ Len(<<>>) = 0
      BY EmptySeq
    <3>2. file' \in Seq(Chunks)
      BY <1>4, <2>2 DEF SequencesOK, Write
    <3>3. lost' \in Nat
      BY <1>4 DEF SequencesOK, Write
    <3>4. worker' = "run" /\ hand' = <<>>
      BY <1>4 DEF Write, MovedOut
    <3>5. QED
      BY <1>4, <3>1, <3>2, <3>3, <3>4 DEF SequencesOK, PointsOK, Write
  <2>4. ThreadsInv' /\ StreamInv'
    BY <1>4 DEF ThreadsInv, StreamInv, PointsOK, Write
  <2>5. QED
    BY <2>1, <2>3, <2>4
<1>5. QED
  BY <1>1, <1>2, <1>3, <1>4 DEF WorkerStep

LEMMA ControlStep == ControlInv /\ [Next]_vars => ControlInv'
<1>1. ControlInv /\ UNCHANGED vars => ControlInv'
  BY DEF ControlInv, TypeOK, FlagsOK, SequencesOK, PointsOK, ThreadsInv, StreamInv, vars,
         shared, stream, thread, history
<1>2. QED
  BY <1>1, EnqueueControl, CallerControl, WorkerControl DEF Next

\* Every variable keeps its type, whatever the number of chunks and of logs.
THEOREM TypeCorrect == Spec => []TypeOK
<1>1. Spec => []ControlInv
  BY InitControl, ControlStep, PTL DEF Spec
<1>2. ControlInv => TypeOK
  BY DEF ControlInv
<1>3. QED
  BY <1>1, <1>2, PTL
-----------------------------------------------------------------------------
(* The log, and what each step does to it *)

\* A sequence is its head before its tail.
LEMMA HeadThenTail ==
  ASSUME NEW S, NEW s \in Seq(S), s # <<>>
  PROVE  <<Head(s)>> \o Tail(s) = s
<1>1. /\ Head(s) \in S /\ Tail(s) \in Seq(S) /\ Len(Tail(s)) = Len(s) - 1
      /\ \A i \in 1..Len(Tail(s)) : Tail(s)[i] = s[i + 1]
  BY HeadTailProperties
<1>2. <<Head(s)>> \in Seq(S) /\ Len(<<Head(s)>>) = 1 /\ <<Head(s)>>[1] = s[1]
  BY <1>1
<1>3. DEFINE t == <<Head(s)>> \o Tail(s)
<1>3a. /\ t \in Seq(S) /\ Len(t) = Len(<<Head(s)>>) + Len(Tail(s))
       /\ \A i \in 1..Len(<<Head(s)>>) + Len(Tail(s)) :
            t[i] = IF i <= Len(<<Head(s)>>) THEN <<Head(s)>>[i]
                   ELSE Tail(s)[i - Len(<<Head(s)>>)]
  <2>1. <<Head(s)>> \in Seq(S)
    BY <1>2
  <2>2. Tail(s) \in Seq(S)
    BY <1>1
  <2>3. QED
    BY <2>1, <2>2, ConcatProperties, Zenon
<1> HIDE DEF t
<1>4. /\ t \in Seq(S) /\ Len(t) = 1 + Len(Tail(s))
      /\ \A i \in 1..Len(t) :
           t[i] = IF i <= 1 THEN <<Head(s)>>[i] ELSE Tail(s)[i - 1]
  BY <1>2, <1>3a
<1>5. Len(s) \in Nat /\ Len(t) = Len(s)
  BY <1>1, <1>4, LenProperties
<1>6. \A i \in 1..Len(t) : t[i] = s[i]
  <2> SUFFICES ASSUME NEW i \in 1..Len(t) PROVE t[i] = s[i]
    OBVIOUS
  <2>1. CASE i = 1
    BY <2>1, <1>2, <1>4
  <2>2. CASE i # 1
    <3>1. i - 1 \in 1..Len(Tail(s)) /\ (i - 1) + 1 = i
      BY <2>2, <1>1, <1>5
    <3>2. QED
      BY <2>2, <3>1, <1>1, <1>4
  <2>3. QED
    BY <2>1, <2>2
<1>7. QED
  <2>1. t = s
    BY <1>4, <1>5, <1>6, SeqEqual
  <2>2. QED
    BY <2>1 DEF t

\* The sequence all is s followed by t with one element more between them.
OneBetween(all, s, t) ==
  /\ SubSeq(all, 1, Len(s)) \o SubSeq(all, Len(s) + 2, Len(all)) = s \o t
  /\ Len(all) = Len(s \o t) + 1
  /\ \A i \in 1..Len(s \o t) : (s \o t)[i] = IF i <= Len(s) THEN all[i] ELSE all[i + 1]

LEMMA WithoutMiddle ==
  ASSUME NEW S, NEW s \in Seq(S), NEW h \in Seq(S), NEW t \in Seq(S), Len(h) = 1
  PROVE  OneBetween((s \o h) \o t, s, t)
<1> DEFINE sh == s \o h
           all == (s \o h) \o t
<1>1. Len(s) \in Nat /\ Len(t) \in Nat
  BY LenProperties
<1>2. /\ sh \in Seq(S) /\ Len(sh) = Len(s) + Len(h)
      /\ \A i \in 1..Len(s) + Len(h) : sh[i] = IF i <= Len(s) THEN s[i] ELSE h[i - Len(s)]
  BY ConcatProperties, Zenon
<1> HIDE DEF sh
<1>2a. all = sh \o t
  BY DEF sh
<1> HIDE DEF all
<1>3a. /\ sh \o t \in Seq(S) /\ Len(sh \o t) = Len(sh) + Len(t)
       /\ \A i \in 1..Len(sh) + Len(t) :
            (sh \o t)[i] = IF i <= Len(sh) THEN sh[i] ELSE t[i - Len(sh)]
  <2>1. sh \in Seq(S)
    BY <1>2
  <2>2. QED
    BY <2>1, ConcatProperties, Zenon
<1>3. /\ all \in Seq(S) /\ Len(all) = Len(s) + 1 + Len(t)
      /\ \A i \in 1..Len(sh) + Len(t) :
           all[i] = IF i <= Len(sh) THEN sh[i] ELSE t[i - Len(sh)]
  BY <1>1, <1>2, <1>2a, <1>3a
<1>4. \A i \in 1..Len(s) : all[i] = s[i]
  BY <1>1, <1>2, <1>3
<1>5. \A i \in 1..Len(t) : all[Len(s) + 1 + i] = t[i]
  <2> SUFFICES ASSUME NEW i \in 1..Len(t) PROVE all[Len(s) + 1 + i] = t[i]
    OBVIOUS
  <2>1. /\ Len(s) + 1 + i \in 1..Len(sh) + Len(t) /\ ~(Len(s) + 1 + i <= Len(sh))
        /\ (Len(s) + 1 + i) - Len(sh) = i
    BY <1>1, <1>2
  <2>2. QED
    BY <2>1, <1>3
<1>6. SubSeq(all, 1, Len(s)) = s
  <2>1. \A i \in 1..Len(s) : all[i] \in S
    BY <1>4, ElementOfSeq
  <2>2. /\ SubSeq(all, 1, Len(s)) \in Seq(S)
        /\ Len(SubSeq(all, 1, Len(s))) = Len(s)
        /\ \A i \in 1..Len(s) : SubSeq(all, 1, Len(s))[i] = all[i]
    BY <1>1, <2>1, SubSeqProperties
  <2>3. QED
    BY <2>2, <1>4, SeqEqual
<1>7. SubSeq(all, Len(s) + 2, Len(all)) = t
  <2> DEFINE first == Len(s) + 2
             u == SubSeq(all, first, Len(all))
  <2>1. \A i \in first..Len(all) : all[i] \in S
    BY <1>1, <1>3, ElementOfSeq
  <2>2. first \in Int /\ Len(all) \in Int
    BY <1>1, <1>3
  <2>3. /\ u \in Seq(S)
        /\ Len(u) = (IF first <= Len(all) THEN Len(all) - first + 1 ELSE 0)
        /\ \A i \in 1..Len(all) - first + 1 : u[i] = all[first + i - 1]
    BY <2>1, <2>2, SubSeqProperties
  <2> HIDE DEF u
  <2>4. Len(u) = Len(t) /\ Len(all) - first + 1 = Len(t)
    BY <1>1, <1>3, <2>3
  <2>5. \A i \in 1..Len(t) : first + i - 1 = Len(s) + 1 + i
    BY <1>1
  <2>6. \A i \in 1..Len(u) : u[i] = t[i]
    BY <1>5, <2>3, <2>4, <2>5
  <2>7. u = t
    BY <2>3, <2>4, <2>6, SeqEqual
  <2>8. QED
    BY <2>7 DEF u
<1>8. /\ Len(s \o t) = Len(s) + Len(t)
      /\ \A i \in 1..Len(s) + Len(t) :
           (s \o t)[i] = IF i <= Len(s) THEN s[i] ELSE t[i - Len(s)]
  BY ConcatProperties, Zenon
<1>9. \A i \in 1..Len(s \o t) :
        (s \o t)[i] = IF i <= Len(s) THEN all[i] ELSE all[i + 1]
  <2> SUFFICES ASSUME NEW i \in 1..Len(s) + Len(t)
               PROVE  (s \o t)[i] = IF i <= Len(s) THEN all[i] ELSE all[i + 1]
    BY <1>8
  <2>1. CASE i <= Len(s)
    BY <2>1, <1>1, <1>4, <1>8
  <2>2. CASE ~(i <= Len(s))
    <3>1. i - Len(s) \in 1..Len(t) /\ Len(s) + 1 + (i - Len(s)) = i + 1
      BY <2>2, <1>1
    <3>2. QED
      BY <2>2, <3>1, <1>5, <1>8
  <2>3. QED
    BY <2>1, <2>2
<1>10. QED
  <2>1. SubSeq(all, 1, Len(s)) \o SubSeq(all, Len(s) + 2, Len(all)) = s \o t
    BY <1>6, <1>7, Zenon
  <2>2. Len(all) = Len(s \o t) + 1
    BY <1>1, <1>3, <1>8
  <2>3. QED
    BY <2>1, <2>2, <1>9, Zenon DEF all, OneBetween
\* The log is a sequence of chunks, and its length is that of its three parts.
LEMMA LogOK ==
  ASSUME SequencesOK
  PROVE  /\ Log \in Seq(Chunks) /\ file \o hand \in Seq(Chunks)
         /\ Len(Log) = Len(file) + Len(hand) + Len(queue)
<1>1. file \in Seq(Chunks) /\ hand \in Seq(Chunks) /\ queue \in Seq(Chunks)
  BY DEF SequencesOK
<1>2. file \o hand \in Seq(Chunks) /\ Len(file \o hand) = Len(file) + Len(hand)
  BY <1>1, ConcatProperties
<1> DEFINE written == file \o hand
<1> HIDE DEF written
<1>3. written \in Seq(Chunks) /\ Len(written) = Len(file) + Len(hand)
  BY <1>2 DEF written
<1>4. written \o queue \in Seq(Chunks) /\ Len(written \o queue) = Len(written) + Len(queue)
  BY <1>1, <1>3, ConcatProperties
<1>5. QED
  BY <1>2, <1>3, <1>4 DEF written, Log

LEMMA HandEmpty ==
  ASSUME SequencesOK, worker # "write"
  PROVE  hand = <<>>
BY EmptySeq DEF SequencesOK

\* With nothing on its way the log is the file.
LEMMA QuietLog ==
  ASSUME SequencesOK, worker # "write", queue = <<>>
  PROVE  Log = file
<1>1. hand = <<>> /\ file \in Seq(Chunks)
  BY HandEmpty DEF SequencesOK
<1>2. file \o <<>> = file
  BY <1>1, ConcatEmptySeq
<1>3. QED
  BY <1>1, <1>2 DEF Log

\* enqueue() appends the chunk to the log.
LEMMA EnqueueLog ==
  ASSUME SequencesOK, Enqueue, recording
  PROVE  Log' = Append(Log, arrived')
<1>1. arrived' \in Chunks /\ queue' = Append(queue, arrived') /\ file' = file /\ hand' = hand
  BY ChunksAssumption DEF SequencesOK, Enqueue, MayAccept, stream, Chunks
<1>2. <<arrived'>> \in Seq(Chunks)
  BY <1>1
<1>3. queue \in Seq(Chunks) /\ file \o hand \in Seq(Chunks) /\ Log \in Seq(Chunks)
  BY LogOK DEF SequencesOK
<1>4. Append(queue, arrived') = queue \o <<arrived'>>
  BY <1>1, <1>3, AppendIsConcat
<1>5. Append(Log, arrived') = Log \o <<arrived'>>
  BY <1>1, <1>3, AppendIsConcat
<1>6. ((file \o hand) \o queue) \o <<arrived'>> = (file \o hand) \o (queue \o <<arrived'>>)
  BY <1>2, <1>3, ConcatAssociative
<1>7. QED
  BY <1>1, <1>4, <1>5, <1>6 DEF Log

\* Taking a chunk out of the queue moves it, and the log does not change.
LEMMA TakeLog ==
  ASSUME SequencesOK, Take
  PROVE  Log' = Log
<1>1. /\ hand = <<>> /\ queue # <<>> /\ queue \in Seq(Chunks) /\ file \in Seq(Chunks)
      /\ hand' = <<Head(queue)>> /\ queue' = Tail(queue) /\ file' = file
  BY HandEmpty DEF SequencesOK, Take, Oldest, stream
<1>2. <<Head(queue)>> \in Seq(Chunks) /\ Tail(queue) \in Seq(Chunks)
  BY <1>1, HeadTailProperties
<1>3. (file \o <<Head(queue)>>) \o Tail(queue) = file \o (<<Head(queue)>> \o Tail(queue))
  BY <1>1, <1>2, ConcatAssociative
<1>4. <<Head(queue)>> \o Tail(queue) = queue
  BY <1>1, HeadThenTail
<1>5. file \o <<>> = file
  BY <1>1, ConcatEmptySeq
<1>6. QED
  BY <1>1, <1>3, <1>4, <1>5 DEF Log

\* Writing turns the oldest chunk that is not written into one that is, ...
LEMMA WrittenLog ==
  ASSUME SequencesOK, hand' = <<>>, file' = file \o hand, queue' = queue
  PROVE  Log' = Log
<1>1. file \o hand \in Seq(Chunks)
  BY LogOK
<1>2. (file \o hand) \o <<>> = file \o hand
  BY <1>1, ConcatEmptySeq
<1>3. QED
  BY <1>2 DEF Log

\* ... or takes it out of the log.
LEMMA LostLog ==
  ASSUME SequencesOK, worker = "write", hand' = <<>>, file' = file, queue' = queue
  PROVE  /\ Log' = SubSeq(Log, 1, Len(file)) \o SubSeq(Log, Len(file) + 2, Len(Log))
         /\ Len(Log) = Len(Log') + 1 /\ Len(file) < Len(Log)
         /\ \A i \in 1..Len(Log') : Log'[i] = IF i <= Len(file) THEN Log[i] ELSE Log[i + 1]
<1>1. /\ file \in Seq(Chunks) /\ hand \in Seq(Chunks) /\ queue \in Seq(Chunks)
      /\ Len(hand) = 1 /\ Len(file) \in Nat /\ Len(queue) \in Nat
  BY LenProperties DEF SequencesOK
<1>2. Log = (file \o hand) \o queue
  BY DEF Log
<1>3. file \o <<>> = file
  BY <1>1, ConcatEmptySeq
<1>4. Log' = file \o queue
  BY <1>3 DEF Log
<1>5. Len(file) < Len(Log)
  BY <1>1, LogOK
<1>6. OneBetween((file \o hand) \o queue, file, queue)
  <2>1. file \in Seq(Chunks)
    BY <1>1
  <2>2. hand \in Seq(Chunks)
    BY <1>1
  <2>3. queue \in Seq(Chunks)
    BY <1>1
  <2>4. Len(hand) = 1
    BY <1>1
  <2>5. QED
    BY <2>1, <2>2, <2>3, <2>4, WithoutMiddle, Zenon
<1>7. QED
  BY <1>2, <1>4, <1>5, <1>6, Zenon DEF OneBetween

\* stop() keeps a beginning of the log, all of it when no stream was open.
LEMMA FinishLog ==
  ASSUME ControlInv, Finish
  PROVE  /\ Log = file /\ Log' = file'
         /\ \E kept \in 0..Len(Log) :
              /\ Log' = SubSeq(Log, 1, kept) /\ Len(Log') = kept
              /\ lost' = lost + Len(Log) - kept
              /\ \A i \in 1..kept : Log'[i] = Log[i]
              /\ kept = Len(Log) => Log' = Log
              /\ streamOpen \/ kept = Len(Log)
<1>1. /\ SequencesOK /\ worker = "none" /\ queue = <<>> /\ worker' = worker /\ queue' = <<>>
      /\ hand' = hand
  BY DEF ControlInv, TypeOK, ThreadsInv, StreamInv, Finish, AfterJoin, thread
<1>2. ControlInv'
  BY CallerControl DEF CallerStep
<1>3. SequencesOK'
  BY <1>2 DEF ControlInv, TypeOK
<1>4. Log = file
  BY <1>1, QuietLog
<1>5. hand = <<>> /\ file' \in Seq(Chunks) /\ file \in Seq(Chunks)
  BY <1>1, <1>3, HandEmpty DEF SequencesOK
<1>6. file' \o <<>> = file'
  BY <1>5, ConcatEmptySeq
<1>7. Log' = file'
  BY <1>1, <1>5, <1>6 DEF Log
<1>8. PICK kept \in 0..Len(file) :
        /\ streamOpen \/ kept = Len(file)
        /\ file' = SubSeq(file, 1, kept) /\ lost' = lost + Len(file) - kept
  BY DEF Finish
<1>9. Len(file) \in Nat /\ \A i \in 1..kept : file[i] \in Chunks
  BY <1>5, <1>8, LenProperties, ElementOfSeq
<1>10. /\ Len(SubSeq(file, 1, kept)) = kept
       /\ \A i \in 1..kept : SubSeq(file, 1, kept)[i] = file[i]
  <2>1. /\ Len(SubSeq(file, 1, kept)) = (IF 1 <= kept THEN kept - 1 + 1 ELSE 0)
        /\ \A i \in 1..kept - 1 + 1 : SubSeq(file, 1, kept)[i] = file[1 + i - 1]
    BY <1>9, SubSeqProperties
  <2>2. QED
    BY <1>9, <2>1
<1>11. SubSeq(file, 1, Len(file)) = file
  BY <1>5, SubSeqFull
<1>12. QED
  BY <1>4, <1>7, <1>8, <1>10, <1>11
-----------------------------------------------------------------------------
(* The safety properties *)

\* The five things a step can do to the log.
Keeps == Log' = Log /\ lost' = lost /\ accepted' = accepted /\ arrived <= arrived'

Accepts ==
  /\ Log' = Append(Log, arrived') /\ accepted' = Append(accepted, arrived')
  /\ arrived' = arrived + 1 /\ lost' = lost

Loses ==
  /\ Len(Log) = Len(Log') + 1 /\ lost' = lost + 1
  /\ \E gap \in Nat :
       \A i \in 1..Len(Log') : Log'[i] = IF i <= gap THEN Log[i] ELSE Log[i + 1]
  /\ accepted' = accepted /\ arrived' = arrived

Cuts ==
  /\ \E kept \in 0..Len(Log) :
       /\ Len(Log') = kept /\ lost' = lost + Len(Log) - kept
       /\ \A i \in 1..kept : Log'[i] = Log[i]
       /\ kept = Len(Log) => Log' = Log
  /\ accepted' = accepted /\ arrived' = arrived

Restarts == Log' = <<>> /\ lost' = 0 /\ accepted' = <<>> /\ arrived' = arrived

LEMMA WriteStep ==
  ASSUME ControlInv, Write
  PROVE  \/ Keeps /\ Len(file') = Len(file) + 1 /\ Len(file) < Len(Log)
         \/ Loses /\ file' = file
<1>1. /\ SequencesOK /\ worker = "write" /\ hand' = <<>> /\ queue' = queue
      /\ accepted' = accepted /\ arrived' = arrived
  BY DEF ControlInv, TypeOK, Write, MovedOut, shared
<1>2. /\ Len(file) \in Nat /\ Len(queue) \in Nat /\ Len(hand) = 1 /\ arrived \in Nat
      /\ file \in Seq(Chunks) /\ hand \in Seq(Chunks)
  BY <1>1, LenProperties, ChunksAssumption DEF SequencesOK
<1>3. CASE file' = file \o hand /\ lost' = lost
  <2>1. Log' = Log
    BY <1>1, <1>3, WrittenLog
  <2>2. Len(file') = Len(file) + 1
    <3>1. Len(file \o hand) = Len(file) + Len(hand)
      BY <1>2, ConcatProperties
    <3>2. QED
      BY <1>2, <1>3, <3>1
  <2>3. Len(file) < Len(Log)
    BY <1>1, <1>2, LogOK
  <2>4. QED
    BY <1>1, <1>2, <1>3, <2>1, <2>2, <2>3 DEF Keeps
<1>4. CASE file' = file /\ lost' = lost + 1
  <2>1. /\ Len(Log) = Len(Log') + 1
        /\ \A i \in 1..Len(Log') : Log'[i] = IF i <= Len(file) THEN Log[i] ELSE Log[i + 1]
    BY <1>1, <1>4, LostLog
  <2>2. QED
    BY <1>1, <1>2, <1>4, <2>1 DEF Loses
<1>5. QED
  BY <1>3, <1>4 DEF Write

LEMMA LogStep ==
  ASSUME ControlInv, [Next]_vars
  PROVE  Keeps \/ Accepts \/ Loses \/ Cuts \/ Restarts
<1>1. SequencesOK /\ arrived \in Nat
  BY ChunksAssumption DEF ControlInv, TypeOK, SequencesOK
<1>2. CASE Enqueue
  <2>1. CASE recording
    BY <1>1, <1>2, <2>1, EnqueueLog DEF Enqueue, MayAccept, Accepts
  <2>2. CASE ~recording
    BY <1>1, <1>2, <2>2 DEF Enqueue, MayAccept, stream, Keeps, Log
  <2>3. QED
    BY <2>1, <2>2
<1>3. CASE Finish
  BY <1>3, FinishLog DEF Finish, Cuts
<1>4. CASE OpenSucceeds
  <2>1. worker # "write" /\ queue = <<>>
    BY <1>4 DEF OpenSucceeds, ControlInv, ThreadsInv, StreamInv
  <2>2. hand = <<>>
    BY <1>1, <2>1, HandEmpty
  <2>3. (<<>> \o <<>>) \o <<>> = <<>>
    BY ConcatEmptySeq, EmptySeq
  <2>4. QED
    BY <1>4, <2>1, <2>2, <2>3 DEF OpenSucceeds, thread, Log, Restarts
<1>5. CASE Take
  <2>1. Log' = Log
    BY <1>1, <1>5, TakeLog
  <2>2. QED
    BY <1>1, <1>5, <2>1 DEF Take, history, Keeps
<1>6. CASE Write
  BY <1>6, WriteStep
<1>7. CASE \/ \E first \in BOOLEAN : Reject(first)
           \/ RequestStop \/ Join \/ OpenFails \/ Spawn \/ Sleep \/ Exit \/ UNCHANGED vars
  <2>1. UNCHANGED <<file, hand, queue, lost, accepted, arrived>>
    BY <1>7 DEF Reject, RequestStop, Join, OpenFails, Spawn, Sleep, Exit, vars, shared,
                stream, thread, history
  <2>2. QED
    BY <1>1, <2>1 DEF Log, Keeps
<1>8. QED
  BY <1>2, <1>3, <1>4, <1>5, <1>6, <1>7 DEF Next, CallerStep, WorkerStep

LEMMA InitInv == Init => IInv
<1> SUFFICES ASSUME Init PROVE IInv
  OBVIOUS
<1>1. ControlInv
  BY InitControl
<1>2. file = <<>> /\ hand = <<>> /\ queue = <<>> /\ accepted = <<>> /\ lost = 0
  BY DEF Init
<1>3. (<<>> \o <<>>) \o <<>> = <<>>
  BY ConcatEmptySeq, EmptySeq
<1>4. Log = <<>>
  BY <1>2, <1>3 DEF Log
<1>5. Len(<<>>) = 0 /\ DOMAIN <<>> = 1..0
  BY EmptySeq
<1>6. NothingVanishes
  BY <1>2, <1>4, <1>5 DEF NothingVanishes
<1>7. LogIsOrdered /\ ArrivedInv
  BY <1>4, <1>5 DEF LogIsOrdered, ArrivedInv
<1>8. QED
  BY <1>1, <1>6, <1>7 DEF IInv

\* The three facts about the log survive every step.
LEMMA Inductive == IInv /\ [Next]_vars => IInv'
<1> SUFFICES ASSUME IInv, [Next]_vars PROVE IInv'
  OBVIOUS
<1>1. ControlInv /\ ControlInv' /\ SequencesOK /\ SequencesOK'
  BY ControlStep DEF IInv, ControlInv, TypeOK
<1>2. /\ Log \in Seq(Chunks) /\ accepted \in Seq(Chunks) /\ lost \in Nat
      /\ arrived \in Nat /\ arrived' \in 0..MaxChunks
  BY <1>1, LogOK, ChunksAssumption DEF SequencesOK
<1>3. Log' \in Seq(Chunks)
  <2>1. /\ file' \in Seq(Chunks) /\ hand' \in Seq(Chunks) /\ queue' \in Seq(Chunks)
    BY <1>1 DEF SequencesOK
  <2>2. file' \o hand' \in Seq(Chunks)
    BY <2>1, ConcatProperties
  <2>3. (file' \o hand') \o queue' \in Seq(Chunks)
    BY <2>1, <2>2, ConcatProperties
  <2>4. QED
    BY <2>3 DEF Log
<1>4. /\ Len(Log) \in Nat /\ DOMAIN Log = 1..Len(Log)
      /\ Len(Log') \in Nat /\ DOMAIN Log' = 1..Len(Log')
      /\ \A i \in 1..Len(Log) : Log[i] \in Nat
  <2>1. \A i \in 1..Len(Log) : Log[i] \in Chunks
    BY <1>2, ElementOfSeq
  <2>2. QED
    BY <1>2, <1>3, <2>1, LenProperties, ChunksAssumption DEF Chunks
<1>5. /\ Len(accepted) = lost + Len(Log)
      /\ lost = 0 => Log = accepted
  BY DEF IInv, NothingVanishes
<1>6. \A i, j \in 1..Len(Log) : i < j => Log[i] < Log[j]
  BY <1>4 DEF IInv, LogIsOrdered
<1>7. \A i \in 1..Len(Log) : Log[i] <= arrived
  BY DEF IInv, ArrivedInv
<1> HIDE DEF IInv
<1>8. SUFFICES /\ NothingVanishes'
               /\ \A i, j \in 1..Len(Log') : i < j => Log'[i] < Log'[j]
               /\ \A i \in 1..Len(Log') : Log'[i] <= arrived'
  BY <1>1, <1>4 DEF IInv, LogIsOrdered, ArrivedInv
<1>9. CASE Keeps
  BY <1>2, <1>4, <1>5, <1>6, <1>7, <1>9 DEF Keeps, NothingVanishes
<1>10. CASE Accepts
  <2>1. arrived' \in Chunks /\ arrived' = arrived + 1
    BY <1>2, <1>10 DEF Accepts, Chunks
  <2>2. Log' = Append(Log, arrived') /\ accepted' = Append(accepted, arrived') /\ lost' = lost
    BY <1>10 DEF Accepts
  <2>3. /\ Len(Append(Log, arrived')) = Len(Log) + 1
        /\ Len(Append(accepted, arrived')) = Len(accepted) + 1
        /\ \A i \in 1..Len(Log) : Append(Log, arrived')[i] = Log[i]
        /\ Append(Log, arrived')[Len(Log) + 1] = arrived'
    BY <1>2, <2>1, AppendProperties
  <2>4. Len(Log') = lost' + Len(Log) + 1 - lost /\ Len(accepted') = lost' + Len(Log')
    BY <1>2, <1>4, <1>5, <2>2, <2>3
  <2>5. lost' = 0 => Log' = accepted'
    BY <1>5, <2>2
  <2>6. \A i \in 1..Len(Log') : Log'[i] <= arrived'
    BY <1>2, <1>4, <1>7, <2>1, <2>2, <2>3
  <2>7. \A i, j \in 1..Len(Log') : i < j => Log'[i] < Log'[j]
    <3> SUFFICES ASSUME NEW i \in 1..Len(Log'), NEW j \in 1..Len(Log'), i < j
                 PROVE  Log'[i] < Log'[j]
      OBVIOUS
    <3>1. Len(Log') = Len(Log) + 1 /\ i \in 1..Len(Log) /\ Log'[i] = Log[i]
      BY <1>4, <2>2, <2>3
    <3>2. CASE j \in 1..Len(Log)
      BY <1>6, <2>2, <2>3, <3>1, <3>2
    <3>3. CASE j = Len(Log) + 1
      BY <1>2, <1>4, <1>7, <2>1, <2>2, <2>3, <3>1, <3>3
    <3>4. QED
      BY <1>4, <3>1, <3>2, <3>3
  <2>8. QED
    BY <2>4, <2>5, <2>6, <2>7 DEF NothingVanishes
<1>11. CASE Loses
  <2>1. PICK gap \in Nat :
          \A i \in 1..Len(Log') : Log'[i] = IF i <= gap THEN Log[i] ELSE Log[i + 1]
    BY <1>11 DEF Loses
  <2>2. Len(Log) = Len(Log') + 1 /\ lost' = lost + 1 /\ accepted' = accepted
        /\ arrived' = arrived
    BY <1>11 DEF Loses
  <2>3. NothingVanishes'
    BY <1>2, <1>4, <1>5, <2>2 DEF NothingVanishes
  <2>4. \A i \in 1..Len(Log') : Log'[i] <= arrived'
    BY <1>4, <1>7, <2>1, <2>2
  <2>5. \A i, j \in 1..Len(Log') : i < j => Log'[i] < Log'[j]
    <3> SUFFICES ASSUME NEW i \in 1..Len(Log'), NEW j \in 1..Len(Log'), i < j
                 PROVE  Log'[i] < Log'[j]
      OBVIOUS
    <3> DEFINE was(n) == IF n <= gap THEN n ELSE n + 1
    <3>1. was(i) \in 1..Len(Log) /\ was(j) \in 1..Len(Log) /\ was(i) < was(j)
      BY <1>4, <2>1, <2>2
    <3>2. Log'[i] = Log[was(i)] /\ Log'[j] = Log[was(j)]
      BY <2>1
    <3> HIDE DEF was
    <3>3. QED
      BY <1>6, <3>1, <3>2
  <2>6. QED
    BY <2>3, <2>4, <2>5
<1>12. CASE Cuts
  <2>1. PICK kept \in 0..Len(Log) :
          /\ Len(Log') = kept /\ lost' = lost + Len(Log) - kept
          /\ \A i \in 1..kept : Log'[i] = Log[i]
          /\ kept = Len(Log) => Log' = Log
    BY <1>12 DEF Cuts
  <2>2. accepted' = accepted /\ arrived' = arrived
    BY <1>12 DEF Cuts
  <2>3. Len(Log) \in Nat /\ lost \in Nat /\ kept \in Nat /\ kept <= Len(Log)
    BY <1>2, <1>4
  <2>4. Len(Log') = kept /\ lost' = lost + Len(Log) - kept
    BY <2>1
  <2>5. kept = Len(Log) => Log' = Log
    BY <2>1, Zenon
  <2>6. \A i \in 1..kept : Log'[i] = Log[i]
    BY <2>1, Zenon
  <2>7. Len(accepted') = lost' + Len(Log')
    BY <1>2, <1>4, <1>5, <2>2, <2>3, <2>4
  <2>8. lost' = 0 => Log' = accepted'
    <3>1. lost' = 0 => lost = 0 /\ kept = Len(Log)
      BY <2>3, <2>4
    <3>2. QED
      BY <1>5, <2>2, <2>5, <3>1
  <2>9. \A i \in 1..Len(Log') : i \in 1..Len(Log) /\ Log'[i] = Log[i]
    BY <1>4, <2>3, <2>4, <2>6
  <2>10. QED
    BY <1>4, <1>6, <1>7, <2>2, <2>7, <2>8, <2>9 DEF NothingVanishes
<1>13. CASE Restarts
  <2>1. Len(<<>>) = 0
    BY EmptySeq
  <2>2. QED
    BY <1>13, <2>1 DEF Restarts, NothingVanishes
<1>14. QED
  BY <1>1, <1>9, <1>10, <1>11, <1>12, <1>13, LogStep

LEMMA AlwaysIInv == Spec => []IInv
BY InitInv, Inductive, PTL DEF Spec

\* Every chunk the recorder accepted is in the file, on its way there, or counted
\* as lost, and a log without a loss is exactly what was accepted.
THEOREM NoChunkVanishes == Spec => []NothingVanishes
<1>1. IInv => NothingVanishes
  BY DEF IInv
<1>2. QED
  BY <1>1, AlwaysIInv, PTL

\* Faults, restarts and concurrent producers never reorder or repeat a chunk.
THEOREM LogStaysOrdered == Spec => []LogIsOrdered
<1>1. IInv => LogIsOrdered
  BY DEF IInv
<1>2. QED
  BY <1>1, AlwaysIInv, PTL

\* After stop() no worker is left, the stream is closed, nothing is on its way.
THEOREM StopIsQuiet == Spec => []StoppedIsQuiet
<1>1. ControlInv => StoppedIsQuiet
  <2> SUFFICES ASSUME ControlInv, caller = "idle", ~recording
               PROVE  worker = "none" /\ ~streamOpen /\ queue = <<>> /\ hand = <<>>
    BY DEF StoppedIsQuiet
  <2>1. worker = "none" /\ ~streamOpen /\ queue = <<>>
    BY DEF ControlInv, ThreadsInv, StreamInv
  <2>2. QED
    BY <2>1, HandEmpty DEF ControlInv, TypeOK
<1>2. IInv => StoppedIsQuiet
  BY <1>1 DEF IInv
<1>3. QED
  BY <1>2, AlwaysIInv, PTL

-----------------------------------------------------------------------------
(* The recorder implements the append-only log *)

LEMMA InitRefines == Init => Abstract!Init
<1> SUFFICES ASSUME Init PROVE Abstract!Init
  OBVIOUS
<1>1. (<<>> \o <<>>) \o <<>> = <<>> /\ Len(<<>>) = 0
  BY ConcatEmptySeq, EmptySeq
<1>2. QED
  BY <1>1 DEF Init, Abstract!Init, Log, phase

LEMMA StepRefines == ControlInv /\ [Next]_vars => [Abstract!Next]_(Abstract!vars)
<1> SUFFICES ASSUME ControlInv, [Next]_vars
             PROVE  Abstract!Next \/ UNCHANGED <<phase, Log, Len(file), lost>>
  BY DEF Abstract!vars
<1>1. SequencesOK
  BY DEF ControlInv, TypeOK
<1>2. CASE Enqueue
  <2>1. CASE recording
    <3>1. Log' = Append(Log, arrived') /\ arrived' \in Chunks
      BY <1>1, <1>2, <2>1, EnqueueLog, ChunksAssumption DEF SequencesOK, Enqueue, Chunks
    <3>2. phase = "accepting" /\ phase' = phase /\ file' = file /\ lost' = lost
      BY <1>2, <2>1 DEF Enqueue, phase, stream
    <3>3. Abstract!Accept(arrived')
      BY <3>1, <3>2 DEF Abstract!Accept
    <3>4. QED
      BY <3>1, <3>3 DEF Abstract!Next
  <2>2. CASE ~recording
    BY <1>2, <2>2 DEF Enqueue, MayAccept, stream, phase, Log
  <2>3. QED
    BY <2>1, <2>2
<1>3. ASSUME NEW first \in BOOLEAN, Reject(first)
      PROVE  Abstract!Next \/ UNCHANGED <<phase, Log, Len(file), lost>>
  <2>1. UNCHANGED <<Log, Len(file), lost, streamOpen>> /\ ~recording'
    BY <1>3 DEF Reject, Log, stream, thread, history
  <2>2. CASE recording
    <3>1. phase = "accepting" /\ phase' = "sealed"
      BY <2>1, <2>2 DEF phase, ControlInv, StreamInv
    <3>2. QED
      BY <2>1, <3>1 DEF Abstract!Seal, Abstract!Next
  <2>3. CASE ~recording
    BY <2>1, <2>3 DEF phase
  <2>4. QED
    BY <2>2, <2>3
<1>4. CASE Finish
  <2>1. Log = file /\ Log' = file' /\ recording' = recording /\ ~recording /\ ~streamOpen'
    BY <1>4, FinishLog DEF Finish, AfterJoin, ControlInv, ThreadsInv
  <2>2. PICK kept \in 0..Len(Log) :
          /\ Log' = SubSeq(Log, 1, kept) /\ Len(Log') = kept
          /\ lost' = lost + Len(Log) - kept
          /\ kept = Len(Log) => Log' = Log
          /\ streamOpen \/ kept = Len(Log)
    BY <1>4, FinishLog
  <2>3. CASE streamOpen
    <3>1. phase = "sealed" /\ phase' = "closed"
      BY <2>1, <2>3 DEF phase
    <3>2. Abstract!CloseShort
      BY <2>1, <2>2, <3>1 DEF Abstract!CloseShort
    <3>3. QED
      BY <3>2 DEF Abstract!Next
  <2>4. CASE ~streamOpen
    <3>1. Len(Log) \in Nat /\ lost \in Nat
      BY <1>1, <2>1, LenProperties DEF SequencesOK
    <3>2. Log' = Log /\ lost' = lost
      BY <2>2, <2>4, <3>1
    <3>3. QED
      BY <2>1, <2>4, <3>2 DEF phase
  <2>5. QED
    BY <2>3, <2>4
<1>5. CASE OpenSucceeds
  <2>1. phase = "closed" /\ phase' = "accepting"
    BY <1>5 DEF OpenSucceeds, phase, ControlInv, ThreadsInv, StreamInv
  <2>2. worker # "write" /\ queue = <<>> /\ queue' = queue /\ hand' = hand
        /\ file' = <<>> /\ lost' = 0
    BY <1>5 DEF OpenSucceeds, thread, ControlInv, ThreadsInv, StreamInv
  <2>3. hand = <<>>
    BY <1>1, <2>2, HandEmpty
  <2>4. (<<>> \o <<>>) \o <<>> = <<>> /\ Len(<<>>) = 0
    BY ConcatEmptySeq, EmptySeq
  <2>5. Abstract!Open
    BY <2>1, <2>2, <2>3, <2>4 DEF Abstract!Open, Log
  <2>6. QED
    BY <2>5 DEF Abstract!Next
<1>6. CASE Take
  <2>1. Log' = Log
    BY <1>1, <1>6, TakeLog
  <2>2. QED
    BY <1>6, <2>1 DEF Take, stream, history, phase
<1>7. CASE Write
  <2>1. phase # "closed" /\ phase' = phase
    BY <1>7 DEF Write, shared, phase, ControlInv, StreamInv
  <2>2. CASE Keeps /\ Len(file') = Len(file) + 1 /\ Len(file) < Len(Log)
    BY <2>1, <2>2 DEF Keeps, Abstract!Persist, Abstract!Next
  <2>3. CASE lost' = lost + 1
    <3>1. file' = file
      BY <1>1, <1>7, <2>3 DEF Write, SequencesOK
    <3>2. /\ Log' = SubSeq(Log, 1, Len(file)) \o SubSeq(Log, Len(file) + 2, Len(Log))
          /\ Len(file) < Len(Log)
      BY <1>1, <1>7, <3>1, LostLog DEF Write, MovedOut, shared
    <3>3. Abstract!Lose
      BY <2>1, <2>3, <3>1, <3>2 DEF Abstract!Lose
    <3>4. QED
      BY <3>3 DEF Abstract!Next
  <2>4. QED
    BY <1>7, <2>2, <2>3, WriteStep DEF Loses
<1>8. CASE RequestStop \/ Join \/ OpenFails \/ Spawn \/ Sleep \/ Exit \/ UNCHANGED vars
  <2>1. UNCHANGED <<recording, streamOpen, file, hand, queue, lost>>
    BY <1>8 DEF RequestStop, Join, OpenFails, Spawn, Sleep, Exit, vars, shared, stream,
                thread, history
  <2>2. QED
    BY <2>1 DEF Log, phase
<1>9. QED
  BY <1>2, <1>3, <1>4, <1>5, <1>6, <1>7, <1>8 DEF Next, CallerStep, WorkerStep

\* Every behaviour of the recorder, faults included, is one of the append-only log.
THEOREM Implementation == Spec => ImplementsLog
<1>1. Spec => []ControlInv
  BY InitControl, ControlStep, PTL DEF Spec
<1>2. QED
  BY <1>1, InitRefines, StepRefines, PTL DEF Spec, ImplementsLog, Abstract!Spec

-----------------------------------------------------------------------------
(* Induction, with the set of the numbers for which a statement holds. *)

LEMMA LeastMember ==
  ASSUME NEW S \in SUBSET Nat, S # {}
  PROVE  \E m \in S : \A k \in S : m <= k
<1>1. \E m \in S : \A k \in S : ~(<<k, m>> \in OpToRel(<, Nat))
  BY WFMin, NatLessThanWellFounded, Zenon
<1>2. PICK m \in S : \A k \in S : ~(<<k, m>> \in OpToRel(<, Nat))
  BY <1>1
<1>3. \A k \in S : ~(k < m)
  BY <1>2, Zenon DEF OpToRel
<1>. QED
  BY <1>3, SMT

LEMMA Induction ==
  ASSUME NEW S \in SUBSET Nat, 0 \in S, \A n \in S : n + 1 \in S
  PROVE  \A n \in Nat : n \in S
<1>. SUFFICES ASSUME Nat \ S # {} PROVE FALSE
  OBVIOUS
<1>1. PICK m \in Nat \ S : \A k \in Nat \ S : m <= k
  BY LeastMember
<1>2. m - 1 \in S
  BY <1>1
<1>. QED
  BY <1>1, <1>2

-----------------------------------------------------------------------------
(* What a reader finds in a log *)

\* One step of Scanned(), with what the steps after it find.
ScanStep(cells, scan, o) ==
  LET left == Len(cells) - o
  IN  IF left < Marker THEN [opened |-> TRUE, records |-> <<>>, truncated |-> left > 0]
      ELSE IF left < Marker + Header \/ ~DataPresent(left - Marker - Header)
      THEN [opened |-> TRUE, records |-> <<>>, truncated |-> TRUE]
      ELSE [scan[o + Record] EXCEPT !.records = <<cells[o + 1]>> \o @]

\* What there is to be found from a cell on: every fourth cell begins a record.
Firsts(cells, o) == [i \in 1..((Len(cells) - o) \div 4) |-> cells[o + 4 * (i - 1) + 1]]

ToFind(cells, o) ==
  IF o > Len(cells) THEN [opened |-> TRUE, records |-> <<>>, truncated |-> FALSE]
  ELSE [opened |-> TRUE, records |-> Firsts(cells, o), truncated |-> (Len(cells) - o) % 4 # 0]

LEMMA FirstsSplit ==
  ASSUME NEW S, NEW cells \in Seq(S), NEW o \in Nat, o + 4 <= Len(cells)
  PROVE  Firsts(cells, o) = <<cells[o + 1]>> \o Firsts(cells, o + 4)
<1>. DEFINE N == Len(cells)
            n == (N - o) \div 4
            first == Firsts(cells, o)
            rest == Firsts(cells, o + 4)
<1>1. N \in Nat /\ n \in Nat /\ n >= 1 /\ (N - (o + 4)) \div 4 = n - 1 /\ 4 * n <= N - o
  OBVIOUS
<1>2. \A i \in 1..N : cells[i] \in S
  OBVIOUS
<1>3. \A i \in 1..n : o + 4 * (i - 1) + 1 \in 1..N
  BY <1>1
<1>4. \A i \in 1..(n - 1) : (o + 4) + 4 * (i - 1) + 1 \in 1..N
  BY <1>1
<1>. HIDE DEF N, n
<1>5. first = [i \in 1..n |-> cells[o + 4 * (i - 1) + 1]]
  BY DEF Firsts, n, N
<1>6. rest = [i \in 1..(n - 1) |-> cells[(o + 4) + 4 * (i - 1) + 1]]
  BY <1>1 DEF Firsts, N
<1>. HIDE DEF first, rest
<1>7. first \in Seq(S) /\ Len(first) = n
  <2>1. first \in [1..n -> S]
    BY <1>2, <1>3, <1>5
  <2>. QED
    BY <1>1, <2>1
<1>8. rest \in Seq(S) /\ Len(rest) = n - 1
  <2>1. rest \in [1..(n - 1) -> S]
    BY <1>2, <1>4, <1>6
  <2>. QED
    BY <1>1, <2>1
<1>9. cells[o + 1] \in S
  BY <1>2 DEF N
<1>. DEFINE both == <<cells[o + 1]>> \o rest
<1>10. /\ both \in Seq(S) /\ Len(both) = n
       /\ both[1] = cells[o + 1]
       /\ \A i \in 2..n : both[i] = rest[i - 1]
  BY <1>1, <1>8, <1>9
<1>. HIDE DEF both
<1>11. \A i \in 1..n : first[i] = both[i]
  <2>. SUFFICES ASSUME NEW i \in 1..n PROVE first[i] = both[i]
    OBVIOUS
  <2>1. CASE i = 1
    BY <1>1, <1>5, <1>10, <2>1
  <2>2. CASE i # 1
    <3>1. i - 1 \in 1..(n - 1) /\ i \in 2..n
      BY <1>1, <2>2
    <3>2. rest[i - 1] = cells[(o + 4) + 4 * ((i - 1) - 1) + 1]
      BY <1>6, <3>1
    <3>3. (o + 4) + 4 * ((i - 1) - 1) + 1 = o + 4 * (i - 1) + 1
      BY <1>1
    <3>. QED
      BY <1>5, <1>10, <3>1, <3>2, <3>3
  <2>. QED
    BY <2>1, <2>2
<1>. QED
  BY <1>7, <1>10, <1>11 DEF first, both, rest

\* A step finds what is to be found if the one after it does.
LEMMA StepFinds ==
  ASSUME NEW S, NEW cells \in Seq(S), NEW scan, NEW o \in 0..(Len(cells) + 4),
         o + 4 <= Len(cells) => scan[o + 4] = ToFind(cells, o + 4)
  PROVE  ScanStep(cells, scan, o) = ToFind(cells, o)
<1>. DEFINE left == Len(cells) - o
<1>1. Len(cells) \in Nat /\ o \in Nat /\ left \in Int
  OBVIOUS
<1>2. CASE left < 4
  <2>. DEFINE found == ScanStep(cells, scan, o)
  <2>1. found = [opened |-> TRUE, records |-> <<>>, truncated |-> left > 0]
    <3>1. CASE left < 2
      BY <3>1 DEF ScanStep, Marker
    <3>2. CASE left >= 2
      <4>1. left < Marker + Header \/ ~DataPresent(left - Marker - Header)
        BY <1>1, <1>2, <3>2 DEF Marker, Header, DataPresent, Data
      <4>2. found = [opened |-> TRUE, records |-> <<>>, truncated |-> TRUE]
        BY <1>1, <3>2, <4>1 DEF ScanStep, Marker
      <4>3. (left > 0) = TRUE
        BY <1>1, <3>2
      <4>. QED
        BY <4>2, <4>3
    <3>. QED
      BY <1>1, <3>1, <3>2
  <2>2. CASE o > Len(cells)
    <3>1. (left > 0) = FALSE
      BY <1>1, <2>2
    <3>. HIDE DEF found, left
    <3>. QED
      BY <2>1, <2>2, <3>1, Zenon DEF ToFind, found
  <2>3. CASE o <= Len(cells)
    <3>1. left \in 0..3
      BY <1>1, <1>2, <2>3
    <3>2. left \div 4 = 0 /\ left % 4 = left
      BY <3>1
    <3>3. Firsts(cells, o) = <<>>
      BY <3>2 DEF Firsts
    <3>4. (left > 0) = (left % 4 # 0)
      BY <3>1, <3>2
    <3>5. ~(o > Len(cells))
      BY <1>1, <2>3
    <3>. DEFINE piece == left % 4 # 0
    <3>6. found = [opened |-> TRUE, records |-> <<>>, truncated |-> piece]
      BY <2>1, <3>4
    <3>7. ToFind(cells, o) = [opened |-> TRUE, records |-> Firsts(cells, o), truncated |-> piece]
      BY <3>5, Zenon DEF ToFind
    <3>. HIDE DEF found, piece
    <3>. QED
      BY <3>3, <3>6, <3>7, Zenon DEF found
  <2>. QED
    BY <1>1, <2>2, <2>3
<1>3. CASE left >= 4
  <2>1. o + 4 <= Len(cells) /\ ~(o > Len(cells)) /\ ~(o + 4 > Len(cells))
    BY <1>1, <1>3
  <2>2. scan[o + 4] = [opened |-> TRUE, records |-> Firsts(cells, o + 4),
                       truncated |-> (Len(cells) - (o + 4)) % 4 # 0]
    BY <2>1 DEF ToFind
  <2>3. (Len(cells) - (o + 4)) % 4 = left % 4
    BY <1>1, <1>3
  <2>4. ScanStep(cells, scan, o) = [scan[o + 4] EXCEPT !.records = <<cells[o + 1]>> \o @]
    <3>1. ~(left < Marker) /\ ~(left < Marker + Header) /\ DataPresent(left - Marker - Header)
      BY <1>1, <1>3 DEF Marker, Header, DataPresent, Data
    <3>2. Record = 4
      BY DEF Record, Marker, Header, Data
    <3>. QED
      BY <3>1, <3>2 DEF ScanStep
  <2>5. ScanStep(cells, scan, o) = [opened |-> TRUE,
                                    records |-> <<cells[o + 1]>> \o Firsts(cells, o + 4),
                                    truncated |-> (Len(cells) - (o + 4)) % 4 # 0]
    <3>. DEFINE yes == TRUE
                first == <<cells[o + 1]>>
                rest == Firsts(cells, o + 4)
                piece == (Len(cells) - (o + 4)) % 4 # 0
    <3>. HIDE DEF yes, first, rest, piece
    <3>1. [[opened |-> yes, records |-> rest, truncated |-> piece] EXCEPT !.records = first \o @]
            = [opened |-> yes, records |-> first \o rest, truncated |-> piece]
      <4>. DEFINE found == [opened |-> yes, records |-> rest, truncated |-> piece]
                  longer == first \o rest
      <4>1. found.records = rest
        OBVIOUS
      <4>2. [found EXCEPT !.records = first \o @] = [found EXCEPT !.records = longer]
        BY <4>1
      <4>. HIDE DEF longer
      <4>3. [found EXCEPT !.records = longer]
              = [opened |-> yes, records |-> longer, truncated |-> piece]
        OBVIOUS
      <4>. QED
        BY <4>2, <4>3 DEF longer
    <3>2. ScanStep(cells, scan, o)
            = [[opened |-> yes, records |-> rest, truncated |-> piece]
                 EXCEPT !.records = first \o @]
      BY <2>2, <2>4, Zenon DEF yes, first, rest, piece
    <3>. QED
      BY <3>1, <3>2, Zenon DEF yes, first, rest, piece
  <2>6. <<cells[o + 1]>> \o Firsts(cells, o + 4) = Firsts(cells, o)
    BY <1>1, <2>1, FirstsSplit
  <2>. QED
    BY <2>1, <2>3, <2>5, <2>6 DEF ToFind
<1>. QED
  BY <1>1, <1>2, <1>3

LEMMA ScanFinds ==
  ASSUME NEW S, NEW cells \in Seq(S)
  PROVE  Scanned(cells) = IF Len(cells) < 2
                          THEN [opened |-> FALSE, records |-> <<>>, truncated |-> FALSE]
                          ELSE ToFind(cells, 2)
<1>. DEFINE N == Len(cells)
            D == 0..(N + 4)
            Is(f) == f = [o \in D |-> ScanStep(cells, f, o)]
            sol == [o \in D |-> ToFind(cells, o)]
            scan == CHOOSE f : Is(f)
<1>1. N \in Nat
  OBVIOUS
<1>2. Is(sol)
  <2>1. \A o \in D : ScanStep(cells, sol, o) = ToFind(cells, o)
    <3>. SUFFICES ASSUME NEW o \in D PROVE ScanStep(cells, sol, o) = ToFind(cells, o)
      OBVIOUS
    <3>1. o + 4 <= N => o + 4 \in D
      BY <1>1
    <3>2. o + 4 <= N => sol[o + 4] = ToFind(cells, o + 4)
      BY <3>1
    <3>. HIDE DEF sol
    <3>. QED
      BY <3>2, StepFinds
  <2>. QED
    BY <2>1
<1>. HIDE DEF sol
<1>3. Is(scan)
  BY <1>2
<1>4. Scanned(cells) = IF Len(cells) < 2
                       THEN [opened |-> FALSE, records |-> <<>>, truncated |-> FALSE]
                       ELSE scan[2]
  BY DEF Scanned, ScanStep, FileHeader, Record, Marker, Header, Data
<1>. HIDE DEF scan
<1>5. \A o \in D : scan[o] = ScanStep(cells, scan, o)
  BY <1>3
<1>. DEFINE T == {n \in Nat : \A o \in D : N + 4 <= o + n => scan[o] = ToFind(cells, o)}
<1>6. \A n \in Nat : n \in T
  <2>1. 0 \in T
    <3>. SUFFICES ASSUME NEW o \in D, N + 4 <= o + 0 PROVE scan[o] = ToFind(cells, o)
      OBVIOUS
    <3>1. ~(o + 4 <= N)
      BY <1>1
    <3>. QED
      BY <1>5, <3>1, StepFinds
  <2>2. ASSUME NEW n \in T PROVE n + 1 \in T
    <3>. SUFFICES ASSUME NEW o \in D, N + 4 <= o + (n + 1) PROVE scan[o] = ToFind(cells, o)
      OBVIOUS
    <3>1. o + 4 <= N => o + 4 \in D /\ N + 4 <= (o + 4) + n
      BY <1>1
    <3>2. o + 4 <= N => scan[o + 4] = ToFind(cells, o + 4)
      BY <3>1
    <3>. QED
      BY <1>5, <3>2, StepFinds
  <2>3. T \in SUBSET Nat
    OBVIOUS
  <2>. HIDE DEF T
  <2>. QED
    BY <2>1, <2>2, <2>3, Induction
<1>7. N + 4 \in T
  BY <1>1, <1>6
<1>8. N >= 2 => 2 \in D /\ N + 4 <= 2 + (N + 4)
  BY <1>1
<1>9. N >= 2 => scan[2] = ToFind(cells, 2)
  BY <1>7, <1>8
<1>10. N >= 2 <=> ~(N < 2)
  BY <1>1
<1>. HIDE DEF T, D
<1>. QED
  BY <1>4, <1>9, <1>10

-----------------------------------------------------------------------------
(* The records of a file that was cut *)

LEMMA RecordsOfCells ==
  ASSUME NEW S, 0 \in S, NEW records \in Seq(S), NEW end \in 0..(2 + 4 * Len(records))
  PROVE  LET cells == SubSeq(Cells(records), 1, end)
         IN  /\ cells \in Seq(S) /\ Len(cells) = end
             /\ end >= 2 => Firsts(cells, 2) = SubSeq(records, 1, (end - 2) \div 4)
<1>. DEFINE N == Len(records)
            all == Cells(records)
            cells == SubSeq(all, 1, end)
            firsts == Firsts(cells, 2)
            n == (end - 2) \div 4
<1>1. N \in Nat /\ end \in Nat /\ end <= 2 + 4 * N
  OBVIOUS
<1>2. \A i \in 1..N : records[i] \in S
  OBVIOUS
<1>3. all = [i \in 1..(2 + 4 * N) |-> IF i <= 2 THEN 0 ELSE records[((i - 2 - 1) \div 4) + 1]]
  BY DEF Cells, FileHeader, Record, Marker, Header, Data
<1>4. \A i \in 1..(2 + 4 * N) : ~(i <= 2) => ((i - 2 - 1) \div 4) + 1 \in 1..N
  BY <1>1
<1>. HIDE DEF N, all
<1>5. all \in Seq(S) /\ Len(all) = 2 + 4 * N
  <2>1. all \in [1..(2 + 4 * N) -> S]
    BY <1>2, <1>3, <1>4
  <2>. QED
    BY <1>1, <2>1
<1>6. cells \in Seq(S) /\ Len(cells) = end /\ \A i \in 1..end : cells[i] = all[i]
  BY <1>1, <1>5
<1>. HIDE DEF cells, n
<1>. SUFFICES ASSUME end >= 2 PROVE firsts = SubSeq(records, 1, n)
  BY <1>6 DEF cells, n, all
<1>7. n \in Nat /\ n <= N /\ 4 * n <= end - 2
  BY <1>1 DEF n
<1>8. firsts = [i \in 1..n |-> records[i]]
  <2>1. firsts = [i \in 1..n |-> cells[2 + 4 * (i - 1) + 1]]
    BY <1>1, <1>6 DEF Firsts, n
  <2>2. \A i \in 1..n : cells[2 + 4 * (i - 1) + 1] = records[i]
    <3>. SUFFICES ASSUME NEW i \in 1..n PROVE cells[2 + 4 * (i - 1) + 1] = records[i]
      OBVIOUS
    <3>. DEFINE k == 2 + 4 * (i - 1) + 1
    <3>1. /\ k \in 1..end /\ k \in 1..(2 + 4 * N) /\ ~(k <= 2)
          /\ ((k - 2 - 1) \div 4) + 1 = i
      BY <1>1, <1>7
    <3>. HIDE DEF k
    <3>2. cells[k] = records[((k - 2 - 1) \div 4) + 1]
      BY <1>3, <1>6, <3>1
    <3>. QED
      BY <3>1, <3>2 DEF k
  <2>. QED
    BY <2>1, <2>2
<1>9. SubSeq(records, 1, n) = [i \in 1..n |-> records[i]]
  BY <1>1, <1>7 DEF N
<1>. QED
  BY <1>8, <1>9

LEMMA RecoveredPrefix ==
  ASSUME SequencesOK, NothingVanishes
  PROVE  RecoveredIsPrefix
<1>. DEFINE Found(end) == Scanned(SubSeq(Cells(file), 1, end))
            Bytes(end) == IF end < 2 THEN 0 ELSE end - 2
            S == Chunks \cup {0}
<1>1. file \in Seq(Chunks) /\ Len(file) \in Nat
  BY DEF SequencesOK
<1>. SUFFICES ASSUME NEW end \in 0..(2 + 4 * Len(file))
              PROVE  /\ Found(end).opened = (end >= 2)
                     /\ Found(end).records = SubSeq(file, 1, Bytes(end) \div 4)
                     /\ Found(end).truncated = (Bytes(end) % 4 # 0)
                     /\ lost = 0 => IsPrefix(Found(end).records, accepted)
  <2>1. Record = 4 /\ FileHeader = 2
    BY DEF FileHeader, Record, Marker, Header, Data
  <2>. QED
    BY <2>1 DEF RecoveredIsPrefix
<1>. DEFINE cells == SubSeq(Cells(file), 1, end)
            n == Bytes(end) \div 4
<1>2. n \in Nat /\ n <= Len(file) /\ (end < 2 => n = 0 /\ Bytes(end) = 0)
  BY <1>1
<1>3. /\ cells \in Seq(S) /\ Len(cells) = end
      /\ end >= 2 => Firsts(cells, 2) = SubSeq(file, 1, (end - 2) \div 4)
  <2>1. file \in Seq(S) /\ 0 \in S
    BY <1>1
  <2>. HIDE DEF S
  <2>. QED
    BY <2>1, RecordsOfCells
<1>. HIDE DEF cells, S
<1>4. Found(end) = IF end < 2
                   THEN [opened |-> FALSE, records |-> <<>>, truncated |-> FALSE]
                   ELSE ToFind(cells, 2)
  BY <1>3, ScanFinds DEF cells
<1>. HIDE DEF Found
<1>5. /\ Found(end).opened = (end >= 2)
      /\ Found(end).records = SubSeq(file, 1, n)
      /\ Found(end).truncated = (Bytes(end) % 4 # 0)
  <2>1. CASE end < 2
    <3>1. SubSeq(file, 1, 0) = <<>>
      BY <1>1
    <3>2. (end >= 2) = FALSE /\ (Bytes(end) % 4 # 0) = FALSE
      BY <2>1
    <3>3. Found(end) = [opened |-> FALSE, records |-> <<>>, truncated |-> FALSE]
      BY <1>4, <2>1
    <3>. DEFINE no == FALSE
    <3>. HIDE DEF Bytes, no
    <3>4. Found(end) = [opened |-> no, records |-> <<>>, truncated |-> no]
      BY <3>3 DEF no
    <3>5. Found(end).opened = no /\ Found(end).records = <<>> /\ Found(end).truncated = no
      BY <3>4
    <3>6. n = 0
      BY <1>2, <2>1, Zenon
    <3>. HIDE DEF n
    <3>. QED
      BY <3>1, <3>2, <3>5, <3>6, Zenon DEF no
  <2>2. CASE end >= 2
    <3>1. ~(2 > end) /\ ~(end < 2) /\ Bytes(end) = end - 2 /\ n = (end - 2) \div 4
      BY <2>2
    <3>2. ToFind(cells, 2) = [opened |-> TRUE, records |-> Firsts(cells, 2),
                              truncated |-> (end - 2) % 4 # 0]
      BY <1>3, <3>1 DEF ToFind
    <3>3. (end >= 2) = TRUE
      BY <2>2
    <3>4. Firsts(cells, 2) = SubSeq(file, 1, n)
      BY <1>3, <2>2, <3>1
    <3>5. Found(end) = ToFind(cells, 2)
      BY <1>4, <3>1, Zenon
    <3>. DEFINE yes == TRUE
                piece == (end - 2) % 4 # 0
    <3>. HIDE DEF Bytes, n, yes, piece
    <3>6. Found(end) = [opened |-> yes, records |-> SubSeq(file, 1, n), truncated |-> piece]
      BY <3>2, <3>4, <3>5, Zenon DEF yes, piece
    <3>7. /\ Found(end).opened = yes
          /\ Found(end).records = SubSeq(file, 1, n)
          /\ Found(end).truncated = piece
      <4>. DEFINE found == Found(end)
                  whole == SubSeq(file, 1, n)
      <4>1. found = [opened |-> yes, records |-> whole, truncated |-> piece]
        BY <3>6
      <4>. HIDE DEF found, whole
      <4>2. found.opened = yes /\ found.records = whole /\ found.truncated = piece
        BY <4>1
      <4>. QED
        BY <4>2 DEF found, whole
    <3>. QED
      BY <3>1, <3>3, <3>7, Zenon DEF yes, piece
  <2>3. end < 2 \/ end >= 2
    OBVIOUS
  <2>. HIDE DEF Bytes, n
  <2>. QED
    BY <2>1, <2>2, <2>3, Zenon
<1>6. ASSUME lost = 0 PROVE IsPrefix(SubSeq(file, 1, n), accepted)
  <2>. HIDE DEF n
  <2>2. accepted = (file \o hand) \o queue
    BY <1>6 DEF NothingVanishes, Log
  <2>3. hand \in Seq(Chunks) /\ queue \in Seq(Chunks) /\ Len(hand) \in Nat /\ Len(queue) \in Nat
    BY DEF SequencesOK
  <2>4. /\ accepted \in Seq(Chunks) /\ Len(file) <= Len(accepted)
        /\ \A i \in 1..Len(file) : accepted[i] = file[i]
    BY <1>1, <2>2, <2>3
  <2>5. /\ SubSeq(file, 1, n) = [i \in 1..n |-> file[i]]
        /\ Len(SubSeq(file, 1, n)) = n
        /\ SubSeq(SubSeq(file, 1, n), 1, n) = SubSeq(file, 1, n)
    BY <1>1, <1>2
  <2>6. SubSeq(accepted, 1, n) = [i \in 1..n |-> accepted[i]]
    BY <1>1, <1>2, <2>4
  <2>7. SubSeq(accepted, 1, n) = SubSeq(file, 1, n)
    BY <1>2, <2>4, <2>5, <2>6
  <2>8. n <= Len(accepted)
    BY <1>1, <1>2, <2>4
  <2>. QED
    BY <2>5, <2>7, <2>8 DEF IsPrefix
<1>. QED
  BY <1>5, <1>6

-----------------------------------------------------------------------------
(* The index of a log *)

Greatest(times) == CHOOSE m \in times : \A t \in times : m >= t

\* The latest of some times is one of them.
LEMMA Latest ==
  ASSUME NEW n \in Nat, NEW time \in [1..n -> Int], NEW i \in 1..n
  PROVE  LET times == {time[j] : j \in 1..i}
         IN  Greatest(times) \in times /\ \A t \in times : Greatest(times) >= t
<1>. DEFINE Times(k) == {time[j] : j \in 1..k}
            S == {k \in Nat : k \in 1..n => \E m \in Times(k) : \A t \in Times(k) : m >= t}
<1>1. 0 \in S
  OBVIOUS
<1>2. ASSUME NEW k \in S PROVE k + 1 \in S
  <2>. SUFFICES ASSUME k + 1 \in 1..n
                PROVE  \E m \in Times(k + 1) : \A t \in Times(k + 1) : m >= t
    OBVIOUS
  <2>1. time[k + 1] \in Int /\ Times(k + 1) = Times(k) \cup {time[k + 1]}
    OBVIOUS
  <2>2. Times(k) \in SUBSET Int
    OBVIOUS
  <2>3. CASE k = 0
    <3>1. Times(k) = {}
      BY <2>3
    <3>. HIDE DEF Times
    <3>2. Times(k + 1) = {time[k + 1]}
      BY <2>1, <3>1
    <3>3. time[k + 1] >= time[k + 1]
      BY <2>1
    <3>. QED
      BY <3>2, <3>3, Zenon
  <2>4. CASE k # 0
    <3>1. k \in 1..n
      BY <2>4
    <3>2. PICK m \in Times(k) : \A t \in Times(k) : m >= t
      BY <3>1
    <3>. HIDE DEF Times
    <3>3. CASE m >= time[k + 1]
      BY <2>1, <2>2, <3>2, <3>3
    <3>4. CASE ~(m >= time[k + 1])
      BY <2>1, <2>2, <3>2, <3>4
    <3>. QED
      BY <3>3, <3>4
  <2>. QED
    BY <2>3, <2>4
<1>3. i \in S
  <2>1. S \in SUBSET Nat
    OBVIOUS
  <2>2. i \in Nat
    OBVIOUS
  <2>. HIDE DEF S
  <2>3. \A k \in S : k + 1 \in S
    BY <1>2
  <2>4. \A k \in Nat : k \in S
    BY <1>1, <2>1, <2>3, Induction
  <2>. QED
    BY <2>2, <2>4
<1>4. \E m \in Times(i) : \A t \in Times(i) : m >= t
  BY <1>3
<1>. HIDE DEF Times
<1>5. Greatest(Times(i)) \in Times(i) /\ \A t \in Times(i) : Greatest(Times(i)) >= t
  BY <1>4 DEF Greatest
<1>. QED
  BY <1>5 DEF Times

\* One entry of a timeline, with the one before it.
TimelineStep(records, time, i) ==
  IF i = 1 THEN ReceiveTime[records[i]] ELSE Held(time[i - 1], ReceiveTime[records[i]])

Received(records) == [i \in 1..Len(records) |-> ReceiveTime[records[i]]]

\* The time of an entry is the latest at which a record up to it was received.
LEMMA TimelineIsLatest ==
  ASSUME NEW records \in Seq(Chunks)
  PROVE  Timeline(records)
           = [i \in 1..Len(records) |-> Greatest({Received(records)[j] : j \in 1..i})]
<1>. DEFINE n == Len(records)
            time == Received(records)
            Times(i) == {time[j] : j \in 1..i}
            Step(f, i) == TimelineStep(records, f, i)
            Is(f) == f = [i \in 1..n |-> Step(f, i)]
            sol == [i \in 1..n |-> Greatest(Times(i))]
            t == CHOOSE f : Is(f)
<1>1. n \in Nat /\ DOMAIN records = 1..n /\ \A i \in 1..n : records[i] \in 1..MaxChunks
  BY LenProperties, ElementOfSeq DEF Chunks
<1>2. time \in [1..n -> Int] /\ \A i \in 1..n : time[i] = ReceiveTime[records[i]]
  BY <1>1, TimesAssumption DEF Received
<1>. HIDE DEF n, time
<1>3. \A i \in 1..n : /\ Greatest(Times(i)) \in Times(i) /\ Times(i) \in SUBSET Int
                      /\ \A x \in Times(i) : Greatest(Times(i)) >= x
  <2>. SUFFICES ASSUME NEW i \in 1..n
                PROVE  /\ Greatest(Times(i)) \in Times(i) /\ Times(i) \in SUBSET Int
                       /\ \A x \in Times(i) : Greatest(Times(i)) >= x
    OBVIOUS
  <2>1. \A j \in 1..i : time[j] \in Int
    BY <1>1, <1>2
  <2>2. Times(i) \in SUBSET Int
    BY <2>1
  <2>. QED
    BY <1>1, <1>2, <2>2, Latest
<1>4. ASSUME NEW f, NEW i \in 1..n, i # 1 => f[i - 1] = Greatest(Times(i - 1))
      PROVE  Step(f, i) = Greatest(Times(i))
  <2>1. time[i] = ReceiveTime[records[i]] /\ time[i] \in Int
    BY <1>2
  <2>2. CASE i = 1
    <3>1. Times(1) = {time[1]}
      OBVIOUS
    <3>. HIDE DEF Times
    <3>2. Greatest(Times(1)) = time[1]
      BY <1>3, <2>2, <3>1
    <3>. QED
      BY <2>1, <2>2, <3>2 DEF TimelineStep
  <2>3. CASE i # 1
    <3>1. i - 1 \in 1..n /\ Times(i) = Times(i - 1) \cup {time[i]}
      BY <1>1, <2>3
    <3>. DEFINE last == Greatest(Times(i - 1))
                now == Greatest(Times(i))
    <3>. HIDE DEF Times
    <3>2. /\ last \in Times(i - 1) /\ last \in Int /\ \A x \in Times(i - 1) : last >= x
          /\ now \in Times(i) /\ now \in Int /\ \A x \in Times(i) : now >= x
      BY <1>3, <3>1
    <3>. HIDE DEF last, now
    <3>3. now >= last /\ now >= time[i] /\ (now <= last \/ now = time[i])
      BY <3>1, <3>2
    <3>4. now = IF last < time[i] THEN time[i] ELSE last
      BY <2>1, <3>2, <3>3
    <3>. QED
      BY <1>4, <2>1, <2>3, <3>4 DEF TimelineStep, Held, last, now
  <2>. QED
    BY <2>2, <2>3
<1>5. Is(sol)
  <2>1. ASSUME NEW i \in 1..n PROVE Step(sol, i) = Greatest(Times(i))
    <3>1. i # 1 => i - 1 \in 1..n
      BY <1>1
    <3>2. i # 1 => sol[i - 1] = Greatest(Times(i - 1))
      BY <3>1
    <3>. HIDE DEF sol, Step
    <3>. QED
      BY <1>4, <3>2
  <2>. HIDE DEF Step
  <2>. QED
    BY <2>1
<1>. HIDE DEF sol
<1>6. Is(t)
  BY <1>5
<1>7. Timeline(records) = t
  BY <1>1 DEF Timeline, TimelineStep
<1>. HIDE DEF t
<1>8. \A i \in 1..n : t[i] = Step(t, i)
  <2>. HIDE DEF Step
  <2>. QED
    BY <1>6
<1>. HIDE DEF Times, Step
<1>. DEFINE T == {k \in Nat : k \in 1..n => t[k] = Greatest(Times(k))}
<1>9. \A k \in Nat : k \in T
  <2>1. 0 \in T
    OBVIOUS
  <2>2. ASSUME NEW k \in T PROVE k + 1 \in T
    <3>. SUFFICES ASSUME k + 1 \in 1..n PROVE t[k + 1] = Greatest(Times(k + 1))
      OBVIOUS
    <3>1. k + 1 # 1 => t[(k + 1) - 1] = Greatest(Times((k + 1) - 1))
      BY <1>1
    <3>. QED
      BY <1>4, <1>8, <3>1
  <2>3. T \in SUBSET Nat
    OBVIOUS
  <2>. HIDE DEF T
  <2>. QED
    BY <2>1, <2>2, <2>3, Induction
<1>10. \A i \in 1..n : t[i] = Greatest(Times(i))
  BY <1>9, <1>1
<1>11. t = [i \in 1..n |-> Greatest(Times(i))]
  BY <1>6, <1>8, <1>10
<1>. QED
  BY <1>7, <1>11 DEF n, Times, time

LEMMA SortedTimeline ==
  ASSUME SequencesOK
  PROVE  TimelineIsSorted
<1>1. file \in Seq(Chunks) /\ Len(file) \in Nat
  BY DEF SequencesOK
<1>. SUFFICES ASSUME NEW n \in 0..Len(file)
              PROVE  LET t == Timeline(SubSeq(file, 1, n))
                     IN  /\ DOMAIN t = 1..n
                         /\ \A i, j \in 1..n : i < j => t[i] <= t[j]
                         /\ \A i \in 1..n : /\ t[i] >= ReceiveTime[file[i]]
                                            /\ \E j \in 1..i : t[i] = ReceiveTime[file[j]]
  BY DEF TimelineIsSorted
<1>. DEFINE records == SubSeq(file, 1, n)
            time == [i \in 1..n |-> ReceiveTime[records[i]]]
            Times(i) == {time[j] : j \in 1..i}
            t == Timeline(records)
<1>2. /\ n \in Nat /\ records \in Seq(Chunks) /\ Len(records) = n
      /\ \A i \in 1..n : records[i] = file[i] /\ records[i] \in 1..MaxChunks
  <2>1. n \in Nat /\ records \in Seq(Chunks) /\ Len(records) = n
    BY <1>1
  <2>2. \A i \in 1..n : records[i] = file[i]
    BY <1>1
  <2>3. \A i \in 1..n : file[i] \in Chunks
    BY <1>1
  <2>. QED
    BY <2>1, <2>2, <2>3 DEF Chunks
<1>. HIDE DEF records
<1>3. time \in [1..n -> Int] /\ \A i \in 1..n : time[i] = ReceiveTime[file[i]]
  BY <1>2, TimesAssumption
<1>4. t = [i \in 1..n |-> Greatest(Times(i))]
  <2>1. Received(records) = time
    BY <1>2 DEF Received
  <2>. HIDE DEF time
  <2>. QED
    BY <1>2, <2>1, TimelineIsLatest
<1>. HIDE DEF t, time
<1>5. \A i \in 1..n : t[i] \in Times(i) /\ \A x \in Times(i) : t[i] >= x
  BY <1>2, <1>3, <1>4, Latest
<1>6. ASSUME NEW i \in 1..n
      PROVE  t[i] >= ReceiveTime[file[i]] /\ \E j \in 1..i : t[i] = ReceiveTime[file[j]]
  <2>1. i \in 1..i /\ \A j \in 1..i : j \in 1..n
    BY <1>2
  <2>2. PICK j \in 1..i : t[i] = time[j]
    BY <1>5
  <2>3. t[i] >= time[i]
    BY <1>5, <2>1
  <2>. QED
    BY <1>3, <2>1, <2>2, <2>3
<1>7. ASSUME NEW i \in 1..n, NEW j \in 1..n, i < j PROVE t[i] <= t[j]
  <2>1. Times(i) \in SUBSET Times(j) /\ i \in Nat /\ j \in Nat
    BY <1>2, <1>7
  <2>2. t[i] \in Times(j) /\ Times(j) \in SUBSET Int
    <3>1. \A k \in 1..j : time[k] \in Int
      BY <1>2, <1>3
    <3>2. Times(j) \in SUBSET Int
      BY <3>1
    <3>. HIDE DEF Times
    <3>. QED
      BY <1>5, <2>1, <3>2
  <2>. HIDE DEF Times
  <2>3. t[j] >= t[i] /\ t[i] \in Int /\ t[j] \in Int
    BY <1>5, <2>2
  <2>. QED
    BY <2>3
<1>8. DOMAIN t = 1..n
  BY <1>4
<1>. QED
  BY <1>6, <1>7, <1>8 DEF t, records

\* Wherever the file of a recorder ends when the machine stops, also inside its own header, the
\* reader refuses it or finds the records that are whole, and says whether there is a piece of one
\* more.
THEOREM RecoveryIsExact == Spec => []RecoveredIsPrefix
<1>1. IInv => RecoveredIsPrefix
  BY RecoveredPrefix DEF IInv, ControlInv, TypeOK
<1>2. QED
  BY <1>1, AlwaysIInv, PTL

\* Whatever the clock said when the recovered records were received, their index can be searched
\* by bisection, and no record is placed before it or after all that were received up to it.
THEOREM RecoveredTimesGrow == Spec => []TimelineIsSorted
<1>1. IInv => TimelineIsSorted
  BY SortedTimeline DEF IInv, ControlInv, TypeOK
<1>2. QED
  BY <1>1, AlwaysIInv, PTL

\* What a crash leaves can be played: the whole records, unless the header of the file is cut, in the
\* order of their times.
THEOREM RecoveryIsPlayable == Spec => []RecoveredIsPlayable
BY RecoveryIsExact, RecoveredTimesGrow, PTL DEF RecoveredIsPlayable
=============================================================================
