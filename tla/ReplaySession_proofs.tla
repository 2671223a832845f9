------------------------ MODULE ReplaySession_proofs ------------------------
(***************************************************************************)
(* Proofs about replay for logs of every length, any ends of lines, and    *)
(* any number of control operations and sessions: first of ReplaySource on *)
(* its own, then of the application, whose replay is shown to be one.      *)
(***************************************************************************)
EXTENDS ReplaySession, SequenceTheorems, WellFoundedInduction, TLAPS

-----------------------------------------------------------------------------
(* ReplaySource on its own *)

\* Who may exist beside whom while open() or close() is under way.
ThreadsInv ==
  /\ open => client = "idle"
  /\ client \in {"joined", "opening"} => worker = "none"
  /\ client = "idle" /\ ~open => worker = "none"
  /\ stop => client = "join"
  /\ worker \notin {"none", "exited"} => reader

\* A worker whose version is still current has read the cursor as it is now.
CursorInv ==
  /\ wVersion <= controlVersion
  /\ current <= position
  /\ worker \in {"inner", "publish"} /\ wVersion = controlVersion => wBase <= position
  /\ worker \in {"timedWait", "read", "commit"} /\ wVersion = controlVersion
       => /\ open /\ ~paused /\ ~atEnd
          /\ position = wIndex /\ wIndex < Count /\ wBase <= wIndex

\* The records published since the cursor was last placed.
SeenInv ==
  /\ \A i \in 1..Len(seen) : seen[i] = start + i - 1
  /\ start + Len(seen) + InFlight = position
  /\ worker = "publish" /\ fresh => position = wIndex + 1

HoldInv ==
  /\ ~resumed => paused /\ admitted + (IF worker = "publish" THEN 1 ELSE 0) <= 1
  /\ resumed => admitted = 0

IInv == TypeOK /\ ThreadsInv /\ CursorInv /\ SeenInv /\ EndIsExact /\ HoldInv

\* The strengthened invariant holds before anything has been opened.
LEMMA SourceInitInv == Init => IInv
<1> SUFFICES ASSUME Init PROVE IInv
  OBVIOUS
<1>1. FlagsOK
  BY Zenon DEF Init, FlagsOK
<1>2. NumbersOK /\ worker \in WorkerPoints /\ client \in ClientPoints
  BY CountAssumption DEF Init, NumbersOK, WorkerPoints, ClientPoints
<1>3. ThreadsInv /\ CursorInv /\ SeenInv /\ EndIsExact /\ HoldInv
  BY DEF Init, ThreadsInv, CursorInv, SeenInv, InFlight, EndIsExact, EndIsFlagged, EndIsEarned, HoldInv
<1>4. QED
  BY <1>1, <1>2, <1>3 DEF IInv, TypeOK

\* Every step of the client, whatever the worker is doing, preserves it.
LEMMA ClientKeeps == IInv /\ ClientStep => IInv'
<1> SUFFICES ASSUME IInv, ClientStep PROVE IInv'
  OBVIOUS
<1> USE CountAssumption DEF IInv, TypeOK, shared, stats, locals, history
<1>1. CASE Pause
  <2>1. FlagsOK'
    BY <1>1, Zenon DEF FlagsOK, Pause, NotifyAll
  <2>2. NumbersOK'
    BY <1>1 DEF NumbersOK, CursorInv, Pause, NotifyAll
  <2>3. worker' \in WorkerPoints /\ client' \in ClientPoints
    BY <1>1 DEF WorkerPoints, ClientPoints, Pause, NotifyAll
  <2>4. ThreadsInv' /\ CursorInv'
    BY <1>1 DEF ThreadsInv, CursorInv, NumbersOK, EndIsFlagged, EndIsExact, MayControl, Pause, NotifyAll
  <2>5. SeenInv'
    BY <1>1 DEF SeenInv, InFlight, CursorInv, ThreadsInv, NumbersOK, MayControl, Pause, NotifyAll
  <2>6. EndIsExact' /\ HoldInv'
    BY <1>1 DEF EndIsExact, EndIsFlagged, EndIsEarned, HoldInv, CursorInv, ThreadsInv, NumbersOK,
       MayControl, Pause, NotifyAll
  <2>7. QED
    BY <2>1, <2>2, <2>3, <2>4, <2>5, <2>6
<1>2. CASE Resume
  <2>1. FlagsOK'
    BY <1>2, Zenon DEF FlagsOK, Resume, NotifyAll
  <2>2. NumbersOK'
    BY <1>2 DEF NumbersOK, CursorInv, Resume, NotifyAll
  <2>3. worker' \in WorkerPoints /\ client' \in ClientPoints
    BY <1>2 DEF WorkerPoints, ClientPoints, Resume, NotifyAll
  <2>4. ThreadsInv' /\ CursorInv'
    BY <1>2 DEF ThreadsInv, CursorInv, NumbersOK, EndIsFlagged, EndIsExact, MayControl, Resume,
       NotifyAll
  <2>5. SeenInv'
    BY <1>2 DEF SeenInv, InFlight, CursorInv, ThreadsInv, NumbersOK, MayControl, Resume, NotifyAll
  <2>6. EndIsExact' /\ HoldInv'
    BY <1>2 DEF EndIsExact, EndIsFlagged, EndIsEarned, HoldInv, CursorInv, ThreadsInv, NumbersOK,
       MayControl, Resume, NotifyAll
  <2>7. QED
    BY <2>1, <2>2, <2>3, <2>4, <2>5, <2>6
<1>3. CASE SetSpeed
  <2>1. FlagsOK'
    BY <1>3, Zenon DEF FlagsOK, SetSpeed, NotifyAll
  <2>2. NumbersOK'
    BY <1>3 DEF NumbersOK, CursorInv, SetSpeed, NotifyAll
  <2>3. worker' \in WorkerPoints /\ client' \in ClientPoints
    BY <1>3 DEF WorkerPoints, ClientPoints, SetSpeed, NotifyAll
  <2>4. ThreadsInv' /\ CursorInv'
    BY <1>3 DEF ThreadsInv, CursorInv, NumbersOK, EndIsFlagged, EndIsExact, MayControl, SetSpeed,
       NotifyAll
  <2>5. SeenInv'
    BY <1>3 DEF SeenInv, InFlight, CursorInv, ThreadsInv, NumbersOK, MayControl, SetSpeed, NotifyAll
  <2>6. EndIsExact' /\ HoldInv'
    BY <1>3 DEF EndIsExact, EndIsFlagged, EndIsEarned, HoldInv, CursorInv, ThreadsInv, NumbersOK,
       MayControl, SetSpeed, NotifyAll
  <2>7. QED
    BY <2>1, <2>2, <2>3, <2>4, <2>5, <2>6
<1>4. ASSUME NEW p \in 0..Count, Seek(p)
      PROVE  IInv'
  <2>1. FlagsOK'
    <3>1. (p >= Count) \in BOOLEAN /\ (p < Count) \in BOOLEAN
      OBVIOUS
    <3>2. QED
      BY <1>4, <3>1, Zenon DEF FlagsOK, Seek, SeekEnd, SeekPaused
  <2>2. NumbersOK'
    BY <1>4 DEF NumbersOK, CursorInv, Seek, NotifyAll, SeekBase, SeekEnd, SeekPaused
  <2>3. worker' \in WorkerPoints /\ client' \in ClientPoints
    BY <1>4 DEF WorkerPoints, ClientPoints, Seek, NotifyAll, SeekBase, SeekEnd, SeekPaused
  <2>4. ThreadsInv' /\ CursorInv'
    BY <1>4 DEF ThreadsInv, CursorInv, NumbersOK, EndIsFlagged, EndIsExact, MayControl, Seek,
       NotifyAll, SeekBase, SeekEnd, SeekPaused
  <2>5. SeenInv'
    BY <1>4 DEF SeenInv, InFlight, CursorInv, ThreadsInv, NumbersOK, MayControl, Seek, NotifyAll,
       SeekBase, SeekEnd, SeekPaused
  <2>6. EndIsExact' /\ HoldInv'
    <3>1. (atEnd' <=> p >= Count) /\ (paused' <=> paused)
      BY <1>4, Zenon DEF Seek, SeekEnd, SeekPaused
    <3>2. EndIsExact'
      BY <1>4, <3>1 DEF EndIsExact, EndIsFlagged, EndIsEarned, NumbersOK, Seek
    <3>3. HoldInv'
      BY <1>4, <3>1 DEF HoldInv, NumbersOK, Seek, NotifyAll
    <3>4. QED
      BY <3>2, <3>3
  <2>7. QED
    BY <2>1, <2>2, <2>3, <2>4, <2>5, <2>6
<1>5. ASSUME NEW first \in BOOLEAN, Close(first)
      PROVE  IInv'
  <2>1. FlagsOK'
    BY <1>5, Zenon DEF FlagsOK, Close
  <2>2. NumbersOK'
    BY <1>5 DEF NumbersOK, CursorInv, Close
  <2>3. worker' \in WorkerPoints /\ client' \in ClientPoints
    BY <1>5 DEF WorkerPoints, ClientPoints, Close
  <2>4. ThreadsInv' /\ CursorInv'
    BY <1>5 DEF ThreadsInv, CursorInv, NumbersOK, EndIsFlagged, EndIsExact, MayControl, Close
  <2>5. SeenInv'
    BY <1>5 DEF SeenInv, InFlight, CursorInv, ThreadsInv, NumbersOK, MayControl, Close
  <2>6. EndIsExact' /\ HoldInv'
    BY <1>5 DEF EndIsExact, EndIsFlagged, EndIsEarned, HoldInv, CursorInv, ThreadsInv, NumbersOK,
       MayControl, Close
  <2>7. QED
    BY <2>1, <2>2, <2>3, <2>4, <2>5, <2>6
<1>6. CASE RequestStop
  <2>1. FlagsOK'
    BY <1>6, Zenon DEF FlagsOK, RequestStop, NotifyAll
  <2>2. NumbersOK'
    BY <1>6 DEF NumbersOK, CursorInv, RequestStop, NotifyAll
  <2>3. worker' \in WorkerPoints /\ client' \in ClientPoints
    BY <1>6 DEF WorkerPoints, ClientPoints, RequestStop, NotifyAll
  <2>4. ThreadsInv' /\ CursorInv'
    BY <1>6 DEF ThreadsInv, CursorInv, NumbersOK, EndIsFlagged, EndIsExact, MayControl, RequestStop,
       NotifyAll
  <2>5. SeenInv'
    BY <1>6 DEF SeenInv, InFlight, CursorInv, ThreadsInv, NumbersOK, MayControl, RequestStop,
       NotifyAll
  <2>6. EndIsExact' /\ HoldInv'
    BY <1>6 DEF EndIsExact, EndIsFlagged, EndIsEarned, HoldInv, CursorInv, ThreadsInv, NumbersOK,
       MayControl, RequestStop, NotifyAll
  <2>7. QED
    BY <2>1, <2>2, <2>3, <2>4, <2>5, <2>6
<1>7. CASE Join
  <2>1. FlagsOK'
    BY <1>7, Zenon DEF FlagsOK, Join
  <2>2. NumbersOK'
    BY <1>7 DEF NumbersOK, CursorInv, Join
  <2>3. worker' \in WorkerPoints /\ client' \in ClientPoints
    BY <1>7 DEF WorkerPoints, ClientPoints, Join
  <2>4. ThreadsInv' /\ CursorInv'
    BY <1>7 DEF ThreadsInv, CursorInv, NumbersOK, EndIsFlagged, EndIsExact, MayControl, Join
  <2>5. SeenInv'
    BY <1>7 DEF SeenInv, InFlight, CursorInv, ThreadsInv, NumbersOK, MayControl, Join
  <2>6. EndIsExact' /\ HoldInv'
    BY <1>7 DEF EndIsExact, EndIsFlagged, EndIsEarned, HoldInv, CursorInv, ThreadsInv, NumbersOK,
       MayControl, Join
  <2>7. QED
    BY <2>1, <2>2, <2>3, <2>4, <2>5, <2>6
<1>8. CASE CloseReader
  <2>1. FlagsOK'
    BY <1>8, Zenon DEF FlagsOK, CloseReader, AfterJoin
  <2>2. NumbersOK'
    BY <1>8 DEF NumbersOK, CursorInv, CloseReader, AfterJoin
  <2>3. worker' \in WorkerPoints /\ client' \in ClientPoints
    BY <1>8 DEF WorkerPoints, ClientPoints, CloseReader, AfterJoin
  <2>4. ThreadsInv' /\ CursorInv'
    BY <1>8 DEF ThreadsInv, CursorInv, NumbersOK, EndIsFlagged, EndIsExact, MayControl, CloseReader,
       AfterJoin
  <2>5. SeenInv'
    BY <1>8 DEF SeenInv, InFlight, CursorInv, ThreadsInv, NumbersOK, MayControl, CloseReader,
       AfterJoin
  <2>6. EndIsExact' /\ HoldInv'
    BY <1>8 DEF EndIsExact, EndIsFlagged, EndIsEarned, HoldInv, CursorInv, ThreadsInv, NumbersOK,
       MayControl, CloseReader, AfterJoin
  <2>7. QED
    BY <2>1, <2>2, <2>3, <2>4, <2>5, <2>6
<1>9. CASE OpenSucceeds
  <2>1. FlagsOK'
    <3>1. (Count = 0) \in BOOLEAN /\ (Count > 0) \in BOOLEAN
      OBVIOUS
    <3>2. QED
      BY <1>9, <3>1, Zenon DEF FlagsOK, OpenSucceeds
  <2>2. NumbersOK'
    BY <1>9 DEF NumbersOK, CursorInv, OpenSucceeds
  <2>3. worker' \in WorkerPoints /\ client' \in ClientPoints
    BY <1>9 DEF WorkerPoints, ClientPoints, OpenSucceeds
  <2>4. ThreadsInv' /\ CursorInv'
    BY <1>9 DEF ThreadsInv, CursorInv, NumbersOK, EndIsFlagged, EndIsExact, MayControl, OpenSucceeds
  <2>5. SeenInv'
    BY <1>9 DEF SeenInv, InFlight, CursorInv, ThreadsInv, NumbersOK, MayControl, OpenSucceeds
  <2>6. EndIsExact' /\ HoldInv'
    <3>1. atEnd' <=> Count = 0
      BY <1>9, Zenon DEF OpenSucceeds
    <3>2. QED
      BY <1>9, <3>1 DEF EndIsExact, EndIsFlagged, EndIsEarned, HoldInv, OpenSucceeds
  <2>7. QED
    BY <2>1, <2>2, <2>3, <2>4, <2>5, <2>6
<1>10. CASE OpenFails
  <2>1. FlagsOK'
    BY <1>10, Zenon DEF FlagsOK, OpenFails
  <2>2. NumbersOK'
    BY <1>10 DEF NumbersOK, CursorInv, OpenFails
  <2>3. worker' \in WorkerPoints /\ client' \in ClientPoints
    BY <1>10 DEF WorkerPoints, ClientPoints, OpenFails
  <2>4. ThreadsInv' /\ CursorInv'
    BY <1>10 DEF ThreadsInv, CursorInv, NumbersOK, EndIsFlagged, EndIsExact, MayControl, OpenFails
  <2>5. SeenInv'
    BY <1>10 DEF SeenInv, InFlight, CursorInv, ThreadsInv, NumbersOK, MayControl, OpenFails
  <2>6. EndIsExact' /\ HoldInv'
    BY <1>10 DEF EndIsExact, EndIsFlagged, EndIsEarned, HoldInv, CursorInv, ThreadsInv, NumbersOK,
       MayControl, OpenFails
  <2>7. QED
    BY <2>1, <2>2, <2>3, <2>4, <2>5, <2>6
<1>11. QED
  BY <1>1, <1>2, <1>3, <1>4, <1>5, <1>6, <1>7, <1>8, <1>9, <1>10 DEF ClientStep

\* Every step of the worker, whatever the client is doing, preserves it.
LEMMA WorkerKeeps == IInv /\ WorkerStep => IInv'
<1> SUFFICES ASSUME IInv, WorkerStep PROVE IInv'
  OBVIOUS
<1> USE CountAssumption DEF IInv, TypeOK, shared, stats, locals, history
<1>1. CASE OuterExit
  <2>1. FlagsOK'
    BY <1>1, Zenon DEF FlagsOK, OuterExit
  <2>2. NumbersOK'
    BY <1>1 DEF NumbersOK, CursorInv, OuterExit
  <2>3. worker' \in WorkerPoints /\ client' \in ClientPoints
    BY <1>1 DEF WorkerPoints, ClientPoints, OuterExit
  <2>4. ThreadsInv' /\ CursorInv'
    BY <1>1 DEF ThreadsInv, CursorInv, NumbersOK, EndIsFlagged, EndIsExact, OuterExit
  <2>5. SeenInv'
    BY <1>1 DEF SeenInv, InFlight, CursorInv, ThreadsInv, NumbersOK, OuterExit
  <2>6. EndIsExact' /\ HoldInv'
    BY <1>1 DEF EndIsExact, EndIsFlagged, EndIsEarned, HoldInv, CursorInv, ThreadsInv, NumbersOK,
       OuterExit
  <2>7. QED
    BY <2>1, <2>2, <2>3, <2>4, <2>5, <2>6
<1>2. CASE OuterWait
  <2>1. FlagsOK'
    BY <1>2, Zenon DEF FlagsOK, OuterWait
  <2>2. NumbersOK'
    BY <1>2 DEF NumbersOK, CursorInv, OuterWait
  <2>3. worker' \in WorkerPoints /\ client' \in ClientPoints
    BY <1>2 DEF WorkerPoints, ClientPoints, OuterWait
  <2>4. ThreadsInv' /\ CursorInv'
    BY <1>2 DEF ThreadsInv, CursorInv, NumbersOK, EndIsFlagged, EndIsExact, OuterWait
  <2>5. SeenInv'
    BY <1>2 DEF SeenInv, InFlight, CursorInv, ThreadsInv, NumbersOK, OuterWait
  <2>6. EndIsExact' /\ HoldInv'
    BY <1>2 DEF EndIsExact, EndIsFlagged, EndIsEarned, HoldInv, CursorInv, ThreadsInv, NumbersOK,
       OuterWait
  <2>7. QED
    BY <2>1, <2>2, <2>3, <2>4, <2>5, <2>6
<1>3. CASE OuterStart
  <2>1. FlagsOK'
    BY <1>3, Zenon DEF FlagsOK, OuterStart
  <2>2. NumbersOK'
    BY <1>3 DEF NumbersOK, CursorInv, OuterStart
  <2>3. worker' \in WorkerPoints /\ client' \in ClientPoints
    BY <1>3 DEF WorkerPoints, ClientPoints, OuterStart
  <2>4. ThreadsInv' /\ CursorInv'
    BY <1>3 DEF ThreadsInv, CursorInv, NumbersOK, EndIsFlagged, EndIsExact, OuterStart
  <2>5. SeenInv'
    BY <1>3 DEF SeenInv, InFlight, CursorInv, ThreadsInv, NumbersOK, OuterStart
  <2>6. EndIsExact' /\ HoldInv'
    BY <1>3 DEF EndIsExact, EndIsFlagged, EndIsEarned, HoldInv, CursorInv, ThreadsInv, NumbersOK,
       OuterStart
  <2>7. QED
    BY <2>1, <2>2, <2>3, <2>4, <2>5, <2>6
<1>4. CASE InnerBreak
  <2>1. FlagsOK'
    BY <1>4, Zenon DEF FlagsOK, InnerBreak
  <2>2. NumbersOK'
    BY <1>4 DEF NumbersOK, CursorInv, InnerBreak
  <2>3. worker' \in WorkerPoints /\ client' \in ClientPoints
    BY <1>4 DEF WorkerPoints, ClientPoints, InnerBreak
  <2>4. ThreadsInv' /\ CursorInv'
    BY <1>4 DEF ThreadsInv, CursorInv, NumbersOK, EndIsFlagged, EndIsExact, InnerBreak
  <2>5. SeenInv'
    BY <1>4 DEF SeenInv, InFlight, CursorInv, ThreadsInv, NumbersOK, InnerBreak
  <2>6. EndIsExact' /\ HoldInv'
    BY <1>4 DEF EndIsExact, EndIsFlagged, EndIsEarned, HoldInv, CursorInv, ThreadsInv, NumbersOK,
       InnerBreak
  <2>7. QED
    BY <2>1, <2>2, <2>3, <2>4, <2>5, <2>6
<1>5. CASE InnerNext
  <2>1. FlagsOK'
    BY <1>5, Zenon DEF FlagsOK, InnerNext
  <2>2. NumbersOK'
    BY <1>5 DEF NumbersOK, CursorInv, InnerNext
  <2>3. worker' \in WorkerPoints /\ client' \in ClientPoints
    BY <1>5 DEF WorkerPoints, ClientPoints, InnerNext
  <2>4. ThreadsInv' /\ CursorInv'
    BY <1>5 DEF ThreadsInv, CursorInv, NumbersOK, EndIsFlagged, EndIsExact, InnerNext
  <2>5. SeenInv'
    BY <1>5 DEF SeenInv, InFlight, CursorInv, ThreadsInv, NumbersOK, InnerNext
  <2>6. EndIsExact' /\ HoldInv'
    BY <1>5 DEF EndIsExact, EndIsFlagged, EndIsEarned, HoldInv, CursorInv, ThreadsInv, NumbersOK,
       InnerNext
  <2>7. QED
    BY <2>1, <2>2, <2>3, <2>4, <2>5, <2>6
<1>6. CASE TimedWaitEnds
  <2>1. FlagsOK'
    BY <1>6, Zenon DEF FlagsOK, TimedWaitEnds, Interrupted
  <2>2. NumbersOK'
    BY <1>6 DEF NumbersOK, CursorInv, TimedWaitEnds, Interrupted
  <2>3. worker' \in WorkerPoints /\ client' \in ClientPoints
    BY <1>6 DEF WorkerPoints, ClientPoints, TimedWaitEnds, Interrupted
  <2>4. ThreadsInv' /\ CursorInv'
    BY <1>6 DEF ThreadsInv, CursorInv, NumbersOK, EndIsFlagged, EndIsExact, TimedWaitEnds, Interrupted
  <2>5. SeenInv'
    BY <1>6 DEF SeenInv, InFlight, CursorInv, ThreadsInv, NumbersOK, TimedWaitEnds, Interrupted
  <2>6. EndIsExact' /\ HoldInv'
    BY <1>6 DEF EndIsExact, EndIsFlagged, EndIsEarned, HoldInv, CursorInv, ThreadsInv, NumbersOK,
       TimedWaitEnds, Interrupted
  <2>7. QED
    BY <2>1, <2>2, <2>3, <2>4, <2>5, <2>6
<1>7. CASE Read
  <2>1. FlagsOK'
    BY <1>7, Zenon DEF FlagsOK, Read
  <2>2. NumbersOK'
    BY <1>7 DEF NumbersOK, CursorInv, Read
  <2>3. worker' \in WorkerPoints /\ client' \in ClientPoints
    BY <1>7 DEF WorkerPoints, ClientPoints, Read
  <2>4. ThreadsInv' /\ CursorInv'
    BY <1>7 DEF ThreadsInv, CursorInv, NumbersOK, EndIsFlagged, EndIsExact, Read
  <2>5. SeenInv'
    BY <1>7 DEF SeenInv, InFlight, CursorInv, ThreadsInv, NumbersOK, Read
  <2>6. EndIsExact' /\ HoldInv'
    BY <1>7 DEF EndIsExact, EndIsFlagged, EndIsEarned, HoldInv, CursorInv, ThreadsInv, NumbersOK, Read
  <2>7. QED
    BY <2>1, <2>2, <2>3, <2>4, <2>5, <2>6
<1>8. CASE ReadFailed
  <2>1. FlagsOK'
    BY <1>8, Zenon DEF FlagsOK, ReadFailed
  <2>2. NumbersOK'
    BY <1>8 DEF NumbersOK, CursorInv, ReadFailed
  <2>3. worker' \in WorkerPoints /\ client' \in ClientPoints
    BY <1>8 DEF WorkerPoints, ClientPoints, ReadFailed
  <2>4. ThreadsInv' /\ CursorInv'
    BY <1>8 DEF ThreadsInv, CursorInv, NumbersOK, EndIsFlagged, EndIsExact, ReadFailed
  <2>5. SeenInv'
    BY <1>8 DEF SeenInv, InFlight, CursorInv, ThreadsInv, NumbersOK, ReadFailed
  <2>6. EndIsExact' /\ HoldInv'
    BY <1>8 DEF EndIsExact, EndIsFlagged, EndIsEarned, HoldInv, CursorInv, ThreadsInv, NumbersOK,
       ReadFailed
  <2>7. QED
    BY <2>1, <2>2, <2>3, <2>4, <2>5, <2>6
<1>9. CASE CommitSkips
  <2>1. FlagsOK'
    BY <1>9, Zenon DEF FlagsOK, CommitSkips, Outdated
  <2>2. NumbersOK'
    BY <1>9 DEF NumbersOK, CursorInv, CommitSkips, Outdated
  <2>3. worker' \in WorkerPoints /\ client' \in ClientPoints
    BY <1>9 DEF WorkerPoints, ClientPoints, CommitSkips, Outdated
  <2>4. ThreadsInv' /\ CursorInv'
    BY <1>9 DEF ThreadsInv, CursorInv, NumbersOK, EndIsFlagged, EndIsExact, CommitSkips, Outdated
  <2>5. SeenInv'
    BY <1>9 DEF SeenInv, InFlight, CursorInv, ThreadsInv, NumbersOK, CommitSkips, Outdated
  <2>6. EndIsExact' /\ HoldInv'
    BY <1>9 DEF EndIsExact, EndIsFlagged, EndIsEarned, HoldInv, CursorInv, ThreadsInv, NumbersOK,
       CommitSkips, Outdated
  <2>7. QED
    BY <2>1, <2>2, <2>3, <2>4, <2>5, <2>6
<1>10. CASE Commit
  <2>1. FlagsOK'
    BY <1>10, Zenon DEF FlagsOK, Commit, Outdated, LastReached
  <2>2. NumbersOK'
    BY <1>10 DEF NumbersOK, CursorInv, Commit, Outdated, LastReached
  <2>3. worker' \in WorkerPoints /\ client' \in ClientPoints
    BY <1>10 DEF WorkerPoints, ClientPoints, Commit, Outdated, LastReached
  <2>4. ThreadsInv' /\ CursorInv'
    BY <1>10 DEF ThreadsInv, CursorInv, NumbersOK, EndIsFlagged, EndIsExact, Commit, Outdated,
       LastReached
  <2>5. SeenInv'
    BY <1>10 DEF SeenInv, InFlight, CursorInv, ThreadsInv, NumbersOK, Commit, Outdated, LastReached
  <2>6. EndIsExact' /\ HoldInv'
    BY <1>10 DEF EndIsExact, EndIsFlagged, EndIsEarned, HoldInv, CursorInv, ThreadsInv, NumbersOK,
       Commit, Outdated, LastReached
  <2>7. QED
    BY <2>1, <2>2, <2>3, <2>4, <2>5, <2>6
<1>11. CASE Publish
  <2>1. FlagsOK'
    BY <1>11, Zenon DEF FlagsOK, Publish
  <2>2. NumbersOK'
    BY <1>11 DEF NumbersOK, CursorInv, Publish
  <2>3. worker' \in WorkerPoints /\ client' \in ClientPoints
    BY <1>11 DEF WorkerPoints, ClientPoints, Publish
  <2>4. ThreadsInv' /\ CursorInv'
    BY <1>11 DEF ThreadsInv, CursorInv, NumbersOK, EndIsFlagged, EndIsExact, Publish
  <2>5. SeenInv'
    <3>1. CASE fresh
      <4>1. /\ seen \in Seq(Nat) /\ wIndex \in Nat /\ start \in Nat /\ position \in Nat
            /\ seen' = Append(seen, wIndex)
            /\ worker = "publish" /\ worker' = "inner"
            /\ UNCHANGED <<open, start, position, fresh, wIndex>>
        BY <1>11, <3>1 DEF Publish, NumbersOK, shared, locals
      <4>2. /\ Len(seen) \in Nat /\ Len(seen') = Len(seen) + 1
            /\ seen'[Len(seen) + 1] = wIndex
            /\ \A i \in 1..Len(seen) : seen'[i] = seen[i]
        BY <4>1
      <4>3. InFlight = 1 /\ InFlight' = 0
        BY <4>1, <3>1 DEF InFlight
      <4>4. start + Len(seen) = wIndex /\ position = wIndex + 1
        <5>1. start + Len(seen) + 1 = position
          BY <4>3 DEF SeenInv
        <5>2. position = wIndex + 1
          BY <4>1, <3>1 DEF SeenInv
        <5>3. QED
          BY <5>1, <5>2, <4>1, <4>2
      <4>5. \A i \in 1..Len(seen') : seen'[i] = start' + i - 1
        <5> TAKE i \in 1..Len(seen')
        <5>1. CASE i = Len(seen) + 1
          BY <5>1, <4>1, <4>2, <4>4
        <5>2. CASE i # Len(seen) + 1
          <6>1. i \in 1..Len(seen)
            BY <5>2, <4>2
          <6>2. seen[i] = start + i - 1
            BY <6>1 DEF SeenInv
          <6>3. QED
            BY <6>1, <6>2, <4>1, <4>2
        <5>3. QED
          BY <5>1, <5>2
      <4>6. start' + Len(seen') + InFlight' = position'
        BY <4>1, <4>2, <4>3, <4>4
      <4>7. QED
        BY <4>1, <4>5, <4>6 DEF SeenInv
    <3>2. CASE ~fresh
      BY <1>11, <3>2 DEF Publish, SeenInv, InFlight, NumbersOK
    <3>3. QED
      BY <3>1, <3>2
  <2>6. EndIsExact' /\ HoldInv'
    BY <1>11 DEF EndIsExact, EndIsFlagged, EndIsEarned, HoldInv, CursorInv, ThreadsInv, NumbersOK,
       Publish
  <2>7. QED
    BY <2>1, <2>2, <2>3, <2>4, <2>5, <2>6
<1>12. QED
  BY <1>1, <1>2, <1>3, <1>4, <1>5, <1>6, <1>7, <1>8, <1>9, <1>10, <1>11 DEF WorkerStep

\* The strengthened invariant is an invariant of the replay.
LEMMA SourceInductive == Spec => []IInv
<1>1. IInv /\ [Next]_vars => IInv'
  <2> SUFFICES ASSUME IInv, [Next]_vars PROVE IInv'
    OBVIOUS
  <2>1. CASE UNCHANGED vars
    <3>1. /\ UNCHANGED <<open, paused, atEnd, position, current, controlVersion>>
          /\ UNCHANGED <<chunks, errors, reader, worker, stop, wIndex, wVersion, wBase>>
          /\ UNCHANGED <<client, reopen, start, seen, fresh, rewound, resumed, admitted>>
      BY <2>1 DEF vars, shared, stats, locals, history
    <3>2. FlagsOK'
      BY <3>1, Zenon DEF IInv, TypeOK, FlagsOK
    <3>3. NumbersOK' /\ worker' \in WorkerPoints /\ client' \in ClientPoints
      BY <3>1, Zenon DEF IInv, TypeOK, NumbersOK
    <3>4. ThreadsInv' /\ CursorInv'
      BY <3>1 DEF IInv, ThreadsInv, CursorInv
    <3>5. SeenInv'
      BY <3>1 DEF IInv, SeenInv, InFlight
    <3>6. EndIsExact' /\ HoldInv'
      BY <3>1 DEF IInv, EndIsExact, EndIsFlagged, EndIsEarned, HoldInv
    <3>7. QED
      BY <3>2, <3>3, <3>4, <3>5, <3>6 DEF IInv, TypeOK
  <2>2. QED
    BY <2>1, ClientKeeps, WorkerKeeps DEF Next
<1>2. QED
  BY <1>1, SourceInitInv, PTL DEF Spec

\* Every variable of ReplaySource (replay_source.cpp) keeps its type; above all
\* the cursor never runs past the log.
THEOREM ReplayTypes == Spec => []TypeOK
<1>1. IInv => TypeOK
  BY DEF IInv
<1>2. QED
  BY <1>1, SourceInductive, PTL

\* ReplaySource::run() and seek() together deliver every record from the chosen
\* position on, in file order and once, for a log of any length.
THEOREM ReplayIsExact == Spec => []ExactlyOnce
<1>1. IInv => ExactlyOnce
  BY DEF IInv, SeenInv, ExactlyOnce
<1>2. QED
  BY <1>1, SourceInductive, PTL

\* pause() holds: at most the record already committed comes out before the
\* next resume().
THEOREM PauseIsSafe == Spec => []PauseHolds
<1>1. IInv => PauseHolds
  <2> SUFFICES ASSUME IInv, ~resumed PROVE admitted <= 1
    BY DEF PauseHolds
  <2>1. QED
    BY DEF IInv, TypeOK, NumbersOK, HoldInv
<1>2. QED
  BY <1>1, SourceInductive, PTL

\* The waits of run() are never negative.
THEOREM DelaysAreSafe == Spec => []DelayNeverNegative
<1>1. IInv => DelayNeverNegative
  BY DEF IInv, CursorInv, DelayNeverNegative
<1>2. QED
  BY <1>1, SourceInductive, PTL

\* close() releases the reader only after the worker is gone.
THEOREM ReaderIsSafe == Spec => []WorkerNeedsReader
<1>1. IInv => WorkerNeedsReader
  BY DEF IInv, ThreadsInv, WorkerNeedsReader
<1>2. QED
  BY <1>1, SourceInductive, PTL

\* The end flag agrees with the cursor: the branch of run() that would set it
\* inside the inner loop is never taken, and only an error sets it early.
THEOREM EndIsTrue == Spec => []EndIsExact
<1>1. IInv => EndIsExact
  BY DEF IInv
<1>2. QED
  BY <1>1, SourceInductive, PTL

-----------------------------------------------------------------------------
(* ReplaySession *)

\* Where the GUI thread stands: between the operations that replace nothing, or on its way
\* through openReplaySession() after the pipeline is drained.
Settled == {"idle", "close", "openClose"}
             \cup {"seekPause", "seekLock", "seekFlush", "seekMove", "seekResume"}
ReadingFiles == {"openMetadata", "openTopics", "openSources", "openParsers", "readDerived",
                 "readAlerts", "readHealth", "readAlignment", "readEvents"}
Replacing == {"alignment", "health", "alerts", "derived"}
Opening == ReadingFiles \cup Replacing \cup {"openFile", "openWait"}
Modes == {"parsed", "raw", "structured"}

\* The position sought is one of the log.
TargetInv == target \in 0..Count

\* The types.
PipelineTypes ==
  /\ queue \in Seq(Nat) /\ hand \in Seq(Nat) /\ pending \in Seq(Nat) /\ stale \in Seq(Nat)
  /\ series \in Seq(Seq(Nat)) /\ FlattenSeq(series) \in Seq(Nat)
GuiTypes ==
  /\ gui \in Settled \cup {"openFlush"} \cup Opening
  /\ mode \in Modes /\ routing \in Modes

\* The replay is inside its own open() or close() only when the GUI waits for it.
ClientInv ==
  /\ gui \notin {"close", "openClose", "openWait"} => client = "idle"
  /\ gui \in {"close", "openClose"} => ~open /\ ~reopen /\ client # "opening"
  /\ gui \in {"openFlush"} \cup Opening /\ gui # "openWait" => ~open
  /\ gui = "openWait" /\ ~open => worker = "none"

\* What is on its way or shown is what was published, in order.
Empty == queue = <<>> /\ hand = <<>> /\ pending = <<>>
PlayedInv ==
  /\ Len(stale) <= 1
  /\ worker = "publish" /\ ~fresh => seen = <<>> /\ stale = <<>>
  /\ gui \in Opening /\ ~open => Empty /\ series = <<>> /\ stale = <<>>
  /\ gui = "seekMove" => Empty
  /\ open /\ mode # "parsed" => Empty
  /\ open /\ mode = "raw" => series = <<>>
  /\ open /\ mode # "raw" /\ gui # "seekMove" => Played = stale \o seen

ShownInv == PipelineTypes /\ GuiTypes /\ ClientInv /\ PlayedInv

-----------------------------------------------------------------------------
(* The replay *)

\* Nothing of SessionRestore touches the replay, and everything else is a step of it.
LEMMA ReplaySteps == TargetInv /\ [SessionNext]_sessionVars => [Next]_vars
<1>. SUFFICES ASSUME TargetInv, [SessionNext]_sessionVars PROVE [Next]_vars
  OBVIOUS
<1>. USE DEF TargetInv, Next, ClientStep, WorkerStep
<1>. SUFFICES Next \/ UNCHANGED replayVars
  BY DEF replayVars, vars, shared, stats, locals, history
<1>1. CASE UNCHANGED sessionVars
  BY <1>1 DEF sessionVars
<1>2. CASE Deliver \/ ReplayStep
  BY <1>2 DEF Deliver, ReplayStep
<1>3. CASE PipelineStep
  BY <1>3 DEF PipelineStep, Take, Process
<1>4. CASE PauseReplay \/ ResumeReplay \/ SetReplaySpeed
  BY <1>4 DEF PauseReplay, ResumeReplay, SetReplaySpeed, Control
<1>5. CASE (\E record \in Records : SeekBegin(record)) \/ CloseBegin \/ OpenBegin
  BY <1>5 DEF SeekBegin, CloseBegin, OpenBegin, Control, Skip
<1>6. CASE GuiStep
  <2>1. CASE SeekPause \/ SeekLock \/ SeekFlush \/ SeekMove \/ SeekResume
    BY <2>1 DEF SeekPause, SeekLock, SeekFlush, SeekMove, SeekResume, Control, Skip
  <2>2. CASE CloseEnd \/ OpenLock \/ OpenFlush \/ OpenReads \/ OpenFile \/ OpenEnd
    BY <2>2 DEF CloseEnd, OpenLock, OpenFlush, OpenReads, OpenFile, OpenEnd, Control, Skip
  <2>3. CASE ReplayCall
    BY <2>3 DEF ReplayCall
  <2>. QED
    BY <1>6, <2>1, <2>2, <2>3 DEF GuiStep
<1>. QED
  BY <1>1, <1>2, <1>3, <1>4, <1>5, <1>6 DEF SessionNext

LEMMA TargetStays == TargetInv /\ [SessionNext]_sessionVars => TargetInv'
<1>. SUFFICES ASSUME target \in 0..Count, [SessionNext]_sessionVars PROVE target' \in 0..Count
  BY DEF TargetInv
<1>1. CASE \E record \in Records : SeekBegin(record)
  BY <1>1, CountAssumption DEF SeekBegin, Records
<1>2. CASE GuiStep
  BY <1>2 DEF GuiStep, SeekPause, SeekLock, SeekFlush, SeekMove, SeekResume, CloseEnd, OpenLock,
     OpenFlush, OpenReads, OpenFile, OpenEnd, ReplayCall, Enter, guiVars
<1>3. CASE Deliver \/ ReplayStep \/ PipelineStep \/ UNCHANGED sessionVars
  BY <1>3 DEF Deliver, ReplayStep, PipelineStep, Take, Process, guiVars, sessionVars
<1>4. CASE PauseReplay \/ ResumeReplay \/ SetReplaySpeed \/ CloseBegin \/ OpenBegin
  BY <1>4 DEF PauseReplay, ResumeReplay, SetReplaySpeed, CloseBegin, OpenBegin, Enter, guiVars
<1>. QED
  BY <1>1, <1>2, <1>3, <1>4 DEF SessionNext

\* The application uses ReplaySource as its callers may: what replays in it is one.
THEOREM ReplayIsSource == SessionSpec => Spec
<1>1. SessionInit => Init /\ TargetInv
  BY CountAssumption DEF SessionInit, TargetInv
<1>2. QED
  BY <1>1, ReplaySteps, TargetStays, PTL DEF SessionSpec, Spec

\* What keeps the replay together holds of it inside the application as well.
LEMMA SourceInv == SessionSpec => []IInv
BY ReplayIsSource, SourceInductive, PTL

\* Whatever the GUI does with seekReplay(), closeReplay() and openReplaySession(), the
\* replay keeps its promises: every record once and in order from the position last
\* chosen, and nothing but the record already committed after a pause.
THEOREM ReplayIsSafe == SessionSpec => [](ExactlyOnce /\ PauseHolds)
BY ReplayIsSource, ReplayIsExact, PauseIsSafe, PTL

-----------------------------------------------------------------------------
(* The curves *)

LEMMA LeastMember ==
  ASSUME NEW S \in SUBSET Nat, S # {}
  PROVE  \E m \in S : \A k \in S : m <= k
<1>1. \E m \in S : \A k \in S : ~(<<k, m>> \in OpToRel(<, Nat))
  BY WFMin, NatLessThanWellFounded, Zenon
<1>2. PICK m \in S : \A k \in S : ~(<<k, m>> \in OpToRel(<, Nat))
  BY <1>1
<1>3. \A k \in S : ~(k < m)
  BY <1>2, Zenon DEF OpToRel
<1>. QED
  BY <1>3, SMT

LEMMA Induction ==
  ASSUME NEW S \in SUBSET Nat, 0 \in S, \A n \in S : n + 1 \in S
  PROVE  \A n \in Nat : n \in S
<1>. SUFFICES ASSUME Nat \ S # {} PROVE FALSE
  OBVIOUS
<1>1. PICK m \in Nat \ S : \A k \in Nat \ S : m <= k
  BY LeastMember
<1>2. m - 1 \in S
  BY <1>1
<1>. QED
  BY <1>1, <1>2

\* The lines joined up to each of the first m of them.
Joined(f, s, m) == f = [i \in 1..m |-> IF i = 1 THEN s[i] ELSE f[i - 1] \o s[i]]

LEMMA JoinedExists == ASSUME NEW s, NEW n \in Nat PROVE \E f : Joined(f, s, n)
<1>. DEFINE S == {m \in Nat : \E f : Joined(f, s, m)}
<1>1. 0 \in S
  <2>. DEFINE f == [i \in 1..0 |-> s[1]]
  <2>1. f = [i \in 1..0 |-> IF i = 1 THEN s[i] ELSE f[i - 1] \o s[i]]
    OBVIOUS
  <2>. QED
    BY <2>1 DEF Joined
<1>2. ASSUME NEW m \in S PROVE m + 1 \in S
  <2>1. PICK f : Joined(f, s, m)
    OBVIOUS
  <2>. DEFINE g == [i \in 1..(m + 1) |-> IF i <= m THEN f[i]
                                         ELSE IF i = 1 THEN s[i] ELSE f[m] \o s[i]]
  <2>2. \A i \in 1..m : f[i] = IF i = 1 THEN s[i] ELSE f[i - 1] \o s[i]
    BY <2>1 DEF Joined
  <2>3. \A i \in 1..(m + 1) : g[i] = IF i = 1 THEN s[i] ELSE g[i - 1] \o s[i]
    BY <2>2
  <2>4. g = [i \in 1..(m + 1) |-> IF i = 1 THEN s[i] ELSE g[i - 1] \o s[i]]
    BY <2>3
  <2>. HIDE DEF g
  <2>5. Joined(g, s, m + 1)
    BY <2>4 DEF Joined
  <2>. QED
    BY <2>5
<1>3. S \in SUBSET Nat
  OBVIOUS
<1>. HIDE DEF S
<1>4. n \in S
  BY <1>1, <1>2, <1>3, Induction
<1>. QED
  BY <1>4 DEF S

\* FlattenSeq is the last of them.
LEMMA FlattenIsJoined ==
  ASSUME NEW s, Len(s) \in Nat \ {0}
  PROVE  \E f : Joined(f, s, Len(s)) /\ FlattenSeq(s) = f[Len(s)]
<1>. DEFINE f == CHOOSE g : Joined(g, s, Len(s))
<1>1. Joined(f, s, Len(s))
  BY JoinedExists
<1>2. FlattenSeq(s) = f[Len(s)]
  BY DEF FlattenSeq, Joined
<1>. QED
  BY <1>1, <1>2

LEMMA FlattenEmpty == FlattenSeq(<<>>) = <<>>
BY DEF FlattenSeq

\* A line added to the curves goes to their end.
LEMMA FlattenAppend ==
  ASSUME NEW T, NEW s \in Seq(Seq(T)), NEW x \in Seq(T), FlattenSeq(s) \in Seq(T)
  PROVE  FlattenSeq(Append(s, x)) = FlattenSeq(s) \o x
<1>. DEFINE t == Append(s, x)
            n == Len(s)
<1>1. /\ n \in Nat /\ Len(t) = n + 1 /\ t[n + 1] = x
      /\ \A i \in 1..n : t[i] = s[i]
  BY AppendProperties, LenProperties
<1>. HIDE DEF t, n
<1>2. PICK h : Joined(h, t, n + 1) /\ FlattenSeq(t) = h[n + 1]
  BY <1>1, FlattenIsJoined
<1>3. \A i \in 1..(n + 1) : h[i] = IF i = 1 THEN t[i] ELSE h[i - 1] \o t[i]
  BY <1>2 DEF Joined
<1>6. ASSUME NEW i \in 1..n PROVE h[i + 1] = h[i] \o t[i + 1]
  <2>1. i + 1 \in 1..(n + 1) /\ i + 1 # 1 /\ (i + 1) - 1 = i
    BY <1>1
  <2>2. h[i + 1] = h[(i + 1) - 1] \o t[i + 1]
    BY <1>3, <2>1, Zenon
  <2>. QED
    BY <2>1, <2>2
<1>4. CASE n = 0
  <2>1. s = <<>>
    BY <1>4, EmptySeq DEF n
  <2>2. FlattenSeq(s) = <<>>
    BY <2>1, FlattenEmpty
  <2>3. h[1] = x
    BY <1>1, <1>3, <1>4
  <2>4. <<>> \o x = x
    BY ConcatEmptySeq
  <2>. QED
    BY <1>2, <1>4, <2>2, <2>3, <2>4 DEF t
<1>5. CASE n # 0
  <2>1. PICK f : Joined(f, s, n) /\ FlattenSeq(s) = f[n]
    BY <1>1, <1>5, FlattenIsJoined DEF n
  <2>2. \A i \in 1..n : f[i] = IF i = 1 THEN s[i] ELSE f[i - 1] \o s[i]
    BY <2>1 DEF Joined
  <2>9. ASSUME NEW i \in 1..(n - 1) PROVE f[i + 1] = f[i] \o s[i + 1]
    <3>1. i + 1 \in 1..n /\ i + 1 # 1 /\ (i + 1) - 1 = i
      BY <1>1
    <3>2. f[i + 1] = f[(i + 1) - 1] \o s[i + 1]
      BY <2>2, <3>1, Zenon
    <3>. QED
      BY <3>1, <3>2
  <2>. DEFINE S == {m \in Nat : m + 1 <= n => h[m + 1] = f[m + 1]}
  <2>3. 0 \in S
    BY <1>1, <1>3, <1>5, <2>2
  <2>4. ASSUME NEW m \in S PROVE m + 1 \in S
    <3>1. CASE m + 2 <= n
      <4>1. h[m + 2] = h[m + 1] \o t[m + 2]
        <5>1. m + 1 \in 1..n /\ m + 2 = (m + 1) + 1
          BY <1>1, <3>1
        <5>. QED
          BY <1>6, <5>1, Zenon
      <4>2. f[m + 2] = f[m + 1] \o s[m + 2]
        <5>1. m + 1 \in 1..(n - 1) /\ m + 2 = (m + 1) + 1
          BY <1>1, <3>1
        <5>. QED
          BY <2>9, <5>1, Zenon
      <4>3. h[m + 1] = f[m + 1] /\ t[m + 2] = s[m + 2]
        BY <1>1, <3>1
      <4>4. h[m + 2] = f[m + 2]
        BY <4>1, <4>2, <4>3, Zenon
      <4>. QED
        BY <1>1, <4>4
    <3>2. CASE ~(m + 2 <= n)
      BY <1>1, <3>2
    <3>. QED
      BY <3>1, <3>2
  <2>5. S \in SUBSET Nat
    OBVIOUS
  <2>. HIDE DEF S
  <2>6. n - 1 \in S
    <3>1. n - 1 \in Nat
      BY <1>1, <1>5
    <3>. QED
      BY <2>3, <2>4, <2>5, <3>1, Induction
  <2>7. h[n] = f[n]
    BY <1>1, <1>5, <2>6 DEF S
  <2>8. h[n + 1] = h[n] \o x
    <3>1. n \in 1..n
      BY <1>1, <1>5
    <3>. QED
      BY <1>1, <1>6, <3>1, Zenon
  <2>. QED
    BY <1>2, <2>1, <2>7, <2>8 DEF t
<1>. QED
  BY <1>4, <1>5

LEMMA Associative ==
  ASSUME NEW s \in Seq(Nat), NEW t \in Seq(Nat), NEW u \in Seq(Nat)
  PROVE  (s \o t) \o u = s \o (t \o u)
BY ConcatAssociative

\* What the pipeline and the curves hold, joined, when something moves between them.
LEMMA Moves ==
  ASSUME NEW F \in Seq(Nat), NEW p \in Seq(Nat), NEW h \in Seq(Nat)
  PROVE  /\ F \o (p \o h) \o <<>> = F \o p \o h
         /\ F \o (p \o h) \o <<>> \o <<>> = F \o p \o h
<1>1. p \o h \in Seq(Nat) /\ F \o (p \o h) \in Seq(Nat)
  BY ConcatProperties
<1>2. (F \o p) \o h = F \o (p \o h)
  BY Associative
<1>3. (F \o (p \o h)) \o <<>> = F \o (p \o h)
  BY <1>1, ConcatEmptySeq
<1>. QED
  BY <1>2, <1>3, Zenon

LEMMA MovesIn ==
  ASSUME NEW F \in Seq(Nat), NEW q \in Seq(Nat), NEW w \in Nat
  PROVE  F \o Append(q, w) = Append(F \o q, w)
<1>1. Append(q, w) = q \o <<w>> /\ F \o q \in Seq(Nat)
  BY AppendIsConcat, ConcatProperties
<1>2. Append(F \o q, w) = (F \o q) \o <<w>>
  BY <1>1, AppendIsConcat
<1>3. <<w>> \in Seq(Nat)
  OBVIOUS
<1>4. (F \o q) \o <<w>> = F \o (q \o <<w>>)
  BY <1>3, ConcatAssociative
<1>. QED
  BY <1>1, <1>2, <1>4, Zenon

LEMMA MovesOn ==
  ASSUME NEW F \in Seq(Nat), NEW q \in Seq(Nat), q # <<>>
  PROVE  /\ <<Head(q)>> \in Seq(Nat) /\ Tail(q) \in Seq(Nat)
         /\ F \o <<Head(q)>> \o Tail(q) = F \o <<>> \o q
<1>1. Head(q) \in Nat /\ Tail(q) \in Seq(Nat)
  BY HeadTailProperties
<1>2. <<Head(q)>> \in Seq(Nat)
  BY <1>1
<1>3. <<Head(q)>> \o Tail(q) = q
  <2>1. Len(q) \in Nat \ {0}
    BY EmptySeq
  <2>2. SubSeq(q, 1, Len(q)) = <<q[1]>> \o SubSeq(q, 2, Len(q))
    BY <2>1, SubSeqRecursiveFirst
  <2>3. SubSeq(q, 1, Len(q)) = q /\ Tail(q) = SubSeq(q, 2, Len(q))
    BY SubSeqFull, TailIsSubSeq
  <2>4. Head(q) = q[1]
    BY <2>1
  <2>. QED
    BY <2>2, <2>3, <2>4, Zenon
<1>4. F \o <<Head(q)>> \o Tail(q) = F \o (<<Head(q)>> \o Tail(q))
  BY <1>1, <1>2, ConcatAssociative
<1>5. F \o <<>> = F
  BY ConcatEmptySeq
<1>. QED
  BY <1>1, <1>2, <1>3, <1>4, <1>5, Zenon

-----------------------------------------------------------------------------
(* What is shown *)

LEMMA InitShown == SessionInit => ShownInv
<1>. SUFFICES ASSUME SessionInit PROVE ShownInv
  OBVIOUS
<1>1. PipelineTypes
  BY FlattenEmpty, EmptySeq DEF SessionInit, PipelineTypes
<1>2. GuiTypes /\ ClientInv
  BY DEF SessionInit, RestoreInit, Init, GuiTypes, ClientInv, Settled, Modes, Opening,
     ReadingFiles, Replacing
<1>3. PlayedInv
  BY DEF SessionInit, RestoreInit, Init, PlayedInv, Opening, ReadingFiles, Replacing
<1>. QED
  BY <1>1, <1>2, <1>3 DEF ShownInv

\* A step that leaves what is published, on its way and shown alone.
Calm == {"idle", "seekPause", "seekLock", "seekFlush", "seekResume"}
Shows == <<queue, hand, pending, series, stale, mode, routing, seen, open, client, reopen>>
LEMMA Frame ==
  ASSUME ShownInv, UNCHANGED Shows,
         gui' = gui \/ (gui \in Calm /\ gui' \in Calm),
         worker' = "publish" /\ ~fresh' => worker = "publish" /\ ~fresh,
         worker = "none" => worker' = "none"
  PROVE  ShownInv'
<1>. USE DEF ShownInv, Shows, Calm
<1>1. PipelineTypes'
  BY DEF PipelineTypes
<1>2. GuiTypes'
  BY DEF GuiTypes, Settled
<1>3. ClientInv'
  BY DEF ClientInv, Opening, ReadingFiles, Replacing
<1>4. PlayedInv'
  <2>1. Played' = Played
    BY DEF Played
  <2>. QED
    BY <2>1 DEF PlayedInv, Empty, Opening, ReadingFiles, Replacing
<1>. QED
  BY <1>1, <1>2, <1>3, <1>4

\* What is known of the replay: the theorems about ReplaySource.
Known == /\ wIndex \in Nat /\ seen \in Seq(Nat) /\ worker \in WorkerPoints
         /\ client \in ClientPoints
         /\ client = "idle" /\ ~open => worker = "none"
         /\ open => client = "idle"

LEMMA SourceKnown == IInv => Known
BY DEF IInv, TypeOK, NumbersOK, ThreadsInv,
   WorkerPoints, ClientPoints, Known

\* The record published is added to what was, wherever it goes.
LEMMA PublishShown == ShownInv /\ Known /\ Deliver => ShownInv'
<1>. SUFFICES ASSUME ShownInv, Known, Deliver PROVE ShownInv'
  OBVIOUS
<1>. USE DEF ShownInv, Deliver, Publish, shared, guiVars, restoreVars
<1>. DEFINE line == <<wIndex>>
<1>0. wIndex \in Nat /\ line \in Seq(Nat)
  BY DEF Known
<1>1. /\ queue \in Seq(Nat) /\ hand \in Seq(Nat) /\ pending \in Seq(Nat) /\ stale \in Seq(Nat)
      /\ series \in Seq(Seq(Nat)) /\ FlattenSeq(series) \in Seq(Nat)
  BY DEF PipelineTypes
<1>2. /\ FlattenSeq(Append(series, line)) = FlattenSeq(series) \o line
      /\ FlattenSeq(series) \o line \in Seq(Nat)
      /\ Append(series, line) \in Seq(Seq(Nat))
  BY <1>0, <1>1, FlattenAppend, ConcatProperties, AppendProperties
<1>3. Append(queue, wIndex) \in Seq(Nat) /\ Append(stale, wIndex) \in Seq(Nat)
  BY <1>0, <1>1, AppendProperties
<1>. HIDE DEF line
<1>4. PipelineTypes'
  <2>1. queue' \in Seq(Nat) /\ hand' \in Seq(Nat) /\ pending' \in Seq(Nat) /\ stale' \in Seq(Nat)
    BY <1>1, <1>3, Zenon
  <2>2. series' = series \/ series' = Append(series, line)
    BY DEF line
  <2>3. series' \in Seq(Seq(Nat)) /\ FlattenSeq(series') \in Seq(Nat)
    BY <1>1, <1>2, <2>2, Zenon
  <2>. QED
    BY <2>1, <2>3 DEF PipelineTypes
<1>5. GuiTypes' /\ ClientInv'
  BY DEF GuiTypes, ClientInv, Opening, ReadingFiles, Replacing
<1>6. gui \notin {"seekMove", "openFlush"} /\ (gui \in Opening => open)
  BY DEF RoutingFree, PlayedInv, ClientInv, Known, Opening, ReadingFiles, Replacing
<1>7. Len(stale') <= 1
  <2>1. CASE fresh
    BY <2>1 DEF PlayedInv
  <2>2. CASE ~fresh
    <3>1. stale = <<>>
      BY <2>2 DEF PlayedInv
    <3>. QED
      BY <1>0, <2>2, <3>1
  <2>. QED
    BY <2>1, <2>2
<1>8. stale' \o seen' = Append(stale \o seen, wIndex)
  <2>1. CASE fresh
    <3>1. stale' = stale /\ seen' = Append(seen, wIndex)
      BY <2>1
    <3>2. seen \in Seq(Nat)
      BY DEF Known
    <3>3. stale \o Append(seen, wIndex) = Append(stale \o seen, wIndex)
      BY <1>0, <1>1, <3>2, MovesIn
    <3>. QED
      BY <3>1, <3>3, Zenon
  <2>2. CASE ~fresh
    <3>1. stale = <<>> /\ seen = <<>> /\ stale' = Append(stale, wIndex) /\ seen' = <<>>
      BY <2>2 DEF PlayedInv
    <3>2. Append(stale, wIndex) \o <<>> = Append(stale, wIndex) /\ <<>> \o <<>> = <<>>
      BY <1>3, ConcatEmptySeq
    <3>. QED
      BY <3>1, <3>2, Zenon
  <2>. QED
    BY <2>1, <2>2
<1>9. ASSUME open, mode # "raw" PROVE Played' = stale' \o seen'
  <2>0. Played = stale \o seen
    BY <1>6, <1>9 DEF PlayedInv
  <2>1. CASE mode = "parsed"
    <3>1. /\ queue' = Append(queue, wIndex) /\ hand' = hand /\ pending' = pending
          /\ series' = series
      BY <2>1
    <3>2. FlattenSeq(series) \o pending \o hand \in Seq(Nat)
      BY <1>1, ConcatProperties
    <3>3. FlattenSeq(series) \o pending \o hand \o Append(queue, wIndex)
            = Append(FlattenSeq(series) \o pending \o hand \o queue, wIndex)
      BY <1>0, <1>1, <3>2, MovesIn
    <3>. QED
      BY <1>8, <2>0, <3>1, <3>3, Zenon DEF Played
  <2>2. CASE mode = "structured"
    <3>1. /\ queue' = queue /\ hand' = hand /\ pending' = pending
          /\ series' = Append(series, line)
      BY <2>2 DEF line
    <3>2. queue = <<>> /\ hand = <<>> /\ pending = <<>>
      BY <1>9, <2>2 DEF PlayedInv, Empty
    <3>. DEFINE F == FlattenSeq(series)
    <3>3. /\ F \o <<>> \o <<>> \o <<>> = F
          /\ (F \o line) \o <<>> \o <<>> \o <<>> = F \o line
      BY <1>1, <1>2, ConcatEmptySeq
    <3>4. Append(F, wIndex) = F \o line
      BY <1>0, <1>1, AppendIsConcat DEF line
    <3>. HIDE DEF F
    <3>5. Played = F \o <<>> \o <<>> \o <<>>
      BY <3>2, Zenon DEF Played, F
    <3>6. Played' = (F \o line) \o <<>> \o <<>> \o <<>>
      BY <1>2, <3>1, <3>2, Zenon DEF Played, F
    <3>. QED
      BY <1>8, <2>0, <3>3, <3>4, <3>5, <3>6, Zenon
  <2>. QED
    BY <1>9, <2>1, <2>2 DEF GuiTypes, Modes
<1>10. PlayedInv'
  <2>1. /\ open' = open /\ mode' = mode /\ gui' = gui /\ hand' = hand /\ pending' = pending
        /\ mode # "parsed" => queue' = queue
        /\ mode = "raw" => series' = series
    OBVIOUS
  <2>2. worker' = "inner"
    OBVIOUS
  <2>3. gui' \in Opening /\ ~open' => FALSE
    BY <1>6, <2>1
  <2>4. open' /\ mode' # "parsed" => Empty'
    BY <2>1 DEF PlayedInv, Empty
  <2>5. open' /\ mode' = "raw" => series' = <<>>
    BY <2>1 DEF PlayedInv
  <2>6. open' /\ mode' # "raw" => Played' = stale' \o seen'
    BY <1>9, <2>1
  <2>7. gui' # "seekMove" /\ worker' # "publish"
    BY <1>6, <2>1, <2>2
  <2>. QED
    BY <1>7, <2>3, <2>4, <2>5, <2>6, <2>7, Zenon DEF PlayedInv
<1>. QED
  BY <1>4, <1>5, <1>10

\* Every other step of the replay's worker.
LEMMA ReplayShown == ShownInv /\ ReplayStep => ShownInv'
<1>. SUFFICES ASSUME ShownInv, ReplayStep PROVE ShownInv'
  OBVIOUS
<1>. USE DEF shared, stats, locals, history
<1>1. UNCHANGED <<guiVars, pipelineVars, stale>>
  BY DEF ReplayStep
<1>2. /\ UNCHANGED <<seen, open, client, reopen>>
      /\ worker' = "publish" => fresh'
      /\ worker # "none"
  <2>1. CASE OuterExit \/ OuterWait \/ OuterStart \/ InnerBreak
    BY <2>1 DEF OuterExit, OuterWait, OuterStart, InnerBreak
  <2>2. CASE InnerNext
    BY <2>2 DEF InnerNext
  <2>3. CASE TimedWaitEnds \/ Read \/ ReadFailed \/ CommitSkips
    BY <2>3 DEF TimedWaitEnds, Read, ReadFailed, CommitSkips
  <2>4. CASE Commit
    BY <2>4 DEF Commit
  <2>. QED
    BY <2>1, <2>2, <2>3, <2>4 DEF ReplayStep
<1>. QED
  BY <1>1, <1>2, Frame DEF guiVars, restoreVars, pipelineVars, Shows

\* The worker of the pipeline only moves what it was given.
LEMMA PipelineShown == ShownInv /\ PipelineStep => ShownInv'
<1>. SUFFICES ASSUME ShownInv, PipelineStep PROVE ShownInv'
  OBVIOUS
<1>. USE DEF ShownInv, guiVars, restoreVars, replayVars
<1>. DEFINE F == FlattenSeq(series)
<1>1. /\ queue \in Seq(Nat) /\ hand \in Seq(Nat) /\ pending \in Seq(Nat) /\ stale \in Seq(Nat)
      /\ series \in Seq(Seq(Nat)) /\ F \in Seq(Nat)
  BY DEF PipelineTypes
<1>. HIDE DEF F
<1>2. /\ UNCHANGED <<replayVars, guiVars, stale>>
      /\ queue # <<>> \/ hand # <<>>
  BY DEF PipelineStep, Take, Process
<1>3. GuiTypes' /\ ClientInv'
  BY <1>2 DEF GuiTypes, ClientInv, Opening, ReadingFiles, Replacing
<1>4. PipelineTypes' /\ Played' = Played /\ (series' = series \/ hand # <<>>)
  <2>1. CASE Take
    <3>1. /\ hand = <<>> /\ queue # <<>> /\ hand' = <<Head(queue)>> /\ queue' = Tail(queue)
          /\ pending' = pending /\ series' = series /\ stale' = stale
      BY <2>1 DEF Take
    <3>2. F \o pending \in Seq(Nat)
      BY <1>1, ConcatProperties
    <3>3. /\ <<Head(queue)>> \in Seq(Nat) /\ Tail(queue) \in Seq(Nat)
          /\ (F \o pending) \o <<Head(queue)>> \o Tail(queue) = (F \o pending) \o <<>> \o queue
      BY <1>1, <3>1, <3>2, MovesOn
    <3>4. Played' = Played
      BY <3>1, <3>3, Zenon DEF Played, F
    <3>5. PipelineTypes'
      BY <1>1, <3>1, <3>3, Zenon DEF PipelineTypes, F
    <3>. QED
      BY <3>1, <3>4, <3>5
  <2>2. CASE Process
    <3>. DEFINE line == pending \o hand
    <3>1. line \in Seq(Nat)
      BY <1>1, ConcatProperties
    <3>2. /\ F \o line \o <<>> \o queue = F \o pending \o hand \o queue
          /\ (F \o line) \o <<>> \o <<>> \o queue = F \o pending \o hand \o queue
      <4>1. /\ F \o (pending \o hand) \o <<>> = F \o pending \o hand
            /\ F \o (pending \o hand) \o <<>> \o <<>> = F \o pending \o hand
        BY <1>1, Moves
      <4>. QED
        BY <4>1, Zenon
    <3>3. /\ FlattenSeq(Append(series, line)) = F \o line
          /\ F \o line \in Seq(Nat)
          /\ Append(series, line) \in Seq(Seq(Nat))
      <4>1. FlattenSeq(Append(series, line)) = F \o line
        BY <1>1, <3>1, FlattenAppend DEF F
      <4>2. F \o line \in Seq(Nat)
        BY <1>1, <3>1, ConcatProperties
      <4>3. Append(series, line) \in Seq(Seq(Nat))
        BY <1>1, <3>1, AppendProperties
      <4>. QED
        BY <4>1, <4>2, <4>3
    <3>4. /\ hand # <<>> /\ hand' = <<>> /\ queue' = queue /\ stale' = stale
          /\ \/ series' = Append(series, line) /\ pending' = <<>>
             \/ series' = series /\ pending' = line
      BY <2>2 DEF Process, LineErased
    <3>5. <<>> \in Seq(Nat)
      BY EmptySeq
    <3>. HIDE DEF line
    <3>6. CASE series' = Append(series, line) /\ pending' = <<>>
      <4>1. Played' = Played
        BY <3>2, <3>3, <3>4, <3>6, Zenon DEF Played, F
      <4>2. PipelineTypes'
        BY <1>1, <3>3, <3>4, <3>5, <3>6, Zenon DEF PipelineTypes, F
      <4>. QED
        BY <3>4, <4>1, <4>2
    <3>7. CASE series' = series /\ pending' = line
      <4>1. Played' = Played
        BY <3>2, <3>4, <3>7, Zenon DEF Played, F
      <4>2. PipelineTypes'
        BY <1>1, <3>1, <3>4, <3>5, <3>7, Zenon DEF PipelineTypes, F
      <4>. QED
        BY <3>4, <4>1, <4>2
    <3>. QED
      BY <3>4, <3>6, <3>7
  <2>. QED
    BY <2>1, <2>2 DEF PipelineStep
<1>5. PlayedInv'
  <2>1. /\ open' = open /\ mode' = mode /\ gui' = gui /\ stale' = stale /\ seen' = seen
        /\ worker' = worker /\ fresh' = fresh
    BY <1>2
  <2>2. ~Empty
    BY <1>2 DEF Empty
  <2>3. gui # "seekMove" /\ (open => mode = "parsed") /\ (gui \in Opening => open)
    BY <2>2, Zenon DEF PlayedInv
  <2>4. mode = "parsed" => mode # "raw"
    OBVIOUS
  <2>. QED
    BY <1>4, <2>1, <2>3, <2>4, Zenon DEF PlayedInv
<1>. QED
  BY <1>3, <1>4, <1>5

\* pauseReplay(), resumeReplay(), setReplaySpeed(), and the steps of seekReplay() that
\* neither drain nor clear.
LEMMA ControlShown ==
  ShownInv /\ (\/ PauseReplay \/ ResumeReplay \/ SetReplaySpeed \/ SeekPause \/ SeekLock
               \/ SeekResume \/ \E record \in Records : SeekBegin(record)) => ShownInv'
<1>. USE DEF shared, stats, locals, history, NotifyAll,
     Control, Skip, MayBegin, Enter, guiVars, restoreVars, pipelineVars, replayVars
<1>1. ASSUME Pause \/ Resume \/ SetSpeed \/ UNCHANGED replayVars
      PROVE  /\ UNCHANGED <<seen, open, client, reopen>>
             /\ worker' = "publish" /\ ~fresh' => worker = "publish" /\ ~fresh
             /\ worker = "none" => worker' = "none"
  BY <1>1 DEF Pause, Resume, SetSpeed
<1>2. ASSUME ShownInv, PauseReplay \/ ResumeReplay \/ SetReplaySpeed PROVE ShownInv'
  <2>1. /\ UNCHANGED <<queue, hand, pending, series, stale, mode, routing, gui>>
        /\ Pause \/ Resume \/ SetSpeed
    BY <1>2 DEF PauseReplay, ResumeReplay, SetReplaySpeed
  <2>. QED
    BY <1>1, <1>2, <2>1, Frame DEF Shows
<1>3. ASSUME ShownInv, SeekPause \/ SeekLock \/ SeekResume PROVE ShownInv'
  <2>1. /\ UNCHANGED <<queue, hand, pending, series, stale, mode, routing>>
        /\ Pause \/ Resume \/ UNCHANGED replayVars
        /\ gui \in Calm /\ gui' \in Calm
    BY <1>3 DEF SeekPause, SeekLock, SeekResume, Calm
  <2>. QED
    BY <1>1, <1>3, <2>1, Frame DEF Shows
<1>4. ASSUME ShownInv, NEW record \in Records, SeekBegin(record) PROVE ShownInv'
  <2>1. /\ UNCHANGED <<queue, hand, pending, series, stale, mode, routing>>
        /\ UNCHANGED replayVars
        /\ gui \in Calm /\ gui' \in Calm
    BY <1>4 DEF SeekBegin, Calm
  <2>. QED
    BY <1>1, <1>4, <2>1, Frame DEF Shows
<1>. QED
  BY <1>2, <1>3, <1>4

LEMMA TablesAre ==
  /\ Tables = Replacing
  /\ DOMAIN Order = 1..4 /\ Len(Order) = 4
  /\ Order[1] = "alignment" /\ Order[2] = "health" /\ Order[3] = "alerts" /\ Order[4] = "derived"
<1>1. /\ DOMAIN Order = 1..4 /\ Len(Order) = 4
      /\ Order[1] = "alignment" /\ Order[2] = "health" /\ Order[3] = "alerts" /\ Order[4] = "derived"
  BY DEF Order
<1>2. Tables = {Order[i] : i \in 1..4}
  BY <1>1, Zenon DEF Tables, ToSet
<1>3. Tables = Replacing
  BY <1>1, <1>2 DEF Replacing
<1>. QED
  BY <1>1, <1>3

\* seekReplay() drains the pipeline and then clears the curves: nothing published before
\* the new position was chosen is left.
LEMMA SeekShown == ShownInv /\ (SeekFlush \/ SeekMove) => ShownInv'
<1>. USE DEF ShownInv, Enter, Skip, replayVars, restoreVars
<1>0. <<>> \in Seq(Nat) /\ <<>> \in Seq(Seq(Nat)) /\ FlattenSeq(<<>>) = <<>>
  BY EmptySeq, FlattenEmpty
<1>1. ASSUME ShownInv, SeekFlush PROVE ShownInv'
  <2>1. /\ gui = "seekFlush" /\ gui' = "seekMove" /\ queue' = <<>> /\ hand' = <<>> /\ pending' = <<>>
        /\ UNCHANGED <<series, stale, target, mode, routing, open, client, reopen, worker, fresh, seen>>
    BY <1>1 DEF SeekFlush, Flushed, ResetParsers
  <2>2. PipelineTypes'
    BY <1>0, <1>1, <2>1, Zenon DEF PipelineTypes
  <2>3. GuiTypes' /\ ClientInv'
    BY <1>1, <2>1 DEF GuiTypes, ClientInv, Settled, Opening, ReadingFiles, Replacing
  <2>4. PlayedInv'
    BY <1>1, <2>1 DEF PlayedInv, Empty, Opening, ReadingFiles, Replacing
  <2>. QED
    BY <2>2, <2>3, <2>4
<1>2. ASSUME ShownInv, SeekMove PROVE ShownInv'
  <2>1. /\ gui = "seekMove" /\ gui' \in {"idle", "seekResume"} /\ UNCHANGED <<queue, hand, pending>>
        /\ series' = <<>> /\ stale' = <<>> /\ seen' = <<>> /\ open
        /\ UNCHANGED <<target, mode, routing, open, client, reopen>>
    BY <1>2 DEF SeekMove, Seek, stats, locals
  <2>2. PipelineTypes'
    BY <1>0, <1>2, <2>1, Zenon DEF PipelineTypes
  <2>3. GuiTypes' /\ ClientInv'
    BY <1>2, <2>1 DEF GuiTypes, ClientInv, Settled, Opening, ReadingFiles, Replacing
  <2>4. Empty /\ Empty'
    BY <1>2, <2>1 DEF PlayedInv, Empty
  <2>5. Played' = <<>> /\ stale' \o seen' = <<>>
    <3>1. <<>> \o <<>> = <<>>
      BY <1>0, ConcatEmptySeq
    <3>. QED
      BY <1>0, <2>1, <2>4, <3>1, Zenon DEF Played, Empty
  <2>6. PlayedInv'
    <3>1. Len(stale') <= 1
      BY <2>1
    <3>2. gui' \notin Opening
      BY <2>1 DEF Opening, ReadingFiles, Replacing
    <3>. QED
      BY <2>1, <2>4, <2>5, <3>1, <3>2, Zenon DEF PlayedInv
  <2>. QED
    BY <2>2, <2>3, <2>6
<1>. QED
  BY <1>1, <1>2

\* While the replay is closed nothing is promised of the curves but that
\* openReplaySession() finds them empty.
LEMMA CloseShown ==
  ShownInv /\ Known /\ (CloseBegin \/ CloseEnd \/ OpenBegin \/ OpenLock \/ OpenFlush \/ OpenFile)
    => ShownInv'
<1>. USE DEF ShownInv, Enter, Skip, Control, MayBegin, replayVars, restoreVars, pipelineVars,
     Close, stats, locals
<1>1. ASSUME ShownInv, UNCHANGED <<pipelineVars, stale>> PROVE PipelineTypes'
  BY <1>1, Zenon DEF PipelineTypes
<1>2. ASSUME ShownInv, UNCHANGED <<pipelineVars, stale>>, ~open',
             UNCHANGED <<worker, fresh, seen>>, gui' \notin Opening \cup {"seekMove"}
      PROVE  PlayedInv'
  BY <1>2 DEF PlayedInv
<1>3. ASSUME ShownInv, CloseBegin PROVE ShownInv'
  <2>1. GuiTypes' /\ ClientInv'
    BY <1>3 DEF CloseBegin, GuiTypes, ClientInv, Settled, Opening, ReadingFiles, Replacing
  <2>2. gui' \notin Opening \cup {"seekMove"}
    BY <1>3 DEF CloseBegin, Opening, ReadingFiles, Replacing
  <2>3. UNCHANGED <<pipelineVars, stale, worker, fresh, seen>> /\ ~open'
    BY <1>3 DEF CloseBegin
  <2>. QED
    BY <1>1, <1>2, <1>3, <2>1, <2>2, <2>3
<1>4. ASSUME ShownInv, CloseEnd PROVE ShownInv'
  <2>1. GuiTypes' /\ ClientInv'
    BY <1>4 DEF CloseEnd, RoutingReset, ReplayLeft, GuiTypes, Modes, ClientInv, Settled, Opening,
       ReadingFiles, Replacing
  <2>2. gui' \notin Opening \cup {"seekMove"}
    BY <1>4 DEF CloseEnd, Opening, ReadingFiles, Replacing
  <2>3. UNCHANGED <<pipelineVars, stale, worker, fresh, seen>> /\ ~open'
    BY <1>4 DEF CloseEnd, ClientInv
  <2>. QED
    BY <1>1, <1>2, <1>4, <2>1, <2>2, <2>3
<1>5. ASSUME ShownInv, OpenBegin PROVE ShownInv'
  <2>1. GuiTypes' /\ ClientInv'
    BY <1>5 DEF OpenBegin, GuiTypes, ClientInv, Settled, Opening, ReadingFiles, Replacing
  <2>2. gui' \notin Opening \cup {"seekMove"}
    BY <1>5 DEF OpenBegin, Opening, ReadingFiles, Replacing
  <2>3. UNCHANGED <<pipelineVars, stale, worker, fresh, seen>> /\ ~open'
    BY <1>5 DEF OpenBegin
  <2>. QED
    BY <1>1, <1>2, <1>5, <2>1, <2>2, <2>3
<1>6. ASSUME ShownInv, OpenLock PROVE ShownInv'
  <2>1. GuiTypes' /\ ClientInv'
    BY <1>6 DEF OpenLock, ReplayLeft, GuiTypes, ClientInv, Settled, Opening, ReadingFiles, Replacing
  <2>2. gui' \notin Opening \cup {"seekMove"}
    BY <1>6 DEF OpenLock, Opening, ReadingFiles, Replacing
  <2>3. UNCHANGED <<pipelineVars, stale, worker, fresh, seen>> /\ ~open'
    BY <1>6 DEF OpenLock, ClientInv
  <2>. QED
    BY <1>1, <1>2, <1>6, <2>1, <2>2, <2>3
<1>7. ASSUME ShownInv, Known, OpenFlush PROVE ShownInv'
  <2>0. <<>> \in Seq(Nat) /\ <<>> \in Seq(Seq(Nat)) /\ FlattenSeq(<<>>) = <<>>
    BY EmptySeq, FlattenEmpty
  <2>1. /\ gui = "openFlush" /\ gui' = "openMetadata" /\ queue' = <<>> /\ hand' = <<>> /\ pending' = <<>>
        /\ series' = <<>> /\ stale' = <<>>
        /\ UNCHANGED <<target, mode, routing, open, client, reopen, worker, fresh, seen>>
    BY <1>7 DEF OpenFlush, Flushed
  <2>2. PipelineTypes'
    BY <2>0, <2>1, Zenon DEF PipelineTypes
  <2>3. GuiTypes' /\ ClientInv'
    BY <1>7, <2>1 DEF GuiTypes, ClientInv, Settled, Opening, ReadingFiles, Replacing
  <2>4. ~open' /\ worker' = "none" /\ Len(stale') <= 1
    BY <1>7, <2>1 DEF ClientInv, Known
  <2>5. PlayedInv'
    BY <2>1, <2>4 DEF PlayedInv, Empty
  <2>. QED
    BY <2>2, <2>3, <2>5
<1>8. ASSUME ShownInv, Known, OpenFile PROVE ShownInv'
  <2>1. /\ gui = "openFile" /\ gui' = "openWait" /\ ~open'
        /\ UNCHANGED <<pipelineVars, stale, target, mode, routing, worker, fresh, seen>>
    BY <1>8 DEF OpenFile
  <2>2. ~open /\ client = "idle" /\ worker = "none"
    BY <1>8, <2>1 DEF ClientInv, Opening, ReadingFiles, Replacing, Known
  <2>3. GuiTypes' /\ ClientInv'
    BY <1>8, <2>1, <2>2 DEF GuiTypes, ClientInv, Opening, ReadingFiles, Replacing
  <2>4. PlayedInv'
    BY <1>8, <2>1, <2>2 DEF PlayedInv, Empty, Opening, ReadingFiles, Replacing
  <2>. QED
    BY <1>1, <1>8, <2>1, <2>3, <2>4
<1>. QED
  BY <1>3, <1>4, <1>5, <1>6, <1>7, <1>8

\* While the files are read and the tables replaced the replay stays closed.
LEMMA ReadsShown == ShownInv /\ OpenReads => ShownInv'
<1>. SUFFICES ASSUME ShownInv, OpenReads PROVE ShownInv'
  OBVIOUS
<1>. USE DEF ShownInv, OpenReads, Skip, replayVars, pipelineVars
<1>1. /\ gui \in ReadingFiles \cup Replacing
      /\ gui' \in {"idle", "openFile"} \cup ReadingFiles \cup Replacing
      /\ mode' \in {mode, routing} /\ (routing' = routing \/ routing' \in Routings)
  <2>. USE DEF restoreVars, Reading, ReadingFiles, Replacing
  <2>1. CASE ReadMetadata \/ ReadTopics \/ ReadSourceParsers \/ RestoreParsers
    BY <2>1 DEF ReadMetadata, ReadTopics, ReadSourceParsers, RestoreParsers
  <2>2. CASE \/ ReadDerivedFields \/ ReadAlertRules \/ ReadHealthAlertRules \/ ReadTimeAlignment
             \/ ReadEvents
    BY <2>2, TablesAre DEF ReadDerivedFields, ReadAlertRules, ReadHealthAlertRules,
       ReadTimeAlignment, ReadEvents
  <2>3. ASSUME NEW n \in DOMAIN Order, ReplaceTable(n)
        PROVE  /\ gui \in Replacing /\ gui' \in {"idle", "openFile"} \cup Replacing
               /\ mode' = mode /\ routing' = routing
    <3>1. n \in 1..4 /\ gui = Order[n] /\ mode' = mode /\ routing' = routing
          /\ gui' \in {"idle", "openFile", Order[n + 1]} /\ (n = 4 => gui' \in {"idle", "openFile"})
      BY <2>3, TablesAre DEF ReplaceTable
    <3>. QED
      BY <3>1, TablesAre
  <2>. QED
    BY <2>1, <2>2, <2>3 DEF RestoreStep
<1>2. /\ UNCHANGED <<queue, hand, pending, series, stale, target>>
      /\ UNCHANGED <<open, client, reopen, worker, fresh, seen>>
  OBVIOUS
<1>3. PipelineTypes'
  BY <1>2, Zenon DEF PipelineTypes
<1>4. GuiTypes' /\ ClientInv'
  <2>1. mode' \in Modes /\ routing' \in Modes
    <3>1. Routings \subseteq Modes
      BY RoutingsAssumption DEF Modes
    <3>. QED
      BY <1>1, <3>1, Zenon DEF GuiTypes
  <2>2. GuiTypes'
    BY <1>1, <2>1 DEF GuiTypes, Settled, Opening
  <2>3. ~open /\ client = "idle"
    BY <1>1 DEF ClientInv, Opening, ReadingFiles, Replacing
  <2>4. ClientInv'
    BY <1>1, <1>2, <2>3 DEF ClientInv, Opening, ReadingFiles, Replacing
  <2>. QED
    BY <2>2, <2>4
<1>5. ~open'
  BY <1>1, <1>2 DEF ClientInv, Opening, ReadingFiles, Replacing
<1>6. PlayedInv'
  BY <1>1, <1>2, <1>5 DEF PlayedInv, Empty, Opening, ReadingFiles, Replacing
<1>. QED
  BY <1>3, <1>4, <1>6

\* The end of openReplaySession(), and the steps of open() and close() it waits for.
LEMMA EndShown == ShownInv /\ Known /\ (OpenEnd \/ ReplayCall) => ShownInv'
<1>. USE DEF ShownInv, Skip, replayVars, restoreVars, pipelineVars, guiVars
<1>1. ASSUME ShownInv, Known, OpenEnd PROVE ShownInv'
  <2>1. /\ gui = "openWait" /\ client = "idle" /\ gui' = "idle"
        /\ UNCHANGED <<queue, hand, pending, series, stale, target>>
        /\ UNCHANGED <<open, client, reopen, worker, fresh, seen>>
        /\ IF open THEN mode' = mode ELSE mode' = "parsed"
        /\ routing' = routing
    BY <1>1 DEF OpenEnd, OpenAccepted, OpenRefused
  <2>2. PipelineTypes'
    BY <1>1, <2>1, Zenon DEF PipelineTypes
  <2>3. GuiTypes' /\ ClientInv'
    BY <1>1, <2>1 DEF GuiTypes, ClientInv, Settled, Modes, Opening, ReadingFiles, Replacing
  <2>4. PlayedInv'
    <3>1. Played' = Played
      BY <2>1, Zenon DEF Played
    <3>2. gui' \notin Opening \cup {"seekMove"} /\ gui # "seekMove"
      BY <2>1 DEF Opening, ReadingFiles, Replacing
    <3>. QED
      BY <1>1, <2>1, <3>1, <3>2 DEF PlayedInv, Empty
  <2>. QED
    BY <2>2, <2>3, <2>4
<1>2. ASSUME ShownInv, Known, ReplayCall PROVE ShownInv'
  <2>. USE DEF shared, stats, locals, history, NotifyAll
  <2>0. /\ ClientWaits /\ UNCHANGED <<gui, mode, routing, target>>
        /\ UNCHANGED <<queue, hand, pending, series, stale>>
    BY <1>2 DEF ReplayCall
  <2>1. PipelineTypes' /\ GuiTypes'
    BY <1>2, <2>0, Zenon DEF PipelineTypes, GuiTypes
  <2>2. CASE OpenSucceeds
    <3>1. /\ client = "opening" /\ open' /\ client' = "idle" /\ seen' = <<>> /\ worker' = "outer"
          /\ reopen' = reopen
      BY <2>2 DEF OpenSucceeds
    <3>2. gui = "openWait" /\ ~open
      BY <1>2, <2>0, <3>1 DEF ClientWaits, ClientInv, Known
    <3>3. ClientInv'
      BY <2>0, <3>1, <3>2 DEF ClientInv
    <3>4. Empty /\ series = <<>> /\ stale = <<>>
      BY <1>2, <3>2 DEF PlayedInv, Opening
    <3>5. Empty' /\ series' = <<>> /\ stale' = <<>>
      BY <2>0, <3>4 DEF Empty
    <3>6. Played' = stale' \o seen' /\ Len(stale') <= 1
      <4>1. <<>> \o <<>> = <<>> /\ Len(<<>>) <= 1
        BY EmptySeq, ConcatEmptySeq
      <4>. QED
        BY <3>1, <3>5, <4>1, FlattenEmpty, Zenon DEF Played, Empty
    <3>7. PlayedInv'
      BY <3>1, <3>5, <3>6, Zenon DEF PlayedInv
    <3>. QED
      BY <2>1, <3>3, <3>7
  <2>3. CASE RequestStop \/ Join \/ CloseReader \/ OpenFails
    <3>1. /\ UNCHANGED <<open, reopen, seen, fresh>>
          /\ client # "idle"
          /\ client' = "opening" => reopen
          /\ worker' = "publish" => worker = "publish"
          /\ worker = "none" => worker' = "none"
      <4>1. CASE RequestStop
        BY <4>1 DEF RequestStop
      <4>2. CASE Join \/ OpenFails
        BY <4>2 DEF Join, OpenFails
      <4>3. CASE CloseReader
        BY <4>3, Zenon DEF CloseReader, AfterJoin
      <4>. QED
        BY <2>3, <4>1, <4>2, <4>3
    <3>2. ~open
      BY <1>2, <3>1 DEF Known
    <3>3. ClientInv'
      BY <1>2, <2>0, <3>1 DEF ClientInv, ClientWaits, Opening, ReadingFiles, Replacing
    <3>4. PlayedInv'
      BY <1>2, <2>0, <3>1, <3>2 DEF PlayedInv, Empty, ClientWaits
    <3>. QED
      BY <2>1, <3>3, <3>4
  <2>. QED
    BY <1>2, <2>2, <2>3 DEF ReplayCall
<1>. QED
  BY <1>1, <1>2

LEMMA ShownStep == ShownInv /\ Known /\ [SessionNext]_sessionVars => ShownInv'
<1>. SUFFICES ASSUME ShownInv, Known, [SessionNext]_sessionVars PROVE ShownInv'
  OBVIOUS
<1>1. CASE UNCHANGED sessionVars
  BY <1>1, Frame DEF sessionVars, replayVars, guiVars, restoreVars, pipelineVars, Shows
<1>2. CASE GuiStep
  BY <1>2, ControlShown, SeekShown, CloseShown, ReadsShown, EndShown DEF GuiStep
<1>. QED
  BY <1>1, <1>2, PublishShown, ReplayShown, PipelineShown, ControlShown, CloseShown DEF SessionNext

LEMMA Shown == SessionSpec => []ShownInv
<1>1. SessionSpec => []Known
  BY SourceInv, SourceKnown, PTL
<1>2. QED
  BY <1>1, InitShown, ShownStep, PTL DEF SessionSpec

\* The curves of a replay follow its cursor through every seek: the record callback,
\* seekReplay() and openReplaySession() together neither lose, double nor reorder a record,
\* in the queue, in a half line or in the curves, and keep at most one from before a seek.
THEOREM CurvesAreRight == SessionSpec => []CurvesFollowCursor
<1>1. ShownInv /\ IInv => CurvesFollowCursor
  <2>. SUFFICES ASSUME ShownInv, IInv PROVE CurvesFollowCursor
    OBVIOUS
  <2>1. Len(stale) <= 1
    BY DEF ShownInv, PlayedInv
  <2>2. ASSUME open, mode = "raw" PROVE Played = <<>>
    <3>1. Empty /\ series = <<>>
      BY <2>2 DEF ShownInv, PlayedInv
    <3>2. <<>> \o <<>> = <<>>
      BY EmptySeq, ConcatEmptySeq
    <3>. QED
      BY <3>1, <3>2, FlattenEmpty, Zenon DEF Played, Empty
  <2>3. ASSUME open, mode # "raw", gui # "seekMove"
        PROVE  /\ Len(Played) = Len(stale) + position - start - InFlight
               /\ \A i \in DOMAIN Played :
                    Played[i] = IF i <= Len(stale) THEN stale[i] ELSE start + (i - Len(stale)) - 1
    <3>1. Played = stale \o seen
      BY <2>3 DEF ShownInv, PlayedInv
    <3>2. stale \in Seq(Nat) /\ seen \in Seq(Nat) /\ start \in Nat /\ position \in Nat
      BY DEF ShownInv, PipelineTypes, IInv, TypeOK, NumbersOK
    <3>3. /\ \A i \in 1..Len(seen) : seen[i] = start + i - 1
          /\ start + Len(seen) + InFlight = position
      BY DEF IInv, SeenInv, InFlight
    <3>4. /\ stale \o seen \in Seq(Nat) /\ Len(stale \o seen) = Len(stale) + Len(seen)
          /\ \A i \in 1..(Len(stale) + Len(seen)) :
               (stale \o seen)[i] = IF i <= Len(stale) THEN stale[i] ELSE seen[i - Len(stale)]
      BY <3>2, ConcatProperties
    <3>5. Len(stale) \in Nat /\ Len(seen) \in Nat /\ InFlight \in Nat
      BY <3>2, LenProperties DEF InFlight
    <3>6. Len(stale \o seen) = Len(stale) + position - start - InFlight
      BY <3>2, <3>3, <3>4, <3>5
    <3>7. ASSUME NEW i \in 1..(Len(stale) + Len(seen))
          PROVE  (stale \o seen)[i] = IF i <= Len(stale) THEN stale[i] ELSE start + (i - Len(stale)) - 1
      <4>1. i > Len(stale) => i - Len(stale) \in 1..Len(seen)
        BY <3>5
      <4>2. i > Len(stale) => seen[i - Len(stale)] = start + (i - Len(stale)) - 1
        BY <3>3, <4>1
      <4>3. i <= Len(stale) \/ i > Len(stale)
        BY <3>5
      <4>. QED
        BY <3>4, <4>2, <4>3, Zenon
    <3>8. DOMAIN (stale \o seen) = 1..(Len(stale) + Len(seen))
      BY <3>4, LenProperties
    <3>. QED
      BY <3>1, <3>6, <3>7, <3>8, Zenon
  <2>. QED
    BY <2>1, <2>2, <2>3 DEF CurvesFollowCursor
<1>2. QED
  BY <1>1, Shown, SourceInv, PTL

-----------------------------------------------------------------------------
(* What the replay runs under *)

\* Until the first table is replaced all are of one kind, and previousRules knows which;
\* then those before the one in turn are the session's and the others still as they were.
Uniform(r) == \A t, u \in Tables : r[t] = r[u]
TablesInv ==
  /\ rules \in [Tables -> {"user", "session"}] /\ previous \in [Tables -> {"user", "session"}]
  /\ gui \in Settled \cup {"openFlush"} \cup ReadingFiles => Uniform(rules)
  /\ gui \in {"openClose", "openFlush"} \cup ReadingFiles => previous = rules
  /\ gui \in Replacing \cup {"openFile", "openWait"} => Uniform(previous)
  /\ \A i \in 1..4 : gui = Order[i] =>
       \A j \in 1..4 : rules[Order[j]] = IF j < i THEN "session" ELSE previous[Order[j]]
  /\ gui \in {"openFile", "openWait"} => \A t \in Tables : rules[t] = "session"

\* The time axis is frozen with the first table, and by a replay.
FrozenInv ==
  /\ gui \in {"openFlush"} \cup Opening => ~replaying
  /\ gui \in {"openFlush", "alignment"} \cup ReadingFiles => ~frozen
  /\ gui \in {"health", "alerts", "derived", "openFile", "openWait"} => frozen
  /\ gui \in Settled => (frozen <=> replaying)
  /\ replaying => events /\ \A t \in Tables : rules[t] = "session"

\* The routing and the parsers are the session's once they have been read.
BeforeRouting == {"openMetadata", "openTopics"}
BeforeParsers == BeforeRouting \cup {"openSources", "openParsers"}
RoutingInv ==
  /\ replaying \/ gui \in Opening \ BeforeRouting => mode = routing
  /\ replaying \/ gui \in Opening \ BeforeParsers =>
       /\ parsers # "user"
       /\ routing = "parsed" /\ declared => parsers = "session"

RestoreInv == TablesInv /\ FrozenInv /\ RoutingInv

LEMMA OneTable ==
  ASSUME NEW i \in 1..4, NEW j \in 1..4
  PROVE  Order[i] \in Tables /\ (Order[i] = Order[j] <=> i = j)
BY TablesAre DEF Replacing

LEMMA EveryTable == ASSUME NEW t \in Tables PROVE \E i \in 1..4 : t = Order[i]
BY TablesAre DEF Replacing

\* The tables put back are those before the one refused.
LEMMA PutBackIs ==
  ASSUME NEW i \in 1..5
  PROVE  /\ DOMAIN PutBack(i) = Tables
         /\ \A j \in 1..4 : PutBack(i)[Order[j]] = IF j < i THEN previous[Order[j]] ELSE rules[Order[j]]
<1>1. DOMAIN PutBack(i) = Tables
  BY DEF PutBack
<1>2. ASSUME NEW j \in 1..4 PROVE Order[j] \in ToSet(SubSeq(Order, 1, i - 1)) <=> j < i
  <2>. DEFINE s == SubSeq(Order, 1, i - 1)
  <2>1. /\ Len(s) = i - 1
        /\ \A k \in 1..(i - 1) : s[k] = Order[k]
        /\ DOMAIN s = 1..(i - 1)
    <3>1. \A k \in 1..(i - 1) : Order[k] \in Tables
      BY TablesAre DEF Replacing
    <3>2. /\ s \in Seq(Tables) /\ Len(s) = i - 1
          /\ \A k \in 1..(i - 1) : s[k] = Order[k]
      BY <3>1, SubSeqProperties
    <3>. QED
      BY <3>2, LenProperties
  <2>. HIDE DEF s
  <2>2. ToSet(s) = {s[k] : k \in 1..(i - 1)}
    BY <2>1, Zenon DEF ToSet
  <2>3. ASSUME j < i PROVE Order[j] \in ToSet(s)
    BY <2>1, <2>2, <2>3
  <2>4. ASSUME Order[j] \in ToSet(s) PROVE j < i
    <3>1. PICK k \in 1..(i - 1) : Order[j] = Order[k]
      BY <2>1, <2>2, <2>4
    <3>2. k \in 1..4
      OBVIOUS
    <3>3. j = k
      BY <3>1, <3>2, OneTable
    <3>. QED
      BY <3>3
  <2>. QED
    BY <2>3, <2>4 DEF s
<1>3. ASSUME NEW j \in 1..4
      PROVE  PutBack(i)[Order[j]] = IF j < i THEN previous[Order[j]] ELSE rules[Order[j]]
  BY <1>2, <1>3, OneTable, Zenon DEF PutBack
<1>. QED
  BY <1>1, <1>3

LEMMA InitRestore == SessionInit => RestoreInv
<1>. SUFFICES ASSUME SessionInit PROVE RestoreInv
  OBVIOUS
<1>1. /\ gui = "idle" /\ rules = [t \in Tables |-> "user"] /\ previous = rules
      /\ frozen = FALSE /\ replaying = FALSE
  BY DEF SessionInit, RestoreInit
<1>2. TablesInv
  BY <1>1, TablesAre DEF TablesInv, Uniform, ReadingFiles, Replacing
<1>3. FrozenInv
  BY <1>1 DEF FrozenInv, Opening, ReadingFiles, Replacing
<1>4. RoutingInv
  BY <1>1 DEF RoutingInv, Opening, ReadingFiles, Replacing
<1>. QED
  BY <1>2, <1>3, <1>4 DEF RestoreInv

\* A step that replaces nothing and stays outside openReplaySession(), or where it was.
LEMMA RestoreFrame ==
  ASSUME RestoreInv, UNCHANGED restoreVars,
         gui' = gui \/ (gui \in Settled /\ gui' \in Settled \ {"openClose"})
  PROVE  RestoreInv'
<1>1. TablesInv'
  BY TablesAre DEF RestoreInv, TablesInv, Uniform, restoreVars, Settled, ReadingFiles, Replacing
<1>2. FrozenInv'
  BY DEF RestoreInv, FrozenInv, restoreVars, Settled, Opening, ReadingFiles, Replacing
<1>3. RoutingInv'
  BY DEF RestoreInv, RoutingInv, restoreVars, Settled, Opening, ReadingFiles, Replacing
<1>. QED
  BY <1>1, <1>2, <1>3 DEF RestoreInv

\* Outside openReplaySession() only closeReplay() touches what the replay runs under.
LEMMA CallsRestore ==
  RestoreInv /\ (\/ Deliver \/ ReplayStep \/ PipelineStep \/ ReplayCall
                \/ PauseReplay \/ ResumeReplay \/ SetReplaySpeed \/ CloseBegin
                \/ SeekPause \/ SeekLock \/ SeekFlush \/ SeekMove \/ SeekResume \/ OpenFile
                \/ \E record \in Records : SeekBegin(record)) => RestoreInv'
<1>1. ASSUME RestoreInv, \/ Deliver \/ ReplayStep \/ PipelineStep \/ ReplayCall
                          \/ PauseReplay \/ ResumeReplay \/ SetReplaySpeed
      PROVE  RestoreInv'
  <2>1. UNCHANGED <<gui, restoreVars>>
    BY <1>1 DEF Deliver, ReplayStep, PipelineStep, Take, Process, ReplayCall, PauseReplay,
       ResumeReplay, SetReplaySpeed, guiVars
  <2>. QED
    BY <1>1, <2>1, RestoreFrame
<1>2. ASSUME RestoreInv, \/ SeekPause \/ SeekLock \/ SeekFlush \/ SeekMove \/ SeekResume
                         \/ CloseBegin \/ \E record \in Records : SeekBegin(record)
      PROVE  RestoreInv'
  <2>1. UNCHANGED restoreVars /\ gui \in Settled /\ gui' \in Settled \ {"openClose"}
    BY <1>2 DEF SeekPause, SeekLock, SeekFlush, SeekMove, SeekResume, SeekBegin, CloseBegin, Enter,
       MayBegin, Settled
  <2>. QED
    BY <1>2, <2>1, RestoreFrame
<1>3. ASSUME RestoreInv, OpenFile PROVE RestoreInv'
  <2>1. UNCHANGED restoreVars /\ gui = "openFile" /\ gui' = "openWait"
    BY <1>3 DEF OpenFile, Enter
  <2>2. TablesInv'
    BY <1>3, <2>1, TablesAre DEF RestoreInv, TablesInv, Uniform, restoreVars, Settled, ReadingFiles,
       Replacing
  <2>3. FrozenInv' /\ RoutingInv'
    BY <1>3, <2>1 DEF RestoreInv, FrozenInv, RoutingInv, restoreVars, Settled, Opening,
       ReadingFiles, Replacing, BeforeRouting, BeforeParsers
  <2>. QED
    BY <2>2, <2>3 DEF RestoreInv
<1>. QED
  BY <1>1, <1>2, <1>3

\* closeReplay() and the beginning of openReplaySession() lower what belongs to a replay.
LEMMA LeftRestore == RestoreInv /\ (CloseEnd \/ OpenBegin \/ OpenLock \/ OpenFlush) => RestoreInv'
<1>. USE DEF RestoreInv, restoreVars
<1>1. ASSUME RestoreInv, CloseEnd PROVE RestoreInv'
  <2>1. /\ gui = "close" /\ gui' = "idle" /\ ~replaying' /\ ~frozen'
        /\ UNCHANGED <<rules, previous, parsers, declared, routing>>
    BY <1>1, Zenon DEF CloseEnd, ReplayLeft
  <2>2. TablesInv'
    BY <1>1, <2>1, TablesAre DEF TablesInv, Uniform, Settled, ReadingFiles, Replacing
  <2>3. FrozenInv' /\ RoutingInv'
    BY <2>1 DEF FrozenInv, RoutingInv, Opening, ReadingFiles, Replacing
  <2>. QED
    BY <2>2, <2>3
<1>2. ASSUME RestoreInv, OpenBegin PROVE RestoreInv'
  <2>1. /\ gui = "idle" /\ gui' = "openClose" /\ previous' = rules
        /\ UNCHANGED <<rules, parsers, declared, routing, mode, frozen, events, replaying>>
    BY <1>2 DEF OpenBegin, MayBegin, CopyRules
  <2>2. TablesInv'
    BY <1>2, <2>1, TablesAre DEF TablesInv, Uniform, Settled, ReadingFiles, Replacing
  <2>3. FrozenInv' /\ RoutingInv'
    BY <1>2, <2>1 DEF FrozenInv, RoutingInv, Settled, Opening, ReadingFiles, Replacing
  <2>. QED
    BY <2>2, <2>3
<1>3. ASSUME RestoreInv, OpenLock PROVE RestoreInv'
  <2>1. /\ gui = "openClose" /\ gui' = "openFlush" /\ ~replaying' /\ ~frozen'
        /\ UNCHANGED <<rules, previous, parsers, declared, routing, mode>>
    BY <1>3, Zenon DEF OpenLock, ReplayLeft
  <2>2. TablesInv'
    BY <1>3, <2>1, TablesAre DEF TablesInv, Uniform, Settled, ReadingFiles, Replacing
  <2>3. FrozenInv' /\ RoutingInv'
    BY <2>1 DEF FrozenInv, RoutingInv, Settled, Opening, ReadingFiles, Replacing
  <2>. QED
    BY <2>2, <2>3
<1>4. ASSUME RestoreInv, OpenFlush PROVE RestoreInv'
  <2>1. gui = "openFlush" /\ gui' = "openMetadata" /\ UNCHANGED restoreVars
    BY <1>4 DEF OpenFlush, Enter
  <2>2. TablesInv'
    BY <1>4, <2>1, TablesAre DEF TablesInv, Uniform, Settled, ReadingFiles, Replacing
  <2>3. FrozenInv' /\ RoutingInv'
    BY <1>4, <2>1 DEF FrozenInv, RoutingInv, Settled, Opening, ReadingFiles, Replacing,
       BeforeRouting, BeforeParsers
  <2>. QED
    BY <2>2, <2>3
<1>. QED
  BY <1>1, <1>2, <1>3, <1>4

\* Reading a file may fail, and then nothing has been replaced yet.
LEMMA ReadsRestore ==
  RestoreInv /\ (\/ ReadMetadata \/ ReadTopics \/ ReadSourceParsers \/ RestoreParsers
                \/ ReadDerivedFields \/ ReadAlertRules \/ ReadHealthAlertRules
                \/ ReadTimeAlignment \/ ReadEvents) => RestoreInv'
<1>. SUFFICES ASSUME RestoreInv,
                     \/ ReadMetadata \/ ReadTopics \/ ReadSourceParsers \/ RestoreParsers
                     \/ ReadDerivedFields \/ ReadAlertRules \/ ReadHealthAlertRules
                     \/ ReadTimeAlignment \/ ReadEvents
              PROVE  RestoreInv'
  OBVIOUS
<1>. USE DEF restoreVars, Reading
<1>1. /\ gui \in ReadingFiles /\ gui' \in {"idle", "alignment"} \cup ReadingFiles
      /\ UNCHANGED <<rules, previous, frozen, events, replaying>>
  BY TablesAre DEF ReadMetadata, ReadTopics, ReadSourceParsers, RestoreParsers, ReadDerivedFields,
     ReadAlertRules, ReadHealthAlertRules, ReadTimeAlignment, ReadEvents, ReadingFiles
<1>2. ~replaying
  BY <1>1 DEF RestoreInv, FrozenInv, Opening
<1>3. TablesInv'
  <2>1. Uniform(rules) /\ previous = rules
    BY <1>1 DEF RestoreInv, TablesInv
  <2>. QED
    BY <1>1, <2>1, TablesAre DEF RestoreInv, TablesInv, Uniform, ReadingFiles, Replacing
<1>4. FrozenInv'
  BY <1>1, <1>2 DEF RestoreInv, FrozenInv, Settled, Opening, ReadingFiles, Replacing
<1>5. RoutingInv'
  <2>. USE DEF RestoreInv, RoutingInv, Opening, ReadingFiles, Replacing, BeforeRouting, BeforeParsers
  <2>1. CASE ReadMetadata \/ ReadTopics
    BY <1>1, <1>2, <2>1 DEF ReadMetadata, ReadTopics
  <2>2. CASE ReadSourceParsers
    BY <1>1, <1>2, <2>2 DEF ReadSourceParsers
  <2>3. CASE RestoreParsers
    BY <1>1, <1>2, <2>3 DEF RestoreParsers, Cleared
  <2>4. CASE \/ ReadDerivedFields \/ ReadAlertRules \/ ReadHealthAlertRules
             \/ ReadTimeAlignment \/ ReadEvents
    BY <1>1, <1>2, <2>4, TablesAre DEF ReadDerivedFields, ReadAlertRules, ReadHealthAlertRules,
       ReadTimeAlignment, ReadEvents
  <2>. QED
    BY <2>1, <2>2, <2>3, <2>4
<1>. QED
  BY <1>3, <1>4, <1>5 DEF RestoreInv

\* A table is replaced, or refused and those before it put back.
LEMMA TablesRestore == ASSUME RestoreInv, NEW i \in 1..4, ReplaceTable(i) PROVE RestoreInv'
<1>. USE DEF RestoreInv
<1>1. /\ gui = Order[i] /\ gui \in Replacing
      /\ UNCHANGED <<previous, parsers, declared, routing, mode, events, replaying>>
  BY TablesAre, OneTable DEF ReplaceTable
<1>2. /\ Uniform(previous) /\ ~replaying
      /\ \A j \in 1..4 : rules[Order[j]] = IF j < i THEN "session" ELSE previous[Order[j]]
  BY <1>1 DEF TablesInv, FrozenInv, Opening
<1>3. CASE /\ rules' = [rules EXCEPT ![Order[i]] = "session"] /\ frozen'
           /\ gui' = IF i = Len(Order) THEN "openFile" ELSE Order[i + 1]
  <2>1. rules' \in [Tables -> {"user", "session"}]
    BY <1>3, OneTable DEF TablesInv
  <2>2. \A j \in 1..4 : rules'[Order[j]] = IF j < i + 1 THEN "session" ELSE previous[Order[j]]
    <3>. TAKE j \in 1..4
    <3>1. rules'[Order[j]] = IF j = i THEN "session" ELSE rules[Order[j]]
      BY <1>3, OneTable DEF TablesInv
    <3>. QED
      BY <1>2, <3>1
  <2>3. CASE i = 4
    <3>1. gui' = "openFile"
      BY <1>3, <2>3, TablesAre
    <3>2. \A t \in Tables : rules'[t] = "session"
      <4>. TAKE t \in Tables
      <4>1. PICK j \in 1..4 : t = Order[j]
        BY EveryTable
      <4>. QED
        BY <2>2, <2>3, <4>1
    <3>3. TablesInv'
      BY <1>1, <1>2, <2>1, <3>1, <3>2, TablesAre DEF TablesInv, Uniform, Settled, ReadingFiles,
         Replacing
    <3>4. FrozenInv' /\ RoutingInv'
      BY <1>1, <1>2, <1>3, <3>1 DEF FrozenInv, RoutingInv, Settled, Opening, ReadingFiles, Replacing,
         BeforeRouting, BeforeParsers
    <3>. QED
      BY <3>3, <3>4
  <2>4. CASE i # 4
    <3>1. i + 1 \in 2..4 /\ gui' = Order[i + 1] /\ gui' \in {"health", "alerts", "derived"}
      BY <1>3, <2>4, TablesAre
    <3>2. ASSUME NEW k \in 1..4, gui' = Order[k] PROVE k = i + 1
      <4>. DEFINE n == i + 1
      <4>1. n \in 1..4 /\ Order[n] = Order[k]
        BY <3>1, <3>2
      <4>. HIDE DEF n
      <4>2. n = k
        BY <4>1, OneTable
      <4>. QED
        BY <4>2 DEF n
    <3>3. \A k \in 1..4 : gui' = Order[k] =>
            \A j \in 1..4 : rules'[Order[j]] = IF j < k THEN "session" ELSE previous'[Order[j]]
      BY <1>1, <2>2, <3>2, Zenon
    <3>4. TablesInv'
      <4>1. gui' \notin Settled \cup {"openFlush", "openClose", "openFile", "openWait"} \cup ReadingFiles
        BY <3>1 DEF Settled, ReadingFiles
      <4>2. Uniform(previous)'
        BY <1>1, <1>2 DEF Uniform
      <4>. QED
        BY <1>1, <2>1, <3>3, <4>1, <4>2 DEF TablesInv
    <3>5. FrozenInv' /\ RoutingInv'
      BY <1>1, <1>2, <1>3, <3>1 DEF FrozenInv, RoutingInv, Settled, Opening, ReadingFiles, Replacing,
         BeforeRouting, BeforeParsers
    <3>. QED
      BY <3>4, <3>5
  <2>. QED
    BY <2>3, <2>4
<1>4. CASE rules' = PutBack(i) /\ ~frozen' /\ gui' = "idle"
  <2>1. DOMAIN rules' = Tables /\ \A j \in 1..4 : rules'[Order[j]] = previous[Order[j]]
    BY <1>2, <1>4, PutBackIs
  <2>2. \A t \in Tables : rules'[t] = previous[t]
    BY <2>1, EveryTable
  <2>3. rules' = [t \in Tables |-> rules'[t]]
    BY <1>4 DEF PutBack
  <2>4. rules' \in [Tables -> {"user", "session"}] /\ Uniform(rules')
    BY <1>2, <2>2, <2>3 DEF TablesInv, Uniform
  <2>5. TablesInv'
    BY <1>1, <1>4, <2>4, TablesAre DEF TablesInv, Uniform, ReadingFiles, Replacing
  <2>6. FrozenInv' /\ RoutingInv'
    BY <1>1, <1>2, <1>4 DEF FrozenInv, RoutingInv, Opening, ReadingFiles, Replacing
  <2>. QED
    BY <2>5, <2>6
<1>. QED
  BY <1>3, <1>4, Zenon DEF ReplaceTable

\* The log is opened, or refused and every table put back.
LEMMA EndRestore == RestoreInv /\ OpenEnd => RestoreInv'
<1>. SUFFICES ASSUME RestoreInv, OpenEnd PROVE RestoreInv'
  OBVIOUS
<1>. USE DEF RestoreInv
<1>1. gui = "openWait" /\ gui' = "idle"
  BY DEF OpenEnd
<1>2. /\ Uniform(previous) /\ ~replaying /\ frozen /\ mode = routing /\ parsers # "user"
      /\ routing = "parsed" /\ declared => parsers = "session"
      /\ \A t \in Tables : rules[t] = "session"
  BY <1>1 DEF TablesInv, FrozenInv, RoutingInv, Opening, ReadingFiles, Replacing, BeforeRouting,
     BeforeParsers
<1>3. CASE OpenAccepted
  <2>1. TablesInv'
    BY <1>1, <1>2, <1>3, TablesAre DEF OpenAccepted, TablesInv, Uniform, ReadingFiles, Replacing
  <2>2. FrozenInv'
    BY <1>1, <1>2, <1>3 DEF OpenAccepted, FrozenInv, Opening, ReadingFiles, Replacing
  <2>3. RoutingInv'
    BY <1>1, <1>2, <1>3 DEF OpenAccepted, RoutingInv
  <2>. QED
    BY <2>1, <2>2, <2>3
<1>4. CASE OpenRefused
  <2>1. /\ rules' = PutBack(5) /\ ~frozen'
        /\ UNCHANGED <<previous, parsers, declared, routing, events, replaying>>
    BY <1>4, TablesAre DEF OpenRefused
  <2>2. \A j \in 1..4 : rules'[Order[j]] = previous[Order[j]]
    BY <2>1, PutBackIs
  <2>3. \A t \in Tables : rules'[t] = previous[t]
    BY <2>2, EveryTable
  <2>4. rules' = [t \in Tables |-> rules'[t]]
    BY <2>1 DEF PutBack
  <2>5. rules' \in [Tables -> {"user", "session"}] /\ Uniform(rules')
    BY <1>2, <2>3, <2>4 DEF TablesInv, Uniform
  <2>6. TablesInv'
    BY <1>1, <2>1, <2>5, TablesAre DEF TablesInv, Uniform, ReadingFiles, Replacing
  <2>7. FrozenInv' /\ RoutingInv'
    BY <1>1, <1>2, <2>1 DEF FrozenInv, RoutingInv, Opening, ReadingFiles, Replacing
  <2>. QED
    BY <2>6, <2>7
<1>. QED
  BY <1>3, <1>4, Zenon DEF OpenEnd

LEMMA RestoreStays == RestoreInv /\ [SessionNext]_sessionVars => RestoreInv'
<1>. SUFFICES ASSUME RestoreInv, [SessionNext]_sessionVars PROVE RestoreInv'
  OBVIOUS
<1>1. CASE UNCHANGED sessionVars
  <2>1. UNCHANGED <<gui, restoreVars>>
    BY <1>1 DEF sessionVars, guiVars
  <2>. QED
    BY <2>1, RestoreFrame
<1>2. CASE OpenReads
  BY <1>2, ReadsRestore, TablesRestore, TablesAre DEF OpenReads, RestoreStep
<1>3. CASE GuiStep
  BY <1>2, <1>3, CallsRestore, LeftRestore, EndRestore DEF GuiStep
<1>. QED
  BY <1>1, <1>3, CallsRestore, LeftRestore DEF SessionNext

\* openReplaySession() replaces all of the configuration or, wherever a file is missing or
\* refused, none of the tables; a replay runs under that of its own session alone.
THEOREM ConfigurationIsOne == SessionSpec => []OneConfiguration
<1>1. RestoreInv => OneConfiguration
  <2>. SUFFICES ASSUME RestoreInv, gui = "idle"
                PROVE  /\ \A t, u \in Tables : rules[t] = rules[u]
                       /\ frozen <=> replaying
                       /\ replaying => /\ \A t \in Tables : rules[t] = "session"
                                       /\ mode = routing /\ events
                                       /\ parsers # "user"
                                       /\ routing = "parsed" /\ declared => parsers = "session"
    BY DEF OneConfiguration
  <2>1. \A t, u \in Tables : rules[t] = rules[u]
    BY DEF RestoreInv, TablesInv, Uniform, Settled
  <2>2. frozen <=> replaying
    BY DEF RestoreInv, FrozenInv, Settled
  <2>3. ASSUME replaying
        PROVE  /\ \A t \in Tables : rules[t] = "session"
               /\ mode = routing /\ events
               /\ parsers # "user"
               /\ routing = "parsed" /\ declared => parsers = "session"
    BY <2>3, Zenon DEF RestoreInv, FrozenInv, RoutingInv
  <2>. QED
    BY <2>1, <2>2, <2>3
<1>2. QED
  BY <1>1, InitRestore, RestoreStays, PTL DEF SessionSpec
=============================================================================
