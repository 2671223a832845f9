---------------------------- MODULE ReplaySource ----------------------------
(***************************************************************************)
(* Replay of a recorded raw log: src/src/core/src/replay_source.cpp.       *)
(*                                                                         *)
(* Two threads share the cursor of a replay.  The client (the GUI thread)  *)
(* opens, closes, pauses, resumes and seeks; the worker (run()) waits for  *)
(* the next record's time, reads the record with no lock held, commits it  *)
(* under mutex_ and publishes it with no lock held.  Every section under   *)
(* mutex_ is one action; the gaps between them are the control points of   *)
(* `worker` and `client`.  Records are their indices 0 .. Count-1.  Time   *)
(* is abstracted: a timed wait may end whenever nothing interrupts it, and *)
(* setSpeed() keeps only the version bump that restarts the wait.          *)
(***************************************************************************)
EXTENDS Naturals, Sequences

CONSTANTS Count,        \* reader_.recordCount() of the log that is replayed
          MaxControls   \* bound: the client acts while controlVersion is below it

ASSUME CountAssumption == Count \in Nat
ASSUME MaxControlsAssumption == MaxControls \in Nat

VARIABLES
  \* guarded by mutex_
  open, paused, atEnd, position,
  current,          \* index of the record whose time is currentTimestamp_
  controlVersion,
  chunks, errors,   \* statistics_: chunks committed, and failures
  \* the reader and the threads
  reader,           \* reader_ holds the log
  worker,           \* where run() stands, "none" when there is no thread
  stop,             \* stop_requested() of the worker's token
  wIndex, wVersion, wBase,   \* recordIndex, version, baseTimestamp of run()
  client,           \* where the client stands in open() or close()
  reopen,           \* the close() in progress is the one open() begins with
  \* history
  start,            \* the position the last open() or seek() chose
  seen,             \* records committed and published since then
  fresh,            \* the record being published was committed since then
  rewound,          \* it put the cursor on a record no read has begun at yet
  resumed,          \* resume() was called since the last open(), pause(), end or failure
  admitted          \* records published while not resumed

shared == <<open, paused, atEnd, position, current, controlVersion>>
stats == <<chunks, errors>>
locals == <<wIndex, wVersion, wBase>>
history == <<start, seen, fresh, rewound, resumed, admitted>>
vars == <<shared, stats, reader, worker, stop, locals, client, reopen, history>>

WorkerPoints == {"none", "outer", "outerWait", "inner", "timedWait", "read",
                 "failed", "commit", "publish", "exited"}
ClientPoints == {"idle", "closing", "join", "joined", "opening"}

FlagsOK ==
  /\ open \in BOOLEAN /\ paused \in BOOLEAN /\ atEnd \in BOOLEAN
  /\ reader \in BOOLEAN /\ stop \in BOOLEAN /\ reopen \in BOOLEAN
  /\ fresh \in BOOLEAN /\ rewound \in BOOLEAN /\ resumed \in BOOLEAN

NumbersOK ==
  /\ position \in 0..Count
  /\ current \in Nat /\ controlVersion \in Nat
  /\ chunks \in Nat /\ errors \in Nat
  /\ wIndex \in Nat /\ wVersion \in Nat /\ wBase \in Nat
  /\ start \in Nat /\ seen \in Seq(Nat) /\ admitted \in Nat

TypeOK ==
  /\ FlagsOK /\ NumbersOK
  /\ worker \in WorkerPoints
  /\ client \in ClientPoints

Init ==
  /\ open = FALSE /\ paused = TRUE /\ atEnd = FALSE
  /\ position = 0 /\ current = 0 /\ controlVersion = 0
  /\ chunks = 0 /\ errors = 0
  /\ reader = FALSE
  /\ worker = "none" /\ stop = FALSE
  /\ wIndex = 0 /\ wVersion = 0 /\ wBase = 0
  /\ client = "idle" /\ reopen = FALSE
  /\ start = 0 /\ seen = <<>> /\ fresh = FALSE /\ rewound = FALSE
  /\ resumed = FALSE /\ admitted = 0

-----------------------------------------------------------------------------
(* The client *)

\* The notify_all() after a locked section: a worker blocked in the untimed
\* wait evaluates its predicate again.  (A timed wait can end anyway.)
NoNotify == worker
NotifyAll == IF worker = "outerWait" THEN "outer" ELSE worker

MayControl == client = "idle" /\ controlVersion < MaxControls

Pause ==
  /\ MayControl /\ open
  /\ paused' = TRUE
  /\ controlVersion' = controlVersion + 1
  /\ worker' = NotifyAll
  /\ resumed' = FALSE
  /\ UNCHANGED <<open, atEnd, position, current, stats, reader, stop, locals, client, reopen,
                 start, seen, fresh, rewound, admitted>>

Resume ==
  /\ MayControl /\ open /\ ~atEnd
  /\ paused' = FALSE
  /\ controlVersion' = controlVersion + 1
  /\ worker' = NotifyAll
  /\ resumed' = TRUE /\ admitted' = 0
  /\ UNCHANGED <<open, atEnd, position, current, stats, reader, stop, locals, client, reopen,
                 start, seen, fresh, rewound>>

\* setSpeed(): only the restart of the wait matters here.
SetSpeed ==
  /\ MayControl
  /\ controlVersion' = controlVersion + 1
  /\ worker' = NotifyAll
  /\ UNCHANGED <<open, paused, atEnd, position, current, stats, reader, stop, locals, client,
                 reopen, history>>

\* The record whose time becomes the base of the next wait after a seek to p.
SeekBase(p) == IF Count = 0 THEN current ELSE IF p < Count THEN p ELSE Count - 1

\* What a seek to p leaves of the end and of the pause.
SeekEnd(p) == p >= Count
SeekResumes == FALSE
SeekPaused == paused

\* seek() to the first record p at or after a time; p = Count is past the end.
Seek(p) ==
  /\ MayControl /\ open
  /\ position' = p
  /\ atEnd' = SeekEnd(p)
  /\ paused' = SeekPaused
  /\ current' = SeekBase(p)
  /\ controlVersion' = controlVersion + 1
  /\ worker' = NotifyAll
  /\ start' = p /\ seen' = <<>> /\ fresh' = FALSE /\ rewound' = (p < Count)
  /\ UNCHANGED <<open, stats, reader, stop, locals, client, reopen, resumed, admitted>>

\* The locked section of close(); open() runs close() first.
Close(first) ==
  /\ MayControl
  /\ open' = FALSE /\ paused' = TRUE
  /\ controlVersion' = controlVersion + 1
  /\ client' = "closing" /\ reopen' = first
  /\ resumed' = FALSE
  /\ UNCHANGED <<atEnd, position, current, stats, reader, worker, stop, locals,
                 start, seen, fresh, rewound, admitted>>

\* request_stop(), which wakes a stop_token wait, and notify_all().
RequestStop ==
  /\ client = "closing"
  /\ IF worker = "none"
     THEN client' = "joined" /\ UNCHANGED <<stop, worker>>
     ELSE client' = "join" /\ stop' = TRUE /\ worker' = NotifyAll
  /\ UNCHANGED <<shared, stats, reader, locals, reopen, history>>

Join ==
  /\ client = "join" /\ worker = "exited"
  /\ worker' = "none"
  /\ stop' = FALSE
  /\ client' = "joined"
  /\ UNCHANGED <<shared, stats, reader, locals, reopen, history>>

\* close() touches reader_ only when the worker is gone.
BeforeJoin == client \in {"join", "joined"}
AfterJoin == client = "joined"

CloseReader ==
  /\ AfterJoin
  /\ reader' = FALSE
  /\ client' = IF reopen THEN "opening" ELSE "idle"
  /\ UNCHANGED <<shared, stats, worker, stop, locals, reopen, history>>

\* open() found a valid log: the state is reset and the worker starts paused.
OpenSucceeds ==
  /\ client = "opening"
  /\ reader' = TRUE
  /\ chunks' = 0 /\ errors' = 0
  /\ position' = 0 /\ current' = 0
  /\ paused' = TRUE /\ atEnd' = (Count = 0) /\ open' = TRUE
  /\ controlVersion' = controlVersion + 1
  /\ worker' = "outer"
  /\ client' = "idle"
  /\ start' = 0 /\ seen' = <<>> /\ fresh' = FALSE /\ rewound' = (Count > 0)
  /\ resumed' = FALSE /\ admitted' = 0
  /\ UNCHANGED <<stop, locals, reopen>>

OpenFails ==
  /\ client = "opening"
  /\ errors' = errors + 1
  /\ client' = "idle"
  /\ UNCHANGED <<shared, chunks, reader, worker, stop, locals, reopen, history>>

ClientStep == \/ Pause \/ Resume \/ SetSpeed
              \/ \E p \in 0..Count : Seek(p)
              \/ \E first \in BOOLEAN : Close(first)
              \/ RequestStop \/ Join \/ CloseReader
              \/ OpenSucceeds \/ OpenFails

-----------------------------------------------------------------------------
(* The worker *)

\* The outer loop: exit, block until there is something to play, or take the
\* snapshot of the version and of the base time.
OuterExit ==
  /\ worker = "outer" /\ (stop \/ ~open)
  /\ worker' = "exited"
  /\ UNCHANGED <<shared, stats, reader, stop, locals, client, reopen, history>>

OuterWait ==
  /\ worker = "outer" /\ ~stop /\ open /\ (paused \/ atEnd)
  /\ worker' = "outerWait"
  /\ UNCHANGED <<shared, stats, reader, stop, locals, client, reopen, history>>

OuterStart ==
  /\ worker = "outer" /\ ~stop /\ open /\ ~paused /\ ~atEnd
  /\ worker' = "inner"
  /\ wIndex' = position /\ wVersion' = controlVersion /\ wBase' = current
  /\ UNCHANGED <<shared, stats, reader, stop, client, reopen, history>>

\* The inner loop, up to the timed wait.
InnerBreak ==
  /\ worker = "inner"
  /\ stop \/ ~open \/ paused \/ atEnd \/ controlVersion # wVersion
  /\ worker' = "outer"
  /\ UNCHANGED <<shared, stats, reader, stop, locals, client, reopen, history>>

InnerNext ==
  /\ worker = "inner"
  /\ ~(stop \/ ~open \/ paused \/ atEnd \/ controlVersion # wVersion)
  /\ IF position >= Count
     THEN /\ atEnd' = TRUE /\ paused' = TRUE /\ resumed' = FALSE
          /\ worker' = "outer"
          /\ UNCHANGED wIndex
     ELSE /\ worker' = "timedWait"
          /\ wIndex' = position
          /\ UNCHANGED <<atEnd, paused, resumed>>
  /\ UNCHANGED <<open, position, current, controlVersion, stats, reader, stop, wVersion, wBase,
                 client, reopen, start, seen, fresh, rewound, admitted>>

Interrupted == ~open \/ paused \/ controlVersion # wVersion

\* wait_until() ends, by its time or by a notification.
TimedWaitEnds ==
  /\ worker = "timedWait"
  /\ worker' = IF Interrupted THEN "outer" ELSE "read"
  /\ rewound' = (rewound /\ Interrupted)
  /\ UNCHANGED <<shared, stats, reader, stop, locals, client, reopen, start, seen, fresh,
                 resumed, admitted>>

\* reader_.read() with no lock held; a damaged or vanished file makes it fail.
Read ==
  /\ worker = "read"
  /\ worker' \in {"commit", "failed"}
  /\ UNCHANGED <<shared, stats, reader, stop, locals, client, reopen, history>>

\* A failed read stops the replay, whatever the client did in the meantime.
ReadFailed ==
  /\ worker = "failed"
  /\ errors' = errors + 1
  /\ paused' = TRUE /\ atEnd' = TRUE
  /\ worker' = "outer"
  /\ resumed' = FALSE
  /\ UNCHANGED <<open, position, current, controlVersion, chunks, reader, stop, locals, client,
                 reopen, start, seen, fresh, rewound, admitted>>

\* The second look at the cursor: another control operation came first.
NeverOutdated == FALSE
Outdated == controlVersion # wVersion \/ position # wIndex

CommitSkips ==
  /\ worker = "commit" /\ Outdated
  /\ worker' = "inner"
  /\ UNCHANGED <<shared, stats, reader, stop, locals, client, reopen, history>>

\* The last record has just been committed.
OneTooMany(next) == next > Count
LastReached(next) == next >= Count

Commit ==
  /\ worker = "commit" /\ ~Outdated
  /\ position' = position + 1
  /\ current' = wIndex
  /\ chunks' = chunks + 1
  /\ IF LastReached(position + 1)
     THEN /\ atEnd' = TRUE /\ paused' = TRUE /\ resumed' = FALSE
          /\ controlVersion' = controlVersion + 1
     ELSE UNCHANGED <<atEnd, paused, controlVersion, resumed>>
  /\ worker' = "publish"
  /\ fresh' = TRUE
  /\ UNCHANGED <<open, errors, reader, stop, locals, client, reopen, start, seen, rewound,
                 admitted>>

\* publishData() runs the callback with no lock held.
Publish ==
  /\ worker = "publish"
  /\ worker' = "inner"
  /\ seen' = IF fresh THEN Append(seen, wIndex) ELSE seen
  /\ admitted' = IF resumed THEN admitted ELSE admitted + 1
  /\ UNCHANGED <<shared, stats, reader, stop, locals, client, reopen, start, fresh, rewound,
                 resumed>>

WorkerStep == \/ OuterExit \/ OuterWait \/ OuterStart
              \/ InnerBreak \/ InnerNext \/ TimedWaitEnds
              \/ Read \/ ReadFailed \/ CommitSkips \/ Commit \/ Publish

Next == ClientStep \/ WorkerStep

\* The operating system runs the worker, and a client inside open() or close()
\* goes on to its end; nobody is obliged to call pause(), resume() or seek().
Fairness == /\ WF_vars(WorkerStep)
            /\ WF_vars(RequestStop) /\ WF_vars(Join) /\ WF_vars(CloseReader)
            /\ WF_vars(OpenSucceeds \/ OpenFails)

Spec == Init /\ [][Next]_vars
FairSpec == Spec /\ Fairness

-----------------------------------------------------------------------------
(* What a replay promises *)

\* Between two open() or seek() calls the records come out in file order, each
\* once, from the chosen position on, and the cursor counts exactly those and
\* the one being published: no control operation duplicates or skips a record.
InFlight == IF worker = "publish" /\ fresh THEN 1 ELSE 0
ExactlyOnce ==
  open => /\ \A i \in 1..Len(seen) : seen[i] = start + i - 1
          /\ start + Len(seen) + InFlight = position

\* From open(), pause(), the end of the log or a failed read until the next
\* resume(), at most the one record already committed still comes out,
\* whatever seeks and speed changes are made meanwhile.
PauseHolds == ~resumed => admitted <= 1

\* A wait that can still lead to a read is computed from a base that is not
\* later than the record, so a seek never makes records come out in a burst.
DelayNeverNegative ==
  worker = "timedWait" /\ controlVersion = wVersion => wBase <= wIndex

\* The worker uses reader_ without a lock: it is never closed under it, and a
\* replay that is not open has no worker once close() has returned.
WorkerNeedsReader ==
  /\ worker \notin {"none", "exited"} => reader
  /\ ~open /\ client = "idle" => worker = "none"

\* While an open replay is not at its end there is a record at the cursor, so
\* the end check inside the inner loop of run() never has to fire.
EndIsFlagged == open /\ ~atEnd => position < Count

\* A replay is at its end only when it has consumed the log or a read failed.
EndIsEarned == open /\ atEnd => position >= Count \/ errors > 0

EndIsExact == EndIsFlagged /\ EndIsEarned

\* A playing replay reaches its end unless the client interferes.  (A seek past
\* the last record while playing leaves it at its end and not paused.)
PlaybackEnds == (open /\ ~paused) ~> (paused \/ atEnd \/ ~open)

\* close() never waits for ever for the worker.
CloseReturns == (client = "closing") ~> (client = "idle")

\* Neither the worker nor the client that joins it is left standing.
ReplayProgresses == PlaybackEnds /\ CloseReturns

\* "seek allows replay from beginning" (tests/test_core.cpp:1191): after a seek
\* to a record the replay is not at its end before anything was read there.
SeekAllowsReplay == open /\ rewound => ~atEnd
=============================================================================
