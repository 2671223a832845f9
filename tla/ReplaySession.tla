---------------------------- MODULE ReplaySession ----------------------------
(***************************************************************************)
(* Replay inside the application: the replay callback, seekReplay,         *)
(* openReplaySession and closeReplay of src/src/app/serial_session.cpp,    *)
(* with the ReplaySource they control and the pipeline it feeds.           *)
(*                                                                         *)
(* The replay's worker publishes a record by a callback that takes         *)
(* routingMutex_ and pushes the record; the GUI thread seeks while holding *)
(* routingMutex_, after pausing the replay and draining the pipeline.      *)
(* Between a record's commit and its callback the GUI may do all of that.  *)
(* SessionRestore models what openReplaySession() replaces on its way.     *)
(***************************************************************************)
EXTENDS SessionRestore, ReplaySource

CONSTANT Ends   \* the records whose bytes end a line

ASSUME EndsAssumption == Ends \subseteq 0..(Count - 1)

VARIABLES
  wasPaused, target,  \* wasPaused and the record sought, of seekReplay()
  queue, hand,        \* the pipeline: its queue, the record being processed
  pending,            \* the half line of its parser
  series,             \* the lines in timeSeries_
  stale               \* history: records published since the last seek or open but
                      \* committed before it

replayVars == <<open, paused, atEnd, position, current, controlVersion, chunks, errors, reader,
                worker, stop, wIndex, wVersion, wBase, client, reopen,
                start, seen, fresh, rewound, resumed, admitted>>
guiVars == <<gui, wasPaused, target, restoreVars>>
pipelineVars == <<queue, hand, pending, series>>
sessionVars == <<replayVars, guiVars, pipelineVars, stale>>

Records == 0..(Count - 1)

SessionInit ==
  /\ Init
  /\ RestoreInit
  /\ gui = "idle" /\ wasPaused = TRUE /\ target = 0
  /\ queue = <<>> /\ hand = <<>> /\ pending = <<>> /\ series = <<>> /\ stale = <<>>

-----------------------------------------------------------------------------
(* The worker of the replay *)

\* routingMutex_ is held by the GUI from its flush() to the end of its resets.
HeldWhileClosing ==
  gui \notin {"seekFlush", "seekMove", "openFlush", "close", "openClose"}
RoutingFree == gui \notin {"seekFlush", "seekMove", "openFlush"}

\* The data callback: the record enters the pipeline, or, of a structured session, the
\* curves; the records of a raw session are only listed.
Deliver ==
  /\ RoutingFree
  /\ Publish
  /\ queue' = IF mode = "parsed" THEN Append(queue, wIndex) ELSE queue
  /\ series' = IF mode = "structured" THEN Append(series, <<wIndex>>) ELSE series
  /\ stale' = IF fresh THEN stale ELSE Append(stale, wIndex)
  /\ UNCHANGED <<guiVars, hand, pending>>

ReplayStep ==
  /\ \/ OuterExit \/ OuterWait \/ OuterStart
     \/ InnerBreak \/ InnerNext \/ TimedWaitEnds
     \/ Read \/ ReadFailed \/ CommitSkips \/ Commit
  /\ UNCHANGED <<guiVars, pipelineVars, stale>>

-----------------------------------------------------------------------------
(* The worker of the pipeline *)

Take ==
  /\ hand = <<>> /\ queue # <<>>
  /\ hand' = <<Head(queue)>> /\ queue' = Tail(queue)
  /\ UNCHANGED <<replayVars, guiVars, pending, series, stale>>

LineErased == <<>>

\* Parsing and handing out are one step here: nothing in this module comes
\* between them.
Process ==
  /\ hand # <<>>
  /\ IF hand[1] \in Ends
     THEN series' = Append(series, pending \o hand) /\ pending' = LineErased
     ELSE pending' = pending \o hand /\ UNCHANGED series
  /\ hand' = <<>>
  /\ UNCHANGED <<replayVars, guiVars, queue, stale>>

PipelineStep == Take \/ Process

-----------------------------------------------------------------------------
(* The GUI thread *)

\* Room below the version bound for a whole operation and the worker's own bump.
MayBegin == gui = "idle" /\ controlVersion + 4 <= MaxControls
Enter(point) == gui' = point /\ UNCHANGED <<wasPaused, target, restoreVars>>
Control(operation) == operation /\ UNCHANGED <<pipelineVars, stale>>
Skip == UNCHANGED replayVars

\* pauseReplay(), resumeReplay() and setReplaySpeed().
PauseReplay == MayBegin /\ Control(Pause) /\ UNCHANGED guiVars
ResumeReplay == MayBegin /\ Control(Resume) /\ UNCHANGED guiVars
SetReplaySpeed == MayBegin /\ Control(SetSpeed) /\ UNCHANGED guiVars

\* seekReplay() reads the pause state, ...
SeekBegin(record) ==
  /\ MayBegin /\ open
  /\ gui' = "seekPause" /\ wasPaused' = paused /\ target' = record
  /\ Skip /\ UNCHANGED <<pipelineVars, stale, restoreVars>>

\* ... pauses, ...
SeekPause ==
  /\ gui = "seekPause" /\ Enter("seekLock")
  /\ Control(Pause)

\* ... takes routingMutex_, ...
SeekLock ==
  /\ gui = "seekLock" /\ Enter("seekFlush")
  /\ Skip /\ UNCHANGED <<pipelineVars, stale>>

\* ... drains the pipeline and resets its parsers, ...
AnyMoment == TRUE
Flushed == queue = <<>> /\ hand = <<>>
ResetParsers == <<>>
SeekFlush ==
  /\ gui = "seekFlush" /\ Enter("seekMove")
  /\ Flushed
  /\ pending' = ResetParsers
  /\ Skip /\ UNCHANGED <<queue, hand, series, stale>>

\* ... moves the cursor and clears the curves, ...
SeekMove ==
  /\ gui = "seekMove"
  /\ Enter(IF wasPaused THEN "idle" ELSE "seekResume")
  /\ Seek(target)
  /\ series' = <<>> /\ stale' = <<>>
  /\ UNCHANGED <<queue, hand, pending>>

\* ... and goes on playing, unless the replay ended in the meantime.
SeekResume ==
  /\ gui = "seekResume" /\ Enter("idle")
  /\ Control(IF atEnd THEN Skip ELSE Resume)

\* closeReplay() closes the replay before it takes routingMutex_.
CloseBegin ==
  /\ MayBegin /\ Enter("close")
  /\ Control(Close(FALSE))

CloseEnd ==
  /\ gui = "close" /\ client = "idle"
  /\ gui' = "idle" /\ ReplayLeft /\ RoutingReset
  /\ Skip
  /\ UNCHANGED <<wasPaused, target, rules, previous, parsers, declared, routing, pipelineVars, stale>>

\* openReplaySession() copies the tables, closes the replay, drains the pipeline and clears
\* the curves under routingMutex_, reads the directory and opens the new file.
OpenBegin ==
  /\ MayBegin
  /\ gui' = "openClose" /\ CopyRules
  /\ Close(FALSE)
  /\ UNCHANGED <<wasPaused, target, rules, parsers, declared, routing, mode, frozen, events,
                 replaying, pipelineVars, stale>>

OpenLock ==
  /\ gui = "openClose" /\ client = "idle"
  /\ gui' = "openFlush" /\ ReplayLeft
  /\ Skip
  /\ UNCHANGED <<wasPaused, target, rules, previous, parsers, declared, routing, mode,
                 pipelineVars, stale>>

OpenFlush ==
  /\ gui = "openFlush" /\ Flushed /\ Enter("openMetadata")
  /\ pending' = <<>> /\ series' = <<>> /\ stale' = <<>>
  /\ Skip /\ UNCHANGED <<queue, hand>>

\* A change of parsers clears the curves, which are empty here.
OpenReads ==
  /\ RestoreStep
  /\ Skip /\ UNCHANGED <<wasPaused, target, pipelineVars, stale>>

OpenFile ==
  /\ gui = "openFile" /\ Enter("openWait")
  /\ Control(Close(TRUE))

OpenEnd ==
  /\ gui = "openWait" /\ client = "idle" /\ gui' = "idle"
  /\ IF open THEN OpenAccepted ELSE OpenRefused
  /\ Skip /\ UNCHANGED <<wasPaused, target, pipelineVars, stale>>

\* The steps of the replay's own open() and close() the GUI is inside of; join()
\* returns when the worker, and so the callback it is in, is gone.
ClientWaits == gui \in {"close", "openClose", "openWait"}
ReplayCall ==
  /\ ClientWaits
  /\ RequestStop \/ Join \/ CloseReader \/ OpenSucceeds
     \/ OpenFails
  /\ UNCHANGED <<guiVars, pipelineVars, stale>>

GuiStep == \/ SeekPause \/ SeekLock \/ SeekFlush \/ SeekMove \/ SeekResume
           \/ CloseEnd \/ OpenLock \/ OpenFlush \/ OpenReads \/ OpenFile \/ OpenEnd \/ ReplayCall

SessionNext == \/ Deliver \/ ReplayStep \/ PipelineStep \/ GuiStep
        \/ PauseReplay \/ ResumeReplay \/ SetReplaySpeed
        \/ (\E record \in Records : SeekBegin(record)) \/ CloseBegin \/ OpenBegin

\* Both workers are scheduled and the GUI finishes what it has begun.
SessionFairness == /\ WF_sessionVars(Deliver \/ ReplayStep) /\ WF_sessionVars(PipelineStep)
            /\ WF_sessionVars(GuiStep)

SessionSpec == SessionInit /\ [][SessionNext]_sessionVars
FairSession == SessionSpec /\ SessionFairness

-----------------------------------------------------------------------------
(* What replay promises to the user *)

\* Everything published since the last seek or open, in the curves or on the way.
Played == FlattenSeq(series) \o pending \o hand \o queue

\* The curves of a replay show the records from the chosen position up to the
\* cursor, each once and in order, after at most one record that had already
\* been committed when the seek began.  Those of a raw session show nothing.
CurvesFollowCursor ==
  /\ Len(stale) <= 1
  /\ open /\ mode = "raw" => Played = <<>>
  /\ open /\ mode # "raw" /\ gui # "seekMove" =>
    /\ Len(Played) = Len(stale) + position - start - InFlight
    /\ \A i \in DOMAIN Played :
         Played[i] = IF i <= Len(stale) THEN stale[i] ELSE start + (i - Len(stale)) - 1

\* No operation of the GUI waits for ever: the locks it holds and the threads it
\* joins or drains never wait for each other.
GuiReturns == (gui # "idle") ~> (gui = "idle")

\* "A seek first raises a barrier ... so that bytes before and after the jump are not
\* spliced into a false frame" (docs/SESSION_FORMAT.md:74): not so, when a record was
\* committed before the seek and is published after its barrier.
SeekCutsLines ==
  open /\ gui # "seekMove" =>
    \A i \in DOMAIN series : \A j \in 1..(Len(series[i]) - 1) :
      series[i][j + 1] = series[i][j] + 1
=============================================================================
