---------------------------- MODULE FrameHealth ----------------------------
(***************************************************************************)
(* What SerialSession does with the events of a frame protocol: every      *)
(* event that is not a decoded frame is an error of its source for the     *)
(* ErrorRate rule of HealthAlertEngine (serial_session.cpp:662-679), and   *)
(* so is every error its I/O thread reports (387-392).  The 33 ms timer of *)
(* the GUI thread evaluates the rule (830-854), and the GUI thread resets  *)
(* it: a session that starts, a replay, a removed source, new definitions. *)
(*                                                                         *)
(* All three threads read the clock before they take the lock of the       *)
(* engine, so an error may be entered with a later or an earlier time than *)
(* that of another error or of an evaluation.  The clock is the system's   *)
(* (timestamp.hpp:10), which may be set back: a reading is any time.       *)
(***************************************************************************)
EXTENDS FrameStream

CONSTANTS
    ErrorCount,  \* definition.errorCount
    Window,      \* definition.windowNs
    MaxTime,     \* bound, by definition: the clock
    MaxErrors    \* bound, by definition: errors entered when the I/O thread reports one

(* What a definition must be (health_alert_engine.cpp:91-99). *)
ASSUME RuleAssumption == ErrorCount \in Nat \ {0} /\ Window \in Nat

VARIABLES
    pending,     \* errors of the frames of a chunk, not yet entered: their times, 0 before the clock is read
    failure,     \* the time of an error the I/O thread is about to enter, 0 for none
    errors,      \* rule.errors
    active,      \* rule.active
    reading,     \* the time that processHealthAlerts() has read, 0 outside of it
    history      \* history: the errors entered since the last reset, each with its time and the
                 \* latest time of an evaluation since it was entered

healthVars == <<pending, failure, errors, active, reading, history>>
allVars == <<streamVars, healthVars>>

(* nowTimestampNs() *)
Clock == 1..MaxTime[definition]

HealthInit ==
    /\ StreamInit
    /\ pending = <<>> /\ failure = 0 /\ errors = <<>> /\ active = FALSE /\ reading = 0
    /\ history = <<>>

(* The frame handler: the processing thread parses the next chunk once the errors of the last
   one are entered. *)
HandleChunk ==
    /\ pending = <<>>
    /\ Consume
    /\ LET new == SubSeq(events', Len(events) + 1, Len(events'))
           failed == {n \in DOMAIN new : new[n].kind # "frame"}
       IN  pending' = [i \in 1..Cardinality(failed) |-> 0]
    /\ UNCHANGED <<failure, errors, active, reading, history>>

(* It reads the clock for one error ... *)
StampError ==
    /\ pending # <<>> /\ pending[1] = 0
    /\ \E t \in Clock : pending' = [pending EXCEPT ![1] = t]
    /\ UNCHANGED <<streamVars, failure, errors, active, reading, history>>

(* The list with one more time, at its place: upper_bound and insert. *)
Sorted(list, t) ==
    LET place == Max({i \in 0..Len(list) : i = 0 \/ list[i] <= t})
    IN  SubSeq(list, 1, place) \o <<t>> \o SubSeq(list, place + 1, Len(list))

(* A mutant: the oldest error is not given up, the newest is not entered. *)
OldestKept(list, t) == IF Len(list) = ErrorCount THEN list ELSE Sorted(list, t)

(* observeError(): the list keeps the latest errorCount times. *)
Entered(list, t) ==
    IF Len(Sorted(list, t)) > ErrorCount THEN Tail(Sorted(list, t)) ELSE Sorted(list, t)

ErrorEntered(t) ==
    /\ errors' = Entered(errors, t)
    /\ history' = Append(history, [time |-> t, judged |-> 0])

(* ... and enters it. *)
ObserveError ==
    /\ pending # <<>> /\ pending[1] # 0
    /\ ErrorEntered(pending[1])
    /\ pending' = Tail(pending)
    /\ UNCHANGED <<streamVars, failure, active, reading>>

(* The error callback, on the I/O thread of the source. *)
SourceFails ==
    /\ failure = 0 /\ Len(history) < MaxErrors[definition]
    /\ failure' \in Clock
    /\ UNCHANGED <<streamVars, pending, errors, active, reading, history>>

ObserveSourceError ==
    /\ failure # 0
    /\ ErrorEntered(failure)
    /\ failure' = 0
    /\ UNCHANGED <<streamVars, pending, active, reading>>

(* The timer reads the clock ... *)
StartEvaluation ==
    /\ reading = 0
    /\ reading' \in Clock
    /\ UNCHANGED <<streamVars, pending, failure, errors, active, history>>

(* The errors at the front that are too old for the window are dropped. *)
TooOld(t) == reading >= t /\ reading - t > Window
Windowed(list) ==
    LET gone == Max({n \in 0..Len(list) : \A i \in 1..n : TooOld(list[i])})
    IN  SubSeq(list, gone + 1, Len(list))

(* ... and evaluates the rule. *)
Evaluate ==
    /\ reading # 0
    /\ errors' = Windowed(errors)
    /\ active' = (Len(errors') >= ErrorCount)   \* an alert is published when this becomes TRUE
    /\ reading' = 0
    /\ history' = [i \in DOMAIN history |->
                      [time |-> history[i].time, judged |-> Max({history[i].judged, reading})]]
    /\ UNCHANGED <<streamVars, pending, failure>>

(* resetValues(), disarm(), setDefinitions(): the GUI thread, outside of an evaluation. *)
ResetRule ==
    /\ reading = 0
    /\ errors' = <<>> /\ active' = FALSE
    /\ history' = <<>>
    /\ UNCHANGED <<streamVars, pending, failure, reading>>

HealthNext ==
    \/ HandleChunk
    \/ StampError
    \/ ObserveError
    \/ SourceFails
    \/ ObserveSourceError
    \/ StartEvaluation
    \/ Evaluate
    \/ ResetRule

HealthSpec == HealthInit /\ [][HealthNext]_allVars

----------------------------------------------------------------------------
(* An error counts at a time if it lies in the window before it, or after it, and did so at every
   evaluation since it was entered: what one evaluation finds too old is gone, also when the clock
   is set back afterwards. *)
InWindow(error, time) ==
    error.time + Window >= time /\ error.time + Window >= error.judged

Counted(entered, time) == {i \in DOMAIN entered : InWindow(entered[i], time)}

(* The rule is active after an evaluation exactly if errorCount of the errors entered since the last
   reset count at its time: the list, which keeps no more than errorCount times however late and
   in whatever order two threads enter them, forgets none that counts, also when the clock is set back. *)
RuleSeesTheWindow ==
    [][reading # 0 /\ reading' = 0 =>
         active' = (Cardinality(Counted(history, reading)) >= ErrorCount)]_allVars
=============================================================================
