--------------------------- MODULE SessionRestore ---------------------------
(***************************************************************************)
(* What openReplaySession() (serial_session.cpp:2029-2838) replaces in the *)
(* application once it has closed everything: it reads the files of a      *)
(* session's directory one after another, any of which may be missing or   *)
(* refused, and only then replaces the tables of rules, one after another, *)
(* putting back those already replaced when a later one is refused.  The   *)
(* parsers and the routing of replayed records are replaced on the way.    *)
(*                                                                         *)
(* Everything runs on the GUI thread.  What a table holds is abstracted to *)
(* whose it is: the user's, as before the replay, or the session's.        *)
(***************************************************************************)
EXTENDS Naturals, Sequences, SequencesExt

CONSTANT Routings   \* the replay modes of the directories

ASSUME RoutingsAssumption == Routings \subseteq {"parsed", "raw", "structured"}

VARIABLES
  gui,         \* where the GUI thread stands
  rules,       \* whose the tables are: [Tables -> {"user", "session"}]
  previous,    \* ... and were when the call began
  parsers,     \* sourceParserConfigurations_ and the protocol: "user", "none" or "session"
  declared,    \* source_parser_format: every byte source must come with its parser
  routing,     \* what metadata.json said of it
  mode,        \* replayRawOnly_ and replayStructuredRosbag_: "parsed", "raw" or "structured"
  frozen,      \* timeAlignmentFrozen_
  events,      \* whether timelineEvents_ are the session's
  replaying    \* replaying_

restoreVars == <<rules, previous, parsers, declared, routing, mode, frozen, events, replaying>>

\* In the order in which they are replaced.
Order == <<"alignment", "health", "alerts", "derived">>
Tables == ToSet(Order)

RestoreInit ==
  /\ rules = [t \in Tables |-> "user"] /\ previous = rules
  /\ parsers = "user" /\ declared = FALSE
  /\ routing = "parsed" /\ mode = "parsed"
  /\ frozen = FALSE /\ events = FALSE /\ replaying = FALSE

-----------------------------------------------------------------------------
(* Before the files are read *)

CopyRules == previous' = rules

\* replaying_ and timeAlignmentFrozen_ are lowered and the events forgotten once the replay
\* is closed; closeReplay() and a live source that takes over reset the routing as well.
ReplayLeft == replaying' = FALSE /\ frozen' = FALSE /\ events' = FALSE
RoutingReset == mode' = "parsed"

-----------------------------------------------------------------------------
(* The files: each step either fails, and with it the call, or goes on *)

Reading(point, next) == gui = point /\ gui' \in {"idle", next}

\* metadata.json; a session without one is parsed.
ReadMetadata ==
  /\ Reading("openMetadata", "openTopics")
  /\ routing' \in Routings /\ declared' \in BOOLEAN
  /\ UNCHANGED <<rules, previous, parsers, mode, frozen, events, replaying>>

\* configuration/rosbag2.json, of a structured session only; then the routing is set.
ReadTopics ==
  /\ gui = "openTopics"
  /\ gui' \in {"openSources"} \cup (IF routing = "structured" THEN {"idle"} ELSE {})
  /\ mode' = IF gui' = "idle" THEN mode ELSE routing
  /\ UNCHANGED <<rules, previous, parsers, declared, routing, frozen, events, replaying>>

\* The parser of every source, of a parsed session only.  A snapshot may be missing from an
\* old session, never from one that declares them.
ReadSourceParsers ==
  /\ gui = "openSources"
  /\ gui' \in {"openParsers"} \cup (IF routing = "parsed" THEN {"idle"} ELSE {})
  /\ UNCHANGED restoreVars

\* The user's parsers and protocol go, the session's come.
Cleared == "none"
RestoreParsers ==
  /\ gui = "openParsers" /\ gui' = "readDerived"
  /\ parsers' \in IF routing # "parsed" THEN {Cleared}
                  ELSE IF declared THEN {"session"} ELSE {Cleared, "session"}
  /\ UNCHANGED <<rules, previous, declared, routing, mode, frozen, events, replaying>>

ReadDerivedFields == Reading("readDerived", "readAlerts") /\ UNCHANGED restoreVars
ReadAlertRules == Reading("readAlerts", "readHealth") /\ UNCHANGED restoreVars
ReadHealthAlertRules == Reading("readHealth", "readAlignment") /\ UNCHANGED restoreVars
ReadTimeAlignment == Reading("readAlignment", "readEvents") /\ UNCHANGED restoreVars
ReadEvents == Reading("readEvents", Order[1]) /\ UNCHANGED restoreVars

-----------------------------------------------------------------------------
(* The tables *)

\* A table is refused: those before it are put back.
OnlyLastBack(i) == IF i = 1 THEN rules ELSE [rules EXCEPT ![Order[i - 1]] = previous[Order[i - 1]]]
PutBack(i) == [t \in Tables |-> IF t \in ToSet(SubSeq(Order, 1, i - 1)) THEN previous[t] ELSE rules[t]]

ReplaceTable(i) ==
  /\ gui = Order[i]
  /\ \/ /\ rules' = [rules EXCEPT ![Order[i]] = "session"]
        /\ frozen' = TRUE
        /\ gui' = IF i = Len(Order) THEN "openFile" ELSE Order[i + 1]
     \/ /\ rules' = PutBack(i)
        /\ frozen' = FALSE
        /\ gui' = "idle"
  /\ UNCHANGED <<previous, parsers, declared, routing, mode, events, replaying>>

RestoreStep ==
  \/ ReadMetadata \/ ReadTopics \/ ReadSourceParsers \/ RestoreParsers
  \/ ReadDerivedFields \/ ReadAlertRules \/ ReadHealthAlertRules \/ ReadTimeAlignment \/ ReadEvents
  \/ (\E i \in DOMAIN Order : ReplaceTable(i))

-----------------------------------------------------------------------------
(* The end *)

\* The log cannot be opened: everything is put back but the parsers.
OpenRefused ==
  /\ rules' = PutBack(Len(Order) + 1)
  /\ mode' = "parsed" /\ frozen' = FALSE
  /\ UNCHANGED <<previous, parsers, declared, routing, events, replaying>>

OpenAccepted ==
  /\ events' = TRUE /\ replaying' = TRUE
  /\ UNCHANGED <<rules, previous, parsers, declared, routing, mode, frozen>>

-----------------------------------------------------------------------------
(* What it promises *)

\* The replay runs under the configuration of its own session and no other: tables, time
\* axis, events, routing, and the parser of every source whose snapshot is declared
\* (docs/SOURCE_PARSERS.md:43).  A call that is refused, wherever it was, leaves no table of
\* rules replaced (docs/MARKERS_ALERTS.md:62): between calls the four belong together.
OneConfiguration ==
  gui = "idle" =>
    /\ \A t, u \in Tables : rules[t] = rules[u]
    /\ frozen <=> replaying
    /\ replaying => /\ \A t \in Tables : rules[t] = "session"
                    /\ mode = routing /\ events
                    /\ parsers # "user"
                    /\ routing = "parsed" /\ declared => parsers = "session"
=============================================================================
