------------------------------ MODULE AppendLog ------------------------------
(***************************************************************************)
(* What a recorder promises: an append-only log that is opened, accepts    *)
(* records, writes them oldest first, is sealed, and is closed when        *)
(* nothing it accepted is left to be written.  A record may be lost only   *)
(* when its turn comes and it cannot be written, or when the device fails  *)
(* as the log is closed; every loss is counted.                            *)
(***************************************************************************)
EXTENDS Naturals, Sequences

CONSTANT Records

VARIABLES
  phase,      \* "closed", "accepting" or "sealed"
  log,        \* the records accepted and not lost, oldest first
  written,    \* how many of them were written
  lost        \* how many were lost since the log was opened

vars == <<phase, log, written, lost>>

TypeOK ==
  /\ phase \in {"closed", "accepting", "sealed"}
  /\ log \in Seq(Records) /\ written \in 0..Len(log) /\ lost \in Nat

Init == phase = "closed" /\ log = <<>> /\ written = 0 /\ lost = 0

Open ==
  /\ phase = "closed" /\ phase' = "accepting"
  /\ log' = <<>> /\ written' = 0 /\ lost' = 0

Accept(r) ==
  /\ phase = "accepting"
  /\ log' = Append(log, r)
  /\ UNCHANGED <<phase, written, lost>>

Persist ==
  /\ phase # "closed" /\ written < Len(log)
  /\ written' = written + 1
  /\ UNCHANGED <<phase, log, lost>>

\* The oldest record that is not written is lost.
Lose ==
  /\ phase # "closed" /\ written < Len(log)
  /\ log' = SubSeq(log, 1, written) \o SubSeq(log, written + 2, Len(log))
  /\ lost' = lost + 1
  /\ UNCHANGED <<phase, written>>

Seal ==
  /\ phase = "accepting" /\ phase' = "sealed"
  /\ UNCHANGED <<log, written, lost>>

Close ==
  /\ phase = "sealed" /\ phase' = "closed"
  /\ written = Len(log)
  /\ UNCHANGED <<log, written, lost>>

\* The device fails when it is told to keep what was written.
CloseShort ==
  /\ phase = "sealed" /\ phase' = "closed"
  /\ written = Len(log)
  /\ written' \in 0..Len(log)
  /\ log' = SubSeq(log, 1, written')
  /\ lost' = lost + written - written'

Next == Open \/ (\E r \in Records : Accept(r)) \/ Persist \/ Lose \/ Seal
        \/ Close \/ CloseShort

Spec == Init /\ [][Next]_vars
=============================================================================
