---------------------------- MODULE TimeAlignment ----------------------------
(***************************************************************************)
(* The pure part of TimeAlignmentEngine (time_alignment.cpp) and of        *)
(* ClockSyncEstimator (clock_sync.cpp): which time a sample is given, and  *)
(* what the agent's clock is taken to be.                                  *)
(*                                                                         *)
(* Rules are a function from some source ids to [mode, offset]; clocks     *)
(* one from some ids to an offset.  Both hold for the descendants of an id *)
(* as well, the most specific one winning.                                 *)
(***************************************************************************)
EXTENDS Integers, FiniteSetsExt

CONSTANT Lineage    \* of each id, itself and the ids it descends from, the longest first

none == -99         \* an offset that is not there
maximumManualOffset == 60

(* matchingRule() and matchingClock(): the entry of the nearest ancestor that has one. *)
Known(table, id) == {i \in DOMAIN Lineage[id] : Lineage[id][i] \in DOMAIN table}
Has(table, id) == Known(table, id) # {}
Owner(table, id) == Lineage[id][Min(Known(table, id))]
Match(table, id) == table[Owner(table, id)]

(* align(): a rule that gives no positive time falls back to the time of the source, or to *)
(* that of its arrival.                                                                     *)
Offset(rules, clocks, id) ==
  IF ~Has(rules, id) THEN 0
  ELSE CASE Match(rules, id).mode = "manual" -> Match(rules, id).offset
         [] Match(rules, id).mode = "remote_clock" ->
              IF Has(clocks, id) THEN -Match(clocks, id) ELSE Match(rules, id).offset
         [] OTHER -> 0

Chosen(rules, clocks, id, source, receive) ==
  IF Has(rules, id) /\ Match(rules, id).mode = "receive" THEN receive
  ELSE IF source > 0 /\ Offset(rules, clocks, id) # none THEN source + Offset(rules, clocks, id)
  ELSE 0

Align(rules, clocks, id, source, receive) ==
  LET chosen == Chosen(rules, clocks, id, source, receive)
      fallback == IF source > 0 THEN source ELSE receive
  IN IF chosen > 0 THEN chosen ELSE IF fallback > 0 THEN fallback ELSE 0

(* configure(): no offset is beyond the safety limit of seven days. *)
Accepted(rules) ==
  \A id \in DOMAIN rules : rules[id].offset # none =>
    rules[id].offset \in -maximumManualOffset..maximumManualOffset

OffsetsForgotten(rules, clocks) == rules

(* snapshotRules(): the clocks known now become the offsets of the rules that use them. *)
SnapshotRules(rules, clocks) ==
  [id \in DOMAIN rules |->
     IF rules[id].mode = "remote_clock" /\ Has(clocks, id)
       THEN [rules[id] EXCEPT !.offset = -Match(clocks, id)]
       ELSE rules[id]]

-----------------------------------------------------------------------------
(* ClockSyncEstimator::addSample(): one exchange of Ping and Pong, the agent's clock read     *)
(* somewhere between the two readings of the local one.                                     *)

Measured(send, agent, receive) ==
  LET trip == receive - send
  IN [offset |-> agent - (send + trip \div 2), trip |-> trip]
==============================================================================
