--------------------------- MODULE ThresholdAlerts ---------------------------
(***************************************************************************)
(* ThresholdAlertEngine (threshold_alert_engine.cpp).  An engine is the    *)
(* state of its rules and the number of alerts they raised; a rule's       *)
(* definition is one of AlertRules.                                        *)
(***************************************************************************)
EXTENDS Integers, Sequences, SequencesExt

CONSTANT AlertRules   \* [name -> [field, above, threshold, hysteresis, duration]]

NaN == -99            \* a value that is not finite

ASSUME RulesAssumption ==
  \A r \in DOMAIN AlertRules :
    /\ AlertRules[r].above \in BOOLEAN /\ AlertRules[r].threshold \in Int
    /\ AlertRules[r].hysteresis \in Nat /\ AlertRules[r].duration \in Nat

FreshRule == [active |-> FALSE, since |-> 0, last |-> 0]
FreshAlerts == [rules |-> [r \in DOMAIN AlertRules |-> FreshRule], sequence |-> 0]

Breached(d, value) == IF d.above THEN value > d.threshold ELSE value < d.threshold
Recovered(d, value) ==
  IF d.above THEN value <= d.threshold - d.hysteresis ELSE value >= d.threshold + d.hysteresis

(* What one sample makes of a rule; since = 0 stands for no breach under way. *)
HeldLongEnough(d, rule, sample) ==
  d.duration = 0 \/ (rule.since # 0 /\ sample.time >= rule.since
                                    /\ sample.time - rule.since >= d.duration)

Judged(d, rule, sample) ==
  LET seen == [rule EXCEPT !.last = sample.time]
      quiet == [seen EXCEPT !.active = FALSE, !.since = 0]
  IN CASE rule.active -> IF Recovered(d, sample.value) THEN quiet ELSE seen
       [] ~rule.active /\ ~Breached(d, sample.value) -> quiet
       [] OTHER ->
            IF HeldLongEnough(d, rule, sample) THEN [seen EXCEPT !.active = TRUE, !.since = 0]
            ELSE IF sample.time > 0 /\ rule.since = 0 THEN [seen EXCEPT !.since = sample.time]
            ELSE seen

Concerns(d, rule, sample) ==
  /\ sample.value # NaN /\ sample.field = d.field
  /\ rule.last = 0 \/ sample.time >= rule.last

(* consumeBatch(): the engine after the samples, and the rules that raised an alert. *)
RulesAfter(rules, sample) ==
  [n \in DOMAIN AlertRules |->
     IF Concerns(AlertRules[n], rules[n], sample) THEN Judged(AlertRules[n], rules[n], sample)
     ELSE rules[n]]
JudgeSample(r, sample) ==
  LET rules == RulesAfter(r.engine.rules, sample)
      raised == SetToSeq({n \in DOMAIN AlertRules : rules[n].active /\ ~r.engine.rules[n].active})
  IN [engine |-> [rules |-> rules, sequence |-> r.engine.sequence + Len(raised)],
      raised |-> r.raised \o raised]
Judgings(engine, samples) ==
  LET run[k \in 0..Len(samples)] ==
        IF k = 0 THEN [engine |-> engine, raised |-> <<>>] ELSE JudgeSample(run[k - 1], samples[k])
  IN run
AlertsOf(engine, samples) == Judgings(engine, samples)[Len(samples)]

(* What a rule should be, of the samples seen since it was reset: of those that concern it *)
(* the ones older than one before them do not count, and it is active if since the last    *)
(* recovery some run of breaches without a gap lasted long enough.                         *)
OfRule(d, samples) ==
  {i \in DOMAIN samples : samples[i].field = d.field /\ samples[i].value # NaN}
InTime(d, samples) ==
  {i \in OfRule(d, samples) :
     \A j \in OfRule(d, samples) : j < i => samples[j].time <= samples[i].time}
Held(d, samples, first, i) ==
  /\ first <= i /\ samples[i].time - samples[first].time >= d.duration
  /\ \A j \in InTime(d, samples) : first <= j /\ j <= i => Breached(d, samples[j].value)
ShouldBeActive(d, samples) ==
  \E first, i \in InTime(d, samples) :
    /\ Held(d, samples, first, i)
    /\ \A j \in InTime(d, samples) : i <= j => ~Recovered(d, samples[j].value)
==============================================================================
