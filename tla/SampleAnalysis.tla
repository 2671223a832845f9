--------------------------- MODULE SampleAnalysis ---------------------------
(***************************************************************************)
(* What SerialSession (serial_session.cpp) makes of live samples: curves,  *)
(* threshold alerts, derived fields, and what of them it records.          *)
(*                                                                         *)
(* Two threads produce samples: the pipeline's worker, without any lock of *)
(* the session, and the agent's I/O thread, under routingMutex_.  Curves,  *)
(* alerts and derived fields each have a lock of their own, so the threads *)
(* interleave between the three.  The GUI resets them, one after another,  *)
(* when a configuration changes and, behind the barrier of startSession(), *)
(* when a recording begins.  TimeSeries, ThresholdAlerts and DerivedFields *)
(* model the three.                                                        *)
(***************************************************************************)
EXTENDS TimeSeries, ThresholdAlerts, DerivedFields

CONSTANTS
  FieldOf,       \* the field of each thread's samples: [{"worker", "agent"} -> Fields]
  Configurations,\* the lists of derived fields a user applies
  Times,         \* of samples, in nanoseconds since the epoch
  ValuesOf,      \* the values each thread's samples take
  MaxSamples,    \* bound: samples received
  MaxCalls       \* bound: calls of the GUI other than stopSession()

VARIABLES
  series,        \* timeSeries_
  alerts,        \* alertRules_
  derived,       \* derivedFields_
  thread,        \* of each producer, where it stands and what it holds
  gui,           \* what is left of the GUI's call: steps, and the curves they clear
  holder,        \* who has routingMutex_
  recording,     \* recorder_.isRecording()
  agentDeclared, \* whether the agent is one of recordingSourceKeys_
  received, calls,                       \* bounds
  appended,      \* the points of each curve since it was cleared
  judged, fed,   \* the samples of alertRules_ and derivedFields_ since they were reset
  recorded       \* the samples of the recording in progress

Threads == {"worker", "agent"}

ASSUME ThreadsAssumption ==
  FieldOf \in [Threads -> Fields] /\ DOMAIN ValuesOf = Threads /\ \A t \in Threads : ValuesOf[t] \subseteq Int
ASSUME TimesAssumption == Times \subseteq Nat \ {0}
ASSUME ConfigurationsAssumption ==
  \A defs \in Configurations :
    /\ defs \in Seq([name : STRING, inputs : SUBSET STRING, function : {"sum", "derivative"}])
    /\ \A i \in DOMAIN defs : IsFiniteSet(defs[i].inputs)

Computed == UNION {Names(defs) : defs \in Configurations}
Curves == Fields \cup Computed
engineVars == <<series, alerts, derived, appended, judged, fed>>
sessionVars == <<recording, agentDeclared>>
analysisVars == <<engineVars, thread, gui, holder, sessionVars, received, calls, recorded>>

AtRest == [at |-> "idle", samples |-> <<>>]
Order(defs) == CHOOSE order \in Orders(defs) : TRUE
Do(step) == [step |-> step, curves |-> {}]
Clear(curves) == [step |-> "clearCurves", curves |-> curves]

\* The user has applied a list of derived fields before the first sample.
AnalysisInit ==
  /\ series = [c \in Curves |-> EmptySeries] /\ appended = [c \in Curves |-> <<>>]
  /\ alerts = FreshAlerts /\ judged = <<>>
  /\ \E defs \in Configurations : Acceptable(defs) /\ derived = FreshDerived(defs, Order(defs))
  /\ fed = <<>>
  /\ thread = [t \in Threads |-> AtRest]
  /\ gui = <<>> /\ holder = "nobody"
  /\ recording = FALSE /\ agentDeclared = FALSE /\ recorded = <<>>
  /\ received = 0 /\ calls = 0

Goto(t, at, samples) == thread' = [thread EXCEPT ![t] = [at |-> at, samples |-> samples]]

\* The end of a batch: the agent gives the lock back.
Return(t) ==
  /\ thread' = [thread EXCEPT ![t] = AtRest]
  /\ holder' = IF t = "agent" THEN "nobody" ELSE holder

-----------------------------------------------------------------------------
(* The two producers.  For the agent the callback takes the lock, which the *)
(* routing of a chunk to the pipeline does as well, before it is parsed.    *)

Receive(t, value, time) ==
  /\ thread[t] = AtRest /\ received < MaxSamples
  /\ t = "worker" => holder = "nobody"
  /\ received' = received + 1
  /\ Goto(t, IF t = "worker" THEN "append" ELSE "lock",
          <<[source |-> t, field |-> FieldOf[t], value |-> value, time |-> time]>>)
  /\ UNCHANGED <<engineVars, gui, holder, sessionVars, calls, recorded>>

LockRouting ==
  /\ thread["agent"].at = "lock" /\ holder = "nobody"
  /\ holder' = "agent" /\ Goto("agent", "append", thread["agent"].samples)
  /\ UNCHANGED <<engineVars, gui, sessionVars, received, calls, recorded>>

\* During a recording the agent counts only if it is one of the recording's sources.
Declared(t) == recording /\ (t = "agent" => agentDeclared)
Analysed(t) == t = "agent" => (~recording \/ agentDeclared)

PointOf(p) == [time |-> p.time, value |-> p.value]
AppendPoint(r, p) ==
  [series |-> [r.series EXCEPT ![p.field] = Appended(r.series[p.field], PointOf(p))],
   appended |-> [r.appended EXCEPT ![p.field] = Append(r.appended[p.field], PointOf(p))]]
Plottings(samples) ==
  LET run[k \in 0..Len(samples)] ==
        IF k = 0 THEN [series |-> series, appended |-> appended] ELSE AppendPoint(run[k - 1], samples[k])
  IN run
Curve(samples) ==
  /\ series' = Plottings(samples)[Len(samples)].series
  /\ appended' = Plottings(samples)[Len(samples)].appended

Record(t, samples) == recorded' = IF Declared(t) THEN recorded \o samples ELSE recorded

AppendSamples(t) ==
  /\ thread[t].at = "append"
  /\ Curve(thread[t].samples) /\ Record(t, thread[t].samples)
  /\ IF Analysed(t) THEN Goto(t, "judge", thread[t].samples) /\ UNCHANGED holder ELSE Return(t)
  /\ UNCHANGED <<alerts, derived, judged, fed, gui, sessionVars, received, calls>>

\* processAlerts()
Judge(t) ==
  /\ alerts' = AlertsOf(alerts, thread[t].samples).engine
  /\ judged' = judged \o thread[t].samples

JudgeSamples(t) ==
  /\ thread[t].at = "judge"
  /\ Judge(t) /\ Goto(t, "derive", thread[t].samples)
  /\ UNCHANGED <<series, derived, appended, fed, gui, holder, sessionVars, received, calls, recorded>>

\* appendDerivedSamples(): what the engine puts out, its curves and its alerts.
Derive(t) ==
  /\ thread[t].at = "derive"
  /\ LET result == Derived(derived, thread[t].samples)
     IN /\ derived' = result.engine
        /\ IF result.output = <<>> THEN Return(t)
           ELSE Goto(t, "appendDerived", result.output) /\ UNCHANGED holder
  /\ fed' = fed \o thread[t].samples
  /\ UNCHANGED <<series, alerts, appended, judged, gui, sessionVars, received, calls, recorded>>

AppendDerived(t) ==
  /\ thread[t].at = "appendDerived"
  /\ Curve(thread[t].samples) /\ Record(t, thread[t].samples)
  /\ Goto(t, "judgeDerived", thread[t].samples)
  /\ UNCHANGED <<alerts, derived, judged, fed, gui, holder, sessionVars, received, calls>>

JudgeDerived(t) ==
  /\ thread[t].at = "judgeDerived"
  /\ Judge(t) /\ Return(t)
  /\ UNCHANGED <<series, derived, appended, fed, gui, sessionVars, received, calls, recorded>>

ProducerStep(t) == AppendSamples(t) \/ JudgeSamples(t) \/ Derive(t) \/ AppendDerived(t)
                   \/ JudgeDerived(t)

-----------------------------------------------------------------------------
(* The GUI *)

Called == gui = <<>> /\ calls < MaxCalls /\ calls' = calls + 1

\* resetParserDependentState(), after a change of parsers, which a recording forbids.
ParserReset ==
  /\ Called /\ ~recording
  /\ gui' = <<Do("resetDerived"), Do("resetAlerts"), Clear(Curves)>>
  /\ UNCHANGED <<engineVars, thread, holder, sessionVars, received, recorded>>

\* setDerivedFields(): definitions that the engine refuses change nothing.
SetDerivedFields(defs) ==
  /\ Called /\ ~recording
  /\ IF Acceptable(defs)
     THEN /\ derived' = FreshDerived(defs, Order(defs)) /\ fed' = <<>>
          /\ LET names == SetToSeq(Names(derived.defs) \cup Names(defs))
             IN gui' = [i \in DOMAIN names |-> Clear({names[i]})]
     ELSE UNCHANGED <<derived, fed, gui>>
  /\ UNCHANGED <<series, alerts, appended, judged, thread, holder, sessionVars, received, recorded>>

\* setAlertRules()
SetAlertRules ==
  /\ Called /\ ~recording
  /\ alerts' = FreshAlerts /\ judged' = <<>>
  /\ UNCHANGED <<series, derived, appended, fed, thread, gui, holder, sessionVars, received, recorded>>

StartSession ==
  /\ Called /\ ~recording
  /\ gui' = <<Do("lock"), Do("flush"), Do("resetDerived"), Do("resetAlerts"), Do("start")>>
  /\ UNCHANGED <<engineVars, thread, holder, sessionVars, received, recorded>>

StopSession ==
  /\ gui = <<>> /\ recording
  /\ gui' = <<Do("lock"), Do("flush"), Do("stop")>>
  /\ UNCHANGED <<engineVars, thread, holder, sessionVars, received, calls, recorded>>

At(step) == gui # <<>> /\ Head(gui).step = step /\ gui' = Tail(gui)

Lock ==
  /\ At("lock") /\ holder = "nobody" /\ holder' = "gui"
  /\ UNCHANGED <<engineVars, thread, sessionVars, received, calls, recorded>>

AnyMoment == TRUE
Drained == thread["worker"] = AtRest
FlushPipeline ==
  /\ At("flush") /\ Drained
  /\ UNCHANGED <<engineVars, thread, holder, sessionVars, received, calls, recorded>>

\* resetValues() of the two engines
DerivedReset(e) == FreshDerived(e.defs, e.order)
ResetDerived ==
  /\ At("resetDerived")
  /\ derived' = DerivedReset(derived) /\ fed' = <<>>
  /\ UNCHANGED <<series, alerts, appended, judged, thread, holder, sessionVars, received, calls, recorded>>

TimesKept(a) == [a EXCEPT !.rules = [r \in DOMAIN a.rules |->
                                       [a.rules[r] EXCEPT !.active = FALSE, !.since = 0]]]
AlertsReset(a) == FreshAlerts
ResetAlerts ==
  /\ At("resetAlerts")
  /\ alerts' = AlertsReset(alerts) /\ judged' = <<>>
  /\ UNCHANGED <<series, derived, appended, fed, thread, holder, sessionVars, received, calls, recorded>>

ClearCurves ==
  /\ At("clearCurves")
  /\ series' = [c \in Curves |-> IF c \in Head(gui).curves THEN EmptySeries ELSE series[c]]
  /\ appended' = [c \in Curves |-> IF c \in Head(gui).curves THEN <<>> ELSE appended[c]]
  /\ UNCHANGED <<alerts, derived, judged, fed, thread, holder, sessionVars, received, calls, recorded>>

\* recorder_.start(): the agent is declared if it was open.
Start(declared) ==
  /\ At("start") /\ recording' = TRUE /\ agentDeclared' = declared /\ recorded' = <<>>
  /\ holder' = "nobody"
  /\ UNCHANGED <<engineVars, thread, received, calls>>

Stop ==
  /\ At("stop") /\ recording' = FALSE /\ agentDeclared' = FALSE /\ holder' = "nobody"
  /\ recorded' = <<>>
  /\ UNCHANGED <<engineVars, thread, received, calls>>

GuiStep ==
  \/ Lock \/ FlushPipeline \/ ResetDerived \/ ResetAlerts \/ ClearCurves \/ Stop
  \/ (\E declared \in BOOLEAN : Start(declared))

AnalysisNext ==
  \/ (\E t \in Threads, time \in Times : \E value \in ValuesOf[t] : Receive(t, value, time))
  \/ LockRouting \/ (\E t \in Threads : ProducerStep(t))
  \/ ParserReset \/ (\E defs \in Configurations : SetDerivedFields(defs)) \/ SetAlertRules
  \/ StartSession \/ StopSession \/ GuiStep

AnalysisSpec == AnalysisInit /\ [][AnalysisNext]_analysisVars

-----------------------------------------------------------------------------
(* What the analysis promises *)

\* A curve shows, for any window of time, the last Capacity points it was given, in the
\* order of their times, whatever order two threads gave them in, and says truly what times
\* it spans (RingBuffer, TimeSeriesStore::copyRange and bounds).
LastPoints(points) ==
  SubSeq(points, IF Len(points) > Capacity THEN Len(points) - Capacity + 1 ELSE 1, Len(points))
SeriesIsTail ==
  \A c \in Curves :
    LET kept == LastPoints(appended[c])
    IN /\ \A since, until \in Times :
            CopyRange(series[c], since, until) = Within(StablySorted(kept), since, until)
       /\ kept # <<>> => Bounds(series[c]) = <<Head(StablySorted(kept)).time, Last(StablySorted(kept)).time>>

\* An alert is on exactly if, of the samples since the last reset, a breach lasted long
\* enough and nothing has recovered since (ThresholdAlertEngine::consumeBatch).
AlertIsSustained ==
  \A r \in DOMAIN AlertRules : alerts.rules[r].active <=> ShouldBeActive(AlertRules[r], judged)

\* A derived field has the value its expression gives for the latest samples since the last
\* reset; an alias has a value only while one field alone claimed it
\* (DerivedFieldEngine::consumeBatch).
Feeds(v) == SelectSeq(fed, LAMBDA p : p.field = v \/ AliasOf[p.field] = v)
Latest(v) ==
  LET own == Feeds(v)
  IN IF own = <<>> \/ Cardinality({own[i].field : i \in DOMAIN own}) > 1 THEN none
     ELSE Stored(Last(own).value)
Slope(v) ==
  LET own == SelectSeq(Feeds(v), LAMBDA p : p.value # NotFinite)
      n == Len(own)
  IN IF Latest(v) = none \/ n < 2 THEN none
     ELSE IF own[n].time <= own[n - 1].time THEN none
     ELSE (own[n].value - own[n - 1].value) \div (own[n].time - own[n - 1].time)
Expected[name \in Computed] ==
  LET d == CHOOSE e \in ToSet(derived.defs) : e.name = name
      input(v) == IF v \in Names(derived.defs) THEN Expected[v] ELSE Latest(v)
      inputs == {input(v) : v \in d.inputs}
  IN IF d.function = "derivative" THEN Slope(CHOOSE v \in d.inputs : TRUE)
     ELSE IF none \in inputs THEN none
     ELSE FoldSet(LAMBDA v, total : input(v) + total, 0, d.inputs)
DerivedIsCurrent ==
  \A name \in Names(derived.defs) : derived.values[name] = Expected[name]

\* What a recording holds and what the engines worked on are the same samples: between the calls
\* of the two threads, each was recorded as often as the rules and, unless it is derived, the
\* derived fields were given it since the start (startSession's barrier and resets, and the gate
\* of the agent).  Nothing is said of the order of the samples of two threads.
Occurrences(samples, p) == Cardinality({i \in DOMAIN samples : samples[i] = p})
EnginesSeeTheRecord ==
  recording /\ (\A t \in Threads : thread[t].at \in {"idle", "lock"}) =>
    \A p \in ToSet(judged) \cup ToSet(fed) \cup ToSet(recorded) :
      /\ Occurrences(judged, p) = Occurrences(recorded, p)
      /\ Occurrences(fed, p) = IF p.source = "derived" THEN 0 ELSE Occurrences(recorded, p)
=============================================================================
