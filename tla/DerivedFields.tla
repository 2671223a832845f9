---------------------------- MODULE DerivedFields ----------------------------
(***************************************************************************)
(* DerivedFieldEngine (derived_field_engine.cpp): fields computed of the   *)
(* latest values of others.  An expression is abstracted to the variables  *)
(* it names and one of two functions: a sum, which any variable without a  *)
(* value makes invalid, and derivative(), which keeps a state, needs a     *)
(* sample to warm up and starts anew when time does not advance.           *)
(***************************************************************************)
EXTENDS Integers, Sequences, SequencesExt, FiniteSets, FiniteSetsExt

CONSTANTS Fields,    \* the qualified fields the sources send
          AliasOf    \* of each, the suffix an expression may call it by

none == -98
NotFinite == -99
noField == "none"

(* A definition is [name, inputs, function]; setDefinitions() parses, and sorts them so   *)
(* that each follows what it needs.  Its traversal is one of these orders; none, a cycle. *)
Names(defs) == {defs[i].name : i \in DOMAIN defs}
Orders(defs) ==
  {order \in SetToSeqs(DOMAIN defs) :
     \A i, j \in DOMAIN order :
       defs[order[j]].name \in defs[order[i]].inputs => j < i}

UniquelyNamed(defs) == \A i, j \in DOMAIN defs : defs[i].name = defs[j].name => i = j
Acceptable(defs) == UniquelyNamed(defs) /\ Orders(defs) # {}

FreshState == [initialized |-> FALSE, time |-> 0, input |-> 0]
Variables(defs) == Names(defs) \cup UNION {defs[i].inputs : i \in DOMAIN defs}
FreshDerived(defs, order) ==
  [defs |-> defs, order |-> order,
   values |-> [v \in Variables(defs) |-> none],
   owner |-> [a \in Variables(defs) |-> noField], ambiguous |-> {},
   states |-> [i \in DOMAIN defs |-> FreshState], sequence |-> 0]

(* requiredInputs and, of them, suffixAliases *)
Required(e) == Variables(e.defs) \ Names(e.defs)
UsedAliases(e) == Required(e) \ Fields

Stored(value) == IF value = NotFinite THEN none ELSE value

(* One sample: under its own name, and under its alias unless two fields claim that. *)
OwnName(r, sample) ==
  IF sample.field \in Required(r.engine)
    THEN [engine |-> [r.engine EXCEPT !.values[sample.field] = Stored(sample.value)],
          changed |-> r.changed \cup {sample.field}]
    ELSE r

Ambiguous(e, alias, field) ==
  alias \in e.ambiguous \/ e.owner[alias] \notin {noField, field}

LastOwnerWins(r, sample) ==
  LET r1 == OwnName(r, sample)
      alias == AliasOf[sample.field]
      e == r1.engine
  IN IF alias \notin UsedAliases(e) THEN r1
     ELSE [engine |-> IF e.owner[alias] \notin {noField, sample.field}
                        THEN [e EXCEPT !.values[alias] = none, !.owner[alias] = sample.field]
                        ELSE [e EXCEPT !.values[alias] = Stored(sample.value),
                                       !.owner[alias] = sample.field],
           changed |-> r1.changed \cup {alias}]

TakeSample(r, sample) ==
  LET r1 == OwnName(r, sample)
      alias == AliasOf[sample.field]
      e == r1.engine
  IN IF alias \notin UsedAliases(e) THEN r1
     ELSE [engine |-> IF Ambiguous(e, alias, sample.field)
                        THEN [e EXCEPT !.values[alias] = none, !.ambiguous = @ \cup {alias}]
                        ELSE [e EXCEPT !.values[alias] = Stored(sample.value),
                                       !.owner[alias] = sample.field],
           changed |-> r1.changed \cup {alias}]

(* evaluate(): the result and, unless it is invalid, the state of the function after it. *)
Sum(values, inputs) ==
  LET total[rest \in SUBSET inputs] ==
        IF rest = {} THEN 0
        ELSE LET v == CHOOSE v \in rest : TRUE IN values[v] + total[rest \ {v}]
  IN total[inputs]
Evaluated(d, values, state, time) ==
  IF \E v \in d.inputs : values[v] = none THEN [status |-> "invalid", value |-> none, state |-> state]
  ELSE IF d.function = "sum" THEN [status |-> "value", value |-> Sum(values, d.inputs), state |-> state]
  ELSE LET input == Sum(values, d.inputs)
           next == [initialized |-> TRUE, time |-> time, input |-> input]
       IN IF ~state.initialized \/ time <= state.time
            THEN [status |-> "warmup", value |-> none, state |-> next]
            ELSE [status |-> "value", state |-> next,
                  value |-> (input - state.input) \div (time - state.time)]

(* One definition of the batch, if something it needs has changed. *)
EvaluateNext(r, i, time) ==
  LET d == r.engine.defs[i]
      v == Evaluated(d, r.engine.values, r.engine.states[i], time)
  IN IF d.inputs # {} /\ d.inputs \cap r.changed = {} THEN r
     ELSE [engine |-> [r.engine EXCEPT !.values[d.name] = v.value, !.states[i] = v.state,
                                       !.sequence = IF v.status = "value" THEN @ + 1 ELSE @],
           changed |-> r.changed \cup {d.name},
           output |-> IF v.status = "value"
                        THEN Append(r.output, [source |-> "derived", field |-> d.name,
                                             time |-> time, value |-> v.value])
                        ELSE r.output]

(* consumeBatch(): the samples are taken, then the definitions evaluated in their order;   *)
(* the outputs carry the time of the last sample.                                          *)
Takings(engine, samples) ==
  LET run[k \in 0..Len(samples)] ==
        IF k = 0 THEN [engine |-> engine, changed |-> {}] ELSE TakeSample(run[k - 1], samples[k])
  IN run
Evaluations(taken, order, time) ==
  LET run[k \in 0..Len(order)] ==
        IF k = 0 THEN [engine |-> taken.engine, changed |-> taken.changed, output |-> <<>>]
        ELSE EvaluateNext(run[k - 1], order[k], time)
  IN run
Derived(engine, samples) ==
  IF engine.defs = <<>> \/ samples = <<>> THEN [engine |-> engine, changed |-> {}, output |-> <<>>]
  ELSE Evaluations(Takings(engine, samples)[Len(samples)], engine.order,
                   Last(samples).time)[Len(engine.order)]
==============================================================================
