------------------------------ MODULE TimeSeries ------------------------------
(***************************************************************************)
(* One curve of TimeSeriesStore (time_series_store.cpp): its points in a   *)
(* RingBuffer (ring_buffer.hpp), and what a plot asks of it.               *)
(***************************************************************************)
EXTENDS Integers, Sequences, SequencesExt, FiniteSets, FiniteSetsExt

CONSTANT Capacity   \* pointsPerField

ASSUME CapacityAssumption == Capacity \in Nat \ {0}

EmptySeries ==
  [storage |-> [i \in 0..Capacity - 1 |-> [time |-> 0, value |-> 0]],
   next |-> 0, size |-> 0, ordered |-> TRUE]

(* The slots from the oldest point to the newest. *)
FirstSlot(s) == IF s.size = Capacity THEN s.next ELSE 0
Snapshot(s) == [i \in 1..s.size |-> s.storage[(FirstSlot(s) + i - 1) % Capacity]]
NewestPoint(s) == s.storage[(s.next + Capacity - 1) % Capacity]

PushPoint(s, p) ==
  [s EXCEPT !.storage[s.next] = p, !.next = (@ + 1) % Capacity,
            !.size = IF @ < Capacity THEN @ + 1 ELSE @]

AlwaysOrdered(s, p) == PushPoint(s, p)

(* append(): a curve that ever saw time go back is sorted whenever it is read. *)
Appended(s, p) ==
  PushPoint([s EXCEPT !.ordered = @ /\ (s.size = 0 \/ p.time >= NewestPoint(s).time)], p)

(* std::stable_sort by time: the point with k - 1 others before it is the k-th. *)
Earlier(points, i, j) ==
  points[i].time < points[j].time \/ (points[i].time = points[j].time /\ i < j)
Place(points, i) == Cardinality({j \in DOMAIN points : Earlier(points, j, i)})
StablySorted(points) ==
  [k \in DOMAIN points |-> points[CHOOSE i \in DOMAIN points : Place(points, i) = k - 1]]

(* copyRange(): lower_bound and upper_bound cut the sorted points. *)
Within(points, since, until) == SelectSeq(points, LAMBDA p : since <= p.time /\ p.time <= until)
CopyRange(s, since, until) ==
  Within(IF s.ordered THEN Snapshot(s) ELSE StablySorted(Snapshot(s)), since, until)

Bounds(s) ==
  IF s.ordered
    THEN <<s.storage[FirstSlot(s)].time, NewestPoint(s).time>>
    ELSE LET times == {Snapshot(s)[i].time : i \in 1..s.size} IN <<Min(times), Max(times)>>
==============================================================================
