------------------------------ MODULE MusicTime ------------------------------
(***************************************************************************)
(* The bar lines of a project whose metre changes: TimeMap of music-domain *)
(* (time.rs).  A metre event starts a new bar wherever it stands, so the   *)
(* bar before it may be cut short; bars and beats are then counted, and    *)
(* found again by their number, from the last event before them.           *)
(*                                                                         *)
(* Positions are integers, a small multiple of the quarter note, so that   *)
(* BeatTime's exact rationals are exact here too; a metre event is a       *)
(* position and the length of its bars.                                    *)
(***************************************************************************)
EXTENDS Integers, Sequences, FiniteSets, SequencesExt

CONSTANTS DefaultBar   \* the length of a bar where no event says otherwise: 4/4

DefaultBarLength == DefaultBar \in Nat \ {0}

-----------------------------------------------------------------------------
(* TimeMap::new: events sorted, the first of those at one position kept,   *)
(* an event at zero put before a first one that comes later, bar numbers   *)
(* counted from the first event.                                           *)

Sorted(events) == SortSeq(events, LAMBDA d, e : d.at < e.at)

\* In a map sorted stably the first of several events at one position.
Kept(events) ==
  LET first == SelectSeq([i \in DOMAIN events |-> <<i, events[i]>>],
                         LAMBDA p : \A j \in 1..(p[1] - 1) : events[j].at # p[2].at)
  IN Sorted([i \in DOMAIN first |-> first[i][2]])

Anchored(events) ==
  IF events = <<>> THEN <<[at |-> 0, bar |-> DefaultBar]>>
  ELSE IF events[1].at > 0 THEN <<[at |-> 0, bar |-> events[1].bar]>> \o events
  ELSE events

\* Mutant of BarsIn: the short bar before an event is not counted.
BarsIn_WholeOnly(span, bar) == span \div bar
BarsIn(span, bar) == span \div bar + (IF span % bar = 0 THEN 0 ELSE 1)

TimeMap(events) ==
  LET es == Anchored(Kept(events))
      measure[i \in DOMAIN es] ==
        IF i = 1 THEN 0
        ELSE measure[i - 1] + BarsIn(es[i].at - es[i - 1].at, es[i - 1].bar)
  IN [i \in DOMAIN es |-> [at |-> es[i].at, bar |-> es[i].bar, measure |-> measure[i]]]

\* What the searches below count on: the events follow one another, and each is
\* numbered on from the one before it, whose last bar it may cut short.
Follows(map, i) ==
  /\ map[i].at < map[i + 1].at
  /\ map[i + 1].measure
       = map[i].measure + BarsIn(map[i + 1].at - map[i].at, map[i].bar)

IsMap(map) ==
  /\ map \in Seq([at : Int, bar : Nat \ {0}, measure : Int])
  /\ Len(map) > 0
  /\ \A i \in 1..(Len(map) - 1) : Follows(map, i)

-----------------------------------------------------------------------------
(* The last event that a test of the map's order accepts, or the first.    *)

LastWhere(map, P(_)) ==
  LET stop == {i \in DOMAIN map : ~P(map[i])}
      upTo == IF stop = {} THEN Len(map) ELSE (CHOOSE i \in stop : \A j \in stop : i <= j) - 1
  IN map[IF upTo = 0 THEN 1 ELSE upTo]

MeterAt(map, q) == LastWhere(map, LAMBDA m : m.at <= q)

BarOf(map, q) ==
  LET m == MeterAt(map, q) IN m.measure + (q - m.at) \div m.bar

\* Mutant of BarStart: the event is looked up one bar too late.
BarStart_Late(map, bar) ==
  LET m == LastWhere(map, LAMBDA e : e.measure < bar)
  IN m.at + m.bar * (bar - m.measure)

BarStart(map, bar) ==
  LET m == LastWhere(map, LAMBDA e : e.measure <= bar)
  IN m.at + m.bar * (bar - m.measure)

PositionInBar(map, q) == q - BarStart(map, BarOf(map, q))

\* bar_grid: the bar lines of start <= p < end.
BarGrid(map, start, end) ==
  IF end <= start THEN {}
  ELSE {BarStart(map, b) : b \in BarOf(map, start)..BarOf(map, end)} \cap start..(end - 1)

\* Mutant of BeatGrid: the grid runs on over the bar lines.
BeatGrid_Drifts(map, start, end, beats) ==
  IF end <= start \/ beats <= 0 THEN {}
  ELSE {BarStart(map, BarOf(map, start)) + k * beats : k \in 0..(end - start)}
       \cap start..(end - 1)

\* beat_grid: beats apart, counted anew from every bar line.
BeatGrid(map, start, end, beats) ==
  IF end <= start \/ beats <= 0 THEN {}
  ELSE UNION {LET from == BarStart(map, b)
                  upTo == BarStart(map, b + 1)
              IN {from + k * beats : k \in 0..((upTo - from) \div beats)}
                 \cap from..(upTo - 1)
                : b \in BarOf(map, start)..BarOf(map, end)}
       \cap start..(end - 1)
=============================================================================
