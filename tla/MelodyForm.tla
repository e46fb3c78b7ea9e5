------------------------------ MODULE MelodyForm ------------------------------
(***************************************************************************)
(* The form of a melody: its phrases, subphrases, cadences and motives     *)
(* (phrase.rs), how much each note weighs (salience.rs), and the slots in  *)
(* which a chord may stand under it (grid.rs).                             *)
(*                                                                         *)
(* A melody is a nonempty sequence of notes in order; a note has an id, an *)
(* onset, a length, a midi number and a velocity.  A segment is a pair of  *)
(* the indices of its first and last note.  The beat is the quarter note:  *)
(* compound metres are left out.  Strengths, weights and scores are in     *)
(* millionths and rounded down, where the code has floats; the profile's   *)
(* limits of a slot are given in order.                                    *)
(***************************************************************************)
EXTENDS MusicTime

CONSTANTS Beat    \* the units of a quarter note, a multiple of 4

BeatLength == Beat \in Nat \ {0}

LOCAL Abs(n) == IF n < 0 THEN -n ELSE n
LOCAL Sign(n) == IF n < 0 THEN -1 ELSE IF n > 0 THEN 1 ELSE 0
LOCAL Least(a, b) == IF a <= b THEN a ELSE b
LOCAL Within(x, low, high) == IF x < low THEN low ELSE IF x > high THEN high ELSE x
\* A sequence as it is, with its entries worked out once.
ToldOut(seq) == seq \o <<>>

LOCAL Ascending(S) ==
  LET low == Min(S) IN SelectSeq([i \in 1..(Max(S) - low + 1) |-> low + i - 1], LAMBDA x : x \in S)

LOCAL End(n) == n.onset + n.length
Ids(notes) == {notes[i].id : i \in DOMAIN notes}
MedianLength(notes) == SortSeq([i \in DOMAIN notes |-> notes[i].length], <)[(Len(notes) \div 2) + 1]

-----------------------------------------------------------------------------
(* Phrases.                                                                *)

PhraseThreshold == 550000
SubphraseThreshold == 280000
MaxPhraseBars == 4
MinPhraseBars == 1

\* How strongly the line breathes after note i: by a rest, a long note, a bar
\* line reached, a turn after a leap.
BoundaryStrength(notes, i, map, bar, median) ==
  LET here == notes[i]
      next == notes[i + 1]
      gap == next.onset - End(here)
      index == BarOf(map, next.onset)
      a == IF i > 1 THEN here.midi - notes[i - 1].midi ELSE 0
      b == next.midi - here.midi
  IN (IF gap <= 0 THEN 0 ELSE (600000 * Least(gap, Beat)) \div Beat)
     + Within((100000 * (here.length - median)) \div median, 0, 200000)
     + (IF next.onset % bar # 0 THEN 0
        ELSE IF index % 4 = 0 THEN 150000 ELSE IF index % 2 = 0 THEN 112500 ELSE 75000)
     + (IF a * b < 0 /\ Abs(b) >= 5 THEN 50000 ELSE 0)

\* split and split_range: the segments of lo..hi, cut after the given indices.
SplitAt(lo, hi, cuts) ==
  LET ends == Ascending({c \in cuts : c >= lo /\ c < hi} \cup {hi})
  IN ToldOut([k \in DOMAIN ends |-> <<IF k = 1 THEN lo ELSE ends[k - 1] + 1, ends[k]>>])

SpanLength(notes, s) == End(notes[s[2]]) - notes[s[1]].onset

\* The cut of a segment that is too long: strong, and near its middle.
StrongestCut(notes, s, strength) ==
  LET len == SpanLength(notes, s)
      score(i) == LET here == End(notes[i]) - notes[s[1]].onset
                  IN strength[i] + (350000 * (len - Abs(2 * here - len))) \div len
  IN CHOOSE i \in s[1]..(s[2] - 1) : \A j \in s[1]..(s[2] - 1) :
       score(i) > score(j) \/ (score(i) = score(j) /\ i <= j)

\* Cut until every piece is short enough or one note.
Shortened(notes, segments, strength, bar) ==
  LET pieces[lo \in DOMAIN notes, hi \in DOMAIN notes] ==
        IF hi <= lo \/ SpanLength(notes, <<lo, hi>>) <= MaxPhraseBars * bar THEN <<<<lo, hi>>>>
        ELSE LET cut == StrongestCut(notes, <<lo, hi>>, strength)
             IN pieces[lo, cut] \o pieces[cut + 1, hi]
  IN FlattenSeq([k \in DOMAIN segments |-> pieces[segments[k][1], segments[k][2]]])

\* Mutant of Gathered: a runt joins the phrase before it, be it the pickup.
Gathered_Upbeat(notes, segments, bar, pickup) ==
  FoldLeft(LAMBDA done, s :
             IF done # <<>> /\ SpanLength(notes, s) < MinPhraseBars * bar
             THEN [done EXCEPT ![Len(done)] = <<@[1], s[2]>>]
             ELSE Append(done, s),
           <<>>, segments)

\* What is shorter than a bar joins the phrase before it, unless that is the
\* pickup.
Gathered(notes, segments, bar, pickup) ==
  FoldLeft(LAMBDA done, s :
             IF /\ done # <<>> /\ SpanLength(notes, s) < MinPhraseBars * bar
                /\ ~(pickup /\ Len(done) = 1)
             THEN [done EXCEPT ![Len(done)] = <<@[1], s[2]>>]
             ELSE Append(done, s),
           <<>>, segments)

NextBarLine(map, q) ==
  IF PositionInBar(map, q) = 0 THEN q ELSE BarStart(map, BarOf(map, q) + 1)

\* The number of notes before the first bar line, if they lead up to it.
PickupLength(notes, map, bar) ==
  LET downbeat == NextBarLine(map, notes[1].onset)
      before == Cardinality({i \in DOMAIN notes : notes[i].onset < downbeat})
  IN IF 2 * (downbeat - notes[1].onset) <= bar /\ before < Len(notes) THEN before ELSE 0

Confidence(strength, hi, pickup) ==
  IF pickup THEN 700000
  ELSE IF hi \in DOMAIN strength THEN 500000 + Least(strength[hi], 1000000) \div 2 ELSE 900000

\* The phrases of the segments, and the parts of them that are set off.
Phrased(notes, segments, strength, pickup) ==
  LET phrase(k) == [from |-> segments[k][1], to |-> segments[k][2], pickup |-> pickup /\ k = 1,
                    confidence |-> Confidence(strength, segments[k][2], pickup /\ k = 1)]
      inside(k) == {i \in segments[k][1]..(segments[k][2] - 1) : strength[i] >= SubphraseThreshold}
  IN [phrases |-> ToldOut([k \in DOMAIN segments |-> phrase(k)]),
      subphrases |-> FlattenSeq([k \in DOMAIN segments |->
                       IF inside(k) = {} THEN <<>>
                       ELSE SplitAt(segments[k][1], segments[k][2], inside(k))]),
      gaps |-> {<<End(notes[i]), notes[i + 1].onset>> : i \in
                  {i \in DOMAIN strength :
                     LET gap == notes[i + 1].onset - End(notes[i]) IN gap > 0 /\ 2 * gap >= Beat}}]

\* analyze_phrases, but for the motives.
Phrases(notes, map) ==
  LET bar == MeterAt(map, notes[1].onset).bar
      median == MedianLength(notes)
      Cut(strength, pickup) ==
        Phrased(notes,
                Gathered(notes,
                  Shortened(notes,
                    SplitAt(1, Len(notes),
                      {i \in DOMAIN strength : i > pickup /\ strength[i] >= PhraseThreshold}
                      \cup {pickup}),
                    strength, bar),
                  bar, pickup > 0),
                strength, pickup > 0)
  IN Cut(ToldOut([i \in 1..(Len(notes) - 1) |-> BoundaryStrength(notes, i, map, bar, median)]),
         PickupLength(notes, map, bar))

\* metric_weight, in hundredths.
MetricWeight(map, q) ==
  LET At(off, bar) ==
        IF off = 0 THEN 100
        ELSE IF off % Beat = 0
        THEN IF (bar \div Beat) % 2 = 0 /\ 2 * off = bar THEN 80 ELSE 60
        ELSE IF (2 * off) % Beat = 0 THEN 40
        ELSE IF (3 * off) % Beat = 0 THEN 30 ELSE IF (4 * off) % Beat = 0 THEN 25 ELSE 15
  IN At(PositionInBar(map, q) % MeterAt(map, q).bar, MeterAt(map, q).bar)

\* Mutant of Cadence: a leap is a leading tone too.
Cadence_AnyRise(notes, from, to, map, tonic, leading) ==
  IF (notes[to].midi - tonic) % 12 = 0 THEN "perfect_authentic" ELSE "none"

\* classify_cadence: how the last note of a phrase is reached.
Cadence(notes, from, to, map, tonic, leading) ==
  LET degree == (notes[to].midi - tonic) % 12
      approach == IF to > from THEN {notes[to].midi - notes[to - 1].midi} ELSE {}
  IN CASE degree = 0 /\ approach = {1} /\ leading
            /\ MetricWeight(map, notes[to].onset) >= 75 -> "perfect_authentic"
       [] degree = 0 /\ approach = {-1} -> "phrygian"
       [] degree = 0 /\ approach # {-1} /\ ~leading -> "modal"
       [] degree = 0 /\ approach # {-1} /\ leading
            /\ ~(approach = {1} /\ MetricWeight(map, notes[to].onset) >= 75) -> "imperfect_authentic"
       [] degree = 7 -> "half"
       [] degree \in {3, 4} -> "imperfect_authentic"
       [] degree \in {8, 9} /\ approach \notin {{}, {0}} -> "deceptive"
       [] degree = 5 -> "plagal"
       [] OTHER -> "none"

-----------------------------------------------------------------------------
(* Motives: runs of 3 to 6 notes that come back, the longest first.        *)

MotiveMinLength == 3
MotiveMaxLength == 6

Profile(notes, at, len) == [k \in 1..(len - 1) |-> notes[at + k].midi - notes[at + k - 1].midi]
Rhythm(notes, at, len) == [k \in 1..len |-> notes[at + k - 1].length]

\* Mutant of Transform: a varied restatement may leap where the idea stepped.
Transform_Loose(notes, at, other, len) ==
  LET p == Profile(notes, at, len)
      q == Profile(notes, other, len)
  IN IF p = q THEN "exact"
     ELSE IF \A k \in DOMAIN p : Sign(p[k]) = Sign(q[k]) THEN "varied" ELSE "none"

\* transform_of: how the run at other restates the one at at.
Transform(notes, at, other, len) ==
  LET p == Profile(notes, at, len)
      q == Profile(notes, other, len)
      r == Rhythm(notes, at, len)
      s == Rhythm(notes, other, len)
  IN IF p = q
     THEN IF r = s THEN "exact"
          ELSE IF \A k \in DOMAIN r : s[k] = 2 * r[k] THEN "augmented"
          ELSE IF \A k \in DOMAIN r : r[k] = 2 * s[k] THEN "diminished" ELSE "varied"
     ELSE IF q = [k \in DOMAIN p |-> -p[k]] THEN "inverted"
     ELSE IF q = [k \in DOMAIN p |-> -p[len - k]] THEN "retrograde"
     ELSE IF r = s /\ \A k \in DOMAIN p : Sign(p[k]) = Sign(q[k]) /\ Abs(p[k] - q[k]) <= 2
     THEN "varied" ELSE "none"

\* Mutant of Restatements: each next run is looked for one note on.
Restatements_Close(notes, used, at, len) ==
  {j \in (at + 1)..(Len(notes) - len + 1) :
     (j..(j + len - 1)) \cap used = {} /\ Transform(notes, at, j, len) # "none"}

\* Where the run at at comes back, each time after the end of the last.
Restatements(notes, used, at, len) ==
  LET from[j \in (at + len)..(Len(notes) + len)] ==
        IF j + len - 1 > Len(notes) THEN {}
        ELSE IF (j..(j + len - 1)) \cap used = {} /\ Transform(notes, at, j, len) # "none"
        THEN {j} \cup from[j + len]
        ELSE from[j + 1]
  IN from[at + len]

\* Mutant of Sequential: two are enough, however they follow.
Sequential_Any(steps) == steps # <<>>
Sequential(steps) ==
  Len(steps) >= 2 /\ \A i \in DOMAIN steps : steps[i] # 0 /\ steps[i] = steps[1]

\* classify_sequences: exact restatements at one interval from each other.
Occurrences(notes, at, places, len) ==
  LET starts == <<at>> \o Ascending(places)
      raw(i) == IF i = 1 THEN "exact" ELSE Transform(notes, at, starts[i], len)
      shift(i) == notes[starts[i]].midi - notes[at].midi
      sequence == /\ \A i \in DOMAIN starts : raw(i) = "exact"
                  /\ Sequential([i \in 1..(Len(starts) - 1) |-> shift(i + 1) - shift(i)])
  IN ToldOut([i \in DOMAIN starts |->
        [at |-> starts[i], shift |-> shift(i),
         transform |-> IF raw(i) # "exact" \/ shift(i) = 0 THEN raw(i)
                       ELSE IF sequence THEN "sequence" ELSE "transposed"]])

\* A run taken for a motive, if it is free and comes back.
TakeMotive(notes, acc, at, len, places) ==
  IF (at..(at + len - 1)) \cap acc.used # {} \/ places = {} THEN acc
  ELSE [used |-> acc.used \cup UNION {j..(j + len - 1) : j \in places \cup {at}},
        motives |-> Append(acc.motives,
          [length |-> len, occurrences |-> Occurrences(notes, at, places, len),
           salience |-> Least(1000000, 350000 +
             (1000000 * (Cardinality(places) + 1) * len) \div Len(notes))])]

\* detect_motives.
Motives(notes) ==
  LET runs(len) == [i \in 1..(Len(notes) - len + 1) |-> <<len, i>>]
      all == FlattenSeq([k \in 1..(MotiveMaxLength - MotiveMinLength + 1) |->
               LET len == MotiveMaxLength + 1 - k
               IN IF Len(notes) < 2 * len THEN <<>> ELSE runs(len)])
      before(m, n) ==
        LET o == Len(m.occurrences)
            p == Len(n.occurrences)
        IN \/ m.salience > n.salience
           \/ m.salience = n.salience /\ o > p
           \/ m.salience = n.salience /\ o = p /\ m.occurrences[1].at < n.occurrences[1].at
  IN IF Len(notes) < 2 * MotiveMinLength THEN <<>>
     ELSE SortSeq(FoldLeft(LAMBDA acc, run : TakeMotive(notes, acc, run[2], run[1],
                                                    Restatements(notes, acc.used, run[2], run[1])),
                           [used |-> {}, motives |-> <<>>], all).motives, before)

-----------------------------------------------------------------------------
(* Salience.                                                               *)

StructuralThreshold == 550000

\* extremes_by_phrase: the highest note of a phrase, and its lowest.
Peak(notes, p) == CHOOSE i \in p.from..p.to : \A j \in p.from..p.to :
  notes[j].midi < notes[i].midi \/ (notes[j].midi = notes[i].midi /\ notes[j].id <= notes[i].id)
Trough(notes, p) == CHOOSE i \in p.from..p.to : \A j \in p.from..p.to :
  notes[i].midi < notes[j].midi \/ (notes[j].midi = notes[i].midi /\ notes[i].id <= notes[j].id)

EdgeWeight(i, form) ==
  CASE \E k \in DOMAIN form.phrases : form.phrases[k].to = i -> 180000
    [] /\ \A k \in DOMAIN form.phrases : form.phrases[k].to # i
       /\ \E k \in DOMAIN form.phrases : form.phrases[k].from = i -> 153000
    [] /\ \A k \in DOMAIN form.phrases : i \notin {form.phrases[k].from, form.phrases[k].to}
       /\ \E k \in DOMAIN form.subphrases : i \in ToSet(form.subphrases[k]) -> 99000
    [] OTHER -> 0

\* analyze_salience: the weight of note i, the sum of its eight parts; a note
\* of the pickup keeps three fifths of it.
Salience(notes, i, form, motives, cadences, map) ==
  LET n == notes[i]
      median == MedianLength(notes)
      k == CHOOSE k \in DOMAIN form.phrases : i \in form.phrases[k].from..form.phrases[k].to
      p == form.phrases[k]
      leap == IF i = 1 THEN 0 ELSE Abs(n.midi - notes[i - 1].midi)
      mine == {m \in ToSet(motives) : \E o \in ToSet(m.occurrences) :
                 i \in o.at..(o.at + m.length - 1)}
      Capped(raw) == Least(1000000, IF p.pickup THEN (6 * raw) \div 10 ELSE raw)
  IN Capped(2000 * MetricWeight(map, n.onset)
             + Within((60000 * (2 * n.length - median)) \div median, 0, 180000)
             + EdgeWeight(i, form)
             + (IF leap > 2 THEN 7500 * Least(leap, 12) ELSE 0)
             + (IF i = Peak(notes, p) THEN 90000 ELSE IF i = Trough(notes, p) THEN 54000 ELSE 0)
             + (8 * Max({m.salience : m \in mine} \cup {0})) \div 100
             + (IF i # p.to THEN 0 ELSE IF cadences[k] # "none" THEN 130000 ELSE 91000)
             + (50000 * (n.velocity - 1)) \div 126)

-----------------------------------------------------------------------------
(* The harmonic grid.                                                      *)

SpanEnd(notes) == Max({End(n) : n \in ToSet(notes)})

\* Mutant of EvenGrid: nothing holds the notes before the first line.
EvenGrid_Late(map, start, end, step) ==
  LET anchor == BarStart(map, BarOf(map, start))
  IN {q \in start..(end - 1) : (q - anchor) % step = 0}

\* even_grid: from the bar line at or before the start; the first slot is what
\* is left of the one the start falls in.
EvenGrid(map, start, end, step) ==
  LET anchor == BarStart(map, BarOf(map, start))
  IN {q \in start..(end - 1) : q = start \/ (q - anchor) % step = 0}

\* detect_rhythm: one, two or four chords to the bar, as the structural notes
\* fall on them, the fewer the better.
DetectedStep(map, start, end, bar, min, structural) ==
  LET Scored(grid) ==
        IF structural = {} THEN -Cardinality(grid)
        ELSE 64 * Cardinality({n \in structural : n.onset \in grid})
             - Cardinality(structural) * Cardinality(grid)
      Best(score) == CHOOSE s \in DOMAIN score : \A t \in DOMAIN score :
                       score[s] > score[t] \/ (score[s] = score[t] /\ s >= t)
      steps == {s \in {bar, bar \div 2, bar \div 4} : s >= min}
  IN IF steps = {} THEN bar
     ELSE Best([s \in steps |-> Scored(EvenGrid(map, start, end, s))])

\* Mutant of MergeEmpty: the ceiling is forgotten.
MergeEmpty_Endless(bounds, end, structural, min, max) ==
  LET keep(done, i) ==
        LET b == IF i < Len(bounds) THEN bounds[i + 1] ELSE end
        IN IF \/ done = <<>>
              \/ \E n \in structural : n.onset \in bounds[i]..(b - 1)
              \/ bounds[i] - Last(done) >= 4 * min
           THEN Append(done, bounds[i]) ELSE done
  IN FoldLeft(keep, <<>>, [i \in DOMAIN bounds |-> i])

\* merge_empty: a boundary stays if something structural follows it, or the
\* slot without it would be too long.
MergeEmpty(bounds, end, structural, min, max) ==
  LET keep(done, i) ==
        LET b == IF i < Len(bounds) THEN bounds[i + 1] ELSE end
        IN IF \/ done = <<>>
              \/ \E n \in structural : n.onset \in bounds[i]..(b - 1)
              \/ b - Last(done) > max
              \/ bounds[i] - Last(done) >= 4 * min
           THEN Append(done, bounds[i]) ELSE done
  IN FoldLeft(keep, <<>>, [i \in DOMAIN bounds |-> i])

\* split_disagreements: in the middle of a slot whose structural notes differ
\* before it and from it on, if the halves are long enough.
SplitDisagreements(bounds, end, structural, min) ==
  LET next(i) == IF i < Len(bounds) THEN bounds[i + 1] ELSE end
      mid(i) == bounds[i] + (next(i) - bounds[i]) \div 2
      disagree(i) == \E m, n \in structural : /\ m.onset \in bounds[i]..(mid(i) - 1)
                                              /\ n.onset \in mid(i)..(next(i) - 1)
                                              /\ m.midi % 12 # n.midi % 12
  IN Ascending(ToSet(bounds) \cup {mid(i) : i \in
       {i \in DOMAIN bounds : next(i) - bounds[i] >= 2 * min /\ disagree(i)}})

\* The step of the even grid: in "bars" and "beats" so many of them, in "auto"
\* the slots to a bar that the profile prefers, within its limits.
Step(mode, map, start, end, bar, min, max, structural) ==
  CASE mode.kind = "bars" -> bar * mode.n
    [] mode.kind = "beats" -> Beat * mode.n
    [] mode.kind = "existing" -> DetectedStep(map, start, end, bar, min, structural)
    [] mode.kind = "auto" -> Within(bar \div mode.n, min, max)

\* materialise: the notes that begin in each slot.
Filled(notes, form, weight, structural, bounds, end) ==
  LET next(i) == IF i < Len(bounds) THEN bounds[i + 1] ELSE end
      Slot(i, inside) ==
        [start |-> bounds[i], end |-> next(i), notes |-> inside,
         structural |-> {j \in inside : notes[j] \in structural},
         cadential |-> \E p \in ToSet(form.phrases) : p.to \in inside,
         weight |-> Max({weight[j] : j \in inside} \cup {0})]
  IN [i \in DOMAIN bounds |->
        Slot(i, {j \in DOMAIN notes : notes[j].onset \in bounds[i]..(next(i) - 1)})]

\* build_grid.
Slots(notes, map, form, weight, mode, min, max) ==
  LET start == notes[1].onset
      end == SpanEnd(notes)
      structural == {notes[i] : i \in {i \in DOMAIN notes : weight[i] >= StructuralThreshold}}
      forced == {notes[p.from].onset : p \in {p \in ToSet(form.phrases) : ~p.pickup}}
      even == EvenGrid(map, start, end,
                       Step(mode, map, start, end, MeterAt(map, start).bar, min, max, structural))
      Final(bounds) == IF mode.kind = "auto"
                       THEN SplitDisagreements(MergeEmpty(bounds, end, structural, min, max),
                                               end, structural, min)
                       ELSE bounds
  IN Filled(notes, form, weight, structural,
            Final(Ascending(even \cup (forced \cap (start + 1)..(end - 1)))), end)
=============================================================================
