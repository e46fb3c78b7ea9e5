----------------------------- MODULE Accompaniment -----------------------------
(***************************************************************************)
(* A catalogued pattern turned into notes (patterns.rs): where it sounds,  *)
(* moved off what a more important part plays and thinned to a density;    *)
(* how long each note is; which tones of the chord it takes, and where in  *)
(* its window each of them lies.                                           *)
(*                                                                         *)
(* A quarter note is Beat units, a multiple of 96 so that the shares of a  *)
(* grid are exact.  A tone of a chord has a degree and the pitch class and *)
(* accidental of its spelling.  Densities, energies and the scale of       *)
(* velocities are in hundredths, hundredths and tenths, the scale of       *)
(* lengths in tenths; a window is given with its ends in order.  Labels,   *)
(* channels, confidences and the limit of 4096 bars are left out.          *)
(***************************************************************************)
EXTENDS MelodyForm

MinLength == Beat \div 32

Within(x, low, high) == IF x < low THEN low ELSE IF x > high THEN high ELSE x
Distance(a, b) == IF a < b THEN b - a ELSE a - b
\* The members of a set of numbers, in order.
Up(S) ==
  [i \in 1..Cardinality(S) |-> CHOOSE q \in S : Cardinality({r \in S : r < q}) = i - 1] \o <<>>

-----------------------------------------------------------------------------
(* What a pattern says of itself.                                          *)

\* Figure::index, of the onset i and so many tones, both counted from zero.
FigureIndex(figure, i, tones) ==
  CASE figure \in {"ascending", "walking"} -> i % tones
    [] figure = "alternating" ->
         CASE i % 4 = 0 -> 0
           [] i % 4 = 2 -> (IF tones >= 3 THEN tones - 2 ELSE 0)
           [] OTHER -> tones - 1
    [] figure = "contour" ->
         LET period == Max({2 * tones - 2, 1})
         IN IF i % period < tones THEN i % period ELSE period - (i % period)
    [] OTHER -> 0

\* figure_for: what it declares, or what its other fields come to.
FigureOf(pattern) ==
  IF pattern.figure # "" THEN pattern.figure
  ELSE CASE pattern.responsibility = "root_only" -> "root"
         [] pattern.responsibility = "root_and_line" -> "walking"
         [] pattern.responsibility = "none" -> "contour"
         [] OTHER -> IF pattern.polyphony > 1 THEN "block"
                     ELSE IF pattern.priority = "background" THEN "alternating" ELSE "ascending"

IsSustained(pattern) == pattern.activity = "sustained" \/ pattern.lengths = "full_slot"

\* articulation_scale, in hundredths: the shortest of those it tends to.
ArticulationScale(pattern) ==
  Min({CASE a = "staccato" -> 50 [] a = "mute" -> 35 [] a = "accent" -> 90 [] OTHER -> 100
         : a \in pattern.articulations} \cup {100})

\* density_length_scale, in parts of 2000.
DensityLengthScale(pattern, density) ==
  IF IsSustained(pattern) THEN 2000 ELSE 1100 + 9 * Within(density, 0, 100)

RegisterAnchor(pattern, window) ==
  LET share == CASE pattern.register = "low" -> <<1, 6>>
                 [] pattern.register = "low_mid" -> <<1, 3>>
                 [] pattern.register = "mid_high" -> <<2, 3>>
                 [] pattern.register = "high" -> <<5, 6>>
                 [] OTHER -> <<1, 2>>
  IN window[1] + ((window[2] - window[1]) * share[1]) \div share[2]

\* What two ranges share; the instrument's own where they do not meet.
SharedWindow(window, inst) ==
  LET low == Max({window[1], inst.low})
      high == Min({window[2], inst.high})
  IN IF low >= high THEN <<inst.low, inst.high>> ELSE <<low, high>>

BaseWindow(pattern, inst) == SharedWindow(<<pattern.low, pattern.high>>, inst)

\* Mutant of NormalWindow: it grows past the top of the instrument.
NormalWindow_Over(window, inst) ==
  LET kept == SharedWindow(window, inst)
  IN IF kept[2] - kept[1] >= 12 THEN kept ELSE <<kept[1], kept[1] + 12>>

\* normalize_window: what the instrument has of it, an octave where it has one.
\* Its range is within 0..127.
NormalWindow(window, inst) ==
  LET kept == SharedWindow(window, inst)
      top == IF kept[2] - kept[1] < 12 THEN Min({kept[1] + 12, inst.high}) ELSE kept[2]
  IN <<IF top - kept[1] < 12 THEN Max({top - 12, inst.low}) ELSE kept[1], top>>

-----------------------------------------------------------------------------
(* Where it sounds: plan_onsets.                                           *)

IsActive(opts, q) == opts.active = {} \/ \E a \in opts.active : a[1] <= q /\ q < a[2]

\* The pattern's own onsets, from every bar line, and the changes of a pattern
\* that fills its slots.
Authored(pattern, chords, map, opts) ==
  LET from == opts.span[1]
      to == opts.span[2]
      bars == BarOf(map, from)..BarOf(map, to - 1)
      grid == UNION {LET line == BarStart(map, b)
                     IN {line + o : o \in {p \in pattern.onsets : p < MeterAt(map, line).bar}}
                       : b \in bars}
      changes == IF pattern.sustain = "full_slot" THEN {chords[k].onset : k \in DOMAIN chords} ELSE {}
  IN (grid \cup changes) \cap from..(to - 1)

Divisors == <<2, 4, 8, 3>>   \* DISPLACEMENT_DIVISORS

Clear(onsets, opts) == 2 * Cardinality(onsets \cap opts.avoid) <= Cardinality(onsets)

\* Mutant of Displaced: what is moved out of the span stays.
Displaced_Spills(onsets, pattern, opts) ==
  IF opts.avoid = {} \/ onsets = {} \/ IsSustained(pattern) \/ Clear(onsets, opts) THEN onsets
  ELSE LET moved(k) == {q + pattern.grid \div Divisors[k] : q \in onsets}
           good == {k \in DOMAIN Divisors : pattern.grid > 0 /\ Clear(moved(k), opts)}
       IN IF good = {} THEN onsets ELSE moved(Min(good))

\* Mutant of Displaced: the first step is taken, whatever it meets.
Displaced_Blindly(onsets, pattern, opts) ==
  IF opts.avoid = {} \/ onsets = {} \/ IsSustained(pattern) \/ Clear(onsets, opts) THEN onsets
  ELSE {q + pattern.grid \div 2 : q \in onsets} \cap opts.span[1]..(opts.span[2] - 1)

\* displace_from_contested: by the first of the steps that takes half of what is
\* left of it off the other part's attacks.
Displaced(onsets, pattern, opts) ==
  IF opts.avoid = {} \/ onsets = {} \/ IsSustained(pattern) \/ Clear(onsets, opts) THEN onsets
  ELSE LET moved(k) == {q + pattern.grid \div Divisors[k] : q \in onsets}
                         \cap opts.span[1]..(opts.span[2] - 1)
           good == {k \in DOMAIN Divisors : /\ pattern.grid > 0 /\ moved(k) # {}
                                            /\ Clear(moved(k), opts)}
       IN IF good = {} THEN onsets ELSE moved(Min(good))

\* keep_ratio, in millionths.
KeepRatio(pattern, density) ==
  Within(120000 + 88 * (35 * pattern.density + 65 * Within(density, 0, 100)), 50000, 1000000)

\* Mutant of Thinned: the floor is forgotten.
Thinned_Bare(onsets, pattern, map, opts, changes, floor) ==
  LET order == Up({q \in onsets : IsActive(opts, q)})
      want == Max({(Len(order) * KeepRatio(pattern, opts.density) + 999999) \div 1000000, 1})
  IN {order[i] : i \in 1..Min({want, Len(order)})}

\* Mutant of Thinned: the survivors are spread evenly.
Thinned_Evenly(onsets, pattern, map, opts, changes, floor) ==
  LET order == Up({q \in onsets : IsActive(opts, q)})
      want == Max({(Len(order) * KeepRatio(pattern, opts.density) + 999999) \div 1000000, floor, 1})
  IN IF want >= Len(order) THEN {order[i] : i \in DOMAIN order}
     ELSE {order[(i * Len(order)) \div want + 1] : i \in 0..(want - 1)}

\* How much an onset matters: by the metre, and if it is a change, contested or
\* the first.
Weight(q, first, map, opts, changes) ==
  MetricWeight(map, q) + (IF q \in changes THEN 200 ELSE 0)
    - (IF q \in opts.avoid THEN 75 ELSE 0) + (IF q = first THEN 50 ELSE 0)

\* The n that weigh most, the earlier of two that weigh alike.
Heaviest(weight, n) ==
  {q \in DOMAIN weight :
     Cardinality({r \in DOMAIN weight : weight[r] > weight[q] \/ (weight[r] = weight[q] /\ r < q)}) < n}

\* thin: so many of those that matter most.
Thinned(onsets, pattern, map, opts, changes, floor) ==
  LET active == {q \in onsets : IsActive(opts, q)}
      want == Max({(Cardinality(active) * KeepRatio(pattern, opts.density) + 999999) \div 1000000,
                   1, floor})
  IN Heaviest([q \in active |-> Weight(q, Min(active), map, opts, changes)], want)

\* plan_onsets, of a pattern that has any.
PlanOnsets(pattern, chords, map, opts) ==
  LET changes == {chords[k].onset : k \in DOMAIN chords} \cap opts.span[1]..(opts.span[2] - 1)
      \* A change that two chords share counts twice.
      count == Cardinality({k \in DOMAIN chords : chords[k].onset \in changes})
  IN Thinned(Displaced(Authored(pattern, chords, map, opts), pattern, opts), pattern, map, opts,
             changes, IF pattern.responsibility = "none" THEN 1 ELSE Max({count, 1}))

-----------------------------------------------------------------------------
(* How long a note is.                                                     *)

\* Mutant of NoteLength: the next onset does not end it.
NoteLength_Through(pattern, onset, next, slotEnd, spanEnd) ==
  LET grid == IF pattern.grid > 0 THEN pattern.grid ELSE Beat
      ends == CASE pattern.sustain \in {"full_slot", "to_next"} -> Min({slotEnd, spanEnd})
                [] pattern.sustain = "mixed" -> Min({onset + grid, slotEnd, spanEnd})
                [] OTHER -> Min({onset + grid, spanEnd})
  IN IF ends <= onset THEN MinLength ELSE ends - onset

\* Mutant of NoteLength: the end of the chord does not end it.
NoteLength_Over(pattern, onset, next, slotEnd, spanEnd) ==
  LET grid == IF pattern.grid > 0 THEN pattern.grid ELSE Beat
      ends == CASE pattern.sustain \in {"full_slot", "to_next"} -> Min({spanEnd} \cup next)
                [] OTHER -> Min({onset + grid, spanEnd} \cup next)
  IN IF ends <= onset THEN MinLength ELSE ends - onset

\* note_length: next is the set of the next onset, empty after the last.
NoteLength(pattern, onset, next, slotEnd, spanEnd) ==
  LET grid == IF pattern.grid > 0 THEN pattern.grid ELSE Beat
      ends == CASE pattern.sustain \in {"full_slot", "to_next"} -> Min({slotEnd, spanEnd} \cup next)
                [] pattern.sustain = "mixed" -> Min({onset + grid, slotEnd, spanEnd} \cup next)
                [] OTHER -> Min({onset + grid, spanEnd} \cup next)
  IN IF ends <= onset THEN MinLength ELSE ends - onset

\* scale_length by num / den: never longer, and never nothing.
ScaleLength(length, num, den) ==
  LET kept == Max({num, den \div 20})
      scaled == (2 * length * kept + den) \div (2 * den)
  IN IF num >= den THEN length ELSE Min({IF scaled > 0 THEN scaled ELSE MinLength, length})

-----------------------------------------------------------------------------
(* Which tones it takes, and where they lie.                               *)

ChordAt(chords, q) ==
  LET begun == {k \in DOMAIN chords : chords[k].onset <= q}
      holding == {k \in begun : q < chords[k].onset + chords[k].length}
  IN chords[IF holding # {} THEN Min(holding) ELSE IF begun # {} THEN Max(begun) ELSE 1]

ChordMaterial(chord, responsibility) ==
  LET Picked(S) == SelectSeq(chord.tones, LAMBDA t : t.degree \in S)
      OrAll(some) == IF some = <<>> THEN chord.tones ELSE some
  IN CASE responsibility = "root_only" -> SubSeq(chord.tones, 1, 1)
       [] responsibility = "guide_tones" -> OrAll(Picked(chord.guides))
       [] responsibility = "partial" -> OrAll(Picked({1, 3, 5}))
       [] OTHER -> chord.tones

\* class_pc.
ClassPc(tone) == (tone.natural + tone.accidental) % 12

LowestAtOrAbove(pc, floor) == floor + ((pc - floor) % 12)

\* Mutant of SpelledOctave: the class is brought within the octave first.
SpelledOctave_Folded(tone, midi) == (midi - ClassPc(tone)) \div 12 - 1

\* spelled_at: the octave that is written.
SpelledOctave(tone, midi) == (midi - tone.natural - tone.accidental) \div 12 - 1

MinSpacingAt(inst, midi) ==
  LET told == SelectSeq(inst.limits, LAMBDA l : midi < l.below)
  IN IF told = <<>> THEN 1 ELSE Max({told[1].least, 1})

\* Mutant of PlaceSingle: a tone the window has not is put at its edge.
PlaceSingle_AtEdge(tone, window, anchor) ==
  LET low == LowestAtOrAbove(ClassPc(tone), window[1])
  IN IF low > window[2] THEN window[2]
     ELSE LET places == {m \in low..window[2] : (m - low) % 12 = 0}
          IN CHOOSE m \in places : \A n \in places :
               Distance(m, anchor) < Distance(n, anchor)
               \/ (Distance(m, anchor) = Distance(n, anchor) /\ m <= n)

NearestOf(places, anchor) ==
  CHOOSE m \in places : \A n \in places :
    \/ Distance(m, anchor) < Distance(n, anchor)
    \/ Distance(m, anchor) = Distance(n, anchor) /\ m <= n

\* What lies above the window, an octave down if it is nearer there.
Lowered(midi, window) ==
  IF midi > window[2] /\ midi >= 12 /\ Distance(midi - 12, window[2]) < midi - window[2]
  THEN midi - 12 ELSE midi

\* By octaves into the MIDI range.
IntoMidi(m) == IF m < 0 THEN m % 12 ELSE IF m > 127 THEN 127 - ((127 - m) % 12) ELSE m

\* place_single: the place in the window nearest the anchor, or else the nearest
\* one to the window.
PlaceSingle(tone, window, anchor) ==
  LET low == LowestAtOrAbove(ClassPc(tone), window[1])
  IN IntoMidi(Lowered(NearestOf({low} \cup {m \in low..window[2] : (m - low) % 12 = 0}, anchor),
                      window))

At(tone, midi) == [degree |-> tone.degree, pc |-> ClassPc(tone), midi |-> midi,
                   spelled |-> 12 * (SpelledOctave(tone, midi) + 1) + tone.natural + tone.accidental]

\* Mutant of PlaceStack: voices may touch, however low they are.
PlaceStack_Close(material, window, inst, voices) ==
  LET step(s, tone) ==
        LET midi == LowestAtOrAbove(ClassPc(tone), s.floor)
        IN IF s.full \/ midi > window[2] THEN [s EXCEPT !.full = TRUE]
           ELSE [s EXCEPT !.out = Append(@, At(tone, midi)), !.floor = midi + 1]
  IN FoldLeft(step, [out |-> <<>>, floor |-> window[1], full |-> FALSE],
              SubSeq(material, 1, Min({voices, Len(material)}))).out

\* place_stack: upward from the bottom, each voice as far from the one below as
\* the instrument asks there; one tone, if not even that fits.
PlaceStack(material, window, inst, voices) ==
  LET step(s, tone) ==
        LET midi == LowestAtOrAbove(ClassPc(tone), s.floor)
        IN IF s.full \/ midi > window[2] THEN [s EXCEPT !.full = TRUE]
           ELSE [s EXCEPT !.out = Append(@, At(tone, midi)), !.floor = midi + MinSpacingAt(inst, midi)]
      out == FoldLeft(step, [out |-> <<>>, floor |-> window[1], full |-> FALSE],
                      SubSeq(material, 1, Min({voices, Len(material)}))).out
  IN IF out # <<>> THEN out
     ELSE <<At(material[1], PlaceSingle(material[1], window, (window[1] + window[2]) \div 2))>>

\* double_top: the bottom voice once more on top.
DoubleTop(stack, material, window, inst, voices) ==
  LET top == Last(stack).midi
      midi == LowestAtOrAbove(ClassPc(material[1]), top + MinSpacingAt(inst, top))
  IN IF Len(stack) >= voices \/ midi > window[2] THEN stack ELSE Append(stack, At(material[1], midi))

-----------------------------------------------------------------------------
(* The notes.                                                              *)

\* sample_curve: a sequence of a position and a value each, in order.
SampleCurve(curve, q, default) ==
  LET after == {k \in DOMAIN curve : curve[k][1] >= q}
  IN IF curve = <<>> THEN default
     ELSE IF q <= curve[1][1] THEN curve[1][2]
     ELSE IF q >= Last(curve)[1] THEN Last(curve)[2]
     ELSE LET a == curve[Min(after) - 1]
              b == curve[Min(after)]
          IN a[2] + ((b[2] - a[2]) * (q - a[1])) \div (b[1] - a[1])

\* velocity_for, of the onset i counted from zero.
VelocityFor(pattern, i, energy, scale, voice) ==
  LET base == IF pattern.velocities = <<>> THEN 96
              ELSE pattern.velocities[(i % Len(pattern.velocities)) + 1]
      shaped == base * (650 + 7 * Within(energy, 0, 100)) * scale * (IF voice = 1 THEN 50 ELSE 47)
  IN Within((shaped + 250000) \div 500000, 1, 127)

\* Mutant of Tied: whatever overlaps is one note.
Tied_Over(notes) ==
  LET rising == SortSeq(notes, LAMBDA m, n : m.midi < n.midi \/ (m.midi = n.midi /\ m.onset < n.onset))
  IN FoldLeft(LAMBDA out, n :
                IF out # <<>> /\ Last(out).midi = n.midi
                THEN [out EXCEPT ![Len(out)].length = n.onset + n.length - @]
                ELSE Append(out, n),
              <<>>, rising)

\* tie_common_tones: what takes up a pitch just where it was left becomes one note.
Tied(notes) ==
  LET rising == SortSeq(notes, LAMBDA m, n : m.midi < n.midi \/ (m.midi = n.midi /\ m.onset < n.onset))
  IN FoldLeft(LAMBDA out, n :
                IF /\ out # <<>> /\ Last(out).midi = n.midi
                   /\ Last(out).onset + Last(out).length = n.onset
                THEN [out EXCEPT ![Len(out)].length = @ + n.length]
                ELSE Append(out, n),
              <<>>, rising)

Precedes(m, n) == \/ m.onset < n.onset
                  \/ m.onset = n.onset /\ m.midi < n.midi
                  \/ m.onset = n.onset /\ m.midi = n.midi /\ m.voice < n.voice

Renumbered(notes, base) ==
  LET order == SortSeq(notes, Precedes)
  IN [i \in DOMAIN order |-> order[i] @@ [id |-> base + i - 1]]

\* What sounds at one onset: a stack of voices, or one tone of the figure.
Pitches(pattern, material, window, inst, opts, i, top) ==
  LET voices == Within(opts.polyphony, 1, Max({inst.polyphony, 1}))
      figure == FigureOf(pattern)
      tone == material[FigureIndex(figure, i, Len(material)) + 1]
      anchor == IF figure = "root" \/ top = {} THEN RegisterAnchor(pattern, window) ELSE Max(top)
      Doubled(stack) == IF opts.polyphony > Len(material) /\ pattern.doubles
                        THEN DoubleTop(stack, material, window, inst, opts.polyphony) ELSE stack
  IN IF voices = 1 THEN <<At(tone, PlaceSingle(tone, window, anchor))>>
     ELSE Doubled(PlaceStack(material, window, inst, voices))

\* The length of a note from one onset to the next, if there is one.
LengthAt(pattern, chord, onset, next, opts) ==
  ScaleLength(NoteLength(pattern, onset, next, chord.onset + chord.length, opts.span[2]),
              (ArticulationScale(pattern) \div 5) * opts.lengths
                * DensityLengthScale(pattern, opts.density),
              20 * 10 * 2000)

\* The pitches with what they have in common: the onset i, counted from one.
Sounded(pattern, pitches, i, onset, length, opts) ==
  LET energy == SampleCurve(opts.energy, onset, 50)
  IN [v \in DOMAIN pitches |->
        pitches[v] @@ [onset |-> onset, length |-> length, voice |-> v,
                       velocity |-> VelocityFor(pattern, i - 1, energy, opts.velocity, v)]]

\* The notes at these onsets, before they are tied: top is the pitch last reached.
StruckAt(onsets, pattern, chords, inst, opts) ==
  LET window == NormalWindow(opts.window, inst)
      next(i) == {onsets[j] : j \in {i + 1} \cap DOMAIN onsets}
      add(s, notes) == [notes |-> s.notes \o notes, top |-> {Last(notes).midi}]
      sound(i, chord, material, top) ==
        Sounded(pattern, Pitches(pattern, material, window, inst, opts, i - 1, top), i, onsets[i],
                LengthAt(pattern, chord, onsets[i], next(i), opts), opts)
      play(s, i, chord, material) ==
        IF material = <<>> THEN s ELSE add(s, sound(i, chord, material, s.top))
      strike(s, i) ==
        LET chord == ChordAt(chords, onsets[i])
        IN play(s, i, chord, ChordMaterial(chord, pattern.responsibility))
  IN FoldLeft(strike, [notes |-> <<>>, top |-> {}], [i \in DOMAIN onsets |-> i]).notes

Struck(pattern, chords, map, inst, opts) ==
  StruckAt(Up(PlanOnsets(pattern, chords, map, opts)), pattern, chords, inst, opts)

\* realize_with, of a pattern that has onsets and a span that is not empty.
Realized(pattern, chords, map, inst, opts) ==
  LET Finished(notes) == Renumbered(IF IsSustained(pattern) THEN Tied(notes) ELSE notes, opts.base)
  IN IF chords = <<>> THEN <<>> ELSE Finished(Struck(pattern, chords, map, inst, opts))

\* realize_pattern: the levers as they are when nobody moves them.
DefaultOptions(pattern, chords, inst, density) ==
  [window |-> BaseWindow(pattern, inst),
   span |-> <<chords[1].onset, Max({chords[k].onset + chords[k].length : k \in DOMAIN chords})>>,
   density |-> Within(density, 0, 100), velocity |-> 10, lengths |-> 10,
   polyphony |-> Max({Min({pattern.polyphony, inst.polyphony}), 1}), base |-> 0,
   avoid |-> {}, active |-> {}, energy |-> <<>>]
=============================================================================
