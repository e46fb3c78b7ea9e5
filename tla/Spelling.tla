------------------------------- MODULE Spelling -------------------------------
(***************************************************************************)
(* Pitches, intervals and scales as they are spelled, and how they sound   *)
(* (pitch.rs, interval.rs, scale.rs of music-domain).                      *)
(*                                                                         *)
(* A letter is 0..6 (C..B), a spelled class a letter and an accidental in  *)
(* semitones, a pitch a class in an octave.  An interval is a simple       *)
(* number, a quality and octaves; a scale has its semitones and the degree *)
(* numbers it is spelled with.  Their text forms are in Symbols; the width *)
(* of an accidental is left out, nothing here comes near it.               *)
(***************************************************************************)
EXTENDS Integers, Sequences, FiniteSets, SequencesExt

Abs(n) == IF n < 0 THEN -n ELSE n

Letters == 0..6
NaturalPc(letter) == <<0, 2, 4, 5, 7, 9, 11>>[letter + 1]

\* Letter::step: the letter so many steps on and the octaves it takes.
Step(letter, steps) == [letter |-> (letter + steps) % 7, octaves |-> (letter + steps) \div 7]

Class(letter, acc) == [letter |-> letter, acc |-> acc]
Pitch(letter, acc, octave) == [letter |-> letter, acc |-> acc, octave |-> octave]
ClassOf(p) == Class(p.letter, p.acc)
PcOf(c) == (NaturalPc(c.letter) + c.acc) % 12

Midi(p) == 12 * (p.octave + 1) + NaturalPc(p.letter) + p.acc
DiatonicStep(p) == 7 * p.octave + p.letter

\* Mutant of AtOctave: the octave is the one of the sound.
AtOctave_Sounding(c, midi) == Pitch(c.letter, c.acc, (midi \div 12) - 1)

\* at_octave_for: the octave is that of the letter, not of the sound (B#3 is C4).
AtOctave(c, midi) == Pitch(c.letter, c.acc, ((midi - NaturalPc(c.letter) - c.acc) \div 12) - 1)

-----------------------------------------------------------------------------
(* Intervals.                                                              *)

Perfect == [kind |-> "perfect", by |-> 0]
Major == [kind |-> "major", by |-> 0]
Minor == [kind |-> "minor", by |-> 0]
Augmented(n) == [kind |-> "augmented", by |-> n]
Diminished(n) == [kind |-> "diminished", by |-> n]

IsPerfectNumber(n) == n \in {1, 4, 5}

\* The semitones of the major or perfect interval of a simple number.
BaseSemitones(n) == NaturalPc(n - 1)

Interval(number, quality, octaves) ==
  [number |-> number, quality |-> quality, octaves |-> octaves]

Fits(number, quality) ==
  /\ quality.kind \notin IF IsPerfectNumber(number) THEN {"minor", "major"} ELSE {"perfect"}
  /\ quality.kind \in {"augmented", "diminished"} => quality.by > 0

\* Interval::new: of a number that may be compound; no interval if the
\* quality does not go with it.
NewInterval(number, quality) ==
  LET simple == ((number - 1) % 7) + 1
  IN IF number >= 1 /\ Fits(simple, quality)
       THEN {Interval(simple, quality, (number - 1) \div 7)} ELSE {}

CompoundNumber(i) == i.number + 7 * i.octaves
StepsOf(i) == i.number - 1 + 7 * i.octaves

Semitones(i) ==
  BaseSemitones(i.number) + 12 * i.octaves
  + CASE i.quality.kind \in {"perfect", "major"} -> 0
      [] i.quality.kind = "minor" -> -1
      [] i.quality.kind = "augmented" -> i.quality.by
      [] i.quality.kind = "diminished" ->
           -i.quality.by - (IF IsPerfectNumber(i.number) THEN 0 ELSE 1)

QualityFromDiff(number, diff) ==
  CASE diff = 0 -> IF IsPerfectNumber(number) THEN Perfect ELSE Major
    [] diff > 0 -> Augmented(diff)
    [] diff < 0 -> IF IsPerfectNumber(number) THEN Diminished(-diff)
                   ELSE IF diff = -1 THEN Minor ELSE Diminished(-diff - 1)

\* Mutant of Between: only a lower letter is a descent.
Between_Upwards(a, b) ==
  LET steps == DiatonicStep(b) - DiatonicStep(a)
      semis == Midi(b) - Midi(a)
      s == Abs(steps)
      number == (s % 7) + 1
      simple == (IF steps < 0 THEN -semis ELSE semis) - 12 * (s \div 7)
  IN [interval |-> Interval(number, QualityFromDiff(number, simple - BaseSemitones(number)), s \div 7),
      descending |-> steps < 0]

\* Interval::between: how b is spelled from a, up or down.
Between(a, b) ==
  LET steps == DiatonicStep(b) - DiatonicStep(a)
      semis == Midi(b) - Midi(a)
      descending == steps < 0 \/ (steps = 0 /\ semis < 0)
      s == Abs(steps)
      number == (s % 7) + 1
      simple == (IF descending THEN -semis ELSE semis) - 12 * (s \div 7)
  IN [interval |-> Interval(number, QualityFromDiff(number, simple - BaseSemitones(number)), s \div 7),
      descending |-> descending]

\* transpose and transpose_down: the letter by the steps of the interval, the
\* accidental whatever makes it sound right.
Transposed(p, steps, semitones) ==
  LET to == Step(p.letter, steps)
      octave == p.octave + to.octaves
  IN Pitch(to.letter, Midi(p) + semitones - Midi(Pitch(to.letter, 0, octave)), octave)

Transpose(p, i) == Transposed(p, StepsOf(i), Semitones(i))
TransposeDown(p, i) == Transposed(p, -StepsOf(i), -Semitones(i))

\* SignedInterval.
Apply(signed, p) ==
  IF signed.descending THEN TransposeDown(p, signed.interval) ELSE Transpose(p, signed.interval)
Reversed(signed) == [signed EXCEPT !.descending = ~@]

\* Mutant of Inverted: the quality stays.
Inverted_SameQuality(i) ==
  IF i.number = 1 THEN Interval(1, i.quality, 1) ELSE Interval(9 - i.number, i.quality, 0)

Inverted(i) ==
  LET quality == CASE i.quality.kind = "perfect" -> Perfect
                   [] i.quality.kind = "major" -> Minor
                   [] i.quality.kind = "minor" -> Major
                   [] i.quality.kind = "augmented" -> Diminished(i.quality.by)
                   [] i.quality.kind = "diminished" -> Augmented(i.quality.by)
  IN IF i.number = 1 THEN Interval(1, quality, 1) ELSE Interval(9 - i.number, quality, 0)

Simple(i) == [i EXCEPT !.octaves = 0]

\* The interval a number of semitones is taken for when nothing says more.
FromSemitones(n) ==
  LET usual == << <<1, Perfect>>, <<2, Minor>>, <<2, Major>>, <<3, Minor>>, <<3, Major>>,
                  <<4, Perfect>>, <<4, Augmented(1)>>, <<5, Perfect>>, <<6, Minor>>,
                  <<6, Major>>, <<7, Minor>>, <<7, Major>> >>[(Abs(n) % 12) + 1]
  IN Interval(usual[1], usual[2], Abs(n) \div 12)

\* enharmonic_respell: the same sound on another letter, with at most a
\* double accidental.
Respelled(p, letter) ==
  LET d == Midi(p) - NaturalPc(letter)
      nearest == (2 * d + 12) \div 24
      acc == d - 12 * nearest
  IN IF Abs(acc) > 2 THEN {} ELSE {Pitch(letter, acc, nearest - 1)}

-----------------------------------------------------------------------------
(* Scales.                                                                 *)

\* fallback_degree_number, of the degree with index i.
FallbackNumber(semitone, length, i) ==
  IF length = 7 THEN i ELSE <<1, 2, 2, 3, 3, 4, 5, 5, 6, 6, 7, 7>>[(semitone % 12) + 1]

\* What a degree is spelled with: its number, if it has one, folded into 1..7.
DegreeNumber(def, i) ==
  IF i \in DOMAIN def.numbers /\ def.numbers[i] >= 1
    THEN ((def.numbers[i] - 1) % 7) + 1
    ELSE FallbackNumber(def.semitones[i], Len(def.semitones), i)

PitchClasses(def, tonic) == [i \in DOMAIN def.semitones |-> (PcOf(tonic) + def.semitones[i]) % 12]

\* Mutant of SpelledDegrees: the letters are counted from C.
SpelledDegrees_FromC(def, tonic) ==
  [i \in DOMAIN def.semitones |->
     LET letter == (DegreeNumber(def, i) - 1) % 7
     IN Class(letter, PcOf(tonic) + def.semitones[i] - NaturalPc(letter))]

SpelledDegrees(def, tonic) ==
  [i \in DOMAIN def.semitones |->
     ClassOf(Transposed(Pitch(tonic.letter, tonic.acc, 4), DegreeNumber(def, i) - 1,
                        def.semitones[i]))]

PrefersFlats(def, tonic) ==
  LET spelled == SpelledDegrees(def, tonic)
      count(S) == Cardinality({i \in DOMAIN spelled : spelled[i].acc \in S})
  IN tonic.acc < 0 \/ count(-12..-1) > count(1..12)

SharpSpelling == <<Class(0, 0), Class(0, 1), Class(1, 0), Class(1, 1), Class(2, 0), Class(3, 0),
                   Class(3, 1), Class(4, 0), Class(4, 1), Class(5, 0), Class(5, 1), Class(6, 0)>>
FlatSpelling == <<Class(0, 0), Class(1, -1), Class(1, 0), Class(2, -1), Class(2, 0), Class(3, 0),
                  Class(4, -1), Class(4, 0), Class(5, -1), Class(5, 0), Class(6, -1), Class(6, 0)>>

\* ScaleInstance::spell, from_midi: as the scale spells it, or with the
\* accidentals the scale prefers.
Spell(def, tonic, midi) ==
  LET pcs == PitchClasses(def, tonic)
      degrees == {i \in DOMAIN pcs : pcs[i] = midi % 12}
      table == IF PrefersFlats(def, tonic) THEN FlatSpelling ELSE SharpSpelling
  IN AtOctave(IF degrees # {} THEN SpelledDegrees(def, tonic)[Min(degrees)]
              ELSE table[(midi % 12) + 1], midi)

\* degree_pitch.
DegreePitch(def, tonic, i, octave) ==
  AtOctave(SpelledDegrees(def, tonic)[i],
           Midi(Pitch(tonic.letter, tonic.acc, octave)) + def.semitones[i])

\* nearest_degree: of two the lower index, counted from 0 there.
NearestDegree(def, tonic, midi) ==
  LET pcs == PitchClasses(def, tonic)
      far(i) == Min({(midi - pcs[i]) % 12, (pcs[i] - midi) % 12})
  IN Min({i \in DOMAIN pcs : \A j \in DOMAIN pcs : far(i) <= far(j)})

\* transpose_diatonic: from the degree at or below, so many degrees on.
TransposeDiatonic(p, steps, def, tonic) ==
  LET n == Len(def.semitones)
      base == Midi(Pitch(tonic.letter, tonic.acc, -1))
      over(i) == (Midi(p) - base - def.semitones[i]) % 12
      at == Min({i \in 1..n : \A j \in 1..n : over(i) <= over(j)})
      block == (Midi(p) - base - def.semitones[at]) \div 12
      target == block * n + at - 1 + steps
      to == (target % n) + 1
  IN AtOctave(SpelledDegrees(def, tonic)[to],
              base + 12 * (target \div n) + def.semitones[to] + over(at))
=============================================================================
