----------------------------- MODULE TheoryProofs -----------------------------
(***************************************************************************)
(* Proofs about the theory of music, for every pitch, interval, scale,     *)
(* rule and context.  Spelling: the interval between two pitches leads     *)
(* from one to the other and back, transposing by an interval is undone by *)
(* transposing down and is measured as that interval, an interval and its  *)
(* inversion make an octave, and whatever is respelled, put in an octave   *)
(* or spelled by a scale sounds as it did.  TheoryRules: what is answered  *)
(* from some facts stays answered alike when more facts come in; so the    *)
(* verdict of a rule can then only change in favour of an exception, and a *)
(* rule that is refuted stays refuted.                                     *)
(***************************************************************************)
EXTENDS Spelling, TheoryRules, WellFoundedInduction, TLAPS

Classes == [letter : Letters, acc : Int]
Pitches == [letter : Letters, acc : Int, octave : Int]

Qualities == {Perfect, Major, Minor} \cup {Augmented(n) : n \in Nat \ {0}}
             \cup {Diminished(n) : n \in Nat \ {0}}
Intervals == {i \in [number : 1..7, quality : Qualities, octaves : Nat] :
                Fits(i.number, i.quality)}

-----------------------------------------------------------------------------
(* Arithmetic.                                                             *)

LEMMA BySeven ==
  ASSUME NEW q \in Int, NEW r \in 0..6
  PROVE  (7 * q + r) % 7 = r /\ (7 * q + r) \div 7 = q
OBVIOUS

LEMMA ByTwelve ==
  ASSUME NEW q \in Int, NEW r \in 0..11
  PROVE  (12 * q + r) % 12 = r /\ (12 * q + r) \div 12 = q
OBVIOUS

\* A place on the staff.
Staff(octave, letter) == 7 * octave + letter

LEMMA StaffOnce ==
  ASSUME NEW x \in Int, NEW y \in Int, NEW r \in 0..6, NEW s \in 0..6, Staff(x, r) = Staff(y, s)
  PROVE  x = y /\ r = s
BY DEF Staff

LEMMA SevenParts ==
  ASSUME NEW n \in Int
  PROVE  \E q \in Int : \E r \in 0..6 : n = 7 * q + r /\ q = n \div 7 /\ r = n % 7
<1> DEFINE q == n \div 7
           r == n % 7
<1>1. q \in Int /\ r \in 0..6
  OBVIOUS
<1>2. r = n - 7 * q
  OBVIOUS
<1>3. q = n \div 7 /\ r = n % 7
  OBVIOUS
<1> HIDE DEF q, r
<1>4. n = 7 * q + r
  BY <1>1, <1>2
<1> QED
  BY <1>1, <1>3, <1>4

LEMMA TwelveParts ==
  ASSUME NEW n \in Int
  PROVE  \E q \in Int : \E r \in 0..11 : n = 12 * q + r /\ q = n \div 12 /\ r = n % 12
<1> DEFINE q == n \div 12
           r == n % 12
<1>1. q \in Int /\ r \in 0..11
  OBVIOUS
<1>2. r = n - 12 * q
  OBVIOUS
<1>3. q = n \div 12 /\ r = n % 12
  OBVIOUS
<1> HIDE DEF q, r
<1>4. n = 12 * q + r
  BY <1>1, <1>2
<1> QED
  BY <1>1, <1>3, <1>4

LEMMA NaturalIs ==
  /\ NaturalPc(0) = 0 /\ NaturalPc(1) = 2 /\ NaturalPc(2) = 4 /\ NaturalPc(3) = 5
  /\ NaturalPc(4) = 7 /\ NaturalPc(5) = 9 /\ NaturalPc(6) = 11
BY DEF NaturalPc

LEMMA NaturalRange ==
  ASSUME NEW letter \in Letters
  PROVE  NaturalPc(letter) \in 0..11
BY NaturalIs DEF Letters

LEMMA MidiInt ==
  ASSUME NEW p \in Pitches
  PROVE  Midi(p) \in Int /\ DiatonicStep(p) \in Int
BY NaturalRange DEF Midi, DiatonicStep, Pitches, Letters

-----------------------------------------------------------------------------
(* Intervals and what they are worth.                                      *)

LEMMA IntervalFields ==
  ASSUME NEW n, NEW q, NEW o
  PROVE  /\ Interval(n, q, o).number = n /\ Interval(n, q, o).quality = q
         /\ Interval(n, q, o).octaves = o
BY DEF Interval

LEMMA KindsDiffer ==
  /\ Perfect.kind = "perfect" /\ Major.kind = "major" /\ Minor.kind = "minor"
  /\ Perfect.by = 0 /\ Major.by = 0 /\ Minor.by = 0
  /\ \A n : /\ Augmented(n).kind = "augmented" /\ Augmented(n).by = n
            /\ Diminished(n).kind = "diminished" /\ Diminished(n).by = n
BY DEF Perfect, Major, Minor, Augmented, Diminished

\* The semitones an interval is more than the major or perfect one.
Worth(n, q) ==
  IF q.kind \in {"perfect", "major"} THEN 0
  ELSE IF q.kind = "minor" THEN -1
  ELSE IF q.kind = "augmented" THEN q.by
  ELSE -q.by - (IF IsPerfectNumber(n) THEN 0 ELSE 1)

LEMMA SemitonesIs ==
  ASSUME NEW n \in 1..7, NEW q \in Qualities, NEW o \in Nat
  PROVE  Semitones(Interval(n, q, o)) = BaseSemitones(n) + 12 * o + Worth(n, q)
<1>1. q.kind \in {"perfect", "major", "minor", "augmented", "diminished"}
  BY KindsDiffer DEF Qualities
<1> QED
  BY <1>1, IntervalFields DEF Semitones, Worth

LEMMA WorthInt ==
  ASSUME NEW n, NEW q \in Qualities
  PROVE  Worth(n, q) \in Int
BY KindsDiffer DEF Qualities, Worth

\* quality_from_diff is of the kind the number allows, and worth the difference.
LEMMA QualityIsWorth ==
  ASSUME NEW n \in 1..7, NEW diff \in Int
  PROVE  /\ QualityFromDiff(n, diff) \in Qualities
         /\ Fits(n, QualityFromDiff(n, diff))
         /\ Worth(n, QualityFromDiff(n, diff)) = diff
<1>1. CASE diff = 0
  BY <1>1, KindsDiffer DEF QualityFromDiff, Qualities, Fits, Worth
<1>2. CASE diff > 0
  <2>1. QualityFromDiff(n, diff) = Augmented(diff)
    BY <1>2 DEF QualityFromDiff
  <2> QED
    BY <1>2, <2>1, KindsDiffer DEF Qualities, Fits, Worth
<1>3. CASE diff < 0 /\ IsPerfectNumber(n)
  <2>1. QualityFromDiff(n, diff) = Diminished(-diff)
    BY <1>3 DEF QualityFromDiff
  <2> QED
    BY <1>3, <2>1, KindsDiffer DEF Qualities, Fits, Worth
<1>4. CASE diff = -1 /\ ~IsPerfectNumber(n)
  <2>1. QualityFromDiff(n, diff) = Minor
    BY <1>4 DEF QualityFromDiff
  <2> QED
    BY <1>4, <2>1, KindsDiffer DEF Qualities, Fits, Worth
<1>5. CASE diff < -1 /\ ~IsPerfectNumber(n)
  <2>1. QualityFromDiff(n, diff) = Diminished(-diff - 1)
    BY <1>5 DEF QualityFromDiff
  <2> QED
    BY <1>5, <2>1, KindsDiffer DEF Qualities, Fits, Worth
<1> QED
  BY <1>1, <1>2, <1>3, <1>4, <1>5

\* A quality that fits is the one its worth is taken for.
LEMMA WorthIsQuality ==
  ASSUME NEW n \in 1..7, NEW q \in Qualities, Fits(n, q)
  PROVE  QualityFromDiff(n, Worth(n, q)) = q
<1>1. CASE q = Perfect \/ q = Major
  BY <1>1, KindsDiffer DEF QualityFromDiff, Fits, Worth
<1>2. CASE q = Minor
  BY <1>2, KindsDiffer DEF QualityFromDiff, Fits, Worth
<1>3. ASSUME NEW k \in Nat \ {0}, q = Augmented(k)
      PROVE  QualityFromDiff(n, Worth(n, q)) = q
  BY <1>3, KindsDiffer DEF QualityFromDiff, Worth
<1>4. ASSUME NEW k \in Nat \ {0}, q = Diminished(k)
      PROVE  QualityFromDiff(n, Worth(n, q)) = q
  <2>1. Worth(n, q) = -k - (IF IsPerfectNumber(n) THEN 0 ELSE 1)
    BY <1>4, KindsDiffer DEF Worth
  <2> QED
    BY <1>4, <2>1 DEF QualityFromDiff
<1> QED
  BY <1>1, <1>2, <1>3, <1>4 DEF Qualities

-----------------------------------------------------------------------------
(* A pitch is where it stands on the staff and how it sounds.              *)

LEMMA PitchFields ==
  ASSUME NEW letter, NEW acc, NEW octave
  PROVE  /\ Pitch(letter, acc, octave).letter = letter
         /\ Pitch(letter, acc, octave).acc = acc
         /\ Pitch(letter, acc, octave).octave = octave
BY DEF Pitch

LEMMA MidiOf ==
  ASSUME NEW letter \in Letters, NEW acc \in Int, NEW octave \in Int
  PROVE  /\ Pitch(letter, acc, octave) \in Pitches
         /\ Midi(Pitch(letter, acc, octave)) = 12 * (octave + 1) + NaturalPc(letter) + acc
         /\ DiatonicStep(Pitch(letter, acc, octave)) = 7 * octave + letter
<1>1. Pitch(letter, acc, octave) \in Pitches
  BY DEF Pitch, Pitches
<1> QED
  BY <1>1, PitchFields DEF Midi, DiatonicStep

LEMMA PitchDetermined ==
  ASSUME NEW a \in Pitches, NEW b \in Pitches,
         Midi(a) = Midi(b), DiatonicStep(a) = DiatonicStep(b)
  PROVE  a = b
<1>1. /\ a.letter \in 0..6 /\ a.octave \in Int /\ a.acc \in Int
      /\ b.letter \in 0..6 /\ b.octave \in Int /\ b.acc \in Int
  BY DEF Pitches, Letters
<1>2. a.octave = b.octave /\ a.letter = b.letter
  <2>1. Staff(a.octave, a.letter) = Staff(b.octave, b.letter)
    BY DEF DiatonicStep, Staff
  <2> QED
    BY <1>1, <2>1, StaffOnce
<1>3. a.acc = b.acc
  BY <1>1, <1>2, NaturalRange DEF Midi, Letters
<1> QED
  BY <1>2, <1>3 DEF Pitches

LEMMA TransposedLands ==
  ASSUME NEW p \in Pitches, NEW steps \in Int, NEW semitones \in Int
  PROVE  /\ Transposed(p, steps, semitones) \in Pitches
         /\ Midi(Transposed(p, steps, semitones)) = Midi(p) + semitones
         /\ DiatonicStep(Transposed(p, steps, semitones)) = DiatonicStep(p) + steps
<1>1. p.letter \in Letters /\ p.letter \in Int /\ p.octave \in Int /\ Midi(p) \in Int
  BY MidiInt DEF Pitches, Letters
<1>2. p.letter + steps \in Int
  BY <1>1
<1>3. PICK q \in Int : \E r \in 0..6 : /\ p.letter + steps = 7 * q + r
                                       /\ q = (p.letter + steps) \div 7
                                       /\ r = (p.letter + steps) % 7
  BY <1>2, SevenParts
<1>4. PICK r \in 0..6 : /\ p.letter + steps = 7 * q + r
                        /\ q = (p.letter + steps) \div 7
                        /\ r = (p.letter + steps) % 7
  BY <1>3
<1>5. Step(p.letter, steps).letter = r /\ Step(p.letter, steps).octaves = q
  BY <1>4 DEF Step
<1> DEFINE octave == p.octave + q
           acc == Midi(p) + semitones - Midi(Pitch(r, 0, octave))
<1>6. Transposed(p, steps, semitones) = Pitch(r, acc, octave)
  BY <1>5 DEF Transposed
<1>7. r \in Letters /\ octave \in Int
  BY <1>1 DEF Letters
<1>8. Midi(Pitch(r, 0, octave)) = 12 * (octave + 1) + NaturalPc(r)
  <2> HIDE DEF octave
  <2>1. \A a \in Int : Midi(Pitch(r, a, octave)) = 12 * (octave + 1) + NaturalPc(r) + a
    BY <1>7, MidiOf
  <2>2. Midi(Pitch(r, 0, octave)) = 12 * (octave + 1) + NaturalPc(r) + 0
    BY <2>1
  <2> QED
    BY <1>7, <2>2, NaturalRange
<1>9. acc \in Int /\ acc = Midi(p) + semitones - (12 * (octave + 1) + NaturalPc(r))
  BY <1>1, <1>7, <1>8, NaturalRange
<1>10. octave = p.octave + q
  OBVIOUS
<1> HIDE DEF octave, acc
<1>11. /\ Pitch(r, acc, octave) \in Pitches
       /\ Midi(Pitch(r, acc, octave)) = 12 * (octave + 1) + NaturalPc(r) + acc
       /\ DiatonicStep(Pitch(r, acc, octave)) = 7 * octave + r
  <2>1. r \in Letters /\ acc \in Int /\ octave \in Int
    BY <1>7, <1>9
  <2> QED
    BY <2>1, MidiOf
<1>12. Midi(Pitch(r, acc, octave)) = Midi(p) + semitones
  BY <1>1, <1>7, <1>9, <1>11, NaturalRange
<1>13. DiatonicStep(p) = 7 * p.octave + p.letter
  BY DEF DiatonicStep
<1>14. 7 * octave + r = DiatonicStep(p) + steps
  <2>1. \A o, l \in Int : l + steps = 7 * q + r => 7 * (o + q) + r = (7 * o + l) + steps
    OBVIOUS
  <2>2. 7 * (p.octave + q) + r = (7 * p.octave + p.letter) + steps
    BY <1>1, <1>4, <2>1
  <2> QED
    BY <1>10, <1>13, <2>2
<1> QED
  BY <1>6, <1>11, <1>12, <1>14

-----------------------------------------------------------------------------
(* The interval between two pitches.                                       *)

LEMMA IntervalTypes ==
  ASSUME NEW i \in Intervals
  PROVE  /\ i = Interval(i.number, i.quality, i.octaves)
         /\ i.number \in 1..7 /\ i.octaves \in Nat /\ i.quality \in Qualities
         /\ Fits(i.number, i.quality)
         /\ StepsOf(i) \in Nat /\ Semitones(i) \in Int /\ BaseSemitones(i.number) \in 0..11
         /\ Semitones(i) = BaseSemitones(i.number) + 12 * i.octaves + Worth(i.number, i.quality)
<1>1. /\ i = Interval(i.number, i.quality, i.octaves)
      /\ i.number \in 1..7 /\ i.octaves \in Nat /\ i.quality \in Qualities
      /\ Fits(i.number, i.quality)
  BY DEF Intervals, Interval
<1>2. BaseSemitones(i.number) \in 0..11
  BY <1>1, NaturalRange DEF BaseSemitones, Letters
<1>3. Semitones(i) = BaseSemitones(i.number) + 12 * i.octaves + Worth(i.number, i.quality)
  BY <1>1, SemitonesIs
<1>4. Worth(i.number, i.quality) \in Int
  BY <1>1, WorthInt
<1>5. Semitones(i) \in Int
  BY <1>1, <1>2, <1>3, <1>4
<1>6. StepsOf(i) \in Nat
  BY <1>1 DEF StepsOf
<1> QED
  BY <1>1, <1>2, <1>3, <1>5, <1>6

\* The interval of so many letters and so many semitones.
Made(s, semis) ==
  LET n == (s % 7) + 1
      o == s \div 7
  IN Interval(n, QualityFromDiff(n, semis - 12 * o - BaseSemitones(n)), o)

LEMMA Measured ==
  ASSUME NEW s \in Nat, NEW semis \in Int
  PROVE  Made(s, semis) \in Intervals /\ StepsOf(Made(s, semis)) = s /\ Semitones(Made(s, semis)) = semis
<1> DEFINE n == (s % 7) + 1
           o == s \div 7
           i == Made(s, semis)
<1>1. PICK q \in Int : \E r \in 0..6 : s = 7 * q + r /\ q = s \div 7 /\ r = s % 7
  BY SevenParts
<1>2. PICK r \in 0..6 : s = 7 * q + r /\ q = s \div 7 /\ r = s % 7
  BY <1>1
<1>3. n = r + 1 /\ n \in 1..7 /\ o = q /\ q \in Nat
  BY <1>2
<1>4. BaseSemitones(n) \in 0..11
  BY <1>3, NaturalRange DEF BaseSemitones, Letters
<1> DEFINE diff == semis - 12 * o - BaseSemitones(n)
<1>5. diff \in Int
  BY <1>3, <1>4
<1>6. diff = semis - 12 * o - BaseSemitones(n)
  OBVIOUS
<1>7. i = Interval(n, QualityFromDiff(n, diff), o)
  BY DEF Made
<1> HIDE DEF diff, i, n, o
<1>8. /\ QualityFromDiff(n, diff) \in Qualities /\ Fits(n, QualityFromDiff(n, diff))
      /\ Worth(n, QualityFromDiff(n, diff)) = diff
  BY <1>3, <1>5, QualityIsWorth
<1>9. i \in Intervals
  BY <1>3, <1>7, <1>8 DEF Intervals, Interval
<1>10. StepsOf(i) = s
  <2>1. i.number = n /\ i.octaves = o
    BY <1>7, IntervalFields
  <2>2. StepsOf(i) = (r + 1) - 1 + 7 * q
    BY <1>3, <2>1 DEF StepsOf
  <2>3. (r + 1) - 1 + 7 * q = 7 * q + r
    OBVIOUS
  <2> QED
    BY <1>2, <2>2, <2>3
<1>11. Semitones(i) = BaseSemitones(n) + 12 * o + diff
  BY <1>3, <1>7, <1>8, SemitonesIs
<1>12. Semitones(i) = semis
  BY <1>3, <1>4, <1>5, <1>6, <1>11
<1> QED
  BY <1>9, <1>10, <1>12 DEF i

LEMMA Moved ==
  ASSUME NEW p \in Pitches, NEW i \in Intervals
  PROVE  /\ Transpose(p, i) \in Pitches /\ TransposeDown(p, i) \in Pitches
         /\ Midi(Transpose(p, i)) = Midi(p) + Semitones(i)
         /\ DiatonicStep(Transpose(p, i)) = DiatonicStep(p) + StepsOf(i)
         /\ Midi(TransposeDown(p, i)) = Midi(p) - Semitones(i)
         /\ DiatonicStep(TransposeDown(p, i)) = DiatonicStep(p) - StepsOf(i)
<1>1. StepsOf(i) \in Int /\ Semitones(i) \in Int /\ Midi(p) \in Int /\ DiatonicStep(p) \in Int
  BY IntervalTypes, MidiInt
<1>2. -StepsOf(i) \in Int /\ -Semitones(i) \in Int
  BY <1>1
<1>3. /\ TransposeDown(p, i) \in Pitches
      /\ Midi(TransposeDown(p, i)) = Midi(p) + (-Semitones(i))
      /\ DiatonicStep(TransposeDown(p, i)) = DiatonicStep(p) + (-StepsOf(i))
  BY <1>2, TransposedLands DEF TransposeDown
<1>4. /\ Transpose(p, i) \in Pitches
      /\ Midi(Transpose(p, i)) = Midi(p) + Semitones(i)
      /\ DiatonicStep(Transpose(p, i)) = DiatonicStep(p) + StepsOf(i)
  BY <1>1, TransposedLands DEF Transpose
<1> QED
  BY <1>1, <1>3, <1>4

LEMMA BetweenMeasures ==
  ASSUME NEW a \in Pitches, NEW b \in Pitches
  PROVE  LET there == Between(a, b) IN
         /\ there = [interval |-> there.interval, descending |-> there.descending]
         /\ there.descending <=> \/ DiatonicStep(b) < DiatonicStep(a)
                                 \/ (DiatonicStep(b) = DiatonicStep(a) /\ Midi(b) < Midi(a))
         /\ there.interval \in Intervals
         /\ there.descending => /\ StepsOf(there.interval) = DiatonicStep(a) - DiatonicStep(b)
                                /\ Semitones(there.interval) = Midi(a) - Midi(b)
         /\ ~there.descending => /\ StepsOf(there.interval) = DiatonicStep(b) - DiatonicStep(a)
                                 /\ Semitones(there.interval) = Midi(b) - Midi(a)
<1> DEFINE steps == DiatonicStep(b) - DiatonicStep(a)
           semis == Midi(b) - Midi(a)
           down == steps < 0 \/ (steps = 0 /\ semis < 0)
           s == Abs(steps)
           signed == IF down THEN -semis ELSE semis
           i == Made(s, signed)
<1>1. Between(a, b) = [interval |-> i, descending |-> down]
  BY DEF Between, Made
<1>2. /\ Midi(a) \in Int /\ Midi(b) \in Int
      /\ DiatonicStep(a) \in Int /\ DiatonicStep(b) \in Int
  BY MidiInt
<1>3. steps \in Int /\ semis \in Int
  BY <1>2
<1>4. s \in Nat /\ signed \in Int
  BY <1>3 DEF Abs
<1>5. i \in Intervals /\ StepsOf(i) = s /\ Semitones(i) = signed
  <2> HIDE DEF s, signed
  <2> QED
    BY <1>4, Measured
<1>6. s = IF down THEN -steps ELSE steps
  BY <1>3 DEF Abs
<1>7. /\ down <=> (\/ DiatonicStep(b) < DiatonicStep(a)
                   \/ (DiatonicStep(b) = DiatonicStep(a) /\ Midi(b) < Midi(a)))
      /\ down => s = DiatonicStep(a) - DiatonicStep(b) /\ signed = Midi(a) - Midi(b)
      /\ ~down => s = DiatonicStep(b) - DiatonicStep(a) /\ signed = Midi(b) - Midi(a)
  BY <1>2, <1>6
<1> HIDE DEF i, s, signed, down
<1> QED
  BY <1>1, <1>5, <1>7

-----------------------------------------------------------------------------
(* What holds of every interval.                                           *)

\* The interval from one pitch to another, applied to the first, gives the
\* second, spelled as it was (Interval::between, SignedInterval::apply).
THEOREM ThereApplied ==
  ASSUME NEW a \in Pitches, NEW b \in Pitches
  PROVE  Apply(Between(a, b), a) = b
<1> DEFINE there == Between(a, b)
<1>1. /\ Midi(a) \in Int /\ Midi(b) \in Int
      /\ DiatonicStep(a) \in Int /\ DiatonicStep(b) \in Int
  BY MidiInt
<1>2. there.interval \in Intervals
  BY BetweenMeasures
<1>3. CASE there.descending
  <2>1. /\ StepsOf(there.interval) = DiatonicStep(a) - DiatonicStep(b)
        /\ Semitones(there.interval) = Midi(a) - Midi(b)
    BY <1>3, BetweenMeasures
  <2> HIDE DEF there
  <2>2. /\ TransposeDown(a, there.interval) \in Pitches
        /\ Midi(TransposeDown(a, there.interval)) = Midi(a) - Semitones(there.interval)
        /\ DiatonicStep(TransposeDown(a, there.interval))
             = DiatonicStep(a) - StepsOf(there.interval)
    BY <1>2, Moved
  <2>3. /\ Midi(TransposeDown(a, there.interval)) = Midi(b)
        /\ DiatonicStep(TransposeDown(a, there.interval)) = DiatonicStep(b)
    BY <1>1, <2>1, <2>2
  <2>4. TransposeDown(a, there.interval) = b
    BY <2>2, <2>3, PitchDetermined
  <2> QED
    BY <1>3, <2>4 DEF Apply, there
<1>4. CASE ~there.descending
  <2>1. /\ StepsOf(there.interval) = DiatonicStep(b) - DiatonicStep(a)
        /\ Semitones(there.interval) = Midi(b) - Midi(a)
    BY <1>4, BetweenMeasures
  <2> HIDE DEF there
  <2>2. /\ Transpose(a, there.interval) \in Pitches
        /\ Midi(Transpose(a, there.interval)) = Midi(a) + Semitones(there.interval)
        /\ DiatonicStep(Transpose(a, there.interval))
             = DiatonicStep(a) + StepsOf(there.interval)
    BY <1>2, Moved
  <2>3. /\ Midi(Transpose(a, there.interval)) = Midi(b)
        /\ DiatonicStep(Transpose(a, there.interval)) = DiatonicStep(b)
    BY <1>1, <2>1, <2>2
  <2>4. Transpose(a, there.interval) = b
    BY <2>2, <2>3, PitchDetermined
  <2> QED
    BY <1>4, <2>4 DEF Apply, there
<1> QED
  BY <1>3, <1>4

\* What a pitch is transposed up by, transposing down takes back (transpose,
\* transpose_down): no spelling is lost on the way.
THEOREM UpAndDown ==
  ASSUME NEW p \in Pitches, NEW i \in Intervals
  PROVE  /\ TransposeDown(Transpose(p, i), i) = p
         /\ Transpose(TransposeDown(p, i), i) = p
<1> DEFINE up == Transpose(p, i)
           down == TransposeDown(p, i)
<1>1. /\ StepsOf(i) \in Int /\ Semitones(i) \in Int
      /\ Midi(p) \in Int /\ DiatonicStep(p) \in Int
  BY IntervalTypes, MidiInt
<1>2. /\ up \in Pitches /\ down \in Pitches
      /\ Midi(up) = Midi(p) + Semitones(i) /\ DiatonicStep(up) = DiatonicStep(p) + StepsOf(i)
      /\ Midi(down) = Midi(p) - Semitones(i) /\ DiatonicStep(down) = DiatonicStep(p) - StepsOf(i)
  BY Moved
<1> HIDE DEF up, down
<1>3. TransposeDown(up, i) = p
  <2>1. /\ TransposeDown(up, i) \in Pitches
        /\ Midi(TransposeDown(up, i)) = Midi(up) - Semitones(i)
        /\ DiatonicStep(TransposeDown(up, i)) = DiatonicStep(up) - StepsOf(i)
    BY <1>2, Moved
  <2>2. /\ Midi(TransposeDown(up, i)) = Midi(p)
        /\ DiatonicStep(TransposeDown(up, i)) = DiatonicStep(p)
    BY <1>1, <1>2, <2>1
  <2> QED
    BY <2>1, <2>2, PitchDetermined
<1>4. Transpose(down, i) = p
  <2>1. /\ Transpose(down, i) \in Pitches
        /\ Midi(Transpose(down, i)) = Midi(down) + Semitones(i)
        /\ DiatonicStep(Transpose(down, i)) = DiatonicStep(down) + StepsOf(i)
    BY <1>2, Moved
  <2>2. /\ Midi(Transpose(down, i)) = Midi(p)
        /\ DiatonicStep(Transpose(down, i)) = DiatonicStep(p)
    BY <1>1, <1>2, <2>1
  <2> QED
    BY <2>1, <2>2, PitchDetermined
<1> QED
  BY <1>3, <1>4 DEF up, down

\* Between two pitches that differ the interval back is the one there, the
\* other way.
THEOREM ThereAndBack ==
  ASSUME NEW a \in Pitches, NEW b \in Pitches, a # b
  PROVE  Between(b, a) = Reversed(Between(a, b))
<1> DEFINE there == Between(a, b)
           back == Between(b, a)
<1>1. /\ Midi(a) \in Int /\ Midi(b) \in Int
      /\ DiatonicStep(a) \in Int /\ DiatonicStep(b) \in Int
  BY MidiInt
<1>2. DiatonicStep(a) # DiatonicStep(b) \/ Midi(a) # Midi(b)
  BY PitchDetermined
<1>3. there.descending \in BOOLEAN /\ back.descending \in BOOLEAN
  BY DEF Between
<1>4. there.descending <=> \/ DiatonicStep(b) < DiatonicStep(a)
                           \/ (DiatonicStep(b) = DiatonicStep(a) /\ Midi(b) < Midi(a))
  BY BetweenMeasures
<1>5. back.descending <=> \/ DiatonicStep(a) < DiatonicStep(b)
                          \/ (DiatonicStep(a) = DiatonicStep(b) /\ Midi(a) < Midi(b))
  BY BetweenMeasures
<1> HIDE DEF there, back
<1>6. back.descending = ~there.descending
  <2>1. back.descending <=> ~there.descending
    BY <1>1, <1>2, <1>4, <1>5
  <2> QED
    BY <1>3, <2>1
<1>7. /\ DiatonicStep(a) - DiatonicStep(b) = -(DiatonicStep(b) - DiatonicStep(a))
      /\ Midi(a) - Midi(b) = -(Midi(b) - Midi(a))
  BY <1>1
<1>8. back.interval = there.interval
  <2> DEFINE steps(x, y) == DiatonicStep(y) - DiatonicStep(x)
             semis(x, y) == Midi(y) - Midi(x)
             down(x, y) == steps(x, y) < 0 \/ (steps(x, y) = 0 /\ semis(x, y) < 0)
             signed(x, y) == IF down(x, y) THEN -semis(x, y) ELSE semis(x, y)
  <2>1. /\ there.interval = Made(Abs(steps(a, b)), signed(a, b))
        /\ back.interval = Made(Abs(steps(b, a)), signed(b, a))
    BY DEF there, back, Between, Made
  <2>2. Abs(steps(a, b)) = Abs(steps(b, a))
    BY <1>1 DEF Abs
  <2>3. down(a, b) <=> ~down(b, a)
    BY <1>1, <1>2
  <2>4. semis(a, b) = -semis(b, a) /\ semis(b, a) = -semis(a, b)
    BY <1>1
  <2>5. signed(a, b) = signed(b, a)
    BY <2>3, <2>4
  <2> QED
    BY <2>1, <2>2, <2>5
<1>9. /\ back = [interval |-> back.interval, descending |-> back.descending]
      /\ there = [interval |-> there.interval, descending |-> there.descending]
  BY DEF there, back, Between
<1>10. Reversed(there) = [interval |-> there.interval, descending |-> ~there.descending]
  BY <1>9 DEF Reversed
<1> QED
  BY <1>6, <1>8, <1>9, <1>10 DEF there, back

\* An interval that does not lead down is found again between the pitch it is
\* taken from and the pitch it leads to, spelled as it was.
THEOREM FoundAgain ==
  ASSUME NEW p \in Pitches, NEW i \in Intervals, StepsOf(i) > 0 \/ Semitones(i) >= 0
  PROVE  Between(p, Transpose(p, i)) = [interval |-> i, descending |-> FALSE]
<1> DEFINE up == Transpose(p, i)
           there == Between(p, up)
<1>1. /\ StepsOf(i) \in Nat /\ Semitones(i) \in Int
      /\ Midi(p) \in Int /\ DiatonicStep(p) \in Int
  BY IntervalTypes, MidiInt
<1>2. /\ up \in Pitches /\ Midi(up) = Midi(p) + Semitones(i)
      /\ DiatonicStep(up) = DiatonicStep(p) + StepsOf(i)
  BY Moved
<1>3. there.descending <=> \/ DiatonicStep(up) < DiatonicStep(p)
                           \/ (DiatonicStep(up) = DiatonicStep(p) /\ Midi(up) < Midi(p))
  BY <1>2, BetweenMeasures
<1>4. there.descending \in BOOLEAN /\ there = [interval |-> there.interval,
                                               descending |-> there.descending]
  BY DEF Between
<1>5. /\ there.interval \in Intervals
      /\ ~there.descending => /\ StepsOf(there.interval) = DiatonicStep(up) - DiatonicStep(p)
                              /\ Semitones(there.interval) = Midi(up) - Midi(p)
  BY <1>2, BetweenMeasures
<1> HIDE DEF up, there
<1>6. there.descending = FALSE
  BY <1>1, <1>2, <1>3, <1>4
<1> DEFINE j == there.interval
<1>7. StepsOf(j) = StepsOf(i) /\ Semitones(j) = Semitones(i)
  BY <1>1, <1>2, <1>5, <1>6
<1> HIDE DEF j
<1>8. /\ i.number \in 1..7 /\ i.octaves \in Nat /\ i.quality \in Qualities
      /\ Fits(i.number, i.quality) /\ i = Interval(i.number, i.quality, i.octaves)
      /\ BaseSemitones(i.number) \in 0..11
      /\ Semitones(i) = BaseSemitones(i.number) + 12 * i.octaves + Worth(i.number, i.quality)
  BY IntervalTypes
<1>9. /\ j.number \in 1..7 /\ j.octaves \in Nat /\ j.quality \in Qualities
      /\ Fits(j.number, j.quality) /\ j = Interval(j.number, j.quality, j.octaves)
      /\ BaseSemitones(j.number) \in 0..11
      /\ Semitones(j) = BaseSemitones(j.number) + 12 * j.octaves + Worth(j.number, j.quality)
  BY <1>5, IntervalTypes DEF j
<1>10. i.number = j.number /\ i.octaves = j.octaves
  <2>1. ASSUME NEW k \in Intervals
        PROVE  StepsOf(k) = Staff(k.octaves, k.number - 1)
    <3>1. k.octaves \in Int /\ k.number \in Int
      BY IntervalTypes
    <3>2. ASSUME NEW x \in Int, NEW m \in Int
          PROVE  m - 1 + 7 * x = 7 * x + (m - 1)
      OBVIOUS
    <3>3. k.number - 1 + 7 * k.octaves = 7 * k.octaves + (k.number - 1)
      BY <3>1, <3>2
    <3> QED
      BY <3>3 DEF StepsOf, Staff
  <2>2. i \in Intervals /\ j \in Intervals
    BY <1>5 DEF j
  <2>3. Staff(i.octaves, i.number - 1) = Staff(j.octaves, j.number - 1)
    BY <1>7, <2>1, <2>2
  <2>4. i.number - 1 \in 0..6 /\ j.number - 1 \in 0..6
    BY <1>8, <1>9
  <2>5. i.octaves = j.octaves /\ i.number - 1 = j.number - 1
    BY <1>8, <1>9, <2>3, <2>4, StaffOnce
  <2> QED
    BY <1>8, <1>9, <2>5
<1>11. Worth(i.number, i.quality) = Worth(j.number, j.quality)
  <2>1. Worth(i.number, i.quality) \in Int /\ Worth(j.number, j.quality) \in Int
    BY <1>8, <1>9, WorthInt
  <2>2. \A b, o, v, w \in Int : b + 12 * o + v = b + 12 * o + w => v = w
    OBVIOUS
  <2>3. BaseSemitones(i.number) + 12 * i.octaves + Worth(i.number, i.quality)
          = BaseSemitones(i.number) + 12 * i.octaves + Worth(j.number, j.quality)
    BY <1>7, <1>8, <1>9, <1>10
  <2> QED
    BY <1>8, <2>1, <2>2, <2>3
<1>12. i.quality = j.quality
  BY <1>8, <1>9, <1>10, <1>11, WorthIsQuality
<1>13. i = j
  BY <1>8, <1>9, <1>10, <1>12
<1> QED
  BY <1>4, <1>6, <1>13 DEF j, there, up

\* An interval within the octave and its inversion make an octave, and the
\* inversion of the inversion is the interval (inverted).
THEOREM InversionsMakeOctaves ==
  ASSUME NEW i \in Intervals, i.octaves = 0
  PROVE  /\ Inverted(i) \in Intervals
         /\ Semitones(i) + Semitones(Inverted(i)) = 12
         /\ i.number # 1 => Inverted(Inverted(i)) = i
<1> DEFINE n == i.number
           q == i.quality
           turned == CASE q.kind = "perfect" -> Perfect
                       [] q.kind = "major" -> Minor
                       [] q.kind = "minor" -> Major
                       [] q.kind = "augmented" -> Diminished(q.by)
                       [] q.kind = "diminished" -> Augmented(q.by)
<1>1. /\ n \in 1..7 /\ q \in Qualities /\ Fits(n, q) /\ i = Interval(n, q, 0)
      /\ Semitones(i) = BaseSemitones(n) + 12 * 0 + Worth(n, q)
  BY IntervalTypes
<1>2. Inverted(i) = IF n = 1 THEN Interval(1, turned, 1) ELSE Interval(9 - n, turned, 0)
  BY DEF Inverted
<1> DEFINE m == IF n = 1 THEN 1 ELSE 9 - n
           o == IF n = 1 THEN 1 ELSE 0
<1>3. m \in 1..7 /\ o \in Nat /\ (IsPerfectNumber(m) <=> IsPerfectNumber(n))
  BY <1>1 DEF IsPerfectNumber
<1> DEFINE turns == /\ turned \in Qualities /\ Fits(m, turned)
                    /\ Worth(m, turned) = IF IsPerfectNumber(n) THEN -Worth(n, q)
                                          ELSE -1 - Worth(n, q)
<1>4. turns
  <2>1. CASE q = Perfect
    BY <1>1, <1>3, <2>1, KindsDiffer DEF Qualities, Fits, Worth
  <2>2. CASE q = Major
    BY <1>1, <1>3, <2>2, KindsDiffer DEF Qualities, Fits, Worth
  <2>3. CASE q = Minor
    BY <1>1, <1>3, <2>3, KindsDiffer DEF Qualities, Fits, Worth
  <2>4. ASSUME NEW k \in Nat \ {0}, q = Augmented(k)
        PROVE  turns
    BY <1>1, <1>3, <2>4, KindsDiffer DEF Qualities, Fits, Worth
  <2>5. ASSUME NEW k \in Nat \ {0}, q = Diminished(k)
        PROVE  turns
    BY <1>1, <1>3, <2>5, KindsDiffer DEF Qualities, Fits, Worth
  <2> HIDE DEF turns
  <2> QED
    BY <1>1, <2>1, <2>2, <2>3, <2>4, <2>5 DEF Qualities
<1>5. Inverted(i) = Interval(m, turned, o)
  BY <1>2
<1>6. \/ (q = Perfect /\ turned = Perfect)
      \/ (q = Major /\ turned = Minor) \/ (q = Minor /\ turned = Major)
      \/ (\E k \in Nat : q = Augmented(k) /\ turned = Diminished(k))
      \/ (\E k \in Nat : q = Diminished(k) /\ turned = Augmented(k))
  <2>1. ASSUME NEW k \in Nat \ {0}, q = Augmented(k)
        PROVE  turned = Diminished(k)
    BY <2>1, KindsDiffer
  <2>2. ASSUME NEW k \in Nat \ {0}, q = Diminished(k)
        PROVE  turned = Augmented(k)
    BY <2>2, KindsDiffer
  <2>3. (q = Perfect => turned = Perfect) /\ (q = Major => turned = Minor)
        /\ (q = Minor => turned = Major)
    BY KindsDiffer
  <2> HIDE DEF turned
  <2> QED
    BY <1>1, <2>1, <2>2, <2>3 DEF Qualities
<1>7. turned \in Qualities /\ Fits(m, turned)
      /\ Worth(m, turned) = IF IsPerfectNumber(n) THEN -Worth(n, q) ELSE -1 - Worth(n, q)
  BY <1>4
<1> HIDE DEF turned
<1>8. Inverted(i) \in Intervals
  BY <1>3, <1>5, <1>7 DEF Intervals, Interval
<1>9. Semitones(i) + Semitones(Inverted(i)) = 12
  <2>1. Semitones(Inverted(i)) = BaseSemitones(m) + 12 * o + Worth(m, turned)
    BY <1>3, <1>5, <1>7, SemitonesIs
  <2>2. BaseSemitones(n) + BaseSemitones(m) + 12 * o
          = IF IsPerfectNumber(n) THEN 12 ELSE 13
    BY <1>1, NaturalIs DEF BaseSemitones, IsPerfectNumber
  <2>3. Worth(n, q) \in Int /\ BaseSemitones(n) \in Int /\ BaseSemitones(m) \in Int
    BY <1>1, <1>3, WorthInt, NaturalRange DEF BaseSemitones, Letters
  <2> QED
    BY <1>1, <1>3, <1>7, <2>1, <2>2, <2>3
<1>10. n # 1 => Inverted(Inverted(i)) = i
  <2> SUFFICES ASSUME n # 1 PROVE Inverted(Inverted(i)) = i
    OBVIOUS
  <2>1. m = 9 - n /\ m # 1 /\ 9 - m = n
    BY <1>1
  <2>2. Inverted(i).number = m /\ Inverted(i).quality = turned
    BY <1>5, IntervalFields
  <2>3. Inverted(Inverted(i)) = Interval(9 - m, q, 0)
    <3>1. CASE turned = Perfect /\ q = Perfect
      BY <2>1, <2>2, <3>1, KindsDiffer DEF Inverted
    <3>2. CASE turned = Minor /\ q = Major
      BY <2>1, <2>2, <3>2, KindsDiffer DEF Inverted
    <3>3. CASE turned = Major /\ q = Minor
      BY <2>1, <2>2, <3>3, KindsDiffer DEF Inverted
    <3>4. ASSUME NEW k \in Nat, q = Augmented(k), turned = Diminished(k)
          PROVE  Inverted(Inverted(i)) = Interval(9 - m, q, 0)
      BY <2>1, <2>2, <3>4, KindsDiffer DEF Inverted
    <3>5. ASSUME NEW k \in Nat, q = Diminished(k), turned = Augmented(k)
          PROVE  Inverted(Inverted(i)) = Interval(9 - m, q, 0)
      BY <2>1, <2>2, <3>5, KindsDiffer DEF Inverted
    <3> QED
      BY <1>6, <3>1, <3>2, <3>3, <3>4, <3>5
  <2> QED
    BY <1>1, <2>1, <2>3
<1> QED
  BY <1>8, <1>9, <1>10

\* Interval::new makes every interval again from its compound number.
THEOREM WrittenAndRead ==
  ASSUME NEW i \in Intervals
  PROVE  NewInterval(CompoundNumber(i), i.quality) = {i}
<1> DEFINE number == CompoundNumber(i)
<1>1. /\ i.number \in 1..7 /\ i.octaves \in Nat /\ Fits(i.number, i.quality)
      /\ i = Interval(i.number, i.quality, i.octaves)
  BY IntervalTypes
<1>2. number \in Nat /\ number >= 1
  BY <1>1 DEF CompoundNumber
<1>3. (number - 1) % 7 = i.number - 1 /\ (number - 1) \div 7 = i.octaves
  <2>1. \A m \in 1..7, o \in Nat :
          (m + 7 * o - 1) % 7 = m - 1 /\ (m + 7 * o - 1) \div 7 = o
    OBVIOUS
  <2> QED
    BY <1>1, <2>1 DEF CompoundNumber
<1> HIDE DEF number
<1>4. ((number - 1) % 7) + 1 = i.number
  BY <1>1, <1>3
<1>5. NewInterval(number, i.quality) = {Interval(i.number, i.quality, i.octaves)}
  BY <1>1, <1>2, <1>3, <1>4 DEF NewInterval
<1> QED
  BY <1>1, <1>5 DEF number

-----------------------------------------------------------------------------
(* What is spelled anew sounds as it did.                                  *)

LEMMA SameClass ==
  ASSUME NEW x \in Int, NEW midi \in Int, x % 12 = midi % 12
  PROVE  12 * ((midi - x) \div 12) = midi - x /\ (midi - x) \div 12 \in Int
<1>1. PICK a \in Int : \E r \in 0..11 : x = 12 * a + r /\ a = x \div 12 /\ r = x % 12
  BY TwelveParts
<1>2. PICK r \in 0..11 : x = 12 * a + r /\ r = x % 12
  BY <1>1
<1>3. PICK b \in Int : \E s \in 0..11 : midi = 12 * b + s /\ b = midi \div 12 /\ s = midi % 12
  BY TwelveParts
<1>4. midi = 12 * b + r
  BY <1>2, <1>3
<1>5. midi - x = 12 * (b - a) + 0 /\ b - a \in Int
  BY <1>2, <1>4
<1>6. (midi - x) \div 12 = b - a
  BY <1>5, ByTwelve
<1> QED
  BY <1>5, <1>6

\* at_octave_for puts a class where it sounds as asked, whenever it can.
THEOREM InItsOctave ==
  ASSUME NEW c \in Classes, NEW midi \in Int, PcOf(c) = midi % 12
  PROVE  /\ AtOctave(c, midi) \in Pitches
         /\ ClassOf(AtOctave(c, midi)) = c
         /\ Midi(AtOctave(c, midi)) = midi
<1>1. c.letter \in Letters /\ c.acc \in Int /\ NaturalPc(c.letter) \in Int
  BY NaturalRange DEF Classes
<1> DEFINE x == NaturalPc(c.letter) + c.acc
           o == (midi - x) \div 12
<1>2. x \in Int /\ x % 12 = midi % 12
  BY <1>1 DEF PcOf
<1>3. 12 * o = midi - x /\ o \in Int
  BY <1>2, SameClass
<1>4. midi - NaturalPc(c.letter) - c.acc = midi - x
  BY <1>1
<1>5. AtOctave(c, midi) = Pitch(c.letter, c.acc, o - 1)
  BY <1>4 DEF AtOctave
<1>6. x = NaturalPc(c.letter) + c.acc
  OBVIOUS
<1> HIDE DEF o, x
<1>7. /\ Pitch(c.letter, c.acc, o - 1) \in Pitches
      /\ Midi(Pitch(c.letter, c.acc, o - 1)) = 12 * ((o - 1) + 1) + NaturalPc(c.letter) + c.acc
  <2>1. o - 1 \in Int
    BY <1>3
  <2> QED
    BY <1>1, <2>1, MidiOf
<1>8. Midi(AtOctave(c, midi)) = midi
  BY <1>1, <1>2, <1>3, <1>5, <1>6, <1>7
<1>9. ClassOf(AtOctave(c, midi)) = c
  BY <1>5, PitchFields DEF ClassOf, Class, Classes
<1> QED
  BY <1>5, <1>7, <1>8, <1>9

\* enharmonic_respell finds the spelling on a letter exactly when a double
\* accidental is enough, and it sounds the same.
THEOREM RespelledIs ==
  ASSUME NEW p \in Pitches, NEW letter \in Letters
  PROVE  Respelled(p, letter)
           = {q \in Pitches : q.letter = letter /\ q.acc \in -2..2 /\ Midi(q) = Midi(p)}
<1> DEFINE d == Midi(p) - NaturalPc(letter)
           nearest == (2 * d + 12) \div 24
           acc == d - 12 * nearest
<1>1. NaturalPc(letter) \in Int /\ Midi(p) \in Int
  BY MidiInt, NaturalRange
<1>2. d \in Int
  BY <1>1
<1>3. nearest \in Int /\ acc \in Int
  BY <1>2
<1>4. Respelled(p, letter) = IF Abs(acc) > 2 THEN {} ELSE {Pitch(letter, acc, nearest - 1)}
  BY DEF Respelled
<1>5. d = Midi(p) - NaturalPc(letter) /\ acc = d - 12 * nearest
  OBVIOUS
<1>6. ASSUME NEW k \in Int, NEW a \in -2..2, d = 12 * k + a
      PROVE  nearest = k
  <2>1. 2 * d + 12 = 24 * k + (2 * a + 12) /\ 2 * a + 12 \in 0..23
    BY <1>6
  <2>2. \A x \in Int : \A r \in 0..23 : (24 * x + r) \div 24 = x
    OBVIOUS
  <2> QED
    BY <2>1, <2>2
<1> HIDE DEF d, nearest, acc
<1>7. ASSUME acc \in -2..2
      PROVE  /\ Pitch(letter, acc, nearest - 1) \in Pitches
             /\ Pitch(letter, acc, nearest - 1).letter = letter
             /\ Pitch(letter, acc, nearest - 1).acc \in -2..2
             /\ Midi(Pitch(letter, acc, nearest - 1)) = Midi(p)
  <2>1. nearest - 1 \in Int
    BY <1>3
  <2>2. /\ Pitch(letter, acc, nearest - 1) \in Pitches
        /\ Midi(Pitch(letter, acc, nearest - 1)) = 12 * ((nearest - 1) + 1) + NaturalPc(letter) + acc
    BY <1>3, <2>1, MidiOf
  <2>3. Midi(Pitch(letter, acc, nearest - 1)) = Midi(p)
    BY <1>1, <1>2, <1>3, <1>5, <2>2
  <2> QED
    BY <1>7, <2>2, <2>3, PitchFields
<1>8. ASSUME NEW q \in Pitches, q.letter = letter, q.acc \in -2..2, Midi(q) = Midi(p)
      PROVE  acc = q.acc /\ q = Pitch(letter, acc, nearest - 1)
  <2>1. q.octave \in Int /\ q = Pitch(q.letter, q.acc, q.octave)
    BY DEF Pitches, Pitch
  <2>2. d = 12 * (q.octave + 1) + q.acc
    <3>1. Midi(p) = 12 * (q.octave + 1) + NaturalPc(letter) + q.acc
      BY <1>8 DEF Midi
    <3>2. q.acc \in Int /\ q.octave + 1 \in Int
      BY <1>8, <2>1
    <3>3. \A m, n, k, a \in Int : m = 12 * k + n + a => m - n = 12 * k + a
      OBVIOUS
    <3> QED
      BY <1>1, <1>5, <3>1, <3>2, <3>3
  <2>3. nearest = q.octave + 1
    BY <1>6, <1>8, <2>1, <2>2
  <2>4. acc = q.acc
    BY <1>3, <1>5, <1>8, <2>1, <2>2, <2>3
  <2> QED
    BY <1>8, <2>1, <2>3, <2>4
<1>9. CASE acc \in -2..2
  <2>1. Respelled(p, letter) = {Pitch(letter, acc, nearest - 1)}
    BY <1>4, <1>9 DEF Abs
  <2> QED
    BY <1>7, <1>8, <1>9, <2>1
<1>10. CASE acc \notin -2..2
  <2>1. Respelled(p, letter) = {}
    BY <1>3, <1>4, <1>10 DEF Abs
  <2> QED
    BY <1>8, <1>10, <2>1
<1> QED
  BY <1>9, <1>10

-----------------------------------------------------------------------------
(* Scales.                                                                 *)

\* A scale has semitones, and degree numbers for as many of them as it likes.
IsScale(def) ==
  /\ DOMAIN def.semitones \subseteq Nat /\ \A i \in DOMAIN def.semitones : def.semitones[i] \in Int
  /\ \A i \in DOMAIN def.numbers : def.numbers[i] \in Int

LEMMA ClassSounds ==
  ASSUME NEW p \in Pitches
  PROVE  ClassOf(p) \in Classes /\ PcOf(ClassOf(p)) = Midi(p) % 12
<1>1. p.letter \in Letters /\ p.acc \in Int /\ p.octave \in Int /\ NaturalPc(p.letter) \in Int
  BY NaturalRange DEF Pitches
<1>2. \A o, n, a \in Int : (12 * (o + 1) + n + a) % 12 = (n + a) % 12
  OBVIOUS
<1>3. Midi(p) % 12 = (NaturalPc(p.letter) + p.acc) % 12
  BY <1>1, <1>2 DEF Midi
<1>4. ClassOf(p) = [letter |-> p.letter, acc |-> p.acc]
  BY DEF ClassOf, Class
<1> QED
  BY <1>1, <1>3, <1>4 DEF Classes, PcOf

LEMMA DegreeNumberInt ==
  ASSUME NEW def, IsScale(def), NEW i \in DOMAIN def.semitones
  PROVE  DegreeNumber(def, i) \in Int
<1>1. i \in Int /\ def.semitones[i] \in Int
  BY DEF IsScale
<1>2. (def.semitones[i] % 12) + 1 \in 1..12
  BY <1>1
<1>3. \A k \in 1..12 : <<1, 2, 2, 3, 3, 4, 5, 5, 6, 6, 7, 7>>[k] \in Int
  OBVIOUS
<1>4. FallbackNumber(def.semitones[i], Len(def.semitones), i) \in Int
  BY <1>1, <1>2, <1>3 DEF FallbackNumber
<1>5. i \in DOMAIN def.numbers => ((def.numbers[i] - 1) % 7) + 1 \in Int
  BY DEF IsScale
<1> QED
  BY <1>4, <1>5 DEF DegreeNumber

\* Whatever letters a scale is spelled with, each of its tones sounds the
\* semitones it is above the tonic (ScaleInstance::spelled_degrees).
THEOREM DegreesSound ==
  ASSUME NEW def, IsScale(def), NEW tonic \in Classes, NEW i \in DOMAIN def.semitones
  PROVE  /\ SpelledDegrees(def, tonic)[i] \in Classes
         /\ PcOf(SpelledDegrees(def, tonic)[i]) = PitchClasses(def, tonic)[i]
         /\ PcOf(SpelledDegrees(def, tonic)[i]) = (PcOf(tonic) + def.semitones[i]) % 12
<1> DEFINE from == Pitch(tonic.letter, tonic.acc, 4)
           to == Transposed(from, DegreeNumber(def, i) - 1, def.semitones[i])
<1>1. tonic.letter \in Letters /\ tonic.acc \in Int /\ NaturalPc(tonic.letter) \in Int
  BY NaturalRange DEF Classes
<1>2. from \in Pitches /\ Midi(from) = 12 * (4 + 1) + NaturalPc(tonic.letter) + tonic.acc
  <2>1. \A o \in Int :
          /\ Pitch(tonic.letter, tonic.acc, o) \in Pitches
          /\ Midi(Pitch(tonic.letter, tonic.acc, o)) = 12 * (o + 1) + NaturalPc(tonic.letter) + tonic.acc
    BY <1>1, MidiOf
  <2> QED
    BY <2>1
<1>3. DegreeNumber(def, i) - 1 \in Int /\ def.semitones[i] \in Int
  BY DegreeNumberInt DEF IsScale
<1>4. SpelledDegrees(def, tonic)[i] = ClassOf(to)
  BY DEF SpelledDegrees
<1> HIDE DEF from
<1>5. to \in Pitches /\ Midi(to) = Midi(from) + def.semitones[i]
  BY <1>2, <1>3, TransposedLands
<1>6. \A n, a, s \in Int : (12 * (4 + 1) + n + a + s) % 12 = (((n + a) % 12) + s) % 12
  OBVIOUS
<1>7. Midi(to) % 12 = (PcOf(tonic) + def.semitones[i]) % 12
  BY <1>1, <1>2, <1>3, <1>5, <1>6 DEF PcOf
<1>8. PcOf(ClassOf(to)) = (PcOf(tonic) + def.semitones[i]) % 12 /\ ClassOf(to) \in Classes
  BY <1>5, <1>7, ClassSounds
<1>9. PitchClasses(def, tonic)[i] = (PcOf(tonic) + def.semitones[i]) % 12
  BY DEF PitchClasses
<1> QED
  BY <1>4, <1>8, <1>9

\* The pitch of a degree in an octave is the tonic's and its semitones on
\* (ScaleInstance::degree_pitch).
THEOREM DegreePitchSounds ==
  ASSUME NEW def, IsScale(def), NEW tonic \in Classes, NEW i \in DOMAIN def.semitones,
         NEW octave \in Int
  PROVE  Midi(DegreePitch(def, tonic, i, octave))
           = Midi(Pitch(tonic.letter, tonic.acc, octave)) + def.semitones[i]
<1> DEFINE base == Pitch(tonic.letter, tonic.acc, octave)
<1>1. tonic.letter \in Letters /\ tonic.acc \in Int /\ NaturalPc(tonic.letter) \in Int
  BY NaturalRange DEF Classes
<1>2. base \in Pitches
      /\ Midi(base) = 12 * (octave + 1) + NaturalPc(tonic.letter) + tonic.acc
  BY <1>1, MidiOf
<1>3. def.semitones[i] \in Int /\ Midi(base) \in Int
  BY <1>2, MidiInt DEF IsScale
<1>4. \A o, n, a, s \in Int : (12 * (o + 1) + n + a + s) % 12 = (((n + a) % 12) + s) % 12
  OBVIOUS
<1>5. (Midi(base) + def.semitones[i]) % 12 = (PcOf(tonic) + def.semitones[i]) % 12
  BY <1>1, <1>2, <1>3, <1>4 DEF PcOf
<1>6. DegreePitch(def, tonic, i, octave)
        = AtOctave(SpelledDegrees(def, tonic)[i], Midi(base) + def.semitones[i])
  BY DEF DegreePitch
<1> HIDE DEF base
<1>7. /\ SpelledDegrees(def, tonic)[i] \in Classes
      /\ PcOf(SpelledDegrees(def, tonic)[i]) = (Midi(base) + def.semitones[i]) % 12
  BY <1>5, DegreesSound
<1>8. Midi(base) + def.semitones[i] \in Int
  BY <1>3
<1>9. Midi(DegreePitch(def, tonic, i, octave)) = Midi(base) + def.semitones[i]
  BY <1>6, <1>7, <1>8, InItsOctave
<1> QED
  BY <1>9 DEF base

LEMMA LeastIs ==
  ASSUME NEW S \in SUBSET Nat, S # {}
  PROVE  Min(S) \in S
<1>1. PICK x \in S : \A y \in S : ~(<<y, x>> \in OpToRel(<, Nat))
  BY WFMin, NatLessThanWellFounded
<1>2. \A y \in S : ~(y < x)
  BY <1>1 DEF OpToRel
<1>3. \A y \in S : x <= y
  BY <1>2
<1> QED
  BY <1>3 DEF Min

LEMMA TablesSound ==
  ASSUME NEW pc \in 0..11
  PROVE  /\ SharpSpelling[pc + 1] \in Classes /\ PcOf(SharpSpelling[pc + 1]) = pc
         /\ FlatSpelling[pc + 1] \in Classes /\ PcOf(FlatSpelling[pc + 1]) = pc
<1>1. \A letter, acc : Class(letter, acc).letter = letter /\ Class(letter, acc).acc = acc
  BY DEF Class
<1>2. \A letter \in Letters : \A acc \in Int : Class(letter, acc) \in Classes
  BY DEF Class, Classes
<1>3. PcOf(SharpSpelling[pc + 1]) = pc
  BY <1>1, NaturalIs DEF SharpSpelling, PcOf
<1>4. PcOf(FlatSpelling[pc + 1]) = pc
  BY <1>1, NaturalIs DEF FlatSpelling, PcOf
<1>5. SharpSpelling[pc + 1] \in Classes
  BY <1>2 DEF SharpSpelling, Letters
<1>6. FlatSpelling[pc + 1] \in Classes
  BY <1>2 DEF FlatSpelling, Letters
<1> QED
  BY <1>3, <1>4, <1>5, <1>6

\* However a scale spells a MIDI number, it sounds that number; and a tone of
\* the scale is spelled as the scale spells it (ScaleInstance::spell).
THEOREM SpellingSounds ==
  ASSUME NEW def, IsScale(def), NEW tonic \in Classes, NEW midi \in Int
  PROVE  /\ Spell(def, tonic, midi) \in Pitches
         /\ Midi(Spell(def, tonic, midi)) = midi
         /\ (\E i \in DOMAIN def.semitones : PitchClasses(def, tonic)[i] = midi % 12) =>
              \E i \in DOMAIN def.semitones :
                ClassOf(Spell(def, tonic, midi)) = SpelledDegrees(def, tonic)[i]
<1> DEFINE pcs == PitchClasses(def, tonic)
           degrees == {i \in DOMAIN pcs : pcs[i] = midi % 12}
           table == IF PrefersFlats(def, tonic) THEN FlatSpelling ELSE SharpSpelling
           class == IF degrees # {} THEN SpelledDegrees(def, tonic)[Min(degrees)]
                    ELSE table[(midi % 12) + 1]
<1>1. Spell(def, tonic, midi) = AtOctave(class, midi)
  BY DEF Spell
<1>2. DOMAIN pcs = DOMAIN def.semitones /\ DOMAIN pcs \subseteq Nat
  BY DEF PitchClasses, IsScale
<1>3. ASSUME degrees # {}
      PROVE  /\ class \in Classes /\ PcOf(class) = midi % 12
             /\ \E i \in DOMAIN def.semitones : class = SpelledDegrees(def, tonic)[i]
  <2>1. Min(degrees) \in degrees
    <3>1. degrees \in SUBSET Nat
      BY <1>2
    <3> HIDE DEF degrees
    <3> QED
      BY <1>3, <3>1, LeastIs
  <2>2. Min(degrees) \in DOMAIN def.semitones /\ pcs[Min(degrees)] = midi % 12
    BY <1>2, <2>1
  <2>3. class = SpelledDegrees(def, tonic)[Min(degrees)]
    BY <1>3
  <2> HIDE DEF degrees, class
  <2>4. class \in Classes /\ PcOf(class) = pcs[Min(degrees)]
    BY <2>2, <2>3, DegreesSound
  <2> QED
    BY <2>2, <2>3, <2>4
<1>4. ASSUME degrees = {}
      PROVE  class \in Classes /\ PcOf(class) = midi % 12
  <2>1. midi % 12 \in 0..11
    OBVIOUS
  <2>2. class = table[(midi % 12) + 1]
    BY <1>4
  <2> HIDE DEF class
  <2>3. /\ table[(midi % 12) + 1] \in Classes
        /\ PcOf(table[(midi % 12) + 1]) = midi % 12
    BY <2>1, TablesSound
  <2> QED
    BY <2>2, <2>3
<1>5. class \in Classes /\ PcOf(class) = midi % 12
  BY <1>3, <1>4
<1>6. (\E i \in DOMAIN def.semitones : pcs[i] = midi % 12) => degrees # {}
  BY <1>2
<1> HIDE DEF class, degrees
<1>7. /\ AtOctave(class, midi) \in Pitches /\ ClassOf(AtOctave(class, midi)) = class
      /\ Midi(AtOctave(class, midi)) = midi
  BY <1>5, InItsOctave
<1> QED
  BY <1>1, <1>3, <1>6, <1>7

-----------------------------------------------------------------------------
(* Contexts of which one carries more than the other.                      *)

\* The same facts where there are any.
Keeps(f, g) == \A k : FactOf(f, k) # {} => FactOf(g, k) = FactOf(f, k)

\* d carries what c does and maybe more: facts, and assertions of predicates
\* that c leaves open.  A threshold is given with the facts it is applied to or
\* never: without one the default has been used already.
CarriesMore(c, d) ==
  /\ Keeps(c.num, d.num) /\ Keeps(c.str, d.str) /\ Keeps(c.list, d.list)
  /\ FactOf(d.num, "threshold") = FactOf(c.num, "threshold")
  /\ \A p \in DOMAIN c.bool : p \in DOMAIN d.bool /\ d.bool[p] = c.bool[p]
  /\ \A p \in DOMAIN d.bool \ DOMAIN c.bool : Derived(p, c) = "U"

Settled(s, t) == s # "U" => t = s

-----------------------------------------------------------------------------
(* Three-valued logic answers only what is settled.                        *)

LEMMA LogicSettles ==
  ASSUME NEW s, NEW t, NEW u, NEW v, Settled(s, t), Settled(u, v)
  PROVE  /\ Settled(Not(s), Not(t))
         /\ Settled(And(s, u), And(t, v)) /\ Settled(Or(s, u), Or(t, v))
<1>1. Settled(Not(s), Not(t))
  BY DEF Settled, Not
<1>2. Settled(And(s, u), And(t, v))
  BY DEF Settled, And
<1>3. Settled(Or(s, u), Or(t, v))
  BY DEF Settled, Or
<1> QED
  BY <1>1, <1>2, <1>3

\* A test of facts that are there is of the same facts later.
LEMMA TestedSettles ==
  ASSUME NEW c, NEW d, CarriesMore(c, d), NEW test
  PROVE  Settled(Tested(test, c), Tested(test, d))
<1>1. CASE test[1] = "text"
  BY <1>1 DEF Tested, CarriesMore, Keeps, Settled
<1>2. CASE test[1] = "pair"
  <2>1. /\ Tested(test, c) # "U" =>
             FactOf(c.num, test[2]) # {} /\ FactOf(c.num, test[4]) # {}
    BY <1>2 DEF Tested
  <2> QED
    BY <1>2, <2>1 DEF Tested, CarriesMore, Keeps, Settled
<1>3. CASE test[1] # "text" /\ test[1] # "pair"
  <2>1. /\ Tested(test, c) = IF FactOf(c.num, test[2]) = {} THEN "U"
             ELSE Known(\E x \in FactOf(c.num, test[2]) : Compared(test[1], x, test[3]))
        /\ Tested(test, d) = IF FactOf(d.num, test[2]) = {} THEN "U"
             ELSE Known(\E x \in FactOf(d.num, test[2]) : Compared(test[1], x, test[3]))
    BY <1>3 DEF Tested
  <2> QED
    BY <2>1 DEF CarriesMore, Keeps, Settled
<1> QED
  BY <1>1, <1>2, <1>3

LEMMA DegreeSettles ==
  ASSUME NEW c, NEW d, CarriesMore(c, d), NEW n
  PROVE  Settled(HasDegree(c, n), HasDegree(d, n))
BY DEF HasDegree, CarriesMore, Keeps, Settled

\* An assertion stays.
LEMMA AssertionSettles ==
  ASSUME NEW c, NEW d, CarriesMore(c, d), NEW p
  PROVE  Settled(Asserted(c, p), Asserted(d, p))
BY DEF Asserted, CarriesMore, Settled

-----------------------------------------------------------------------------
(* The predicates.                                                         *)

LEMMA SuspensionSettles ==
  ASSUME NEW c, NEW d, CarriesMore(c, d)
  PROVE  Settled(ThirdIsSuspended(c), ThirdIsSuspended(d))
<1> DEFINE by(x) == And(Not(HasDegree(x, 3)), Or(HasDegree(x, 4), HasDegree(x, 2)))
<1>1. Settled(by(c), by(d))
  <2>1. /\ Settled(HasDegree(c, 3), HasDegree(d, 3)) /\ Settled(HasDegree(c, 4), HasDegree(d, 4))
        /\ Settled(HasDegree(c, 2), HasDegree(d, 2))
    BY DegreeSettles
  <2>2. /\ Settled(Not(HasDegree(c, 3)), Not(HasDegree(d, 3)))
        /\ Settled(Or(HasDegree(c, 4), HasDegree(c, 2)), Or(HasDegree(d, 4), HasDegree(d, 2)))
    BY <2>1, LogicSettles
  <2> QED
    BY <2>2, LogicSettles
<1>2. \A x : ThirdIsSuspended(x) = OrElse(Asserted(x, "third_is_suspended"), by(x))
  BY DEF ThirdIsSuspended
<1>3. \A x : Derived("third_is_suspended", x) = ThirdIsSuspended(x)
  BY DEF Derived, ContentNames, Content
<1> HIDE DEF by
<1>4. CASE "third_is_suspended" \in DOMAIN c.bool
  <2>1. Asserted(d, "third_is_suspended") = Asserted(c, "third_is_suspended")
    BY <1>4 DEF Asserted, CarriesMore
  <2> QED
    BY <1>1, <1>2, <2>1 DEF OrElse, Settled
<1>5. CASE "third_is_suspended" \notin DOMAIN c.bool
  <2>1. Asserted(c, "third_is_suspended") = "U"
    BY <1>5 DEF Asserted
  <2>2. CASE "third_is_suspended" \in DOMAIN d.bool
    <3>1. ThirdIsSuspended(c) = "U"
      BY <1>3, <1>5, <2>2 DEF CarriesMore
    <3> QED
      BY <3>1 DEF Settled
  <2>3. CASE "third_is_suspended" \notin DOMAIN d.bool
    <3>1. Asserted(d, "third_is_suspended") = "U"
      BY <2>3 DEF Asserted
    <3> QED
      BY <1>1, <1>2, <2>1, <3>1 DEF OrElse, Settled
  <2> QED
    BY <2>2, <2>3
<1> QED
  BY <1>4, <1>5

LEMMA ContentSettles ==
  ASSUME NEW c, NEW d, CarriesMore(c, d), NEW p \in ContentNames
  PROVE  Settled(Content(p, c), Content(p, d))
<1>1. \A n : /\ Settled(HasDegree(c, n), HasDegree(d, n))
             /\ Settled(Not(HasDegree(c, n)), Not(HasDegree(d, n)))
  BY DegreeSettles, LogicSettles
<1>2. /\ Settled(ThirdIsSuspended(c), ThirdIsSuspended(d))
      /\ Settled(Not(ThirdIsSuspended(c)), Not(ThirdIsSuspended(d)))
  BY SuspensionSettles, LogicSettles
<1>3. Settled(Or(HasDegree(c, 3), HasDegree(c, 4)), Or(HasDegree(d, 3), HasDegree(d, 4)))
  BY <1>1, LogicSettles
<1>4. Settled(And(Or(HasDegree(c, 3), HasDegree(c, 4)), HasDegree(c, 7)),
              And(Or(HasDegree(d, 3), HasDegree(d, 4)), HasDegree(d, 7)))
  BY <1>1, <1>3, LogicSettles
<1>5. CASE p \in {"third_is_omitted", "fifth_is_omitted", "root_is_omitted", "seventh_is_present"}
  BY <1>1, <1>5 DEF Content
<1>6. CASE p \in {"third_is_suspended", "third_is_not_suspended"}
  BY <1>2, <1>6 DEF Content
<1>7. CASE p = "guide_tones_present"
  BY <1>4, <1>7 DEF Content
<1>8. CASE p = "chord_has_altered_tones"
  BY <1>8 DEF Content, CarriesMore, Keeps, Settled
<1> QED
  BY <1>5, <1>6, <1>7, <1>8 DEF ContentNames

LEMMA DegreeNameSettles ==
  ASSUME NEW c, NEW d, CarriesMore(c, d), NEW p \in DegreeNames
  PROVE  Settled(OfDegree(p, FactOf(c.num, "degree"), FactOf(c.list, "chord")),
                 OfDegree(p, FactOf(d.num, "degree"), FactOf(d.list, "chord")))
<1>1. /\ FactOf(c.num, "degree") # {} => FactOf(d.num, "degree") = FactOf(c.num, "degree")
      /\ FactOf(c.list, "chord") # {} => FactOf(d.list, "chord") = FactOf(c.list, "chord")
  BY DEF CarriesMore, Keeps
<1>2. CASE p = "melody_is_chord_tone"
  BY <1>1, <1>2 DEF OfDegree, Settled
<1>3. CASE p # "melody_is_chord_tone"
  <2>1. \A D, S, T : OfDegree(p, D, S) = OfDegree(p, D, T)
    BY <1>3 DEF OfDegree, DegreeNames
  <2>2. \A S : OfDegree(p, {}, S) = "U"
    BY DEF OfDegree
  <2> QED
    BY <1>1, <2>1, <2>2 DEF Settled
<1> QED
  BY <1>2, <1>3

LEMMA ComposedSettles ==
  ASSUME NEW c, NEW d, CarriesMore(c, d), NEW p \in ComposedNames
  PROVE  Settled(Composed(p, c), Composed(p, d))
<1>1. \A test : Settled(Tested(test, c), Tested(test, d))
  BY TestedSettles
<1>2. CASE p = "voice_exceeds_instrument_range"
  <2>1. Settled(OutOfRange(c), OutOfRange(d))
    BY <1>1, LogicSettles DEF OutOfRange
  <2> QED
    BY <1>2, <2>1 DEF Composed
<1>3. CASE p = "melody_note_is_structural"
  <2>1. Settled(Structural(c), Structural(d))
    BY <1>1 DEF Structural, CarriesMore
  <2> QED
    BY <1>3, <2>1 DEF Composed
<1>4. CASE p = "cluster_intent_is_false"
  <2>1. Settled(Not(Asserted(c, "intentional_cluster")), Not(Asserted(d, "intentional_cluster")))
    BY AssertionSettles, LogicSettles
  <2> QED
    BY <1>4, <2>1 DEF Composed
<1>5. CASE p = "quartal_or_planing_context"
  <2> DEFINE quartal == Text("voicing", {"quartal", "quintal"})
  <2>1. Settled(Asserted(c, "planing_context"), Asserted(d, "planing_context"))
    BY AssertionSettles
  <2>2. Settled(Tested(quartal, c), Tested(quartal, d))
    BY <1>1
  <2>3. Settled(Or(Tested(quartal, c), Asserted(c, "planing_context")),
                Or(Tested(quartal, d), Asserted(d, "planing_context")))
    BY <2>1, <2>2, LogicSettles
  <2> QED
    BY <1>5, <2>3 DEF Composed
<1>6. CASE p = "midi_pitch_out_of_range"
  <2>1. Settled(Or(Tested(Less("lowest_note", 0), c), Tested(More("highest_note", 127), c)),
                Or(Tested(Less("lowest_note", 0), d), Tested(More("highest_note", 127), d)))
    BY <1>1, LogicSettles
  <2> QED
    BY <1>6, <2>1 DEF Composed
<1> QED
  BY <1>2, <1>3, <1>4, <1>5, <1>6 DEF ComposedNames

LEMMA DerivedSettles ==
  ASSUME NEW c, NEW d, CarriesMore(c, d), NEW p
  PROVE  Settled(Derived(p, c), Derived(p, d))
<1>1. CASE p \in ContentNames
  BY <1>1, ContentSettles DEF Derived
<1>2. CASE p \in DegreeNames \ ContentNames
  BY <1>2, DegreeNameSettles DEF Derived
<1>3. CASE p \in ComposedNames \ (ContentNames \cup DegreeNames)
  BY <1>3, ComposedSettles DEF Derived
<1>4. CASE p \in DOMAIN Tests \ (ContentNames \cup DegreeNames \cup ComposedNames)
  BY <1>4, TestedSettles DEF Derived
<1>5. CASE p \notin DOMAIN Tests \cup ContentNames \cup DegreeNames \cup ComposedNames
  BY <1>5 DEF Derived, Settled
<1> QED
  BY <1>1, <1>2, <1>3, <1>4, <1>5

\* What Evaluator answers from the facts at hand it answers however the missing
\* ones turn out (evaluate, the derive functions, num_cmp, str_eq).
THEOREM FactsSettle ==
  ASSUME NEW c, NEW d, CarriesMore(c, d), NEW p, Evaluate(p, c) # "U"
  PROVE  Evaluate(p, d) = Evaluate(p, c)
<1>1. Settled(Derived(p, c), Derived(p, d))
  BY DerivedSettles
<1>2. CASE p \in DOMAIN c.bool
  <2>1. Asserted(d, p) = Asserted(c, p)
    BY <1>2 DEF Asserted, CarriesMore
  <2> QED
    BY <1>1, <2>1 DEF Evaluate, OrElse, Settled
<1>3. CASE p \notin DOMAIN c.bool
  <2>1. Derived(p, c) # "U" /\ Asserted(c, p) = "U"
    BY <1>3 DEF Evaluate, OrElse, Asserted
  <2>2. p \notin DOMAIN d.bool
    BY <1>3, <2>1 DEF CarriesMore
  <2>3. Asserted(d, p) = "U"
    BY <2>2 DEF Asserted
  <2> QED
    BY <1>1, <2>1, <2>3 DEF Evaluate, OrElse, Settled
<1> QED
  BY <1>2, <1>3

-----------------------------------------------------------------------------
(* Verdicts.                                                               *)

LEMMA SelectionStays ==
  ASSUME NEW c, NEW d, CarriesMore(c, d), NEW r, Selected(r, c),
         ChordDegrees(c) # {} => ChordDegrees(d) = ChordDegrees(c)
  PROVE  Selected(r, d)
<1>1. r.degrees # {} => \E have \in ChordDegrees(d) : r.degrees \subseteq have
  <2> SUFFICES ASSUME r.degrees # {}
               PROVE  \E have \in ChordDegrees(d) : r.degrees \subseteq have
    OBVIOUS
  <2>1. \E have \in ChordDegrees(c) : r.degrees \subseteq have
    BY DEF Selected
  <2>2. ChordDegrees(d) = ChordDegrees(c)
    BY <2>1
  <2> QED
    BY <2>1, <2>2
<1>2. r.role # {} => \E v \in FactOf(d.str, "role") : r.role \cap {v, "any"} # {}
  <2> SUFFICES ASSUME r.role # {}
               PROVE  \E v \in FactOf(d.str, "role") : r.role \cap {v, "any"} # {}
    OBVIOUS
  <2>1. \E v \in FactOf(c.str, "role") : r.role \cap {v, "any"} # {}
    BY DEF Selected
  <2>2. FactOf(d.str, "role") = FactOf(c.str, "role")
    BY <2>1 DEF CarriesMore, Keeps
  <2> QED
    BY <2>1, <2>2
<1> QED
  BY <1>1, <1>2 DEF Selected

\* A rule that has spoken on some facts of an event is, when more of them come
\* in, only ever taken back by an exception (evaluate_rule); the chord's degrees,
\* where there are any, are those the rule was selected by.
THEOREM VerdictsSettle ==
  ASSUME NEW c, NEW d, CarriesMore(c, d), d.event = c.event,
         ChordDegrees(c) # {} => ChordDegrees(d) = ChordDegrees(c),
         NEW r, NEW prof, Status(r, c, prof) # "not_applicable"
  PROVE  Status(r, d, prof) \in {Status(r, c, prof), "bypassed"}
<1> DEFINE heard(x) == r.event = x.event /\ Selected(r, x) /\ InChain(r, prof) /\ Enabled(r, prof)
           aside(x) == \E p \in r.exceptions : Evaluate(p, x) = "T"
           speaks == IF Rejects(r.kind) /\ r.delta < 0 THEN "violated" ELSE "applied"
<1>1. \A x : Status(r, x, prof) = IF heard(x)
                                  THEN IF aside(x) THEN "bypassed"
                                       ELSE IF Holding(r.conditions, x) THEN speaks
                                       ELSE "not_applicable"
                                  ELSE "not_applicable"
  BY DEF Status
<1>2. heard(c) => heard(d)
  BY SelectionStays
<1>3. aside(c) => aside(d)
  BY FactsSettle
<1>4. Holding(r.conditions, c) => Holding(r.conditions, d)
  BY FactsSettle DEF Holding
<1> HIDE DEF heard, aside, speaks
<1> QED
  BY <1>1, <1>2, <1>3, <1>4

\* A rule of which a condition is known not to be met never speaks again,
\* whatever else becomes known.
THEOREM RefutedForGood ==
  ASSUME NEW c, NEW d, CarriesMore(c, d), NEW r, NEW prof,
         NEW p \in r.conditions, Evaluate(p, c) = "F"
  PROVE  Status(r, d, prof) \in {"bypassed", "not_applicable"}
<1>1. Evaluate(p, d) = "F"
  BY FactsSettle
<1>2. ~Holding(r.conditions, d)
  BY <1>1 DEF Holding
<1> QED
  BY <1>2 DEF Status
===============================================================================
