----------------------------- MODULE NonChordTones -----------------------------
(***************************************************************************)
(* What a melody note is to the harmony under it (nct.rs): read from how   *)
(* it is reached and left and how heavy it is, with a confidence, and      *)
(* sometimes in more ways than one.                                        *)
(*                                                                         *)
(* A chord is its onset, end and pitch classes.  Confidences are in        *)
(* millionths.  What the rule of a figure says of it is given: it applies, *)
(* is bypassed, says something else, or there is no such rule.             *)
(***************************************************************************)
EXTENDS MelodyForm

CONSTANTS MaxHypotheses

HypothesisLimit == MaxHypotheses \in Nat

LOCAL Least(a, b) == IF a <= b THEN a ELSE b
LOCAL Within(x, low, high) == IF x < low THEN low ELSE IF x > high THEN high ELSE x
LOCAL AbsOf(n) == IF n < 0 THEN -n ELSE n
LOCAL SignOf(n) == IF n < 0 THEN -1 ELSE IF n > 0 THEN 1 ELSE 0

Pc(n) == n.midi % 12
EndOf(n) == n.onset + n.length

\* chord_at: the first chord that sounds, else the last that has begun.
ChordAt(harmony, q) ==
  LET sounding == {k \in DOMAIN harmony : harmony[k].onset <= q /\ q < harmony[k].end}
      begun == {k \in DOMAIN harmony : harmony[k].onset <= q}
  IN IF sounding # {} THEN {harmony[Min(sounding)]}
     ELSE IF begun # {} THEN {harmony[Max(begun)]} ELSE {}

ChordAfter(harmony, q) ==
  LET later == {k \in DOMAIN harmony : \E here \in ChordAt(harmony, q) : harmony[k].onset > here.onset}
  IN IF later = {} THEN {} ELSE {harmony[Min(later)]}

IsChordTone(n, harmony) == \E c \in ChordAt(harmony, n.onset) : Pc(n) \in c.tones

\* anticipates: a pitch of the coming chord right before it.
Anticipates(notes, i, harmony) ==
  LET n == notes[i]
  IN \E coming \in ChordAfter(harmony, n.onset) :
       /\ \/ i < Len(notes) /\ notes[i + 1].midi = n.midi /\ notes[i + 1].onset >= coming.onset
          \/ Pc(n) \in coming.tones
       /\ EndOf(n) >= coming.onset

\* is_pedal, as the name says of a pitch held across a change of harmony.
IsPedal(n, harmony) ==
  Cardinality({k \in DOMAIN harmony : harmony[k].onset < EndOf(n) /\ harmony[k].end > n.onset}) >= 2

\* Mutant of Encloses: only from above and then from below.
Encloses_Falling(a, b, target) == a > target /\ b < target /\ AbsOf(a - target) <= 2 /\ AbsOf(b - target) <= 2

Encloses(a, b, target) ==
  /\ SignOf(a - target) * SignOf(b - target) = -1
  /\ AbsOf(a - target) <= 2 /\ AbsOf(b - target) <= 2

Shape(kind, ruled, base) == [kind |-> kind, ruled |-> ruled, base |-> base]

(* How a note is reached and left, by the steps in and out of it.          *)
StepsIn(notes, i) == IF i > 1 THEN {notes[i].midi - notes[i - 1].midi} ELSE {}
StepsOut(notes, i) == IF i < Len(notes) THEN {notes[i + 1].midi - notes[i].midi} ELSE {}
Sizes(steps) == {AbsOf(v) : v \in steps}
Turning(in, out) == {SignOf(a) * SignOf(b) : a \in in, b \in out}

\* Mutant of Motion: a leap in begins at the whole tone.
Motion_Wide(in, out) ==
  [in |-> in, out |-> out,
   stepIn |-> Sizes(in) \cap (1..2) # {}, stepOut |-> Sizes(out) \cap (1..2) # {},
   leapIn |-> \E v \in Sizes(in) : v >= 2, leapOut |-> \E v \in Sizes(out) : v > 2,
   same |-> Turning(in, out) = {1}, opposite |-> Turning(in, out) = {-1},
   returns |-> {a + b : a \in in, b \in out} = {0}, prepared |-> in = {0}]

Motion(in, out) ==
  [in |-> in, out |-> out,
   stepIn |-> Sizes(in) \cap (1..2) # {}, stepOut |-> Sizes(out) \cap (1..2) # {},
   leapIn |-> \E v \in Sizes(in) : v > 2, leapOut |-> \E v \in Sizes(out) : v > 2,
   same |-> Turning(in, out) = {1}, opposite |-> Turning(in, out) = {-1},
   returns |-> {a + b : a \in in, b \in out} = {0}, prepared |-> in = {0}]

OnlyIf(condition, shape) == IF condition THEN {shape} ELSE {}

\* The figures of a note that is no chord tone.
DissonantShapes(m, strong, anticipates, chromatic) ==
  OnlyIf(m.stepIn /\ m.stepOut /\ m.same, Shape("passing", TRUE, IF strong THEN 550000 ELSE 850000))
  \cup OnlyIf(m.stepIn /\ m.stepOut /\ m.returns,
              Shape("neighbor", TRUE, IF strong THEN 600000 ELSE 850000))
  \cup OnlyIf(m.prepared /\ strong /\ m.out \cap {-2, -1} # {}, Shape("suspension", TRUE, 850000))
  \cup OnlyIf(m.prepared /\ strong /\ m.out \cap {1, 2} # {}, Shape("retardation", TRUE, 800000))
  \cup OnlyIf(strong /\ m.leapIn /\ m.stepOut /\ ~m.prepared,
              Shape("appoggiatura", TRUE, IF \E v \in Sizes(m.in) : v > 7 THEN 800000 ELSE 650000))
  \cup OnlyIf(~strong /\ m.stepIn /\ m.leapOut /\ m.opposite, Shape("escape_tone", TRUE, 750000))
  \cup OnlyIf(~strong /\ anticipates, Shape("anticipation", TRUE, 750000))
  \cup OnlyIf(chromatic /\ Sizes(m.out) = {1},
              Shape("chromatic_approach", TRUE, IF strong THEN 600000 ELSE 800000))

\* realise: the confidence in a figure, by what its rule says of it.
Realised(shape, ruling) ==
  [kind |-> shape.kind,
   confidence |->
     IF ~shape.ruled THEN shape.base
     ELSE CASE ruling.status = "applied" ->
                 Within((ruling.confidence * Within(ruling.multiplier, 50, 150)) \div 100, 0, 1000000)
            [] ruling.status = "bypassed" -> (shape.base * 60) \div 100
            [] OTHER -> (shape.base * 85) \div 100]

OtherReading(kind) ==
  CASE kind = "passing" -> "appoggiatura" [] kind = "appoggiatura" -> "passing"
    [] kind = "suspension" -> "appoggiatura" [] kind = "neighbor" -> "passing"
    [] OTHER -> "decorative"

\* Mutant of Alternate: nobody asks the rule.
Alternate_Unruled(found, ruling) ==
  IF Cardinality(found) >= 2 THEN {}
  ELSE {[kind |-> OtherReading(h.kind), confidence |-> 480000]
          : h \in {g \in found : g.kind # OtherReading(g.kind)}}

\* ambiguity_alternate: the other reading of a tone with only one, if the rule
\* of ambiguous tones applies.
Alternate(found, ruling) ==
  IF Cardinality(found) >= 2 \/ ruling.status # "applied" THEN {}
  ELSE {[kind |-> OtherReading(h.kind), confidence |-> (ruling.confidence * 60) \div 100]
          : h \in {g \in found : g.kind # OtherReading(g.kind)}}

\* The kinds by their names, which break ties.
KindOrder == <<"anticipation", "appoggiatura", "chord_tone", "chromatic_approach", "decorative",
               "enclosure", "escape_tone", "neighbor", "passing", "pedal_tone", "retardation",
               "suspension">>
ByName(found) ==
  FlattenSeq([k \in DOMAIN KindOrder |-> SetToSeq({h \in found : h.kind = KindOrder[k]})])

\* Mutant of Ranked: the surest goes last.
Ranked_Unsure(found) == SortSeq(ByName(found), LAMBDA g, h : g.confidence < h.confidence)

\* The surest readings, at least one.
Ranked(found) ==
  SubSeq(SortSeq(ByName(found), LAMBDA g, h : g.confidence > h.confidence),
         1, Least(Cardinality(found), IF MaxHypotheses < 1 THEN 1 ELSE MaxHypotheses))

\* The figures, and the roles a note has whatever its figure.
Shapes(notes, i, harmony, scale, map, chordTone) ==
  (IF chordTone THEN {Shape("chord_tone", FALSE, 900000)}
   ELSE DissonantShapes(Motion(StepsIn(notes, i), StepsOut(notes, i)),
                        MetricWeight(map, notes[i].onset) >= 50,
                        Anticipates(notes, i, harmony),
                        scale # {} /\ Pc(notes[i]) \notin scale))
  \cup OnlyIf(IsPedal(notes[i], harmony),
              Shape("pedal_tone", FALSE, IF chordTone THEN 550000 ELSE 700000))
  \cup OnlyIf(i + 2 <= Len(notes) /\ Encloses(notes[i].midi, notes[i + 1].midi, notes[i + 2].midi),
              Shape("enclosure", FALSE, 600000))

WithAlternate(found, chordTone, ruling) ==
  found \cup (IF chordTone THEN {} ELSE Alternate(found, ruling))

Realise(shapes, rulings) ==
  {Realised(s, IF s.ruled THEN rulings[s.kind] ELSE [status |-> "none"])
     : s \in IF shapes = {} THEN {Shape("decorative", FALSE, 400000)} ELSE shapes}

\* classify_ncts_in_key, of note i.
Classified(notes, i, harmony, scale, map, rulings) ==
  Ranked(WithAlternate(
    Realise(Shapes(notes, i, harmony, scale, map, IsChordTone(notes[i], harmony)), rulings),
    IsChordTone(notes[i], harmony), rulings["ambiguous"]))
=============================================================================
