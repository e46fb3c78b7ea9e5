-------------------------------- MODULE Chords --------------------------------
(***************************************************************************)
(* What a chord symbol means (chord.rs of music-domain): its degrees, how  *)
(* they are spelled and sound, and the families it is sorted into.         *)
(*                                                                         *)
(* A degree is <<number, alteration>>.  The extensions, added tones,       *)
(* alterations and omissions of a chord are sets, in the code sorted lists *)
(* without duplicates; its slash bass is a set of at most one class.       *)
(***************************************************************************)
EXTENDS Spelling

Triads == {"major", "minor", "diminished", "augmented", "sus2", "sus4", "power", "omitted"}
Sevenths == {"none", "major", "minor", "diminished", "augmented_major"}

DegreeSemitones == <<0, 2, 4, 5, 7, 9, 11, 12, 14, 16, 17, 19, 21>>

SemitonesFromRoot(d) == DegreeSemitones[d[1]] + d[2]

\* ChordDegree::interval.
IntervalOf(d) ==
  LET simple == ((d[1] - 1) % 7) + 1
      quality == CASE d[2] > 0 -> Augmented(d[2])
                   [] d[2] = 0 -> IF IsPerfectNumber(simple) THEN Perfect ELSE Major
                   [] d[2] = -1 /\ ~IsPerfectNumber(simple) -> Minor
                   [] d[2] < 0 /\ IsPerfectNumber(simple) -> Diminished(-d[2])
                   [] OTHER -> Diminished(-d[2] - 1)
  IN CHOOSE i \in NewInterval(d[1], quality) : TRUE

\* The third, or what stands for it; unless it is omitted.
Third(spec) ==
  CASE spec.triad \in {"major", "augmented"} -> {<<3, 0>>} \ {<<n, 0>> : n \in spec.omissions}
    [] spec.triad \in {"minor", "diminished"} -> {<<3, -1>>} \ {<<n, -1>> : n \in spec.omissions}
    [] spec.triad = "sus2" -> {<<2, 0>>}
    [] spec.triad = "sus4" -> {<<4, 0>>}
    [] OTHER -> {}

Fifth(spec) ==
  LET altered == {d \in spec.alterations : d[1] = 5}
      natural == CASE spec.triad = "diminished" -> -1
                   [] spec.triad = "augmented" -> 1
                   [] OTHER -> 0
  IN IF 5 \in spec.omissions \/ spec.triad = "omitted" THEN {}
     ELSE {<<5, IF altered = {} THEN natural ELSE Min({d[2] : d \in altered})>>}

Seventh(spec) ==
  CASE spec.seventh = "none" -> {}
    [] spec.seventh \in {"major", "augmented_major"} -> {<<7, 0>>}
    [] spec.seventh = "minor" -> {<<7, -1>>}
    [] spec.seventh = "diminished" -> {<<7, -2>>}

\* Mutant of Degrees: an altered extension sounds beside the natural one.
Degrees_BothNinths(spec) ==
  ({<<1, 0>>} \ {<<n, 0>> : n \in spec.omissions}) \cup Third(spec) \cup Fifth(spec)
  \cup Seventh(spec) \cup spec.extensions \cup spec.added
  \cup {d \in spec.alterations : d[1] # 5}

\* chord_tones: the degrees that sound.
Degrees(spec) ==
  ({<<1, 0>>} \ {<<n, 0>> : n \in spec.omissions}) \cup Third(spec) \cup Fifth(spec)
  \cup Seventh(spec)
  \cup {e \in spec.extensions : \A a \in spec.alterations : a[1] # e[1]}
  \cup spec.added
  \cup {d \in spec.alterations : d[1] # 5}

\* In ascending order, of one number the flatter first.
Ordered(degrees) ==
  SetToSortSeq(degrees, LAMBDA d, e : d[1] < e[1] \/ (d[1] = e[1] /\ d[2] < e[2]))

\* How a degree of the chord is spelled.
Spelled(spec, d) == ClassOf(Transpose(Pitch(spec.root.letter, spec.root.acc, 4), IntervalOf(d)))

ChordPitchClasses(spec) == {PcOf(Spelled(spec, d)) : d \in Degrees(spec)}

\* Mutant of GuideTones: what is omitted still guides.
GuideTones_Omitted(spec) == Third([spec EXCEPT !.omissions = {}]) \cup Seventh(spec)

\* guide_tones: the third and the seventh, or the sixth where there is none.
GuideTones(spec) ==
  LET sixths == {d \in spec.added : d[1] = 6}
  IN Third(spec)
     \cup (IF spec.seventh # "none" THEN Seventh(spec)
           ELSE IF sixths = {} THEN {} ELSE {<<6, Min({d[2] : d \in sixths})>>})

\* degree_of_pc: the first degree that sounds pc.
DegreeOfPc(spec, pc) ==
  LET sounding == {d \in Degrees(spec) : PcOf(Spelled(spec, d)) = pc}
  IN IF sounding = {} THEN {} ELSE {Head(Ordered(sounding))}

BassPc(spec) == IF spec.bass = {} THEN PcOf(spec.root) ELSE PcOf(CHOOSE b \in spec.bass : TRUE)

\* ChordSpec::transpose.
TransposeChord(spec, i) ==
  LET move(c) == ClassOf(Transpose(Pitch(c.letter, c.acc, 4), i))
  IN [spec EXCEPT !.root = move(@), !.bass = {move(b) : b \in @}]

IsDominantFamily(spec) ==
  \/ spec.alt
  \/ spec.seventh = "minor" /\ spec.triad \in {"major", "augmented", "sus2", "sus4", "omitted"}

IsMajorFamily(spec) ==
  /\ spec.triad = "major" /\ ~spec.alt
  /\ spec.seventh \in {"none", "major", "augmented_major"}

\* Mutant of FamilyId: a minor seventh makes a dominant of any triad.
FamilyId_BySeventh(spec) ==
  CASE spec.seventh = "minor" -> "dominant" [] spec.triad = "minor" -> "minor" [] OTHER -> "major"

FamilyId(spec) ==
  LET dominant == spec.seventh = "minor"
  IN CASE spec.triad = "power" -> "power"
       [] spec.triad \in {"sus2", "sus4"} -> "sus"
       [] spec.triad = "diminished" -> IF dominant THEN "half_dim" ELSE "dim"
       [] spec.triad = "augmented" -> IF dominant THEN "dominant" ELSE "aug"
       [] spec.triad = "minor" -> "minor"
       [] OTHER -> IF dominant \/ spec.alt THEN "dominant" ELSE "major"
=============================================================================
