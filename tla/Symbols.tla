------------------------------- MODULE Symbols --------------------------------
(***************************************************************************)
(* Chords, pitches and intervals as text: the parser of chord symbols      *)
(* (symbol.rs), the symbol a chord is written with (chord.rs) and the      *)
(* names of degrees, pitches and intervals (chord.rs, pitch.rs,            *)
(* interval.rs of music-domain).                                           *)
(*                                                                         *)
(* A text is a sequence of tokens: digits and signs one character each,    *)
(* and the words of the alias table.  No two words run together into a     *)
(* third, so that the longest alias of the characters is the longest of    *)
(* the tokens.  What is not ASCII has a word: flat, sharp, dflat, dsharp   *)
(* and natural for the accidentals, delta, degree, oslash and Oslash.      *)
(* Numbers that do not fit in 32 bits are left out, and so is the place    *)
(* of an error.  A parse is a set: empty for an error.                     *)
(***************************************************************************)
EXTENDS Chords, TLC

CONSTANT MaxGroupDepth      \* groups open at once

Upper == <<"C", "D", "E", "F", "G", "A", "B">>
Lower == <<"c", "d", "e", "f", "g", "a", "b">>
Digits == <<"0", "1", "2", "3", "4", "5", "6", "7", "8", "9">>
Blanks == {" ", "tab"}

LetterOf(token) == {l \in Letters : token \in {Upper[l + 1], Lower[l + 1]}}

After(text, n) == SubSeq(text, n + 1, Len(text))
Starts(text, with) == Len(with) <= Len(text) /\ SubSeq(text, 1, Len(with)) = with

\* How many tokens at the start of a text are among these.
Leading(text, tokens) ==
  CHOOSE n \in 0..Len(text) : /\ \A i \in 1..n : text[i] \in tokens
                              /\ n < Len(text) => text[n + 1] \notin tokens

\* The semitones of an accidental: in a class, in front of a degree, after add.
ClassSteps == ("b" :> -1) @@ ("flat" :> -1) @@ ("#" :> 1) @@ ("sharp" :> 1) @@ ("x" :> 2)
              @@ ("dsharp" :> 2) @@ ("dflat" :> -2) @@ ("natural" :> 0)
DegreeSteps == [t \in DOMAIN ClassSteps \ {"x", "natural"} |-> ClassSteps[t]]
MarkedSteps == DegreeSteps @@ ("-" :> -1) @@ ("+" :> 1)

Sum(steps, accidentals) == FoldLeft(LAMBDA sum, t : sum + steps[t], 0, accidentals)

\* take_digits and peek_digits.
DigitOf(d) == CHOOSE k \in 0..9 : Digits[k + 1] = d
ReadNumber(text) ==
  LET n == Leading(text, Range(Digits))
  IN IF n = 0 THEN {}
     ELSE {[value |-> FoldLeft(LAMBDA v, d : 10 * v + DigitOf(d), 0, SubSeq(text, 1, n)),
            rest |-> After(text, n)]}

\* Accidentals with these steps, then a number.
ReadDegree(text, steps) ==
  LET n == Leading(text, DOMAIN steps)
  IN {[alter |-> Sum(steps, SubSeq(text, 1, n)), value |-> r.value, rest |-> r.rest]
        : r \in ReadNumber(After(text, n))}

\* A letter and its accidentals.
ReadClass(text) ==
  LET n == Leading(Tail(text), DOMAIN ClassSteps)
  IN IF text = <<>> THEN {}
     ELSE {[class |-> Class(l, Sum(ClassSteps, SubSeq(Tail(text), 1, n))), rest |-> After(Tail(text), n)]
             : l \in LetterOf(Head(text))}

-----------------------------------------------------------------------------
(* The parser.                                                             *)

\* CHORD_ALIASES, by what they mean.
Aliases ==
  [major |-> {<<"maj">>, <<"Maj">>, <<"MAJ">>, <<"ma">>, <<"M">>},
   seventh |-> {<<"delta">>, <<"^">>},
   minor |-> {<<"min">>, <<"Min">>, <<"MIN">>, <<"mi">>, <<"m">>, <<"-">>},
   diminished |-> {<<"dim">>, <<"Dim">>, <<"degree">>, <<"o">>},
   half |-> {<<"oslash", "7">>, <<"Oslash", "7">>, <<"oslash">>, <<"Oslash">>, <<"%">>},
   augmented |-> {<<"aug">>, <<"Aug">>, <<"+">>},
   sus2 |-> {<<"sus", "2">>, <<"sus", "9">>}, sus4 |-> {<<"sus", "4">>, <<"sus">>},
   add |-> {<<"add">>}, omit |-> {<<"omit">>, <<"no">>}, alt |-> {<<"alt">>},
   sixNine |-> {<<"6", "/", "9">>, <<"6", "9">>}, power |-> {<<"5">>}]
DigitOnly == {<<"ma">>}

\* match_alias: the longest, of which there is one.
Matching(text) ==
  UNION {{[kind |-> k, length |-> Len(a)]
            : a \in {x \in Aliases[k] : /\ Starts(text, x)
                                        /\ x \in DigitOnly => ReadNumber(After(text, Len(x))) # {}}}
         : k \in DOMAIN Aliases}
MatchAlias(text) == {a \in Matching(text) : \A b \in Matching(text) : b.length <= a.length}

\* What the parser has when it has read the root: of what was named at most
\* once, the set of it.
Opened(root, rest) ==
  [root |-> root, rest |-> rest, depth |-> 0, triad |-> {}, sus |-> {}, power |-> FALSE, seventh |-> {},
   extensions |-> {}, added |-> {}, alterations |-> {}, omissions |-> {}, bass |-> {}, alt |-> FALSE]

QualityStarted(p) == p.triad # {} \/ p.seventh # {} \/ p.power \/ p.sus # {}

Forced(p, quality) == [p EXCEPT !.seventh = {quality}]
ImpliedSeventh(p) == IF p.triad = {"diminished"} THEN "diminished" ELSE "minor"
WithSeventh(p) == IF p.seventh = {} THEN Forced(p, ImpliedSeventh(p)) ELSE p
Named(p, triad) == IF p.triad = {} THEN [p EXCEPT !.triad = {triad}] ELSE p
Added(p, number, alter) == [p EXCEPT !.added = @ \union {<<number, alter>>}]

\* push_stack: in a group the number alone, outside all below it too.
Stacked(p, n) ==
  [p EXCEPT !.extensions = @ \union {<<k, 0>> : k \in IF p.depth > 0 THEN {n} ELSE {9, 11, 13} \intersect 9..n}]

\* A sixth, and the ninth if one of the tails that write it follows.
SixAnd(p, tails) ==
  LET here == {t \in tails : Starts(p.rest, t)}
  IN IF here = {} THEN Added(p, 6, 0)
     ELSE LET t == CHOOSE x \in here : TRUE
          IN Added(Added([p EXCEPT !.rest = After(@, Len(t))], 6, 0), 9, 0)

Power(p) == IF p.triad # {} \/ p.seventh # {} THEN {} ELSE {[p EXCEPT !.power = TRUE]}

\* apply_degree_token.
Raised == [alter \in -2..0 |-> CASE alter = 0 -> "major" [] alter = -1 -> "minor" [] alter = -2 -> "diminished"]
ApplyDegree(p, number, alter) ==
  IF alter \notin -2..2 THEN {}
  ELSE CASE number = 7 -> {Forced(p, Raised[alter]) : a \in {alter} \intersect DOMAIN Raised}
         [] number \in {3, 4, 5, 9, 11, 13} -> {[p EXCEPT !.alterations = @ \union {<<number, alter>>}]}
         [] number \in {2, 6} -> {Added(p, number, alter)}
         [] OTHER -> {}

\* apply_number.
ApplyNumber(p, n) ==
  CASE n = 5 -> Power(p)
    [] n = 6 -> {SixAnd(p, {<<"9">>, <<"/", "9">>})}
    [] n = 7 -> {WithSeventh(p)}
    [] n \in {9, 11, 13} -> {Stacked(WithSeventh(p), n)}
    [] n \in {2, 4} -> {Added(p, n, 0)}
    [] OTHER -> {}

\* A major marker: of the seventh if a number follows, else of the triad.
MajorNumber(p, n) ==
  CASE n = 6 -> {SixAnd(p, {<<"9">>})}
    [] n = 7 -> {Forced(p, "major")}
    [] n \in {9, 11, 13} -> {Stacked(Forced(p, "major"), n)}
    [] OTHER -> {}
MajorMarker(p, bare) ==
  IF ReadNumber(p.rest) = {} THEN {bare}
  ELSE UNION {MajorNumber([p EXCEPT !.rest = r.rest], r.value) : r \in ReadNumber(p.rest)}

\* apply_alias; p has read the alias.
ApplyAlias(p, kind) ==
  CASE kind = "major" -> MajorMarker(p, Named(p, "major"))
    [] kind = "seventh" -> MajorMarker(p, Forced(p, "major"))
    [] kind = "minor" -> {Named(p, "minor")}
    [] kind \in {"diminished", "augmented"} -> {[p EXCEPT !.triad = {kind}]}
    [] kind = "half" -> {Forced([p EXCEPT !.triad = {"diminished"}], "minor")}
    [] kind \in {"sus2", "sus4"} -> {[p EXCEPT !.sus = {kind}]}
    [] kind = "add" -> {Added([p EXCEPT !.rest = r.rest], r.value, r.alter)
                          : r \in {d \in ReadDegree(p.rest, MarkedSteps) : d.value \in 1..13 /\ d.alter \in -2..2}}
    [] kind = "omit" -> {[p EXCEPT !.rest = r.rest, !.omissions = @ \union {r.value}]
                           : r \in {n \in ReadNumber(p.rest) : n.value \in 1..13}}
    [] kind = "alt" -> {[IF p.seventh = {} THEN Forced(p, "minor") ELSE p EXCEPT !.alt = TRUE]}
    [] kind = "sixNine" -> {Added(Added(p, 6, 0), 9, 0)}
    [] kind = "power" -> Power(p)

\* modifier_token: a signed degree once a quality is named, an altered
\* degree, an alias or a number, in this order.  -7 is no lowered seventh.
SignedAlterable == {5, 6, 9, 11, 13}
Signed(p) ==
  IF ~QualityStarted(p) \/ Head(p.rest) \notin {"-", "+"} THEN {}
  ELSE {r \in ReadNumber(Tail(p.rest)) : r.value \in SignedAlterable}
Altered(p) ==
  IF Head(p.rest) \notin DOMAIN DegreeSteps THEN {} ELSE ReadDegree(p.rest, DegreeSteps)
ModifierToken(p) ==
  CASE Signed(p) # {} ->
         UNION {ApplyDegree([p EXCEPT !.rest = r.rest], r.value, MarkedSteps[Head(p.rest)]) : r \in Signed(p)}
    [] Signed(p) = {} /\ Altered(p) # {} ->
         UNION {ApplyDegree([p EXCEPT !.rest = r.rest], r.value, r.alter) : r \in Altered(p)}
    [] OTHER ->
         IF MatchAlias(p.rest) # {}
         THEN UNION {ApplyAlias([p EXCEPT !.rest = After(@, a.length)], a.kind) : a \in MatchAlias(p.rest)}
         ELSE UNION {ApplyNumber([p EXCEPT !.rest = r.rest], r.value) : r \in ReadNumber(p.rest)}

\* slash: an added degree, or the bass, which ends the symbol.
Slash(p, text) ==
  IF ReadNumber(text) # {}
  THEN {Added([p EXCEPT !.rest = r.rest], r.value, 0) : r \in {n \in ReadNumber(text) : n.value \in 1..13}}
  ELSE {[p EXCEPT !.rest = <<>>, !.bass = {r.class}]
          : r \in {c \in ReadClass(text) : c.class.acc \in -2..2 /\ Leading(c.rest, Blanks) = Len(c.rest)}}

\* One turn of the modifier loop; a group is a loop of its own that ends at
\* the parenthesis that closes it.
ModifierStep(p) ==
  LET c == Head(p.rest)
  IN CASE c \in Blanks \union {","} -> {[p EXCEPT !.rest = Tail(@)]}
       [] c = ")" -> IF p.depth = 0 THEN {} ELSE {[p EXCEPT !.rest = Tail(@), !.depth = @ - 1]}
       [] c = "(" -> IF p.depth = MaxGroupDepth THEN {} ELSE {[p EXCEPT !.rest = Tail(@), !.depth = @ + 1]}
       [] c = "/" -> Slash(p, Tail(p.rest))
       [] OTHER -> ModifierToken(p)

RECURSIVE Modified(_)
Modified(p) ==
  IF p.rest = <<>> THEN {q \in {p} : q.depth = 0} ELSE UNION {Modified(q) : q \in ModifierStep(p)}

\* Mutant of Finish: a minor chord with a lowered fifth is left one.
Finish_MinorFlatFive(p) ==
  [root |-> p.root,
   triad |-> IF p.sus # {} THEN CHOOSE s \in p.sus : TRUE ELSE IF p.power THEN "power"
             ELSE IF p.triad = {} THEN "major" ELSE CHOOSE t \in p.triad : TRUE,
   seventh |-> IF p.seventh = {} THEN "none" ELSE CHOOSE s \in p.seventh : TRUE,
   extensions |-> p.extensions, added |-> p.added, alterations |-> p.alterations,
   omissions |-> p.omissions, bass |-> p.bass, alt |-> p.alt]

\* finish: m7b5 is one chord with the half-diminished, however it is written.
Finish(p) ==
  LET triad == CASE p.sus # {} -> CHOOSE s \in p.sus : TRUE
                 [] p.sus = {} /\ p.power -> "power"
                 [] OTHER -> IF p.triad = {} THEN "major" ELSE CHOOSE t \in p.triad : TRUE
      halved == triad = "minor" /\ <<5, -1>> \in p.alterations
  IN [root |-> p.root,
      triad |-> IF halved THEN "diminished" ELSE triad,
      seventh |-> IF p.seventh = {} THEN "none" ELSE CHOOSE s \in p.seventh : TRUE,
      extensions |-> p.extensions, added |-> p.added,
      alterations |-> IF halved THEN p.alterations \ {<<5, -1>>} ELSE p.alterations,
      omissions |-> p.omissions, bass |-> p.bass, alt |-> p.alt]

\* parse.
Parse(text) ==
  LET trimmed == After(text, Leading(text, Blanks))
  IN UNION {{Finish(p) : p \in Modified(Opened(r.class, r.rest))}
              : r \in {c \in ReadClass(trimmed) : c.class.acc \in -4..4}}

-----------------------------------------------------------------------------
(* Rendering.  signs are the accidentals written: "ascii" or "unicode".     *)

NumberText(n) == IF n < 10 THEN <<Digits[n + 1]>> ELSE <<Digits[(n \div 10) + 1], Digits[(n % 10) + 1]>>

AccidentalText(acc, signs) ==
  CASE acc = 0 -> <<>>
    [] acc = -1 -> IF signs = "ascii" THEN <<"b">> ELSE <<"flat">>
    [] acc = -2 -> IF signs = "ascii" THEN <<"b", "b">> ELSE <<"dflat">>
    [] acc = 1 -> IF signs = "ascii" THEN <<"#">> ELSE <<"sharp">>
    [] acc = 2 -> IF signs = "ascii" THEN <<"#", "#">> ELSE <<"dsharp">>
    [] acc > 2 -> <<"(", "+">> \o NumberText(acc) \o <<")">>
    [] acc < -2 -> <<"(", "-">> \o NumberText(-acc) \o <<")">>

ClassText(c, signs) == <<Upper[c.letter + 1]>> \o AccidentalText(c.acc, signs)
DegreeText(d, signs) == AccidentalText(d[2], signs) \o NumberText(d[1])
Grouped(text) == <<"(">> \o text \o <<")">>

\* Mutant of StackTop: the highest extension, whatever is below it.
StackTop_Alone(spec) == IF spec.extensions = {} THEN 0 ELSE Max({d[1] : d \in spec.extensions})
\* stack_top: the highest extension with all below it, 0 for none.
StackTop(spec) ==
  Max({0} \union {n \in {9, 11, 13} : {<<k, 0>> : k \in {9, 11, 13} \intersect 9..n} \subseteq spec.extensions})

\* The triads whose core does not say the stack.
Stackless == {"power", "diminished"}
CoreStack(spec) ==
  IF spec.triad \in Stackless \/ spec.seventh \in {"none", "diminished"} THEN 0 ELSE StackTop(spec)
SaysSixth(spec) ==
  spec.triad \in {"minor", "major", "omitted"} /\ spec.seventh = "none" /\ <<6, 0>> \in spec.added

\* What the core says above the triad, with the marker of a major seventh.
Above(spec, marker) ==
  LET stack == NumberText(IF StackTop(spec) = 0 THEN 7 ELSE StackTop(spec))
  IN CASE spec.seventh = "minor" -> stack
       [] spec.seventh \in {"major", "augmented_major"} -> <<marker>> \o stack
       [] spec.seventh = "diminished" -> <<"(", "b", "b", "7", ")">>
       [] OTHER -> IF ~SaysSixth(spec) THEN <<>>
                   ELSE IF <<9, 0>> \in spec.added THEN <<"6", "/", "9">> ELSE <<"6">>

DiminishedCore(seventh, signs) ==
  CASE seventh = "diminished" -> <<"dim", "7">>
    [] seventh = "minor" -> <<"m", "7">> \o AccidentalText(-1, signs) \o <<"5">>
    [] seventh \in {"major", "augmented_major"} -> <<"dim", "Maj", "7">>
    [] seventh = "none" -> <<"dim">>
Core(spec, signs) ==
  CASE spec.triad = "power" -> <<"5">>
    [] spec.triad = "diminished" -> DiminishedCore(spec.seventh, signs)
    [] spec.triad = "augmented" -> <<"aug">> \o Above(spec, "maj")
    [] spec.triad = "sus2" -> Above(spec, "maj") \o <<"sus", "2">>
    [] spec.triad = "sus4" -> Above(spec, "maj") \o <<"sus", "4">>
    [] spec.triad = "minor" -> <<"m">> \o Above(spec, "Maj")
    [] OTHER -> Above(spec, "maj")

Joined(degrees, Write(_)) == FlattenSeq([i \in DOMAIN degrees |-> Write(degrees[i])])

\* Mutant of Alterations: never grouped.
Alterations_Bare(spec, signs, bare) == Joined(Ordered(spec.alterations), LAMBDA d : DegreeText(d, signs))
\* Behind a bare root an accidental would be the root's.
Alterations(spec, signs, bare) ==
  Joined(Ordered(spec.alterations),
         LAMBDA d : IF bare THEN Grouped(DegreeText(d, signs)) ELSE DegreeText(d, signs))

Render(spec, signs) ==
  LET head == Core(spec, signs)
                \o (IF spec.alt THEN <<"alt">> ELSE <<>>)
                \o Joined(Ordered({e \in spec.extensions : \/ e[2] # 0 \/ e[1] > CoreStack(spec)
                                                           \/ e[1] \notin {9, 11, 13}}),
                          LAMBDA e : Grouped(DegreeText(e, signs)))
      said == IF ~SaysSixth(spec) THEN {} ELSE {<<6, 0>>, <<9, 0>>}
  IN ClassText(spec.root, signs) \o head \o Alterations(spec, signs, head = <<>>)
       \o Joined(Ordered(spec.added \ said), LAMBDA d : <<"add">> \o DegreeText(d, signs))
       \o Joined(Ordered({<<n, 0>> : n \in spec.omissions}), LAMBDA d : <<"no">> \o NumberText(d[1]))
       \o FlattenSeq([i \in 1..Cardinality(spec.bass) |->
                        <<"/">> \o ClassText(CHOOSE b \in spec.bass : TRUE, signs)])

-----------------------------------------------------------------------------
(* Degrees, pitches and intervals by themselves.                           *)

\* ChordDegree::parse.
ParseDegree(text) ==
  {<<r.value, r.alter>> : r \in {d \in ReadDegree(text, MarkedSteps) :
                                   d.rest = <<>> /\ d.value \in 1..13 /\ d.alter \in -4..4}}

\* parse_class: accidentals to the end.
ParseClass(text) == {r.class : r \in {c \in ReadClass(text) : c.rest = <<>>}}

\* SpelledPitch::parse: behind the class an octave, with or without a sign.
SignedText(n) == IF n < 0 THEN <<"-">> \o NumberText(-n) ELSE NumberText(n)
PitchText(p, signs) == ClassText(ClassOf(p), signs) \o SignedText(p.octave)
Octaves(text) ==
  LET minus == Starts(text, <<"-">>)
      plus == Starts(text, <<"+">>)
  IN {IF minus THEN -n.value ELSE n.value
        : n \in {r \in ReadNumber(IF minus \/ plus THEN Tail(text) ELSE text) : r.rest = <<>>}}
ParsePitch(text) ==
  UNION {{Pitch(r.class.letter, r.class.acc, o) : o \in Octaves(r.rest)} : r \in ReadClass(text)}

\* Interval::name and Interval::parse.
QualityLetter == [diminished |-> "d", minor |-> "m", perfect |-> "P", major |-> "M", augmented |-> "A"]
QualityText(q) ==
  [i \in 1..Max({1, q.by}) |-> QualityLetter[q.kind]]
IntervalText(i) == QualityText(i.quality) \o NumberText(CompoundNumber(i))
QualityNamed(letter, count) ==
  CASE letter = "d" -> {Diminished(count)}
    [] letter = "A" -> {Augmented(count)}
    [] letter = "m" -> {q \in {Minor} : count = 1}
    [] letter = "M" -> {q \in {Major} : count = 1}
    [] letter \in {"P", "p"} -> {q \in {Perfect} : count = 1}
    [] OTHER -> {}
ParseInterval(text) ==
  LET letters == {n \in 1..Len(text) : \A i \in 1..n : text[i] = text[1]}
      count == IF letters = {} THEN 0 ELSE Max(letters)
  IN IF count = 0 THEN {}
     ELSE UNION {NewInterval(n.value, q)
                   : n \in {r \in ReadNumber(After(text, count)) : r.rest = <<>>},
                     q \in QualityNamed(text[1], count)}

-----------------------------------------------------------------------------
(* What has to hold.                                                       *)

\* What a symbol says and no symbol it is rendered with does: a seventh over
\* bare fifths, a lowered fifth of a half-diminished chord, an alteration by
\* nothing, a root altered by more than two semitones.
Unsaid(spec) ==
  \/ spec.triad = "power" /\ spec.seventh \notin {"none", "minor"}
  \/ spec.triad = "power" /\ spec.seventh = "minor" /\ spec.extensions = {} /\ ~spec.alt
  \/ spec.triad = "diminished" /\ spec.seventh = "minor" /\ <<5, -1>> \in spec.alterations
  \/ \E d \in spec.alterations : d[2] = 0
  \/ spec.root.acc \notin -2..2

\* The symbol of a chord, in either spelling, is read back as that chord, if it
\* can be said (the precondition is ours: symbol.rs:52 promises it of every
\* symbol the parser accepts); extensions imply a seventh; and every degree is
\* read back by itself (chord.rs:271).
ReadBack(spec) ==
  /\ ~Unsaid(spec) => \A signs \in {"ascii", "unicode"} : Parse(Render(spec, signs)) = {spec}
  /\ spec.extensions # {} => spec.seventh # "none"
  /\ \A d \in spec.extensions \union spec.added \union spec.alterations :
       ParseDegree(DegreeText(d, "ascii")) = {d}

\* Once a chord's quality is named, a tension means the same in parentheses
\* and without, and two mean the same in either order (symbol.rs:1432).
TensionsAgree(spec, text, one, other) ==
  spec.bass = {} /\ text[Len(text)] \notin DOMAIN ClassSteps /\ Len(text) > 1 =>
    /\ Parse(text \o one) = Parse(text \o Grouped(one))
    /\ Parse(text \o one \o other) = Parse(text \o other \o one)

\* Pitches and intervals are read back from their names, if a pitch's
\* accidental is one of the common five (pitch.rs:261, :658).
NamesReadBack(p, i) ==
  /\ p.acc \in -2..2 => \A signs \in {"ascii", "unicode"} :
       /\ ParsePitch(PitchText(p, signs)) = {p}
       /\ ParseClass(ClassText(ClassOf(p), signs)) = {ClassOf(p)}
  /\ ParseInterval(IntervalText(i)) = {i}
=============================================================================
