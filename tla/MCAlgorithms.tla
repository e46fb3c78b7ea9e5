----------------------------- MODULE MCAlgorithms -----------------------------
(* The questions put to the algorithms. *)
EXTENDS MCKnowledge

None == [x \in {} |-> x]

-----------------------------------------------------------------------------
(* Facts: absent or one of a few values. *)

Absent == {}
Context(b, n, s, l) == [event |-> "e", bool |-> b, num |-> n, str |-> s, list |-> l]

PitchFacts ==
  {[threshold |-> t, salience |-> s, max |-> x, min |-> m, low |-> l, high |-> h]
     : t \in {Absent, {40}}, s \in {Absent, {50}, {70}}, x \in {Absent, {45}, {60}},
       m \in {Absent, {48}}, l \in {Absent, {50}}, h \in {Absent, {55}}}
Planings == {None} \cup {[planing_context |-> t] : t \in {"T", "F"}}
Voicings == {Absent, {"quartal"}, {"other"}}
Degrees == {Absent, {{1, 3, 7}}, {{1, 4, 5}}, {{1, 5, 7}}}

Beside(bound) == {{bound - 1}, {bound}, {bound + 1}, {-bound - 1}}
TestContexts(test) ==
  CASE test[1] = "text" ->
         {Context(None, None, (test[2] :> v), None) : v \in {Absent, {"other"}} \cup {{w} : w \in test[3]}}
    [] test[1] = "pair" ->
         {Context(None, (test[2] :> x) @@ (test[4] :> y), None, None)
            : x \in {Absent, {3}, {4}}, y \in {Absent, {3}, {4}}}
    [] test[1] = "among" ->
         {Context(None, (test[2] :> v), None, None) : v \in {Absent} \cup {{x} : x \in -7..12}}
    [] OTHER -> {Context(None, (test[2] :> v), None, None) : v \in {Absent} \cup Beside(test[3])}

MCPredicates ==
  [predicate : {"melody_note_is_structural", "register_is_low", "voice_exceeds_instrument_range"},
   context : {Context(None, n, None, None) : n \in PitchFacts}]
  \cup
  [predicate : {"third_is_omitted", "third_is_suspended", "third_is_not_suspended",
                "guide_tones_present"},
   context : {Context(b, None, None, [sounding |-> d])
                : b \in {None, [third_is_suspended |-> "T"]}, d \in Degrees}]
  \cup
  [predicate : {"quartal_or_planing_context", "planing_context"},
   context : {Context(b, None, [voicing |-> v], None) : b \in Planings, v \in Voicings}]
  \cup
  \* The facts a test is about, on either side of what decides it.
  UNION {{[predicate |-> p, context |-> c] : c \in TestContexts(Theory!Tests[p])} : p \in DOMAIN Theory!Tests}
  \cup
  [predicate : Theory!DegreeNames,
   context : {Context(None, [degree |-> d], None, [chord |-> t])
                : d \in {Absent, {3}, {11}, {-9}, {111}}, t \in {Absent, {{1, 3, 11}}, {{1, 3, -9}}}}]
  \cup
  [predicate : {"midi_pitch_out_of_range"},
   context : {Context(None, [lowest_note |-> l, highest_note |-> h], None, None)
                : l \in {Absent, {-1}, {0}}, h \in {Absent, {127}, {128}}}]
  \cup
  [predicate : {"cluster_intent_is_false", "intentional_cluster"},
   context : {Context(b, None, None, None)
                : b \in {None} \cup {[intentional_cluster |-> t] : t \in {"T", "F"}}}]

Rule(id, k, delta) ==
  [id |-> id, event |-> "e", degrees |-> {}, role |-> {}, profiles |-> {"p"},
   conditions |-> {}, exceptions |-> {}, kind |-> k, delta |-> delta]
Plain == [chain |-> <<"q", "p">>, overrides |-> None]

More(f, g) == \A k \in DOMAIN f : f[k] # {} => g[k] = f[k]
MoreFacts(c, d) ==
  /\ \A k \in DOMAIN c.bool : k \in DOMAIN d.bool /\ d.bool[k] = c.bool[k]
  /\ More(c.num, d.num) /\ More(c.str, d.str) /\ More(c.list, d.list)

\* Which chord degrees and which role a rule listens for.
SelectingContexts ==
  {Context(None, None, [role |-> r], [sounding |-> s, chord |-> c])
     : r \in {Absent, {"bass"}, {"lead"}}, s \in {Absent, {{1, 3}}, {{1, 7}}},
       c \in {Absent, {{1, 3, 7}}}}
Selecting ==
  {[Rule("r", k, -1) EXCEPT !.degrees = d, !.role = r]
     : k \in {"hard_integrity", "soft"}, d \in {{}, {3}, {3, 7}}, r \in {{}, {"bass"}, {"any"}}}

\* Which conditions it asks for and which exceptions it knows.
ConditionContexts ==
  {Context(b, [max |-> m], [voicing |-> v], [sounding |-> s])
     : b \in Planings, m \in {Absent, {40}, {60}}, v \in Voicings,
       s \in {Absent, {{1, 3}}, {{1, 4}}}}
Conditional ==
  {[Rule("r", k, -1) EXCEPT !.conditions = c, !.exceptions = x]
     : k \in {"hard_integrity", "soft"},
       c \in SUBSET {"third_is_omitted", "quartal_or_planing_context"},
       x \in {{}, {"register_is_low"}}}

Rulings1(rules, contexts) ==
  {[rule |-> r, context |-> p[1], more |-> p[2], profile |-> Plain]
     : r \in rules, p \in {p \in contexts \X contexts : MoreFacts(p[1], p[2])}}

MCRulings == Rulings1(Selecting, SelectingContexts)
             \cup Rulings1(Conditional, ConditionContexts)

Base == <<[Rule("soft", "soft", 2) EXCEPT !.conditions = {"third_is_suspended"}],
          [Rule("hard", "hard_integrity", -1) EXCEPT !.conditions = {"third_is_omitted"}],
          [Rule("loop", "loop_integrity", -1) EXCEPT !.exceptions = {"register_is_low"}],
          Rule("maths", "mathematical_invariant", -2)>>
MCOutcomes ==
  {[rules |-> base, context |-> c, profile |-> [Plain EXCEPT !.overrides = o]]
     : base \in {Base, Reverse(Base)},
       c \in {c \in ConditionContexts : DOMAIN c.bool = {} /\ c.str["voicing"] = {}},
       o \in UNION {[ids -> {"disabled", "zero", "double"}] : ids \in SUBSET {"soft", "hard", "maths"}}}

Profiles == {"a", "b", "c"}
MCLineages ==
  [known : {Profiles}, id : Profiles \cup {"x"},
   parent : UNION {[some -> Profiles \cup {"x"}] : some \in SUBSET Profiles},
   own : {[p \in Profiles |-> [r \in rs[p] |-> p]]
            : rs \in [Profiles -> {{"r2"}, {"r1", "r2"}}]}]

AsFraction == {<<n, d>> : n \in {-128, -50, -7, -1, 0, 1, 5, 30, 31, 127},
                      d \in {-2, 0, 1, 3, 4, 11, 127}}
MCDurations == [a : AsFraction, b : AsFraction]

-----------------------------------------------------------------------------
Metre == [at : {-3, 0, 5, 7}, bar : {3, 4}]
MCCalendars ==
  {[events |-> es, start |-> r[1], end |-> r[2], beat |-> b]
     : es \in SeqOf(Metre, 2) \cup {<<d, e, f>> : d \in {[at |-> 0, bar |-> 4]}, e \in Metre, f \in Metre},
       r \in {<<-6, 20>>, <<2, 13>>}, b \in {1, 2}}

Classes == [letter : 0..6, acc : -1..1]
Pitches == [letter : 0..6, acc : -2..2, octave : {3, 4}]
MCSpellings == [from : Pitches, to : Pitches \cup [letter : 0..6, acc : {0}, octave : {2, 6}]]

Collections == {<<0, 2, 4, 5, 7, 9, 11>>, <<0, 2, 3, 5, 7, 8, 11>>, <<0, 1, 3, 5, 6, 8, 10>>,
                <<0, 1, 3, 4, 6, 8, 10>>, <<0, 2, 4, 7, 9>>, <<0, 3, 5, 6, 7, 10>>,
                <<0, 2, 4, 6, 8, 10>>, <<0, 1, 2, 3, 4, 5, 6, 7, 8, 9, 10, 11>>, <<0>>}
MCScales ==
  {[def |-> [semitones |-> s, numbers |-> n], tonic |-> t]
     : s \in Collections, n \in {<<>>, <<1, 9>>}, t \in Classes}

Tension == {<<<<"b", "9">>, <<"#", "1", "1">>>>, <<<<"add", "9">>, <<"no", "3">>>>, <<<<"b", "b", "7">>, <<"#", "4">>>>}
Modifiers ==
  {<<"m">>, <<"7">>, <<"maj", "9">>, <<"1", "3">>, <<"(", "1", "3", ")">>, <<"alt">>, <<"dim">>, <<"oslash">>,
   <<"b", "5">>, <<"5">>, <<"-">>, <<"sus">>}
MoreModifiers ==
  {<<"delta">>, <<"ma">>, <<"aug">>, <<"sus", "2">>, <<"6">>, <<"0", "6">>, <<"6", "/", "9">>, <<"add">>, <<"no", "5">>,
   <<"#", "4">>, <<"b", "#", "9">>, <<"flat", "9">>, <<"b">>, <<"+">>, <<"(">>, <<")">>, <<"(", "(", "(">>, <<",">>,
   <<"/">>, <<"/", "E">>, <<"/", "b", "b">>}
MCSymbols ==
  {[text |-> <<"C">> \o a \o b, tensions |-> {}] : a \in Modifiers \union MoreModifiers, b \in Modifiers \union MoreModifiers}
    \union {[text |-> <<"F">> \o a \o b \o c, tensions |-> {}] : a \in Modifiers, b \in Modifiers, c \in {<<"b", "5">>, <<"-", "9">>, <<"9">>}}
    \union {[text |-> r \o a, tensions |-> Tension]
              : r \in {<<"C">>, <<"b", "b">>, <<"D", "x", "#">>}, a \in {<<>>} \union Modifiers \union MoreModifiers}

MCChords ==
  {[spec |-> [root |-> r, triad |-> t, seventh |-> v, extensions |-> x[1], added |-> x[2],
              alterations |-> x[3], omissions |-> o, bass |-> b, alt |-> a],
    by |-> [number |-> 3, quality |-> [kind |-> q, by |-> 0], octaves |-> 0]]
     : r \in {[letter |-> 0, acc |-> 0], [letter |-> 6, acc |-> -1], [letter |-> 3, acc |-> 1]},
       t \in Domain!Triads, v \in Domain!Sevenths,
       x \in {<<{}, {}, {}>>, <<{<<9, 0>>, <<11, 0>>}, {}, {<<9, -1>>, <<9, 1>>, <<5, 1>>}>>,
              <<{<<13, 0>>}, {<<6, 0>>}, {<<5, -1>>, <<11, 1>>, <<13, -1>>}>>,
              <<{}, {<<6, -1>>, <<9, 0>>, <<2, 0>>}, {<<4, 1>>, <<3, -1>>}>>},
       o \in {{}, {3}, {1, 5}}, b \in {{}, {[letter |-> 2, acc |-> -1]}}, a \in BOOLEAN,
       q \in {"major", "minor"}}

Tone(o, l, p) == [onset |-> o, length |-> l, pitch |-> p, velocity |-> IF o = 0 THEN 0 ELSE 80]
Tones == {Tone(-3, 2, 60), Tone(0, 3, 60), Tone(1, 2, 61), Tone(4, 3, 60), Tone(0, 2, 128)}
MCQnMin == -6   \* in the half steps of a grid of four to the quarter
Voices == SeqOf(Tones, 2) \cup {<<Tone(0, 3, 60), Tone(3, 2, 60), Tone(5, 2, 62)>>}
MCStagings ==
  [parts : SeqOf(Voices, 2) \cup {<<v, <<Tone(0, 3, 60)>>, <<Tone(1, 2, 61)>> >> : v \in Voices},
   item : {[start |-> 0, end |-> 6], [start |-> 1, end |-> 5], [start |-> 3, end |-> 3]},
   options : SUBSET {"region", "route"}]

-----------------------------------------------------------------------------
Pools == {<< <<0, 0>> >>, << <<0, 1>>, <<1, 0>> >>, << <<0, 1>>, <<1, 0>>, <<0, 0>> >>,
          << <<0>>, <<0, 2, 0>>, <<0, 1>> >>, << <<0, 2>>, <<0, 0, 1>>, <<1, 0>> >>}
Moves == {[i \in 1..3 |-> [j \in 1..3 |-> IF <<i, j>> \in likes THEN 3 ELSE 0]]
            : likes \in {{}, {<<1, 1>>}, {<<1, 2>>, <<2, 1>>}, {<<2, 2>>, <<3, 1>>},
                         {<<1, 2>>, <<2, 3>>, <<3, 2>>}}}
Every(local, value(_, _)) ==
  [s \in DOMAIN local |-> [o \in DOMAIN local[s] |-> value(s, o)]]
\* Two components, how an option sounds by itself and how it is reached; a
\* pass that is biased weighs the one or the other more than the profile does.
Pair(x, y) == <<x, y>>
MCSearches ==
  {[local |-> Every(local, LAMBDA s, o : Pair(local[s][o], 0)),
    move |-> Every(move, LAMBDA i, j : Pair(0, move[i][j])), weights |-> <<2, 1>>,
    slant |-> IF bias = 0 THEN [b \in 1..3 |-> <<1, 1>>] ELSE << <<3, 1>>, <<1, 4>>, <<0, 1>> >>,
    width |-> width, most |-> most, want |-> want, cap |-> cap,
    sound |-> Every(local, LAMBDA s, o : IF alike /\ s = 2 THEN 1 ELSE o),
    jitter |-> Every(local, LAMBDA s, o : (s * 5 + o * 3) % 7),
    bonus |-> [b \in 1..3 |-> Every(local, LAMBDA s, o : IF o = b THEN bias ELSE 0)]]
     : local \in Pools, move \in Moves, width \in {1, 2, 12}, most \in {0, 3, 7, 100},
       want \in {2, 36}, cap \in {1, 3}, alike \in BOOLEAN, bias \in {0, 4}}

MCChoosings ==
  {[paths |-> [i \in 1..3 |-> [strategy |-> by[i], total |-> t[i], jitter |-> (i * w) % 5]],
    like |-> [i \in 1..3 |-> [j \in 1..3 |-> IF i = j \/ {i, j} \in l THEN 2 ELSE 0]],
    appetite |-> a, want |-> w]
     : by \in [1..3 -> 1..2] \cup {<<1, 2, 3>>, <<3, 1, 2>>}, t \in [1..3 -> 0..2],
       l \in SUBSET {{1, 2}, {1, 3}, {2, 3}}, a \in {0, 2}, w \in 0..4}

-----------------------------------------------------------------------------
At(o, l, m) == [onset |-> o, length |-> l, midi |-> m, spelled |-> m]
Played == {At(-2, 3, 60), At(0, 5, 52), At(0, 2, 60), At(1, 1, 40), At(1, 9, 64),
           At(2, 2, 75), At(5, 1, 60)}
MCParts ==
  [notes : SeqOf(Played, 3), span : {[start |-> 0, end |-> 4]},
   instrument : {[low |-> 0, high |-> 127, polyphony |-> 4],
                 [low |-> 50, high |-> 61, polyphony |-> 2],
                 [low |-> 40, high |-> 75, polyphony |-> 1],
                 [low |-> 55, high |-> 58, polyphony |-> 1]},
   polyphony : 1..3]

Held == {At(o, l, 60) : o \in {-1, 0, 2, 5}, l \in {1, 2, 4}}
MCBreaths ==
  [notes : SeqOf(Held, 2) \cup {<<At(0, 2, 60), At(2, 2, 60), At(4, 4, 60)>>,
                                <<At(0, 1, 60), At(1, 3, 60), At(4, 9, 60)>>},
   windows : {<<[start |-> 0, end |-> 4], [start |-> 4, end |-> 8]>>,
              <<[start |-> 0, end |-> 6]>>},
   minimum : 1..3]

MCThinnings ==
  [notes : SeqOf({At(0, 1, 60), At(0, 1, 64), At(1, 1, 60), At(2, 1, 60)}, 4),
   busy : SUBSET (0..2), floor : 0..2]

Piano == [low |-> 21, high |-> 108, polyphony |-> 10,
          limits |-> <<[below |-> 48, least |-> 7], [below |-> 55, least |-> 4]>>]
Bass == [low |-> 28, high |-> 55, polyphony |-> 1, limits |-> <<>>]
Toy == [low |-> 60, high |-> 67, polyphony |-> 2, limits |-> <<>>]
ChordTone(d, n, a) == [degree |-> d, natural |-> n, accidental |-> a]
Stood(o, l, tones, guides) == [onset |-> o, length |-> l, tones |-> tones, guides |-> guides]
CMajor7 == <<ChordTone(1, 0, 0), ChordTone(3, 4, 0), ChordTone(5, 7, 0), ChordTone(7, 11, 0)>>
AMinor == <<ChordTone(1, 9, 0), ChordTone(3, 0, 0), ChordTone(5, 4, 0)>>
GSharp == <<ChordTone(1, 7, 1), ChordTone(3, 11, 1), ChordTone(5, 2, 1)>>
CFlat5 == <<ChordTone(1, 0, -1), ChordTone(5, 7, -1)>>
Turnaround == <<Stood(0, 192, CMajor7, {3, 7}), Stood(192, 192, AMinor, {3}),
                Stood(384, 288, CMajor7, {3, 7})>>
Sharps == <<Stood(0, 240, GSharp, {3}), Stood(240, 336, CFlat5, {}), Stood(624, 48, AMinor, {3})>>
Quarters == {0, 96, 192, 288}
Catalogued == [figure |-> "", responsibility |-> "full", polyphony |-> 4, priority |-> "midground",
            activity |-> "on_grid", lengths |-> "grid", articulations |-> {}, density |-> 60,
            register |-> "mid", low |-> 48, high |-> 72, onsets |-> Quarters, grid |-> 96,
            sustain |-> "grid", velocities |-> <<96, 80>>, doubles |-> FALSE]
Played1 == [window |-> <<48, 72>>, span |-> <<0, 672>>, density |-> 50, velocity |-> 10, lengths |-> 10,
            polyphony |-> 1, base |-> 5, avoid |-> {}, active |-> {}, energy |-> <<<<0, 30>>, <<384, 90>>>>]
Asking1(patterns, chords, insts, opts, more) ==
  [pattern : patterns, chords : chords, events : {<<>>}, inst : insts, opts : opts, more : more]
\* Where it sounds: densities, metres, attacks to avoid and windows.
Placings ==
  {[q EXCEPT !.events = e] :
     q \in Asking1({[Catalogued EXCEPT !.onsets = o, !.grid = g, !.sustain = s, !.activity = a,
                                   !.responsibility = r]
                     : o \in {Quarters, {0, 48, 96, 144, 240, 336}}, g \in {0, 96}, s \in {"grid", "full_slot"},
                       a \in {"on_grid", "sustained"}, r \in {"full", "none"}},
                   {Turnaround}, {Piano},
                   {[Played1 EXCEPT !.span = sp, !.avoid = av, !.active = ac, !.density = d]
                     : sp \in {<<0, 672>>, <<96, 300>>}, ac \in {{}, {<<96, 288>>}}, d \in {0, 60},
                       av \in {{}, Quarters, {0, 48, 96, 144, 192, 240, 288, 336, 384, 480, 576}}},
                   {100}),
     e \in {<<>>, <<[at |-> 288, bar |-> 288]>>}}
\* What is played: figures and stacks, in windows wide and narrow.
Lines ==
  Asking1({[Catalogued EXCEPT !.figure = f, !.responsibility = r, !.sustain = s, !.articulations = a,
                          !.register = "low"]
             : f \in {"", "root", "ascending", "alternating", "contour"},
               r \in {"full", "root_only", "guide_tones", "partial"},
               s \in {"grid", "to_next", "mixed"}, a \in {{}, {"accent", "staccato"}}},
          {Turnaround, Sharps}, {Bass, Piano, Toy},
          {[Played1 EXCEPT !.window = w] : w \in {<<48, 72>>, <<40, 44>>, <<0, 14>>}}, {100})
Stacks ==
  Asking1({[Catalogued EXCEPT !.sustain = s, !.activity = a, !.doubles = b, !.grid = 192, !.onsets = o,
                          !.articulations = {"accent"}]
             : s \in {"grid", "to_next", "full_slot", "mixed"}, a \in {"on_grid", "sustained"},
               b \in BOOLEAN, o \in {{0}, {0, 96, 240}}},
          {Turnaround, Sharps}, {Piano, Toy},
          {[Played1 EXCEPT !.window = w, !.polyphony = p, !.lengths = l]
             : w \in {<<40, 72>>, <<61, 66>>}, p \in {2, 5}, l \in {5, 10}}, {100})
MCAccompaniments == Placings \cup Lines \cup Stacks

Grand == Piano @@ [roles |-> {"lead", "comping", "pad", "texture"}]
Upright == Bass @@ [roles |-> {"bass"}]
Pattern(id, role, priority, more) ==
  [id |-> id, role |-> role, priority |-> priority, sections |-> {}, adds |-> 50, styled |-> FALSE] @@ more
Kinds ==
  <<Pattern("tune", "lead", "foreground",
            [Catalogued EXCEPT !.figure = "ascending", !.polyphony = 1, !.low = 60, !.high = 84]),
    Pattern("roots", "bass", "midground",
            [Catalogued EXCEPT !.responsibility = "root_only", !.polyphony = 1, !.low = 28, !.high = 52,
                               !.onsets = {0}, !.sustain = "to_next"]),
    Pattern("held", "pad", "background",
            [Catalogued EXCEPT !.activity = "sustained", !.sustain = "full_slot", !.polyphony = 3,
                               !.onsets = {0}]),
    Pattern("chops", "comping", "midground",
            [Catalogued EXCEPT !.polyphony = 3, !.low = 52, !.high = 76, !.onsets = {0, 144}]),
    Pattern("offbeats", "comping", "midground",
            [Catalogued EXCEPT !.polyphony = 3, !.low = 52, !.high = 76, !.onsets = {48, 144}, !.density = 30]),
    Pattern("dust", "texture", "background",
            [Catalogued EXCEPT !.polyphony = 1, !.low = 55, !.high = 79, !.onsets = {0, 48, 96, 144}, !.grid = 0]),
    Pattern("answer", "counterlead", "midground",
            [Catalogued EXCEPT !.polyphony = 1, !.activity = "phrase_gaps"]),
    Pattern("lift", "transition", "midground", [Catalogued EXCEPT !.polyphony = 1, !.onsets = {0, 96, 144}])>>
Song == <<Stood(0, 192, CMajor7, {3, 7}), Stood(192, 192, AMinor, {3}), Stood(384, 192, CMajor7, {3, 7}),
          Stood(576, 192, AMinor, {3})>>
Themed(o, l, m) == [onset |-> o, length |-> l, midi |-> m, spelled |-> m]
Theme == <<Themed(0, 96, 72), Themed(96, 48, 74), Themed(192, 192, 76), Themed(480, 96, 72), Themed(672, 192, 67)>>
Part(id, from, to, role, e) == [id |-> id, start |-> from, end |-> to, role |-> role, energy |-> e]
Songs ==
  [chords |-> Song, events |-> <<[at |-> 0, bar |-> 192]>>, roles |-> <<"texture", "pad", "bass", "comping", "lead">>,
   catalogue |-> Kinds, instruments |-> <<Grand, Upright>>, texture |-> {}, density |-> 50, spread |-> 50,
   curve |-> <<>>, sections |-> <<>>, intent |-> "none", base |-> 50, phrases |-> {<<0, 384>>, <<384, 768>>},
   gaps |-> {<<384, 480>>}, tune |-> Theme, preserve |-> TRUE]
Halves(e, f) == <<Part("a", 0, 384, "verse", e), Part("b", 384, 768, "chorus", f)>>
MCArrangements ==
  {[Songs EXCEPT !.roles = r, !.density = d, !.spread = s, !.preserve = p, !.sections = x, !.curve = c]
     : r \in {Songs.roles, <<"pad", "comping", "lead">>, <<"transition", "counterlead", "comping", "bass">>},
       d \in {30, 80}, s \in {0, 50, 100}, p \in BOOLEAN,
       x \in {<<>>, Halves(10, 90), Halves(70, 0)},
       c \in {<<>>, <<<<0, 60>>, <<192, 60>>, <<384, 10>>, <<768, 60>>>>}}
  \cup {[Songs EXCEPT !.phrases = {<<0, 192>>, <<192, 384>>, <<384, 768>>}, !.tune = <<>>],
        [Songs EXCEPT !.texture = {"offbeats"}, !.intent = "seamless_color"],
        [Songs EXCEPT !.roles = <<"lead", "lead">>], [Songs EXCEPT !.density = 101],
        [Songs EXCEPT !.roles = <<"pulse", "percussion">>, !.instruments = <<Upright>>],
        [Songs EXCEPT !.roles = <<"ambience">>]}
Energies == {0, 5, 10, 15, 20, 60, 100}
MCSectionings ==
  [sections : {<<Part("a", 0, 384, "verse", e), Part("b", 384, 768, "verse", f), Part("c", 768, 960, "verse", g)>>
                 : e \in Energies, f \in Energies, g \in Energies},
   events : {<<>>}, span : {<<0, 960>>}, curve : {<<<<0, 50>>>>}, layers : {1, 5}, density : {5, 60}]
  \cup [sections : {<<>>}, events : {<<>>, <<[at |-> 0, bar |-> 192]>>},
        span : {<<0, 192>>, <<0, 3840>>, <<96, 1632>>, <<96, 1700>>}, curve : {<<>>, <<<<0, 90>>, <<1600, 10>>>>},
        layers : {4}, density : {50}]
Registers == {<<48, 60>>, <<52, 76>>, <<60, 61>>, <<55, 79>>, <<28, 52>>}
MCSeparations ==
  {[windows |-> [k \in DOMAIN ws |-> ws[k]],
    bounds |-> [k \in DOMAIN ws |-> Full!SeparationBounds(ws[k], IF tight THEN Toy ELSE Piano)],
    spread |-> s, shift |-> d]
     : ws \in UNION {[1..n -> Registers] : n \in 1..3}, tight \in {FALSE}, s \in {0, 30, 50, 100}, d \in {0, 7, -7}}

Recorded(i, o, l, s, m) ==
  [id |-> i, midi |-> 60, onset |-> o, length |-> l, sounds |-> s, mark |-> m]
Takes(i) ==
  {Recorded(i, o, l, TRUE, "none") : o \in {-7, -3, -1, 0, 3, 5}, l \in {1, 2, 6, 9}}
  \cup {Recorded(i, 3, 2, FALSE, "none"), Recorded(i, 3, 2, TRUE, "carry"),
        Recorded(i, -1, 3, FALSE, "none")}
MCSeams ==
  [notes : {<<>>} \cup {<<m>> : m \in Takes(2)} \cup {<<m, n>> : m \in Takes(2), n \in Takes(7)},
   span : {[start |-> 0, end |-> 4], [start |-> 1, end |-> 4]},
   policy : {"carry", "truncate", "split", "rearticulate"}]

MCWraps == [from : {SetToSortSeq(s, <) : s \in SUBSET {59, 60, 62, 65, 71}},
            to : {SetToSortSeq(s, <) : s \in SUBSET {59, 61, 64, 67, 72}}]

Heard1(i, o, l, m, mark, role) ==
  [id |-> i, midi |-> m, onset |-> o, length |-> l, sounds |-> TRUE, mark |-> mark, role |-> role]
Voiced(i, pitches) ==
  {Heard1(i, o, l, m, "none", "melody") : o \in {-1, 0, 2}, l \in {2, 6}, m \in pitches}
  \cup {Heard1(i, 3, 2, 67, "carry", "melody"), Heard1(i, 5, 1, 67, "none", "melody"),
        Heard1(i, 1, 3, 48, "none", "pedal"), Heard1(i, 1, 5, 48, "none", "pedal")}
Harmonies ==
  {<<>>,
   <<[function |-> "tonic", tones |-> {0, 4, 7}, bass |-> 0, seventh |-> {}, onset |-> 0, length |-> 2],
     [function |-> "dominant", tones |-> {5, 7, 11}, bass |-> 7, seventh |-> {5}, onset |-> 2, length |-> 2]>>,
   <<[function |-> "modal", tones |-> {2, 7, 9}, bass |-> 2, seventh |-> {}, onset |-> 0, length |-> 3],
     [function |-> "tonic", tones |-> {0, 4, 11}, bass |-> 0, seventh |-> {11}, onset |-> 3, length |-> 1]>>,
   <<[function |-> "predominant", tones |-> {0, 5, 9}, bass |-> 5, seventh |-> {}, onset |-> 0, length |-> 4]>>}
MCAudits ==
  [notes : {<<>>} \cup {<<m>> : m \in Voiced(2, {59, 60})}
           \cup {<<m, n>> : m \in Voiced(2, {59, 60}), n \in Voiced(7, {62, 71})},
   chords : Harmonies, span : {[start |-> 0, end |-> 4]},
   frame : {[tonic |-> 0, modal |-> FALSE, stability |-> 100],
            [tonic |-> 2, modal |-> TRUE, stability |-> 60]},
   intent : {"closed_tonic", "open_dominant", "modal_drone", "seamless_color",
             "transition_ready", "one_shot_ending"},
   points : {-30, 40}]

Taken(i, o, l, m, s, u, c) ==
  [id |-> i, onset |-> o, length |-> l, midi |-> m, selected |-> s, muted |-> u, channel |-> c]
Sung(i) ==
  {Taken(i, o, l, m, s, FALSE, 1) : o \in {0, 4}, l \in {4, 8}, m \in {60, 64, 76}, s \in BOOLEAN}
  \cup {Taken(i, 2, 12, 55, FALSE, FALSE, 2), Taken(i, 8, 2, 67, TRUE, FALSE, 2),
        Taken(i, 8, 2, 67, TRUE, TRUE, 1), Taken(i, 0, 4, 72, FALSE, TRUE, 2)}
InTake(notes) == SortSeq(notes, Line!InOrder)
MCExtractions ==
  [notes : {InTake(ns) : ns \in {<<>>} \cup {<<m>> : m \in Sung(3)}
              \cup {<<m, n>> : m \in Sung(3), n \in Sung(8)}
              \cup {<<m, n, o>> : m \in {m \in Sung(3) : m.selected}, n \in Sung(8),
                                  o \in {Taken(5, 4, 4, 62, TRUE, FALSE, 1), Taken(5, 0, 16, 48, FALSE, FALSE, 2),
                                         Taken(5, 2, 4, 74, FALSE, FALSE, 2)}}},
   mode : {"auto", "selected_notes", "highest_voice", "lowest_voice", "midi_channel",
           "monophonic_voice", "all_notes_as_harmony"},
   channel : {{}, {2}}]

\* A melody of steps: where it starts, and for each note its length, the rest
\* after it and its pitch.
Melody(start, rhythm, pitches) ==
  LET at[i \in 1..(Len(rhythm) + 1)] ==
        IF i = 1 THEN start ELSE at[i - 1] + rhythm[i - 1][1] + rhythm[i - 1][2]
  IN [i \in DOMAIN rhythm |-> [id |-> i, onset |-> at[i], length |-> rhythm[i][1],
                               midi |-> pitches[i], velocity |-> IF i % 2 = 1 THEN 96 ELSE 64]]
Rhythms ==
  {<<a, b, c, a, b, c, <<16, 0>>>> : a, b, c \in {<<4, 0>>, <<8, 0>>, <<4, 4>>}}
  \cup {<<a, a, a, b, b, b, a, a, a>> : a, b \in {<<4, 0>>, <<8, 0>>, <<24, 0>>, <<2, 6>>}}
Tunes ==
  {<<60, 62, 64, 62, 64, 66, 64, 66, 68>>, <<60, 62, 64, 60, 58, 56, 64, 62, 60>>,
   <<60, 65, 64, 60, 66, 64, 60, 65, 64>>, <<72, 71, 72, 67, 67, 64, 65, 69, 72>>,
   <<60, 60, 61, 71, 72, 68, 60, 48, 61>>, <<60, 62, 64, 67, 69, 71, 74, 76, 79>>}
MCMelodies ==
  {[notes |-> Melody(s, r, t), events |-> e, tonic |-> 0, leading |-> s = 0,
    min |-> IF s = 0 THEN 8 ELSE 4, max |-> IF s = 0 THEN 32 ELSE 16,
    modes |-> {[kind |-> "auto", n |-> 1], [kind |-> "auto", n |-> 4], [kind |-> "beats", n |-> 3],
               [kind |-> "existing", n |-> 0]}]
     : s \in {0, 10}, r \in Rhythms, t \in Tunes,
       e \in {<<[at |-> 0, bar |-> 16]>>, <<[at |-> 0, bar |-> 12], [at |-> 24, bar |-> 16]>>}}

\* Four notes over two chords, the second on the bar or before it.
Ruled(status) == [status |-> status, confidence |-> 800000, multiplier |-> 100]
MCFigures ==
  {[notes |-> [i \in 1..4 |->
      [midi |-> t[i], onset |-> r[i], length |-> r[i + 1] - r[i]]],
    harmony |-> <<[onset |-> 0, end |-> c, tones |-> {0, 4, 7}],
                  [onset |-> c, end |-> 32, tones |-> {2, 7, 11}]>>,
    scale |-> {0, 2, 4, 5, 7, 9, 11}, events |-> <<[at |-> 0, bar |-> 16]>>,
    rulings |-> [k \in {"passing", "neighbor", "suspension", "retardation", "appoggiatura", "escape_tone",
                       "anticipation", "chromatic_approach", "ambiguous"} |->
                   IF k \in z THEN Ruled("applied") ELSE Ruled(IF z = {} THEN "none" ELSE "bypassed")]]
     : t \in {<<60, 62, 64, 65>>, <<64, 65, 64, 62>>, <<65, 65, 64, 62>>, <<59, 59, 60, 60>>,
             <<60, 69, 67, 71>>, <<64, 65, 60, 62>>, <<67, 66, 64, 65>>, <<60, 62, 61, 62>>, <<72, 62, 62, 62>>},
       r \in {<<0, 4, 8, 12, 16>>, <<0, 2, 16, 20, 24>>, <<0, 8, 14, 16, 20>>},
       c \in {8, 14, 16},
       z \in {{}, {"ambiguous"}, {"passing", "appoggiatura", "ambiguous"}, {"suspension", "neighbor"}}}

\* Strings as their letters.
Letters(w) == [i \in 1..Len(w) |-> SubSeq(w, i, i)]
Words(S, n) == UNION {[1..k -> S] : k \in 0..n}
Regex(p, S) == [pattern |-> p, subjects |-> S]
Written ==
  {"(a|ab)(c|bc)", "(a*)*b", "(a|b)*?a$", "(a?|b){2,3}", "(ab|a){2}", "(a|ab){1,}?c", "a{2}", "a{1,2}?b",
   "a{2,1}", "a{,2}", "{a}", "a{x", "(^|a){2}", "(a$|b)+", "^a|b", "^a|^b", "(?:a|b)c", "((a|b))", "(((a)))",
   "[a-c]+", "[^a]b", "[]a]", "[a-]", "[c-a]", "[\\d_]*a", "[^\\w]", "\\d+", "\\w\\W", "\\s", "a\\.b",
   "a.b", "\\n", "\\q", "a\\", "[a", "[\\-a]", "a|b|c", "a||b", "(a|b|)c", ".*b", ".+?b", "(ab?){0,2}c"}
MCRegexes ==
  {Regex(p, Words({"a"}, 2)) : p \in Words({"a", "|", "(", ")", "*", "?", "^", "$"}, 4)}
  \cup {Regex(Letters(w), Words({"a", "b", "c"}, 3) \cup {Letters("a.b"), Letters("0_a"), Letters("a b-"),
                                                        <<"\n">>}) : w \in Written}

\* Texts of tokens at random, and those of values of every make.
K(n) == Codec!Str(n)
Shallow == {Codec!Null, Codec!Whole(1), Codec!Arr(<<>>), Codec!Obj(<<>>), K(1)}
Containers(S) ==
  {Codec!Arr(items) : items \in Words(S, 2)}
  \cup {Codec!Obj(<<<<2, v>>, <<1, w>>>>) : v, w \in S} \cup {Codec!Obj(<<<<3, v>>>>) : v \in S}
Values == Containers(Shallow \cup {Codec!Obj(<<<<2, K(1)>>, <<1, Codec!Null>>>>), Codec!Arr(<<K(2)>>)})
MCTexts ==
  Words({Codec!Mark(m) : m \in {"[", "]", "{", "}", ",", ":"}} \cup {Codec!Space, K(1)}, 4)
  \cup [1..5 -> {Codec!Mark(m) : m \in {"[", "]", ",", "{", ":"}} \cup {K(1)}]
  \cup {Codec!WriteCompact(v, FALSE) : v \in Values}
  \cup {Codec!WritePretty(v, 0) : v \in Containers(Containers({K(1), Codec!Arr(<<>>)}))
                                         \cup {Codec!Arr(<<v>>) : v \in Values}}
  \cup {<<Codec!Mark("{"), K(k), Codec!Mark(":"), v, Codec!Mark(","), K(l), Codec!Mark(":"), w,
          Codec!Mark(","), K(1), Codec!Mark(":"), K(3), Codec!Mark("}")>>
         : k, l \in 1..2, v, w \in {K(1), Codec!Null}}

\* Schemas of one keyword, of two, and those that refer.
Text(w) == Codec!Str(Letters(w))
Typed(S) == [type |-> S]
Always == [boolean |-> TRUE]
Never == [boolean |-> FALSE]
Named(w, v) == <<Letters(w), v>>
OneKeyword ==
  {Always, Never, Typed({"integer"}), Typed({"number", "null"}), Typed({"string"}), Typed({"array"}), Typed({"object"}),
   [enum |-> <<Codec!Whole(1), Text("ab")>>], [const |-> Codec!Half(2)],
   [const |-> Codec!Obj(<<Named("a", Codec!Half(3)), Named("b", Text("a"))>>)], [minimum |-> 2], [maximum |-> 3],
   [exclusiveMinimum |-> 2], [exclusiveMaximum |-> 3], [multipleOf |-> 2], [multipleOf |-> 3],
   [minLength |-> 2], [maxLength |-> 1], [pattern |-> Letters("^a")], [minItems |-> 2], [maxItems |-> 1],
   [uniqueItems |-> TRUE], [items |-> Typed({"integer"})],
   [prefixItems |-> <<Typed({"string"}), Typed({"integer"})>>],
   [minProperties |-> 1], [maxProperties |-> 1], [required |-> <<Letters("a"), Letters("b")>>],
   [properties |-> <<Named("a", Typed({"integer"})), Named("/", Never)>>],
   [patternProperties |-> <<Named("[ab]", Typed({"integer"})), Named("~", Typed({"string"}))>>],
   [additionalProperties |-> Never], [additionalProperties |-> [minimum |-> 3]],
   [propertyNames |-> [maxLength |-> 1]],
   [allOf |-> <<Typed({"integer"}), [minimum |-> 2]>>], [anyOf |-> <<Typed({"string"}), [minimum |-> 3]>>],
   [oneOf |-> <<Typed({"number"}), [maximum |-> 2]>>], [not |-> Typed({"integer"})],
   [ref |-> "one"]}
Malformed ==
  {[ref |-> "none"], [enum |-> <<>>], [multipleOf |-> 0], [minItems |-> -1], [type |-> {"float"}],
   [pattern |-> Letters("a**")], [items |-> [anyOf |-> <<>>]], [not |-> [ref |-> "none"]]}
Referring ==
  {[ref |-> "#"], [not |-> [ref |-> "#"]], [ref |-> "loop"], [not |-> [ref |-> "loop"]],
   [ref |-> "two"], [ref |-> "three"], [anyOf |-> <<[ref |-> "three"], Typed({"null"})>>],
   [items |-> [ref |-> "#"], maxItems |-> 1], [oneOf |-> <<[ref |-> "loop"], Typed({"integer"})>>],
   [properties |-> <<Named("a", [ref |-> "#"])>>, additionalProperties |-> Never],
   [items |-> [items |-> [ref |-> "two"]]], [ref |-> "one", minimum |-> 3]}
Defs ==
  [one |-> Typed({"integer"}), two |-> [ref |-> "one"], three |-> [ref |-> "two", maximum |-> 6],
   loop |-> [ref |-> "loop"]]
Numbers == {Codec!Whole(n) : n \in {0, 1, 2}} \cup {Codec!Half(n) : n \in {2, 3, 4}}
Strings == {Text(w) : w \in {"", "a", "ab", "ba"}}
Lists ==
  {Codec!Arr(items) : items \in {<<>>, <<Codec!Whole(1)>>, <<Text("a"), Text("a"), Codec!Whole(2)>>,
     <<Codec!Whole(1), Codec!Half(2)>>, <<Text("a"), Codec!Whole(1), Codec!Half(2)>>, <<Codec!Arr(<<>>)>>, <<Codec!Arr(<<Codec!Arr(<<Codec!Whole(1)>>)>>)>>,
     <<Codec!Arr(<<Text("a")>>), Codec!Arr(<<Text("a")>>)>>}}
Maps ==
  {Codec!Obj(entries) : entries \in {<<>>, <<Named("a", Codec!Whole(1))>>,
     <<Named("b", Text("a")), Named("a", Codec!Half(3))>>,
     <<Named("b", Text("a")), Named("c", Codec!Null), Named("a", Codec!Half(3))>>, <<Named("/", Codec!Whole(2)), Named("~", Codec!Whole(1))>>,
     <<Named("~/a", Text("")), Named("ab", Codec!Null)>>,
     <<Named("a", Codec!Obj(<<Named("a", Codec!Obj(<<Named("a", Codec!Obj(<<>>))>>))>>))>>}}
Nested ==
  {Codec!Arr(<<m, m>>) : m \in Maps} \cup {Codec!Obj(<<Named("a", l)>>) : l \in Lists}
Subjects == {Codec!Null, Codec!Bool(TRUE)} \cup Numbers \cup Strings \cup Lists \cup Maps \cup Nested
Document(node) == [doc |-> [root |-> node, defs |-> Defs], values |-> Subjects]
MCSchemas ==
  {Document(node) : node \in Malformed \cup Referring \cup OneKeyword}
  \cup {Document(a @@ b) : a, b \in OneKeyword \ {Always, Never}}
  \cup {Document([k \in {c} |-> a]) : c \in {"not", "items", "additionalProperties"}, a \in OneKeyword}
  \cup {Document([k \in {c} |-> <<a, b>>]) : c \in {"anyOf", "oneOf"}, a, b \in OneKeyword}
\* Progressions, with templates of knowledge/voicings.json.
Chord(root, triad, seventh) ==
  [root |-> [letter |-> root, acc |-> 0], triad |-> triad, seventh |-> seventh, extensions |-> {},
   added |-> {}, alterations |-> {}, omissions |-> {}, alt |-> FALSE, bass |-> {}]
Spaced == <<[below |-> 48, gap |-> 7], [below |-> 55, gap |-> 4], [below |-> 128, gap |-> 1]>>
Shape(id, family, layout, required, low, high) ==
  [id |-> id, family |-> family, voices |-> Len(layout), layout |-> layout, required |-> required,
   low |-> low, high |-> high, spacing |-> Spaced, styles |-> {"common"}]
One == <<1, 0>>
Three == <<3, 0>>
Five == <<5, 0>>
Seven == <<7, 0>>
Shapes ==
  {Shape(1, "close", <<One, Three, Five>>, {One, Three}, 55, 84),
   Shape(2, "close", <<One, Five, One, Three>>, {One, Three}, 40, 79),
   Shape(3, "close", <<Three, Five, Seven, One>>, {One, Three, Seven}, 55, 86),
   Shape(4, "drop2", <<Five, One, Three, Seven>>, {One, Three, Seven}, 48, 88),
   Shape(5, "rootless", <<Three, <<13, -1>>, <<7, -1>>, <<9, -1>>>>, {Three, <<7, -1>>}, 55, 81),
   [Shape(6, "power", <<One, Five>>, {One, Five}, 40, 72) EXCEPT !.styles = {"rock"}]}
Tonic == Chord(0, "major", "none")
Dominant == Chord(4, "major", "minor")
Under(spec, inversion, k) == [spec |-> spec, inversion |-> inversion, onset |-> 4 * (k - 1), end |-> 4 * k]
MCProgressions ==
  {[chords |-> [k \in DOMAIN cs |-> Under(cs[k][1], cs[k][2], k)] \o <<>>, templates |-> Shapes,
    chain |-> IF v = 3 THEN {"common"} ELSE {"common", "rock"}, melody |-> m, instrument |-> i, treatment |-> t,
    vp |-> [voices |-> v, families |-> IF v = 3 THEN {} ELSE {"close", "drop2", "rootless", "power"},
            low |-> w[1], high |-> w[2], top |-> w[1] # 52, leap |-> IF v = 3 THEN 12 ELSE 5]]
     : cs \in {<<<<Dominant, 1>>, <<Chord(5, "minor", "none"), 0>>>>, <<<<Tonic, 0>>, <<Chord(3, "major", "none"), 1>>, <<Dominant, 3>>>>,
               <<<<Chord(1, "minor", "minor"), 0>>, <<[Dominant EXCEPT !.alterations = {<<9, -1>>}], 0>>,
                 <<Chord(0, "major", "major"), 0>>>>,
               <<<<[Tonic EXCEPT !.bass = {[letter |-> 4, acc |-> 0]}], 0>>, <<Chord(4, "sus4", "minor"), 0>>>>,
               <<<<Chord(6, "diminished", "diminished"), 0>>, <<Chord(2, "power", "none"), 0>>, <<Tonic, 1>>>>},
       m \in {{}, {[onset |-> 2, length |-> 4, midi |-> 72]}, {[onset |-> 0, length |-> 8, midi |-> 55]}},
       i \in {{}, {[low |-> 50, high |-> 79, spacing |-> Spaced]}},
       t \in {"forbidden", "idiomatic"}, v \in {3, 4}, w \in {<<48, 84>>, <<52, 67>>, <<48, 60>>}}

-----------------------------------------------------------------------------
(* Documents: one that is complete, and each with one thing done to it. *)
MCPitchNames == {"C4", "Eb4"}
MCClassNames == {"C", "Eb"}
BeatsOfKey(key, n) ==
  CASE key \in {"end", "end_qn", "loop_end"} -> "4"
    [] key = "duration" -> "1/2"
    [] OTHER -> IF n = 1 THEN "0" ELSE "1"

\* The n-th value of a list that is to be written under a key.
RECURSIVE Good(_, _, _)
Member(field, n) ==
  IF field.as = Forms!OneOf({})
  THEN Forms!Filled(field.default, "pitch" :> Good(Forms!Pitch, "pitch", n))
  ELSE Good(field.as, field.key, n)
Good(as, key, n) ==
  CASE as[1] = "str" -> Forms!Str("a")
    [] as[1] = "bool" -> <<"bool", TRUE>>
    [] as[1] \in {"number", "weight", "multiplier"} -> Forms!Halves(3)
    [] as[1] = "int" -> Forms!Num(IF as[4] = "exact" THEN n - 1 ELSE n)
    [] as[1] \in {"beat", "beat text"} -> Forms!Str(BeatsOfKey(key, n))
    [] as[1] = "whatever" -> Forms!Str("a")
    [] as[1] = "pair" -> Forms!Arr(<<Forms!Str("a"), Forms!Num(1)>>)
    [] as[1] = "member" -> Forms!Str(CHOOSE t \in as[2] : TRUE)
    [] as[1] \in {"list", "some", "pick"} -> Forms!Arr(<<Good(as[2], key, 1), Good(as[2], key, 2)>>)
    [] as[1] = "map" -> Forms!Obj("k" :> Good(as[2], "k", 1))
    [] as[1] = "either" -> Good(Forms!Rec(as[3][CHOOSE t \in DOMAIN as[3] : TRUE]), key, n)
    [] as[1] = "rec" ->
         Forms!Obj([k \in Forms!Keys(as[2]) \cup as[2].derived |->
           IF k \in as[2].derived THEN Forms!Str("shown") ELSE Member(as[2].fields[Forms!Place(as[2], k)], n)])

\* What is certainly not such a value.
Wrong(as) ==
  CASE as[1] = "str" -> Forms!Num(1)
    [] as[1] = "pair" -> Forms!Arr(<<Forms!Str("a")>>)
    [] OTHER -> Forms!Str("?")
With(doc, k, v) == Forms!Obj((k :> v) @@ doc[2])
Dropped(doc, k) == Forms!Obj([x \in DOMAIN doc[2] \ {k} |-> doc[2][x]])
Asks(name, doc, how, k, rest) == [type |-> name, doc |-> doc, how |-> how, key |-> k, rest |-> rest]

\* One thing done to the member k that is read as it says.
Slips(name, doc, as, k) ==
  UNION {{Asks(name, Dropped(doc, k), "drop", k, Dropped(doc, k)),
          Asks(name, With(doc, k, Forms!Null), "null", k, Dropped(doc, k))},
         IF as[1] = "whatever" THEN {}
         ELSE {Asks(name, With(doc, k, Wrong(as)), "wrong", k, Dropped(doc, k))},
         IF as[1] # "str" THEN {}
         ELSE {Asks(name, With(doc, k, Forms!Str("")), "empty", k, Dropped(doc, k))},
         IF as[1] \notin {"list", "some", "pick"} THEN {}
         ELSE {Asks(name, With(doc, k, Forms!Arr(InsertAt(doc[2][k][2], i, Wrong(as[2])))), "entry", k, doc)
                 : i \in 1..3},
         IF as[1] # "int" \/ as[4] = "exact" THEN {}
         ELSE {Asks(name, With(doc, k, Forms!Num(as[2] - 1)), "below", k, doc)},
         IF as[1] # "int" \/ as[4] = "exact" \/ as[3] = 2147483647 THEN {}
         ELSE {Asks(name, With(doc, k, Forms!Num(as[3] + 1)), "beyond", k, doc)}}
Damaged(name, doc) ==
  {Asks(name, doc, "none", "k", doc), Asks(name, With(doc, "beside", Forms!Num(1)), "extra", "beside", doc),
   Asks(name, Forms!Arr(<<>>), "root", "k", doc)}
  \cup UNION {Slips(name, doc, Forms!Types[name].fields[Forms!Place(Forms!Types[name], k)].as, k)
                : k \in Forms!Keys(Forms!Types[name])}
MCDocuments == UNION {Damaged(name, Good(Forms!Rec(Forms!Types[name]), "", 1)) : name \in DOMAIN Forms!Types}

(* What crosses the IPC directory: plans with one operation, precondition or
   output of each kind, and each again in other shapes on the wire. *)
PlanOf(ops, holds, outputs) ==
  Forms!Obj([k \in Forms!Keys(Forms!EditPlan) |->
    CASE k = "operations" -> Forms!Arr(ops) [] k = "preconditions" -> Forms!Arr(holds)
      [] k = "expected_outputs" -> Forms!Arr(outputs) [] OTHER -> Forms!Str("a")])
Tagging == {Forms!Nothing, "QLABS_ROLE" :> Forms!Str("bed"), "OTHER" :> Forms!Str("bed"),
            ("QLABS_ROLE" :> Forms!Str("bed")) @@ ("QLABS_OWNER" :> Forms!Str("me"))}
           \cup {"QLABS_ROLE" :> Forms!Str(t) : t \in {"long", "tab", "bell"}}
OpsOf(name) ==
  LET op == Good(Forms!Rec(Forms!Operations[name]), "", 1)
  IN {op} \cup (IF "tags" \in DOMAIN op[2] THEN {With(op, "tags", Forms!Obj(t)) : t \in Tagging} ELSE {})
     \cup (IF name = "create_track" THEN {With(op, "parent", Forms!Null)} ELSE {})
     \cup (IF name \in {"create_region", "create_midi_send"} THEN {Dropped(op, "temp_id")} ELSE {})
ExpectedPlans ==
  {PlanOf(<<>>, <<>>, <<With(Good(Forms!Rec(Forms!ExpectedOutput), "", 1), "note_count", n)>>)
     : n \in {Forms!Null, Forms!Num(2)}}
GuardedPlans ==
  {PlanOf(<<>>, <<Good(Forms!Rec(Forms!Preconditions[name]), "", 1)>>, <<>>) : name \in DOMAIN Forms!Preconditions}
WorkingPlans == UNION {{PlanOf(<<op>>, <<>>, <<>>) : op \in OpsOf(name)} : name \in DOMAIN Forms!Operations}
TagShapes(tags) ==
  {Forms!Arr([i \in DOMAIN tags |-> Forms!Obj([key |-> tags[i][2][1], value |-> tags[i][2][2]])]), Forms!Arr(tags)}
  \cup (IF tags = <<>> THEN {Forms!Null}
        ELSE {Forms!Arr(<<Forms!Arr(<<tags[1][2][1], Forms!Str("earlier")>>)>> \o tags)})
BrokenTags == {Forms!Arr(<<t>>) : t \in {Forms!Str("QLABS_ROLE"), Forms!Arr(<<Forms!Str("QLABS_ROLE")>>),
                                        Forms!Arr(<<Forms!Str("QLABS_ROLE"), Forms!Num(1)>>),
                                        Forms!Obj([key |-> Forms!Str("QLABS_ROLE")])}}
Reop(wire, op) == With(wire, "operations", Forms!Arr(<<op>>))
PlanAsked(doc, wire, sound) == [what |-> "plan", doc |-> doc, wire |-> wire, sound |-> sound]
Retagged(doc, wire) ==
  LET op == wire[2]["operations"][2][1]
  IN IF ~Forms!Has(op, "tags") THEN {}
     ELSE {PlanAsked(doc, Reop(wire, With(op, "tags", t)), TRUE) : t \in TagShapes(op[2]["tags"][2])}
          \cup {PlanAsked(doc, Reop(wire, With(op, "tags", doc[2]["operations"][2][1][2]["tags"])), TRUE)}
          \cup {PlanAsked(doc, Reop(wire, With(op, "tags", t)), FALSE) : t \in BrokenTags}
Reguarded(doc, wire) ==
  LET hold == wire[2]["preconditions"][2][1]
  IN {PlanAsked(doc, With(wire, "preconditions", Forms!Arr(<<h>>)), TRUE)
        : h \in {doc[2]["preconditions"][2][1], With(hold, "kind", hold[2]["type"]),
                 With(With(hold, "kind", hold[2]["type"]), "type", Forms!Str("other"))}}
     \cup {PlanAsked(doc, With(wire, "preconditions", Forms!Arr(<<Dropped(hold, "type")>>)), FALSE)}
PlanMessages ==
  {PlanAsked(doc, Wire!PlanToWire(doc), TRUE) : doc \in WorkingPlans \cup GuardedPlans \cup ExpectedPlans}
  \cup {PlanAsked(doc, doc, TRUE) : doc \in WorkingPlans}
  \cup UNION {Retagged(doc, Wire!PlanToWire(doc)) : doc \in WorkingPlans}
  \cup UNION {Reguarded(doc, Wire!PlanToWire(doc)) : doc \in GuardedPlans}

(* Requests: as they are built, for several moments and bridges, and with one
   member damaged. *)
Ask(id, command, token, payload, expected, pin) ==
  [id |-> id, command |-> command, token |-> token, payload |-> payload, expected |-> expected,
   pin |-> pin, created |-> 0, expires |-> 60]
Payloads == {Forms!Null, Forms!Obj(Forms!Nothing), Forms!Obj("transaction_id" :> Forms!Str("a")),
             Forms!Obj("plan" :> Forms!Obj("transaction_id" :> Forms!Str("a"))), Forms!Arr(<<>>)}
Expecting == Forms!Obj([k \in Forms!Keys(Wire!ExpectedProject) |->
                          IF k = "midi_hash" THEN Forms!Str("h") ELSE Forms!Null])
Asked1 == Ask("r1", "stage_candidate", "key", Forms!Obj(Forms!Nothing), Forms!Null, Forms!Null)
Asks2 ==
  {[Asked1 EXCEPT !.payload = p, !.expected = e] : p \in Payloads, e \in {Forms!Null, Expecting}}
  \cup {[Asked1 EXCEPT !.id = "../x"], [Asked1 EXCEPT !.command = "eval"], [Asked1 EXCEPT !.token = ""],
        [Asked1 EXCEPT !.command = "ping"], [Asked1 EXCEPT !.pin = Forms!Str("1.0.0")],
        [Asked1 EXCEPT !.expected = Forms!Obj([k \in Forms!Keys(Wire!ExpectedProject) |-> Forms!Null])]}
Bridge0 == [token |-> "key", version |-> "1.0.0", now |-> 0, seen |-> {}, responder |-> "default",
            resultSize |-> 3, calls |-> <<>>, results |-> Forms!Nothing, claimed |-> 0,
            processed |-> 0, failed |-> 0, quarantined |-> <<>>]
Bridges == {[Bridge0 EXCEPT !.now = t] : t \in {60, 65, 66}}
           \cup {[Bridge0 EXCEPT !.responder = r] : r \in {"default", "failing", "silent"}}
           \cup {[Bridge0 EXCEPT !.token = t] : t \in {"", "other"}}
           \cup {[Bridge0 EXCEPT !.seen = {"r1"}], [Bridge0 EXCEPT !.resultSize = 4], [Bridge0 EXCEPT !.version = "2.0.0"]}
File(stem, size, body) == [stem |-> stem, size |-> size, body |-> body]
Exchange(ask, files, bridge, honest) ==
  [what |-> "exchange", ask |-> ask, files |-> files, bridge |-> bridge, honest |-> honest]
Honest(ask, bridge) ==
  /\ bridge.now <= 60 /\ bridge.responder # "silent" /\ bridge.token = ask.token
  /\ ask.id \notin bridge.seen /\ ask.pin \in {Forms!Null, Forms!Str(bridge.version)}
BuiltBody(ask) == Wire!Build(ask).value
Slip1(body) == {Dropped(body, k) : k \in DOMAIN body[2]}
               \cup {With(body, k, v) : k \in DOMAIN body[2] \cup {"expected_project"},
                                       v \in {Forms!Null, Forms!Num(1), Forms!Str(""), Forms!Str("other")}}
               \cup {<<"garbage">>, Forms!Arr(<<>>)}
ExchangeMessages ==
  {Exchange(a, IF Wire!Build(a).ok THEN <<File(a.id, 3, BuiltBody(a))>> ELSE <<>>, b, Honest(a, b))
     : a \in Asks2, b \in Bridges}
  \cup {Exchange(Asked1, <<File("r1", n, body)>>, Bridge0, FALSE) : body \in Slip1(BuiltBody(Asked1)), n \in {3, 4}}
  \cup {Exchange(Asked1, <<File(s, 3, BuiltBody(Asked1)), File(t, 3, BuiltBody([Asked1 EXCEPT !.id = "r2"])),
                          File("r3", 3, BuiltBody([Asked1 EXCEPT !.id = "r3"]))>>, Bridge0, FALSE)
          : s \in {"r1", "r2", "../x"}, t \in {"r1", "r2"}}

(* Results: one of each kind, and with one member damaged. *)
Result(ok, result, error) ==
  Forms!Obj([protocol_version |-> Forms!Str("qlabs-reaper-ipc/1"), ok |-> <<"bool", ok>>,
             result |-> result, error |-> error])
WireErrors == {Forms!Obj([code |-> Forms!Str("NO_MIDI_SOURCE"), details |-> d])
                 : d \in {Forms!Null, Forms!Str("why"), Forms!Arr(<<>>), Forms!Obj("a" :> Forms!Num(1))}}
              \cup {Forms!Str("why"), Forms!Obj(Forms!Nothing)}
ResultMessages ==
  {[what |-> "result", doc |-> doc, failure |-> ""]
     : doc \in UNION {{Result(TRUE, r, Forms!Null), Result(FALSE, Forms!Null, e), Result(TRUE, r, e), Result(FALSE, r, e)}
                      \cup Slip1(Result(TRUE, r, Forms!Null)) \cup Slip1(Result(FALSE, Forms!Null, e))
                        : r \in {Forms!Null, Forms!Obj("a" :> Forms!Num(1))}, e \in WireErrors}}
  \cup {[what |-> "result", doc |-> Result(FALSE, Forms!Null, e), failure |-> "NO_MIDI_SOURCE"]
          : e \in {x \in WireErrors : Forms!Has(x, "code")}}

(* Snapshots: whole, in part, without a take or without markers, and with one
   thing changed on the way. *)
SnapshotBase ==
  Forms!Obj([k \in Forms!Keys(Wire!Snapshot) |->
    CASE k = "notes" -> Forms!Arr(<<Good(Forms!Rec(Wire!SnapshotNote), "", 1), Good(Forms!Rec(Wire!SnapshotNote), "", 2)>>)
      [] k = "tempo_markers" -> Forms!Arr(<<Good(Forms!Rec(Wire!SnapshotTempoMarker), "", 2)>>)
      [] k \in {"note_count", "source_note_count"} -> Forms!Num(2)
      [] k \in Wire!Hashes -> Forms!Str(k)
      [] OTHER -> Good(Wire!Snapshot.fields[Forms!Place(Wire!Snapshot, k)].as, k, 1)])
Origins == {SnapshotBase, With(SnapshotBase, "source_note_count", Forms!Num(3)),
            With(SnapshotBase, "tempo_markers", Forms!Arr(<<>>)),
            With(With(With(SnapshotBase, "midi_hash", Forms!Null), "note_selection_hash", Forms!Null), "take_guid", Forms!Null)}
Otherwise(json) ==
  CASE json[1] = "int" -> Forms!Num(json[2] + 1) [] json[1] = "float" -> Forms!Halves(json[2] + 1)
    [] json[1] = "bool" -> <<"bool", ~json[2]>> [] json[1] = "str" -> Forms!Str("other")
    [] OTHER -> Forms!Str("other")
ItemsChanged(list) ==
  {Forms!Arr(Tail(list)), Forms!Arr(<<list[Len(list)]>> \o SubSeq(list, 1, Len(list) - 1)), Forms!Arr(list \o <<list[1]>>),
   Forms!Arr(<<Forms!Str("other")>>)}
  \cup {Forms!Arr([list EXCEPT ![i] = With(list[i], k, Otherwise(list[i][2][k]))])
          : i \in DOMAIN list, k \in DOMAIN list[1][2]}
  \cup {Forms!Arr([list EXCEPT ![i] = Dropped(list[i], k)]) : i \in DOMAIN list, k \in DOMAIN list[1][2]}
Changed(doc, k) ==
  {doc, Dropped(doc, k), With(doc, k, Forms!Null), With(doc, k, Forms!Str("")), With(doc, k, Otherwise(doc[2][k]))}
  \cup (IF k \notin {"notes", "tempo_markers"} \/ doc[2][k][2] = <<>> THEN {}
        ELSE {With(doc, k, list) : list \in ItemsChanged(doc[2][k][2])})
SnapshotMessages ==
  UNION {{[what |-> "snapshot", origin |-> o, doc |-> d] : d \in UNION {Changed(o, k) : k \in DOMAIN o[2]}} : o \in Origins}

MCMessages == PlanMessages \cup ExchangeMessages \cup ResultMessages \cup SnapshotMessages
=============================================================================
